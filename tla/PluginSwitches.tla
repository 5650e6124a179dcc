--------------------------- MODULE PluginSwitches ---------------------------
(***************************************************************************)
(* Which plugins a tenant may use: the rows of tenant_plugins, which       *)
(* togglePlugin, changes of the plan and offboarding write; the cached     *)
(* list of enabled plugins from which PluginRegistryService answers; and   *)
(* the jobs that initialise a plugin enabled for the first time.           *)
(*                                                                         *)
(* A step is one statement that others can come between, or one            *)
(* transaction.  One tenant: rows, entry and jobs of another are apart.    *)
(***************************************************************************)
EXTENDS Naturals, FiniteSets

CONSTANTS Plugins, Tiers, Calls, Requests, Jobs, None

\* What a plugin depends on, in the built-in manifests.
Dependencies == [customer_data |-> {}, analytics |-> {},
                 customer_care |-> {"customer_data"}, marketing |-> {"customer_data"},
                 automation |-> {"customer_data", "analytics"}]

TierOrder == [basic |-> 0, premium |-> 1, enterprise |-> 2, vip |-> 3]

TierDefaults == [basic |-> {"customer_data"},
                 premium |-> {"customer_data", "customer_care", "analytics"},
                 enterprise |-> {"customer_data", "customer_care", "analytics", "marketing"},
                 vip |-> DOMAIN Dependencies]

\* The plugins of the instance come with what they depend on.
ASSUME SwitchConstants ==
    /\ Plugins \subseteq DOMAIN Dependencies /\ Tiers \subseteq DOMAIN TierOrder
    /\ \A p \in Plugins : Dependencies[p] \subseteq Plugins
    /\ None \notin Plugins \cup Tiers

VARIABLES
    tier,     \* of the tenant's row
    row,      \* rows of tenant_plugins
    entry,    \* tenant-config:enabled-plugins in Redis
    call,     \* togglePlugin, update, confirmDowngrade and offboard calls
    request,  \* getEnabledPlugins
    job,      \* the plugin-init queue
    raced     \* not in the code: the entry was stored after a change it does
              \* not know, or a call failed before it deleted the entry

vars == <<tier, row, entry, call, request, job, raced>>

Row == [enabled : BOOLEAN, initialized : BOOLEAN]
\* seen, first: what togglePlugin read; from: the tier that confirmDowngrade
\* read; was: the tier that update read.
Call == [pc : {"idle", "write", "queue", "confirmed", "apply", "drop"},
         plugin : Plugins \cup {None}, on : BOOLEAN, first : BOOLEAN, seen : SUBSET Plugins,
         plan : Tiers \cup {None}, from : Tiers \cup {None}, was : Tiers \cup {None}]
NoCall == [pc |-> "idle", plugin |-> None, on |-> FALSE, first |-> FALSE, seen |-> {},
           plan |-> None, from |-> None, was |-> None]
Request == [pc : {"idle", "read", "fill"}, list : SUBSET Plugins]
NoRequest == [pc |-> "idle", list |-> {}]
\* shared is not in the code: another job of the plugin ran at the same time.
Job == [pc : {"none", "waiting", "running"}, plugin : Plugins \cup {None}, shared : BOOLEAN]
NoJob == [pc |-> "none", plugin |-> None, shared |-> FALSE]

ASSUME NoneIsNoRow == None \notin Row

EnabledIn(rows) == {p \in Plugins : rows[p] # None /\ rows[p].enabled}
Enabled == EnabledIn(row)

TypeOK ==
    /\ tier \in Tiers
    /\ row \in [Plugins -> Row \cup {None}]
    /\ entry \in {None} \cup SUBSET Plugins
    /\ call \in [Calls -> Call]
    /\ request \in [Requests -> Request]
    /\ job \in [Jobs -> Job]
    /\ raced \in BOOLEAN
    /\ \A c \in Calls :
          /\ call[c].pc \in {"write", "queue"} => call[c].plugin \in Plugins
          /\ call[c].pc = "queue" => row[call[c].plugin] # None
          /\ call[c].pc = "confirmed" => call[c].from \in Tiers
          /\ call[c].pc \in {"confirmed", "apply"} => call[c].plan \in Tiers
          /\ call[c].pc = "apply" => call[c].was \in Tiers
    /\ \A j \in Jobs : job[j].pc # "none" => job[j].plugin \in Plugins /\ row[job[j].plugin] # None

\* create() gives a tenant the plugins of its tier.
Init ==
    /\ tier \in Tiers
    /\ row = [p \in Plugins |-> IF p \in TierDefaults[tier] THEN [enabled |-> TRUE, initialized |-> FALSE] ELSE None]
    /\ entry = None
    /\ call = [c \in Calls |-> NoCall]
    /\ request = [r \in Requests |-> NoRequest]
    /\ job = [j \in Jobs |-> NoJob]
    /\ raced = FALSE

-----------------------------------------------------------------------------
(* togglePlugin *)

MissingDeps(p, enabled) == Dependencies[p] \ enabled
BlockingDependents(p, enabled) == {q \in enabled : p \in Dependencies[q]}

\* The rows are read and the dependencies checked; a refused call ends here.
Begin(c, p, on) ==
    /\ call[c].pc = "idle"
    /\ call' = [call EXCEPT ![c] = [NoCall EXCEPT !.pc = "write", !.plugin = p, !.on = on, !.seen = Enabled,
                                                  !.first = row[p] = None \/ ~row[p].initialized]]
    /\ UNCHANGED <<tier, row, entry, request, job, raced>>
\* Faulty variant of Toggle: a plugin is disabled whatever depends on it.
ToggleWithoutDependents(c, p, on) ==
    /\ on => MissingDeps(p, Enabled) = {}
    /\ Begin(c, p, on)
Toggle(c, p, on) ==
    /\ IF on THEN MissingDeps(p, Enabled) = {} ELSE BlockingDependents(p, Enabled) = {}
    /\ Begin(c, p, on)

Switched(old, on) == IF old = None THEN [enabled |-> on, initialized |-> FALSE] ELSE [old EXCEPT !.enabled = on]

WriteAs(c, newRow) ==
    /\ call[c].pc = "write"
    /\ row' = newRow
    /\ call' = [call EXCEPT ![c] = IF @.on /\ @.first THEN [NoCall EXCEPT !.pc = "queue", !.plugin = call[c].plugin]
                                   ELSE [NoCall EXCEPT !.pc = "drop"]]
    /\ UNCHANGED <<tier, entry, request, job, raced>>
\* Faulty variant of Write: an UPDATE, which finds no row of a plugin never enabled before.
WriteExisting(c) ==
    LET p == call[c].plugin
    IN  WriteAs(c, IF row[p] = None THEN row ELSE [row EXCEPT ![p] = Switched(@, call[c].on)])
\* INSERT ... ON CONFLICT DO UPDATE, a transaction of its own.
Write(c) == WriteAs(c, [row EXCEPT ![call[c].plugin] = Switched(@, call[c].on)])

Queue(c, j) ==
    /\ call[c].pc = "queue" /\ job[j].pc = "none"
    /\ job' = [job EXCEPT ![j] = [NoJob EXCEPT !.pc = "waiting", !.plugin = call[c].plugin]]
    /\ call' = [call EXCEPT ![c] = [NoCall EXCEPT !.pc = "drop"]]
    /\ UNCHANGED <<tier, row, entry, request, raced>>

\* The call's last step; delForTenant or, after offboarding, flushTenant.
Drop(c) ==
    /\ call[c].pc = "drop"
    /\ entry' = None /\ raced' = FALSE
    /\ call' = [call EXCEPT ![c] = NoCall]
    /\ UNCHANGED <<tier, row, request, job>>

\* Redis does not answer (the job is not queued, the entry not deleted), or the process dies.
Fail(c) ==
    /\ call[c].pc \in {"queue", "drop"}
    /\ call' = [call EXCEPT ![c] = NoCall]
    /\ raced' = (raced \/ entry # None)
    /\ UNCHANGED <<tier, row, entry, request, job>>

-----------------------------------------------------------------------------
(* Changes of the plan, offboarding *)

\* Faulty variant of Confirm: any plan but VIP passes for a downgrade.
ConfirmAny(c, plan) ==
    /\ call[c].pc = "idle" /\ "vip" \notin {plan, tier}
    /\ call' = [call EXCEPT ![c] = [NoCall EXCEPT !.pc = "confirmed", !.plan = plan, !.from = tier]]
    /\ UNCHANGED <<tier, row, entry, request, job, raced>>
\* confirmDowngrade: the plan is compared with the tier that findOne returned.
Confirm(c, plan) == TierOrder[plan] < TierOrder[tier] /\ ConfirmAny(c, plan)

\* update reads the tier, without a lock, before it writes; by itself or for confirmDowngrade.
ReadTier(c, plan) ==
    /\ \/ call[c].pc = "idle"
       \/ call[c].pc = "confirmed" /\ call[c].plan = plan
    /\ call' = [call EXCEPT ![c].pc = "apply", ![c].plan = plan, ![c].was = tier]
    /\ UNCHANGED <<tier, row, entry, request, job, raced>>

Gained(was, plan) == (TierDefaults[plan] \ TierDefaults[was]) \cap Plugins
Lost(was, plan) == TierDefaults[was] \ TierDefaults[plan]

\* The plugins by which the tiers differ are switched, and nothing else: no
\* dependency is looked at and no job queued.
SwitchPlan(was, plan) ==
    [p \in Plugins |-> IF p \in Gained(was, plan) THEN Switched(row[p], TRUE)
                       ELSE IF p \in Lost(was, plan) /\ row[p] # None THEN Switched(row[p], FALSE)
                       ELSE row[p]]

\* UPDATE tenants, tenant_plugins, COMMIT; without a change of tier the entry stays.
ApplyThen(c, pc) ==
    /\ call[c].pc = "apply"
    /\ tier' = call[c].plan
    /\ row' = SwitchPlan(call[c].was, call[c].plan)
    /\ call' = [call EXCEPT ![c] = IF call[c].was = call[c].plan THEN NoCall ELSE [NoCall EXCEPT !.pc = pc]]
    /\ UNCHANGED <<entry, request, job, raced>>
\* Faulty variant of Apply: the entry is not deleted.
ApplyOnly(c) == ApplyThen(c, "idle")
Apply(c) == ApplyThen(c, "drop")

\* offboard: every plugin is disabled, then the tenant's keys are flushed.
Offboard(c) ==
    /\ call[c].pc = "idle"
    /\ row' = [p \in Plugins |-> IF row[p] = None THEN None ELSE Switched(row[p], FALSE)]
    /\ call' = [call EXCEPT ![c].pc = "drop"]
    /\ UNCHANGED <<tier, entry, request, job, raced>>

-----------------------------------------------------------------------------
(* getEnabledPlugins: on a miss, read the rows, then store the list *)

Miss(r) ==
    /\ request[r].pc = "idle" /\ entry = None
    /\ request' = [request EXCEPT ![r].pc = "read"]
    /\ UNCHANGED <<tier, row, entry, call, job, raced>>

ReadRows(r) ==
    /\ request[r].pc = "read"
    /\ request' = [request EXCEPT ![r] = [pc |-> "fill", list |-> Enabled]]
    /\ UNCHANGED <<tier, row, entry, call, job, raced>>

Fill(r) ==
    /\ request[r].pc = "fill"
    /\ entry' = request[r].list /\ raced' = (request[r].list # Enabled)
    /\ request' = [request EXCEPT ![r] = NoRequest]
    /\ UNCHANGED <<tier, row, call, job>>

\* Five minutes after it was stored.
ExpireEntry ==
    /\ entry # None
    /\ entry' = None /\ raced' = FALSE
    /\ UNCHANGED <<tier, row, call, request, job>>

-----------------------------------------------------------------------------
(* PluginInitProcessor, five jobs at a time *)

StartIf(j, due) ==
    LET others == {k \in Jobs \ {j} : job[k].pc = "running" /\ job[k].plugin = job[j].plugin}
    IN  /\ job[j].pc = "waiting"
        /\ job' = IF due THEN [k \in Jobs |-> IF k = j THEN [job[j] EXCEPT !.pc = "running", !.shared = others # {}]
                                                 ELSE IF k \in others THEN [job[k] EXCEPT !.shared = TRUE]
                                                 ELSE job[k]]
                  ELSE [job EXCEPT ![j] = NoJob]
        /\ UNCHANGED <<tier, row, entry, call, request, raced>>
\* Faulty variant of StartJob: initialized_at is not looked at.
StartJobAgain(j) == StartIf(j, TRUE)
StartJob(j) == StartIf(j, ~row[job[j].plugin].initialized)

EndJob(j) ==
    LET p == job[j].plugin
    IN  /\ job[j].pc = "running"
        /\ row' = [row EXCEPT ![p].initialized = TRUE]
        /\ job' = [job EXCEPT ![j] = NoJob]
        /\ UNCHANGED <<tier, entry, call, request, raced>>

-----------------------------------------------------------------------------
CallNext(c) ==
    \/ \E p \in Plugins, on \in BOOLEAN : Toggle(c, p, on)
    \/ \E plan \in Tiers : Confirm(c, plan) \/ ReadTier(c, plan)
    \/ \E j \in Jobs : Queue(c, j)
    \/ Write(c) \/ Drop(c) \/ Fail(c) \/ Apply(c) \/ Offboard(c)

RequestNext(r) == Miss(r) \/ ReadRows(r) \/ Fill(r)
JobNext(j) == StartJob(j) \/ EndJob(j)

Next ==
    \/ \E c \in Calls : CallNext(c)
    \/ \E r \in Requests : RequestNext(r)
    \/ \E j \in Jobs : JobNext(j)
    \/ ExpireEntry

Spec == Init /\ [][Next]_vars

-----------------------------------------------------------------------------
(* Properties *)

\* The list that requests are let in by is the list of the rows, but for the
\* time a call needs to delete it, and for a list that was read before a change
\* and stored after it, or whose deletion failed: those stay until they expire.
StaleIsExplained ==
    entry \notin {None, Enabled} => raced \/ \E c \in Calls : call[c].pc \in {"queue", "drop"}

Closed(enabled) == \A p \in enabled : Dependencies[p] \subseteq enabled

\* A plugin loses what it depends on only by a change of the plan, which looks
\* at no dependency, or by a switch whose call read the rows before another
\* call changed them.
TogglesKeepClosure ==
    [][Closed(Enabled) /\ ~Closed(Enabled')
          => \E c \in Calls : \/ call[c].pc = "apply"
                              \/ call[c].pc = "write" /\ call[c].seen # Enabled]_row

\* A confirmed downgrade lowers the tier, unless the tier changed after it was compared.
ConfirmedGoesDown ==
    [][\A c \in Calls : call[c].pc = "apply" /\ call'[c].pc # "apply" /\ call[c].from = tier
          => TierOrder[tier'] < TierOrder[tier]]_vars

\* A plugin is initialised twice only by jobs that ran at the same time: a job
\* that starts after another one ended, or is tried again, finds it done.
InitialisedOnce ==
    [][\A j \in Jobs : job[j].pc = "running" /\ job'[j].pc = "none" /\ row[job[j].plugin].initialized
          => job[j].shared]_vars
=============================================================================
