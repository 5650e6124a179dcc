--------------------------- MODULE EventPipeline ---------------------------
(***************************************************************************)
(* The two outboxes behind the automation plugin.  A plugin event is a row *)
(* of plugin_events; a poller of some instance of the application claims   *)
(* it, adds a job to a BullMQ queue, and a worker evaluates the tenant's   *)
(* triggers, which inserts one row of automation_action_events for each    *)
(* action.  A second poller and a second worker do the same for those      *)
(* rows and run the action: a webhook, a new case, a changed customer.     *)
(*                                                                         *)
(* One instance has both pollers and both workers, and loses what they     *)
(* hold in memory when it crashes.  A cron job gives events that were      *)
(* queued more than 15 minutes ago back to the pollers; nothing does that  *)
(* for action rows.  Time is abstract: any queued event may be that old.   *)
(***************************************************************************)
EXTENDS Naturals, FiniteSets

CONSTANTS
  Events,      \* the events plugins emit, all of one tenant
  Triggers,    \* the triggers of the tenant, with one action each
  Matching,    \* the triggers whose event type and conditions an event meets
  Instances,   \* running copies of the application
  BatchSize,   \* rows a poll claims at most (50)
  MaxTries,    \* attempts of a job before BullMQ gives it up (3)
  MaxClaims,   \* bound: how often an event is claimed
  MaxFaults,   \* bound: how many faults happen
  Faults,      \* the faults and deletions of this instance of the model
  None         \* an idle worker

MaxStalls == 1  \* BullMQ's maxStalledCount
MaxFired  == MaxClaims + MaxFaults  \* every evaluation but one of a job costs a fault

ASSUME PipelineConstants ==
  /\ Events \cap (Events \X Triggers \X Nat) = {}
  /\ Matching \in [Events -> SUBSET Triggers]
  /\ BatchSize \in Nat \ {0}
  /\ MaxTries \in Nat \ {0}
  /\ MaxClaims \in Nat \ {0}
  /\ MaxFaults \in Nat
  /\ Faults \subseteq {"queue", "crash", "step", "effect",
                      "expiry", "trigger", "tenant"}

Actions == Events \X Triggers \X (1 .. MaxFired)

Kinds == {"event", "action"}

RowsOf(k) == IF k = "event" THEN Events ELSE Actions

Rows == Events \cup Actions

KindOf(r) == IF r \in Events THEN "event" ELSE "action"

VARIABLES
  row,       \* status of the rows of both tables
  attempts,  \* automation_action_events.attempts
  expired,   \* events past expires_at
  triggers,  \* the tenant's rows of automation_triggers
  tenant,    \* whether the tenant's row exists
  held,      \* claimed rows a poller has not yet added to its queue
  jobs,      \* jobs waiting in the queues, delayed retries included
  worker,    \* what the workers do
  dead,      \* rows whose job BullMQ gave up
  claims,    \* history: how often a row was claimed
  fired,     \* history: how often an event's triggers were evaluated
  effects,   \* history: how often an action took effect
  faults     \* history: how many faults there were

tables == <<row, attempts, expired, triggers, tenant>>
queues == <<held, jobs, worker, dead>>
history == <<claims, fired, effects, faults>>
vars == <<tables, queues, history>>

Statuses == {"none", "pending", "queued", "processed", "processing",
             "completed", "failed", "gone"}

Claim == [of: Rows, claim: Nat]
Job   == [of: Rows, claim: Nat, tries: 0 .. MaxTries - 1, stalls: 0 .. MaxStalls]
Busy  == [job: Job, step: {"select", "insert", "mark", "begin", "run",
                           "complete", "ack"},
          read: SUBSET Triggers]

ASSUME IdleIsNoWork == None \notin Busy

TypeOK ==
  /\ row \in [Rows -> Statuses]
  /\ attempts \in [Actions -> Nat]
  /\ expired \subseteq Events
  /\ triggers \subseteq Triggers
  /\ tenant \in BOOLEAN
  /\ held \in [Instances \X Kinds -> SUBSET Claim]
  /\ worker \in [Instances \X Kinds -> Busy \cup {None}]
  /\ jobs \subseteq Job
  /\ dead \subseteq Rows
  /\ claims \in [Rows -> Nat]
  /\ fired \in [Events -> 0 .. MaxFired]
  /\ effects \in [Actions -> Nat]
  /\ faults \in 0 .. MaxFaults

Init ==
  /\ row = [r \in Rows |-> "none"]
  /\ attempts = [a \in Actions |-> 0]
  /\ expired = {}
  /\ triggers = Triggers
  /\ tenant = TRUE
  /\ held = [s \in Instances \X Kinds |-> {}]
  /\ jobs = {}
  /\ worker = [s \in Instances \X Kinds |-> None]
  /\ dead = {}
  /\ claims = [r \in Rows |-> 0]
  /\ fired = [e \in Events |-> 0]
  /\ effects = [a \in Actions |-> 0]
  /\ faults = 0

Exists(r) == row[r] \notin {"none", "gone"}

(* UPDATE ... SET status = s WHERE id = r: no effect on a row that is gone. *)
SetStatus(r, s) == row' = IF Exists(r) THEN [row EXCEPT ![r] = s] ELSE row

Fault(f) == /\ f \in Faults
            /\ faults < MaxFaults
            /\ faults' = faults + 1

-----------------------------------------------------------------------------
(* The rows. *)

Emit(e) ==
  /\ tenant
  /\ row[e] = "none"
  /\ row' = [row EXCEPT ![e] = "pending"]
  /\ UNCHANGED <<attempts, expired, triggers, tenant, queues, history>>

Expire(e) ==
  /\ "expiry" \in Faults
  /\ Exists(e)
  /\ expired' = expired \cup {e}
  /\ UNCHANGED <<row, attempts, triggers, tenant, queues, history>>

(* Every expired event is deleted, whatever its status. *)
PurgeExpired ==
  /\ \E e \in expired : Exists(e)
  /\ row' = [r \in Rows |-> IF r \in expired THEN "gone" ELSE row[r]]
  /\ UNCHANGED <<attempts, expired, triggers, tenant, queues, history>>

(* Faulty: resets by age alone. *)
ResetByAge(S) ==
  /\ S # {}
  /\ \A e \in S : row[e] \in {"queued", "processed"} /\ claims[e] < MaxClaims
  /\ row' = [r \in Rows |-> IF r \in S THEN "pending" ELSE row[r]]
  /\ UNCHANGED <<attempts, expired, triggers, tenant, queues, history>>

(* The cron job reads only rows that are still queued.  S are the ones that
   have been queued for more than 15 minutes. *)
ResetStuck(S) ==
  /\ S # {}
  /\ \A e \in S : row[e] = "queued" /\ claims[e] < MaxClaims
  /\ row' = [r \in Rows |-> IF r \in S THEN "pending" ELSE row[r]]
  /\ UNCHANGED <<attempts, expired, triggers, tenant, queues, history>>

(* Deleting triggers deletes their action rows: ON DELETE CASCADE. *)
DropTriggers(T) ==
  /\ triggers' = triggers \ T
  /\ row' = [r \in Rows |-> IF r \in Actions /\ r[2] \in T /\ Exists(r)
                             THEN "gone" ELSE row[r]]
  /\ UNCHANGED <<attempts, expired, tenant, queues, history>>

DeleteTrigger(t) ==
  /\ "trigger" \in Faults
  /\ t \in triggers
  /\ DropTriggers({t})

(* The hard delete of an offboarded tenant, which is no transaction: first
   the triggers, and statements later the tenant, with its events. *)
DeleteTriggers ==
  /\ "tenant" \in Faults
  /\ triggers # {}
  /\ DropTriggers(triggers)

DeleteTenant ==
  /\ "tenant" \in Faults
  /\ tenant
  /\ triggers = {}
  /\ tenant' = FALSE
  /\ row' = [r \in Rows |-> IF Exists(r) THEN "gone" ELSE row[r]]
  /\ UNCHANGED <<attempts, expired, triggers, queues, history>>

-----------------------------------------------------------------------------
(* The pollers. *)

Due(k) == {r \in RowsOf(k) : row[r] = "pending" /\ r \notin expired}

(* Faulty: reads the rows and does not mark them before it lets go. *)
PollUnmarked(i, k) ==
  /\ held[<<i, k>>] = {}
  /\ \E batch \in SUBSET Due(k) :
       /\ batch # {}
       /\ Cardinality(batch) <= BatchSize
       /\ batch = Due(k) \/ Cardinality(batch) = BatchSize
       /\ held' = [held EXCEPT ![<<i, k>>] =
                     {[of |-> r, claim |-> claims[r] + 1] : r \in batch}]
  /\ UNCHANGED <<tables, jobs, worker, dead, history>>

(* Faulty: marks every pending row and holds one batch of them. *)
PollMarksAllDue(i, k) ==
  /\ held[<<i, k>>] = {}
  /\ \E batch \in SUBSET Due(k) :
       /\ batch # {}
       /\ Cardinality(batch) <= BatchSize
       /\ batch = Due(k) \/ Cardinality(batch) = BatchSize
       /\ row' = [r \in Rows |-> IF r \in Due(k) THEN "queued" ELSE row[r]]
       /\ claims' = [r \in Rows |->
                       IF r \in Due(k) THEN claims[r] + 1 ELSE claims[r]]
       /\ held' = [held EXCEPT ![<<i, k>>] =
                     {[of |-> r, claim |-> claims[r] + 1] : r \in batch}]
  /\ UNCHANGED <<attempts, expired, triggers, tenant, jobs, worker, dead,
                 fired, effects, faults>>

(* SELECT ... FOR UPDATE SKIP LOCKED and UPDATE in one transaction: no other
   poller sees the rows pending. *)
Poll(i, k) ==
  /\ held[<<i, k>>] = {}
  /\ \E batch \in SUBSET Due(k) :
       /\ batch # {}
       /\ Cardinality(batch) <= BatchSize
       /\ batch = Due(k) \/ Cardinality(batch) = BatchSize
       /\ row' = [r \in Rows |-> IF r \in batch THEN "queued" ELSE row[r]]
       /\ claims' = [r \in Rows |->
                       IF r \in batch THEN claims[r] + 1 ELSE claims[r]]
       /\ held' = [held EXCEPT ![<<i, k>>] =
                     {[of |-> r, claim |-> claims[r] + 1] : r \in batch}]
  /\ UNCHANGED <<attempts, expired, triggers, tenant, jobs, worker, dead,
                 fired, effects, faults>>

Add(i, k) ==
  /\ \E c \in held[<<i, k>>] :
       /\ jobs' = jobs \cup {[of |-> c.of, claim |-> c.claim,
                              tries |-> 0, stalls |-> 0]}
       /\ held' = [held EXCEPT ![<<i, k>>] = @ \ {c}]
  /\ UNCHANGED <<tables, worker, dead, history>>

(* Redis refuses the job.  Events are added independently of each other;
   actions one after the other, so the rest of the batch is given up. *)
AddFails(i, k) ==
  /\ Fault("queue")
  /\ \E c \in held[<<i, k>>] :
       held' = [held EXCEPT ![<<i, k>>] = IF k = "event" THEN @ \ {c} ELSE {}]
  /\ UNCHANGED <<tables, jobs, worker, dead, claims, fired, effects>>

-----------------------------------------------------------------------------
(* The workers: concurrency 1 in each instance. *)

(* Faulty: marks the event processed without evaluating the triggers. *)
MarkFirst(k) == IF k = "event" THEN "mark" ELSE "begin"

FirstStep(k) == IF k = "event" THEN "select" ELSE "begin"

Take(i, k) ==
  /\ worker[<<i, k>>] = None
  /\ \E j \in jobs :
       /\ KindOf(j.of) = k
       /\ jobs' = jobs \ {j}
       /\ worker' = [worker EXCEPT ![<<i, k>>] =
                       [job |-> j, step |-> FirstStep(k), read |-> {}]]
  /\ UNCHANGED <<tables, held, dead, history>>

At(i, k, s) == worker[<<i, k>>] # None /\ worker[<<i, k>>].step = s

Row(i, k) == worker[<<i, k>>].job.of

GoTo(i, k, s) == worker' = [worker EXCEPT ![<<i, k>>].step = s]

(* Faulty: one attempt too many. *)
ThrowJobLate(i, k) ==
  LET j == worker[<<i, k>>].job IN
  /\ worker' = [worker EXCEPT ![<<i, k>>] = None]
  /\ IF j.tries < MaxTries
       THEN jobs' = jobs \cup {[j EXCEPT !.tries = @ + 1]} /\ UNCHANGED dead
       ELSE dead' = dead \cup {j.of} /\ UNCHANGED jobs
  /\ UNCHANGED held

(* What BullMQ does with a job whose processor threw: try it again later, or
   keep it as failed.  The processors' onFailed methods have no
   @OnWorkerEvent decorator and are not called. *)
ThrowJob(i, k) ==
  LET j == worker[<<i, k>>].job IN
  /\ worker' = [worker EXCEPT ![<<i, k>>] = None]
  /\ IF j.tries + 1 < MaxTries
       THEN jobs' = jobs \cup {[j EXCEPT !.tries = @ + 1]} /\ UNCHANGED dead
       ELSE dead' = dead \cup {j.of} /\ UNCHANGED jobs
  /\ UNCHANGED held

SelectTriggers(i) ==
  /\ At(i, "event", "select")
  /\ worker' = [worker EXCEPT ![<<i, "event">>].step = "insert",
                 ![<<i, "event">>].read = triggers \cap Matching[Row(i, "event")]]
  /\ UNCHANGED <<tables, held, jobs, dead, history>>

(* One INSERT for the actions of all the triggers that were read. *)
InsertActions(i) ==
  LET e == Row(i, "event") IN
  /\ At(i, "event", "insert")
  /\ worker[<<i, "event">>].read \subseteq triggers
  /\ fired[e] < MaxFired
  /\ fired' = [fired EXCEPT ![e] = @ + 1]
  /\ row' = [r \in Rows |->
               IF \E t \in worker[<<i, "event">>].read : r = <<e, t, fired[e] + 1>>
                 THEN "pending" ELSE row[r]]
  /\ GoTo(i, "event", "mark")
  /\ UNCHANGED <<attempts, expired, triggers, tenant, held, jobs, dead,
                 claims, effects, faults>>

(* A trigger was deleted since: the foreign key refuses the rows. *)
InsertRefused(i) ==
  /\ At(i, "event", "insert")
  /\ ~(worker[<<i, "event">>].read \subseteq triggers)
  /\ ThrowJob(i, "event")
  /\ UNCHANGED <<tables, history>>

MarkProcessed(i) ==
  /\ At(i, "event", "mark")
  /\ SetStatus(Row(i, "event"), "processed")
  /\ GoTo(i, "event", "ack")
  /\ UNCHANGED <<attempts, expired, triggers, tenant, held, jobs, dead, history>>

(* Faulty: counts the attempt only of a row that is still queued. *)
BeginQueuedAction(i) ==
  LET a == Row(i, "action") IN
  /\ At(i, "action", "begin")
  /\ SetStatus(a, "processing")
  /\ attempts' = IF row[a] = "queued"
                   THEN [attempts EXCEPT ![a] = @ + 1] ELSE attempts
  /\ GoTo(i, "action", "run")
  /\ UNCHANGED <<expired, triggers, tenant, held, jobs, dead, history>>

BeginAction(i) ==
  LET a == Row(i, "action") IN
  /\ At(i, "action", "begin")
  /\ SetStatus(a, "processing")
  /\ attempts' = IF Exists(a) THEN [attempts EXCEPT ![a] = @ + 1] ELSE attempts
  /\ GoTo(i, "action", "run")
  /\ UNCHANGED <<expired, triggers, tenant, held, jobs, dead, history>>

(* Without a tenant the row is marked failed and the job ends; the row is
   gone with the tenant. *)
TenantMissing(i) ==
  /\ At(i, "action", "run")
  /\ ~tenant
  /\ SetStatus(Row(i, "action"), "failed")
  /\ GoTo(i, "action", "ack")
  /\ UNCHANGED <<attempts, expired, triggers, tenant, held, jobs, dead, history>>

RunAction(i) ==
  /\ At(i, "action", "run")
  /\ tenant
  /\ effects' = [effects EXCEPT ![Row(i, "action")] = @ + 1]
  /\ GoTo(i, "action", "complete")
  /\ UNCHANGED <<tables, held, jobs, dead, claims, fired, faults>>

(* The webhook did its work and answered with an error, or not in time. *)
EffectThenThrow(i) ==
  /\ At(i, "action", "run")
  /\ tenant
  /\ Fault("effect")
  /\ effects' = [effects EXCEPT ![Row(i, "action")] = @ + 1]
  /\ ThrowJob(i, "action")
  /\ UNCHANGED <<tables, claims, fired>>

CompleteAction(i) ==
  /\ At(i, "action", "complete")
  /\ SetStatus(Row(i, "action"), "completed")
  /\ GoTo(i, "action", "ack")
  /\ UNCHANGED <<attempts, expired, triggers, tenant, held, jobs, dead, history>>

(* Any statement of a processor may throw instead. *)
StepFails(i, k) ==
  /\ worker[<<i, k>>] # None
  /\ worker[<<i, k>>].step # "ack"
  /\ Fault("step")
  /\ ThrowJob(i, k)
  /\ UNCHANGED <<tables, claims, fired, effects>>

Finish(i, k) ==
  /\ At(i, k, "ack")
  /\ worker' = [worker EXCEPT ![<<i, k>>] = None]
  /\ UNCHANGED <<tables, held, jobs, dead, history>>

(* The instance stops and starts again.  Its batches are lost; its jobs
   stall, and BullMQ lets a job stall once. *)
Crash(i) ==
  LET lost == {worker[<<i, k>>].job : k \in {k \in Kinds : worker[<<i, k>>] # None}}
      back == {j \in lost : j.stalls < MaxStalls}
  IN  /\ Fault("crash")
      /\ held' = [s \in Instances \X Kinds |-> IF s[1] = i THEN {} ELSE held[s]]
      /\ worker' = [s \in Instances \X Kinds |->
                      IF s[1] = i THEN None ELSE worker[s]]
      /\ jobs' = jobs \cup {[j EXCEPT !.stalls = @ + 1] : j \in back}
      /\ dead' = dead \cup {j.of : j \in lost \ back}
      /\ UNCHANGED <<tables, claims, fired, effects>>

-----------------------------------------------------------------------------
EventStep(i) == \/ SelectTriggers(i) \/ InsertActions(i) \/ InsertRefused(i)
                \/ MarkProcessed(i)

ActionStep(i) == \/ BeginAction(i) \/ TenantMissing(i) \/ RunAction(i)
                 \/ CompleteAction(i)

Serve(i, k) == Poll(i, k) \/ Add(i, k) \/ Take(i, k) \/ Finish(i, k)

Next ==
  \/ \E e \in Events : Emit(e) \/ Expire(e)
  \/ PurgeExpired
  \/ \E S \in SUBSET Events : ResetStuck(S)
  \/ \E t \in Triggers : DeleteTrigger(t)
  \/ DeleteTriggers
  \/ DeleteTenant
  \/ \E i \in Instances :
       \/ EventStep(i) \/ ActionStep(i) \/ EffectThenThrow(i) \/ Crash(i)
       \/ \E k \in Kinds : Serve(i, k) \/ AddFails(i, k) \/ StepFails(i, k)

Spec == Init /\ [][Next]_vars

(* Timers poll every five seconds, BullMQ starts waiting jobs, a running
   processor goes on, and the cron jobs see every event that stays queued or
   expired.  Nothing is assumed of expiry, deletions or faults. *)
Fairness ==
  /\ \A i \in Instances, k \in Kinds : WF_vars(Serve(i, k))
  /\ \A i \in Instances : WF_vars(EventStep(i)) /\ WF_vars(ActionStep(i))
  /\ \A e \in Events :
       WF_vars(\E S \in SUBSET Events : e \in S /\ ResetStuck(S))
  /\ WF_vars(PurgeExpired)

FairSpec == Spec /\ Fairness

-----------------------------------------------------------------------------
(* Properties. *)

(* Who has row r in hand: pollers, queued jobs, workers. *)
Carriers(r) ==
  {<<"held", s>> : s \in {s \in Instances \X Kinds :
                             \E c \in held[s] : c.of = r}}
    \cup {<<"job", j>> : j \in {j \in jobs : j.of = r}}
    \cup {<<"worker", s>> : s \in {s \in Instances \X Kinds :
                             worker[s] # None /\ worker[s].job.of = r}}

(* An action row is in one place at most, whatever the pollers of several
   instances do and whoever fails or crashes: AutomationActionPoller.poll,
   AutomationActionProcessor.process. *)
ActionsHaveOneCarrier ==
  \A a \in Actions : Cardinality(Carriers(a)) <= 1

(* While nothing failed, every row that left 'pending' for a queue is in
   somebody's hands, or its job was given up because triggers were deleted
   under it: a poll marks as queued exactly the rows it hands over. *)
QueuedRowsAreCarried ==
  faults = 0 => \A r \in Rows :
    row[r] \in {"queued", "processing"} => Carriers(r) # {} \/ r \in dead

(* Without a fault and without the 15 minutes, an event's triggers are
   evaluated once and an action takes effect once, although several
   instances poll and work. *)
OnceWhenUndisturbed ==
  faults = 0 =>
    /\ \A e \in Events : claims[e] <= 1 => fired[e] <= 1
    /\ \A a \in Actions : effects[a] <= 1

(* The column attempts of an action that is still there is no less than the
   number of times the action took effect, and stays within the attempts of
   the job and its one recovery from a stall. *)
AttemptsCoverEffects ==
  \A a \in Actions : Exists(a) =>
    effects[a] <= attempts[a] /\ attempts[a] <= MaxTries + MaxStalls

(* No step reopens a processed event: a job that comes late, a second job
   of the same event and the cron job all leave it processed. *)
ProcessedIsFinal ==
  [][\A e \in Events : row[e] = "processed" => row'[e] \in {"processed", "gone"}]_vars

(* The pipeline keeps the promise of the event registry, EventDelivery. *)
PhaseOf(s) == CASE s = "none" -> "new"
                [] s = "processed" -> "done"
                [] s = "gone" -> "dropped"
                [] OTHER -> "open"

Delivery == INSTANCE EventDelivery WITH
  phase <- [e \in Events |-> PhaseOf(row[e])],
  lapsed <- expired,
  closed <- ~tenant

DeliversEvents == Delivery!Spec
=============================================================================
