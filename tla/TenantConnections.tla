------------------------- MODULE TenantConnections -------------------------
(***************************************************************************)
(* One process of the backend, seen from its Knex connection pool: the     *)
(* patched acquireConnection / releaseConnection of QueryInterceptor.ts,   *)
(* the static TenantQuotaEnforcer it consults, the per-request QueryCounter *)
(* and the configuration changes that touch the enforcer's slots.          *)
(*                                                                         *)
(* A request runs one query at a time: it takes a connection, tells         *)
(* PostgreSQL which tenant the connection works for (row level security     *)
(* reads that setting), waits for a unit of the tenant's quota, runs, and   *)
(* gives everything back.  An await in the code ends a step here; what runs *)
(* between two awaits is one step.                                          *)
(***************************************************************************)
EXTENDS Naturals, FiniteSets

CONSTANTS
    Tenants,
    Requests,     \* requests and background jobs running in this process
    Conns,        \* the connections of the pool (DATABASE_POOL_MAX of them)
    SlotIds,      \* identities of the Slot objects the enforcer allocates
    CappedTiers,  \* basic, premium, enterprise
    Vip,          \* the tier whose cap is Infinity
    Caps,         \* TIER_CAPS of the capped tiers
    TierOf,       \* tiers the resolver may hand out for each tenant
    QueryLimit,   \* QUERY_LIMIT
    Changes,      \* kinds of configuration change that may happen
    None,         \* no tenant, no connection, no slot
    Leaked        \* holder of a connection nobody will ever release

Tiers == CappedTiers \cup {Vip}

ASSUME ConstantsOK ==
    /\ Vip \notin CappedTiers
    /\ Caps \in [CappedTiers -> Nat \ {0}]
    /\ TierOf \in [Tenants -> SUBSET Tiers]
    /\ QueryLimit \in Nat
    /\ None \notin Tenants \cup Conns \cup SlotIds \cup Requests
    /\ Leaked \notin Requests /\ Leaked # None
    /\ Changes \subseteq {"raise", "lower", "cap", "exempt", "register", "deregister"}

VARIABLES
    pc,        \* where each request stands
    ctx,       \* its TenantContext: tenant and tier, or no tenant
    queries,   \* its queryCount
    connOf,    \* the connection it was handed
    waitsOn,   \* the Slot object TenantQuotaEnforcer.acquire() polls for it
    holder,    \* who has each connection: None when it is idle in the pool
    setting,   \* app.tenant_id of each connection, None for '' and NULL
    slotOf,    \* the enforcer's map from tenant to Slot object
    slot       \* the Slot objects: current and max

requestVars == <<pc, ctx, queries, connOf, waitsOn>>
poolVars == <<holder, setting>>
quotaVars == <<slotOf, slot>>
vars == <<requestVars, poolVars, quotaVars>>

Slot == [current : Nat, max : Nat]
Context == [tenant : Tenants \cup {None}, tier : Tiers \cup {None}]
NoContext == [tenant |-> None, tier |-> None]
Stages == {"idle", "ready", "setting", "polling", "using", "resetting"}

TypeOK ==
    /\ pc \in [Requests -> Stages]
    /\ ctx \in [Requests -> Context]
    /\ queries \in [Requests -> 0..(QueryLimit + 1)]
    /\ connOf \in [Requests -> Conns \cup {None}]
    /\ waitsOn \in [Requests -> SlotIds \cup {None}]
    /\ holder \in [Conns -> Requests \cup {None, Leaked}]
    /\ setting \in [Conns -> Tenants \cup {None}]
    /\ slotOf \in [Tenants -> SlotIds \cup {None}]
    /\ slot \in [SlotIds -> Slot]

\* afterCreate cleared the setting of every new connection; the enforcer's
\* map starts empty with the process.
Init ==
    /\ pc = [r \in Requests |-> "idle"]
    /\ ctx = [r \in Requests |-> NoContext]
    /\ queries = [r \in Requests |-> 0]
    /\ connOf = [r \in Requests |-> None]
    /\ waitsOn = [r \in Requests |-> None]
    /\ holder = [c \in Conns |-> None]
    /\ setting = [c \in Conns |-> None]
    /\ slotOf = [t \in Tenants |-> None]
    /\ slot = [s \in SlotIds |-> [current |-> 0, max |-> 0]]

-----------------------------------------------------------------------------
(* The request's context *)

\* TenantContext.run() around a request, or a job that runs without one.
Begin(r) ==
    /\ pc[r] = "idle"
    /\ \E c \in {NoContext} \cup [tenant : Tenants, tier : Tiers] :
          /\ c.tenant # None => c.tier \in TierOf[c.tenant]
          /\ ctx' = [ctx EXCEPT ![r] = c]
    /\ pc' = [pc EXCEPT ![r] = "ready"]
    /\ queries' = [queries EXCEPT ![r] = 0]
    /\ UNCHANGED <<connOf, waitsOn, poolVars, quotaVars>>

\* The request is done, or gives up waiting for a connection of the pool.
End(r) ==
    /\ pc[r] = "ready"
    /\ pc' = [pc EXCEPT ![r] = "idle"]
    /\ ctx' = [ctx EXCEPT ![r] = NoContext]
    /\ queries' = [queries EXCEPT ![r] = 0]
    /\ UNCHANGED <<connOf, waitsOn, poolVars, quotaVars>>

-----------------------------------------------------------------------------
(* acquireConnection *)

\* await _acquire(): the pool hands out an idle connection.  Without a tenant
\* in the context nothing else is awaited and the counter does not count.
Acquire(r) ==
    /\ pc[r] = "ready"
    /\ \E c \in Conns :
          /\ holder[c] = None
          /\ holder' = [holder EXCEPT ![c] = r]
          /\ connOf' = [connOf EXCEPT ![r] = c]
    /\ pc' = [pc EXCEPT ![r] = IF ctx[r].tenant = None THEN "using" ELSE "setting"]
    /\ UNCHANGED <<ctx, queries, waitsOn, setting, quotaVars>>

\* acquireConnection throws after _acquire() succeeded.  Knex releases only a
\* connection it was given, so nobody returns this one to the pool.
Abandon(r) ==
    /\ pc' = [pc EXCEPT ![r] = "ready"]
    /\ holder' = [holder EXCEPT ![connOf[r]] = Leaked]
    /\ connOf' = [connOf EXCEPT ![r] = None]

\* QueryCounter.increment(true), then the query runs or the call throws.
Count(r) ==
    /\ queries' = [queries EXCEPT ![r] = IF @ > QueryLimit THEN @ ELSE @ + 1]
    /\ waitsOn' = [waitsOn EXCEPT ![r] = None]
    /\ \/ /\ queries[r] < QueryLimit
          /\ pc' = [pc EXCEPT ![r] = "using"]
          /\ UNCHANGED <<holder, connOf>>
       \/ /\ queries[r] >= QueryLimit
          /\ Abandon(r)

\* Faulty variant of AcquireQuota: an off-by-one in the room left.
AcquireOneTooMany(r, s, objs) ==
    \/ /\ s = None
       /\ slot' = objs
       /\ Count(r)
    \/ /\ s # None
       /\ objs[s].current <= objs[s].max
       /\ slot' = [objs EXCEPT ![s].current = @ + 1]
       /\ Count(r)
    \/ /\ s # None
       /\ objs[s].current > objs[s].max
       /\ slot' = objs
       /\ pc' = [pc EXCEPT ![r] = "polling"]
       /\ waitsOn' = [waitsOn EXCEPT ![r] = s]
       /\ UNCHANGED <<queries, holder, connOf>>

\* TenantQuotaEnforcer.acquire() on slot object s, the objects being objs:
\* pass through without a slot, take a unit, or start polling the object.
AcquireQuota(r, s, objs) ==
    \/ /\ s = None
       /\ slot' = objs
       /\ Count(r)
    \/ /\ s # None
       /\ objs[s].current < objs[s].max
       /\ slot' = [objs EXCEPT ![s].current = @ + 1]
       /\ Count(r)
    \/ /\ s # None
       /\ objs[s].current >= objs[s].max
       /\ slot' = objs
       /\ pc' = [pc EXCEPT ![r] = "polling"]
       /\ waitsOn' = [waitsOn EXCEPT ![r] = s]
       /\ UNCHANGED <<queries, holder, connOf>>

\* A Slot object nothing refers to: what `new` may return.
FreeSlots ==
    {s \in SlotIds : (\A t \in Tenants : slotOf[t] # s) /\ (\A r \in Requests : waitsOn[r] # s)}

NewSlot(k) == [current |-> 0, max |-> Caps[k]]

\* Faulty variant of SetTenant: the tenant is set for the first query of a
\* request only.
SetTenantOnce(r) ==
    LET t == ctx[r].tenant
    IN  /\ pc[r] = "setting"
        /\ setting' = IF queries[r] = 0 THEN [setting EXCEPT ![connOf[r]] = t] ELSE setting
        /\ AcquireQuota(r, slotOf[t], slot)
        /\ UNCHANGED <<ctx, slotOf>>

\* SET app.tenant_id is done; the slot is registered on first sight of the
\* tenant, then the quota is asked for.
SetTenant(r) ==
    LET t == ctx[r].tenant
        k == ctx[r].tier
        lazy == slotOf[t] = None /\ k \in CappedTiers
    IN  /\ pc[r] = "setting"
        /\ setting' = [setting EXCEPT ![connOf[r]] = t]
        /\ \/ /\ ~lazy
              /\ AcquireQuota(r, slotOf[t], slot)
              /\ UNCHANGED slotOf
           \/ /\ lazy
              /\ \E s \in FreeSlots :
                    /\ slotOf' = [slotOf EXCEPT ![t] = s]
                    /\ AcquireQuota(r, s, [slot EXCEPT ![s] = NewSlot(k)])
        /\ UNCHANGED ctx

\* The SET query fails (the connection broke): acquireConnection throws.
SetFails(r) ==
    /\ pc[r] = "setting"
    /\ Abandon(r)
    /\ UNCHANGED <<ctx, queries, waitsOn, setting, quotaVars>>

\* One turn of the polling loop finds room in the object it was started on.
PollSucceeds(r) ==
    LET s == waitsOn[r]
    IN  /\ pc[r] = "polling"
        /\ slot[s].current < slot[s].max
        /\ slot' = [slot EXCEPT ![s].current = @ + 1]
        /\ Count(r)
        /\ UNCHANGED <<ctx, setting, slotOf>>

\* Faulty variant of PollTimeout: every turn of the loop restarts the deadline.
PollRestartsDeadline(r) ==
    /\ pc[r] = "polling"
    /\ UNCHANGED vars

\* The 5 s deadline passes while the object is full: 503.
PollTimeout(r) ==
    /\ pc[r] = "polling"
    /\ slot[waitsOn[r]].current >= slot[waitsOn[r]].max
    /\ Abandon(r)
    /\ waitsOn' = [waitsOn EXCEPT ![r] = None]
    /\ UNCHANGED <<ctx, queries, setting, quotaVars>>

-----------------------------------------------------------------------------
(* releaseConnection *)

\* Faulty variant of Release: gives back a unit the slot does not count.
ReleaseUnguarded(r) ==
    LET t == ctx[r].tenant
    IN  /\ pc[r] = "using"
        /\ pc' = [pc EXCEPT ![r] = "resetting"]
        /\ IF t # None /\ slotOf[t] # None
             THEN slot' = [slot EXCEPT ![slotOf[t]].current = @ - 1]
             ELSE UNCHANGED slot
        /\ UNCHANGED <<ctx, queries, connOf, waitsOn, poolVars, slotOf>>

\* The quota unit goes back to whatever slot the map holds now; the reset
\* query is sent.
Release(r) ==
    LET t == ctx[r].tenant
    IN  /\ pc[r] = "using"
        /\ pc' = [pc EXCEPT ![r] = "resetting"]
        /\ IF t # None /\ slotOf[t] # None /\ slot[slotOf[t]].current > 0
             THEN slot' = [slot EXCEPT ![slotOf[t]].current = @ - 1]
             ELSE UNCHANGED slot
        /\ UNCHANGED <<ctx, queries, connOf, waitsOn, poolVars, slotOf>>

\* Faulty variant of ResetTenant: the connection is returned without a reset.
ReturnWithoutReset(r) ==
    /\ pc[r] = "resetting"
    /\ holder' = [holder EXCEPT ![connOf[r]] = None]
    /\ connOf' = [connOf EXCEPT ![r] = None]
    /\ pc' = [pc EXCEPT ![r] = "ready"]
    /\ UNCHANGED <<ctx, queries, waitsOn, setting, quotaVars>>

\* SET app.tenant_id = '' is done and the connection is idle again.  If the
\* query failed the connection is broken, and the pool replaces it by a new
\* one that afterCreate has cleared: the same state.
ResetTenant(r) ==
    /\ pc[r] = "resetting"
    /\ setting' = [setting EXCEPT ![connOf[r]] = None]
    /\ holder' = [holder EXCEPT ![connOf[r]] = None]
    /\ connOf' = [connOf EXCEPT ![r] = None]
    /\ pc' = [pc EXCEPT ![r] = "ready"]
    /\ UNCHANGED <<ctx, queries, waitsOn, quotaVars>>

-----------------------------------------------------------------------------
(* Configuration changes *)

\* TenantQuotaEnforcer.updateCap(): admin tier change on this instance, and
\* the tenant:config:reload message on every instance.
UpdateCap(t, k) ==
    /\ \/ /\ k = Vip
          /\ "exempt" \in Changes
          /\ slotOf' = [slotOf EXCEPT ![t] = None]
          /\ UNCHANGED slot
       \/ /\ k # Vip
          /\ slotOf[t] # None
          /\ (IF Caps[k] >= slot[slotOf[t]].max THEN "raise" ELSE "lower") \in Changes
          /\ slot' = [slot EXCEPT ![slotOf[t]].max = Caps[k]]
          /\ UNCHANGED slotOf
       \/ /\ k # Vip
          /\ slotOf[t] = None
          /\ "cap" \in Changes
          /\ \E s \in FreeSlots :
                /\ slotOf' = [slotOf EXCEPT ![t] = s]
                /\ slot' = [slot EXCEPT ![s] = NewSlot(k)]
    /\ UNCHANGED <<requestVars, poolVars>>

\* TenantQuotaEnforcer.register(): tenant creation, the rollback of a VIP
\* migration and the end of a VIP decommission.  It replaces a slot in use.
Register(t, k) ==
    /\ "register" \in Changes
    /\ k # Vip
    /\ \E s \in FreeSlots :
          /\ slotOf' = [slotOf EXCEPT ![t] = s]
          /\ slot' = [slot EXCEPT ![s] = NewSlot(k)]
    /\ UNCHANGED <<requestVars, poolVars>>

\* TenantQuotaEnforcer.deregister(): the end of a VIP migration and offboarding.
Deregister(t) ==
    /\ "deregister" \in Changes
    /\ slotOf' = [slotOf EXCEPT ![t] = None]
    /\ UNCHANGED <<requestVars, poolVars, slot>>

RequestNext(r) ==
    \/ Begin(r)
    \/ End(r)
    \/ Acquire(r)
    \/ SetTenant(r)
    \/ SetFails(r)
    \/ PollSucceeds(r)
    \/ PollTimeout(r)
    \/ Release(r)
    \/ ResetTenant(r)

ConfigNext ==
    \E t \in Tenants :
       \/ \E k \in Tiers : UpdateCap(t, k) \/ Register(t, k)
       \/ Deregister(t)

Next == ConfigNext \/ \E r \in Requests : RequestNext(r)

\* The event loop runs every timer and every answered query; nothing makes a
\* client send a request or an administrator change a tier.
Fairness ==
    \A r \in Requests :
       WF_vars(SetTenant(r) \/ PollSucceeds(r) \/ PollTimeout(r) \/ Release(r) \/ ResetTenant(r))

Spec == Init /\ [][Next]_vars
FairSpec == Spec /\ Fairness

-----------------------------------------------------------------------------
(* Properties *)

\* A query always runs on a connection whose app.tenant_id is the tenant of
\* the request that issued it, and on one without tenant when the request has
\* none: row level security never sees another tenant's setting.
Isolation ==
    \A r \in Requests : pc[r] = "using" => setting[connOf[r]] = ctx[r].tenant

\* Whoever takes an idle connection finds no tenant left on it, which is all
\* that protects the jobs that run without a TenantContext.
IdleConnectionsAreClean ==
    \A c \in Conns : holder[c] = None => setting[c] = None

\* Requests of tenant t that hold a connection past the quota check.
InUse(t) == {r \in Requests : pc[r] = "using" /\ ctx[r].tenant = t}

\* A tenant with a registered slot never runs more queries at once in this
\* process than the cap of its slot.
CapRespected ==
    \A t \in Tenants :
       slotOf[t] # None => Cardinality(InUse(t)) <= slot[slotOf[t]].max

\* A request that waits for quota is served or refused, it never waits for ever.
WaitEnds ==
    \A r \in Requests : pc[r] = "polling" ~> pc[r] # "polling"
=============================================================================
