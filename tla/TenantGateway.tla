---------------------------- MODULE TenantGateway ----------------------------
(***************************************************************************)
(* How a request finds its tenant and passes the gateway: the lookup cache *)
(* in Redis (CacheManager, cache-aside, one entry under the tenant's id    *)
(* and one under its subdomain), the status gates of                       *)
(* TenantResolverMiddleware and the counters of TenantRateLimitMiddleware, *)
(* beside the administrators' calls that change the rows and invalidate    *)
(* the entries, and the VIP jobs, which change rows and invalidate         *)
(* nothing.                                                                *)
(*                                                                         *)
(* A step is one command of Redis or one transaction of PostgreSQL.  An    *)
(* entry expires at any moment (its TTL is five minutes and requests may   *)
(* be slow); the counters have a clock, since their TTL and the minute     *)
(* they count are meant to fit.                                            *)
(***************************************************************************)
EXTENDS Naturals, FiniteSets

CONSTANTS
    Tenants, Slugs, Requests, Admins,
    CappedTiers, Vip,
    Limit,          \* requests a minute of each capped tier
    PlanInputs, StatusInputs,   \* what an administrator may ask update() for
    Window,         \* ticks in a minute
    MaxTime,        \* bound on the clock
    MaxChanges,     \* bound on the changes of one row
    MaxCount,       \* counters are counted up to here, above every limit
    MaxCrashes,     \* bound on the crashes of a process
    None

Tiers == CappedTiers \cup {Vip}
Unserved == {"provisioning", "migrating", "offboarding", "offboarded"}
Statuses == Unserved \cup {"active", "grace_period", "suspended"}
Keys == Tenants \cup Slugs
Buckets == 0..(MaxTime \div Window)

ASSUME GatewayConstants ==
    /\ Vip \notin CappedTiers /\ PlanInputs \subseteq Tiers /\ StatusInputs \subseteq Statuses
    /\ Limit \in [CappedTiers -> Nat \ {0}] /\ MaxCount \in Nat
    /\ \A tier \in CappedTiers : Limit[tier] < MaxCount
    /\ Window \in Nat \ {0} /\ MaxTime \in Nat /\ MaxChanges \in Nat \ {0} /\ MaxCrashes \in Nat
    /\ Tenants \cap Slugs = {} /\ None \notin Keys \cup Tiers \cup Statuses \cup Nat

VARIABLES
    row,      \* tenants
    lookup,   \* tenant-lookup:<key>
    request,  \* where each request stands
    call,     \* where each administrator's call stands
    counter,  \* rl:<tenant>:<minute>
    now,
    \* not in the code: what the properties compare
    version,  \* how often each row was written
    settled,  \* the version each row had when its entries were last deleted
    passed,   \* requests of the current minute let through since a flush
    crashes   \* processes that died

vars == <<row, lookup, request, call, counter, now, version, settled, passed, crashes>>
countVars == <<counter, now, passed, crashes>>

Row == [status : Statuses, isActive : BOOLEAN, tier : Tiers, slug : Slugs \cup {None}]
\* What a lookup returns.  The entry that create() makes has no status.  raced: it
\* was read before a deletion that it was written after.
Resolved == [id : Tenants, slug : Slugs \cup {None}, status : Statuses \cup {None},
             isActive : BOOLEAN, tier : Tiers \cup {None}, version : 0..MaxChanges, raced : BOOLEAN]
ASSUME NoneIsNoRow == None \notin Row \cup Resolved
Request == [pc : {"idle", "query", "fillId", "fillSlug", "count", "expire", "served"},
            key : Keys \cup {None}, reads : BOOLEAN, tenant : Resolved \cup {None}, bucket : Buckets]
NoRequest == [pc |-> "idle", key |-> None, reads |-> FALSE, tenant |-> None, bucket |-> 0]
Call == [pc : {"idle", "warmId", "warmSlug", "invalidate", "flush"},
         tenant : Tenants \cup {None}, slug : Slugs \cup {None}, warm : Resolved \cup {None}]
NoCall == [pc |-> "idle", tenant |-> None, slug |-> None, warm |-> None]
\* A request past the lookup has its tenant, past the gates one with a status.
HasItsTenant(q) ==
    /\ q.pc \notin {"idle", "query"} => q.tenant \in Resolved
    /\ q.pc = "fillSlug" => q.tenant.slug \in Slugs
    /\ q.pc \in {"count", "expire", "served"} => q.tenant.status # None
HasItsTenantToo(c) ==
    /\ c.pc # "idle" => c.tenant \in Tenants
    /\ c.pc \in {"warmId", "warmSlug"} => c.warm \in Resolved /\ c.slug \in Slugs
Counter == [n : 0..MaxCount, until : Nat \cup {None}]
NoCounter == [n |-> 0, until |-> None]

TypeOK ==
    /\ row \in [Tenants -> Row \cup {None}]
    /\ lookup \in [Keys -> Resolved \cup {None}]
    /\ request \in [Requests -> Request]
    /\ call \in [Admins -> Call]
    /\ counter \in [Tenants -> [Buckets -> Counter]]
    /\ now \in 0..MaxTime
    /\ version \in [Tenants -> 0..MaxChanges]
    /\ settled \in [Tenants -> 0..MaxChanges]
    /\ passed \in [Tenants -> Nat]
    /\ crashes \in 0..MaxCrashes
    /\ \A r \in Requests : HasItsTenant(request[r])
    /\ \A a \in Admins : HasItsTenantToo(call[a])

Init ==
    /\ row = [t \in Tenants |-> None]
    /\ lookup = [k \in Keys |-> None]
    /\ request = [r \in Requests |-> NoRequest]
    /\ call = [a \in Admins |-> NoCall]
    /\ counter = [t \in Tenants |-> [b \in Buckets |-> NoCounter]]
    /\ now = 0
    /\ version = [t \in Tenants |-> 0]
    /\ settled = [t \in Tenants |-> 0]
    /\ passed = [t \in Tenants |-> 0]
    /\ crashes = 0

Exists(t) == row[t] # None
Bucket == now \div Window

-----------------------------------------------------------------------------
(* Requests *)

\* The status gates of use(), in the order of the code: no status is an error,
\* a suspended tenant may read.
Refused(c, reads) ==
    \/ c.status \in Unserved
    \/ c.status = "suspended" /\ ~reads
    \/ c.status = "active" /\ ~c.isActive

Limited(c) == c.tier # Vip

\* Faulty variant of AfterGate: an entry without a status is let through.
AfterGateUnchecked(r, q, c) ==
    request' = [request EXCEPT ![r] =
        IF Refused(c, q.reads) THEN NoRequest
        ELSE [q EXCEPT !.tenant = c, !.pc = IF Limited(c) THEN "count" ELSE "served"]]

\* The rest of use() once the tenant is known; VIP tenants are not counted.
AfterGate(r, q, c) ==
    request' = [request EXCEPT ![r] =
        IF c.status = None \/ Refused(c, q.reads) THEN NoRequest
        ELSE [q EXCEPT !.tenant = c, !.pc = IF Limited(c) THEN "count" ELSE "served"]]

\* Redis is asked first.
Receive(r, k, reads) ==
    LET q == [pc |-> "query", key |-> k, reads |-> reads, tenant |-> None, bucket |-> 0]
    IN  /\ request[r].pc = "idle"
        /\ IF lookup[k] # None THEN AfterGate(r, q, lookup[k])
                               ELSE request' = [request EXCEPT ![r] = q]
        /\ UNCHANGED <<row, lookup, call, countVars, version, settled>>

Named(k) == {t \in Tenants : Exists(t) /\ (t = k \/ row[t].slug = k)}

Copy(t) == [id |-> t, slug |-> row[t].slug, status |-> row[t].status, isActive |-> row[t].isActive,
            tier |-> row[t].tier, version |-> version[t], raced |-> FALSE]

\* SELECT ... FROM tenants; an unknown tenant is answered 404.
Query(r) ==
    /\ request[r].pc = "query"
    /\ request' = [request EXCEPT ![r] =
          IF Named(@.key) = {} THEN NoRequest
          ELSE [@ EXCEPT !.pc = "fillId", !.tenant = Copy(CHOOSE t \in Named(request[r].key) : TRUE)]]
    /\ UNCHANGED <<row, lookup, call, countVars, version, settled>>

\* setTenantLookup, first SET.
FillId(r) ==
    /\ request[r].pc = "fillId"
    /\ lookup' = [lookup EXCEPT ![request[r].tenant.id] = request[r].tenant]
    /\ IF request[r].tenant.slug = None THEN AfterGate(r, request[r], request[r].tenant)
                                        ELSE request' = [request EXCEPT ![r].pc = "fillSlug"]
    /\ UNCHANGED <<row, call, countVars, version, settled>>

\* setTenantLookup, second SET.
FillSlug(r) ==
    /\ request[r].pc = "fillSlug"
    /\ lookup' = [lookup EXCEPT ![request[r].tenant.slug] = request[r].tenant]
    /\ AfterGate(r, request[r], request[r].tenant)
    /\ UNCHANGED <<row, call, countVars, version, settled>>

\* INCR, compared with the limit of the tier that was looked up.
CountThen(r, first) ==
    LET c == request[r].tenant
        before == counter[c.id][Bucket].n
        allowed == before < Limit[c.tier]
    IN  /\ request[r].pc = "count"
        /\ counter' = [counter EXCEPT ![c.id][Bucket].n = IF before < MaxCount THEN before + 1 ELSE before]
        /\ passed' = [passed EXCEPT ![c.id] = IF allowed THEN @ + 1 ELSE @]
        /\ request' = [request EXCEPT ![r] =
              IF ~allowed THEN NoRequest
              ELSE [@ EXCEPT !.pc = IF before = 0 THEN first ELSE "served", !.bucket = Bucket]]
        /\ UNCHANGED <<row, lookup, call, now, crashes, version, settled>>
\* Faulty variant of Count: no expiry is set.
CountForever(r) == CountThen(r, "served")
\* The first request of the minute, which no limit refuses, sets the expiry
\* before it goes on.
Count(r) == CountThen(r, "expire")

\* EXPIRE 60; no effect on a counter that a flush has deleted.
ExpireIn(r, ticks) ==
    LET q == request[r]
    IN  /\ q.pc = "expire"
        /\ counter' = [counter EXCEPT ![q.tenant.id][q.bucket].until =
                          IF counter[q.tenant.id][q.bucket].n = 0 THEN None ELSE now + ticks]
        /\ request' = [request EXCEPT ![r].pc = "served"]
        /\ UNCHANGED <<row, lookup, call, now, passed, crashes, version, settled>>
\* Faulty variant of Expire: the counter is gone before its minute is.
ExpireEarly(r) == ExpireIn(r, Window - 1)
Expire(r) == ExpireIn(r, Window)

\* The answer is sent.
Finish(r) ==
    /\ request[r].pc = "served"
    /\ request' = [request EXCEPT ![r] = NoRequest]
    /\ UNCHANGED <<row, lookup, call, countVars, version, settled>>

-----------------------------------------------------------------------------
(* Administration and VIP jobs *)

Write(t, new) ==
    /\ version[t] < MaxChanges
    /\ row' = [row EXCEPT ![t] = new]
    /\ version' = [version EXCEPT ![t] = @ + 1]

Start(a, pc, t, s, warm) ==
    /\ call[a].pc = "idle"
    /\ call' = [call EXCEPT ![a] = [pc |-> pc, tenant |-> t, slug |-> s, warm |-> warm]]

\* create(): the committed row is active, the entry it will warm has only names.
Create(a, t, s, plan) ==
    /\ ~Exists(t) /\ Named(s) = {}
    /\ Write(t, [status |-> "active", isActive |-> TRUE, tier |-> plan, slug |-> s])
    /\ Start(a, "warmId", t, s, [id |-> t, slug |-> s, status |-> None, isActive |-> FALSE, tier |-> None,
                                 version |-> version[t] + 1, raced |-> FALSE])
    /\ UNCHANGED <<lookup, request, countVars, settled>>

WarmId(a) ==
    /\ call[a].pc = "warmId"
    /\ lookup' = [lookup EXCEPT ![call[a].tenant] = call[a].warm]
    /\ call' = [call EXCEPT ![a].pc = "warmSlug"]
    /\ UNCHANGED <<row, request, countVars, version, settled>>

WarmSlug(a) ==
    /\ call[a].pc = "warmSlug"
    /\ lookup' = [lookup EXCEPT ![call[a].slug] = call[a].warm]
    /\ call' = [call EXCEPT ![a] = NoCall]
    /\ UNCHANGED <<row, request, countVars, version, settled>>

\* update() of the plan: COMMIT, the entries are deleted later.
UpdatePlan(a, t, plan) ==
    LET vipMove == (plan = Vip) # (row[t].tier = Vip)
    IN  /\ Exists(t) /\ plan # row[t].tier
        /\ Write(t, [row[t] EXCEPT !.tier = plan,
                                   !.status = IF vipMove THEN "migrating" ELSE @,
                                   !.isActive = IF vipMove THEN FALSE ELSE @])
        /\ Start(a, "invalidate", t, row[t].slug, None)
        /\ UNCHANGED <<lookup, request, countVars, settled>>

\* update() of the status alone invalidates nothing.
UpdateStatus(t, status) ==
    /\ Exists(t)
    /\ Write(t, [row[t] EXCEPT !.status = status, !.isActive = (status = "active")])
    /\ UNCHANGED <<lookup, request, call, countVars, settled>>

\* A VIP job ends: the tenant is active again, on the new tier or, after a
\* rollback, on the one it came from, whatever others wrote meanwhile.  No entry
\* is deleted.  VipLifecycle has the jobs; here one may end at any time.
JobEnds(t, tier) ==
    /\ Exists(t)
    /\ Write(t, [row[t] EXCEPT !.status = "active", !.tier = tier])
    /\ UNCHANGED <<lookup, request, call, countVars, settled>>

\* offboard(): one transaction, then the flush, then the invalidation.
Offboard(a, t) ==
    /\ Exists(t)
    /\ Write(t, [row[t] EXCEPT !.status = "offboarded", !.isActive = FALSE, !.slug = None])
    /\ Start(a, "flush", t, row[t].slug, None)
    /\ UNCHANGED <<lookup, request, countVars, settled>>

\* flushTenant: the counters and the entry under the id.
Flush(a) ==
    LET t == call[a].tenant
    IN  /\ call[a].pc = "flush"
        /\ counter' = [counter EXCEPT ![t] = [b \in Buckets |-> NoCounter]]
        /\ passed' = [passed EXCEPT ![t] = 0]
        /\ lookup' = [lookup EXCEPT ![t] = None]
        /\ call' = [call EXCEPT ![a].pc = "invalidate"]
        /\ UNCHANGED <<row, request, now, crashes, version, settled>>

\* Whatever holds a copy of t that it has yet to store is marked.
Holds(copy, t) == copy # None /\ copy.id = t
MarkRaced(t) ==
    request' = [r \in Requests |->
        IF request[r].pc \in {"fillId", "fillSlug"} /\ Holds(request[r].tenant, t)
          THEN [request[r] EXCEPT !.tenant.raced = TRUE] ELSE request[r]]

DeleteEntries(a, keys) ==
    LET t == call[a].tenant
    IN  /\ call[a].pc = "invalidate"
        /\ lookup' = [k \in Keys |-> IF k \in keys THEN None ELSE lookup[k]]
        /\ settled' = [settled EXCEPT ![t] = IF call[a].slug = None THEN @ ELSE version[t]]
        /\ MarkRaced(t)
        /\ call' = [b \in Admins |-> IF b = a THEN NoCall
                                     ELSE IF Holds(call[b].warm, t) THEN [call[b] EXCEPT !.warm.raced = TRUE]
                                     ELSE call[b]]
        /\ UNCHANGED <<row, countVars, version>>

\* Faulty variant of Invalidate: only the entry under the id is deleted.
InvalidateId(a) == DeleteEntries(a, {call[a].tenant})
\* invalidateTenantLookup: one DEL of both keys, the slug as the call's own
\* transaction returned it.
Invalidate(a) == DeleteEntries(a, {call[a].tenant, call[a].slug})

-----------------------------------------------------------------------------
(* Redis, time and failures *)

\* Faulty variant of ExpireEntry: the second SET has no TTL.
ExpireIdEntry(k) ==
    /\ k \in Tenants
    /\ lookup[k] # None
    /\ lookup' = [lookup EXCEPT ![k] = None]
    /\ UNCHANGED <<row, request, call, countVars, version, settled>>

ExpireEntry(k) ==
    /\ lookup[k] # None
    /\ lookup' = [lookup EXCEPT ![k] = None]
    /\ UNCHANGED <<row, request, call, countVars, version, settled>>

Tick ==
    /\ now < MaxTime
    /\ now' = now + 1
    /\ counter' = [t \in Tenants |-> [b \in Buckets |->
                     IF counter[t][b].until # None /\ counter[t][b].until <= now'
                       THEN NoCounter ELSE counter[t][b]]]
    /\ passed' = IF now' \div Window = Bucket THEN passed ELSE [t \in Tenants |-> 0]
    /\ UNCHANGED <<crashes, row, lookup, request, call, version, settled>>

\* The process dies; what is in Redis stays.
Crash ==
    /\ crashes < MaxCrashes
    /\ crashes' = crashes + 1
    /\ request' = [r \in Requests |-> NoRequest]
    /\ call' = [a \in Admins |-> NoCall]
    /\ UNCHANGED <<row, lookup, counter, now, passed, version, settled>>

RequestNext(r) == Query(r) \/ FillId(r) \/ FillSlug(r) \/ Count(r) \/ Expire(r) \/ Finish(r)
CallNext(a) == WarmId(a) \/ WarmSlug(a) \/ Flush(a) \/ Invalidate(a)
AdminNext ==
    \/ \E a \in Admins, t \in Tenants :
          \/ \E s \in Slugs, plan \in PlanInputs : Create(a, t, s, plan)
          \/ \E plan \in PlanInputs : UpdatePlan(a, t, plan)
          \/ Offboard(a, t)
    \/ \E t \in Tenants, status \in StatusInputs : UpdateStatus(t, status)
    \/ \E t \in Tenants, tier \in PlanInputs : JobEnds(t, tier)

Next ==
    \/ \E r \in Requests, k \in Keys, reads \in BOOLEAN : Receive(r, k, reads)
    \/ \E r \in Requests : RequestNext(r)
    \/ AdminNext
    \/ \E a \in Admins : CallNext(a)
    \/ \E k \in Keys : ExpireEntry(k)
    \/ Tick
    \/ Crash

Spec == Init /\ [][Next]_vars

\* A process goes on with what it has begun, and Redis keeps its TTLs; nobody
\* has to ask for anything, and nothing makes an administrator's call end well.
FairSpec ==
    /\ Spec
    /\ \A r \in Requests : WF_vars(RequestNext(r))
    /\ \A k \in Keys : WF_vars(ExpireEntry(k))

-----------------------------------------------------------------------------
(* Properties *)

\* Once an administrator's call has deleted a tenant's entries, no entry under
\* either key tells of the row as it was before, unless it was read before the
\* deletion and stored after it, which the code lets happen until the TTL.
AfterInvalidation ==
    \A k \in Keys : lookup[k] # None /\ ~lookup[k].raced
                       => lookup[k].version >= settled[lookup[k].id]

\* However the minute of the counter and the life of its key overlap, no more
\* requests of a tenant pass in a minute than the highest limit allows, unless
\* an offboarding has deleted the counter (TenantRateLimitMiddleware).
LimitHolds ==
    \A t \in Tenants : passed[t] > 0 => \E tier \in CappedTiers : passed[t] <= Limit[tier]

\* A counter that nothing will ever delete is left only by a process that died
\* between INCR and EXPIRE.
CountersExpire ==
    \A t \in Tenants, b \in Buckets :
        counter[t][b].n > 0 /\ counter[t][b].until = None
            => crashes > 0 \/ \E r \in Requests : /\ request[r].pc = "expire"
                                                 /\ request[r].tenant.id = t /\ request[r].bucket = b

\* However entries and rows race, a tenant that stays closed is at last served
\* no more, also when the call that closed it died before it deleted an entry.
RefusedAtLast ==
    \A t \in Tenants :
        <>[](Exists(t) /\ row[t].status \in Unserved)
            => <>[](\A r \in Requests : request[r].pc = "served" => request[r].tenant.id # t)
=============================================================================
