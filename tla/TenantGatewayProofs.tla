------------------------- MODULE TenantGatewayProofs -------------------------
(***************************************************************************)
(* The invariants of TenantGateway, for any number of tenants, names,      *)
(* requests and calls, and any limits, lengths of a minute and bounds.     *)
(***************************************************************************)
EXTENDS TenantGateway, TLAPS

\* Dividing keeps the order, so that the clock's minute is one of the buckets.
LEMMA BucketIsOne ==
    ASSUME NEW x \in 0..MaxTime
    PROVE  x \div Window \in Buckets
<1>1. Window \in Nat \ {0} /\ MaxTime \in Nat
  BY GatewayConstants
<1>. DEFINE q == x \div Window
            p == MaxTime \div Window
<1>2. q \in Nat /\ q * Window <= x /\ x < (q + 1) * Window
  BY <1>1, SMTT(30)
<1>3. p \in Nat /\ MaxTime < (p + 1) * Window
  BY <1>1, SMTT(30)
<1>4. q * Window < (p + 1) * Window
  BY <1>1, <1>2, <1>3, SMTT(30)
<1>5. q < p + 1
  BY <1>1, <1>2, <1>3, <1>4, SMTT(30)
<1> QED
  BY <1>2, <1>3, <1>5 DEF Buckets

LEMMA BucketNow ==
    ASSUME TypeOK
    PROVE  Bucket \in Buckets
  BY BucketIsOne DEF TypeOK, Bucket

LEMMA ZeroBucket == 0 \in Buckets
<1>1. MaxTime \in Nat
  BY GatewayConstants
<1>2. MaxTime \div Window \in Nat
  BY <1>1, GatewayConstants, SMTT(30)
<1>. QED  BY <1>2 DEF Buckets

LEMMA TypeInit ==
    ASSUME Init
    PROVE  TypeOK
<1>1. NoCounter \in Counter /\ NoRequest \in Request /\ NoCall \in Call
  BY ZeroBucket, GatewayConstants DEF NoCounter, Counter, NoRequest, Request, NoCall, Call
<1>2. 0 \in 0..MaxTime /\ 0 \in 0..MaxChanges /\ 0 \in 0..MaxCrashes /\ MaxCount \in Nat
  BY GatewayConstants
<1>3. HasItsTenant(NoRequest) /\ HasItsTenantToo(NoCall)
  BY DEF HasItsTenant, NoRequest, HasItsTenantToo, NoCall
<1>. QED  BY <1>1, <1>2, <1>3 DEF Init, TypeOK

\* The part of TypeOK about requests.
RequestsTyped ==
    /\ request \in [Requests -> Request]
    /\ \A r \in Requests : HasItsTenant(request[r])

LEMMA CopyType ==
    ASSUME TypeOK, NEW t \in Tenants, Exists(t)
    PROVE  Copy(t) \in Resolved
<1>1. row[t] \in Row
  BY DEF TypeOK, Exists
<1>. QED  BY <1>1 DEF TypeOK, Copy, Resolved, Row

LEMMA IdleType == NoRequest \in Request /\ HasItsTenant(NoRequest)
  BY ZeroBucket DEF NoRequest, Request, HasItsTenant

LEMMA RequestSet ==
    ASSUME TypeOK, NEW r \in Requests, NEW q \in Request, request' = [request EXCEPT ![r] = q],
           HasItsTenant(q)
    PROVE  RequestsTyped'
  BY DEF TypeOK, RequestsTyped

\* What the gate makes of a request has its type.
LEMMA GateType ==
    ASSUME TypeOK, NEW r \in Requests, NEW q \in Request, NEW c \in Resolved, AfterGate(r, q, c)
    PROVE  RequestsTyped'
<1>. DEFINE new == [q EXCEPT !.tenant = c, !.pc = IF Limited(c) THEN "count" ELSE "served"]
<1>1. new \in Request /\ new.tenant = c /\ new.pc \in {"count", "served"}
  BY DEF Request
<1>2. CASE c.status = None \/ Refused(c, q.reads)
  BY <1>2, IdleType, RequestSet DEF AfterGate
<1>3. CASE ~(c.status = None \/ Refused(c, q.reads))
  <2>1. request' = [request EXCEPT ![r] = new]
    BY <1>3 DEF AfterGate
  <2>2. HasItsTenant(new)
    BY <1>1, <1>3 DEF HasItsTenant
  <2>. QED  BY <1>1, <2>1, <2>2, RequestSet
<1>. QED  BY <1>2, <1>3

LEMMA RequestTypeStep ==
    ASSUME TypeOK, NEW r \in Requests, RequestNext(r)
    PROVE  TypeOK'
<1>. USE DEF countVars
<1>0. request[r] \in Request /\ HasItsTenant(request[r])
  BY DEF TypeOK
<1>. DEFINE c == request[r].tenant
<1>1. CASE Query(r)
  <2>1. CASE Named(request[r].key) = {}
    <3>1. request' = [request EXCEPT ![r] = NoRequest]
      BY <1>1, <2>1 DEF Query, TypeOK
    <3>. QED  BY <1>1, <3>1, IdleType, RequestSet DEF Query, TypeOK, RequestsTyped
  <2>2. CASE Named(request[r].key) # {}
    <3>. DEFINE t == CHOOSE x \in Named(request[r].key) : TRUE
                new == [request[r] EXCEPT !.pc = "fillId", !.tenant = Copy(t)]
    <3>1. t \in Tenants /\ Exists(t)
      BY <2>2 DEF Named
    <3>2. new \in Request /\ HasItsTenant(new)
      BY <1>0, <3>1, CopyType DEF Request, HasItsTenant
    <3>3. request' = [request EXCEPT ![r] = new]
      BY <1>1, <2>2 DEF Query, TypeOK
    <3>. QED  BY <1>1, <3>2, <3>3, RequestSet DEF Query, TypeOK, RequestsTyped
  <2>. QED  BY <2>1, <2>2
<1>2. CASE FillId(r)
  <2>1. c \in Resolved
    BY <1>0, <1>2 DEF FillId, HasItsTenant
  <2>2. CASE c.slug = None
    <3>1. RequestsTyped'
      BY <1>0, <1>2, <2>1, <2>2, GateType DEF FillId
    <3>. QED  BY <1>2, <2>1, <3>1 DEF FillId, TypeOK, RequestsTyped
  <2>3. CASE c.slug # None
    <3>. DEFINE new == [request[r] EXCEPT !.pc = "fillSlug"]
    <3>1. new \in Request /\ HasItsTenant(new)
      BY <1>0, <2>1, <2>3 DEF Request, HasItsTenant, Resolved
    <3>2. RequestsTyped'
      BY <1>2, <2>3, <3>1, RequestSet DEF FillId
    <3>. QED  BY <1>2, <2>1, <3>2 DEF FillId, TypeOK, RequestsTyped
  <2>. QED  BY <2>2, <2>3
<1>3. CASE FillSlug(r)
  <2>1. c \in Resolved
    BY <1>0, <1>3 DEF FillSlug, HasItsTenant
  <2>2. RequestsTyped'
    BY <1>0, <1>3, <2>1, GateType DEF FillSlug
  <2>. QED  BY <1>3, <2>1, <2>2 DEF FillSlug, TypeOK, RequestsTyped
<1>4. CASE Count(r)
  <2>1. c \in Resolved /\ c.status # None
    BY <1>0, <1>4 DEF Count, CountThen, HasItsTenant
  <2>. DEFINE before == counter[c.id][Bucket].n
              new == [request[r] EXCEPT !.pc = IF before = 0 THEN "expire" ELSE "served", !.bucket = Bucket]
              bigger == IF before < MaxCount THEN before + 1 ELSE before
  <2>2. c.id \in Tenants /\ Bucket \in Buckets /\ counter[c.id] \in [Buckets -> Counter]
        /\ counter[c.id][Bucket] \in Counter
    BY <2>1, BucketNow DEF TypeOK, Resolved
  <2>3. bigger \in 0..MaxCount
    BY <2>2, GatewayConstants DEF Counter
  <2>4. [counter[c.id][Bucket] EXCEPT !.n = bigger] \in Counter
    BY <2>2, <2>3 DEF Counter
  <2>5. counter' = [counter EXCEPT ![c.id] = [counter[c.id] EXCEPT ![Bucket] =
                       [counter[c.id][Bucket] EXCEPT !.n = bigger]]]
    BY <1>4 DEF Count, CountThen
  <2>6. counter' \in [Tenants -> [Buckets -> Counter]]
    BY <2>2, <2>4, <2>5 DEF TypeOK
  <2>7. new \in Request /\ HasItsTenant(new)
    BY <1>0, <2>1, <2>2 DEF Request, HasItsTenant
  <2>8. request' = [request EXCEPT ![r] = NoRequest] \/ request' = [request EXCEPT ![r] = new]
    BY <1>4 DEF Count, CountThen, TypeOK
  <2>9. RequestsTyped'
    BY <2>7, <2>8, IdleType, RequestSet
  <2>10. passed' \in [Tenants -> Nat]
    BY <1>4, <2>2 DEF Count, CountThen, TypeOK
  <2>. QED  BY <1>4, <2>6, <2>9, <2>10 DEF Count, CountThen, TypeOK, RequestsTyped
<1>5. CASE Expire(r)
  <2>1. c \in Resolved /\ c.status # None
    BY <1>0, <1>5 DEF Expire, ExpireIn, HasItsTenant
  <2>. DEFINE b == request[r].bucket
              u == IF counter[c.id][b].n = 0 THEN None ELSE now + Window
              new == [request[r] EXCEPT !.pc = "served"]
  <2>2. c.id \in Tenants /\ b \in Buckets /\ counter[c.id] \in [Buckets -> Counter]
        /\ counter[c.id][b] \in Counter
    BY <1>0, <2>1 DEF TypeOK, Resolved, Request
  <2>3. u \in Nat \cup {None}
    BY GatewayConstants DEF TypeOK
  <2>4. [counter[c.id][b] EXCEPT !.until = u] \in Counter
    BY <2>2, <2>3 DEF Counter
  <2>5. counter' = [counter EXCEPT ![c.id] = [counter[c.id] EXCEPT ![b] =
                       [counter[c.id][b] EXCEPT !.until = u]]]
    BY <1>5 DEF Expire, ExpireIn
  <2>6. counter' \in [Tenants -> [Buckets -> Counter]]
    BY <2>2, <2>4, <2>5 DEF TypeOK
  <2>7. new \in Request /\ HasItsTenant(new)
    BY <1>0, <2>1 DEF Request, HasItsTenant
  <2>8. RequestsTyped'
    BY <1>5, <2>7, RequestSet DEF Expire, ExpireIn
  <2>. QED  BY <1>5, <2>6, <2>8 DEF Expire, ExpireIn, TypeOK, RequestsTyped
<1>6. CASE Finish(r)
  BY <1>6, IdleType, RequestSet DEF Finish, TypeOK, RequestsTyped
<1>. QED  BY <1>1, <1>2, <1>3, <1>4, <1>5, <1>6 DEF RequestNext

LEMMA ReceiveTypeStep ==
    ASSUME TypeOK, NEW r \in Requests, NEW k \in Keys, NEW reads \in BOOLEAN, Receive(r, k, reads)
    PROVE  TypeOK'
<1>. DEFINE q == [pc |-> "query", key |-> k, reads |-> reads, tenant |-> None, bucket |-> 0]
<1>1. q \in Request /\ HasItsTenant(q)
  BY ZeroBucket DEF Request, HasItsTenant
<1>2. CASE lookup[k] # None
  <2>1. lookup[k] \in Resolved /\ AfterGate(r, q, lookup[k])
    BY <1>2 DEF Receive, TypeOK
  <2>. QED  BY <1>1, <2>1, GateType DEF Receive, TypeOK, RequestsTyped, countVars
<1>3. CASE lookup[k] = None
  <2>1. request' = [request EXCEPT ![r] = q]
    BY <1>3 DEF Receive
  <2>. QED  BY <1>1, <2>1, RequestSet DEF Receive, TypeOK, RequestsTyped, countVars
<1>. QED  BY <1>2, <1>3

\* A write of a row, and the call it may start.
LEMMA WriteType ==
    ASSUME TypeOK, NEW t \in Tenants, NEW new \in Row, Write(t, new)
    PROVE  /\ row' \in [Tenants -> Row \cup {None}]
           /\ version' \in [Tenants -> 0..MaxChanges]
<1>1. version[t] + 1 \in 0..MaxChanges
  BY GatewayConstants DEF Write, TypeOK
<1>. QED  BY <1>1 DEF Write, TypeOK

LEMMA CallType ==
    ASSUME TypeOK, NEW a \in Admins, NEW c \in Call, HasItsTenantToo(c), call' = [call EXCEPT ![a] = c]
    PROVE  call' \in [Admins -> Call] /\ \A b \in Admins : HasItsTenantToo(call'[b])
  BY DEF TypeOK

LEMMA IdleCall == NoCall \in Call /\ HasItsTenantToo(NoCall)
  BY DEF NoCall, Call, HasItsTenantToo

LEMMA RowType ==
    ASSUME TypeOK, NEW t \in Tenants, Exists(t)
    PROVE  row[t] \in Row
  BY DEF TypeOK, Exists

LEMMA AdminTypeStep ==
    ASSUME TypeOK, AdminNext
    PROVE  TypeOK'
<1>. USE DEF countVars
<1>1. ASSUME NEW a \in Admins, NEW t \in Tenants, NEW s \in Slugs, NEW plan \in PlanInputs, Create(a, t, s, plan)
      PROVE  TypeOK'
  <2>. DEFINE new == [status |-> "active", isActive |-> TRUE, tier |-> plan, slug |-> s]
              warm == [id |-> t, slug |-> s, status |-> None, isActive |-> FALSE, tier |-> None,
                       version |-> version[t] + 1, raced |-> FALSE]
              c == [pc |-> "warmId", tenant |-> t, slug |-> s, warm |-> warm]
  <2>1. new \in Row
    BY GatewayConstants DEF Row, Statuses
  <2>2. warm \in Resolved
    BY <1>1, GatewayConstants DEF Resolved, Create, Write, TypeOK
  <2>3. c \in Call /\ HasItsTenantToo(c)
    BY <2>2 DEF Call, HasItsTenantToo
  <2>4. call' = [call EXCEPT ![a] = c]
    BY <1>1 DEF Create, Start
  <2>5. Write(t, new)
    BY <1>1 DEF Create
  <2>. QED  BY <1>1, <2>1, <2>3, <2>4, <2>5, WriteType, CallType DEF Create, TypeOK
<1>2. ASSUME NEW a \in Admins, NEW t \in Tenants, NEW plan \in PlanInputs, UpdatePlan(a, t, plan)
      PROVE  TypeOK'
  <2>. DEFINE vipMove == (plan = Vip) # (row[t].tier = Vip)
              new == [row[t] EXCEPT !.tier = plan, !.status = IF vipMove THEN "migrating" ELSE @,
                                    !.isActive = IF vipMove THEN FALSE ELSE @]
              c == [pc |-> "invalidate", tenant |-> t, slug |-> row[t].slug, warm |-> None]
  <2>1. row[t] \in Row
    BY <1>2, RowType DEF UpdatePlan
  <2>2. new \in Row
    BY <2>1, GatewayConstants DEF Row, Statuses, Unserved
  <2>3. c \in Call /\ HasItsTenantToo(c)
    BY <2>1 DEF Call, HasItsTenantToo, Row
  <2>4. Write(t, new) /\ call' = [call EXCEPT ![a] = c]
    BY <1>2 DEF UpdatePlan, Start
  <2>. QED  BY <1>2, <2>2, <2>3, <2>4, WriteType, CallType DEF UpdatePlan, TypeOK
<1>3. ASSUME NEW a \in Admins, NEW t \in Tenants, Offboard(a, t)
      PROVE  TypeOK'
  <2>. DEFINE new == [row[t] EXCEPT !.status = "offboarded", !.isActive = FALSE, !.slug = None]
              c == [pc |-> "flush", tenant |-> t, slug |-> row[t].slug, warm |-> None]
  <2>1. row[t] \in Row
    BY <1>3, RowType DEF Offboard
  <2>2. new \in Row
    BY <2>1 DEF Row, Statuses, Unserved
  <2>3. c \in Call /\ HasItsTenantToo(c)
    BY <2>1 DEF Call, HasItsTenantToo, Row
  <2>4. Write(t, new) /\ call' = [call EXCEPT ![a] = c]
    BY <1>3 DEF Offboard, Start
  <2>. QED  BY <1>3, <2>2, <2>3, <2>4, WriteType, CallType DEF Offboard, TypeOK
<1>4. ASSUME NEW t \in Tenants, NEW status \in StatusInputs, UpdateStatus(t, status)
      PROVE  TypeOK'
  <2>. DEFINE new == [row[t] EXCEPT !.status = status, !.isActive = (status = "active")]
  <2>1. row[t] \in Row
    BY <1>4, RowType DEF UpdateStatus
  <2>2. new \in Row /\ Write(t, new)
    BY <1>4, <2>1, GatewayConstants DEF Row, UpdateStatus
  <2>. QED  BY <1>4, <2>2, WriteType DEF UpdateStatus, TypeOK
<1>5. ASSUME NEW t \in Tenants, NEW tier \in PlanInputs, JobEnds(t, tier)
      PROVE  TypeOK'
  <2>. DEFINE new == [row[t] EXCEPT !.status = "active", !.tier = tier]
  <2>1. row[t] \in Row
    BY <1>5, RowType DEF JobEnds
  <2>2. new \in Row /\ Write(t, new)
    BY <1>5, <2>1, GatewayConstants DEF Row, JobEnds, Statuses
  <2>. QED  BY <1>5, <2>2, WriteType DEF JobEnds, TypeOK
<1>. QED  BY <1>1, <1>2, <1>3, <1>4, <1>5 DEF AdminNext

LEMMA MarkType ==
    ASSUME TypeOK, NEW t \in Tenants, MarkRaced(t)
    PROVE  RequestsTyped'
<1>. SUFFICES ASSUME NEW r \in Requests
              PROVE  request'[r] \in Request /\ HasItsTenant(request'[r])
  BY DEF MarkRaced, RequestsTyped
<1>1. request[r] \in Request /\ HasItsTenant(request[r])
  BY DEF TypeOK
<1>2. CASE request[r].pc \in {"fillId", "fillSlug"} /\ Holds(request[r].tenant, t)
  <2>. DEFINE c == [request[r].tenant EXCEPT !.raced = TRUE]
  <2>1. c \in Resolved /\ c.slug = request[r].tenant.slug
    BY <1>1, <1>2 DEF Resolved, HasItsTenant
  <2>2. request'[r] = [request[r] EXCEPT !.tenant = c]
    BY <1>2 DEF MarkRaced
  <2>. QED  BY <1>1, <1>2, <2>1, <2>2 DEF Request, HasItsTenant
<1>3. CASE ~(request[r].pc \in {"fillId", "fillSlug"} /\ Holds(request[r].tenant, t))
  BY <1>1, <1>3 DEF MarkRaced
<1>. QED  BY <1>2, <1>3

LEMMA CallTypeStep ==
    ASSUME TypeOK, NEW a \in Admins, CallNext(a)
    PROVE  TypeOK'
<1>. USE DEF countVars
<1>0. call[a] \in Call /\ HasItsTenantToo(call[a])
  BY DEF TypeOK
<1>1. CASE WarmId(a)
  <2>. DEFINE c == [call[a] EXCEPT !.pc = "warmSlug"]
  <2>1. c \in Call /\ HasItsTenantToo(c)
    BY <1>0, <1>1 DEF WarmId, Call, HasItsTenantToo
  <2>. QED  BY <1>0, <1>1, <2>1, CallType DEF WarmId, TypeOK, HasItsTenantToo
<1>2. CASE WarmSlug(a)
  BY <1>0, <1>2, CallType, IdleCall DEF WarmSlug, TypeOK, HasItsTenantToo
<1>3. CASE Flush(a)
  <2>. DEFINE c == [call[a] EXCEPT !.pc = "invalidate"]
  <2>1. c \in Call /\ HasItsTenantToo(c)
    BY <1>0, <1>3 DEF Flush, Call, HasItsTenantToo
  <2>2. [b \in Buckets |-> NoCounter] \in [Buckets -> Counter]
    BY GatewayConstants DEF NoCounter, Counter
  <2>. QED  BY <1>0, <1>3, <2>1, <2>2, CallType DEF Flush, TypeOK, HasItsTenantToo
<1>4. CASE Invalidate(a)
  <2>. DEFINE t == call[a].tenant
  <2>1. t \in Tenants
    BY <1>0, <1>4 DEF Invalidate, DeleteEntries, HasItsTenantToo
  <2>2. RequestsTyped'
    BY <1>4, <2>1, MarkType DEF Invalidate, DeleteEntries
  <2>3. ASSUME NEW b \in Admins
        PROVE  call'[b] \in Call /\ HasItsTenantToo(call'[b])
    <3>1. call[b] \in Call /\ HasItsTenantToo(call[b])
      BY DEF TypeOK
    <3>2. CASE b = a
      BY <1>4, <3>2, IdleCall DEF Invalidate, DeleteEntries
    <3>3. CASE b # a /\ Holds(call[b].warm, t)
      <4>. DEFINE w == [call[b].warm EXCEPT !.raced = TRUE]
      <4>1. call[b].warm \in Resolved
        BY <3>1, <3>3 DEF Call, Holds
      <4>2. w \in Resolved
        BY <4>1 DEF Resolved
      <4>3. call'[b] = [call[b] EXCEPT !.warm = w]
        BY <1>4, <3>3 DEF Invalidate, DeleteEntries
      <4>. QED  BY <3>1, <4>2, <4>3 DEF Call, HasItsTenantToo
    <3>4. CASE b # a /\ ~Holds(call[b].warm, t)
      BY <1>4, <3>1, <3>4 DEF Invalidate, DeleteEntries
    <3>. QED  BY <3>2, <3>3, <3>4
  <2>4. call' \in [Admins -> Call] /\ \A b \in Admins : HasItsTenantToo(call'[b])
    BY <1>4, <2>3 DEF Invalidate, DeleteEntries
  <2>. QED  BY <1>4, <2>1, <2>2, <2>4 DEF Invalidate, DeleteEntries, TypeOK, RequestsTyped
<1>. QED  BY <1>1, <1>2, <1>3, <1>4 DEF CallNext

LEMMA TypeStep ==
    ASSUME TypeOK, [Next]_vars
    PROVE  TypeOK'
<1>. USE DEF countVars
<1>1. ASSUME NEW k \in Keys, ExpireEntry(k)
      PROVE  TypeOK'
  BY <1>1 DEF ExpireEntry, TypeOK
<1>2. CASE Tick
  <2>1. now' \in 0..MaxTime
    BY <1>2, GatewayConstants DEF Tick, TypeOK
  <2>2. NoCounter \in Counter
    BY GatewayConstants DEF NoCounter, Counter
  <2>3. counter' \in [Tenants -> [Buckets -> Counter]]
    BY <1>2, <2>2 DEF Tick, TypeOK
  <2>. QED  BY <1>2, <2>1, <2>3 DEF Tick, TypeOK
<1>3. CASE Crash
  <2>1. crashes' \in 0..MaxCrashes
    BY <1>3, GatewayConstants DEF Crash, TypeOK
  <2>. QED  BY <1>3, <2>1, IdleType, IdleCall DEF Crash, TypeOK
<1>4. CASE UNCHANGED vars
  BY <1>4 DEF vars, TypeOK
<1>. QED  BY <1>1, <1>2, <1>3, <1>4, ReceiveTypeStep, RequestTypeStep, AdminTypeStep, CallTypeStep DEF Next

\* The gateway's state has its types in every reachable state.
THEOREM GatewayTypes == Spec => []TypeOK
<1>1. Init => TypeOK
  BY TypeInit
<1>2. TypeOK /\ [Next]_vars => TypeOK'
  BY TypeStep
<1>. QED  BY <1>1, <1>2, PTL DEF Spec

-----------------------------------------------------------------------------
(***************************************************************************)
(* AfterInvalidation.  A tenant has one name in its life, so whoever       *)
(* deletes its entries under that name deletes them all; origin is that    *)
(* name.  What has yet to be stored is marked by the deletion.             *)
(***************************************************************************)
Good(c, origin) ==
    /\ Exists(c.id) /\ c.slug \in {None, origin[c.id]}
    /\ c.version <= version[c.id]
    /\ ~c.raced => settled[c.id] <= c.version

RowsCoherent(origin) ==
    /\ origin \in [Tenants -> Slugs \cup {None}]
    /\ \A t \in Tenants : settled[t] <= version[t]
    /\ \A t \in Tenants : Exists(t) => row[t].slug \in {None, origin[t]}

EntriesCoherent(origin) ==
    \A k \in Keys : lookup[k] # None => Good(lookup[k], origin) /\ k \in {lookup[k].id, lookup[k].slug}

RequestsCoherent(origin) ==
    \A r \in Requests : request[r].pc \in {"fillId", "fillSlug"} => Good(request[r].tenant, origin)

CallCoherent(c, origin) ==
    /\ c.pc # "idle" => Exists(c.tenant) /\ c.slug \in {None, origin[c.tenant]}
    /\ c.pc \in {"warmId", "warmSlug"} => Good(c.warm, origin) /\ c.warm.id = c.tenant /\ c.warm.slug = c.slug

CallsCoherent(origin) == \A a \in Admins : CallCoherent(call[a], origin)

Coherent(origin) ==
    RowsCoherent(origin) /\ EntriesCoherent(origin) /\ RequestsCoherent(origin) /\ CallsCoherent(origin)

IInv == TypeOK /\ \E origin \in [Tenants -> Slugs \cup {None}] : Coherent(origin)

\* A request that passes the gate has nothing left to store.
LEMMA GateDone ==
    ASSUME TypeOK, NEW r \in Requests, NEW q \in Request, NEW c, AfterGate(r, q, c)
    PROVE  /\ request'[r].pc \notin {"fillId", "fillSlug"}
           /\ \A x \in Requests : x # r => request'[x] = request[x]
<1>. DEFINE new == [q EXCEPT !.tenant = c, !.pc = IF Limited(c) THEN "count" ELSE "served"]
<1>1. NoRequest.pc = "idle" /\ new.pc \in {"count", "served"}
  BY DEF NoRequest, Request
<1>2. request' = [request EXCEPT ![r] = NoRequest] \/ request' = [request EXCEPT ![r] = new]
  BY DEF AfterGate
<1>. QED  BY <1>1, <1>2 DEF TypeOK

\* The steps of requests and calls that write no row.
LEMMA RequestCoherence ==
    ASSUME TypeOK, NEW origin, Coherent(origin),
           \/ \E r \in Requests : RequestNext(r)
           \/ \E r \in Requests, k \in Keys, reads \in BOOLEAN : Receive(r, k, reads)
    PROVE  Coherent(origin)'
<1>. USE DEF countVars, Coherent, RowsCoherent, EntriesCoherent, RequestsCoherent, CallsCoherent, CallCoherent, Good, Exists
<1>0. ASSUME NEW r \in Requests
      PROVE  request[r] \in Request /\ HasItsTenant(request[r])
  BY DEF TypeOK
<1>1. ASSUME NEW r \in Requests, NEW k \in Keys, NEW reads \in BOOLEAN, Receive(r, k, reads)
      PROVE  Coherent(origin)'
  <2>. DEFINE q == [pc |-> "query", key |-> k, reads |-> reads, tenant |-> None, bucket |-> 0]
  <2>1. q \in Request /\ q.pc = "query"
    BY ZeroBucket DEF Request
  <2>2. AfterGate(r, q, lookup[k]) \/ request' = [request EXCEPT ![r] = q]
    BY <1>1 DEF Receive
  <2>3. \A x \in Requests : request'[x].pc \in {"fillId", "fillSlug"} => request'[x] = request[x]
    BY <2>1, <2>2, GateDone DEF TypeOK
  <2>. QED  BY <1>1, <2>3 DEF Receive
<1>2. ASSUME NEW r \in Requests, Query(r)
      PROVE  Coherent(origin)'
  <2>1. ASSUME NEW t \in Tenants, Exists(t)
        PROVE  Good(Copy(t), origin)
    BY <2>1 DEF Copy, TypeOK
  <2>2. Named(request[r].key) # {} => (CHOOSE t \in Named(request[r].key) : TRUE) \in Tenants
                                      /\ Exists(CHOOSE t \in Named(request[r].key) : TRUE)
    BY DEF Named
  <2>3. \A x \in Requests : request'[x].pc \in {"fillId", "fillSlug"} => Good(request'[x].tenant, origin)
    BY <1>0, <1>2, <2>1, <2>2 DEF Query, TypeOK, NoRequest, Request
  <2>. QED  BY <1>2, <2>3 DEF Query
<1>3. ASSUME NEW r \in Requests, FillId(r)
      PROVE  Coherent(origin)'
  <2>1. \A x \in Requests : request'[x].pc \in {"fillId", "fillSlug"}
                               => request[x].pc \in {"fillId", "fillSlug"} /\ request'[x].tenant = request[x].tenant
    <3>1. AfterGate(r, request[r], request[r].tenant) \/ request' = [request EXCEPT ![r].pc = "fillSlug"]
      BY <1>3 DEF FillId
    <3>. QED  BY <1>0, <1>3, <3>1, GateDone DEF FillId, TypeOK, Request
  <2>2. request[r].tenant \in Resolved
    BY <1>0, <1>3 DEF FillId, HasItsTenant
  <2>3. EntriesCoherent(origin)'
    BY <1>3, <2>2 DEF FillId, TypeOK
  <2>. QED  BY <1>3, <2>1, <2>3 DEF FillId
<1>4. ASSUME NEW r \in Requests, FillSlug(r)
      PROVE  Coherent(origin)'
  <2>1. \A x \in Requests : request'[x].pc \in {"fillId", "fillSlug"}
                               => request[x].pc \in {"fillId", "fillSlug"} /\ request'[x].tenant = request[x].tenant
    BY <1>0, <1>4, GateDone DEF FillSlug, TypeOK
  <2>2. request[r].tenant \in Resolved
    BY <1>0, <1>4 DEF FillSlug, HasItsTenant
  <2>3. EntriesCoherent(origin)'
    BY <1>4, <2>2 DEF FillSlug, TypeOK
  <2>. QED  BY <1>4, <2>1, <2>3 DEF FillSlug
<1>5. ASSUME NEW r \in Requests, Count(r) \/ Expire(r) \/ Finish(r)
      PROVE  Coherent(origin)'
  <2>1. \A x \in Requests : request'[x].pc \in {"fillId", "fillSlug"} => request'[x] = request[x]
    <3>. DEFINE new == [request[r] EXCEPT !.pc = IF counter[request[r].tenant.id][Bucket].n = 0 THEN "expire" ELSE "served",
                                          !.bucket = Bucket]
    <3>1. NoRequest.pc = "idle" /\ new.pc \in {"expire", "served"}
      BY <1>0 DEF NoRequest, Request
    <3>2. CASE Count(r)
      <4>1. request' = [request EXCEPT ![r] = NoRequest] \/ request' = [request EXCEPT ![r] = new]
        BY <3>2 DEF Count, CountThen
      <4>. QED  BY <3>1, <4>1 DEF TypeOK
    <3>3. CASE Expire(r) \/ Finish(r)
      BY <1>0, <3>1, <3>3 DEF Expire, ExpireIn, Finish, TypeOK, Request
    <3>. QED  BY <1>5, <3>2, <3>3
  <2>2. UNCHANGED <<row, lookup, call, version, settled>>
    BY <1>5 DEF Count, CountThen, Expire, ExpireIn, Finish
  <2>. QED  BY <2>1, <2>2
<1>. QED  BY <1>1, <1>2, <1>3, <1>4, <1>5 DEF RequestNext

\* What a source says of its tenant stays good while rows are only written.
LEMMA WriteKeeps ==
    ASSUME TypeOK, NEW origin, NEW t \in Tenants, NEW new \in Row, Exists(t), Write(t, new), settled' = settled,
           NEW c, c.id \in Tenants, c.version \in Nat, Good(c, origin)
    PROVE  Good(c, origin)'
  BY NoneIsNoRow DEF Good, Exists, Write, TypeOK

LEMMA UpdateCoherence ==
    ASSUME TypeOK, NEW origin, Coherent(origin), NEW t \in Tenants, Exists(t), NEW new \in Row, Write(t, new),
           new.slug \in {None, row[t].slug}, UNCHANGED <<lookup, request, settled>>,
           \A a \in Admins : \/ call'[a] = call[a]
                             \/ call'[a].pc \in {"invalidate", "flush"} /\ call'[a].tenant = t /\ call'[a].slug = row[t].slug
    PROVE  Coherent(origin)'
<1>1. RowsCoherent(origin)'
  BY NoneIsNoRow DEF Coherent, RowsCoherent, Write, TypeOK, Exists, Row
<1>2. EntriesCoherent(origin)'
  <2>1. \A k \in Keys : lookup[k] # None => lookup[k].id \in Tenants /\ lookup[k].version \in Nat
    BY DEF TypeOK, Resolved
  <2>. QED  BY <2>1, WriteKeeps DEF Coherent, EntriesCoherent
<1>3. RequestsCoherent(origin)'
  <2>1. \A r \in Requests : request[r].pc \in {"fillId", "fillSlug"}
                             => request[r].tenant.id \in Tenants /\ request[r].tenant.version \in Nat
    BY DEF TypeOK, Resolved, HasItsTenant
  <2>. QED  BY <2>1, WriteKeeps DEF Coherent, RequestsCoherent
<1>4. CallsCoherent(origin)'
  <2>. SUFFICES ASSUME NEW a \in Admins
                PROVE  CallCoherent(call[a], origin)'
    BY DEF CallsCoherent
  <2>1. CASE call'[a] = call[a]
    <3>1. call[a].pc # "idle" => call[a].tenant \in Tenants
      BY DEF TypeOK, HasItsTenantToo
    <3>2. call[a].pc \in {"warmId", "warmSlug"} => call[a].warm.id \in Tenants /\ call[a].warm.version \in Nat
      BY DEF TypeOK, HasItsTenantToo, Resolved
    <3>3. \A x \in Tenants : Exists(x) => Exists(x)'
      BY NoneIsNoRow DEF Exists, Write, TypeOK
    <3>. QED  BY <2>1, <3>1, <3>2, <3>3, WriteKeeps DEF Coherent, CallsCoherent, CallCoherent
  <2>2. CASE call'[a].pc \in {"invalidate", "flush"} /\ call'[a].tenant = t /\ call'[a].slug = row[t].slug
    BY <2>2, NoneIsNoRow DEF Coherent, RowsCoherent, CallCoherent, Exists, Write, TypeOK
  <2>. QED  BY <2>1, <2>2
<1>. QED  BY <1>1, <1>2, <1>3, <1>4 DEF Coherent

\* A new tenant: nothing yet speaks of it, so its name can become its origin.
LEMMA CreateCoherence ==
    ASSUME TypeOK, NEW origin, Coherent(origin),
           NEW a \in Admins, NEW t \in Tenants, NEW s \in Slugs, NEW plan \in PlanInputs, Create(a, t, s, plan)
    PROVE  Coherent([origin EXCEPT ![t] = s])'
<1>. DEFINE new == [status |-> "active", isActive |-> TRUE, tier |-> plan, slug |-> s]
            o == [origin EXCEPT ![t] = s]
<1>a. PICK warm : warm = [id |-> t, slug |-> s, status |-> None, isActive |-> FALSE, tier |-> None,
                          version |-> version[t] + 1, raced |-> FALSE]
  OBVIOUS
<1>b. new \in Row
  BY GatewayConstants DEF Row, Statuses
<1>0. /\ new \in Row /\ new # None /\ ~Exists(t) /\ Write(t, new)
      /\ call' = [call EXCEPT ![a] = [pc |-> "warmId", tenant |-> t, slug |-> s, warm |-> warm]]
      /\ UNCHANGED <<lookup, request, settled>>
  BY <1>a, <1>b, NoneIsNoRow DEF Create, Start
<1>1. o \in [Tenants -> Slugs \cup {None}] /\ \A x \in Tenants : x # t => o[x] = origin[x]
  BY DEF Coherent, RowsCoherent
<1>2. o[t] = s
  BY DEF Coherent, RowsCoherent
<1>3. RowsCoherent(o)'
  <2>1. \A x \in Tenants : settled'[x] <= version'[x]
    BY <1>0 DEF Coherent, RowsCoherent, Write, TypeOK
  <2>2. \A x \in Tenants : Exists(x)' => row'[x].slug \in {None, o[x]}
    BY <1>0, <1>1, <1>2 DEF Coherent, RowsCoherent, Write, TypeOK, Exists
  <2>. QED  BY <1>1, <2>1, <2>2 DEF RowsCoherent
<1>4. ASSUME NEW c, c.id \in Tenants, c.version \in Nat, Good(c, origin)
      PROVE  Good(c, o)'
  BY <1>0, <1>1, <1>4 DEF Good, Exists, Write, TypeOK
<1>5. EntriesCoherent(o)'
  <2>1. \A k \in Keys : lookup[k] # None => lookup[k].id \in Tenants /\ lookup[k].version \in Nat
    BY DEF TypeOK, Resolved
  <2>. QED  BY <1>0, <1>4, <2>1 DEF Coherent, EntriesCoherent
<1>6. RequestsCoherent(o)'
  <2>1. \A r \in Requests : request[r].pc \in {"fillId", "fillSlug"}
                             => request[r].tenant.id \in Tenants /\ request[r].tenant.version \in Nat
    BY DEF TypeOK, Resolved, HasItsTenant
  <2>. QED  BY <1>0, <1>4, <2>1 DEF Coherent, RequestsCoherent
<1>7. CallsCoherent(o)'
  <2>. SUFFICES ASSUME NEW b \in Admins
                PROVE  CallCoherent(call[b], o)'
    BY DEF CallsCoherent
  <2>1. CASE b = a
    <3>1. Exists(t)' /\ version'[t] = version[t] + 1 /\ settled'[t] <= version[t] + 1
      BY <1>0 DEF Exists, Write, TypeOK, Coherent, RowsCoherent
    <3>2. Good(warm, o)'
      BY <1>2, <1>a, <3>1 DEF Good, TypeOK
    <3>3. call'[a] = [pc |-> "warmId", tenant |-> t, slug |-> s, warm |-> warm]
      BY <1>0 DEF TypeOK
    <3>. QED  BY <1>2, <1>a, <2>1, <3>1, <3>2, <3>3 DEF CallCoherent
  <2>2. CASE b # a
    <3>1. call'[b] = call[b]
      BY <1>0, <2>2 DEF TypeOK
    <3>2. call[b].pc # "idle" => call[b].tenant \in Tenants
      BY DEF TypeOK, HasItsTenantToo
    <3>3. call[b].pc \in {"warmId", "warmSlug"} => call[b].warm.id \in Tenants /\ call[b].warm.version \in Nat
      BY DEF TypeOK, HasItsTenantToo, Resolved
    <3>4. \A x \in Tenants : Exists(x) => Exists(x)'
      BY <1>0 DEF Exists, Write, TypeOK
    <3>. QED  BY <1>0, <1>1, <1>4, <3>1, <3>2, <3>3, <3>4 DEF Coherent, CallsCoherent, CallCoherent
  <2>. QED  BY <2>1, <2>2
<1>. QED  BY <1>3, <1>5, <1>6, <1>7 DEF Coherent

LEMMA CallCoherence ==
    ASSUME TypeOK, NEW origin, Coherent(origin), NEW a \in Admins, CallNext(a)
    PROVE  Coherent(origin)'
<1>. USE DEF countVars
<1>0. call[a] \in Call /\ HasItsTenantToo(call[a]) /\ CallCoherent(call[a], origin)
  BY DEF TypeOK, Coherent, CallsCoherent
<1>1. CASE WarmId(a) \/ WarmSlug(a) \/ Flush(a)
  <2>1. UNCHANGED <<row, request, version, settled>>
    BY <1>1 DEF WarmId, WarmSlug, Flush
  <2>2. EntriesCoherent(origin)'
    BY <1>0, <1>1, <2>1 DEF WarmId, WarmSlug, Flush, TypeOK, Coherent, EntriesCoherent, CallCoherent, HasItsTenantToo, Good, Exists
  <2>3. CallsCoherent(origin)'
    <3>1. \A b \in Admins : b # a => call'[b] = call[b]
      BY <1>1 DEF WarmId, WarmSlug, Flush, TypeOK
    <3>2. CASE WarmId(a)
      <4>1. call'[a] = [call[a] EXCEPT !.pc = "warmSlug"]
        BY <3>2 DEF WarmId, TypeOK
      <4>2. CallCoherent(call[a], origin)'
        BY <1>0, <2>1, <3>2, <4>1 DEF WarmId, Call, CallCoherent, Good, Exists
      <4>. QED  BY <2>1, <3>1, <4>2 DEF Coherent, CallsCoherent, CallCoherent, Good, Exists
    <3>3. CASE WarmSlug(a)
      <4>1. call'[a] = NoCall
        BY <3>3 DEF WarmSlug, TypeOK
      <4>. QED  BY <2>1, <3>1, <4>1 DEF Coherent, CallsCoherent, CallCoherent, Good, Exists, NoCall
    <3>4. CASE Flush(a)
      <4>1. call'[a] = [call[a] EXCEPT !.pc = "invalidate"]
        BY <3>4 DEF Flush, TypeOK
      <4>2. CallCoherent(call[a], origin)'
        BY <1>0, <2>1, <3>4, <4>1 DEF Flush, Call, CallCoherent, Good, Exists
      <4>. QED  BY <2>1, <3>1, <4>2 DEF Coherent, CallsCoherent, CallCoherent, Good, Exists
    <3>. QED  BY <1>1, <3>2, <3>3, <3>4
  <2>4. RowsCoherent(origin)' /\ RequestsCoherent(origin)'
    BY <2>1 DEF Coherent, RowsCoherent, RequestsCoherent, Good, Exists
  <2>. QED  BY <2>2, <2>3, <2>4 DEF Coherent
<1>2. CASE Invalidate(a)
  <2>. DEFINE t == call[a].tenant
              s == call[a].slug
  <2>0. t \in Tenants /\ Exists(t) /\ s \in {None, origin[t]}
    BY <1>0, <1>2 DEF Invalidate, DeleteEntries, HasItsTenantToo, CallCoherent
  <2>1. UNCHANGED <<row, version>> /\ settled' = [settled EXCEPT ![t] = IF s = None THEN @ ELSE version[t]]
        /\ lookup' = [k \in Keys |-> IF k \in {t, s} THEN None ELSE lookup[k]] /\ MarkRaced(t)
    BY <1>2 DEF Invalidate, DeleteEntries
  <2>2. RowsCoherent(origin)'
    BY <2>0, <2>1 DEF Coherent, RowsCoherent, TypeOK, Exists
  <2>3. ASSUME NEW c, c.id \in Tenants, Good(c, origin), c.raced \/ c.id # t \/ s = None
        PROVE  Good(c, origin)'
    BY <2>0, <2>1, <2>3 DEF Good, Exists, TypeOK
  <2>4. EntriesCoherent(origin)'
    <3>. SUFFICES ASSUME NEW k \in Keys, lookup'[k] # None
                  PROVE  Good(lookup[k], origin)' /\ k \in {lookup'[k].id, lookup'[k].slug}
      BY DEF EntriesCoherent
    <3>1. lookup'[k] = lookup[k] /\ k \notin {t, s} /\ lookup[k] \in Resolved
      BY <2>1 DEF TypeOK
    <3>2. Good(lookup[k], origin) /\ k \in {lookup[k].id, lookup[k].slug}
      BY <3>1 DEF Coherent, EntriesCoherent
    <3>3. lookup[k].id # t \/ s = None
      <4>1. k # None
        BY GatewayConstants DEF Keys
      <4>. QED  BY <2>0, <3>1, <3>2, <4>1 DEF Good
    <3>4. lookup[k].id \in Tenants
      BY <3>1 DEF Resolved
    <3>. QED  BY <2>3, <3>1, <3>2, <3>3, <3>4
  <2>5. RequestsCoherent(origin)'
    <3>. SUFFICES ASSUME NEW r \in Requests, request'[r].pc \in {"fillId", "fillSlug"}
                  PROVE  Good(request[r].tenant, origin)'
      BY DEF RequestsCoherent
    <3>1. request[r] \in Request /\ HasItsTenant(request[r])
      BY DEF TypeOK
    <3>2. CASE request[r].pc \in {"fillId", "fillSlug"} /\ Holds(request[r].tenant, t)
      <4>0. PICK c : c = [request[r].tenant EXCEPT !.raced = TRUE]
        OBVIOUS
      <4>1. request[r].tenant \in Resolved /\ Good(request[r].tenant, origin)
        BY <3>1, <3>2 DEF HasItsTenant, Coherent, RequestsCoherent
      <4>2. c.id = request[r].tenant.id /\ c.raced /\ Good(c, origin) /\ c.id \in Tenants
        BY <4>0, <4>1 DEF Resolved, Good
      <4>3. request'[r].tenant = c
        BY <2>1, <3>1, <3>2, <4>0 DEF MarkRaced, Request
      <4>4. Good(c, origin)'
        BY <2>3, <4>2
      <4>. QED  BY <4>3, <4>4
    <3>3. CASE ~(request[r].pc \in {"fillId", "fillSlug"} /\ Holds(request[r].tenant, t))
      <4>1. request'[r] = request[r]
        BY <2>1, <3>3 DEF MarkRaced
      <4>2. request[r].tenant \in Resolved /\ Good(request[r].tenant, origin) /\ request[r].tenant.id # t
        BY <3>1, <3>3, <4>1, NoneIsNoRow DEF HasItsTenant, Coherent, RequestsCoherent, Holds
      <4>. QED  BY <2>3, <4>1, <4>2 DEF Resolved
    <3>. QED  BY <3>2, <3>3
  <2>6. CallsCoherent(origin)'
    <3>. SUFFICES ASSUME NEW b \in Admins
                  PROVE  CallCoherent(call[b], origin)'
      BY DEF CallsCoherent
    <3>1. call[b] \in Call /\ HasItsTenantToo(call[b]) /\ CallCoherent(call[b], origin)
      BY DEF TypeOK, Coherent, CallsCoherent
    <3>2. CASE b = a
      BY <1>2, <3>2 DEF Invalidate, DeleteEntries, CallCoherent, NoCall
    <3>3. CASE b # a /\ Holds(call[b].warm, t)
      <4>0. PICK w : w = [call[b].warm EXCEPT !.raced = TRUE]
        OBVIOUS
      <4>1. call[b].warm \in Resolved
        BY <3>1, <3>3 DEF Call, Holds
      <4>2. call'[b] = [call[b] EXCEPT !.warm = w]
        BY <1>2, <3>3, <4>0 DEF Invalidate, DeleteEntries
      <4>3. w.raced /\ w.id = call[b].warm.id /\ w.slug = call[b].warm.slug /\ w.version = call[b].warm.version
            /\ w.id \in Tenants
        BY <4>0, <4>1 DEF Resolved
      <4>4. Good(call[b].warm, origin) => Good(w, origin)'
        BY <2>3, <4>3 DEF Good
      <4>5. call'[b].pc = call[b].pc /\ call'[b].tenant = call[b].tenant /\ call'[b].slug = call[b].slug /\ call'[b].warm = w
        BY <3>1, <4>2 DEF Call
      <4>. QED  BY <2>1, <3>1, <4>3, <4>4, <4>5 DEF CallCoherent, Exists
    <3>4. CASE b # a /\ ~Holds(call[b].warm, t)
      <4>1. call'[b] = call[b]
        BY <1>2, <3>4 DEF Invalidate, DeleteEntries
      <4>2. call[b].pc \in {"warmId", "warmSlug"} => call[b].warm.id # t /\ call[b].warm.id \in Tenants
        BY <3>1, <3>4, NoneIsNoRow DEF Holds, HasItsTenantToo, Resolved
      <4>. QED  BY <2>1, <2>3, <3>1, <4>1, <4>2 DEF CallCoherent, Exists
    <3>. QED  BY <3>2, <3>3, <3>4
  <2>. QED  BY <2>2, <2>4, <2>5, <2>6 DEF Coherent
<1>. QED  BY <1>1, <1>2 DEF CallNext

LEMMA CoherenceStep ==
    ASSUME IInv, [Next]_vars
    PROVE  IInv'
<1>. USE DEF countVars
<1>0. TypeOK /\ TypeOK'
  BY TypeStep DEF IInv
<1>1. PICK origin \in [Tenants -> Slugs \cup {None}] : Coherent(origin)
  BY DEF IInv
<1>2. ASSUME NEW o \in [Tenants -> Slugs \cup {None}], Coherent(o)'
      PROVE  IInv'
  BY <1>0, <1>2 DEF IInv
<1>3. ASSUME AdminNext
      PROVE  IInv'
  <2>1. ASSUME NEW a \in Admins, NEW t \in Tenants, NEW s \in Slugs, NEW plan \in PlanInputs, Create(a, t, s, plan)
        PROVE  IInv'
    <3>1. Coherent([origin EXCEPT ![t] = s])'
      BY <1>0, <1>1, <2>1, CreateCoherence
    <3>2. [origin EXCEPT ![t] = s] \in [Tenants -> Slugs \cup {None}]
      BY <1>1
    <3>. QED  BY <1>2, <3>1, <3>2
  <2>2. ASSUME NEW a \in Admins, NEW t \in Tenants, NEW plan \in PlanInputs, UpdatePlan(a, t, plan)
        PROVE  Coherent(origin)'
    <3>. DEFINE vipMove == (plan = Vip) # (row[t].tier = Vip)
                new == [row[t] EXCEPT !.tier = plan, !.status = IF vipMove THEN "migrating" ELSE @,
                                      !.isActive = IF vipMove THEN FALSE ELSE @]
    <3>1. row[t] \in Row /\ Exists(t) /\ Write(t, new)
      BY <1>0, <2>2, RowType DEF UpdatePlan
    <3>2. new \in Row /\ new.slug = row[t].slug
      BY <3>1, GatewayConstants DEF Row, Statuses, Unserved
    <3>3. \A b \in Admins : \/ call'[b] = call[b]
                            \/ call'[b].pc = "invalidate" /\ call'[b].tenant = t /\ call'[b].slug = row[t].slug
      BY <1>0, <2>2 DEF UpdatePlan, Start, TypeOK
    <3>4. UNCHANGED <<lookup, request, settled>>
      BY <2>2 DEF UpdatePlan
    <3>. HIDE DEF new
    <3>. QED  BY <1>0, <1>1, <3>1, <3>2, <3>3, <3>4, UpdateCoherence
  <2>3. ASSUME NEW a \in Admins, NEW t \in Tenants, Offboard(a, t)
        PROVE  Coherent(origin)'
    <3>. DEFINE new == [row[t] EXCEPT !.status = "offboarded", !.isActive = FALSE, !.slug = None]
    <3>1. row[t] \in Row /\ Exists(t) /\ Write(t, new)
      BY <1>0, <2>3, RowType DEF Offboard
    <3>2. new \in Row /\ new.slug = None
      BY <3>1 DEF Row, Statuses, Unserved
    <3>3. \A b \in Admins : \/ call'[b] = call[b]
                            \/ call'[b].pc = "flush" /\ call'[b].tenant = t /\ call'[b].slug = row[t].slug
      BY <1>0, <2>3 DEF Offboard, Start, TypeOK
    <3>4. UNCHANGED <<lookup, request, settled>>
      BY <2>3 DEF Offboard
    <3>. HIDE DEF new
    <3>. QED  BY <1>0, <1>1, <3>1, <3>2, <3>3, <3>4, UpdateCoherence
  <2>4. ASSUME NEW t \in Tenants, NEW status \in StatusInputs, UpdateStatus(t, status)
        PROVE  Coherent(origin)'
    <3>. DEFINE new == [row[t] EXCEPT !.status = status, !.isActive = (status = "active")]
    <3>1. row[t] \in Row /\ Exists(t) /\ Write(t, new) /\ UNCHANGED <<lookup, request, call, settled>>
      BY <1>0, <2>4, RowType DEF UpdateStatus
    <3>2. new \in Row /\ new.slug = row[t].slug
      BY <3>1, GatewayConstants DEF Row
    <3>. HIDE DEF new
    <3>. QED  BY <1>0, <1>1, <3>1, <3>2, UpdateCoherence
  <2>5. ASSUME NEW t \in Tenants, NEW tier \in PlanInputs, JobEnds(t, tier)
        PROVE  Coherent(origin)'
    <3>. DEFINE new == [row[t] EXCEPT !.status = "active", !.tier = tier]
    <3>1. row[t] \in Row /\ Exists(t) /\ Write(t, new) /\ UNCHANGED <<lookup, request, call, settled>>
      BY <1>0, <2>5, RowType DEF JobEnds
    <3>2. new \in Row /\ new.slug = row[t].slug
      BY <3>1, GatewayConstants DEF Row, Statuses
    <3>. HIDE DEF new
    <3>. QED  BY <1>0, <1>1, <3>1, <3>2, UpdateCoherence
  <2>. QED  BY <1>1, <1>2, <1>3, <2>1, <2>2, <2>3, <2>4, <2>5 DEF AdminNext
<1>4. ASSUME NEW k \in Keys, ExpireEntry(k)
      PROVE  Coherent(origin)'
  BY <1>0, <1>1, <1>4 DEF ExpireEntry, TypeOK, Coherent, RowsCoherent, EntriesCoherent, RequestsCoherent,
                          CallsCoherent, CallCoherent, Good, Exists
<1>5. CASE Tick
  BY <1>1, <1>2, <1>5 DEF Tick, Coherent, RowsCoherent, EntriesCoherent, RequestsCoherent,
                          CallsCoherent, CallCoherent, Good, Exists
<1>6. CASE Crash
  BY <1>1, <1>2, <1>6 DEF Crash, NoRequest, NoCall, Coherent, RowsCoherent, EntriesCoherent, RequestsCoherent,
                          CallsCoherent, CallCoherent, Good, Exists
<1>7. CASE UNCHANGED vars
  BY <1>1, <1>2, <1>7 DEF vars, Coherent, RowsCoherent, EntriesCoherent, RequestsCoherent,
                          CallsCoherent, CallCoherent, Good, Exists
<1>8. ASSUME NEW a \in Admins, CallNext(a)
      PROVE  IInv'
  BY <1>0, <1>1, <1>2, <1>8, CallCoherence
<1>9. ASSUME (\E r \in Requests : RequestNext(r))
             \/ \E r \in Requests, k \in Keys, reads \in BOOLEAN : Receive(r, k, reads)
      PROVE  IInv'
  BY <1>0, <1>1, <1>2, <1>9, RequestCoherence
<1>. QED  BY <1>1, <1>2, <1>3, <1>4, <1>5, <1>6, <1>7, <1>8, <1>9 DEF Next

LEMMA CoherenceInit ==
    ASSUME Init
    PROVE  IInv
<1>. DEFINE o == [t \in Tenants |-> None]
<1>1. Coherent(o)
  BY DEF Init, NoRequest, NoCall, Coherent, RowsCoherent, EntriesCoherent, RequestsCoherent,
         CallsCoherent, CallCoherent, Exists
<1>2. o \in [Tenants -> Slugs \cup {None}]
  OBVIOUS
<1>. QED  BY <1>1, <1>2, TypeInit DEF IInv

\* Once a call has deleted a tenant's entries, none tells of the row as it was
\* before, but for those read before and stored after (invalidateTenantLookup).
THEOREM InvalidationIsComplete == Spec => []AfterInvalidation
<1>1. Init => IInv
  BY CoherenceInit
<1>2. IInv /\ [Next]_vars => IInv'
  BY CoherenceStep
<1>3. IInv => AfterInvalidation
  <2>. SUFFICES ASSUME IInv, NEW k \in Keys, lookup[k] # None, ~lookup[k].raced
                PROVE  lookup[k].version >= settled[lookup[k].id]
    BY DEF AfterInvalidation
  <2>1. lookup[k] \in Resolved /\ settled \in [Tenants -> 0..MaxChanges]
    BY DEF IInv, TypeOK
  <2>2. settled[lookup[k].id] <= lookup[k].version
    BY DEF IInv, Coherent, EntriesCoherent, Good
  <2>. QED  BY <2>1, <2>2, GatewayConstants DEF Resolved
<1>. QED  BY <1>1, <1>2, <1>3, PTL DEF Spec

-----------------------------------------------------------------------------
(***************************************************************************)
(* The rate limit.  Whoever counts has a capped tier, since what has a     *)
(* status has a tier; and a counter outlives the minute it counts, since   *)
(* its life is set after that minute began.                                *)
(***************************************************************************)
HasTier(c) == c.status # None => c.tier \in Tiers
RequestTiered(q) ==
    /\ q.pc \notin {"idle", "query"} => HasTier(q.tenant)
    /\ q.pc = "count" => q.tenant.tier # Vip
RequestsTiered == \A r \in Requests : RequestTiered(request[r])
EntriesTiered == \A k \in Keys : lookup[k] # None => HasTier(lookup[k])
WarmTiered == \A a \in Admins : call[a].pc \in {"warmId", "warmSlug"} => HasTier(call[a].warm)
Tiered == EntriesTiered /\ RequestsTiered /\ WarmTiered

LEMMA IdleTiered == RequestTiered(NoRequest)
  BY DEF RequestTiered, NoRequest

LEMMA GateTiered ==
    ASSUME TypeOK, RequestsTiered, NEW r \in Requests, NEW q \in Request, NEW c \in Resolved, HasTier(c), AfterGate(r, q, c)
    PROVE  RequestsTiered'
<1>. DEFINE new == [q EXCEPT !.tenant = c, !.pc = IF Limited(c) THEN "count" ELSE "served"]
<1>1. RequestTiered(new)
  BY DEF RequestTiered, Request, Limited
<1>2. request' = [request EXCEPT ![r] = NoRequest] \/ request' = [request EXCEPT ![r] = new]
  BY DEF AfterGate
<1>3. request \in [Requests -> Request]
  BY DEF TypeOK
<1>. HIDE DEF new
<1>. QED  BY <1>1, <1>2, <1>3, IdleTiered DEF RequestsTiered, RequestTiered, HasTier

LEMMA RequestTieredStep ==
    ASSUME TypeOK, Tiered, NEW r \in Requests,
           RequestNext(r) \/ \E k \in Keys, reads \in BOOLEAN : Receive(r, k, reads)
    PROVE  Tiered'
<1>. USE DEF countVars, Tiered
<1>0. request \in [Requests -> Request] /\ request[r] \in Request /\ HasItsTenant(request[r]) /\ RequestTiered(request[r])
  BY DEF TypeOK, RequestsTiered
<1>1. ASSUME NEW k \in Keys, NEW reads \in BOOLEAN, Receive(r, k, reads)
      PROVE  Tiered'
  <2>. DEFINE q == [pc |-> "query", key |-> k, reads |-> reads, tenant |-> None, bucket |-> 0]
  <2>1. q \in Request /\ RequestTiered(q)
    BY ZeroBucket DEF Request, RequestTiered
  <2>2. CASE lookup[k] # None
    <3>1. AfterGate(r, q, lookup[k]) /\ lookup[k] \in Resolved /\ HasTier(lookup[k])
      BY <1>1, <2>2 DEF Receive, EntriesTiered, TypeOK
    <3>2. RequestsTiered'
      BY <2>1, <3>1, GateTiered
    <3>. QED  BY <1>1, <3>2 DEF Receive, EntriesTiered, WarmTiered, HasTier
  <2>3. CASE lookup[k] = None
    <3>1. request' = [request EXCEPT ![r] = q]
      BY <1>1, <2>3 DEF Receive
    <3>. QED  BY <1>0, <1>1, <2>1, <3>1 DEF Receive, RequestsTiered, EntriesTiered, WarmTiered, HasTier, RequestTiered
  <2>. QED  BY <2>2, <2>3
<1>2. ASSUME Query(r)
      PROVE  Tiered'
  <2>1. ASSUME NEW t \in Tenants, Exists(t)
        PROVE  HasTier(Copy(t))
    BY <2>1, RowType DEF HasTier, Copy, Row
  <2>2. Named(request[r].key) # {} => (CHOOSE t \in Named(request[r].key) : TRUE) \in Tenants
                                      /\ Exists(CHOOSE t \in Named(request[r].key) : TRUE)
    BY DEF Named
  <2>3. RequestTiered(request[r])'
    BY <1>0, <1>2, <2>1, <2>2 DEF Query, RequestTiered, NoRequest, Request, HasTier
  <2>4. \A x \in Requests \ {r} : request'[x] = request[x]
    BY <1>0, <1>2 DEF Query
  <2>5. RequestsTiered'
    BY <2>3, <2>4 DEF RequestsTiered, RequestTiered, HasTier
  <2>. QED  BY <1>2, <2>5 DEF Query, EntriesTiered, WarmTiered, HasTier
<1>3. ASSUME FillId(r) \/ FillSlug(r)
      PROVE  Tiered'
  <2>. DEFINE c == request[r].tenant
  <2>1. c \in Resolved /\ HasTier(c)
    BY <1>0, <1>3 DEF FillId, FillSlug, HasItsTenant, RequestTiered
  <2>2. AfterGate(r, request[r], c) \/ request' = [request EXCEPT ![r].pc = "fillSlug"]
    BY <1>3 DEF FillId, FillSlug
  <2>3. RequestTiered([request[r] EXCEPT !.pc = "fillSlug"])
    BY <1>0, <2>1 DEF RequestTiered, Request
  <2>4. RequestsTiered'
    BY <1>0, <2>1, <2>2, <2>3, GateTiered DEF RequestsTiered, RequestTiered, HasTier
  <2>5. \A k \in Keys : lookup'[k] \in {lookup[k], c}
    BY <1>3 DEF FillId, FillSlug, TypeOK
  <2>6. EntriesTiered'
    BY <2>1, <2>5 DEF EntriesTiered, HasTier
  <2>. QED  BY <1>3, <2>4, <2>6 DEF FillId, FillSlug, WarmTiered, HasTier
<1>4. ASSUME Count(r) \/ Expire(r) \/ Finish(r)
      PROVE  Tiered'
  <2>1. /\ \A x \in Requests \ {r} : request'[x] = request[x]
        /\ \/ request'[r] = NoRequest
           \/ request'[r].pc \in {"expire", "served"} /\ request'[r].tenant = request[r].tenant
                /\ request[r].pc \in {"count", "expire"}
    <3>. DEFINE new == [request[r] EXCEPT !.pc = IF counter[request[r].tenant.id][Bucket].n = 0 THEN "expire" ELSE "served",
                                          !.bucket = Bucket]
    <3>1. new.pc \in {"expire", "served"} /\ new.tenant = request[r].tenant
      BY <1>0 DEF Request
    <3>2. CASE Count(r)
      <4>1. request' = [request EXCEPT ![r] = NoRequest] \/ request' = [request EXCEPT ![r] = new]
        BY <3>2 DEF Count, CountThen
      <4>2. request[r].pc = "count"
        BY <3>2 DEF Count, CountThen
      <4>. HIDE DEF new
      <4>. QED  BY <1>0, <3>1, <4>1, <4>2
    <3>3. CASE Expire(r) \/ Finish(r)
      BY <1>0, <3>3 DEF Expire, ExpireIn, Finish, Request
    <3>. QED  BY <1>4, <3>2, <3>3
  <2>2. RequestsTiered'
    BY <1>0, <2>1, IdleTiered DEF RequestsTiered, RequestTiered, HasTier
  <2>. QED  BY <1>4, <2>2 DEF Count, CountThen, Expire, ExpireIn, Finish, EntriesTiered, WarmTiered, HasTier
<1>. QED  BY <1>1, <1>2, <1>3, <1>4 DEF RequestNext

LEMMA TieredStep ==
    ASSUME TypeOK, Tiered, [Next]_vars
    PROVE  Tiered'
<1>. USE DEF countVars
<1>0. request \in [Requests -> Request] /\ call \in [Admins -> Call] /\ lookup \in [Keys -> Resolved \cup {None}]
  BY DEF TypeOK
<1>1. ASSUME AdminNext
      PROVE  Tiered'
  <2>1. UNCHANGED <<lookup, request>>
    BY <1>1 DEF AdminNext, Create, UpdatePlan, Offboard, UpdateStatus, JobEnds
  <2>2. \A a \in Admins : call'[a].pc \in {"warmId", "warmSlug"} => call'[a] = call[a] \/ HasTier(call'[a].warm)
    <3>1. ASSUME NEW a \in Admins, NEW t \in Tenants, NEW s \in Slugs, NEW plan \in PlanInputs, Create(a, t, s, plan)
          PROVE  \A b \in Admins : call'[b] = call[b] \/ HasTier(call'[b].warm)
      BY <1>0, <3>1 DEF Create, Start, HasTier
    <3>2. ASSUME NEW a \in Admins, NEW t \in Tenants, NEW plan \in PlanInputs, UpdatePlan(a, t, plan)
          PROVE  \A b \in Admins : call'[b] = call[b] \/ call'[b].pc \in {"invalidate", "flush"}
      BY <1>0, <3>2 DEF UpdatePlan, Start
    <3>3. ASSUME NEW a \in Admins, NEW t \in Tenants, Offboard(a, t)
          PROVE  \A b \in Admins : call'[b] = call[b] \/ call'[b].pc \in {"invalidate", "flush"}
      BY <1>0, <3>3 DEF Offboard, Start
    <3>4. ASSUME NEW t \in Tenants, NEW x, UpdateStatus(t, x) \/ JobEnds(t, x)
          PROVE  call' = call
      BY <3>4 DEF UpdateStatus, JobEnds
    <3>. QED  BY <1>1, <3>1, <3>2, <3>3, <3>4 DEF AdminNext
  <2>. QED  BY <2>1, <2>2 DEF Tiered, EntriesTiered, RequestsTiered, RequestTiered, WarmTiered, HasTier
<1>2. ASSUME NEW a \in Admins, CallNext(a)
      PROVE  Tiered'
  <2>0. call[a] \in Call /\ HasItsTenantToo(call[a])
    BY DEF TypeOK
  <2>1. CASE WarmId(a) \/ WarmSlug(a)
    <3>1. HasTier(call[a].warm)
      BY <2>1 DEF WarmId, WarmSlug, Tiered, WarmTiered
    <3>2. \A k \in Keys : lookup'[k] \in {lookup[k], call[a].warm}
      BY <1>0, <2>1 DEF WarmId, WarmSlug
    <3>3. EntriesTiered'
      BY <3>1, <3>2 DEF Tiered, EntriesTiered, HasTier
    <3>4. \A b \in Admins : call'[b].pc \in {"warmId", "warmSlug"} => call'[b].warm = call[b].warm /\ call[b].pc \in {"warmId", "warmSlug"}
      BY <1>0, <2>1 DEF WarmId, WarmSlug, NoCall, Call
    <3>5. WarmTiered'
      BY <3>4 DEF Tiered, WarmTiered, HasTier
    <3>. QED  BY <2>1, <3>3, <3>5 DEF WarmId, WarmSlug, Tiered, RequestsTiered, RequestTiered, HasTier
  <2>2. CASE Flush(a)
    <3>1. \A k \in Keys : lookup'[k] \in {lookup[k], None}
      BY <1>0, <2>2 DEF Flush
    <3>2. EntriesTiered'
      BY <3>1 DEF Tiered, EntriesTiered, HasTier
    <3>3. \A b \in Admins : call'[b].pc \in {"warmId", "warmSlug"} => call'[b] = call[b]
      BY <1>0, <2>2 DEF Flush, Call
    <3>. QED  BY <2>2, <3>2, <3>3 DEF Flush, Tiered, WarmTiered, RequestsTiered, RequestTiered, HasTier
  <2>3. CASE Invalidate(a)
    <3>1. \A k \in Keys : lookup'[k] \in {lookup[k], None}
      BY <2>3 DEF Invalidate, DeleteEntries
    <3>2. EntriesTiered'
      BY <3>1 DEF Tiered, EntriesTiered, HasTier
    <3>3. ASSUME NEW b \in Admins, call'[b].pc \in {"warmId", "warmSlug"}
          PROVE  HasTier(call'[b].warm)
      <4>1. call[b] \in Call /\ HasItsTenantToo(call[b])
        BY DEF TypeOK
      <4>2. call'[b] = call[b] \/ call'[b] = [call[b] EXCEPT !.warm.raced = TRUE]
        BY <2>3, <3>3 DEF Invalidate, DeleteEntries, NoCall
      <4>3. call[b].pc \in {"warmId", "warmSlug"} /\ call[b].warm \in Resolved
        BY <3>3, <4>1, <4>2 DEF Call, HasItsTenantToo
      <4>4. HasTier(call[b].warm)
        BY <4>3 DEF Tiered, WarmTiered
      <4>. QED  BY <4>1, <4>2, <4>3, <4>4 DEF HasTier, Call, Resolved
    <3>4. ASSUME NEW r \in Requests
          PROVE  RequestTiered(request'[r])
      <4>1. request[r] \in Request /\ HasItsTenant(request[r]) /\ RequestTiered(request[r])
        BY DEF TypeOK, Tiered, RequestsTiered
      <4>2. CASE request'[r] = request[r]
        BY <4>1, <4>2
      <4>3. CASE request[r].pc \in {"fillId", "fillSlug"} /\ request'[r] = [request[r] EXCEPT !.tenant.raced = TRUE]
        <5>1. request[r].tenant \in Resolved /\ HasTier(request[r].tenant)
          BY <4>1, <4>3 DEF HasItsTenant, RequestTiered
        <5>. QED  BY <4>1, <4>3, <5>1 DEF RequestTiered, HasTier, Request, Resolved
      <4>. QED  BY <2>3, <4>2, <4>3 DEF Invalidate, DeleteEntries, MarkRaced
    <3>. QED  BY <3>2, <3>3, <3>4 DEF Tiered, WarmTiered, RequestsTiered, RequestTiered, HasTier
  <2>. QED  BY <1>2, <2>1, <2>2, <2>3 DEF CallNext
<1>3. ASSUME NEW k \in Keys, ExpireEntry(k)
      PROVE  Tiered'
  BY <1>0, <1>3 DEF ExpireEntry, Tiered, EntriesTiered, WarmTiered, RequestsTiered, RequestTiered, HasTier
<1>4. CASE Tick
  BY <1>4 DEF Tick, Tiered, EntriesTiered, WarmTiered, RequestsTiered, RequestTiered, HasTier
<1>5. CASE Crash
  BY <1>5, IdleTiered DEF Crash, NoCall, Tiered, EntriesTiered, WarmTiered, RequestsTiered, RequestTiered, HasTier
<1>6. CASE UNCHANGED vars
  BY <1>6 DEF vars, Tiered, EntriesTiered, WarmTiered, RequestsTiered, RequestTiered, HasTier
<1>. QED  BY <1>1, <1>2, <1>3, <1>4, <1>5, <1>6, RequestTieredStep DEF Next


\* Dividing, and what a minute is.
LEMMA MinuteOf ==
    ASSUME NEW x \in Nat
    PROVE  /\ x \div Window \in Nat
           /\ (x \div Window) * Window <= x /\ x < (x \div Window + 1) * Window
  BY GatewayConstants, SMTT(30)

LEMMA NextMinute ==
    ASSUME NEW b \in Nat
    PROVE  b * Window \in Nat /\ (b + 1) * Window = b * Window + Window
  BY GatewayConstants, SMTT(30)

CountersOutlive ==
    \A t \in Tenants, b \in Buckets :
        counter[t][b].until # None => (b + 1) * Window <= counter[t][b].until
MinutesBegan == \A r \in Requests : request[r].pc = "expire" => request[r].bucket * Window <= now
CountedAll == \A t \in Tenants : passed[t] <= counter[t][Bucket].n
LimitInv == CountersOutlive /\ MinutesBegan /\ CountedAll /\ LimitHolds

LEMMA GateKeepsExpire ==
    ASSUME TypeOK, NEW r \in Requests, NEW q \in Request, NEW c, AfterGate(r, q, c), request[r].pc # "expire"
    PROVE  /\ \A x \in Requests : request'[x].pc = "expire" <=> request[x].pc = "expire"
           /\ \A x \in Requests : request[x].pc = "expire" => request'[x] = request[x]
<1>. DEFINE new == [q EXCEPT !.tenant = c, !.pc = IF Limited(c) THEN "count" ELSE "served"]
<1>1. NoRequest.pc = "idle" /\ new.pc \in {"count", "served"}
  BY DEF NoRequest, Request
<1>2. request' = [request EXCEPT ![r] = NoRequest] \/ request' = [request EXCEPT ![r] = new]
  BY DEF AfterGate
<1>. HIDE DEF new
<1>. QED  BY <1>1, <1>2 DEF TypeOK

\* Steps that leave the counters and the clock alone, and nobody out of EXPIRE.
LEMMA NoCountStep ==
    ASSUME TypeOK, LimitInv, CountersExpire, UNCHANGED countVars,
           \A r \in Requests : request'[r].pc = "expire" <=> request[r].pc = "expire",
           \A r \in Requests : request[r].pc = "expire" => request'[r] = request[r]
    PROVE  LimitInv' /\ CountersExpire'
<1>1. UNCHANGED <<counter, now, passed, crashes>>
  BY DEF countVars
<1>2. CountersOutlive' /\ CountedAll' /\ LimitHolds'
  BY <1>1 DEF LimitInv, CountersOutlive, CountedAll, LimitHolds, Bucket
<1>3. MinutesBegan'
  BY <1>1 DEF LimitInv, MinutesBegan
<1>4. CountersExpire'
  BY <1>1 DEF CountersExpire
<1>. QED  BY <1>2, <1>3, <1>4 DEF LimitInv

LEMMA CountStep ==
    ASSUME TypeOK, TypeOK', Tiered, LimitInv, CountersExpire, NEW r \in Requests, Count(r)
    PROVE  LimitInv' /\ CountersExpire'
<1>. DEFINE c == request[r].tenant
<1>1. /\ request[r] \in Request /\ request[r].pc = "count" /\ c \in Resolved /\ c.status # None
      /\ c.id \in Tenants /\ c.tier \in CappedTiers
      /\ request \in [Requests -> Request]
  BY DEF Count, CountThen, TypeOK, HasItsTenant, Tiered, RequestsTiered, RequestTiered, HasTier, Resolved, Tiers
<1>2. PICK t \in Tenants : t = c.id
  BY <1>1
<1>3. PICK k \in Buckets : k = Bucket
  BY BucketNow
<1>4. PICK n \in 0..MaxCount : n = counter[t][k].n
  BY <1>2, <1>3 DEF TypeOK, Counter
<1>5. PICK l \in Nat \ {0} : l = Limit[c.tier] /\ l < MaxCount
  BY <1>1, GatewayConstants
<1>6. PICK m \in 0..MaxCount : m = IF n < MaxCount THEN n + 1 ELSE n
  BY GatewayConstants
<1>7. /\ counter' = [counter EXCEPT ![t][k].n = m]
      /\ passed' = [passed EXCEPT ![t] = IF n < l THEN @ + 1 ELSE @]
      /\ UNCHANGED <<now, crashes>>
  BY <1>2, <1>3, <1>4, <1>5, <1>6 DEF Count, CountThen
<1>8. /\ counter \in [Tenants -> [Buckets -> Counter]] /\ passed \in [Tenants -> Nat]
      /\ counter'[t][k].n = m
      /\ \A u \in Tenants, b \in Buckets : counter'[u][b].until = counter[u][b].until
      /\ \A u \in Tenants, b \in Buckets : ~(u = t /\ b = k) => counter'[u][b] = counter[u][b]
  BY <1>7 DEF TypeOK, Counter
<1>9. Bucket' = Bucket
  BY <1>7 DEF Bucket
<1>10. PICK q \in Request : /\ request' = [request EXCEPT ![r] = q]
                            /\ \/ q = NoRequest
                               \/ q.pc \in {"expire", "served"} /\ q.bucket = k /\ q.tenant = c
                            /\ n = 0 => q.pc = "expire" /\ q.bucket = k /\ q.tenant.id = t
  <2>1. PICK p \in {"expire", "served"} : p = IF n = 0 THEN "expire" ELSE "served"
    OBVIOUS
  <2>2. PICK q \in Request : q = [request[r] EXCEPT !.pc = p, !.bucket = k]
    BY <1>1, <2>1 DEF Request
  <2>3. q.pc = p /\ q.bucket = k /\ q.tenant = c
    BY <1>1, <2>2 DEF Request
  <2>4. request' = [request EXCEPT ![r] = IF ~(n < l) THEN NoRequest ELSE q]
    BY <1>2, <1>3, <1>4, <1>5, <2>1, <2>2 DEF Count, CountThen
  <2>5. CASE n < l
    BY <1>2, <2>1, <2>3, <2>4, <2>5
  <2>6. CASE ~(n < l)
    <3>1. n # 0 /\ request' = [request EXCEPT ![r] = NoRequest]
      BY <1>5, <2>4, <2>6, GatewayConstants
    <3>. QED  BY <3>1, IdleType
  <2>. QED  BY <2>5, <2>6
<1>11. CountersOutlive'
  <2>1. \A u \in Tenants, b \in Buckets : counter'[u][b].until = counter[u][b].until
    BY <1>8
  <2>. QED  BY <2>1, Zenon DEF LimitInv, CountersOutlive
<1>12. MinutesBegan'
  <2>1. k * Window <= now
    BY <1>3, MinuteOf DEF Bucket, TypeOK
  <2>. QED  BY <1>1, <1>7, <1>10, <2>1 DEF LimitInv, MinutesBegan, NoRequest
<1>13. CountedAll' /\ LimitHolds'
  <2>0. passed[t] <= n /\ passed[t] \in Nat
    BY <1>3, <1>4, <1>8 DEF LimitInv, CountedAll
  <2>1. passed'[t] <= m
    BY <1>5, <1>6, <1>7, <1>8, <2>0, GatewayConstants
  <2>2. \A u \in Tenants \ {t} : passed'[u] = passed[u] /\ counter'[u][k].n = counter[u][k].n
    BY <1>7, <1>8
  <2>3. CountedAll'
    BY <1>3, <1>8, <1>9, <2>1, <2>2 DEF LimitInv, CountedAll
  <2>4. passed'[t] > 0 => \E tier \in CappedTiers : passed'[t] <= Limit[tier]
    <3>1. CASE n < l
      BY <1>1, <1>5, <1>7, <1>8, <2>0, <3>1
    <3>2. CASE ~(n < l)
      BY <1>7, <1>8, <3>2 DEF LimitInv, LimitHolds
    <3>. QED  BY <3>1, <3>2
  <2>. QED  BY <2>2, <2>3, <2>4 DEF LimitInv, LimitHolds
<1>14. ASSUME NEW u \in Tenants, NEW b \in Buckets, counter'[u][b].n > 0, counter'[u][b].until = None, ~(crashes > 0)
       PROVE  \E x \in Requests : request'[x].pc = "expire" /\ request'[x].tenant.id = u /\ request'[x].bucket = b
  <2>1. CASE u = t /\ b = k /\ n = 0
    BY <1>1, <1>10, <2>1
  <2>2. CASE ~(u = t /\ b = k /\ n = 0)
    <3>1. counter[u][b].n > 0 /\ counter[u][b].until = None
      <4>1. counter[u][b].until = None
        BY <1>8, <1>14
      <4>2. CASE u = t /\ b = k
        BY <1>4, <2>2, <4>1, <4>2, GatewayConstants
      <4>3. CASE ~(u = t /\ b = k)
        BY <1>8, <1>14, <4>3
      <4>. QED  BY <4>1, <4>2, <4>3
    <3>2. PICK x \in Requests : request[x].pc = "expire" /\ request[x].tenant.id = u /\ request[x].bucket = b
      BY <1>14, <3>1 DEF CountersExpire
    <3>. QED  BY <1>1, <1>10, <3>2
  <2>. QED  BY <2>1, <2>2
<1>15. CountersExpire'
  BY <1>7, <1>14 DEF CountersExpire
<1>. QED  BY <1>11, <1>12, <1>13, <1>15 DEF LimitInv

LEMMA ExpireStep ==
    ASSUME TypeOK, LimitInv, CountersExpire, NEW r \in Requests, Expire(r)
    PROVE  LimitInv' /\ CountersExpire'
<1>. DEFINE c == request[r].tenant
<1>1. /\ request[r] \in Request /\ request[r].pc = "expire" /\ c \in Resolved
      /\ request \in [Requests -> Request] /\ now \in Nat
  BY DEF Expire, ExpireIn, TypeOK, HasItsTenant
<1>2. PICK t \in Tenants : t = c.id
  BY <1>1 DEF Resolved
<1>3. PICK k \in Buckets : k = request[r].bucket
  BY <1>1 DEF Request
<1>4. PICK u \in Nat \cup {None} : u = IF counter[t][k].n = 0 THEN None ELSE now + Window
  <2>1. now + Window \in Nat
    BY <1>1, GatewayConstants
  <2>. QED  BY <2>1, Zenon
<1>5. counter' = [counter EXCEPT ![t][k].until = u] /\ UNCHANGED <<now, passed, crashes>>
  BY <1>2, <1>3, <1>4 DEF Expire, ExpireIn
<1>6. /\ counter \in [Tenants -> [Buckets -> Counter]]
      /\ counter'[t][k].until = u /\ counter'[t][k].n = counter[t][k].n
      /\ \A v \in Tenants, b \in Buckets : <<v, b>> # <<t, k>> => counter'[v][b] = counter[v][b]
  BY <1>5 DEF TypeOK, Counter
<1>7. /\ request'[r].pc = "served" /\ \A x \in Requests \ {r} : request'[x] = request[x]
  BY <1>1 DEF Expire, ExpireIn, Request
<1>8. u # None => (k + 1) * Window <= u
  <2>1. k * Window <= now
    BY <1>1, <1>3 DEF LimitInv, MinutesBegan
  <2>2. (k + 1) * Window = k * Window + Window /\ k * Window \in Nat
    BY NextMinute DEF Buckets
  <2>. QED  BY <1>1, <1>4, <2>1, <2>2, GatewayConstants
<1>9. CountersOutlive'
  BY <1>6, <1>8 DEF LimitInv, CountersOutlive
<1>10. MinutesBegan'
  BY <1>5, <1>7 DEF LimitInv, MinutesBegan
<1>11. \A v \in Tenants, b \in Buckets : counter'[v][b].n = counter[v][b].n
  BY <1>6
<1>12. Bucket' = Bucket /\ Bucket \in Buckets
  BY <1>5, BucketNow DEF Bucket
<1>13. CountedAll' /\ LimitHolds'
  BY <1>5, <1>11, <1>12 DEF LimitInv, CountedAll, LimitHolds
<1>14. CountersExpire'
  <2>1. SUFFICES ASSUME NEW v \in Tenants, NEW b \in Buckets, counter'[v][b].n > 0, counter'[v][b].until = None, ~(crashes > 0)
                 PROVE  \E x \in Requests : request'[x].pc = "expire" /\ request'[x].tenant.id = v /\ request'[x].bucket = b
    BY <1>5 DEF CountersExpire
  <2>2. <<v, b>> # <<t, k>>
    BY <1>1, <1>4, <1>6, <2>1, GatewayConstants DEF TypeOK, Counter
  <2>3. counter[v][b].n > 0 /\ counter[v][b].until = None
    BY <1>6, <2>1, <2>2
  <2>4. PICK x \in Requests : request[x].pc = "expire" /\ request[x].tenant.id = v /\ request[x].bucket = b
    BY <2>1, <2>3 DEF CountersExpire
  <2>5. x # r
    BY <1>2, <1>3, <2>2, <2>4
  <2>. QED  BY <1>7, <2>4, <2>5
<1>. QED  BY <1>9, <1>10, <1>13, <1>14 DEF LimitInv

LEMMA FlushStep ==
    ASSUME TypeOK, LimitInv, CountersExpire, NEW a \in Admins, Flush(a)
    PROVE  LimitInv' /\ CountersExpire'
<1>1. PICK t \in Tenants : t = call[a].tenant
  BY DEF Flush, TypeOK, HasItsTenantToo
<1>2. /\ counter' = [counter EXCEPT ![t] = [b \in Buckets |-> NoCounter]] /\ passed' = [passed EXCEPT ![t] = 0]
      /\ UNCHANGED <<request, now, crashes>>
  BY <1>1 DEF Flush
<1>3. counter \in [Tenants -> [Buckets -> Counter]] /\ passed \in [Tenants -> Nat]
  BY DEF TypeOK
<1>4. /\ \A b \in Buckets : counter'[t][b].n = 0 /\ counter'[t][b].until = None
      /\ \A v \in Tenants \ {t} : counter'[v] = counter[v] /\ passed'[v] = passed[v]
      /\ passed'[t] = 0
  BY <1>2, <1>3 DEF NoCounter
<1>5. Bucket' = Bucket /\ Bucket \in Buckets
  BY <1>2, BucketNow DEF Bucket
<1>6. CountersOutlive' /\ MinutesBegan'
  BY <1>2, <1>4 DEF LimitInv, CountersOutlive, MinutesBegan
<1>7. CountedAll' /\ LimitHolds'
  BY <1>4, <1>5 DEF LimitInv, CountedAll, LimitHolds
<1>8. CountersExpire'
  BY <1>2, <1>4 DEF CountersExpire
<1>. QED  BY <1>6, <1>7, <1>8 DEF LimitInv

LEMMA TickStep ==
    ASSUME TypeOK, TypeOK', LimitInv, CountersExpire, Tick
    PROVE  LimitInv' /\ CountersExpire'
<1>1. now \in Nat /\ now' = now + 1 /\ now' \in Nat /\ UNCHANGED <<request, crashes>>
  BY DEF Tick, TypeOK
<1>2. ASSUME NEW t \in Tenants, NEW b \in Buckets
      PROVE  \/ counter'[t][b] = counter[t][b]
             \/ counter'[t][b] = NoCounter /\ counter[t][b].until # None /\ counter[t][b].until <= now'
  BY DEF Tick
<1>3. CountersOutlive'
  BY <1>2 DEF LimitInv, CountersOutlive, NoCounter
<1>4. MinutesBegan'
  <2>1. \A r \in Requests : request[r].bucket \in Nat
    BY DEF TypeOK, Request, Buckets
  <2>2. \A r \in Requests : request[r].bucket * Window \in Nat
    BY <2>1, NextMinute
  <2>. QED  BY <1>1, <2>2 DEF LimitInv, MinutesBegan
<1>5. PICK k \in Buckets : k = Bucket'
  BY BucketNow, BucketIsOne DEF Bucket, TypeOK
<1>6. k \in Nat /\ now' < (k + 1) * Window /\ (k + 1) * Window \in Nat
  BY <1>1, <1>5, MinuteOf, NextMinute, GatewayConstants DEF Bucket, Buckets
<1>7. ASSUME NEW t \in Tenants
      PROVE  passed'[t] <= counter'[t][k].n /\ (passed'[t] > 0 => passed'[t] = passed[t])
  <2>1. counter'[t][k].n \in Nat
    BY DEF TypeOK, Counter
  <2>2. CASE Bucket' = Bucket
    <3>1. passed' = passed /\ passed[t] <= counter[t][k].n
      BY <1>5, <2>2 DEF Tick, LimitInv, CountedAll, Bucket
    <3>2. counter'[t][k] = counter[t][k]
      <4>1. counter[t][k].until \in Nat \cup {None}
        BY DEF TypeOK, Counter
      <4>. QED  BY <1>1, <1>2, <1>6, <4>1 DEF LimitInv, CountersOutlive
    <3>. QED  BY <3>1, <3>2
  <2>3. CASE Bucket' # Bucket
    <3>1. passed'[t] = 0
      BY <2>3 DEF Tick, Bucket
    <3>. QED  BY <2>1, <3>1
  <2>. QED  BY <2>2, <2>3
<1>8. CountedAll' /\ LimitHolds'
  BY <1>5, <1>7 DEF LimitInv, CountedAll, LimitHolds
<1>9. CountersExpire'
  BY <1>1, <1>2 DEF CountersExpire, NoCounter
<1>. QED  BY <1>3, <1>4, <1>8, <1>9 DEF LimitInv

LEMMA LimitStep ==
    ASSUME TypeOK, TypeOK', Tiered, LimitInv, CountersExpire, [Next]_vars
    PROVE  LimitInv' /\ CountersExpire'
<1>0. request \in [Requests -> Request]
  BY DEF TypeOK
<1>1. ASSUME NEW r \in Requests, NEW k \in Keys, NEW reads \in BOOLEAN, Receive(r, k, reads)
      PROVE  LimitInv' /\ CountersExpire'
  <2>. DEFINE q == [pc |-> "query", key |-> k, reads |-> reads, tenant |-> None, bucket |-> 0]
  <2>1. request[r].pc = "idle" /\ UNCHANGED countVars /\ q \in Request
    BY <1>1, ZeroBucket DEF Receive, Request
  <2>2. CASE request' = [request EXCEPT ![r] = q]
    BY <1>0, <2>1, <2>2, NoCountStep
  <2>3. CASE AfterGate(r, q, lookup[k])
    BY <1>0, <2>1, <2>3, NoCountStep, GateKeepsExpire
  <2>. QED  BY <1>1, <2>2, <2>3 DEF Receive
<1>2. ASSUME NEW r \in Requests, Query(r) \/ FillId(r) \/ FillSlug(r) \/ Finish(r)
      PROVE  LimitInv' /\ CountersExpire'
  <2>1. request[r] \in Request /\ request[r].pc # "expire" /\ UNCHANGED countVars
    BY <1>0, <1>2 DEF Query, FillId, FillSlug, Finish
  <2>2. CASE AfterGate(r, request[r], request[r].tenant)
    BY <1>0, <2>1, <2>2, NoCountStep, GateKeepsExpire
  <2>3. CASE request'[r].pc # "expire" /\ \A x \in Requests \ {r} : request'[x] = request[x]
    BY <2>1, <2>3, NoCountStep
  <2>4. \/ AfterGate(r, request[r], request[r].tenant)
        \/ request'[r].pc # "expire" /\ \A x \in Requests \ {r} : request'[x] = request[x]
    <3>1. NoRequest.pc = "idle"
      BY DEF NoRequest
    <3>2. CASE Query(r)
      <4>. DEFINE new == [request[r] EXCEPT !.pc = "fillId", !.tenant = Copy(CHOOSE t \in Named(request[r].key) : TRUE)]
      <4>1. new.pc = "fillId"
        BY <2>1 DEF Request
      <4>2. request' = [request EXCEPT ![r] = NoRequest] \/ request' = [request EXCEPT ![r] = new]
        BY <3>2 DEF Query
      <4>. HIDE DEF new
      <4>. QED  BY <1>0, <3>1, <4>1, <4>2
    <3>3. CASE FillId(r) \/ FillSlug(r) \/ Finish(r)
      BY <1>0, <2>1, <3>1, <3>3 DEF FillId, FillSlug, Finish, Request
    <3>. QED  BY <1>2, <3>2, <3>3
  <2>. QED  BY <2>2, <2>3, <2>4
<1>3. ASSUME AdminNext \/ (\E k \in Keys : ExpireEntry(k)) \/ (\E a \in Admins : WarmId(a) \/ WarmSlug(a)) \/ UNCHANGED vars
      PROVE  LimitInv' /\ CountersExpire'
  <2>1. UNCHANGED <<request, countVars>>
    BY <1>3 DEF AdminNext, Create, UpdatePlan, Offboard, UpdateStatus, JobEnds, ExpireEntry, WarmId, WarmSlug, vars, countVars
  <2>. QED  BY <2>1, NoCountStep
<1>4. ASSUME NEW a \in Admins, Invalidate(a)
      PROVE  LimitInv' /\ CountersExpire'
  <2>1. UNCHANGED countVars
    BY <1>4 DEF Invalidate, DeleteEntries
  <2>2. \A r \in Requests : request'[r] = request[r] \/ (request[r].pc \in {"fillId", "fillSlug"} /\ request'[r].pc = request[r].pc)
    BY <1>0, <1>4 DEF Invalidate, DeleteEntries, MarkRaced, Request
  <2>. QED  BY <2>1, <2>2, NoCountStep
<1>5. CASE Crash
  <2>1. crashes' > 0 /\ UNCHANGED <<counter, now, passed>> /\ \A r \in Requests : request'[r].pc = "idle"
    BY <1>5, GatewayConstants DEF Crash, NoRequest, TypeOK
  <2>. QED  BY <2>1 DEF LimitInv, CountersOutlive, MinutesBegan, CountedAll, LimitHolds, CountersExpire, Bucket
<1>. QED  BY <1>1, <1>2, <1>3, <1>4, <1>5, CountStep, ExpireStep, FlushStep, TickStep DEF Next, RequestNext, CallNext

LEMMA LimitInit ==
    ASSUME Init
    PROVE  Tiered /\ LimitInv /\ CountersExpire
<1>1. Bucket \in Buckets
  BY TypeInit, BucketNow
<1>2. \A t \in Tenants, b \in Buckets : counter[t][b].n = 0 /\ counter[t][b].until = None
  BY DEF Init, NoCounter
<1>3. Tiered
  BY DEF Init, Tiered, EntriesTiered, RequestsTiered, RequestTiered, WarmTiered, NoRequest, NoCall
<1>4. LimitInv
  BY <1>1, <1>2 DEF Init, LimitInv, CountersOutlive, MinutesBegan, CountedAll, LimitHolds, NoRequest
<1>. QED  BY <1>2, <1>3, <1>4 DEF CountersExpire

LEMMA LimitAlways == Spec => [](LimitInv /\ CountersExpire)
<1>1. TypeOK /\ TypeOK' /\ Tiered /\ LimitInv /\ CountersExpire /\ [Next]_vars
         => Tiered' /\ LimitInv' /\ CountersExpire'
  BY TieredStep, LimitStep
<1>. QED  BY <1>1, LimitInit, GatewayTypes, PTL DEF Spec

\* However many requests of a tenant count at once, with whatever copies of its
\* row, a minute lets no more through than the highest limit (TenantRateLimitMiddleware).
THEOREM LimitIsKept == Spec => []LimitHolds
<1>1. LimitInv => LimitHolds
  BY DEF LimitInv
<1>. QED  BY <1>1, LimitAlways, PTL

\* For any number of requests and processes, only a process that died between
\* INCR and EXPIRE leaves a counter that nothing deletes.
THEOREM CountersDoExpire == Spec => []CountersExpire
  BY LimitAlways, PTL

-----------------------------------------------------------------------------
(***************************************************************************)
(* The safety half of RefusedAtLast.  Whatever is cached, carried or about *)
(* to be warmed is no newer than its row, and what bears the row's version *)
(* tells what the row says.                                                *)
(***************************************************************************)
\* Where copies of a row are: the cache, requests past the lookup, warming calls.
IsCopy(c) ==
    \/ \E k \in Keys : lookup[k] = c /\ c # None
    \/ \E r \in Requests : request[r].pc \notin {"idle", "query"} /\ request[r].tenant = c
    \/ \E a \in Admins : call[a].pc \in {"warmId", "warmSlug"} /\ call[a].warm = c
Tells(c) ==
    /\ Exists(c.id) /\ c.version <= version[c.id]
    /\ c.version = version[c.id] /\ c.status # None
          => c.status = row[c.id].status /\ c.isActive = row[c.id].isActive /\ c.tier = row[c.id].tier
CopiesTell == \A c : IsCopy(c) => Tells(c)

Past == {"count", "expire", "served"}
PassedGate(q) == q.pc \in Past => ~Refused(q.tenant, q.reads)
GatePassed == \A r \in Requests : PassedGate(request[r])

\* Who passes though the row refuses it has read the row before its last change.
PassedOnOlderCopy ==
    \A r \in Requests :
       request[r].pc \in Past /\ Refused(row[request[r].tenant.id], request[r].reads)
          => request[r].tenant.version < version[request[r].tenant.id]

\* Once a tenant's entries were deleted after its last change, an entry is what
\* the row says, but for those that were read before and stored after.
EntriesExact ==
    \A k \in Keys : lookup[k] # None /\ ~lookup[k].raced /\ lookup[k].status # None
       => LET c == lookup[k]
          IN  settled[c.id] = version[c.id]
                 => c.status = row[c.id].status /\ c.isActive = row[c.id].isActive /\ c.tier = row[c.id].tier

\* A copy that is marked says the same.
SameNews(c, d) ==
    c.id = d.id /\ c.version = d.version /\ c.status = d.status /\ c.isActive = d.isActive /\ c.tier = d.tier

LEMMA CopyIsTyped == ASSUME TypeOK, NEW c, IsCopy(c) PROVE c \in Resolved
  BY DEF TypeOK, IsCopy, HasItsTenant, HasItsTenantToo

LEMMA GateLets ==
    ASSUME TypeOK, NEW r \in Requests, NEW q \in Request, NEW c, AfterGate(r, q, c)
    PROVE  /\ \A x \in Requests \ {r} : request'[x] = request[x]
           /\ \/ request'[r].pc = "idle"
              \/ /\ request'[r].pc \in {"count", "served"} /\ request'[r].tenant = c
                 /\ ~Refused(c, request'[r].reads)
<1>. DEFINE new == [q EXCEPT !.tenant = c, !.pc = IF Limited(c) THEN "count" ELSE "served"]
<1>0. request \in [Requests -> Request]
  BY DEF TypeOK
<1>1. NoRequest.pc = "idle" /\ new.pc \in {"count", "served"} /\ new.tenant = c /\ new.reads = q.reads
  BY DEF NoRequest, Request
<1>2. \/ request' = [request EXCEPT ![r] = NoRequest]
      \/ request' = [request EXCEPT ![r] = new] /\ ~Refused(c, q.reads)
  BY DEF AfterGate
<1>. HIDE DEF new
<1>. QED  BY <1>0, <1>1, <1>2

\* Where the copies of a request's step come from, and who passes the gate.
Source(r) ==
    /\ UNCHANGED <<row, version, call>>
    /\ \A x \in Requests \ {r} : request'[x] = request[x]
    /\ \A k \in Keys : \/ lookup'[k] = lookup[k]
                       \/ request[r].pc \in {"fillId", "fillSlug"} /\ lookup'[k] = request[r].tenant
    /\ \/ request'[r].pc \in {"idle", "query"}
       \/ request[r].pc \notin {"idle", "query"} /\ request'[r].tenant = request[r].tenant
       \/ \E k \in Keys : lookup[k] # None /\ request'[r].tenant = lookup[k]
       \/ request'[r].pc = "fillId" /\ \E t \in Tenants : Exists(t) /\ request'[r].tenant = Copy(t)
    /\ \/ request'[r].pc \notin Past
       \/ ~Refused(request'[r].tenant, request'[r].reads)
       \/ request[r].pc \in Past /\ request'[r].tenant = request[r].tenant /\ request'[r].reads = request[r].reads

LEMMA RequestSource ==
    ASSUME TypeOK, NEW r \in Requests, RequestNext(r) \/ \E k \in Keys, reads \in BOOLEAN : Receive(r, k, reads)
    PROVE  Source(r)
<1>. USE DEF countVars
<1>0. /\ request \in [Requests -> Request] /\ request[r] \in Request /\ HasItsTenant(request[r])
      /\ lookup \in [Keys -> Resolved \cup {None}] /\ NoRequest.pc = "idle"
  BY DEF TypeOK, NoRequest
<1>1. ASSUME NEW k \in Keys, NEW reads \in BOOLEAN, Receive(r, k, reads)
      PROVE  Source(r)
  <2>. DEFINE q == [pc |-> "query", key |-> k, reads |-> reads, tenant |-> None, bucket |-> 0]
  <2>1. q \in Request /\ q.pc = "query"
    BY ZeroBucket DEF Request
  <2>2. UNCHANGED <<row, version, call, lookup>>
    BY <1>1 DEF Receive
  <2>. HIDE DEF q
  <2>3. CASE lookup[k] # None
    <3>1. AfterGate(r, q, lookup[k])
      BY <1>1, <2>3 DEF Receive, q
    <3>. QED  BY <2>1, <2>2, <2>3, <3>1, GateLets DEF Source, Past
  <2>4. CASE lookup[k] = None
    <3>1. request' = [request EXCEPT ![r] = q]
      BY <1>1, <2>4 DEF Receive, q
    <3>. QED  BY <1>0, <2>1, <2>2, <3>1 DEF Source, Past
  <2>. QED  BY <2>3, <2>4
<1>2. CASE Query(r)
  <2>. DEFINE t == CHOOSE x \in Named(request[r].key) : TRUE
  <2>1. UNCHANGED <<row, version, call, lookup>>
    BY <1>2 DEF Query
  <2>2. CASE Named(request[r].key) = {}
    <3>1. request' = [request EXCEPT ![r] = NoRequest]
      BY <1>0, <1>2, <2>2 DEF Query
    <3>. QED  BY <1>0, <2>1, <3>1 DEF Source, Past
  <2>3. CASE Named(request[r].key) # {}
    <3>1. t \in Tenants /\ Exists(t)
      BY <2>3 DEF Named
    <3>2. PICK n : n = [request[r] EXCEPT !.pc = "fillId", !.tenant = Copy(t)]
      OBVIOUS
    <3>3. n.pc = "fillId" /\ n.tenant = Copy(t)
      BY <1>0, <3>2 DEF Request
    <3>4. request' = [request EXCEPT ![r] = n]
      BY <1>0, <1>2, <2>3, <3>2 DEF Query
    <3>5. request'[r] = n /\ \A x \in Requests \ {r} : request'[x] = request[x]
      BY <1>0, <3>4
    <3>. QED  BY <2>1, <3>1, <3>3, <3>5 DEF Source, Past
  <2>. QED  BY <2>2, <2>3
<1>3. CASE FillId(r) \/ FillSlug(r)
  <2>. DEFINE c == request[r].tenant
  <2>1. UNCHANGED <<row, version, call>> /\ request[r].pc \in {"fillId", "fillSlug"} /\ c \in Resolved
    BY <1>0, <1>3 DEF FillId, FillSlug, HasItsTenant
  <2>2. \A k \in Keys : lookup'[k] = lookup[k] \/ lookup'[k] = c
    BY <1>0, <1>3 DEF FillId, FillSlug
  <2>3. CASE AfterGate(r, request[r], c)
    BY <1>0, <2>1, <2>2, <2>3, GateLets DEF Source, Past
  <2>4. CASE request' = [request EXCEPT ![r].pc = "fillSlug"]
    <3>1. /\ request'[r].pc = "fillSlug" /\ request'[r].tenant = c
          /\ \A x \in Requests \ {r} : request'[x] = request[x]
      BY <1>0, <2>4 DEF Request
    <3>. QED  BY <2>1, <2>2, <3>1 DEF Source, Past
  <2>. QED  BY <1>3, <2>3, <2>4 DEF FillId, FillSlug
<1>4. CASE Count(r) \/ Expire(r) \/ Finish(r)
  <2>1. UNCHANGED <<row, version, call, lookup>>
    BY <1>4 DEF Count, CountThen, Expire, ExpireIn, Finish
  <2>2. PICK pc : pc = IF counter[request[r].tenant.id][Bucket].n = 0 THEN "expire" ELSE "served"
    OBVIOUS
  <2>3. PICK n : n = [request[r] EXCEPT !.pc = pc, !.bucket = Bucket]
    OBVIOUS
  <2>4. PICK m : m = [request[r] EXCEPT !.pc = "served"]
    OBVIOUS
  <2>5. /\ n.pc \in Past /\ n.tenant = request[r].tenant /\ n.reads = request[r].reads
        /\ m.pc \in Past /\ m.tenant = request[r].tenant /\ m.reads = request[r].reads
    BY <1>0, <2>2, <2>3, <2>4 DEF Request, Past
  <2>6. /\ request[r].pc \in Past
        /\ \/ request' = [request EXCEPT ![r] = NoRequest]
           \/ request' = [request EXCEPT ![r] = n]
           \/ request' = [request EXCEPT ![r] = m]
    <3>1. CASE Count(r)
      BY <1>0, <2>2, <2>3, <3>1 DEF Count, CountThen, Past
    <3>2. CASE Expire(r) \/ Finish(r)
      BY <1>0, <2>4, <3>2 DEF Expire, ExpireIn, Finish, Past
    <3>. QED  BY <1>4, <3>1, <3>2
  <2>. QED  BY <1>0, <2>1, <2>5, <2>6 DEF Source, Past
<1>. QED  BY <1>1, <1>2, <1>3, <1>4 DEF RequestNext

\* A copy of the next state is one of this state, perhaps marked, or has just
\* been read, or is the entry without a status that create() makes.
LEMMA CopySource ==
    ASSUME TypeOK, [Next]_vars, NEW c, IsCopy(c)'
    PROVE  \/ \E d : IsCopy(d) /\ SameNews(c, d)
           \/ \E t \in Tenants : Exists(t) /\ c = Copy(t) /\ UNCHANGED <<row, version>>
           \/ c.id \in Tenants /\ row'[c.id] # None /\ c.version = version'[c.id] /\ c.status = None
<1>. USE DEF countVars
<1>0. /\ request \in [Requests -> Request] /\ call \in [Admins -> Call] /\ lookup \in [Keys -> Resolved \cup {None}]
      /\ NoRequest.pc = "idle" /\ NoCall.pc = "idle"
  BY DEF TypeOK, NoRequest, NoCall
<1>a. ASSUME IsCopy(c)
      PROVE  \E d : IsCopy(d) /\ SameNews(c, d)
  BY <1>a DEF SameNews
<1>1. ASSUME NEW r \in Requests, RequestNext(r) \/ \E k \in Keys, reads \in BOOLEAN : Receive(r, k, reads)
      PROVE  IsCopy(c) \/ \E t \in Tenants : Exists(t) /\ c = Copy(t) /\ UNCHANGED <<row, version>>
  <2>1. Source(r)
    BY <1>1, RequestSource
  <2>2. ASSUME NEW k \in Keys, lookup'[k] = c, c # None
        PROVE  IsCopy(c)
    BY <2>1, <2>2 DEF Source, IsCopy
  <2>3. ASSUME NEW x \in Requests, request'[x].pc \notin {"idle", "query"}, request'[x].tenant = c
        PROVE  IsCopy(c) \/ \E t \in Tenants : Exists(t) /\ c = Copy(t) /\ UNCHANGED <<row, version>>
    BY <2>1, <2>3 DEF Source, IsCopy
  <2>4. ASSUME NEW a \in Admins, call'[a].pc \in {"warmId", "warmSlug"}, call'[a].warm = c
        PROVE  IsCopy(c)
    BY <2>1, <2>4 DEF Source, IsCopy
  <2>. QED  BY <2>2, <2>3, <2>4 DEF IsCopy
<1>2. ASSUME NEW a \in Admins, NEW t \in Tenants, NEW s \in Slugs, NEW plan \in PlanInputs, Create(a, t, s, plan)
      PROVE  \/ IsCopy(c)
             \/ c.id \in Tenants /\ row'[c.id] # None /\ c.version = version'[c.id] /\ c.status = None
  <2>. DEFINE warm == [id |-> t, slug |-> s, status |-> None, isActive |-> FALSE, tier |-> None,
                       version |-> version[t] + 1, raced |-> FALSE]
  <2>1. /\ UNCHANGED <<lookup, request>>
        /\ call' = [call EXCEPT ![a] = [pc |-> "warmId", tenant |-> t, slug |-> s, warm |-> warm]]
    BY <1>2 DEF Create, Start
  <2>2. row'[t] # None /\ version'[t] = version[t] + 1
    <3>1. PICK new : new = [status |-> "active", isActive |-> TRUE, tier |-> plan, slug |-> s]
      OBVIOUS
    <3>2. new \in Row
      BY <3>1, GatewayConstants DEF Row, Statuses
    <3>3. Write(t, new)
      BY <1>2, <3>1 DEF Create
    <3>. QED  BY <3>2, <3>3, NoneIsNoRow DEF Write, TypeOK
  <2>. HIDE DEF warm
  <2>3. \A b \in Admins : call'[b].pc \in {"warmId", "warmSlug"} => call'[b].warm = warm \/ call'[b] = call[b]
    BY <1>0, <2>1
  <2>4. IsCopy(c) \/ c = warm
    BY <2>1, <2>3 DEF IsCopy
  <2>. QED  BY <2>2, <2>4 DEF warm
<1>3. ASSUME NEW a \in Admins, NEW t \in Tenants, (\E plan \in PlanInputs : UpdatePlan(a, t, plan)) \/ Offboard(a, t)
      PROVE  IsCopy(c)
  <2>1. UNCHANGED <<lookup, request>>
    BY <1>3 DEF UpdatePlan, Offboard
  <2>2. ASSUME NEW new, new.pc \in {"invalidate", "flush"}, call' = [call EXCEPT ![a] = new]
        PROVE  \A b \in Admins : call'[b].pc \in {"warmId", "warmSlug"} => call'[b] = call[b]
    BY <1>0, <2>2
  <2>3. CASE \E plan \in PlanInputs : UpdatePlan(a, t, plan)
    <3>1. PICK new : new = [pc |-> "invalidate", tenant |-> t, slug |-> row[t].slug, warm |-> None]
      OBVIOUS
    <3>2. new.pc = "invalidate" /\ call' = [call EXCEPT ![a] = new]
      BY <2>3, <3>1 DEF UpdatePlan, Start
    <3>. QED  BY <2>1, <2>2, <3>2 DEF IsCopy
  <2>4. CASE Offboard(a, t)
    <3>1. PICK new : new = [pc |-> "flush", tenant |-> t, slug |-> row[t].slug, warm |-> None]
      OBVIOUS
    <3>2. new.pc = "flush" /\ call' = [call EXCEPT ![a] = new]
      BY <2>4, <3>1 DEF Offboard, Start
    <3>. QED  BY <2>1, <2>2, <3>2 DEF IsCopy
  <2>. QED  BY <1>3, <2>3, <2>4
<1>4. ASSUME NEW t \in Tenants, NEW x, UpdateStatus(t, x) \/ JobEnds(t, x)
      PROVE  IsCopy(c)
  BY <1>4 DEF UpdateStatus, JobEnds, IsCopy
<1>5. ASSUME NEW a \in Admins, WarmId(a) \/ WarmSlug(a) \/ Flush(a)
      PROVE  IsCopy(c)
  <2>1. request' = request
    BY <1>5 DEF WarmId, WarmSlug, Flush
  <2>2. \A k \in Keys : lookup'[k] \in {lookup[k], None} \/ (call[a].pc \in {"warmId", "warmSlug"} /\ lookup'[k] = call[a].warm)
    BY <1>0, <1>5 DEF WarmId, WarmSlug, Flush
  <2>3. \A b \in Admins : call'[b].pc \in {"warmId", "warmSlug"}
                             => call[b].pc \in {"warmId", "warmSlug"} /\ call'[b].warm = call[b].warm
    BY <1>0, <1>5 DEF WarmId, WarmSlug, Flush, Call
  <2>. QED  BY <2>1, <2>2, <2>3 DEF IsCopy
<1>6. ASSUME NEW a \in Admins, Invalidate(a)
      PROVE  \E d : IsCopy(d) /\ SameNews(c, d)
  <2>1. ASSUME NEW d, IsCopy(d), c = [d EXCEPT !.raced = TRUE]
        PROVE  SameNews(c, d)
    BY <2>1, CopyIsTyped DEF Resolved, SameNews
  <2>2. \A k \in Keys : lookup'[k] \in {lookup[k], None}
    BY <1>6 DEF Invalidate, DeleteEntries
  <2>3. ASSUME NEW r \in Requests, request'[r].pc \notin {"idle", "query"}, request'[r].tenant = c
        PROVE  \E d : IsCopy(d) /\ SameNews(c, d)
    <3>1. \/ request'[r] = request[r]
          \/ request[r].pc \in {"fillId", "fillSlug"} /\ request'[r] = [request[r] EXCEPT !.tenant.raced = TRUE]
      BY <1>6 DEF Invalidate, DeleteEntries, MarkRaced
    <3>2. CASE request'[r] = request[r]
      BY <1>a, <2>3, <3>2 DEF IsCopy
    <3>3. CASE request[r].pc \in {"fillId", "fillSlug"} /\ request'[r] = [request[r] EXCEPT !.tenant.raced = TRUE]
      <4>1. PICK n : n = [request[r].tenant EXCEPT !.raced = TRUE]
        OBVIOUS
      <4>2. c = n
        BY <1>0, <2>3, <3>3, <4>1 DEF Request
      <4>3. IsCopy(request[r].tenant)
        BY <3>3 DEF IsCopy
      <4>. QED  BY <2>1, <4>1, <4>2, <4>3
    <3>. QED  BY <3>1, <3>2, <3>3
  <2>4. ASSUME NEW b \in Admins, call'[b].pc \in {"warmId", "warmSlug"}, call'[b].warm = c
        PROVE  \E d : IsCopy(d) /\ SameNews(c, d)
    <3>1. call'[b] = call[b] \/ call'[b] = [call[b] EXCEPT !.warm.raced = TRUE]
      BY <1>0, <1>6, <2>4 DEF Invalidate, DeleteEntries
    <3>2. CASE call'[b] = call[b]
      BY <1>a, <2>4, <3>2 DEF IsCopy
    <3>3. CASE call'[b] = [call[b] EXCEPT !.warm.raced = TRUE]
      <4>1. PICK n : n = [call[b].warm EXCEPT !.raced = TRUE]
        OBVIOUS
      <4>2. c = n /\ call[b].pc \in {"warmId", "warmSlug"}
        BY <1>0, <2>4, <3>3, <4>1 DEF Call
      <4>3. IsCopy(call[b].warm)
        BY <4>2 DEF IsCopy
      <4>. QED  BY <2>1, <4>1, <4>2, <4>3
    <3>. QED  BY <3>1, <3>2, <3>3
  <2>. QED  BY <1>a, <2>2, <2>3, <2>4 DEF IsCopy
<1>7. ASSUME NEW k \in Keys, ExpireEntry(k)
      PROVE  IsCopy(c)
  BY <1>0, <1>7 DEF ExpireEntry, IsCopy
<1>8. CASE Tick \/ UNCHANGED vars
  BY <1>8, <1>a DEF Tick, vars, IsCopy
<1>9. CASE Crash
  BY <1>0, <1>9, <1>a DEF Crash, IsCopy
<1>. QED  BY <1>a, <1>1, <1>2, <1>3, <1>4, <1>5, <1>6, <1>7, <1>8, <1>9 DEF Next, AdminNext, CallNext

\* How a step changes the rows: they are left, or one is written and counted.
LEMMA RowsWritten ==
    ASSUME TypeOK, [Next]_vars
    PROVE  \/ UNCHANGED <<row, version>>
           \/ \E t \in Tenants : /\ version'[t] = version[t] + 1 /\ row'[t] # None
                                 /\ \A u \in Tenants \ {t} : row'[u] = row[u] /\ version'[u] = version[u]
<1>. USE DEF countVars
<1>1. ASSUME NEW t \in Tenants, NEW new, Write(t, new), new # None
      PROVE  /\ version'[t] = version[t] + 1 /\ row'[t] # None
             /\ \A u \in Tenants \ {t} : row'[u] = row[u] /\ version'[u] = version[u]
  BY <1>1 DEF Write, TypeOK
<1>2. ASSUME NEW t \in Tenants, NEW a \in Admins, NEW s \in Slugs, NEW plan \in PlanInputs, Create(a, t, s, plan)
      PROVE  \E new \in Row : Write(t, new)
  BY <1>2, GatewayConstants DEF Create, Row, Statuses
<1>3. ASSUME NEW t \in Tenants, NEW a \in Admins, NEW plan \in PlanInputs, UpdatePlan(a, t, plan)
      PROVE  \E new \in Row : Write(t, new)
  <2>1. PICK status, isActive, new :
           /\ status = IF (plan = Vip) # (row[t].tier = Vip) THEN "migrating" ELSE row[t].status
           /\ isActive = IF (plan = Vip) # (row[t].tier = Vip) THEN FALSE ELSE row[t].isActive
           /\ new = [row[t] EXCEPT !.tier = plan, !.status = status, !.isActive = isActive]
    OBVIOUS
  <2>2. row[t] \in Row
    BY <1>3, RowType DEF UpdatePlan
  <2>3. new \in Row
    BY <2>1, <2>2, GatewayConstants DEF Row, Statuses, Unserved
  <2>4. Write(t, new)
    BY <1>3, <2>1, <2>2, Zenon DEF UpdatePlan
  <2>. QED  BY <2>3, <2>4
<1>4. ASSUME NEW t \in Tenants, NEW a \in Admins, Offboard(a, t)
      PROVE  \E new \in Row : Write(t, new)
  <2>1. PICK new : new = [row[t] EXCEPT !.status = "offboarded", !.isActive = FALSE, !.slug = None]
    OBVIOUS
  <2>2. new \in Row /\ Write(t, new)
    BY <1>4, <2>1, RowType DEF Offboard, Row, Statuses, Unserved
  <2>. QED  BY <2>2
<1>5. ASSUME NEW t \in Tenants, NEW status \in StatusInputs, UpdateStatus(t, status)
      PROVE  \E new \in Row : Write(t, new)
  <2>1. PICK new : new = [row[t] EXCEPT !.status = status, !.isActive = (status = "active")]
    OBVIOUS
  <2>2. new \in Row /\ Write(t, new)
    BY <1>5, <2>1, RowType, GatewayConstants DEF UpdateStatus, Row
  <2>. QED  BY <2>2
<1>6. ASSUME NEW t \in Tenants, NEW tier \in PlanInputs, JobEnds(t, tier)
      PROVE  \E new \in Row : Write(t, new)
  <2>1. PICK new : new = [row[t] EXCEPT !.status = "active", !.tier = tier]
    OBVIOUS
  <2>2. new \in Row /\ Write(t, new)
    BY <1>6, <2>1, RowType, GatewayConstants DEF JobEnds, Row, Statuses
  <2>. QED  BY <2>2
<1>7. CASE AdminNext
  <2>1. PICK t \in Tenants, new \in Row : Write(t, new)
    BY <1>2, <1>3, <1>4, <1>5, <1>6, <1>7 DEF AdminNext
  <2>. QED  BY <1>1, <2>1, NoneIsNoRow
<1>8. ASSUME ~AdminNext
      PROVE  UNCHANGED <<row, version>>
  BY <1>8 DEF Next, vars, Receive, RequestNext, Query, FillId, FillSlug, Count, CountThen, Expire, ExpireIn, Finish,
              CallNext, WarmId, WarmSlug, Flush, Invalidate, DeleteEntries, ExpireEntry, Tick, Crash
<1>. QED  BY <1>7, <1>8

\* What is true of a copy stays true.
LEMMA TellsStays ==
    ASSUME TypeOK, [Next]_vars, NEW c \in Resolved, Tells(c)
    PROVE  Tells(c)'
<1>1. c.id \in Tenants /\ c.version \in Nat /\ version \in [Tenants -> Nat]
  BY GatewayConstants DEF Resolved, TypeOK
<1>. QED  BY <1>1, RowsWritten DEF Tells, Exists

LEMMA CopiesStep ==
    ASSUME TypeOK, CopiesTell, [Next]_vars
    PROVE  CopiesTell'
<1>. SUFFICES ASSUME NEW c, IsCopy(c)' PROVE Tells(c)'
  BY DEF CopiesTell
<1>1. c \in Resolved /\ version' \in [Tenants -> 0..MaxChanges]
  BY TypeStep, CopyIsTyped DEF TypeOK, IsCopy, HasItsTenant, HasItsTenantToo
<1>2. ASSUME NEW d, IsCopy(d), SameNews(c, d)
      PROVE  Tells(c)'
  <2>1. d \in Resolved /\ Tells(d)
    BY <1>2, CopyIsTyped DEF CopiesTell
  <2>2. Tells(d)'
    BY <2>1, TellsStays
  <2>. QED  BY <1>2, <2>2 DEF SameNews, Tells, Exists
<1>3. ASSUME NEW t \in Tenants, Exists(t), c = Copy(t), UNCHANGED <<row, version>>
      PROVE  Tells(c)'
  <2>1. Tells(c)
    BY <1>3 DEF Tells, Copy, TypeOK
  <2>. QED  BY <1>3, <2>1 DEF Tells, Exists
<1>4. ASSUME c.id \in Tenants, row'[c.id] # None, c.version = version'[c.id], c.status = None
      PROVE  Tells(c)'
  BY <1>1, <1>4 DEF Tells, Exists
<1>. QED  BY <1>2, <1>3, <1>4, CopySource

LEMMA CopiesAlways == Spec => [](CopiesTell /\ TypeOK)
<1>1. Init => CopiesTell
  BY DEF Init, CopiesTell, IsCopy, NoRequest, NoCall
<1>. QED  BY <1>1, CopiesStep, GatewayTypes, PTL DEF Spec

LEMMA GateStep ==
    ASSUME TypeOK, GatePassed, [Next]_vars
    PROVE  GatePassed'
<1>. USE DEF countVars
<1>. SUFFICES ASSUME NEW x \in Requests PROVE PassedGate(request'[x])
  BY DEF GatePassed, PassedGate, Refused
<1>0. request \in [Requests -> Request] /\ PassedGate(request[x])
  BY DEF TypeOK, GatePassed
<1>1. ASSUME NEW r \in Requests, RequestNext(r) \/ \E k \in Keys, reads \in BOOLEAN : Receive(r, k, reads)
      PROVE  PassedGate(request'[x])
  <2>1. Source(r)
    BY <1>1, RequestSource
  <2>. QED  BY <1>0, <2>1 DEF Source, PassedGate
<1>2. CASE request'[x] = request[x]
  BY <1>0, <1>2
<1>3. CASE Crash
  BY <1>3 DEF Crash, PassedGate, NoRequest, Past
<1>4. ASSUME NEW a \in Admins, Invalidate(a)
      PROVE  PassedGate(request'[x])
  <2>1. \/ request'[x] = request[x]
        \/ request'[x].pc = request[x].pc /\ request[x].pc \in {"fillId", "fillSlug"}
    BY <1>0, <1>4 DEF Invalidate, DeleteEntries, MarkRaced, Request
  <2>. QED  BY <1>0, <2>1 DEF PassedGate, Past
<1>5. ASSUME ~Crash, ~(\E a \in Admins : Invalidate(a)),
             ~\E r \in Requests : RequestNext(r) \/ \E k \in Keys, reads \in BOOLEAN : Receive(r, k, reads)
      PROVE  request' = request
  BY <1>5 DEF Next, vars, AdminNext, Create, UpdatePlan, Offboard, UpdateStatus, JobEnds, CallNext, WarmId, WarmSlug,
              Flush, ExpireEntry, Tick
<1>. QED  BY <1>1, <1>2, <1>3, <1>4, <1>5

\* A request passes the status gates although its tenant's row refuses it only on
\* a copy that was read before the row was last changed, for any number of
\* requests, calls and expiries in any order (TenantResolverMiddleware.use).
THEOREM PassesOnOlderCopies == Spec => []PassedOnOlderCopy
<1>1. Init => GatePassed
  BY DEF Init, GatePassed, PassedGate, NoRequest, Past
<1>2. ASSUME TypeOK, CopiesTell, GatePassed
      PROVE  PassedOnOlderCopy
  <2>. SUFFICES ASSUME NEW r \in Requests, request[r].pc \in Past, Refused(row[request[r].tenant.id], request[r].reads)
                PROVE  request[r].tenant.version < version[request[r].tenant.id]
    BY DEF PassedOnOlderCopy
  <2>. DEFINE c == request[r].tenant
  <2>1. c \in Resolved /\ c.status # None /\ IsCopy(c)
    BY <1>2 DEF Past, TypeOK, HasItsTenant, IsCopy
  <2>2. Tells(c) /\ ~Refused(c, request[r].reads)
    BY <1>2, <2>1 DEF CopiesTell, GatePassed, PassedGate
  <2>3. c.version # version[c.id]
    BY <2>1, <2>2 DEF Tells, Refused
  <2>4. c.version \in Nat /\ version[c.id] \in Nat
    BY <1>2, <2>1, GatewayConstants DEF Resolved, TypeOK
  <2>. QED  BY <2>2, <2>3, <2>4 DEF Tells
<1>. QED  BY <1>1, <1>2, GateStep, CopiesAlways, PTL DEF Spec

\* Once a call has deleted a tenant's entries after the row's last change, every
\* entry with a status is what the row says, but for those read before the
\* deletion and stored after it (CacheManager.invalidateTenantLookup).
THEOREM EntriesAreExact == Spec => []EntriesExact
<1>1. ASSUME TypeOK, CopiesTell, AfterInvalidation
      PROVE  EntriesExact
  <2>. SUFFICES ASSUME NEW k \in Keys, lookup[k] # None, ~lookup[k].raced, lookup[k].status # None,
                       settled[lookup[k].id] = version[lookup[k].id]
                PROVE  /\ lookup[k].status = row[lookup[k].id].status /\ lookup[k].isActive = row[lookup[k].id].isActive
                       /\ lookup[k].tier = row[lookup[k].id].tier
    BY DEF EntriesExact
  <2>1. lookup[k] \in Resolved /\ Tells(lookup[k]) /\ lookup[k].version >= settled[lookup[k].id]
    BY <1>1 DEF TypeOK, CopiesTell, IsCopy, AfterInvalidation
  <2>2. lookup[k].version \in Nat /\ version[lookup[k].id] \in Nat
    BY <1>1, <2>1, GatewayConstants DEF Resolved, TypeOK
  <2>. QED  BY <2>1, <2>2 DEF Tells
<1>. QED  BY <1>1, CopiesAlways, InvalidationIsComplete, PTL
=============================================================================
