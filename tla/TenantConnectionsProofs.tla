---------------------- MODULE TenantConnectionsProofs ----------------------
(***************************************************************************)
(* What TLAPS proves of TenantConnections for every set of tenants,        *)
(* requests and connections, every table of caps and every mix of          *)
(* configuration changes: types, tenant isolation, whose quota a request   *)
(* uses; and the cap of the running queries when caps are only raised.     *)
(***************************************************************************)
EXTENDS TenantConnections, FiniteSetTheorems, TLAPS

\* The quota is only asked for on behalf of a tenant, and only a request that
\* polls refers to a Slot object.
TenantStages ==
    /\ \A r \in Requests : pc[r] \in {"setting", "polling"} => ctx[r].tenant # None
    /\ \A r \in Requests : pc[r] = "polling" => waitsOn[r] # None

TypeInv == TypeOK /\ TenantStages

LEMMA FreeSlotsAreSlots == FreeSlots \subseteq SlotIds
  BY DEF FreeSlots

LEMMA NewSlotType ==
  ASSUME NEW k \in CappedTiers
  PROVE  NewSlot(k) \in Slot
  BY ConstantsOK DEF NewSlot, Slot

\* Whether it runs the query or throws, Count leaves a well-typed request
\* that is not waiting.
LEMMA CountType ==
  ASSUME TypeInv, NEW r \in Requests, Count(r)
  PROVE  /\ queries' \in [Requests -> 0..(QueryLimit + 1)]
         /\ connOf' \in [Requests -> Conns \cup {None}]
         /\ waitsOn' = [waitsOn EXCEPT ![r] = None]
         /\ holder' \in [Conns -> Requests \cup {None, Leaked}]
         /\ \E p \in {"using", "ready"} : pc' = [pc EXCEPT ![r] = p]
  <1> USE ConstantsOK DEF TypeInv, TypeOK
  <1>1. queries' \in [Requests -> 0..(QueryLimit + 1)]
    BY DEF Count
  <1>2. QED
    BY <1>1 DEF Count, Abandon

\* So does AcquireQuota, except that it may leave the request polling.
LEMMA AcquireQuotaType ==
  ASSUME TypeInv, NEW r \in Requests, ctx[r].tenant # None, ctx' = ctx,
         NEW s \in SlotIds \cup {None}, NEW objs \in [SlotIds -> Slot],
         AcquireQuota(r, s, objs)
  PROVE  /\ pc' \in [Requests -> Stages]
         /\ queries' \in [Requests -> 0..(QueryLimit + 1)]
         /\ connOf' \in [Requests -> Conns \cup {None}]
         /\ waitsOn' \in [Requests -> SlotIds \cup {None}]
         /\ holder' \in [Conns -> Requests \cup {None, Leaked}]
         /\ slot' \in [SlotIds -> Slot]
         /\ TenantStages'
  <1>1. ASSUME Count(r)
        PROVE  /\ pc' \in [Requests -> Stages]
               /\ queries' \in [Requests -> 0..(QueryLimit + 1)]
               /\ connOf' \in [Requests -> Conns \cup {None}]
               /\ waitsOn' \in [Requests -> SlotIds \cup {None}]
               /\ holder' \in [Conns -> Requests \cup {None, Leaked}]
               /\ TenantStages'
    BY <1>1, CountType DEF TypeInv, TypeOK, TenantStages, Stages
  <1>2. CASE s = None /\ slot' = objs /\ Count(r)
    BY <1>1, <1>2
  <1>3. CASE /\ s # None
             /\ slot' = [objs EXCEPT ![s].current = @ + 1]
             /\ Count(r)
    <2>1. slot' \in [SlotIds -> Slot]
      BY <1>3 DEF Slot
    <2>2. QED
      BY <1>1, <1>3, <2>1
  <1>4. CASE /\ s # None
             /\ slot' = objs
             /\ pc' = [pc EXCEPT ![r] = "polling"]
             /\ waitsOn' = [waitsOn EXCEPT ![r] = s]
             /\ UNCHANGED <<queries, holder, connOf>>
    BY <1>4 DEF TypeInv, TypeOK, TenantStages, Stages
  <1>5. QED
    BY <1>2, <1>3, <1>4 DEF AcquireQuota

\* Every reachable state has the declared types.
THEOREM TypeCorrect == Spec => []TypeInv
  <1>1. Init => TypeInv
    BY ConstantsOK DEF Init, TypeInv, TypeOK, TenantStages, Slot, Context, NoContext, Stages
  <1>2. TypeInv /\ [Next]_vars => TypeInv'
    <2> SUFFICES ASSUME TypeInv, [Next]_vars PROVE TypeInv'
      OBVIOUS
    <2> USE ConstantsOK DEF TypeInv, TypeOK, TenantStages, Stages
    <2>1. ASSUME NEW r \in Requests, Begin(r) PROVE TypeInv'
      BY <2>1 DEF Begin, Context, NoContext, poolVars, quotaVars
    <2>2. ASSUME NEW r \in Requests, End(r) PROVE TypeInv'
      BY <2>2 DEF End, Context, NoContext, poolVars, quotaVars
    <2>3. ASSUME NEW r \in Requests, Acquire(r) PROVE TypeInv'
      BY <2>3 DEF Acquire, quotaVars
    <2>4. ASSUME NEW r \in Requests, SetTenant(r) PROVE TypeInv'
      <3> DEFINE t == ctx[r].tenant
                 k == ctx[r].tier
      <3>1. t \in Tenants /\ t # None /\ k \in Tiers \cup {None}
        BY <2>4 DEF SetTenant, Context
      <3>2. ctx' = ctx /\ setting' \in [Conns -> Tenants \cup {None}]
        BY <2>4, <3>1 DEF SetTenant
      <3>3. CASE AcquireQuota(r, slotOf[t], slot) /\ UNCHANGED slotOf
        <4>1. slotOf[t] \in SlotIds \cup {None} /\ slot \in [SlotIds -> Slot]
          BY <3>1
        <4>2. QED
          BY <3>1, <3>2, <3>3, <4>1, AcquireQuotaType
      <3>4. ASSUME k \in CappedTiers, NEW s \in FreeSlots,
                   slotOf' = [slotOf EXCEPT ![t] = s],
                   AcquireQuota(r, s, [slot EXCEPT ![s] = NewSlot(k)])
            PROVE  TypeInv'
        <4>1. s \in SlotIds /\ [slot EXCEPT ![s] = NewSlot(k)] \in [SlotIds -> Slot]
          BY <3>4, FreeSlotsAreSlots, NewSlotType
        <4>2. slotOf' \in [Tenants -> SlotIds \cup {None}]
          BY <3>4, <4>1
        <4>3. QED
          BY <3>1, <3>2, <3>4, <4>1, <4>2, AcquireQuotaType
      <3>5. QED
        BY <2>4, <3>3, <3>4 DEF SetTenant
    <2>5. ASSUME NEW r \in Requests, SetFails(r) PROVE TypeInv'
      BY <2>5 DEF SetFails, Abandon, quotaVars
    <2>6. ASSUME NEW r \in Requests, PollSucceeds(r) PROVE TypeInv'
      <3>1. slot' \in [SlotIds -> Slot]
        BY <2>6 DEF PollSucceeds, Slot
      <3>2. QED
        BY <2>6, <3>1, CountType DEF PollSucceeds
    <2>7. ASSUME NEW r \in Requests, PollTimeout(r) PROVE TypeInv'
      BY <2>7 DEF PollTimeout, Abandon, quotaVars
    <2>8. ASSUME NEW r \in Requests, Release(r) PROVE TypeInv'
      <3>1. slot' \in [SlotIds -> Slot]
        <4>1. ASSUME NEW s \in SlotIds, slot[s].current > 0
              PROVE  [slot EXCEPT ![s].current = @ - 1] \in [SlotIds -> Slot]
          BY <4>1 DEF Slot
        <4>2. ctx[r].tenant \in Tenants \cup {None}
          BY DEF Context
        <4>3. QED
          BY <2>8, <4>1, <4>2 DEF Release
      <3>2. QED
        BY <2>8, <3>1 DEF Release, poolVars
    <2>9. ASSUME NEW r \in Requests, ResetTenant(r) PROVE TypeInv'
      BY <2>9 DEF ResetTenant, quotaVars
    <2>10. ASSUME NEW t \in Tenants, NEW k \in Tiers, UpdateCap(t, k) PROVE TypeInv'
      <3>1. k # Vip => k \in CappedTiers
        BY DEF Tiers
      <3>2. ASSUME k # Vip, slotOf[t] # None PROVE [slot EXCEPT ![slotOf[t]].max = Caps[k]] \in [SlotIds -> Slot]
        BY <3>1, <3>2 DEF Slot
      <3>3. ASSUME k # Vip, NEW s \in FreeSlots
            PROVE  s \in SlotIds /\ [slot EXCEPT ![s] = NewSlot(k)] \in [SlotIds -> Slot]
        BY <3>1, <3>3, FreeSlotsAreSlots, NewSlotType
      <3>4. slot' \in [SlotIds -> Slot] /\ slotOf' \in [Tenants -> SlotIds \cup {None}]
        BY <2>10, <3>2, <3>3 DEF UpdateCap
      <3>5. QED
        BY <2>10, <3>4 DEF UpdateCap, requestVars, poolVars
    <2>11. ASSUME NEW t \in Tenants, NEW k \in Tiers, Register(t, k) PROVE TypeInv'
      <3>1. k \in CappedTiers
        BY <2>11 DEF Register, Tiers
      <3>2. QED
        BY <2>11, <3>1, FreeSlotsAreSlots, NewSlotType DEF Register, requestVars, poolVars
    <2>12. ASSUME NEW t \in Tenants, Deregister(t) PROVE TypeInv'
      BY <2>12 DEF Deregister, requestVars, poolVars
    <2>13. CASE UNCHANGED vars
      BY <2>13 DEF vars, requestVars, poolVars, quotaVars
    <2>14. QED
      BY <2>1, <2>2, <2>3, <2>4, <2>5, <2>6, <2>7, <2>8, <2>9, <2>10, <2>11, <2>12, <2>13
      DEF Next, ConfigNext, RequestNext
  <1>3. QED
    BY <1>1, <1>2, PTL DEF Spec

-----------------------------------------------------------------------------
(* Tenant isolation *)

\* A request between acquire and release is the holder of its connection, and
\* no other request has it; the connection carries the tenant of the request
\* from the moment SET is done, and no tenant when it is idle.
Ownership ==
    /\ \A r \in Requests : connOf[r] = None <=> pc[r] \in {"idle", "ready"}
    /\ \A r \in Requests : connOf[r] # None => holder[connOf[r]] = r
    /\ \A r \in Requests : pc[r] \in {"polling", "using"} => setting[connOf[r]] = ctx[r].tenant
    /\ IdleConnectionsAreClean

\* What acquireConnection does after SET: the request keeps its connection
\* and polls or runs, or it abandons it.
LEMMA AcquireQuotaOwnership ==
  ASSUME NEW r \in Requests, NEW s, NEW objs, AcquireQuota(r, s, objs)
  PROVE  \/ /\ \E p \in {"polling", "using"} : pc' = [pc EXCEPT ![r] = p]
            /\ holder' = holder /\ connOf' = connOf
         \/ Abandon(r)
  BY DEF AcquireQuota, Count

\* A step that only abandons, or only moves on, under a setting that names the
\* tenant keeps ownership.
LEMMA AdmissionOwnership ==
  ASSUME TypeInv, Ownership, NEW r \in Requests, pc[r] \in {"setting", "polling"},
         ctx' = ctx,
         setting' = [setting EXCEPT ![connOf[r]] = ctx[r].tenant],
         \/ /\ \E p \in {"polling", "using"} : pc' = [pc EXCEPT ![r] = p]
            /\ holder' = holder /\ connOf' = connOf
         \/ Abandon(r)
  PROVE  Ownership'
  <1> USE ConstantsOK DEF TypeInv, TypeOK, Ownership, IdleConnectionsAreClean, Stages
  <1>1. connOf[r] \in Conns /\ holder[connOf[r]] = r
    OBVIOUS
  <1>2. \A q \in Requests : q # r => connOf[q] # connOf[r]
    BY <1>1
  <1>3. CASE /\ \E p \in {"polling", "using"} : pc' = [pc EXCEPT ![r] = p]
             /\ holder' = holder /\ connOf' = connOf
    BY <1>1, <1>2, <1>3
  <1>4. CASE Abandon(r)
    BY <1>1, <1>2, <1>4 DEF Abandon
  <1>5. QED
    BY <1>3, <1>4

LEMMA OwnershipStep ==
  ASSUME TypeInv, Ownership, [Next]_vars
  PROVE  Ownership'
  <1> USE ConstantsOK DEF TypeInv, TypeOK, Ownership, IdleConnectionsAreClean, Stages
  <1>1. ASSUME NEW r \in Requests, Begin(r) PROVE Ownership'
    BY <1>1 DEF Begin, poolVars
  <1>2. ASSUME NEW r \in Requests, End(r) PROVE Ownership'
    BY <1>2 DEF End, poolVars
  <1>3. ASSUME NEW r \in Requests, Acquire(r) PROVE Ownership'
    <2>1. PICK c \in Conns : /\ holder[c] = None
                             /\ holder' = [holder EXCEPT ![c] = r]
                             /\ connOf' = [connOf EXCEPT ![r] = c]
      BY <1>3 DEF Acquire
    <2>2. c # None /\ setting[c] = None
      BY <2>1
    <2>3. \A q \in Requests : connOf[q] # c
      BY <2>1, <2>2
    <2>4. QED
      BY <1>3, <2>1, <2>2, <2>3 DEF Acquire
  <1>4. ASSUME NEW r \in Requests, SetTenant(r) PROVE Ownership'
    <2>1. \E s, objs : AcquireQuota(r, s, objs)
      BY <1>4 DEF SetTenant
    <2>2. QED
      BY <1>4, <2>1, AcquireQuotaOwnership, AdmissionOwnership DEF SetTenant
  <1>5. ASSUME NEW r \in Requests, SetFails(r) PROVE Ownership'
    <2>1. connOf[r] \in Conns /\ holder[connOf[r]] = r
      BY <1>5 DEF SetFails
    <2>2. QED
      BY <1>5, <2>1 DEF SetFails, Abandon
  <1>6. ASSUME NEW r \in Requests, PollSucceeds(r) PROVE Ownership'
    <2>1. setting' = [setting EXCEPT ![connOf[r]] = ctx[r].tenant] /\ ctx' = ctx
      BY <1>6 DEF PollSucceeds
    <2>2. QED
      BY <1>6, <2>1, AdmissionOwnership DEF PollSucceeds, Count
  <1>7. ASSUME NEW r \in Requests, PollTimeout(r) PROVE Ownership'
    <2>1. setting' = [setting EXCEPT ![connOf[r]] = ctx[r].tenant] /\ ctx' = ctx
      BY <1>7 DEF PollTimeout
    <2>2. QED
      BY <1>7, <2>1, AdmissionOwnership DEF PollTimeout
  <1>8. ASSUME NEW r \in Requests, Release(r) PROVE Ownership'
    BY <1>8 DEF Release, poolVars
  <1>9. ASSUME NEW r \in Requests, ResetTenant(r) PROVE Ownership'
    <2>1. connOf[r] \in Conns /\ holder[connOf[r]] = r
      BY <1>9 DEF ResetTenant
    <2>2. \A q \in Requests : q # r => connOf[q] # connOf[r]
      BY <2>1
    <2>3. QED
      BY <1>9, <2>1, <2>2 DEF ResetTenant
  <1>10. ASSUME NEW t \in Tenants, NEW k \in Tiers,
                UpdateCap(t, k) \/ Register(t, k) \/ Deregister(t)
         PROVE  Ownership'
    BY <1>10 DEF UpdateCap, Register, Deregister, requestVars, poolVars
  <1>11. CASE UNCHANGED vars
    BY <1>11 DEF vars, requestVars, poolVars
  <1>12. ASSUME NEW t \in Tenants, Deregister(t) PROVE Ownership'
    BY <1>12 DEF Deregister, requestVars, poolVars
  <1>13. QED
    BY <1>1, <1>2, <1>3, <1>4, <1>5, <1>6, <1>7, <1>8, <1>9, <1>10, <1>11, <1>12
    DEF Next, ConfigNext, RequestNext

\* Row level security always sees the tenant of the request that runs the
\* query (QueryInterceptor.ts:53-94), whatever the enforcer's slots do, and
\* whatever fails between taking a connection and using it.
THEOREM TenantIsolation == Spec => [](Isolation /\ IdleConnectionsAreClean)
  <1>1. Init => Ownership
    BY DEF Init, Ownership, IdleConnectionsAreClean
  <1>2. TypeInv /\ Ownership /\ [Next]_vars => Ownership'
    BY OwnershipStep
  <1>3. Ownership => Isolation /\ IdleConnectionsAreClean
    BY DEF Ownership, Isolation
  <1>4. QED
    BY <1>1, <1>2, <1>3, TypeCorrect, PTL DEF Spec

-----------------------------------------------------------------------------
(* The cap *)

\* The configuration in which the cap is a promise: caps are only raised, and
\* the resolver never mixes the VIP tier with a capped one for one tenant.
StableConfiguration ==
    /\ IsFiniteSet(Requests)
    /\ Changes \subseteq {"raise"}
    /\ \A t \in Tenants : TierOf[t] = {Vip} \/ TierOf[t] \subseteq CappedTiers

\* The slot counts at least the queries that run, and at most the cap: it may
\* overcount, because a request that throws after taking a unit keeps it.
SlotCounts ==
    \A t \in Tenants : slotOf[t] # None =>
       /\ Cardinality(InUse(t)) <= slot[slotOf[t]].current
       /\ slot[slotOf[t]].current <= slot[slotOf[t]].max

\* Slots are not shared, pollers poll the registered object, and only VIP
\* tenants run without a slot.
SlotMap ==
    /\ \A t, u \in Tenants : slotOf[t] # None /\ slotOf[t] = slotOf[u] => t = u
    /\ \A r \in Requests : pc[r] = "polling" => waitsOn[r] = slotOf[ctx[r].tenant]
    /\ \A r \in Requests : ctx[r].tenant # None => ctx[r].tier \in TierOf[ctx[r].tenant]
    /\ \A r \in Requests :
          pc[r] = "using" /\ ctx[r].tenant # None /\ slotOf[ctx[r].tenant] = None
             => TierOf[ctx[r].tenant] = {Vip}
    /\ \A t \in Tenants : TierOf[t] = {Vip} => slotOf[t] = None

QuotaInv == TypeInv /\ SlotMap /\ SlotCounts

\* The requests in use are finitely many, so their number is a natural number.
LEMMA InUseFinite ==
  ASSUME StableConfiguration, NEW t
  PROVE  IsFiniteSet(InUse(t)) /\ Cardinality(InUse(t)) \in Nat
  BY FS_Subset, FS_CardinalityType DEF InUse, StableConfiguration

\* Counting after a unit was asked for on map m and objects objs that count
\* correctly: the request takes one unit at most, and only where there is room.
LEMMA AcquireQuotaCounts ==
  ASSUME TypeInv, StableConfiguration, NEW r \in Requests, ctx[r].tenant \in Tenants,
         ctx' = ctx, pc[r] # "using",
         NEW m \in [Tenants -> SlotIds \cup {None}], slotOf' = m,
         NEW objs \in [SlotIds -> Slot],
         \A t, u \in Tenants : m[t] # None /\ m[t] = m[u] => t = u,
         \A t \in Tenants : m[t] # None =>
            Cardinality(InUse(t)) <= objs[m[t]].current /\ objs[m[t]].current <= objs[m[t]].max,
         AcquireQuota(r, m[ctx[r].tenant], objs)
  PROVE  SlotCounts'
  <1> DEFINE s == m[ctx[r].tenant]
  <1>1. \A q \in Requests : q # r => pc'[q] = pc[q]
    BY DEF AcquireQuota, Count, Abandon, TypeInv, TypeOK
  <1>2. \A u \in Tenants : u # ctx[r].tenant => InUse(u)' = InUse(u)
    BY <1>1 DEF InUse
  <1>3. \A u : InUse(u)' \subseteq InUse(u) \cup {r}
    BY <1>1 DEF InUse
  <1>4. \A u : Cardinality(InUse(u)') \in Nat /\ Cardinality(InUse(u)') <= Cardinality(InUse(u)) + 1
    <2> TAKE u
    <2>1. /\ IsFiniteSet(InUse(u) \cup {r})
          /\ Cardinality(InUse(u) \cup {r}) <= Cardinality(InUse(u)) + 1
      <3>1. IsFiniteSet(InUse(u)) /\ Cardinality(InUse(u)) \in Nat
        BY InUseFinite
      <3>2. /\ IsFiniteSet(InUse(u) \cup {r})
            /\ \/ Cardinality(InUse(u) \cup {r}) = Cardinality(InUse(u))
               \/ Cardinality(InUse(u) \cup {r}) = Cardinality(InUse(u)) + 1
        BY <3>1, FS_AddElement, ZenonT(20)
      <3>3. QED
        BY <3>1, <3>2
    <2>2. /\ Cardinality(InUse(u)') <= Cardinality(InUse(u) \cup {r})
          /\ IsFiniteSet(InUse(u)')
      BY <1>3, <2>1, FS_Subset
    <2>3. QED
      BY <2>1, <2>2, InUseFinite, FS_CardinalityType
  <1>5. CASE s = None /\ slot' = objs
    BY <1>2, <1>5 DEF SlotCounts
  <1>6. CASE s # None /\ objs[s].current < objs[s].max /\ slot' = [objs EXCEPT ![s].current = @ + 1]
    <2> SUFFICES ASSUME NEW u \in Tenants, m[u] # None
                 PROVE  /\ Cardinality(InUse(u)') <= slot'[m[u]].current
                        /\ slot'[m[u]].current <= slot'[m[u]].max
      BY DEF SlotCounts
    <2>1. CASE u = ctx[r].tenant
      <3>1. slot'[s].current = objs[s].current + 1 /\ slot'[s].max = objs[s].max
        BY <1>6 DEF Slot
      <3>2. objs[s].current \in Nat /\ objs[s].max \in Nat
        BY <1>6 DEF Slot
      <3>3. Cardinality(InUse(u)) <= objs[s].current /\ Cardinality(InUse(u)) \in Nat
        BY <2>1, InUseFinite
      <3>4. QED
        BY <1>4, <1>6, <2>1, <3>1, <3>2, <3>3
    <2>2. CASE u # ctx[r].tenant
      <3>1. m[u] # s
        BY <2>2
      <3>2. slot'[m[u]] = objs[m[u]]
        BY <1>6, <3>1
      <3>3. QED
        BY <1>2, <2>2, <3>2
    <2>3. QED
      BY <2>1, <2>2
  <1>7. CASE s # None /\ slot' = objs /\ pc' = [pc EXCEPT ![r] = "polling"]
    <2>1. InUse(ctx[r].tenant)' = InUse(ctx[r].tenant)
      BY <1>1, <1>7 DEF InUse, TypeInv, TypeOK
    <2>2. QED
      BY <1>2, <1>7, <2>1 DEF SlotCounts
  <1>8. QED
    BY <1>5, <1>6, <1>7 DEF AcquireQuota

\* The slot map after the same request.
LEMMA AcquireQuotaMap ==
  ASSUME TypeInv, SlotMap, NEW r \in Requests, ctx[r].tenant \in Tenants, ctx' = ctx,
         pc[r] # "using",
         NEW m \in [Tenants -> SlotIds \cup {None}], slotOf' = m, NEW objs,
         \A t \in Tenants : t # ctx[r].tenant => m[t] = slotOf[t],
         slotOf[ctx[r].tenant] # None => m[ctx[r].tenant] = slotOf[ctx[r].tenant],
         \A t, u \in Tenants : m[t] # None /\ m[t] = m[u] => t = u,
         \A t \in Tenants : TierOf[t] = {Vip} => m[t] = None,
         m[ctx[r].tenant] = None => TierOf[ctx[r].tenant] = {Vip},
         AcquireQuota(r, m[ctx[r].tenant], objs)
  PROVE  SlotMap'
  <1> USE ConstantsOK DEF TypeInv, TypeOK, TenantStages, SlotMap, Stages
  <1>1. \A q \in Requests : q # r => pc'[q] = pc[q] /\ waitsOn'[q] = waitsOn[q]
    BY DEF AcquireQuota, Count, Abandon
  <1>2. pc'[r] = "polling" => waitsOn'[r] = m[ctx[r].tenant]
    BY DEF AcquireQuota, Count, Abandon
  <1>3. \A q \in Requests : ctx[q].tenant \in Tenants \cup {None}
    BY DEF Context
  <1>4. \A q \in Requests : pc'[q] = "polling" => waitsOn'[q] = m[ctx[q].tenant]
    <2>1. ASSUME NEW q \in Requests, q # r, pc[q] = "polling"
          PROVE  waitsOn[q] = m[ctx[q].tenant]
      BY <1>3, <2>1
    <2>2. QED
      BY <1>1, <1>2, <2>1
  <1>5. \A q \in Requests :
          pc'[q] = "using" /\ ctx[q].tenant # None /\ m[ctx[q].tenant] = None
             => TierOf[ctx[q].tenant] = {Vip}
    BY <1>1, <1>3
  <1>6. QED
    BY <1>4, <1>5

\* A step that starts no query and moves no slot keeps the counts.
LEMMA CountsKept ==
  ASSUME StableConfiguration, SlotCounts, slotOf' = slotOf, slot' = slot,
         \A t : InUse(t)' = InUse(t)
  PROVE  SlotCounts'
  BY DEF SlotCounts

LEMMA QuotaStep ==
  ASSUME QuotaInv, StableConfiguration, [Next]_vars
  PROVE  SlotMap' /\ SlotCounts'
  <1> USE ConstantsOK DEF QuotaInv, TypeInv, TypeOK, TenantStages, SlotMap, Stages
  <1>1. ASSUME NEW r \in Requests, Begin(r) PROVE SlotMap' /\ SlotCounts'
    <2>1. \A t : InUse(t)' = InUse(t)
      BY <1>1 DEF Begin, InUse
    <2>2. ctx'[r].tenant # None => ctx'[r].tier \in TierOf[ctx'[r].tenant]
      BY <1>1 DEF Begin, NoContext
    <2>3. SlotMap'
      BY <1>1, <2>2 DEF Begin, quotaVars
    <2>4. QED
      BY <1>1, <2>1, <2>3, CountsKept DEF Begin, quotaVars
  <1>2. ASSUME NEW r \in Requests, End(r) PROVE SlotMap' /\ SlotCounts'
    <2>1. \A t : InUse(t)' = InUse(t)
      BY <1>2 DEF End, InUse
    <2>2. SlotMap'
      BY <1>2 DEF End, quotaVars, NoContext
    <2>3. QED
      BY <1>2, <2>1, <2>2, CountsKept DEF End, quotaVars
  <1>3. ASSUME NEW r \in Requests, Acquire(r) PROVE SlotMap' /\ SlotCounts'
    <2>1. \A t \in Tenants : InUse(t)' = InUse(t)
      BY <1>3 DEF Acquire, InUse
    <2>2. SlotMap'
      BY <1>3 DEF Acquire, quotaVars
    <2>3. QED
      BY <1>3, <2>1, <2>2 DEF Acquire, quotaVars, SlotCounts
  <1>4. ASSUME NEW r \in Requests, SetTenant(r) PROVE SlotMap' /\ SlotCounts'
    <2> DEFINE t == ctx[r].tenant
               k == ctx[r].tier
    <2>1. t \in Tenants /\ t # None /\ k \in TierOf[t] /\ ctx' = ctx /\ pc[r] = "setting"
      BY <1>4 DEF SetTenant, Context
    <2>2. CASE ~(slotOf[t] = None /\ k \in CappedTiers) /\ AcquireQuota(r, slotOf[t], slot) /\ UNCHANGED slotOf
      <3>1. slotOf[t] = None => TierOf[t] = {Vip}
        BY <2>1, <2>2 DEF StableConfiguration, Tiers
      <3>2. SlotMap'
        BY <2>1, <2>2, <3>1, AcquireQuotaMap
      <3>3. SlotCounts'
        BY <2>1, <2>2, AcquireQuotaCounts DEF SlotCounts
      <3>4. QED
        BY <3>2, <3>3
    <2>3. ASSUME slotOf[t] = None, k \in CappedTiers, NEW s \in FreeSlots,
                 slotOf' = [slotOf EXCEPT ![t] = s],
                 AcquireQuota(r, s, [slot EXCEPT ![s] = NewSlot(k)])
          PROVE  SlotMap' /\ SlotCounts'
      <3>0. PICK m, objs : m = [slotOf EXCEPT ![t] = s] /\ objs = [slot EXCEPT ![s] = NewSlot(k)]
        OBVIOUS
      <3>1. s \in SlotIds /\ s # None /\ \A u \in Tenants : slotOf[u] # s
        BY FreeSlotsAreSlots DEF FreeSlots
      <3>2. m \in [Tenants -> SlotIds \cup {None}] /\ m[t] = s
        BY <2>1, <3>0, <3>1
      <3>3. \A u \in Tenants : u # t => m[u] = slotOf[u]
        BY <3>0
      <3>4. \A u, w \in Tenants : m[u] # None /\ m[u] = m[w] => u = w
        BY <3>1, <3>2, <3>3
      <3>5. objs \in [SlotIds -> Slot] /\ objs[s].current = 0 /\ objs[s].max = Caps[k] /\ Caps[k] \in Nat
        BY <2>3, <3>0, <3>1, NewSlotType DEF NewSlot
      <3>6. TierOf[t] # {Vip}
        BY <2>1, <2>3
      <3>7. Cardinality(InUse(t)) = 0
        <4>1. InUse(t) = {}
          BY <2>1, <2>3, <3>6 DEF InUse
        <4>2. QED
          BY <4>1, FS_EmptySet
      <3>8. \A u \in Tenants : m[u] # None =>
               Cardinality(InUse(u)) <= objs[m[u]].current /\ objs[m[u]].current <= objs[m[u]].max
        <4>1. ASSUME NEW u \in Tenants, u # t, m[u] # None
              PROVE  Cardinality(InUse(u)) <= objs[m[u]].current /\ objs[m[u]].current <= objs[m[u]].max
          <5>1. m[u] = slotOf[u] /\ m[u] # s
            BY <3>1, <3>3, <4>1
          <5>2. objs[m[u]] = slot[slotOf[u]]
            BY <3>0, <4>1, <5>1
          <5>3. QED
            BY <4>1, <5>1, <5>2 DEF SlotCounts
        <4>2. QED
          BY <3>2, <3>5, <3>7, <4>1
      <3>a. slotOf' = m /\ AcquireQuota(r, m[t], objs)
        BY <2>3, <3>0, <3>2
      <3>9. SlotCounts'
        BY <2>1, <3>a, <3>2, <3>4, <3>5, <3>8, AcquireQuotaCounts
      <3>10. \A u \in Tenants : TierOf[u] = {Vip} => m[u] = None
        BY <3>3, <3>6
      <3>11. SlotMap'
        <4>1. slotOf[t] # None => m[t] = slotOf[t]
          BY <2>3
        <4>2. m[t] = None => TierOf[t] = {Vip}
          BY <3>1, <3>2
        <4>3. pc[r] # "using"
          BY <2>1
        <4> HIDE DEF QuotaInv, TypeInv, TypeOK, TenantStages, SlotMap, Stages
        <4>4. TypeInv /\ SlotMap
          BY DEF QuotaInv
        <4>5. QED
          BY <2>1, <3>a, <3>2, <3>3, <3>4, <3>10, <4>1, <4>2, <4>3, <4>4, AcquireQuotaMap
      <3>12. QED
        BY <3>9, <3>11
    <2>4. QED
      BY <1>4, <2>2, <2>3 DEF SetTenant
  <1>5. ASSUME NEW r \in Requests, SetFails(r) PROVE SlotMap' /\ SlotCounts'
    <2>1. \A t : InUse(t)' = InUse(t)
      BY <1>5 DEF SetFails, Abandon, InUse
    <2>2. SlotMap'
      BY <1>5 DEF SetFails, Abandon, quotaVars
    <2>3. QED
      BY <1>5, <2>1, <2>2, CountsKept DEF SetFails, quotaVars
  <1>6. ASSUME NEW r \in Requests, PollSucceeds(r) PROVE SlotMap' /\ SlotCounts'
    <2> DEFINE t == ctx[r].tenant
    <2>1. t \in Tenants /\ waitsOn[r] = slotOf[t] /\ slotOf[t] # None /\ ctx' = ctx /\ slotOf' = slotOf
      BY <1>6 DEF PollSucceeds, Context
    <2>2. AcquireQuota(r, slotOf[t], slot)
      BY <1>6, <2>1 DEF PollSucceeds, AcquireQuota
    <2>3. SlotMap'
      BY <1>6, <2>1, <2>2, AcquireQuotaMap DEF PollSucceeds
    <2>4. SlotCounts'
      BY <1>6, <2>1, <2>2, AcquireQuotaCounts DEF SlotCounts, PollSucceeds
    <2>5. QED
      BY <2>3, <2>4
  <1>7. ASSUME NEW r \in Requests, PollTimeout(r) PROVE SlotMap' /\ SlotCounts'
    <2>1. \A t : InUse(t)' = InUse(t)
      BY <1>7 DEF PollTimeout, Abandon, InUse
    <2>2. SlotMap'
      BY <1>7 DEF PollTimeout, Abandon, quotaVars
    <2>3. QED
      BY <1>7, <2>1, <2>2, CountsKept DEF PollTimeout, quotaVars
  <1>8. ASSUME NEW r \in Requests, Release(r) PROVE SlotMap' /\ SlotCounts'
    <2>0. PICK t : t = ctx[r].tenant
      OBVIOUS
    <2>1. SlotMap'
      BY <1>8 DEF Release
    <2>2. \A u : u # t => InUse(u)' = InUse(u)
      BY <1>8, <2>0 DEF Release, InUse
    <2>3. InUse(t)' = InUse(t) \ {r} /\ r \in InUse(t)
      BY <1>8, <2>0 DEF Release, InUse
    <2>4. /\ Cardinality(InUse(t)') = Cardinality(InUse(t)) - 1
          /\ Cardinality(InUse(t)) \in Nat /\ Cardinality(InUse(t)') \in Nat
      <3>1. IsFiniteSet(InUse(t)) /\ Cardinality(InUse(t)) \in Nat
        BY InUseFinite
      <3>2. IsFiniteSet(InUse(t) \ {r}) /\ Cardinality(InUse(t) \ {r}) = Cardinality(InUse(t)) - 1
        BY <2>3, <3>1, FS_RemoveElement
      <3>3. QED
        BY <2>3, <3>1, <3>2, FS_CardinalityType
    <2>5. ASSUME NEW u \in Tenants, slotOf[u] # None
          PROVE  /\ Cardinality(InUse(u)') <= slot'[slotOf[u]].current
                 /\ slot'[slotOf[u]].current <= slot'[slotOf[u]].max
      <3>1. /\ Cardinality(InUse(u)) <= slot[slotOf[u]].current
            /\ slot[slotOf[u]].current <= slot[slotOf[u]].max
            /\ slot[slotOf[u]].current \in Nat /\ slot[slotOf[u]].max \in Nat
        BY <2>5 DEF SlotCounts, Slot
      <3>2. CASE u = t
        <4>1. slot[slotOf[u]].current > 0
          BY <2>4, <3>1, <3>2
        <4>2. slot' = [slot EXCEPT ![slotOf[u]].current = @ - 1]
          BY <1>8, <2>0, <2>5, <3>2, <4>1 DEF Release
        <4>3. slot'[slotOf[u]].current = slot[slotOf[u]].current - 1 /\ slot'[slotOf[u]].max = slot[slotOf[u]].max
          BY <2>5, <4>2 DEF Slot
        <4>4. QED
          BY <2>4, <3>1, <3>2, <4>3
      <3>3. CASE u # t
        <4>1. slot'[slotOf[u]] = slot[slotOf[u]]
          BY <1>8, <2>0, <2>5, <3>3 DEF Release, Context
        <4>2. QED
          BY <2>2, <3>1, <3>3, <4>1
      <3>4. QED
        BY <3>2, <3>3
    <2>6. SlotCounts'
      BY <1>8, <2>5 DEF SlotCounts, Release
    <2>7. QED
      BY <2>1, <2>6
  <1>9. ASSUME NEW r \in Requests, ResetTenant(r) PROVE SlotMap' /\ SlotCounts'
    <2>1. \A t : InUse(t)' = InUse(t)
      BY <1>9 DEF ResetTenant, InUse
    <2>2. SlotMap'
      BY <1>9 DEF ResetTenant, quotaVars
    <2>3. QED
      BY <1>9, <2>1, <2>2, CountsKept DEF ResetTenant, quotaVars
  <1>10. ASSUME NEW t \in Tenants, NEW k \in Tiers, UpdateCap(t, k) PROVE SlotMap' /\ SlotCounts'
    <2>1. /\ k # Vip /\ k \in CappedTiers /\ slotOf[t] # None /\ Caps[k] >= slot[slotOf[t]].max
          /\ slot' = [slot EXCEPT ![slotOf[t]].max = Caps[k]]
          /\ slotOf' = slotOf
      BY <1>10 DEF UpdateCap, StableConfiguration, Tiers
    <2>2. \A u : InUse(u)' = InUse(u)
      BY <1>10 DEF UpdateCap, InUse, requestVars
    <2>3. SlotMap'
      BY <1>10, <2>1 DEF UpdateCap, requestVars
    <2>4. ASSUME NEW u \in Tenants, slotOf[u] # None
          PROVE  /\ slot'[slotOf[u]].current = slot[slotOf[u]].current
                 /\ slot'[slotOf[u]].max >= slot[slotOf[u]].max
                 /\ slot'[slotOf[u]].max \in Nat /\ slot[slotOf[u]].max \in Nat
                 /\ slot[slotOf[u]].current \in Nat
      BY <2>1, <2>4 DEF Slot
    <2>5. SlotCounts'
      <3> SUFFICES ASSUME NEW u \in Tenants, slotOf[u] # None
                   PROVE  /\ Cardinality(InUse(u)) <= slot'[slotOf[u]].current
                          /\ slot'[slotOf[u]].current <= slot'[slotOf[u]].max
        BY <2>1, <2>2 DEF SlotCounts
      <3>1. /\ Cardinality(InUse(u)) <= slot[slotOf[u]].current
            /\ slot[slotOf[u]].current <= slot[slotOf[u]].max
        BY DEF SlotCounts
      <3>2. QED
        BY <2>4, <3>1
    <2>6. QED
      BY <2>3, <2>5
  <1>11. ASSUME NEW t \in Tenants, NEW k \in Tiers, Register(t, k) \/ Deregister(t)
         PROVE  FALSE
    BY <1>11 DEF Register, Deregister, StableConfiguration
  <1>12. CASE UNCHANGED vars
    <2>1. \A t : InUse(t)' = InUse(t)
      BY <1>12 DEF InUse, vars, requestVars
    <2>2. SlotMap'
      BY <1>12 DEF vars, requestVars, quotaVars
    <2>3. QED
      BY <1>12, <2>1, <2>2, CountsKept DEF vars, quotaVars
  <1>13. ASSUME NEW t \in Tenants, Deregister(t) PROVE FALSE
    BY <1>13 DEF Deregister, StableConfiguration
  <1>14. QED
    BY <1>1, <1>2, <1>3, <1>4, <1>5, <1>6, <1>7, <1>8, <1>9, <1>10, <1>11, <1>12, <1>13
    DEF Next, ConfigNext, RequestNext

\* In a stable configuration no tenant runs more queries at once in a process
\* than its cap allows (TenantQuotaEnforcer.ts:46-66), even though requests
\* that throw keep their unit for ever.
THEOREM CapHolds ==
  ASSUME StableConfiguration
  PROVE  Spec => []CapRespected
  <1>1. Init => SlotMap /\ SlotCounts
    BY ConstantsOK DEF Init, SlotMap, SlotCounts, NoContext
  <1>2. TypeInv /\ SlotMap /\ SlotCounts /\ [Next]_vars => SlotMap' /\ SlotCounts'
    BY QuotaStep DEF QuotaInv
  <1>3. TypeInv /\ SlotCounts => CapRespected
    <2> SUFFICES ASSUME TypeInv, SlotCounts, NEW t \in Tenants, slotOf[t] # None
                 PROVE  Cardinality(InUse(t)) <= slot[slotOf[t]].max
      BY DEF CapRespected
    <2>1. slot[slotOf[t]].current \in Nat /\ slot[slotOf[t]].max \in Nat
      BY DEF TypeInv, TypeOK, Slot
    <2>2. Cardinality(InUse(t)) \in Nat
      BY InUseFinite
    <2>3. QED
      BY <2>1, <2>2 DEF SlotCounts
  <1>4. QED
    BY <1>1, <1>2, <1>3, TypeCorrect, PTL DEF Spec

\* Every reachable state has its types: pools, connections, slots, contexts and
\* configuration stay what QueryInterceptor, PoolRegistry and
\* TenantQuotaEnforcer can hold.
THEOREM TypesHold == Spec => []TypeOK
  <1>1. TypeInv => TypeOK
    BY DEF TypeInv
  <1>2. QED
    BY <1>1, TypeCorrect, PTL

\* A connection goes back to its pool only after the tenant that was set on it
\* is reset or the connection destroyed, whatever fails in between
\* (QueryInterceptor.ts, the release paths).
THEOREM IdleAreClean == Spec => []IdleConnectionsAreClean
  <1>1. QED
    BY TenantIsolation, PTL

-----------------------------------------------------------------------------
(* Tenants do not use up each other's quota                                *)

\* Whose a Slot object is: the map gives no object to two tenants, and who polls
\* an object that is still in the map polls the one of its own tenant.
OwnSlots ==
    /\ \A t, u \in Tenants : slotOf[t] # None /\ slotOf[t] = slotOf[u] => t = u
    /\ \A r \in Requests : waitsOn[r] # None => pc[r] = "polling"
    /\ \A r \in Requests, t \in Tenants : waitsOn[r] # None /\ slotOf[t] = waitsOn[r] => ctx[r].tenant = t

\* The units of a slot that stays in the map change by a step of a request of
\* the slot's tenant only.
UnitsMove ==
    \A t \in Tenants :
       /\ slotOf[t] # None /\ slotOf'[t] = slotOf[t]
       /\ slot'[slotOf[t]].current # slot[slotOf[t]].current
       => \E r \in Requests : ctx[r].tenant = t /\ pc'[r] # pc[r]
UnitsAreOwn == [][UnitsMove]_vars

\* What asking for a unit leaves alone.
LEMMA AskingLeaves ==
    ASSUME TypeInv, NEW r \in Requests, pc[r] # "polling", NEW s, NEW objs \in [SlotIds -> Slot],
           AcquireQuota(r, s, objs)
    PROVE  /\ \A q \in Requests \ {r} : waitsOn'[q] = waitsOn[q] /\ pc'[q] = pc[q]
           /\ waitsOn'[r] = None \/ (waitsOn'[r] = s /\ pc'[r] = "polling")
           /\ \A x \in SlotIds : x # s => slot'[x] = objs[x]
  BY DEF AcquireQuota, Count, Abandon, TypeInv, TypeOK

\* One tenant's slot is in the map already, or is made now and nobody's.
LEMMA AskingKeepsOwn ==
    ASSUME TypeInv, OwnSlots, NEW r \in Requests, SetTenant(r)
    PROVE  OwnSlots' /\ UnitsMove
<1>. DEFINE t == ctx[r].tenant
<1>1. t \in Tenants /\ t # None /\ ctx' = ctx /\ pc[r] = "setting"
  BY ConstantsOK DEF SetTenant, TypeInv, TypeOK, TenantStages, Context
<1>2. CASE AcquireQuota(r, slotOf[t], slot) /\ UNCHANGED slotOf
  <2>1. /\ \A q \in Requests \ {r} : waitsOn'[q] = waitsOn[q] /\ pc'[q] = pc[q]
        /\ waitsOn'[r] = None \/ (waitsOn'[r] = slotOf[t] /\ pc'[r] = "polling")
        /\ \A x \in SlotIds : x # slotOf[t] => slot'[x] = slot[x]
    BY <1>1, <1>2, AskingLeaves DEF TypeInv, TypeOK
  <2>2. pc'[r] # pc[r]
    BY <1>1, <1>2 DEF AcquireQuota, Count, Abandon, TypeInv, TypeOK
  <2>. QED  BY <1>1, <1>2, <2>1, <2>2 DEF OwnSlots, UnitsMove, TypeInv, TypeOK
<1>3. ASSUME NEW s \in FreeSlots, NEW k \in CappedTiers, slotOf[t] = None, slotOf' = [slotOf EXCEPT ![t] = s],
             AcquireQuota(r, s, [slot EXCEPT ![s] = NewSlot(k)])
      PROVE  OwnSlots' /\ UnitsMove
  <2>. DEFINE objs == [slot EXCEPT ![s] = NewSlot(k)]
  <2>1. s \in SlotIds /\ s # None /\ objs \in [SlotIds -> Slot]
    BY <1>3, FreeSlotsAreSlots, NewSlotType, ConstantsOK DEF TypeInv, TypeOK
  <2>2. /\ \A q \in Requests \ {r} : waitsOn'[q] = waitsOn[q] /\ pc'[q] = pc[q]
        /\ waitsOn'[r] = None \/ (waitsOn'[r] = s /\ pc'[r] = "polling")
        /\ \A x \in SlotIds : x # s => slot'[x] = slot[x]
    <3>1. AcquireQuota(r, s, objs) /\ pc[r] # "polling" /\ \A x \in SlotIds : x # s => objs[x] = slot[x]
      BY <1>1, <1>3 DEF TypeInv, TypeOK
    <3>. HIDE DEF objs
    <3>. QED  BY <2>1, <3>1, AskingLeaves
  <2>3. /\ \A u \in Tenants : slotOf[u] # s
        /\ \A q \in Requests : waitsOn[q] # s
    BY <1>3 DEF FreeSlots
  <2>. HIDE DEF objs
  <2>4. OwnSlots'
    BY <1>1, <1>3, <2>1, <2>2, <2>3 DEF OwnSlots, TypeInv, TypeOK
  <2>5. UnitsMove
    BY <1>1, <1>3, <2>1, <2>2, <2>3 DEF UnitsMove, TypeInv, TypeOK
  <2>. QED  BY <2>4, <2>5
<1>. QED  BY <1>1, <1>2, <1>3 DEF SetTenant

LEMMA OwnStep ==
    ASSUME TypeInv, OwnSlots, [Next]_vars
    PROVE  OwnSlots' /\ UnitsMove
<1>. USE ConstantsOK DEF TypeInv, TypeOK, OwnSlots, UnitsMove
<1>1. ASSUME NEW r \in Requests, Begin(r) \/ End(r) \/ Acquire(r) \/ SetFails(r) \/ ResetTenant(r)
      PROVE  OwnSlots' /\ UnitsMove
  BY <1>1 DEF Begin, End, Acquire, SetFails, ResetTenant, Abandon, quotaVars
<1>2. ASSUME NEW r \in Requests, SetTenant(r)
      PROVE  OwnSlots' /\ UnitsMove
  BY <1>2, AskingKeepsOwn
<1>3. ASSUME NEW r \in Requests, PollSucceeds(r)
      PROVE  OwnSlots' /\ UnitsMove
  <2>1. /\ waitsOn[r] \in SlotIds /\ pc'[r] # pc[r] /\ UNCHANGED <<ctx, slotOf>>
        /\ \A x \in SlotIds : x # waitsOn[r] => slot'[x] = slot[x]
        /\ waitsOn' = [waitsOn EXCEPT ![r] = None] /\ \A q \in Requests \ {r} : pc'[q] = pc[q]
    BY <1>3 DEF PollSucceeds, Count, Abandon, TenantStages
  <2>. QED  BY <2>1
<1>4. ASSUME NEW r \in Requests, PollTimeout(r)
      PROVE  OwnSlots' /\ UnitsMove
  BY <1>4 DEF PollTimeout, Abandon, quotaVars
<1>5. ASSUME NEW r \in Requests, Release(r)
      PROVE  OwnSlots' /\ UnitsMove
  <2>1. /\ UNCHANGED <<ctx, waitsOn, slotOf>> /\ pc[r] = "using" /\ pc' = [pc EXCEPT ![r] = "resetting"]
        /\ slot' = slot \/ (ctx[r].tenant \in Tenants /\ \A x \in SlotIds : x # slotOf[ctx[r].tenant] => slot'[x] = slot[x])
    BY <1>5 DEF Release, Context
  <2>. QED  BY <2>1
<1>6. ASSUME NEW t \in Tenants, NEW s \in FreeSlots, NEW k \in CappedTiers,
             slotOf' = [slotOf EXCEPT ![t] = s], slot' = [slot EXCEPT ![s] = NewSlot(k)], UNCHANGED requestVars
      PROVE  OwnSlots' /\ UnitsMove
  BY <1>6 DEF FreeSlots, requestVars
<1>7. ASSUME NEW t \in Tenants, slotOf' = [slotOf EXCEPT ![t] = None], slot' = slot, UNCHANGED requestVars
      PROVE  OwnSlots' /\ UnitsMove
  BY <1>7 DEF requestVars
<1>8. ASSUME NEW t \in Tenants, NEW k \in CappedTiers, slotOf[t] # None,
             slot' = [slot EXCEPT ![slotOf[t]].max = Caps[k]], UNCHANGED <<requestVars, slotOf>>
      PROVE  OwnSlots' /\ UnitsMove
  <2>1. \A x \in SlotIds : slot'[x].current = slot[x].current
    BY <1>8 DEF Slot
  <2>. QED  BY <1>8, <2>1 DEF requestVars
<1>9. CASE ConfigNext
  BY <1>6, <1>7, <1>8, <1>9 DEF ConfigNext, UpdateCap, Register, Deregister, Tiers
<1>10. CASE UNCHANGED vars
  BY <1>10 DEF vars, requestVars, quotaVars
<1>. QED  BY <1>1, <1>2, <1>3, <1>4, <1>5, <1>9, <1>10 DEF Next, RequestNext

\* No tenant takes or gives back units of another tenant's slot, whatever is
\* registered, removed or re-registered while requests poll (TenantQuotaEnforcer).
THEOREM QuotaIsOwn == Spec => UnitsAreOwn
<1>1. Init => OwnSlots
  BY DEF Init, OwnSlots
<1>2. TypeInv /\ OwnSlots /\ [Next]_vars => OwnSlots' /\ UnitsMove
  BY OwnStep
<1>3. TypeInv /\ OwnSlots /\ [Next]_vars => [UnitsMove]_vars
  BY <1>2
<1>. QED  BY <1>1, <1>2, <1>3, TypeCorrect, PTL DEF Spec, UnitsAreOwn
=============================================================================
