------------------------- MODULE VipLifecycleProofs -------------------------
(***************************************************************************)
(* The invariants of VipLifecycle and what a cleanup may delete, for any   *)
(* tenants, administrators, rows and, but where a theorem says otherwise,  *)
(* any plans, statuses and failures.                                       *)
(***************************************************************************)
EXTENDS VipLifecycle, SequenceTheorems, TLAPS

-----------------------------------------------------------------------------
(* Types: what TypeOK leaves open is whose job a worker has.               *)

\* A job is about a tenant that exists; the tier it restores or sets is a capped one.
Good(k) == {j \in Job : Exists(j.tenant) /\ (k # "cleanup" => j.tier \in CappedTiers)}
StepsOf == [migrate |-> {"idle", "gate", "create", "copy", "verify", "commit", "schedule", "rollback", "drop"},
            decommission |-> {"idle", "copy", "verify", "update", "mark", "drop"},
            cleanup |-> {"idle", "delete"}]
CallOk(c) ==
    /\ c \in Call
    /\ c.pc # "idle" => c.tenant \in Tenants /\ Exists(c.tenant) /\ c.tier \in Tiers
    /\ c.pc = "committed" => IsVipMove(c) /\ c.slug \in DbNames
WorkerOk(k, w) ==
    /\ w \in Worker /\ w.pc \in StepsOf[k]
    /\ w.pc # "idle" => w.job \in Good(k)

RowsOk == row \in [Tenants -> Row \cup {None}]
DataOk == shared \in [Tenants -> SUBSET Rows] /\ databases \subseteq DbNames /\ registry \subseteq Entry /\ inflight \subseteq Tenants
CallsOk == admin \in [Admins -> Call] /\ \A a \in Admins : CallOk(admin[a])
QueuesOk == queue \in [Kinds -> Seq(Job)] /\ \A k \in Kinds : queue[k] \in Seq(Good(k))
WorkersOk == worker \in [Kinds -> Worker] /\ \A k \in Kinds : WorkerOk(k, worker[k])
TypeInv == RowsOk /\ DataOk /\ CallsOk /\ QueuesOk /\ WorkersOk

LEMMA TypeInvImplies == TypeInv => TypeOK
  BY DEF TypeInv, TypeOK, RowsOk, DataOk, CallsOk, QueuesOk, WorkersOk

\* No tenant's row is ever deleted.
RowsStay == \A t \in Tenants : Exists(t) => Exists(t)'

LEMMA SameRows == ASSUME row' = row PROVE RowsStay /\ (RowsOk => RowsOk')
  BY DEF RowsStay, Exists, RowsOk

LEMMA OneRow ==
    ASSUME RowsOk, NEW t \in Tenants, NEW n \in Row, row' = [row EXCEPT ![t] = n]
    PROVE  RowsStay /\ RowsOk' /\ row'[t] = n /\ \A u \in Tenants \ {t} : row'[u] = row[u]
  BY NoneIsNoRow DEF RowsStay, Exists, RowsOk

LEMMA GoodStays == ASSUME RowsStay, NEW k PROVE Good(k) \subseteq Good(k)'
  BY DEF Good, RowsStay, Job

LEMMA SeqGrows == ASSUME NEW S, NEW T, S \subseteq T, NEW q \in Seq(S) PROVE q \in Seq(T)
  OBVIOUS

LEMMA SameCalls == ASSUME CallsOk, RowsStay, admin' = admin PROVE CallsOk'
  BY DEF CallsOk, CallOk, RowsStay
LEMMA OneCall ==
    ASSUME CallsOk, RowsStay, NEW a \in Admins, NEW c, CallOk(c)', admin' = [admin EXCEPT ![a] = c]
    PROVE  CallsOk'
  BY DEF CallsOk, CallOk, RowsStay
LEMMA NoCallOk == CallOk(NoCall)'
  BY DEF CallOk, NoCall, Call

LEMMA SameQueues == ASSUME QueuesOk, RowsStay, queue' = queue PROVE QueuesOk'
  BY GoodStays, SeqGrows DEF QueuesOk

\* A job is put at the end of a queue.
LEMMA AppendOk ==
    ASSUME QueuesOk, RowsStay, NEW k \in Kinds, NEW j \in Good(k)', queue' = [queue EXCEPT ![k] = Append(@, j)]
    PROVE  QueuesOk'
<1>1. j \in Job
  BY DEF Good
<1>2. \A i \in Kinds : queue[i] \in Seq(Good(i)')
  BY GoodStays, SeqGrows DEF QueuesOk
<1>3. Append(queue[k], j) \in Seq(Job) /\ Append(queue[k], j) \in Seq(Good(k)')
  BY <1>1, <1>2, AppendProperties DEF QueuesOk
<1>4. queue' = [queue EXCEPT ![k] = Append(queue[k], j)]
  BY DEF QueuesOk
<1>5. \A i \in Kinds : queue'[i] \in Seq(Good(i)')
  BY <1>2, <1>3, <1>4 DEF QueuesOk
<1>. QED  BY <1>3, <1>4, <1>5 DEF QueuesOk

LEMMA SameWorkers == ASSUME WorkersOk, RowsStay, worker' = worker PROVE WorkersOk'
  BY GoodStays DEF WorkersOk, WorkerOk
LEMMA OneWorker ==
    ASSUME WorkersOk, RowsStay, NEW k \in Kinds, NEW w, WorkerOk(k, w)', worker' = [worker EXCEPT ![k] = w]
    PROVE  WorkersOk'
  BY GoodStays DEF WorkersOk, WorkerOk
LEMMA FinishOk ==
    ASSUME WorkersOk, RowsStay, NEW k \in Kinds, Finish(k)
    PROVE  WorkersOk'
<1>1. WorkerOk(k, IdleWorker)'
  BY DEF WorkerOk, IdleWorker, Worker, Steps, StepsOf, Kinds
<1>. QED  BY <1>1, OneWorker DEF Finish
LEMMA GotoOk ==
    ASSUME WorkersOk, RowsStay, NEW k \in Kinds, NEW s \in StepsOf[k], worker[k].pc # "idle", Goto(k, s)
    PROVE  WorkersOk'
<1>1. PICK w : w = [worker[k] EXCEPT !.pc = s]
  OBVIOUS
<1>2. s \in Steps
  BY DEF StepsOf, Steps, Kinds
<1>3. worker[k] \in Worker /\ worker[k].job \in Good(k)'
  BY GoodStays DEF WorkersOk, WorkerOk
<1>4. WorkerOk(k, w)'
  BY <1>1, <1>2, <1>3 DEF WorkerOk, Worker
<1>5. worker' = [worker EXCEPT ![k] = w]
  BY <1>1 DEF Goto, WorkersOk
<1>. QED  BY <1>4, <1>5, OneWorker

\* The job of a worker that has one, and its tenant's row.
LEMMA WorkersJob ==
    ASSUME RowsOk, WorkersOk, NEW k \in Kinds, worker[k].pc # "idle"
    PROVE  /\ worker[k].job \in Job /\ worker[k].job \in Good(k)
           /\ worker[k].job.tenant \in Tenants /\ worker[k].job.slug \in DbNames
           /\ row[worker[k].job.tenant] \in Row
           /\ k # "cleanup" => worker[k].job.tier \in CappedTiers
<1>1. worker[k].job \in Good(k)
  BY DEF WorkersOk, WorkerOk
<1>2. worker[k].job \in Job
  BY <1>1 DEF Good
<1>3. worker[k].job.tenant \in Tenants /\ worker[k].job.slug \in DbNames
  BY <1>2 DEF Job
<1>. QED  BY <1>1, <1>2, <1>3 DEF Good, Exists, RowsOk

LEMMA TypeInit == Init => TypeInv
<1>. SUFFICES ASSUME Init PROVE TypeInv
  OBVIOUS
<1>1. IdleWorker \in Worker /\ IdleWorker.pc = "idle" /\ \A k \in Kinds : "idle" \in StepsOf[k]
  BY DEF IdleWorker, Worker, Steps, Kinds, StepsOf
<1>2. WorkersOk
  BY <1>1 DEF Init, WorkersOk, WorkerOk
<1>3. CallsOk
  BY DEF Init, CallsOk, CallOk, NoCall, Call
<1>4. QueuesOk
  BY DEF Init, QueuesOk
<1>. QED  BY <1>2, <1>3, <1>4 DEF Init, TypeInv, RowsOk, DataOk

LEMMA AdminTypeStep ==
    ASSUME TypeInv, AdminNext
    PROVE  TypeInv'
<1>. USE DEF TypeInv
<1>1. ASSUME NEW t \in Tenants, NEW plan \in CreatePlans, NEW s \in Slugs, Create(t, plan, s)
      PROVE  TypeInv'
  <2>1. PICK n : n = [status |-> "active", isActive |-> TRUE, tier |-> plan, db |-> None, slug |-> s]
    OBVIOUS
  <2>2. n \in Row
    BY <2>1, LifecycleConstants DEF Row, Statuses, Served
  <2>3. row' = [row EXCEPT ![t] = n]
    BY <1>1, <2>1 DEF Create
  <2>. QED  BY <1>1, <2>2, <2>3, OneRow, SameCalls, SameQueues, SameWorkers DEF Create, dedicatedVars, jobVars, DataOk
<1>2. ASSUME NEW a \in Admins, NEW t \in Tenants, NEW plan \in Plans \cup {None}, NEW st \in StatusInputs \cup {None},
             ReadTier(a, t, plan, st)
      PROVE  TypeInv'
  <2>1. PICK n : n = [NoCall EXCEPT !.pc = "read", !.tenant = t, !.plan = plan, !.status = st, !.tier = row[t].tier]
    OBVIOUS
  <2>2. row[t].tier \in Tiers /\ RowsStay /\ Exists(t)'
    BY <1>2, SameRows DEF ReadTier, Exists, RowsOk, Row, tenantVars
  <2>3. CallOk(n)'
    BY <2>1, <2>2, LifecycleConstants DEF CallOk, Call, NoCall
  <2>4. admin' = [admin EXCEPT ![a] = n]
    BY <1>2, <2>1 DEF ReadTier
  <2>. QED  BY <1>2, <2>2, <2>3, <2>4, SameRows, OneCall, SameQueues, SameWorkers
              DEF ReadTier, tenantVars, dedicatedVars, jobVars, DataOk
<1>3. ASSUME NEW t \in Tenants, Offboard(t)
      PROVE  TypeInv'
  <2>1. PICK n : n = [row[t] EXCEPT !.status = "offboarded", !.isActive = FALSE, !.slug = None]
    OBVIOUS
  <2>2. n \in Row
    BY <1>3, <2>1 DEF Offboard, Exists, RowsOk, Row, Statuses
  <2>3. row' = [row EXCEPT ![t] = n]
    BY <1>3, <2>1 DEF Offboard, RowsOk
  <2>. QED  BY <1>3, <2>2, <2>3, OneRow, SameCalls, SameQueues, SameWorkers DEF Offboard, dedicatedVars, jobVars, DataOk
<1>. QED  BY <1>1, <1>2, <1>3 DEF AdminNext

\* What update() writes: the row of a tenant that exists.
LEMMA Commit ==
    ASSUME TypeInv, NEW a \in Admins, CommitUpdate(a)
    PROVE  /\ admin[a].tenant \in Tenants
           /\ \E n \in Row :
                 /\ row' = [row EXCEPT ![admin[a].tenant] = n]
                 /\ n.db = row[admin[a].tenant].db
                 /\ n.status = IF IsVipMove(admin[a]) THEN "migrating"
                               ELSE IF admin[a].status # None THEN admin[a].status ELSE row[admin[a].tenant].status
<1>. DEFINE c == admin[a]
            old == row[c.tenant]
<1>1. c \in Call /\ c.tenant \in Tenants /\ old \in Row
  BY DEF TypeInv, CallsOk, CallOk, CommitUpdate, Exists, RowsOk
<1>2. PICK status : status = IF IsVipMove(c) THEN "migrating" ELSE IF c.status # None THEN c.status ELSE old.status
  OBVIOUS
<1>3. PICK isActive : isActive = IF IsVipMove(c) THEN FALSE
                                 ELSE IF c.status # None THEN c.status = "active" ELSE old.isActive
  OBVIOUS
<1>4. PICK tier : tier = IF c.plan # None THEN c.plan ELSE old.tier
  OBVIOUS
<1>5. status \in Statuses /\ isActive \in BOOLEAN /\ tier \in Tiers
  BY <1>1, <1>2, <1>3, <1>4 DEF Call, Row, Statuses, Tiers
<1>6. PICK n : n = [old EXCEPT !.status = status, !.isActive = isActive, !.tier = tier]
  OBVIOUS
<1>7. n \in Row /\ n.status = status /\ n.db = old.db
  BY <1>1, <1>5, <1>6 DEF Row
<1>8. row' = [row EXCEPT ![c.tenant].status = status, ![c.tenant].isActive = isActive, ![c.tenant].tier = tier]
  BY <1>2, <1>3, <1>4 DEF CommitUpdate, TypeInv, RowsOk
<1>9. row' = [row EXCEPT ![c.tenant] = n]
  BY <1>1, <1>6, <1>8 DEF TypeInv, RowsOk
<1>. QED  BY <1>1, <1>2, <1>7, <1>9

LEMMA CallTypeStep ==
    ASSUME TypeInv, NEW a \in Admins, CallNext(a)
    PROVE  TypeInv'
<1>. USE DEF TypeInv
<1>0. CallOk(admin[a]) /\ admin[a] \in Call
  BY DEF CallsOk, CallOk
<1>1. CASE CommitUpdate(a)
  <2>1. PICK n \in Row : row' = [row EXCEPT ![admin[a].tenant] = n]
    BY <1>1, Commit
  <2>2. RowsOk' /\ RowsStay
    BY <1>1, <2>1, Commit, OneRow
  <2>3. PICK c : c = [admin[a] EXCEPT !.pc = "committed", !.slug = SlugOf(admin[a].tenant)]
    OBVIOUS
  <2>4. ASSUME IsVipMove(admin[a])
        PROVE  CallOk(c)'
    <3>1. SlugOf(admin[a].tenant) \in DbNames
      BY <1>0, <1>1 DEF CommitUpdate, CallOk, SlugOf, Exists, RowsOk, Row, DbNames
    <3>2. row'[admin[a].tenant] # None /\ admin[a].tenant \in Tenants /\ admin[a].tier \in Tiers
      BY <1>0, <1>1, <2>2 DEF CommitUpdate, CallOk, RowsStay, Exists
    <3>3. c \in Call /\ c.pc = "committed" /\ c.tenant = admin[a].tenant /\ c.plan = admin[a].plan /\ c.tier = admin[a].tier
          /\ c.slug \in DbNames
      BY <1>0, <2>3, <3>1 DEF Call
    <3>4. IsVipMove(c)
      BY <2>4, <3>3 DEF IsVipMove, IsVipUpgrade, IsVipDowngrade
    <3>. QED  BY <3>2, <3>3, <3>4 DEF CallOk, Exists
  <2>5. CallsOk'
    <3>1. CASE IsVipMove(admin[a])
      <4>1. admin' = [admin EXCEPT ![a] = c]
        BY <1>1, <2>3, <3>1, Zenon DEF CommitUpdate
      <4>. QED  BY <2>2, <2>4, <3>1, <4>1, OneCall
    <3>2. CASE ~IsVipMove(admin[a])
      <4>1. admin' = [admin EXCEPT ![a] = NoCall]
        BY <1>1, <3>2, Zenon DEF CommitUpdate
      <4>. QED  BY <2>2, <4>1, NoCallOk, OneCall
    <3>. QED  BY <3>1, <3>2
  <2>. QED  BY <1>1, <2>2, <2>5, SameQueues, SameWorkers DEF CommitUpdate, dedicatedVars, jobVars, DataOk
<1>2. CASE Enqueue(a)
  <2>. DEFINE c == admin[a]
  <2>1. PICK k : k = IF IsVipUpgrade(c) THEN "migrate" ELSE "decommission"
    OBVIOUS
  <2>2. PICK tier : tier = IF IsVipUpgrade(c) THEN c.tier ELSE c.plan
    OBVIOUS
  <2>3. c.pc = "committed" /\ c.tenant \in Tenants /\ Exists(c.tenant) /\ c.slug \in DbNames /\ tier \in CappedTiers
    BY <1>0, <1>2, <2>2 DEF Enqueue, CallOk, Call, IsVipMove, IsVipUpgrade, IsVipDowngrade, Tiers
  <2>4. RowsStay /\ RowsOk' /\ row'[c.tenant] # None
    BY <1>2, <2>3, SameRows DEF Enqueue, tenantVars, Exists
  <2>5. PICK j : j = NewJob(c.tenant, c.slug, tier)
    OBVIOUS
  <2>6. j \in Job /\ j.tenant = c.tenant /\ j.tier = tier
    BY <2>3, <2>5 DEF NewJob, Job, MaxTries
  <2>7. j \in Good(k)'
    BY <2>3, <2>4, <2>6 DEF Good, Exists
  <2>8. queue' = [queue EXCEPT ![k] = Append(@, j)] /\ k \in Kinds
    BY <1>2, <2>1, <2>2, <2>5, Zenon DEF Enqueue, Kinds
  <2>. QED  BY <1>2, <2>4, <2>7, <2>8, AppendOk, OneCall, NoCallOk, SameWorkers
              DEF Enqueue, tenantVars, dedicatedVars, DataOk
<1>3. CASE EnqueueFails(a)
  BY <1>3, SameRows, OneCall, NoCallOk, SameQueues, SameWorkers DEF EnqueueFails, tenantVars, dedicatedVars, jobVars, DataOk
<1>. QED  BY <1>1, <1>2, <1>3 DEF CallNext

LEMMA RequestTypeStep ==
    ASSUME TypeInv, RequestNext
    PROVE  TypeInv'
<1>. USE DEF TypeInv
<1>1. UNCHANGED <<row, dedicatedVars, admin, jobVars>>
  BY DEF RequestNext, Admit, Write
<1>2. DataOk'
  BY <1>1 DEF RequestNext, Admit, Write, DataOk, dedicatedVars
<1>. QED  BY <1>1, <1>2, SameRows, SameCalls, SameQueues, SameWorkers DEF jobVars

LEMMA TakeTypeStep ==
    ASSUME TypeInv, NEW k \in Kinds, Take(k)
    PROVE  TypeInv'
<1>. USE DEF TypeInv
<1>1. UNCHANGED <<tenantVars, dedicatedVars, admin>> /\ RowsStay /\ RowsOk' /\ DataOk' /\ CallsOk'
  BY SameRows, SameCalls DEF Take, tenantVars, dedicatedVars, DataOk
<1>2. \A i \in Kinds : Good(i)' = Good(i)
  BY <1>1 DEF Good, Exists, tenantVars
<1>3. queue[k] \in Seq(Good(k)) /\ queue[k] \in Seq(Job) /\ queue[k] # <<>>
  BY DEF Take, QueuesOk
<1>4. /\ Head(queue[k]) \in Good(k) /\ Head(queue[k]) \in Job
      /\ Tail(queue[k]) \in Seq(Good(k)) /\ Tail(queue[k]) \in Seq(Job)
  BY <1>3, HeadTailProperties
<1>5. QueuesOk'
  BY <1>2, <1>4 DEF Take, QueuesOk
<1>6. PICK w : w = [pc |-> FirstStep[k], job |-> Head(queue[k]), created |-> FALSE]
  OBVIOUS
<1>7. FirstStep[k] \in StepsOf[k] /\ FirstStep[k] \in Steps
  BY DEF FirstStep, StepsOf, Steps, Kinds
<1>8. WorkerOk(k, w)'
  BY <1>2, <1>4, <1>6, <1>7 DEF WorkerOk, Worker
<1>9. worker' = [worker EXCEPT ![k] = w]
  BY <1>6 DEF Take
<1>. QED  BY <1>1, <1>5, <1>8, <1>9, OneWorker

\* A worker that goes to a step of its kind, or ends, and leaves the rest.
LEMMA MovesOnly ==
    ASSUME TypeInv, NEW k \in Kinds, worker[k].pc # "idle", (\E s \in StepsOf[k] : Goto(k, s)) \/ Finish(k),
           RowsOk', RowsStay, DataOk', UNCHANGED <<admin, queue>>
    PROVE  TypeInv'
  BY GotoOk, FinishOk, SameCalls, SameQueues DEF TypeInv

LEMMA MigrationTypeStep ==
    ASSUME TypeInv, MigrationNext
    PROVE  TypeInv'
<1>. DEFINE w == worker["migrate"]
<1>0. "migrate" \in Kinds /\ StepsOf["migrate"] = {"idle", "gate", "create", "copy", "verify", "commit", "schedule", "rollback", "drop"}
  BY DEF Kinds, StepsOf
<1>1. ASSUME w.pc # "idle"
      PROVE  /\ MJob \in Job /\ MJob \in Good("migrate") /\ MTenant \in Tenants /\ MJob.slug \in DbNames
             /\ row[MTenant] \in Row /\ MJob.tier \in CappedTiers
  BY <1>0, <1>1, WorkersJob DEF TypeInv, MJob, MTenant
<1>2. CASE Take("migrate")
  BY <1>0, <1>2, TakeTypeStep
<1>3. CASE Gate
  <2>1. w.pc # "idle"
    BY <1>3 DEF Gate, Running
  <2>2. PICK n : n = [row[MTenant] EXCEPT !.status = "migrating"]
    OBVIOUS
  <2>3. n \in Row
    BY <1>1, <2>1, <2>2 DEF Row, Statuses
  <2>4. row' = [row EXCEPT ![MTenant] = n]
    BY <1>3, <2>2 DEF Gate, TypeInv, RowsOk
  <2>5. RowsOk' /\ RowsStay
    BY <1>1, <2>1, <2>3, <2>4, OneRow DEF TypeInv
  <2>. QED  BY <1>0, <1>3, <2>1, <2>5, MovesOnly DEF Gate, dedicatedVars, TypeInv, DataOk
<1>4. CASE CreateDatabase
  <2>1. w.pc # "idle" /\ UNCHANGED <<tenantVars, registry, admin, queue>>
    BY <1>4 DEF CreateDatabase, Running
  <2>2. RowsOk' /\ RowsStay
    BY <2>1, SameRows DEF tenantVars, TypeInv
  <2>3. CASE MJob.slug \in databases
    <3>1. Goto("migrate", "rollback") /\ databases' = databases
      BY <1>4, <2>3, Zenon DEF CreateDatabase
    <3>. QED  BY <1>0, <2>1, <2>2, <3>1, MovesOnly DEF tenantVars, TypeInv, DataOk
  <2>4. CASE MJob.slug \notin databases
    <3>1. /\ databases' = databases \cup {MJob.slug}
          /\ worker' = [worker EXCEPT !["migrate"].pc = "copy", !["migrate"].created = TRUE]
      BY <1>4, <2>4, Zenon DEF CreateDatabase
    <3>2. PICK n : n = [w EXCEPT !.pc = "copy", !.created = TRUE]
      OBVIOUS
    <3>3. worker' = [worker EXCEPT !["migrate"] = n]
      BY <1>0, <3>1, <3>2 DEF TypeInv, WorkersOk
    <3>4. w.job \in Good("migrate")' /\ w \in Worker
      BY <1>0, <1>1, <2>1, <2>2, GoodStays DEF MJob, TypeInv, WorkersOk
    <3>5. WorkerOk("migrate", n)'
      BY <1>0, <3>2, <3>4 DEF WorkerOk, Worker, Steps
    <3>6. DataOk'
      BY <1>1, <2>1, <3>1 DEF tenantVars, TypeInv, DataOk
    <3>. QED  BY <1>0, <2>1, <2>2, <3>3, <3>5, <3>6, OneWorker, SameCalls, SameQueues DEF TypeInv
  <2>. QED  BY <2>3, <2>4
<1>5. CASE CopyAndVerify
  <2>1. w.pc # "idle" /\ UNCHANGED <<tenantVars, dedicatedVars, admin, queue>>
    BY <1>5 DEF CopyAndVerify, Running
  <2>2. \E s \in {"verify", "commit", "rollback"} : Goto("migrate", s)
    BY <1>5 DEF CopyAndVerify
  <2>. QED  BY <1>0, <2>1, <2>2, MovesOnly, SameRows DEF tenantVars, dedicatedVars, TypeInv, DataOk
<1>6. CASE CommitMigration
  <2>1. w.pc # "idle"
    BY <1>6 DEF CommitMigration, Running
  <2>2. PICK n : n = [row[MTenant] EXCEPT !.db = MJob.slug, !.status = "active"]
    OBVIOUS
  <2>3. n \in Row
    BY <1>1, <2>1, <2>2 DEF Row, Statuses, Served
  <2>4. row' = [row EXCEPT ![MTenant] = n]
    BY <1>6, <2>2 DEF CommitMigration, TypeInv, RowsOk
  <2>5. RowsOk' /\ RowsStay
    BY <1>1, <2>1, <2>3, <2>4, OneRow DEF TypeInv
  <2>6. [tenant |-> MTenant, db |-> MJob.slug, active |-> TRUE] \in Entry
    BY <1>1, <2>1 DEF Entry
  <2>7. DataOk'
    BY <1>6, <2>6 DEF CommitMigration, TypeInv, DataOk
  <2>. QED  BY <1>0, <1>6, <2>1, <2>5, <2>7, MovesOnly DEF CommitMigration
<1>7. CASE ScheduleCleanup
  <2>1. w.pc # "idle" /\ UNCHANGED <<tenantVars, dedicatedVars, admin>>
    BY <1>7 DEF ScheduleCleanup, Running
  <2>2. PICK j : j = NewJob(MTenant, MJob.slug, None)
    OBVIOUS
  <2>3. j \in Job /\ j.tenant = MTenant /\ Exists(MTenant)
    BY <1>1, <2>1, <2>2, NoneIsNoRow DEF NewJob, Job, MaxTries, Exists
  <2>4. "cleanup" \in Kinds /\ j \in Good("cleanup")'
    BY <2>1, <2>3 DEF Good, Exists, tenantVars, Kinds
  <2>5. queue' = [queue EXCEPT !["cleanup"] = Append(@, j)]
    BY <1>7, <2>2 DEF ScheduleCleanup
  <2>. QED  BY <1>0, <1>7, <2>1, <2>4, <2>5, SameRows, SameCalls, AppendOk, FinishOk
              DEF ScheduleCleanup, tenantVars, dedicatedVars, TypeInv, DataOk
<1>8. CASE MigrationStepFails \/ TransactionFails \/ RollbackFails
  <2>1. w.pc # "idle" /\ UNCHANGED <<tenantVars, dedicatedVars, admin, queue>>
    BY <1>8 DEF MigrationStepFails, TransactionFails, RollbackFails, Running
  <2>2. Goto("migrate", "rollback") \/ Goto("migrate", "drop") \/ Finish("migrate")
    BY <1>8 DEF MigrationStepFails, TransactionFails, RollbackFails
  <2>. QED  BY <1>0, <2>1, <2>2, MovesOnly, SameRows DEF tenantVars, dedicatedVars, TypeInv, DataOk
<1>9. CASE Rollback
  <2>1. w.pc # "idle"
    BY <1>9 DEF Rollback, Running
  <2>2. PICK n : n = [row[MTenant] EXCEPT !.status = "active", !.tier = MJob.tier]
    OBVIOUS
  <2>3. n \in Row
    BY <1>1, <2>1, <2>2 DEF Row, Statuses, Served, Tiers
  <2>4. row' = [row EXCEPT ![MTenant] = n]
    BY <1>9, <2>2 DEF Rollback, TypeInv, RowsOk
  <2>5. RowsOk' /\ RowsStay
    BY <1>1, <2>1, <2>3, <2>4, OneRow DEF TypeInv
  <2>6. Goto("migrate", "drop") \/ Finish("migrate")
    BY <1>9 DEF Rollback
  <2>. QED  BY <1>0, <1>9, <2>1, <2>5, <2>6, MovesOnly DEF Rollback, dedicatedVars, TypeInv, DataOk
<1>10. CASE DropAfterRollback
  <2>1. w.pc # "idle" /\ DataOk' /\ RowsOk' /\ RowsStay
    BY <1>10, SameRows DEF DropAfterRollback, Running, tenantVars, TypeInv, DataOk
  <2>. QED  BY <1>0, <1>10, <2>1, MovesOnly DEF DropAfterRollback
<1>. QED  BY <1>2, <1>3, <1>4, <1>5, <1>6, <1>7, <1>8, <1>9, <1>10 DEF MigrationNext

LEMMA RetryOk ==
    ASSUME TypeInv, worker["decommission"].pc # "idle", Retry, UNCHANGED <<tenantVars, dedicatedVars, admin>>
    PROVE  TypeInv'
<1>0. "decommission" \in Kinds /\ RowsStay /\ RowsOk' /\ DataOk' /\ CallsOk'
  BY SameRows, SameCalls DEF Kinds, tenantVars, dedicatedVars, TypeInv, DataOk
<1>1. DJob \in Job /\ DJob \in Good("decommission")'
  BY <1>0, WorkersJob, GoodStays DEF DJob, TypeInv
<1>2. WorkersOk'
  BY <1>0, FinishOk DEF Retry, TypeInv
<1>3. CASE DJob.tries < MaxTries
  <2>1. DJob.tries + 1 \in 1..MaxTries
    BY <1>1, <1>3 DEF Job, MaxTries
  <2>2. PICK j : j = [DJob EXCEPT !.tries = @ + 1]
    OBVIOUS
  <2>3. j = [DJob EXCEPT !.tries = DJob.tries + 1]
    BY <2>2
  <2>4. j \in Job /\ j.tenant = DJob.tenant /\ j.tier = DJob.tier
    BY <1>1, <2>1, <2>3 DEF Job
  <2>5. j \in Good("decommission")'
    BY <1>1, <2>4 DEF Good, Exists
  <2>6. queue' = [queue EXCEPT !["decommission"] = Append(@, j)]
    BY <1>3, <2>2, Zenon DEF Retry
  <2>. QED  BY <1>0, <1>2, <2>5, <2>6, AppendOk DEF TypeInv
<1>4. CASE ~(DJob.tries < MaxTries)
  <2>1. queue' = queue
    BY <1>4, Zenon DEF Retry
  <2>. QED  BY <1>0, <1>2, <2>1, SameQueues DEF TypeInv
<1>. QED  BY <1>3, <1>4

LEMMA DecommissionTypeStep ==
    ASSUME TypeInv, DecommissionNext
    PROVE  TypeInv'
<1>. DEFINE w == worker["decommission"]
<1>0. "decommission" \in Kinds /\ StepsOf["decommission"] = {"idle", "copy", "verify", "update", "mark", "drop"}
  BY DEF Kinds, StepsOf
<1>1. ASSUME w.pc # "idle"
      PROVE  DTenant \in Tenants /\ row[DTenant] \in Row /\ DJob.tier \in CappedTiers
  BY <1>0, <1>1, WorkersJob DEF TypeInv, DJob, DTenant
<1>2. CASE Take("decommission")
  BY <1>0, <1>2, TakeTypeStep
<1>3. CASE CopyBack \/ VerifyBack \/ DecommissionStepFails
  <2>1. w.pc # "idle" /\ UNCHANGED <<tenantVars, dedicatedVars, admin>>
    BY <1>3 DEF CopyBack, VerifyBack, DecommissionStepFails, Running
  <2>2. Retry \/ (queue' = queue /\ \E s \in {"verify", "update"} : Goto("decommission", s))
    BY <1>3 DEF CopyBack, VerifyBack, DecommissionStepFails
  <2>. QED  BY <1>0, <2>1, <2>2, RetryOk, MovesOnly, SameRows DEF tenantVars, dedicatedVars, TypeInv, DataOk
<1>4. CASE UpdateTenant
  <2>1. w.pc # "idle"
    BY <1>4 DEF UpdateTenant, Running
  <2>2. PICK n : n = [row[DTenant] EXCEPT !.db = None, !.tier = DJob.tier, !.status = "active"]
    OBVIOUS
  <2>3. n \in Row
    BY <1>1, <2>1, <2>2 DEF Row, Statuses, Served, Tiers
  <2>4. row' = [row EXCEPT ![DTenant] = n]
    BY <1>4, <2>2 DEF UpdateTenant, TypeInv, RowsOk
  <2>5. RowsOk' /\ RowsStay
    BY <1>1, <2>1, <2>3, <2>4, OneRow DEF TypeInv
  <2>. QED  BY <1>0, <1>4, <2>1, <2>5, MovesOnly DEF UpdateTenant, dedicatedVars, TypeInv, DataOk
<1>5. CASE MarkDecommissioned
  <2>1. w.pc # "idle" /\ RowsOk' /\ RowsStay
    BY <1>5, SameRows DEF MarkDecommissioned, Running, tenantVars, TypeInv
  <2>2. ASSUME NEW e \in registry
        PROVE  (IF e.tenant = DTenant THEN [e EXCEPT !.active = FALSE] ELSE e) \in Entry
    <3>1. e \in Entry /\ [e EXCEPT !.active = FALSE] \in Entry
      BY DEF TypeInv, DataOk, Entry
    <3>. QED  BY <3>1
  <2>3. DataOk'
    BY <1>5, <2>2 DEF MarkDecommissioned, tenantVars, TypeInv, DataOk
  <2>. QED  BY <1>0, <1>5, <2>1, <2>3, MovesOnly DEF MarkDecommissioned
<1>6. CASE DropDedicated
  <2>1. w.pc # "idle" /\ DataOk' /\ RowsOk' /\ RowsStay
    BY <1>6, SameRows DEF DropDedicated, Running, tenantVars, TypeInv, DataOk
  <2>. QED  BY <1>0, <1>6, <2>1, MovesOnly DEF DropDedicated
<1>. QED  BY <1>2, <1>3, <1>4, <1>5, <1>6 DEF DecommissionNext

LEMMA CleanupTypeStep ==
    ASSUME TypeInv, CleanupNext
    PROVE  TypeInv'
<1>0. "cleanup" \in Kinds
  BY DEF Kinds
<1>1. CASE DeleteSharedRows
  <2>1. worker["cleanup"].pc # "idle" /\ RowsOk' /\ RowsStay /\ DataOk'
    BY <1>1, SameRows DEF DeleteSharedRows, Running, dedicatedVars, TypeInv, DataOk
  <2>. QED  BY <1>0, <1>1, <2>1, MovesOnly DEF DeleteSharedRows
<1>. QED  BY <1>0, <1>1, TakeTypeStep DEF CleanupNext

\* What is left of a queue after a crash: the active job is put back once.
LEMMA CrashQueue ==
    ASSUME TypeInv, Crash, NEW k \in Kinds
    PROVE  /\ queue'[k] \in Seq(Job) /\ queue'[k] \in Seq(Good(k))
           /\ \/ queue'[k] = queue[k]
              \/ \E j \in Good(k) : /\ worker[k].pc # "idle" /\ queue'[k] = Append(queue[k], j)
                                    /\ j.tenant = worker[k].job.tenant
<1>1. queue[k] \in Seq(Job) /\ queue[k] \in Seq(Good(k))
  BY DEF TypeInv, QueuesOk
<1>2. CASE Running(k, "idle") \/ worker[k].job.stalled
  <2>1. queue'[k] = queue[k]
    BY <1>2, Zenon DEF Crash
  <2>. QED  BY <1>1, <2>1
<1>3. CASE ~(Running(k, "idle") \/ worker[k].job.stalled)
  <2>1. worker[k].pc # "idle" /\ worker[k].job \in Job /\ worker[k].job \in Good(k)
    BY <1>3, WorkersJob DEF Running, TypeInv
  <2>2. PICK j : j = [worker[k].job EXCEPT !.stalled = TRUE]
    OBVIOUS
  <2>3. j \in Job /\ j.tenant = worker[k].job.tenant /\ j.tier = worker[k].job.tier
    BY <2>1, <2>2 DEF Job
  <2>4. j \in Good(k)
    BY <2>1, <2>3 DEF Good
  <2>5. queue'[k] = Append(queue[k], j)
    BY <1>3, <2>2, Zenon DEF Crash
  <2>. QED  BY <1>1, <2>1, <2>3, <2>4, <2>5, AppendProperties
<1>. QED  BY <1>2, <1>3

LEMMA CrashTypeStep ==
    ASSUME TypeInv, Crash
    PROVE  TypeInv'
<1>1. RowsOk' /\ RowsStay /\ DataOk'
  BY SameRows DEF Crash, TypeInv, DataOk, dedicatedVars
<1>2. CallsOk'
  BY NoCallOk DEF Crash, CallsOk, CallOk
<1>3. queue' = [k \in Kinds |-> queue'[k]]
  BY Zenon DEF Crash
<1>4. \A k \in Kinds : Good(k)' = Good(k)
  BY DEF Crash, Good, Exists
<1>5. QueuesOk'
  BY <1>3, <1>4, CrashQueue DEF QueuesOk
<1>6. IdleWorker \in Worker /\ IdleWorker.pc = "idle" /\ \A k \in Kinds : "idle" \in StepsOf[k]
  BY DEF IdleWorker, Worker, Steps, Kinds, StepsOf
<1>7. WorkersOk'
  BY <1>6 DEF Crash, WorkersOk, WorkerOk
<1>. QED  BY <1>1, <1>2, <1>5, <1>7 DEF TypeInv

LEMMA TypeStep == TypeInv /\ [Next]_vars => TypeInv'
<1>. SUFFICES ASSUME TypeInv, [Next]_vars PROVE TypeInv'
  OBVIOUS
<1>1. CASE UNCHANGED vars
  BY <1>1, SameRows, SameCalls, SameQueues, SameWorkers
     DEF vars, tenantVars, dedicatedVars, jobVars, TypeInv, DataOk
<1>. QED  BY <1>1, AdminTypeStep, CallTypeStep, RequestTypeStep, MigrationTypeStep, DecommissionTypeStep,
             CleanupTypeStep, CrashTypeStep DEF Next

LEMMA TypeInvAlways == Spec => []TypeInv
  BY TypeInit, TypeStep, PTL DEF Spec

\* Rows, databases, registry, calls, queues and workers have their types, for
\* any failures: the job of a worker is about a tenant that exists.
THEOREM LifecycleTypes == Spec => []TypeOK
  BY TypeInvAlways, TypeInvImplies, PTL

-----------------------------------------------------------------------------
(* Rows outlive failed migrations: what the cleanup's job stands for.      *)

Migrated(t) == \E e \in registry : e.tenant = t
MigratedJobs == {j \in Job : Migrated(j.tenant)}

\* A cleanup is queued after a commit, and the registry keeps every tenant.
CleanupsFollow ==
    /\ queue["cleanup"] \in Seq(MigratedJobs)
    /\ worker["cleanup"].pc # "idle" => worker["cleanup"].job \in MigratedJobs
    /\ worker["migrate"].pc = "schedule" => Migrated(MTenant)

LEMMA RegistryKeeps ==
    ASSUME TypeInv, [Next]_vars, NEW t, Migrated(t)
    PROVE  Migrated(t)'
<1>1. PICK e \in registry : e.tenant = t
  BY DEF Migrated
<1>2. CASE registry' = registry
  BY <1>2 DEF Migrated
<1>3. CASE CommitMigration
  BY <1>1, <1>3 DEF CommitMigration, Migrated
<1>4. CASE MarkDecommissioned
  <2>1. PICK f : f = IF e.tenant = DTenant THEN [e EXCEPT !.active = FALSE] ELSE e
    OBVIOUS
  <2>2. e \in Entry
    BY <1>1 DEF TypeInv, DataOk
  <2>3. f.tenant = t
    BY <1>1, <2>1, <2>2 DEF Entry
  <2>4. f \in registry'
    BY <1>1, <1>4, <2>1, Zenon DEF MarkDecommissioned
  <2>. QED  BY <2>3, <2>4 DEF Migrated
<1>5. ASSUME ~CommitMigration, ~MarkDecommissioned
      PROVE  registry' = registry
  BY <1>5 DEF Next, vars, dedicatedVars, tenantVars, jobVars, AdminNext, Create, ReadTier, Offboard, CallNext, CommitUpdate,
              Enqueue, EnqueueFails, RequestNext, Admit, Write, MigrationNext, Take, Gate, CreateDatabase,
              CopyAndVerify, ScheduleCleanup, MigrationStepFails, TransactionFails, Rollback, DropAfterRollback,
              RollbackFails, DecommissionNext, CopyBack, VerifyBack, UpdateTenant, DropDedicated,
              DecommissionStepFails, CleanupNext, DeleteSharedRows, Crash
<1>. QED  BY <1>2, <1>3, <1>4, <1>5

LEMMA MigratedGrows ==
    ASSUME TypeInv, [Next]_vars
    PROVE  /\ MigratedJobs \subseteq MigratedJobs'
           /\ \A q \in Seq(MigratedJobs) : q \in Seq(MigratedJobs')
  BY RegistryKeeps, SeqGrows DEF MigratedJobs

LEMMA CleanupsStep ==
    ASSUME TypeInv, CleanupsFollow, [Next]_vars
    PROVE  CleanupsFollow'
<1>. DEFINE wm == worker["migrate"]
            wc == worker["cleanup"]
<1>0. /\ "cleanup" \in Kinds /\ "migrate" \in Kinds /\ "decommission" \in Kinds
      /\ queue \in [Kinds -> Seq(Job)] /\ worker \in [Kinds -> Worker]
      /\ \A j \in MigratedJobs : j \in MigratedJobs'
      /\ queue["cleanup"] \in Seq(MigratedJobs')
  BY MigratedGrows DEF CleanupsFollow, TypeInv, QueuesOk, WorkersOk, Kinds
\* A step that leaves the cleanups and does not commit.
<1>1. ASSUME queue'["cleanup"] = queue["cleanup"], worker'["cleanup"] = worker["cleanup"],
             worker'["migrate"].pc # "schedule" \/ worker'["migrate"] = worker["migrate"]
      PROVE  CleanupsFollow'
  BY <1>0, <1>1, RegistryKeeps DEF CleanupsFollow, MTenant, MJob
<1>2. CASE Take("cleanup")
  <2>1. queue["cleanup"] # <<>> /\ Head(queue["cleanup"]) \in MigratedJobs' /\ Tail(queue["cleanup"]) \in Seq(MigratedJobs')
    BY <1>0, <1>2, HeadTailProperties DEF Take
  <2>2. queue'["cleanup"] = Tail(queue["cleanup"]) /\ worker'["cleanup"].job = Head(queue["cleanup"])
        /\ worker'["migrate"] = worker["migrate"]
    BY <1>0, <1>2 DEF Take
  <2>. QED  BY <2>1, <2>2, RegistryKeeps DEF CleanupsFollow, MTenant, MJob
<1>3. CASE DeleteSharedRows
  <2>1. worker'["cleanup"].pc = "idle" /\ worker'["migrate"] = worker["migrate"] /\ queue' = queue
    BY <1>0, <1>3 DEF DeleteSharedRows, Finish, IdleWorker
  <2>. QED  BY <1>0, <2>1, RegistryKeeps DEF CleanupsFollow, MTenant, MJob
<1>4. CASE ScheduleCleanup
  <2>1. PICK j : j = NewJob(MTenant, MJob.slug, None)
    OBVIOUS
  <2>2. wm.pc = "schedule" /\ Migrated(MTenant) /\ MJob \in Job
    BY <1>0, <1>4, WorkersJob DEF ScheduleCleanup, Running, CleanupsFollow, TypeInv, MJob
  <2>3. j \in Job /\ j.tenant = MTenant
    BY <2>1, <2>2 DEF NewJob, Job, MaxTries, MTenant
  <2>4. j \in MigratedJobs
    BY <2>2, <2>3 DEF MigratedJobs
  <2>5. queue'["cleanup"] = Append(queue["cleanup"], j)
    BY <1>0, <1>4, <2>1 DEF ScheduleCleanup
  <2>6. Append(queue["cleanup"], j) \in Seq(MigratedJobs')
    BY <1>0, <2>4, AppendProperties
  <2>7. worker'["migrate"].pc = "idle" /\ worker'["cleanup"] = worker["cleanup"]
    BY <1>0, <1>4 DEF ScheduleCleanup, Finish, IdleWorker
  <2>. QED  BY <1>0, <2>5, <2>6, <2>7 DEF CleanupsFollow
<1>5. CASE CommitMigration
  <2>1. queue' = queue /\ worker'["cleanup"] = worker["cleanup"] /\ worker'["migrate"].job = wm.job
    BY <1>0, <1>5 DEF CommitMigration, Goto, Worker
  <2>2. [tenant |-> MTenant, db |-> MJob.slug, active |-> TRUE] \in registry'
    BY <1>5 DEF CommitMigration
  <2>3. MTenant' = MTenant
    BY <2>1 DEF MTenant, MJob
  <2>4. Migrated(MTenant)'
    BY <2>2, <2>3 DEF Migrated
  <2>. QED  BY <1>0, <2>1, <2>4 DEF CleanupsFollow
<1>6. CASE Crash
  <2>1. queue'["cleanup"] \in Seq(MigratedJobs')
    <3>1. CASE queue'["cleanup"] = queue["cleanup"]
      BY <1>0, <3>1
    <3>2. CASE queue'["cleanup"] # queue["cleanup"]
      <4>1. PICK j \in Good("cleanup") : wc.pc # "idle" /\ queue'["cleanup"] = Append(queue["cleanup"], j)
                                         /\ j.tenant = wc.job.tenant
        BY <1>0, <1>6, <3>2, CrashQueue
      <4>2. j \in MigratedJobs
        BY <4>1 DEF CleanupsFollow, MigratedJobs, Good
      <4>. QED  BY <1>0, <4>1, <4>2, AppendProperties
    <3>. QED  BY <3>1, <3>2
  <2>2. worker'["cleanup"].pc = "idle" /\ worker'["migrate"].pc = "idle"
    BY <1>0, <1>6 DEF Crash, IdleWorker
  <2>. QED  BY <2>1, <2>2 DEF CleanupsFollow
<1>7. CASE UNCHANGED jobVars
  BY <1>1, <1>7 DEF jobVars
<1>8. ASSUME NEW a \in Admins, Enqueue(a)
      PROVE  CleanupsFollow'
  <2>1. queue'["cleanup"] = queue["cleanup"] /\ worker' = worker
    BY <1>0, <1>8 DEF Enqueue
  <2>. QED  BY <1>1, <2>1
<1>9. CASE Take("migrate") \/ Take("decommission")
  <2>1. /\ queue'["cleanup"] = queue["cleanup"] /\ worker'["cleanup"] = worker["cleanup"]
        /\ worker'["migrate"].pc # "schedule" \/ worker'["migrate"] = worker["migrate"]
    BY <1>0, <1>9 DEF Take, FirstStep
  <2>. QED  BY <1>1, <2>1
<1>10. CASE Gate \/ CreateDatabase \/ CopyAndVerify \/ MigrationStepFails \/ TransactionFails
            \/ Rollback \/ DropAfterRollback \/ RollbackFails
  <2>1. queue' = queue
    BY <1>10 DEF Gate, CreateDatabase, CopyAndVerify, MigrationStepFails, TransactionFails, Rollback,
                 DropAfterRollback, RollbackFails
  <2>2. \/ \E s \in {"create", "copy", "verify", "commit", "rollback", "drop"} :
              Goto("migrate", s) \/ worker' = [worker EXCEPT !["migrate"].pc = s, !["migrate"].created = TRUE]
        \/ Finish("migrate")
    BY <1>10 DEF Gate, CreateDatabase, CopyAndVerify, MigrationStepFails, TransactionFails, Rollback,
                 DropAfterRollback, RollbackFails
  <2>3. worker'["cleanup"] = worker["cleanup"] /\ worker'["migrate"].pc # "schedule"
    BY <1>0, <2>2 DEF Goto, Finish, IdleWorker, Worker
  <2>. QED  BY <1>1, <2>1, <2>3
<1>11. CASE CopyBack \/ VerifyBack \/ UpdateTenant \/ MarkDecommissioned \/ DropDedicated \/ DecommissionStepFails
  <2>1. Retry \/ (queue' = queue /\ (Finish("decommission") \/ \E s \in Steps : Goto("decommission", s)))
    BY <1>11 DEF CopyBack, VerifyBack, UpdateTenant, MarkDecommissioned, DropDedicated, DecommissionStepFails, Steps
  <2>2. queue'["cleanup"] = queue["cleanup"]
    BY <1>0, <2>1 DEF Retry
  <2>3. worker'["cleanup"] = worker["cleanup"] /\ worker'["migrate"] = worker["migrate"]
    BY <1>0, <2>1 DEF Retry, Finish, Goto
  <2>. QED  BY <1>1, <2>2, <2>3
<1>12. CASE AdminNext \/ RequestNext \/ (\E a \in Admins : CommitUpdate(a) \/ EnqueueFails(a)) \/ UNCHANGED vars
  <2>1. UNCHANGED jobVars
    BY <1>12 DEF AdminNext, Create, ReadTier, Offboard, RequestNext, Admit, Write, CommitUpdate, EnqueueFails,
                 vars, jobVars
  <2>. QED  BY <1>7, <2>1
<1>. QED  BY <1>2, <1>3, <1>4, <1>5, <1>6, <1>8, <1>9, <1>10, <1>11, <1>12
          DEF Next, CallNext, MigrationNext, DecommissionNext, CleanupNext

LEMMA CleanupsAlways == Spec => []CleanupsFollow
<1>1. Init => CleanupsFollow
  BY DEF Init, CleanupsFollow, IdleWorker, Kinds
<1>. QED  BY <1>1, CleanupsStep, TypeInvAlways, PTL DEF Spec

\* Rows of a tenant disappear only when a migration of it has committed, for
\* any plans, failures and crashes and however late the cleanup runs.
THEOREM RowsAreKept == Spec => RowsOutliveFailedMigrations
<1>1. ASSUME TypeInv, CleanupsFollow, [Next]_vars, NEW t \in Tenants, (shared[t] \ shared'[t]) # {}
      PROVE  \E e \in registry : e.tenant = t
  <2>1. CASE shared' = shared
    BY <1>1, <2>1
  <2>2. ASSUME NEW u \in Tenants, Write(u)
        PROVE  FALSE
    BY <1>1, <2>2 DEF Write, TypeInv, DataOk
  <2>3. CASE DeleteSharedRows
    <3>1. worker["cleanup"].pc # "idle" /\ t = worker["cleanup"].job.tenant
      BY <1>1, <2>3 DEF DeleteSharedRows, Running, TypeInv, DataOk
    <3>. QED  BY <1>1, <3>1 DEF CleanupsFollow, MigratedJobs, Migrated
  <2>4. ASSUME ~DeleteSharedRows, ~\E u \in Tenants : Write(u)
        PROVE  shared' = shared
    BY <1>1, <2>4 DEF Next, vars, dedicatedVars, tenantVars, jobVars, AdminNext, Create, ReadTier, Offboard, CallNext,
              CommitUpdate, Enqueue, EnqueueFails, RequestNext, Admit, MigrationNext, Take, Gate, CreateDatabase,
              CopyAndVerify, CommitMigration, ScheduleCleanup, MigrationStepFails, TransactionFails, Rollback,
              DropAfterRollback, RollbackFails, DecommissionNext, CopyBack, VerifyBack, UpdateTenant,
              MarkDecommissioned, DropDedicated, DecommissionStepFails, CleanupNext, Crash
  <2>. QED  BY <2>1, <2>2, <2>3, <2>4
<1>2. TypeInv /\ CleanupsFollow /\ [Next]_vars
      => [\A t \in Tenants : (shared[t] \ shared'[t]) # {} => \E e \in registry : e.tenant = t]_shared
  BY <1>1
<1>. QED  BY <1>2, TypeInvAlways, CleanupsAlways, PTL DEF Spec, RowsOutliveFailedMigrations

-----------------------------------------------------------------------------
(* Moves to VIP only: nothing is decommissioned.                           *)

UpgradesOnly == Plans \subseteq {Vip}

NoDowngrades ==
    /\ \A a \in Admins : admin[a].plan \in {Vip, None}
    /\ queue["decommission"] = <<>>
    /\ worker["decommission"].pc = "idle"

LEMMA NoDowngradesStep ==
    ASSUME UpgradesOnly, TypeInv, NoDowngrades, [Next]_vars
    PROVE  NoDowngrades'
<1>0. /\ "cleanup" \in Kinds /\ "migrate" \in Kinds /\ "decommission" \in Kinds
      /\ queue \in [Kinds -> Seq(Job)] /\ worker \in [Kinds -> Worker] /\ admin \in [Admins -> Call]
  BY DEF TypeInv, QueuesOk, WorkersOk, CallsOk, Kinds
<1>1. ASSUME admin' = admin, queue'["decommission"] = queue["decommission"],
             worker'["decommission"] = worker["decommission"]
      PROVE  NoDowngrades'
  BY <1>1 DEF NoDowngrades
<1>2. ASSUME NEW a \in Admins, NEW t \in Tenants, NEW plan \in Plans \cup {None}, NEW st \in StatusInputs \cup {None},
             ReadTier(a, t, plan, st)
      PROVE  NoDowngrades'
  <2>1. PICK n : n = [NoCall EXCEPT !.pc = "read", !.tenant = t, !.plan = plan, !.status = st, !.tier = row[t].tier]
    OBVIOUS
  <2>2. n.plan = plan /\ plan \in {Vip, None}
    BY <2>1 DEF NoCall, UpgradesOnly
  <2>3. admin' = [admin EXCEPT ![a] = n] /\ UNCHANGED jobVars
    BY <1>2, <2>1 DEF ReadTier
  <2>. QED  BY <1>0, <2>2, <2>3 DEF NoDowngrades, jobVars
<1>3. ASSUME NEW a \in Admins, CommitUpdate(a)
      PROVE  NoDowngrades'
  <2>1. PICK c : c = [admin[a] EXCEPT !.pc = "committed", !.slug = SlugOf(admin[a].tenant)]
    OBVIOUS
  <2>2. c.plan = admin[a].plan /\ NoCall.plan = None
    BY <1>0, <2>1 DEF Call, NoCall
  <2>3. (admin' = [admin EXCEPT ![a] = c] \/ admin' = [admin EXCEPT ![a] = NoCall]) /\ UNCHANGED jobVars
    BY <1>3, <2>1, Zenon DEF CommitUpdate
  <2>. QED  BY <1>0, <2>2, <2>3 DEF NoDowngrades, jobVars
<1>4. ASSUME NEW a \in Admins, Enqueue(a)
      PROVE  NoDowngrades'
  <2>1. CallOk(admin[a]) /\ admin[a].pc = "committed" /\ admin[a].plan \in {Vip, None}
    BY <1>4 DEF Enqueue, NoDowngrades, TypeInv, CallsOk
  <2>2. IsVipUpgrade(admin[a])
    BY <2>1 DEF CallOk, IsVipMove, IsVipUpgrade, IsVipDowngrade
  <2>3. PICK j : queue' = [queue EXCEPT !["migrate"] = Append(@, j)]
    BY <1>4, <2>2 DEF Enqueue
  <2>4. admin' = [admin EXCEPT ![a] = NoCall] /\ worker' = worker /\ NoCall.plan = None
    BY <1>4 DEF Enqueue, NoCall
  <2>. QED  BY <1>0, <2>3, <2>4 DEF NoDowngrades
<1>5. ASSUME NEW a \in Admins, EnqueueFails(a)
      PROVE  NoDowngrades'
  BY <1>0, <1>5 DEF EnqueueFails, NoDowngrades, NoCall, jobVars
<1>6. CASE Crash
  <2>1. queue'["decommission"] = queue["decommission"]
    BY <1>0, <1>6, CrashQueue DEF NoDowngrades
  <2>. QED  BY <1>0, <1>6, <2>1 DEF Crash, NoDowngrades, NoCall, IdleWorker
<1>7. CASE (\E t \in Tenants, plan \in CreatePlans, s \in Slugs : Create(t, plan, s)) \/ (\E t \in Tenants : Offboard(t))
           \/ RequestNext \/ UNCHANGED vars
  BY <1>1, <1>7 DEF Create, Offboard, RequestNext, Admit, Write, vars, jobVars
<1>8. CASE MigrationNext \/ CleanupNext
  <2>1. admin' = admin
    BY <1>8 DEF MigrationNext, CleanupNext, Take, Gate, CreateDatabase, CopyAndVerify, CommitMigration, ScheduleCleanup,
                MigrationStepFails, TransactionFails, Rollback, DropAfterRollback, RollbackFails, DeleteSharedRows
  <2>2. \E k \in {"migrate", "cleanup"} : \/ \E q : queue' = [queue EXCEPT ![k] = q]
                                          \/ queue' = queue
    BY <1>8 DEF MigrationNext, CleanupNext, Take, Gate, CreateDatabase, CopyAndVerify, CommitMigration, ScheduleCleanup,
                MigrationStepFails, TransactionFails, Rollback, DropAfterRollback, RollbackFails, DeleteSharedRows
  <2>3. worker'["decommission"] = worker["decommission"]
    BY <1>0, <1>8 DEF MigrationNext, CleanupNext, Take, Gate, CreateDatabase, CopyAndVerify, CommitMigration,
                ScheduleCleanup, MigrationStepFails, TransactionFails, Rollback, DropAfterRollback, RollbackFails,
                DeleteSharedRows, Goto, Finish
  <2>4. queue'["decommission"] = queue["decommission"]
    BY <1>0, <2>2
  <2>. QED  BY <1>1, <2>1, <2>3, <2>4
<1>9. CASE DecommissionNext
  BY <1>9 DEF DecommissionNext, Take, CopyBack, VerifyBack, UpdateTenant, MarkDecommissioned, DropDedicated,
              DecommissionStepFails, Running, NoDowngrades
<1>. QED  BY <1>2, <1>3, <1>4, <1>5, <1>6, <1>7, <1>8, <1>9 DEF Next, AdminNext, CallNext

LEMMA NoDowngradesAlways == ASSUME UpgradesOnly PROVE Spec => []NoDowngrades
<1>1. Init => NoDowngrades
  BY DEF Init, NoDowngrades, NoCall, IdleWorker, Kinds
<1>. QED  BY <1>1, NoDowngradesStep, TypeInvAlways, PTL DEF Spec

\* What a step may do to a tenant's row, when nothing is decommissioned.
Written(t) ==
    \/ row'[t] = row[t]
    \/ ~Exists(t) /\ row'[t].db = None
    \/ /\ Exists(t) /\ row'[t].db = row[t].db
       /\ \/ row'[t].status \notin Served \/ row'[t].status = row[t].status
          \/ \E a \in Admins : admin[a].status # None /\ row'[t].status = admin[a].status
          \/ Rollback
    \/ CommitMigration /\ t = MTenant /\ row'[t].db = MJob.slug

LEMMA RowWritten ==
    ASSUME TypeInv, NoDowngrades, [Next]_vars, NEW t \in Tenants
    PROVE  Written(t)
<1>0. row \in [Tenants -> Row \cup {None}] /\ "migrate" \in Kinds
  BY DEF TypeInv, RowsOk, Kinds
<1>1. ASSUME worker["migrate"].pc # "idle"
      PROVE  MTenant \in Tenants /\ row[MTenant] \in Row /\ row[MTenant] # None
  BY <1>0, <1>1, WorkersJob, NoneIsNoRow DEF TypeInv, MTenant, MJob
<1>2. ASSUME NEW u \in Tenants, NEW plan \in CreatePlans, NEW s \in Slugs, Create(u, plan, s)
      PROVE  Written(t)
  BY <1>0, <1>2 DEF Create, Written
<1>3. ASSUME NEW u \in Tenants, Offboard(u)
      PROVE  Written(t)
  <2>1. row[u] \in Row /\ Exists(u)
    BY <1>0, <1>3 DEF Offboard, Exists
  <2>2. row'[t] = IF t = u THEN [row[u] EXCEPT !.status = "offboarded", !.isActive = FALSE, !.slug = None] ELSE row[t]
    BY <1>0, <1>3 DEF Offboard
  <2>. QED  BY <2>1, <2>2 DEF Written, Row, Served
<1>4. ASSUME NEW a \in Admins, CommitUpdate(a)
      PROVE  Written(t)
  <2>1. PICK n \in Row : /\ row' = [row EXCEPT ![admin[a].tenant] = n]
                         /\ n.db = row[admin[a].tenant].db
                         /\ n.status = IF IsVipMove(admin[a]) THEN "migrating"
                               ELSE IF admin[a].status # None THEN admin[a].status ELSE row[admin[a].tenant].status
    BY <1>4, Commit
  <2>2. Exists(admin[a].tenant)
    BY <1>4 DEF TypeInv, CallsOk, CallOk, CommitUpdate
  <2>3. CASE t = admin[a].tenant
    BY <1>0, <2>1, <2>2, <2>3 DEF Written, Served
  <2>4. CASE t # admin[a].tenant
    BY <1>0, <2>1, <2>4 DEF Written
  <2>. QED  BY <2>3, <2>4
<1>5. CASE Gate
  <2>1. row'[t] = IF t = MTenant THEN [row[MTenant] EXCEPT !.status = "migrating"] ELSE row[t]
    BY <1>0, <1>5 DEF Gate
  <2>. QED  BY <1>1, <1>5, <2>1 DEF Written, Row, Served, Gate, Running, Exists
<1>6. CASE Rollback
  <2>0. PICK n : n = [row[MTenant] EXCEPT !.status = "active", !.tier = MJob.tier]
    OBVIOUS
  <2>1. row'[t] = IF t = MTenant THEN n ELSE row[t]
    BY <1>0, <1>6, <2>0 DEF Rollback
  <2>2. CASE t = MTenant
    <3>0. worker["migrate"].pc # "idle"
      BY <1>6 DEF Rollback, Running
    <3>1. row'[t].db = row[t].db /\ Exists(t)
      BY <1>1, <2>0, <2>1, <2>2, <3>0 DEF Row, Exists
    <3>. QED  BY <1>6, <3>1 DEF Written
  <2>3. CASE t # MTenant
    BY <2>1, <2>3 DEF Written
  <2>. QED  BY <2>2, <2>3
<1>7. CASE CommitMigration
  <2>0. PICK n : n = [row[MTenant] EXCEPT !.db = MJob.slug, !.status = "active"]
    OBVIOUS
  <2>1. row'[t] = IF t = MTenant THEN n ELSE row[t]
    BY <1>0, <1>7, <2>0 DEF CommitMigration
  <2>2. CASE t = MTenant
    <3>0. worker["migrate"].pc # "idle"
      BY <1>7 DEF CommitMigration, Running
    <3>1. row'[t].db = MJob.slug
      BY <1>1, <2>0, <2>1, <2>2, <3>0 DEF Row
    <3>. QED  BY <1>7, <2>2, <3>1 DEF Written
  <2>3. CASE t # MTenant
    BY <2>1, <2>3 DEF Written
  <2>. QED  BY <2>2, <2>3
<1>8. CASE DecommissionNext
  BY <1>8 DEF DecommissionNext, Take, CopyBack, VerifyBack, UpdateTenant, MarkDecommissioned, DropDedicated,
              DecommissionStepFails, Running, NoDowngrades
<1>9. ASSUME row' # row
      PROVE  \/ \E u \in Tenants, plan \in CreatePlans, s \in Slugs : Create(u, plan, s)
             \/ \E u \in Tenants : Offboard(u)
             \/ \E a \in Admins : CommitUpdate(a)
             \/ Gate \/ Rollback \/ CommitMigration \/ DecommissionNext
  BY <1>9 DEF Next, vars, tenantVars, AdminNext, ReadTier, CallNext, Enqueue, EnqueueFails, RequestNext, Admit, Write,
              MigrationNext, Take, CreateDatabase, CopyAndVerify, ScheduleCleanup, MigrationStepFails, TransactionFails,
              DropAfterRollback, RollbackFails, CleanupNext, DeleteSharedRows, Crash
<1>. QED  BY <1>2, <1>3, <1>4, <1>5, <1>6, <1>7, <1>8, <1>9 DEF Written

\* When plans change to VIP only, a row that names a database has an open entry
\* of the registry, for any failures, crashes and racing administrators.
THEOREM RegistryCovers == ASSUME UpgradesOnly PROVE Spec => []RegistryCoversRow
<1>1. Init => RegistryCoversRow
  BY DEF Init, RegistryCoversRow, Exists
<1>2. ASSUME TypeInv, NoDowngrades, RegistryCoversRow, [Next]_vars
      PROVE  RegistryCoversRow'
  <2>1. registry \subseteq registry'
    <3>1. CASE CommitMigration
      BY <3>1 DEF CommitMigration
    <3>2. CASE ~CommitMigration
      BY <1>2, <3>2 DEF Next, vars, dedicatedVars, tenantVars, jobVars, AdminNext, Create, ReadTier, Offboard, CallNext,
              CommitUpdate, Enqueue, EnqueueFails, RequestNext, Admit, Write, MigrationNext, Take, Gate, CreateDatabase,
              CopyAndVerify, ScheduleCleanup, MigrationStepFails, TransactionFails, Rollback, DropAfterRollback,
              RollbackFails, DecommissionNext, CopyBack, VerifyBack, UpdateTenant, MarkDecommissioned, DropDedicated,
              DecommissionStepFails, CleanupNext, DeleteSharedRows, Crash, Running, NoDowngrades
    <3>. QED  BY <3>1, <3>2
  <2>. SUFFICES ASSUME NEW t \in Tenants, row'[t] # None, row'[t].db # None
                PROVE  [tenant |-> t, db |-> row'[t].db, active |-> TRUE] \in registry'
    BY DEF RegistryCoversRow, Exists
  <2>2. CASE CommitMigration /\ t = MTenant /\ row'[t].db = MJob.slug
    <3>1. [tenant |-> MTenant, db |-> MJob.slug, active |-> TRUE] \in registry'
      BY <2>2 DEF CommitMigration
    <3>. QED  BY <2>2, <3>1
  <2>3. CASE Exists(t) /\ row'[t].db = row[t].db
    BY <1>2, <2>1, <2>3 DEF RegistryCoversRow
  <2>4. Written(t)
    BY <1>2, RowWritten
  <2>. QED  BY <2>2, <2>3, <2>4 DEF Written, Exists
<1>. QED  BY <1>1, <1>2, TypeInvAlways, NoDowngradesAlways, PTL DEF Spec

-----------------------------------------------------------------------------
(* The gate of a migration.                                                *)

NoReopening == StatusInputs \cap Served = {}
StatusesAsked == \A a \in Admins : admin[a].status \in StatusInputs \cup {None}

LEMMA StatusesStep ==
    ASSUME TypeInv, StatusesAsked, [Next]_vars
    PROVE  StatusesAsked'
<1>0. admin \in [Admins -> Call]
  BY DEF TypeInv, CallsOk
<1>1. CASE admin' = admin
  BY <1>1 DEF StatusesAsked
<1>2. ASSUME NEW a \in Admins, NEW t \in Tenants, NEW plan \in Plans \cup {None}, NEW st \in StatusInputs \cup {None},
             ReadTier(a, t, plan, st)
      PROVE  StatusesAsked'
  <2>1. PICK n : n = [NoCall EXCEPT !.pc = "read", !.tenant = t, !.plan = plan, !.status = st, !.tier = row[t].tier]
    OBVIOUS
  <2>2. n.status = st
    BY <2>1 DEF NoCall
  <2>3. admin' = [admin EXCEPT ![a] = n]
    BY <1>2, <2>1 DEF ReadTier
  <2>. QED  BY <1>0, <2>2, <2>3 DEF StatusesAsked
<1>3. ASSUME NEW a \in Admins, CallNext(a)
      PROVE  StatusesAsked'
  <2>1. PICK c : c = [admin[a] EXCEPT !.pc = "committed", !.slug = SlugOf(admin[a].tenant)]
    OBVIOUS
  <2>2. c.status = admin[a].status /\ NoCall.status = None
    BY <1>0, <2>1 DEF Call, NoCall
  <2>3. admin' = [admin EXCEPT ![a] = c] \/ admin' = [admin EXCEPT ![a] = NoCall]
    BY <1>3, <2>1, Zenon DEF CallNext, CommitUpdate, Enqueue, EnqueueFails
  <2>. QED  BY <1>0, <2>2, <2>3 DEF StatusesAsked
<1>4. CASE Crash
  BY <1>4 DEF Crash, StatusesAsked, NoCall
<1>5. ASSUME ~Crash, ~(\E a \in Admins : CallNext(a)),
             ~\E a \in Admins, t \in Tenants, plan \in Plans \cup {None}, st \in StatusInputs \cup {None} :
                 ReadTier(a, t, plan, st)
      PROVE  admin' = admin
  BY <1>5 DEF Next, vars, dedicatedVars, tenantVars, jobVars, AdminNext, Create, Offboard, RequestNext, Admit, Write,
              MigrationNext, Take, Gate, CreateDatabase, CopyAndVerify, CommitMigration, ScheduleCleanup,
              MigrationStepFails, TransactionFails, Rollback, DropAfterRollback, RollbackFails, DecommissionNext,
              CopyBack, VerifyBack, UpdateTenant, MarkDecommissioned, DropDedicated, DecommissionStepFails,
              CleanupNext, DeleteSharedRows
<1>. QED  BY <1>1, <1>2, <1>3, <1>4, <1>5

LEMMA StatusesAlways == Spec => []StatusesAsked
<1>1. Init => StatusesAsked
  BY DEF Init, StatusesAsked, NoCall
<1>. QED  BY <1>1, StatusesStep, TypeInvAlways, PTL DEF Spec

\* Where a step may take the worker of migrations.
Moved ==
    \/ worker'["migrate"] = worker["migrate"] /\ ~MigrationNext
    \/ worker'["migrate"].pc = "idle" /\ ~worker'["migrate"].created
    \/ worker'["migrate"].pc = "gate" /\ ~worker'["migrate"].created
    \/ worker'["migrate"].job = worker["migrate"].job /\ MigrationNext /\ ~Take("migrate")

\* A step of the worker that keeps its job, by its action.
LEMMA WorkerMoved ==
    ASSUME TypeInv, [Next]_vars
    PROVE  Moved
<1>0. worker \in [Kinds -> Worker] /\ "migrate" \in Kinds /\ "cleanup" \in Kinds /\ "decommission" \in Kinds
  BY DEF TypeInv, WorkersOk, Kinds
<1>1. CASE Crash
  BY <1>0, <1>1 DEF Crash, IdleWorker, Moved
<1>2. CASE Take("migrate")
  BY <1>0, <1>2 DEF Take, FirstStep, Moved
<1>3. CASE MigrationNext /\ ~Take("migrate")
  <2>1. \/ Finish("migrate")
        \/ \E s \in Steps : Goto("migrate", s)
        \/ worker' = [worker EXCEPT !["migrate"].pc = "copy", !["migrate"].created = TRUE]
    BY <1>3 DEF MigrationNext, Gate, CreateDatabase, CopyAndVerify, CommitMigration, ScheduleCleanup,
                MigrationStepFails, TransactionFails, Rollback, DropAfterRollback, RollbackFails, Steps
  <2>2. Finish("migrate") => worker'["migrate"].pc = "idle" /\ ~worker'["migrate"].created
    BY <1>0 DEF Finish, IdleWorker
  <2>3. ~Finish("migrate") => worker'["migrate"].job = worker["migrate"].job
    BY <1>0, <2>1 DEF Goto, Worker
  <2>. QED  BY <1>3, <2>2, <2>3 DEF Moved
<1>4. CASE ~MigrationNext /\ ~Crash
  <2>1. worker'["migrate"] = worker["migrate"]
    BY <1>0, <1>4 DEF Next, vars, jobVars, AdminNext, Create, ReadTier, Offboard, CallNext, CommitUpdate, Enqueue,
         EnqueueFails, RequestNext, Admit, Write, DecommissionNext, Take, CopyBack, VerifyBack, UpdateTenant,
         MarkDecommissioned, DropDedicated, DecommissionStepFails, CleanupNext, DeleteSharedRows, Goto, Finish, Retry
  <2>. QED  BY <1>4, <2>1 DEF Moved
<1>. QED  BY <1>1, <1>2, <1>3, <1>4

Blocking == {"create", "copy", "verify", "commit"}

\* From step 0 of a migration to its commit no request of the tenant is let
\* through, when plans change to VIP only and no administrator asks for a status
\* that is served.
THEOREM GateStaysClosed == ASSUME UpgradesOnly, NoReopening PROVE Spec => []GatewayBlocksDuringMigration
<1>. DEFINE w == worker["migrate"]
<1>1. Init => GatewayBlocksDuringMigration
  BY DEF Init, GatewayBlocksDuringMigration, IdleWorker, Kinds
<1>2. ASSUME TypeInv, NoDowngrades, StatusesAsked, GatewayBlocksDuringMigration, [Next]_vars
      PROVE  GatewayBlocksDuringMigration'
  <2>0. worker \in [Kinds -> Worker] /\ "migrate" \in Kinds /\ row \in [Tenants -> Row \cup {None}]
    BY <1>2 DEF TypeInv, WorkersOk, RowsOk, Kinds
  <2>. SUFFICES ASSUME worker'["migrate"].pc \in Blocking
                PROVE  row'[MTenant'].status \notin Served
    BY DEF GatewayBlocksDuringMigration, Blocking
  <2>1. worker'["migrate"].job = w.job /\ ~Take("migrate")
    BY <1>2, WorkerMoved DEF Moved, Blocking, MigrationNext
  <2>2. MTenant' = MTenant
    BY <2>1 DEF MTenant, MJob
  <2>3. CASE Gate
    <3>1. w.pc # "idle"
      BY <2>3 DEF Gate, Running
    <3>2. MTenant \in Tenants /\ row[MTenant] \in Row
      BY <1>2, <2>0, <3>1, WorkersJob DEF TypeInv, MTenant, MJob
    <3>3. row'[MTenant].status = "migrating"
      BY <2>0, <2>3, <3>2 DEF Gate, Row
    <3>. QED  BY <2>2, <3>3 DEF Served
  <2>4. CASE ~Gate
    <3>1. w.pc \in Blocking
      <4>1. CASE w' = w
        BY <4>1
      <4>2. CASE MigrationNext
        <5>1. worker'["migrate"].pc \in Blocking => CreateDatabase \/ CopyAndVerify
          BY <2>0, <2>1, <2>4, <4>2 DEF MigrationNext, CommitMigration, ScheduleCleanup, MigrationStepFails,
               TransactionFails, Rollback, DropAfterRollback, RollbackFails, Blocking, Goto, Finish, IdleWorker, Worker
        <5>. QED  BY <5>1 DEF CreateDatabase, CopyAndVerify, Running, Blocking
      <4>. QED  BY <1>2, <4>1, <4>2, WorkerMoved DEF Moved, Blocking
    <3>2. row[MTenant].status \notin Served /\ MTenant \in Tenants /\ row[MTenant] # None
      BY <1>2, <2>0, <3>1, WorkersJob, NoneIsNoRow DEF TypeInv, MTenant, MJob, GatewayBlocksDuringMigration, Blocking
    <3>3. ~Rollback /\ ~CommitMigration
      BY <2>0, <3>1 DEF Rollback, CommitMigration, Running, Goto, Finish, IdleWorker, Worker, Blocking
    <3>4. Written(MTenant)
      BY <1>2, <3>2, RowWritten
    <3>5. row'[MTenant].status \notin Served
      BY <1>2, <3>2, <3>3, <3>4 DEF Written, StatusesAsked, NoReopening, Exists
    <3>. QED  BY <2>2, <3>5
  <2>. QED  BY <2>3, <2>4
<1>. QED  BY <1>1, <1>2, TypeInvAlways, NoDowngradesAlways, StatusesAlways, PTL DEF Spec

-----------------------------------------------------------------------------
(* The database of a row.                                                  *)

Unnamed(s) == \A t \in Tenants : Exists(t) => row[t].db # s

\* Only a worker that made its database drops one, and nobody's row names it then.
MadeHere ==
    /\ worker["migrate"].pc \in {"idle", "gate", "create"} => ~worker["migrate"].created
    /\ worker["migrate"].pc \in {"copy", "verify", "commit"} => worker["migrate"].created /\ MJob.slug \in databases
    /\ worker["migrate"].pc = "drop" => worker["migrate"].created
    /\ worker["migrate"].pc \in {"copy", "verify", "commit", "rollback", "drop"} /\ worker["migrate"].created
          => Unnamed(MJob.slug)

LEMMA StaysUnnamed ==
    ASSUME TypeInv, NoDowngrades, [Next]_vars, ~CommitMigration, NEW s \in DbNames, Unnamed(s)
    PROVE  Unnamed(s)'
<1>. SUFFICES ASSUME NEW t \in Tenants, row'[t] # None PROVE row'[t].db # s
  BY DEF Unnamed, Exists
<1>1. Written(t)
  BY RowWritten
<1>. QED  BY <1>1, LifecycleConstants DEF Written, Unnamed, Exists

\* A step that drops no database and does not commit keeps the rows' databases.
LEMMA StillThere ==
    ASSUME TypeInv, NoDowngrades, DatabaseOfRowExists, [Next]_vars, ~CommitMigration, databases \subseteq databases'
    PROVE  DatabaseOfRowExists'
<1>. SUFFICES ASSUME NEW t \in Tenants, row'[t] # None, row'[t].db # None PROVE row'[t].db \in databases'
  BY DEF DatabaseOfRowExists, Exists
<1>1. Written(t)
  BY RowWritten
<1>. QED  BY <1>1 DEF Written, DatabaseOfRowExists, Exists

LEMMA DatabaseStep ==
    ASSUME UpgradesOnly, "enqueue" \notin Faults, TypeInv, NoDowngrades, DatabaseOfRowExists, MadeHere, [Next]_vars
    PROVE  DatabaseOfRowExists' /\ MadeHere'
<1>. DEFINE w == worker["migrate"]
<1>0. /\ worker \in [Kinds -> Worker] /\ "migrate" \in Kinds /\ w \in Worker
      /\ row \in [Tenants -> Row \cup {None}]
  BY DEF TypeInv, WorkersOk, RowsOk, Kinds
<1>1. ASSUME w.pc # "idle"
      PROVE  MTenant \in Tenants /\ MJob.slug \in DbNames /\ row[MTenant] \in Row
  BY <1>0, <1>1, WorkersJob DEF TypeInv, MTenant, MJob
<1>2. ASSUME worker'["migrate"] = w, databases' = databases, ~CommitMigration
      PROVE  DatabaseOfRowExists' /\ MadeHere'
  <2>1. MJob' = MJob
    BY <1>2 DEF MJob
  <2>2. w.pc # "idle" /\ Unnamed(MJob.slug) => \A t \in Tenants : row'[t] # None => row'[t].db # MJob.slug
    BY <1>1, <1>2, StaysUnnamed DEF Unnamed, Exists
  <2>3. MadeHere'
    BY <1>2, <2>1, <2>2 DEF MadeHere, Unnamed, Exists
  <2>. QED  BY <1>2, <2>3, StillThere
<1>3. ASSUME worker'["migrate"].pc \in {"idle", "gate", "create"}, ~worker'["migrate"].created,
             databases' = databases, ~CommitMigration
      PROVE  DatabaseOfRowExists' /\ MadeHere'
  <2>1. MadeHere'
    BY <1>3 DEF MadeHere
  <2>. QED  BY <1>3, <2>1, StillThere
<1>4. CASE Take("migrate")
  BY <1>0, <1>3, <1>4 DEF Take, FirstStep, dedicatedVars, CommitMigration, Running
<1>5. CASE Gate
  <2>1. w.pc = "gate" /\ Goto("migrate", "create") /\ databases' = databases /\ ~CommitMigration
    BY <1>5 DEF Gate, Running, dedicatedVars, CommitMigration
  <2>. QED  BY <1>0, <1>3, <2>1 DEF Goto, Worker, MadeHere
<1>6. CASE CreateDatabase
  <2>1. w.pc = "create" /\ ~w.created /\ ~CommitMigration /\ row' = row
    BY <1>6 DEF CreateDatabase, Running, MadeHere, CommitMigration, tenantVars
  <2>2. CASE MJob.slug \in databases
    <3>1. Goto("migrate", "rollback") /\ databases' = databases
      BY <1>6, <2>2, Zenon DEF CreateDatabase
    <3>2. worker'["migrate"].pc = "rollback" /\ ~worker'["migrate"].created
      BY <1>0, <2>1, <3>1 DEF Goto, Worker
    <3>. QED  BY <2>1, <3>1, <3>2, StillThere DEF MadeHere
  <2>3. CASE MJob.slug \notin databases
    <3>1. /\ databases' = databases \cup {MJob.slug}
          /\ worker' = [worker EXCEPT !["migrate"].pc = "copy", !["migrate"].created = TRUE]
      BY <1>6, <2>3, Zenon DEF CreateDatabase
    <3>2. worker'["migrate"].pc = "copy" /\ worker'["migrate"].created /\ worker'["migrate"].job = w.job
      BY <1>0, <3>1 DEF Worker
    <3>3. Unnamed(MJob.slug)
      BY <1>1, <2>1, <2>3, LifecycleConstants DEF Unnamed, DatabaseOfRowExists
    <3>4. MJob' = MJob
      BY <3>2 DEF MJob
    <3>5. MadeHere'
      BY <2>1, <3>1, <3>2, <3>3, <3>4 DEF MadeHere, Unnamed, Exists
    <3>. QED  BY <2>1, <3>1, <3>5, StillThere
  <2>. QED  BY <2>2, <2>3
\* The steps between the creation of the database and the commit.
<1>7. CASE CopyAndVerify \/ MigrationStepFails
  <2>1. /\ UNCHANGED <<row, databases>> /\ ~CommitMigration
        /\ w.pc \in {"gate", "create", "copy", "verify"}
        /\ \E s \in {"verify", "commit", "rollback"} : /\ Goto("migrate", s)
                                                       /\ s # "rollback" => w.pc \in {"copy", "verify"}
    BY <1>7 DEF CopyAndVerify, MigrationStepFails, Running, tenantVars, dedicatedVars, CommitMigration
  <2>2. /\ worker'["migrate"].created = w.created /\ worker'["migrate"].job = w.job
        /\ worker'["migrate"].pc \in {"verify", "commit", "rollback"}
        /\ worker'["migrate"].pc # "rollback" => w.pc \in {"copy", "verify"}
    BY <1>0, <2>1 DEF Goto, Worker
  <2>3. MJob' = MJob
    BY <2>2 DEF MJob
  <2>4. MadeHere'
    BY <2>1, <2>2, <2>3 DEF MadeHere, Unnamed, Exists
  <2>. QED  BY <2>1, <2>4, StillThere
<1>8. CASE CommitMigration
  <2>1. w.pc = "commit" /\ databases' = databases /\ MJob.slug \in databases
    BY <1>8 DEF CommitMigration, Running, MadeHere
  <2>2. worker'["migrate"].pc = "schedule"
    BY <1>0, <1>8 DEF CommitMigration, Goto, Worker
  <2>3. DatabaseOfRowExists'
    <3>. SUFFICES ASSUME NEW t \in Tenants, row'[t] # None, row'[t].db # None PROVE row'[t].db \in databases'
      BY DEF DatabaseOfRowExists, Exists
    <3>1. Written(t)
      BY RowWritten
    <3>. QED  BY <2>1, <3>1 DEF Written, DatabaseOfRowExists, Exists
  <2>. QED  BY <2>2, <2>3 DEF MadeHere
<1>9. CASE ScheduleCleanup \/ TransactionFails
  <2>1. Finish("migrate") /\ databases' = databases /\ ~CommitMigration
    BY <1>0, <1>9 DEF ScheduleCleanup, TransactionFails, dedicatedVars, CommitMigration, Goto, Finish, IdleWorker, Worker
  <2>. QED  BY <1>0, <1>3, <2>1 DEF Finish, IdleWorker
<1>10. CASE Rollback \/ RollbackFails
  <2>1. w.pc \in {"rollback", "drop"} /\ databases' = databases /\ ~CommitMigration
    BY <1>10 DEF Rollback, RollbackFails, Running, dedicatedVars, CommitMigration
  <2>2. Finish("migrate") \/ (Goto("migrate", "drop") /\ w.created)
    BY <1>10, Zenon DEF Rollback, RollbackFails
  <2>3. CASE Finish("migrate")
    BY <1>0, <1>3, <2>1, <2>3 DEF Finish, IdleWorker
  <2>4. CASE Goto("migrate", "drop") /\ w.created
    <3>1. worker'["migrate"].pc = "drop" /\ worker'["migrate"].created /\ worker'["migrate"].job = w.job
      BY <1>0, <2>4 DEF Goto, Worker
    <3>2. MJob' = MJob
      BY <3>1 DEF MJob
    <3>3. \A t \in Tenants : row'[t] # None => row'[t].db # MJob.slug
      BY <1>1, <2>1, <2>4, StaysUnnamed DEF MadeHere, Unnamed, Exists
    <3>4. MadeHere'
      BY <3>1, <3>2, <3>3 DEF MadeHere, Unnamed, Exists
    <3>. QED  BY <2>1, <3>4, StillThere
  <2>. QED  BY <2>2, <2>3, <2>4
<1>11. CASE DropAfterRollback
  <2>1. w.pc = "drop" /\ Finish("migrate") /\ databases' = databases \ {MJob.slug} /\ row' = row
    BY <1>11 DEF DropAfterRollback, Running, tenantVars
  <2>2. Unnamed(MJob.slug)
    BY <2>1 DEF MadeHere
  <2>3. worker'["migrate"].pc = "idle" /\ ~worker'["migrate"].created
    BY <1>0, <2>1 DEF Finish, IdleWorker
  <2>4. DatabaseOfRowExists'
    BY <2>1, <2>2 DEF DatabaseOfRowExists, Unnamed, Exists
  <2>. QED  BY <2>3, <2>4 DEF MadeHere
<1>12. CASE Crash
  BY <1>0, <1>3, <1>12 DEF Crash, IdleWorker, dedicatedVars, CommitMigration, Goto, Worker
<1>13. CASE ~MigrationNext /\ ~Crash
  <2>1. databases' = databases /\ ~CommitMigration
    BY <1>13 DEF Next, vars, dedicatedVars, MigrationNext, AdminNext, Create, ReadTier, Offboard, CallNext,
              CommitUpdate, Enqueue, EnqueueFails, RequestNext, Admit, Write, DecommissionNext, Take, CopyBack,
              VerifyBack, UpdateTenant, MarkDecommissioned, DropDedicated, DecommissionStepFails, CleanupNext,
              DeleteSharedRows, Running, NoDowngrades
  <2>2. worker'["migrate"] = w \/ (worker'["migrate"].pc \in {"idle", "gate"} /\ ~worker'["migrate"].created)
    BY <1>13, WorkerMoved DEF Moved
  <2>. QED  BY <1>2, <1>3, <2>1, <2>2
<1>. QED  BY <1>4, <1>5, <1>6, <1>7, <1>8, <1>9, <1>10, <1>11, <1>12, <1>13 DEF MigrationNext

\* A row never names a database that does not exist, when plans change to VIP
\* only and the cleanup of a committed migration can be queued: two migrations
\* of a tenant, a failing one included, do not drop each other's database.
THEOREM DatabasesExist == ASSUME UpgradesOnly, "enqueue" \notin Faults PROVE Spec => []DatabaseOfRowExists
<1>1. Init => DatabaseOfRowExists /\ MadeHere
  BY DEF Init, DatabaseOfRowExists, MadeHere, Exists, IdleWorker, Kinds
<1>. QED  BY <1>1, DatabaseStep, TypeInvAlways, NoDowngradesAlways, PTL DEF Spec

-----------------------------------------------------------------------------
(* A gated tenant is never forgotten.                                      *)

\* Who still answers for a gated tenant: a call that committed the move and has
\* not queued its job, a job that waits, the worker until it commits or restores.
Holding == {"gate", "create", "copy", "verify", "commit", "rollback"}
CallHolds(t) == \E a \in Admins : admin[a].pc = "committed" /\ admin[a].tenant = t
QueueHolds(t) == \E i \in DOMAIN queue["migrate"] : queue["migrate"][i].tenant = t
WorkerHolds(t) == worker["migrate"].pc \in Holding /\ MTenant = t
InHand(t) == CallHolds(t) \/ QueueHolds(t) \/ WorkerHolds(t)
MigratingInHand == \A t \in Tenants : Migrating(t) => InHand(t)

OnlyStepsFail == Faults \subseteq {"step"}
NobodyAsksMigrating == "migrating" \notin StatusInputs

\* A tenant is gated by a call that goes on to queue a job, or by step 0.
LEMMA NewlyGated ==
    ASSUME NobodyAsksMigrating, TypeInv, NoDowngrades, StatusesAsked, [Next]_vars,
           NEW t \in Tenants, ~Migrating(t), Migrating(t)'
    PROVE  InHand(t)'
<1>0. /\ row \in [Tenants -> Row \cup {None}] /\ "migrate" \in Kinds /\ admin \in [Admins -> Call]
      /\ worker \in [Kinds -> Worker]
  BY DEF TypeInv, RowsOk, CallsOk, WorkersOk, Kinds
<1>1. row'[t] # None /\ row'[t].status = "migrating" /\ row'[t] # row[t]
  BY DEF Migrating, Exists
<1>2. ASSUME worker["migrate"].pc # "idle"
      PROVE  MTenant \in Tenants /\ row[MTenant] \in Row
  BY <1>0, <1>2, WorkersJob DEF TypeInv, MTenant, MJob
<1>3. ASSUME NEW u \in Tenants, NEW plan \in CreatePlans, NEW s \in Slugs, Create(u, plan, s)
      PROVE  FALSE
  BY <1>0, <1>1, <1>3 DEF Create
<1>4. ASSUME NEW u \in Tenants, Offboard(u)
      PROVE  FALSE
  <2>1. PICK n : n = [row[u] EXCEPT !.status = "offboarded", !.isActive = FALSE, !.slug = None]
    OBVIOUS
  <2>2. row[u] \in Row
    BY <1>0, <1>4 DEF Offboard, Exists
  <2>3. n.status = "offboarded"
    BY <2>1, <2>2 DEF Row
  <2>4. row' = [row EXCEPT ![u] = n]
    BY <1>0, <1>4, <2>1, <2>2 DEF Offboard
  <2>. QED  BY <1>0, <1>1, <2>3, <2>4
<1>5. ASSUME NEW a \in Admins, CommitUpdate(a)
      PROVE  CallHolds(t)'
  <2>. DEFINE c == admin[a]
  <2>1. PICK n \in Row :
              /\ row' = [row EXCEPT ![c.tenant] = n]
              /\ n.status = IF IsVipMove(c) THEN "migrating"
                            ELSE IF c.status # None THEN c.status ELSE row[c.tenant].status
    BY <1>5, Commit
  <2>2. t = c.tenant /\ n.status = "migrating" /\ Exists(t)
    BY <1>0, <1>1, <1>5, <2>1 DEF TypeInv, CallsOk, CallOk, CommitUpdate
  <2>3. row[t].status # "migrating"
    BY <2>2 DEF Migrating
  <2>4. c.status # "migrating"
    BY LifecycleConstants DEF StatusesAsked, NobodyAsksMigrating, Statuses
  <2>5. IsVipMove(c)
    BY <2>1, <2>2, <2>3, <2>4
  <2>6. PICK d : d = [c EXCEPT !.pc = "committed", !.slug = SlugOf(c.tenant)]
    OBVIOUS
  <2>7. d.pc = "committed" /\ d.tenant = c.tenant
    BY <1>0, <2>6 DEF Call
  <2>8. admin' = [admin EXCEPT ![a] = d]
    BY <1>5, <2>5, <2>6, Zenon DEF CommitUpdate
  <2>9. admin'[a].pc = "committed" /\ admin'[a].tenant = t
    BY <1>0, <2>2, <2>7, <2>8
  <2>. QED  BY <2>9 DEF CallHolds
<1>6. CASE Gate
  <2>1. worker["migrate"].pc = "gate" /\ Goto("migrate", "create")
    BY <1>6 DEF Gate, Running
  <2>2. worker'["migrate"].pc = "create" /\ worker'["migrate"].job = worker["migrate"].job
    BY <1>0, <2>1 DEF Goto, Worker
  <2>3. t = MTenant
    BY <1>0, <1>1, <1>2, <1>6, <2>1 DEF Gate
  <2>4. MTenant' = MTenant
    BY <2>2 DEF MTenant, MJob
  <2>. QED  BY <2>2, <2>3, <2>4 DEF InHand, WorkerHolds, Holding
<1>7. ASSUME Rollback \/ CommitMigration
      PROVE  row'[MTenant].status = "active" /\ \A u \in Tenants \ {MTenant} : row'[u] = row[u]
  <2>1. worker["migrate"].pc # "idle"
    BY <1>7 DEF Rollback, CommitMigration, Running
  <2>2. PICK m : m = [row[MTenant] EXCEPT !.status = "active", !.tier = MJob.tier]
    OBVIOUS
  <2>3. PICK n : n = [row[MTenant] EXCEPT !.db = MJob.slug, !.status = "active"]
    OBVIOUS
  <2>4. m.status = "active" /\ n.status = "active"
    BY <1>2, <2>1, <2>2, <2>3 DEF Row
  <2>5. row' = [row EXCEPT ![MTenant] = m] \/ row' = [row EXCEPT ![MTenant] = n]
    <3>1. CASE Rollback
      BY <1>0, <1>2, <2>1, <2>2, <3>1 DEF Rollback
    <3>2. CASE CommitMigration
      BY <1>0, <1>2, <2>1, <2>3, <3>2 DEF CommitMigration
    <3>. QED  BY <1>7, <3>1, <3>2
  <2>. QED  BY <1>0, <1>2, <2>1, <2>4, <2>5
<1>8. ~Rollback /\ ~CommitMigration
  BY <1>1, <1>7
<1>9. ~DecommissionNext
  BY <1>1 DEF DecommissionNext, Take, CopyBack, VerifyBack, UpdateTenant, MarkDecommissioned, DropDedicated,
              DecommissionStepFails, Running, NoDowngrades
<1>10. \/ \E u \in Tenants, plan \in CreatePlans, s \in Slugs : Create(u, plan, s)
       \/ \E u \in Tenants : Offboard(u)
       \/ \E a \in Admins : CommitUpdate(a)
       \/ Gate
  BY <1>1, <1>8, <1>9 DEF Next, vars, tenantVars, AdminNext, ReadTier, CallNext, Enqueue, EnqueueFails, RequestNext,
              Admit, Write, MigrationNext, Take, CreateDatabase, CopyAndVerify, ScheduleCleanup, MigrationStepFails,
              TransactionFails, DropAfterRollback, RollbackFails, CleanupNext, DeleteSharedRows, Crash
<1>. QED  BY <1>3, <1>4, <1>5, <1>6, <1>10 DEF InHand

\* A job that waits keeps its place unless the worker takes one.
LEMMA QueueStays ==
    ASSUME OnlyStepsFail, TypeInv, NoDowngrades, [Next]_vars, ~Take("migrate"), NEW i \in DOMAIN queue["migrate"]
    PROVE  i \in DOMAIN queue'["migrate"] /\ queue'["migrate"][i] = queue["migrate"][i]
<1>. DEFINE q == queue["migrate"]
<1>0. /\ "migrate" \in Kinds /\ "cleanup" \in Kinds /\ "decommission" \in Kinds
      /\ queue \in [Kinds -> Seq(Job)] /\ q \in Seq(Job) /\ i \in 1..Len(q)
  BY DEF TypeInv, QueuesOk, Kinds
<1>1. \/ queue' = queue
      \/ \E k \in Kinds \ {"migrate"} : \E s : queue' = [queue EXCEPT ![k] = s]
      \/ \E k \in Kinds : \E j : queue' = [queue EXCEPT ![k] = Append(@, j)]
  <2>1. ~Crash /\ ~DecommissionNext
    BY DEF OnlyStepsFail, Crash, DecommissionNext, Take, CopyBack, VerifyBack, UpdateTenant, MarkDecommissioned,
           DropDedicated, DecommissionStepFails, Running, NoDowngrades
  <2>2. CASE \E a \in Admins : Enqueue(a)
    BY <2>2 DEF Enqueue, Kinds
  <2>3. CASE ScheduleCleanup \/ CleanupNext
    BY <1>0, <2>3 DEF ScheduleCleanup, CleanupNext, Take, DeleteSharedRows
  <2>4. CASE ~ScheduleCleanup /\ ~CleanupNext /\ ~\E a \in Admins : Enqueue(a)
    BY <2>1, <2>4 DEF Next, vars, jobVars, AdminNext, Create, ReadTier, Offboard, CallNext, CommitUpdate, EnqueueFails,
         RequestNext, Admit, Write, MigrationNext, Gate, CreateDatabase, CopyAndVerify, CommitMigration,
         MigrationStepFails, TransactionFails, Rollback, DropAfterRollback, RollbackFails
  <2>. QED  BY <2>2, <2>3, <2>4
<1>2. ASSUME NEW k \in Kinds \ {"migrate"}, NEW s, queue' = [queue EXCEPT ![k] = s]
      PROVE  queue'["migrate"] = q
  BY <1>0, <1>2
<1>3. ASSUME NEW k \in Kinds, NEW j, queue' = [queue EXCEPT ![k] = Append(@, j)]
      PROVE  queue'["migrate"] = q \/ queue'["migrate"] = Append(q, j)
  BY <1>0, <1>3
<1>4. ASSUME NEW j, queue'["migrate"] = Append(q, j)
      PROVE  i \in DOMAIN queue'["migrate"] /\ queue'["migrate"][i] = q[i]
  BY <1>0, <1>4
<1>. QED  BY <1>0, <1>1, <1>2, <1>3, <1>4

\* A committed call stays until it has queued its job.
LEMMA CallGoesOn ==
    ASSUME OnlyStepsFail, TypeInv, NoDowngrades, [Next]_vars, NEW t \in Tenants, CallHolds(t)
    PROVE  InHand(t)'
<1>0. admin \in [Admins -> Call] /\ queue \in [Kinds -> Seq(Job)] /\ "migrate" \in Kinds
  BY DEF TypeInv, CallsOk, QueuesOk, Kinds
<1>1. PICK a \in Admins : admin[a].pc = "committed" /\ admin[a].tenant = t
  BY DEF CallHolds
<1>2. CASE Enqueue(a)
  <2>1. CallOk(admin[a]) /\ admin[a].plan \in {Vip, None}
    BY DEF NoDowngrades, TypeInv, CallsOk
  <2>2. IsVipUpgrade(admin[a])
    BY <1>1, <2>1 DEF CallOk, IsVipMove, IsVipUpgrade, IsVipDowngrade
  <2>3. PICK j : j.tenant = t /\ queue' = [queue EXCEPT !["migrate"] = Append(@, j)]
    BY <1>1, <1>2, <2>2 DEF Enqueue, NewJob
  <2>4. queue'["migrate"] = Append(queue["migrate"], j) /\ queue["migrate"] \in Seq(Job)
    BY <1>0, <2>3
  <2>5. Len(queue["migrate"]) + 1 \in DOMAIN queue'["migrate"] /\ queue'["migrate"][Len(queue["migrate"]) + 1] = j
    BY <2>4
  <2>. QED  BY <2>3, <2>5 DEF InHand, QueueHolds
<1>3. CASE ~Enqueue(a)
  <2>1. \/ admin' = admin
        \/ \E b \in Admins \ {a} : \E n : admin' = [admin EXCEPT ![b] = n]
    <3>1. ASSUME NEW b \in Admins, CallNext(b)
          PROVE  b # a /\ \E n : admin' = [admin EXCEPT ![b] = n]
      BY <1>1, <1>3, <3>1 DEF CallNext, CommitUpdate, Enqueue, EnqueueFails, OnlyStepsFail
    <3>2. ASSUME NEW b \in Admins, NEW u \in Tenants, NEW plan \in Plans \cup {None},
                 NEW st \in StatusInputs \cup {None}, ReadTier(b, u, plan, st)
          PROVE  b # a /\ \E n : admin' = [admin EXCEPT ![b] = n]
      BY <1>1, <3>2 DEF ReadTier
    <3>3. ASSUME ~Crash, ~(\E b \in Admins : CallNext(b)),
                 ~\E b \in Admins, u \in Tenants, plan \in Plans \cup {None}, st \in StatusInputs \cup {None} :
                     ReadTier(b, u, plan, st)
          PROVE  admin' = admin
      BY <3>3 DEF Next, vars, dedicatedVars, tenantVars, jobVars, AdminNext, Create, Offboard, RequestNext, Admit, Write,
           MigrationNext, Take, Gate, CreateDatabase, CopyAndVerify, CommitMigration, ScheduleCleanup,
           MigrationStepFails, TransactionFails, Rollback, DropAfterRollback, RollbackFails, DecommissionNext,
           CopyBack, VerifyBack, UpdateTenant, MarkDecommissioned, DropDedicated, DecommissionStepFails,
           CleanupNext, DeleteSharedRows
    <3>4. ~Crash
      BY DEF Crash, OnlyStepsFail
    <3>. QED  BY <3>1, <3>2, <3>3, <3>4
  <2>2. admin'[a] = admin[a]
    BY <1>0, <2>1
  <2>. QED  BY <1>1, <2>2 DEF InHand, CallHolds
<1>. QED  BY <1>2, <1>3

\* A job that waits is taken by the worker or goes on waiting.
LEMMA JobGoesOn ==
    ASSUME OnlyStepsFail, TypeInv, NoDowngrades, [Next]_vars, NEW t \in Tenants, QueueHolds(t)
    PROVE  InHand(t)'
<1>. DEFINE q == queue["migrate"]
<1>0. /\ "migrate" \in Kinds /\ queue \in [Kinds -> Seq(Job)] /\ q \in Seq(Job) /\ worker \in [Kinds -> Worker]
  BY DEF TypeInv, QueuesOk, WorkersOk, Kinds
<1>1. PICK i \in DOMAIN q : q[i].tenant = t
  BY DEF QueueHolds
<1>2. CASE ~Take("migrate")
  BY <1>1, <1>2, QueueStays DEF InHand, QueueHolds
<1>3. CASE Take("migrate")
  <2>1. queue'["migrate"] = Tail(q)
    BY <1>0, <1>3 DEF Take
  <2>2. CASE i = 1
    <3>1. worker'["migrate"].pc = "gate" /\ worker'["migrate"].job = q[1]
      BY <1>0, <1>3, <2>2 DEF Take, FirstStep
    <3>2. MTenant' = t
      BY <1>1, <2>2, <3>1 DEF MTenant, MJob
    <3>. QED  BY <3>1, <3>2 DEF InHand, WorkerHolds, Holding
  <2>3. CASE i # 1
    <3>1. i - 1 \in DOMAIN queue'["migrate"] /\ queue'["migrate"][i - 1] = q[i]
      BY <1>0, <1>1, <2>1, <2>3
    <3>. QED  BY <1>1, <3>1 DEF InHand, QueueHolds
  <2>. QED  BY <2>2, <2>3
<1>. QED  BY <1>2, <1>3

\* A job under way goes on, commits or restores the row.
LEMMA WorkGoesOn ==
    ASSUME OnlyStepsFail, TypeInv, [Next]_vars, NEW t \in Tenants, WorkerHolds(t)
    PROVE  WorkerHolds(t)' \/ row'[t].status = "active"
<1>. DEFINE w == worker["migrate"]
<1>0. /\ "migrate" \in Kinds /\ worker \in [Kinds -> Worker] /\ w \in Worker
      /\ row \in [Tenants -> Row \cup {None}] /\ w.pc # "idle" /\ w.pc \in Holding
  BY DEF TypeInv, WorkersOk, RowsOk, Kinds, WorkerHolds, Holding
<1>1. MTenant = t /\ row[t] \in Row
  BY <1>0, WorkersJob DEF TypeInv, WorkerHolds, MTenant, MJob
<1>2. CASE Rollback
  <2>1. PICK n : n = [row[t] EXCEPT !.status = "active", !.tier = MJob.tier]
    OBVIOUS
  <2>2. n.status = "active" /\ row' = [row EXCEPT ![t] = n]
    BY <1>0, <1>1, <1>2, <2>1 DEF Rollback, Row
  <2>. QED  BY <1>0, <2>2
<1>3. CASE CommitMigration
  <2>1. PICK n : n = [row[t] EXCEPT !.db = MJob.slug, !.status = "active"]
    OBVIOUS
  <2>2. n.status = "active" /\ row' = [row EXCEPT ![t] = n]
    BY <1>0, <1>1, <1>3, <2>1 DEF CommitMigration, Row
  <2>. QED  BY <1>0, <2>2
<1>4. ASSUME worker'["migrate"].job = w.job, worker'["migrate"].pc \in Holding
      PROVE  WorkerHolds(t)'
  BY <1>1, <1>4 DEF WorkerHolds, MTenant, MJob
<1>5. CASE Gate \/ CreateDatabase \/ CopyAndVerify \/ MigrationStepFails
  <2>1. \/ \E s \in Holding : Goto("migrate", s)
        \/ worker' = [worker EXCEPT !["migrate"].pc = "copy", !["migrate"].created = TRUE]
    BY <1>5 DEF Gate, CreateDatabase, CopyAndVerify, MigrationStepFails, Holding
  <2>2. worker'["migrate"].job = w.job /\ worker'["migrate"].pc \in Holding
    BY <1>0, <2>1 DEF Goto, Worker, Holding
  <2>. QED  BY <1>4, <2>2
<1>6. ~Take("migrate") /\ ~ScheduleCleanup /\ ~TransactionFails /\ ~DropAfterRollback /\ ~RollbackFails /\ ~Crash
  BY <1>0 DEF Take, ScheduleCleanup, TransactionFails, DropAfterRollback, RollbackFails, Crash, Running, OnlyStepsFail,
              Holding
<1>7. CASE ~MigrationNext
  <2>1. w' = w
    BY <1>0, <1>6, <1>7, WorkerMoved DEF Moved, MigrationNext, Next, vars, jobVars, AdminNext, Create, ReadTier,
         Offboard, CallNext, CommitUpdate, Enqueue, EnqueueFails, RequestNext, Admit, Write, DecommissionNext, Take,
         CopyBack, VerifyBack, UpdateTenant, MarkDecommissioned, DropDedicated, DecommissionStepFails, CleanupNext,
         DeleteSharedRows, Goto, Finish, Retry
  <2>. QED  BY <1>0, <1>4, <2>1
<1>. QED  BY <1>2, <1>3, <1>5, <1>6, <1>7 DEF MigrationNext

\* The safety half of MigratingEnds: while plans change to VIP only and nothing
\* but a step of a migration fails, every tenant whose row says 'migrating' is
\* answered for, by a call that is about to queue its job, by a waiting job or by
\* the worker.  However the calls and the jobs of a tenant overtake each other,
\* no row is left gated with nobody to open it.
THEOREM NobodyIsForgotten ==
    ASSUME UpgradesOnly, OnlyStepsFail, NobodyAsksMigrating PROVE Spec => []MigratingInHand
<1>1. Init => MigratingInHand
  BY DEF Init, MigratingInHand, Migrating, Exists
<1>2. ASSUME TypeInv, NoDowngrades, StatusesAsked, MigratingInHand, [Next]_vars
      PROVE  MigratingInHand'
  <2>. SUFFICES ASSUME NEW t \in Tenants, Migrating(t)' PROVE InHand(t)'
    BY DEF MigratingInHand
  <2>1. CASE ~Migrating(t)
    BY <1>2, <2>1, NewlyGated
  <2>2. CASE Migrating(t)
    <3>1. CallHolds(t) \/ QueueHolds(t) \/ WorkerHolds(t)
      BY <1>2, <2>2 DEF MigratingInHand, InHand
    <3>2. row'[t].status # "active"
      BY DEF Migrating
    <3>. QED  BY <1>2, <3>1, <3>2, CallGoesOn, JobGoesOn, WorkGoesOn DEF InHand
  <2>. QED  BY <2>1, <2>2
<1>. QED  BY <1>1, <1>2, TypeInvAlways, NoDowngradesAlways, StatusesAlways, PTL DEF Spec
=============================================================================
