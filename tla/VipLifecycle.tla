---------------------------- MODULE VipLifecycle ----------------------------
(***************************************************************************)
(* The life of a tenant's row and of its data: creation, plan and status   *)
(* changes and offboarding (admin-tenants.service.ts), and the three jobs  *)
(* that follow a move to or from the VIP tier: vip-migration,              *)
(* vip-decommission and, 24 hours after a migration, vip-shared-cleanup.   *)
(*                                                                         *)
(* One instance of the backend runs one worker per queue (concurrency 1)   *)
(* beside any number of administrators' calls.  A step is what runs        *)
(* between two awaits, or a transaction.                                   *)
(*                                                                         *)
(* Two facts of the code shape the model.  Every query of the application  *)
(* goes to the shared database: nothing calls PoolRegistry.getPool, so     *)
(* rows are only ever written there.  And the tables that                  *)
(* createPluginSchema makes lack columns every shared table has            *)
(* (company, priority, event_type, campaign_type...), so the INSERT of     *)
(* copyTable fails on any row: a dedicated database is a name, and empty.  *)
(***************************************************************************)
EXTENDS Naturals, Sequences, FiniteSets

CONSTANTS
    Tenants,
    Slugs,         \* subdomains
    Rows,          \* rows of the plugin tables, by identity
    Admins,        \* concurrent calls of AdminTenantsService.update
    CappedTiers, Vip,
    CreatePlans,   \* plans a tenant may be created on
    Plans,         \* plans an administrator may change to
    StatusInputs,  \* statuses an administrator may ask for
    Operations,    \* which of "create", "offboard", "write" may happen
    Faults,        \* which failures may happen
    MaxJobs,       \* bound on the jobs waiting in one queue
    None

Tiers == CappedTiers \cup {Vip}
Served == {"active", "grace_period"}
Statuses == Served \cup {"migrating", "suspended", "offboarded"}
DbNames == Slugs \cup Tenants
Kinds == {"migrate", "decommission", "cleanup"}
MaxTries == 3      \* attempts of QUEUE_VIP_DECOMMISSION

ASSUME LifecycleConstants ==
    /\ Vip \notin CappedTiers /\ CappedTiers # {}
    /\ CreatePlans \subseteq Tiers /\ Plans \subseteq Tiers
    /\ StatusInputs \subseteq Statuses
    /\ Operations \subseteq {"create", "offboard", "write"}
    /\ Faults \subseteq {"step", "transaction", "rollback", "enqueue", "crash"}
    /\ Slugs \cap Tenants = {}
    /\ None \notin Tenants \cup DbNames \cup Tiers \cup Statuses
    /\ MaxJobs \in Nat \ {0}

VARIABLES
    row,        \* tenants: the row of each tenant, None before its creation
    shared,     \* rows of each tenant in the shared database
    databases,  \* names of the dedicated databases that exist
    registry,   \* vip_db_registry
    admin,      \* where each call of update() stands
    inflight,   \* tenants with a request the gateway has let through
    queue,      \* the BullMQ queues
    worker      \* the worker of each queue

vars == <<row, shared, databases, registry, admin, inflight, queue, worker>>
tenantVars == <<row, shared, inflight>>
dedicatedVars == <<databases, registry>>
jobVars == <<queue, worker>>

\* tier is currentTier of a migration, newTier of a decommission.
Job == [tenant : Tenants, slug : DbNames, tier : CappedTiers \cup {None},
        tries : 1..MaxTries, stalled : BOOLEAN]
NewJob(t, s, k) == [tenant |-> t, slug |-> s, tier |-> k, tries |-> 1, stalled |-> FALSE]

Row == [status : Statuses, isActive : BOOLEAN, tier : Tiers,
        db : DbNames \cup {None}, slug : Slugs \cup {None}]
Entry == [tenant : Tenants, db : DbNames, active : BOOLEAN]
Call == [pc : {"idle", "read", "committed"}, tenant : Tenants \cup {None},
         plan : Tiers \cup {None}, status : Statuses \cup {None},
         tier : Tiers \cup {None}, slug : DbNames \cup {None}]
NoCall == [pc |-> "idle", tenant |-> None, plan |-> None, status |-> None,
           tier |-> None, slug |-> None]
Steps == {"idle", "gate", "create", "copy", "verify", "commit", "schedule",
          "rollback", "update", "mark", "drop", "delete"}
Worker == [pc : Steps, job : Job \cup {None}, created : BOOLEAN]
IdleWorker == [pc |-> "idle", job |-> None, created |-> FALSE]

ASSUME NoneIsNoRow == None \notin Row \cup Job

Exists(t) == row[t] # None

TypeOK ==
    /\ row \in [Tenants -> Row \cup {None}]
    /\ shared \in [Tenants -> SUBSET Rows]
    /\ databases \subseteq DbNames
    /\ registry \subseteq Entry
    /\ admin \in [Admins -> Call]
    /\ inflight \subseteq Tenants
    /\ queue \in [Kinds -> Seq(Job)]
    /\ worker \in [Kinds -> Worker]

Init ==
    /\ row = [t \in Tenants |-> None]
    /\ shared = [t \in Tenants |-> {}]
    /\ databases = {}
    /\ registry = {}
    /\ admin = [a \in Admins |-> NoCall]
    /\ inflight = {}
    /\ queue = [k \in Kinds |-> <<>>]
    /\ worker = [k \in Kinds |-> IdleWorker]

-----------------------------------------------------------------------------
(* AdminTenantsService *)

\* create(): one transaction, whose 'provisioning' nobody else sees.  No plan
\* queues a migration, 'vip' included.
Create(t, plan, s) ==
    /\ "create" \in Operations
    /\ ~Exists(t)
    /\ \A u \in Tenants : Exists(u) => row[u].slug # s
    /\ row' = [row EXCEPT ![t] = [status |-> "active", isActive |-> TRUE, tier |-> plan,
                                  db |-> None, slug |-> s]]
    /\ UNCHANGED <<shared, inflight, dedicatedVars, admin, jobVars>>

\* update(), up to its first await: SELECT tier, without a lock.
ReadTier(a, t, plan, status) ==
    /\ admin[a].pc = "idle"
    /\ Exists(t)
    /\ plan # None \/ status # None
    /\ admin' = [admin EXCEPT ![a] = [NoCall EXCEPT !.pc = "read", !.tenant = t, !.plan = plan,
                                                    !.status = status, !.tier = row[t].tier]]
    /\ UNCHANGED <<tenantVars, dedicatedVars, jobVars>>

IsVipUpgrade(c) == c.plan = Vip /\ c.tier # Vip
IsVipDowngrade(c) == c.plan \notin {Vip, None} /\ c.tier = Vip
IsVipMove(c) == IsVipUpgrade(c) \/ IsVipDowngrade(c)

\* Faulty variant of SlugOf: no fallback for a tenant without subdomain.
SubdomainOf(t) == row[t].slug

\* subdomain ?? id
SlugOf(t) == IF row[t].slug # None THEN row[t].slug ELSE t

\* UPDATE ... COMMIT.  A move to or from VIP gates the tenant and ignores the
\* status that came with the call.
CommitUpdate(a) ==
    LET c == admin[a]
        old == row[c.tenant]
        status == IF IsVipMove(c) THEN "migrating"
                  ELSE IF c.status # None THEN c.status ELSE old.status
        isActive == IF IsVipMove(c) THEN FALSE
                    ELSE IF c.status # None THEN c.status = "active" ELSE old.isActive
    IN  /\ c.pc = "read"
        /\ row' = [row EXCEPT ![c.tenant].status = status,
                              ![c.tenant].isActive = isActive,
                              ![c.tenant].tier = IF c.plan # None THEN c.plan ELSE @]
        /\ admin' = [admin EXCEPT ![a] =
                        IF IsVipMove(c)
                        THEN [c EXCEPT !.pc = "committed",
                                       !.slug = SlugOf(c.tenant)]
                        ELSE NoCall]
        /\ UNCHANGED <<shared, inflight, dedicatedVars, jobVars>>

\* The job is queued last, after the cache and the two publications.
Enqueue(a) ==
    LET c == admin[a]
        k == IF IsVipUpgrade(c) THEN "migrate" ELSE "decommission"
        job == NewJob(c.tenant, c.slug, IF IsVipUpgrade(c) THEN c.tier ELSE c.plan)
    IN  /\ c.pc = "committed"
        /\ Len(queue[k]) < MaxJobs
        /\ queue' = [queue EXCEPT ![k] = Append(@, job)]
        /\ admin' = [admin EXCEPT ![a] = NoCall]
        /\ UNCHANGED <<tenantVars, dedicatedVars, worker>>

\* Redis fails in one of them: the call answers 500, the row stays committed.
EnqueueFails(a) ==
    /\ "enqueue" \in Faults
    /\ admin[a].pc = "committed"
    /\ admin' = [admin EXCEPT ![a] = NoCall]
    /\ UNCHANGED <<tenantVars, dedicatedVars, jobVars>>

\* offboard(): one transaction; the subdomain is free again.
Offboard(t) ==
    /\ "offboard" \in Operations
    /\ Exists(t)
    /\ row' = [row EXCEPT ![t].status = "offboarded", ![t].isActive = FALSE, ![t].slug = None]
    /\ UNCHANGED <<shared, inflight, dedicatedVars, admin, jobVars>>

-----------------------------------------------------------------------------
(* Requests of the tenant *)

\* What the gateway lets through for a request that writes.
Admitted(t) ==
    /\ Exists(t)
    /\ row[t].status \in Served
    /\ row[t].status = "active" => row[t].isActive

Admit(t) ==
    /\ "write" \in Operations
    /\ Admitted(t)
    /\ inflight' = inflight \cup {t}
    /\ UNCHANGED <<row, shared, dedicatedVars, admin, jobVars>>

\* The write is acknowledged, however long ago the gateway was passed.
Write(t) ==
    /\ t \in inflight
    /\ \E x \in Rows \ shared[t] : shared' = [shared EXCEPT ![t] = @ \cup {x}]
    /\ inflight' = inflight \ {t}
    /\ UNCHANGED <<row, dedicatedVars, admin, jobVars>>

-----------------------------------------------------------------------------
(* The workers *)

Running(k, step) == worker[k].pc = step
Goto(k, step) == worker' = [worker EXCEPT ![k].pc = step]
Finish(k) == worker' = [worker EXCEPT ![k] = IdleWorker]

FirstStep == [migrate |-> "gate", decommission |-> "copy", cleanup |-> "delete"]

\* A worker takes the next job; the delay of a cleanup is any time at all.
Take(k) ==
    /\ Running(k, "idle")
    /\ queue[k] # <<>>
    /\ worker' = [worker EXCEPT ![k] = [pc |-> FirstStep[k], job |-> Head(queue[k]),
                                        created |-> FALSE]]
    /\ queue' = [queue EXCEPT ![k] = Tail(@)]
    /\ UNCHANGED <<tenantVars, dedicatedVars, admin>>

\* vip-migration: the job, its tenant and its database.
MJob == worker["migrate"].job
MTenant == MJob.tenant

\* Faulty variant of Gate: the status that update() set is relied upon.
GateTrusted ==
    /\ Running("migrate", "gate")
    /\ Goto("migrate", "create")
    /\ UNCHANGED <<tenantVars, dedicatedVars, admin, queue>>

\* Step 0: the tenant is gated again, whatever its status is.
Gate ==
    /\ Running("migrate", "gate")
    /\ row' = [row EXCEPT ![MTenant].status = "migrating"]
    /\ Goto("migrate", "create")
    /\ UNCHANGED <<shared, inflight, dedicatedVars, admin, queue>>

\* Step 1 and the schema: CREATE DATABASE fails when the name exists.
CreateDatabase ==
    /\ Running("migrate", "create")
    /\ IF MJob.slug \in databases
         THEN /\ Goto("migrate", "rollback")
              /\ UNCHANGED databases
         ELSE /\ databases' = databases \cup {MJob.slug}
              /\ worker' = [worker EXCEPT !["migrate"].pc = "copy", !["migrate"].created = TRUE]
    /\ UNCHANGED <<tenantVars, registry, admin, queue>>

\* Steps 3 and 4 succeed on a tenant without rows only: the copy because of
\* the columns, the verification because nothing was copied.
CopyAndVerify ==
    /\ \/ Running("migrate", "copy") /\ Goto("migrate", IF shared[MTenant] = {} THEN "verify" ELSE "rollback")
       \/ Running("migrate", "verify") /\ Goto("migrate", IF shared[MTenant] = {} THEN "commit" ELSE "rollback")
    /\ UNCHANGED <<tenantVars, dedicatedVars, admin, queue>>

\* Faulty variant of CommitMigration: the registry names the database after
\* the tenant's id.
CommitUnderId ==
    /\ Running("migrate", "commit")
    /\ registry' = registry \cup {[tenant |-> MTenant, db |-> MTenant, active |-> TRUE]}
    /\ row' = [row EXCEPT ![MTenant].db = MJob.slug, ![MTenant].status = "active"]
    /\ Goto("migrate", "schedule")
    /\ UNCHANGED <<shared, inflight, databases, admin, queue>>

\* Step 6, BEGIN to COMMIT.  is_active is not touched.
CommitMigration ==
    /\ Running("migrate", "commit")
    /\ registry' = registry \cup {[tenant |-> MTenant, db |-> MJob.slug, active |-> TRUE]}
    /\ row' = [row EXCEPT ![MTenant].db = MJob.slug, ![MTenant].status = "active"]
    /\ Goto("migrate", "schedule")
    /\ UNCHANGED <<shared, inflight, databases, admin, queue>>

\* Step 8: the cleanup is queued, the job is done.
ScheduleCleanup ==
    /\ Running("migrate", "schedule")
    /\ Len(queue["cleanup"]) < MaxJobs
    /\ queue' = [queue EXCEPT !["cleanup"] = Append(@, NewJob(MTenant, MJob.slug, None))]
    /\ Finish("migrate")
    /\ UNCHANGED <<tenantVars, dedicatedVars, admin>>

\* A step fails outside the transaction: rollback.
MigrationStepFails ==
    /\ \/ "step" \in Faults /\ worker["migrate"].pc \in {"gate", "create", "copy", "verify"}
       \/ "enqueue" \in Faults /\ Running("migrate", "schedule")
    /\ Goto("migrate", "rollback")
    /\ UNCHANGED <<tenantVars, dedicatedVars, admin, queue>>

\* The transaction fails.  Nobody sends ROLLBACK: the UPDATE and the DROP of
\* the handler fail on the aborted transaction too, and the job is over.
TransactionFails ==
    /\ "transaction" \in Faults
    /\ Running("migrate", "commit")
    /\ Finish("migrate")
    /\ UNCHANGED <<tenantVars, dedicatedVars, admin, queue>>

\* Faulty variants of Rollback: the database is dropped whoever made it; the
\* status is not restored; the cleanup is queued on this path too.
RollbackDropsAll ==
    /\ Running("migrate", "rollback")
    /\ row' = [row EXCEPT ![MTenant].status = "active", ![MTenant].tier = MJob.tier]
    /\ Goto("migrate", "drop")
    /\ UNCHANGED <<shared, inflight, dedicatedVars, admin, queue>>

RollbackTierOnly ==
    /\ Running("migrate", "rollback")
    /\ row' = [row EXCEPT ![MTenant].tier = MJob.tier]
    /\ IF worker["migrate"].created THEN Goto("migrate", "drop") ELSE Finish("migrate")
    /\ UNCHANGED <<shared, inflight, dedicatedVars, admin, queue>>

RollbackAndCleanup ==
    /\ Running("migrate", "rollback")
    /\ row' = [row EXCEPT ![MTenant].status = "active", ![MTenant].tier = MJob.tier]
    /\ Finish("migrate")
    /\ Len(queue["cleanup"]) < MaxJobs
    /\ queue' = [queue EXCEPT !["cleanup"] = Append(@, NewJob(MTenant, MJob.slug, None))]
    /\ UNCHANGED <<shared, inflight, dedicatedVars, admin>>

\* The catch block: tier and status back, then the database if this run made it.
Rollback ==
    /\ Running("migrate", "rollback")
    /\ row' = [row EXCEPT ![MTenant].status = "active", ![MTenant].tier = MJob.tier]
    /\ IF worker["migrate"].created THEN Goto("migrate", "drop") ELSE Finish("migrate")
    /\ UNCHANGED <<shared, inflight, dedicatedVars, admin, queue>>

DropAfterRollback ==
    /\ Running("migrate", "drop")
    /\ databases' = databases \ {MJob.slug}
    /\ Finish("migrate")
    /\ UNCHANGED <<tenantVars, registry, admin, queue>>

\* A statement of the handler fails: it is logged, the next one is tried.
RollbackFails ==
    /\ "rollback" \in Faults
    /\ \/ /\ Running("migrate", "rollback")
          /\ IF worker["migrate"].created THEN Goto("migrate", "drop") ELSE Finish("migrate")
       \/ Running("migrate", "drop") /\ Finish("migrate")
    /\ UNCHANGED <<tenantVars, dedicatedVars, admin, queue>>

\* vip-decommission: the job and its tenant.
DJob == worker["decommission"].job
DTenant == DJob.tenant

\* An attempt fails: after the backoff the job is at the end of the queue.
Retry ==
    /\ Finish("decommission")
    /\ IF DJob.tries < MaxTries
         THEN queue' = [queue EXCEPT !["decommission"] = Append(@, [DJob EXCEPT !.tries = @ + 1])]
         ELSE UNCHANGED queue

\* Step 1: the dedicated database must answer; it holds no row to copy.
CopyBack ==
    /\ Running("decommission", "copy")
    /\ IF DJob.slug \in databases THEN Goto("decommission", "verify") /\ UNCHANGED queue ELSE Retry
    /\ UNCHANGED <<tenantVars, dedicatedVars, admin>>

\* Step 2: both counts must agree.
VerifyBack ==
    /\ Running("decommission", "verify")
    /\ IF DJob.slug \in databases /\ shared[DTenant] = {}
         THEN Goto("decommission", "update") /\ UNCHANGED queue
         ELSE Retry
    /\ UNCHANGED <<tenantVars, dedicatedVars, admin>>

\* Step 3.
UpdateTenant ==
    /\ Running("decommission", "update")
    /\ row' = [row EXCEPT ![DTenant].db = None, ![DTenant].tier = DJob.tier, ![DTenant].status = "active"]
    /\ Goto("decommission", "mark")
    /\ UNCHANGED <<shared, inflight, dedicatedVars, admin, queue>>

\* Step 6.
MarkDecommissioned ==
    /\ Running("decommission", "mark")
    /\ registry' = {IF e.tenant = DTenant THEN [e EXCEPT !.active = FALSE] ELSE e : e \in registry}
    /\ Goto("decommission", "drop")
    /\ UNCHANGED <<tenantVars, databases, admin, queue>>

\* Step 7: DROP DATABASE by name.
DropDedicated ==
    /\ Running("decommission", "drop")
    /\ databases' = databases \ {DJob.slug}
    /\ Finish("decommission")
    /\ UNCHANGED <<tenantVars, registry, admin, queue>>

DecommissionStepFails ==
    /\ "step" \in Faults
    /\ ~Running("decommission", "idle")
    /\ Retry
    /\ UNCHANGED <<tenantVars, dedicatedVars, admin>>

\* vip-shared-cleanup: every row of the tenant in the shared database goes.
DeleteSharedRows ==
    /\ Running("cleanup", "delete")
    /\ shared' = [shared EXCEPT ![worker["cleanup"].job.tenant] = {}]
    /\ Finish("cleanup")
    /\ UNCHANGED <<row, inflight, dedicatedVars, admin, queue>>

\* The process dies: calls and requests are gone, an active job is found
\* stalled and runs again from its first step, once.
Crash ==
    /\ "crash" \in Faults
    /\ admin' = [a \in Admins |-> NoCall]
    /\ inflight' = {}
    /\ worker' = [k \in Kinds |-> IdleWorker]
    /\ queue' = [k \in Kinds |->
                   IF Running(k, "idle") \/ worker[k].job.stalled THEN queue[k]
                   ELSE Append(queue[k], [worker[k].job EXCEPT !.stalled = TRUE])]
    /\ UNCHANGED <<row, shared, dedicatedVars>>

AdminNext ==
    \/ \E t \in Tenants, plan \in CreatePlans, s \in Slugs : Create(t, plan, s)
    \/ \E a \in Admins, t \in Tenants, plan \in Plans \cup {None}, st \in StatusInputs \cup {None} :
          ReadTier(a, t, plan, st)
    \/ \E t \in Tenants : Offboard(t)

CallNext(a) == CommitUpdate(a) \/ Enqueue(a) \/ EnqueueFails(a)

RequestNext == \E t \in Tenants : Admit(t) \/ Write(t)

MigrationNext ==
    \/ Take("migrate") \/ Gate \/ CreateDatabase \/ CopyAndVerify \/ CommitMigration
    \/ ScheduleCleanup \/ MigrationStepFails \/ TransactionFails \/ Rollback \/ DropAfterRollback
    \/ RollbackFails

DecommissionNext ==
    \/ Take("decommission") \/ CopyBack \/ VerifyBack \/ UpdateTenant \/ MarkDecommissioned
    \/ DropDedicated \/ DecommissionStepFails

CleanupNext == Take("cleanup") \/ DeleteSharedRows

Next ==
    \/ AdminNext
    \/ \E a \in Admins : CallNext(a)
    \/ RequestNext
    \/ MigrationNext
    \/ DecommissionNext
    \/ CleanupNext
    \/ Crash

\* Calls and jobs that were started go on; administrators, clients and
\* failures may do nothing at all.
Fairness ==
    /\ \A a \in Admins : WF_vars(CallNext(a))
    /\ WF_vars(MigrationNext)
    /\ WF_vars(DecommissionNext)
    /\ WF_vars(CleanupNext)

Spec == Init /\ [][Next]_vars
FairSpec == Spec /\ Fairness

-----------------------------------------------------------------------------
(* Properties *)

\* A tenant's rows only disappear after a migration of that tenant committed:
\* a failed, crashed or repeated migration never costs a row, even though the
\* cleanup runs a day later and knows nothing of what happened in between.
RowsOutliveFailedMigrations ==
    [][\A t \in Tenants : (shared[t] \ shared'[t]) # {} =>
          \E e \in registry : e.tenant = t]_shared

\* tenants.db_url never points to a database that does not exist.
DatabaseOfRowExists ==
    \A t \in Tenants : (Exists(t) /\ row[t].db # None) => row[t].db \in databases

\* tenants.db_url and vip_db_registry agree: a tenant that points to a
\* database has an open registry entry for it, also in the middle of a
\* decommission and after a crash.
RegistryCoversRow ==
    \A t \in Tenants : (Exists(t) /\ row[t].db # None) =>
       [tenant |-> t, db |-> row[t].db, active |-> TRUE] \in registry

\* A tenant that is gated for a move to or from VIP is released again some day.
Migrating(t) == Exists(t) /\ row[t].status = "migrating"
MigratingEnds == \A t \in Tenants : Migrating(t) ~> ~Migrating(t)

\* From step 0 of a migration to its commit the gateway serves no request of
\* the tenant, whatever an earlier job of the same tenant left in the row.
GatewayBlocksDuringMigration ==
    worker["migrate"].pc \in {"create", "copy", "verify", "commit"} =>
       row[MTenant].status \notin Served
=============================================================================
