------------------------ MODULE EventPipelineProofs ------------------------
(***************************************************************************)
(* What TLAPS proves of EventPipeline, for every set of events, triggers   *)
(* and instances and every bound, in seven parts:                          *)
(*   - types;                                                              *)
(*   - the rows somebody has in hand: a worker serves rows of its own kind *)
(*     only, nobody has an event that was never emitted, and a worker      *)
(*     about to mark an event processed has evaluated its triggers;        *)
(*   - carriers: a row claimed once is in one place, an action row is      *)
(*     claimed once;                                                       *)
(*   - attempts: what the column counts, the row's job bounds;             *)
(*   - what holds while nothing fails: a queued row is carried, and done   *)
(*     once;                                                               *)
(*   - the steps of EventDelivery that its steps are;                      *)
(*   - the action rows that nobody takes up again.                         *)
(***************************************************************************)
EXTENDS EventPipeline, FiniteSetTheorems, TLAPS

LEMMA EventsAreNoActions == Events \cap Actions = {}
  BY PipelineConstants DEF Actions, MaxFired

LEMMA Bounds == MaxFired \in Nat /\ MaxFaults \in Nat
  BY PipelineConstants DEF MaxFired

\* The statement a processor runs on its own row keeps the table well typed.
LEMMA SetStatusType ==
  ASSUME row \in [Rows -> Statuses], NEW r, NEW s \in Statuses, SetStatus(r, s)
  PROVE  row' \in [Rows -> Statuses]
  BY DEF SetStatus

LEMMA GoToType ==
  ASSUME TypeOK, NEW i \in Instances, NEW k \in Kinds, worker[<<i, k>>] # None,
         NEW s \in {"select", "insert", "mark", "begin", "run", "complete", "ack"},
         GoTo(i, k, s)
  PROVE  worker' \in [Instances \X Kinds -> Busy \cup {None}]
  <1>1. worker[<<i, k>>] \in Busy
    BY DEF TypeOK
  <1>2. [worker[<<i, k>>] EXCEPT !.step = s] \in Busy
    BY <1>1 DEF Busy
  <1>3. QED
    BY <1>2 DEF GoTo, TypeOK

\* A job whose processor threw is back in the queue, within its attempts, or
\* given up.
LEMMA ThrowJobType ==
  ASSUME TypeOK, NEW i \in Instances, NEW k \in Kinds, worker[<<i, k>>] # None,
         ThrowJob(i, k)
  PROVE  /\ worker' \in [Instances \X Kinds -> Busy \cup {None}]
         /\ held' = held
         /\ jobs' \subseteq Job
         /\ dead' \subseteq Rows
  <1> DEFINE j == worker[<<i, k>>].job
  <1>1. j \in Job
    BY DEF TypeOK, Busy
  <1>2. j.tries + 1 < MaxTries => [j EXCEPT !.tries = @ + 1] \in Job
    BY <1>1, PipelineConstants DEF Job
  <1>3. j.of \in Rows
    BY <1>1 DEF Job
  <1>4. worker' \in [Instances \X Kinds -> Busy \cup {None}]
    BY DEF ThrowJob, TypeOK
  <1>5. CASE j.tries + 1 < MaxTries
    BY <1>2, <1>4, <1>5 DEF ThrowJob, TypeOK
  <1>6. CASE ~(j.tries + 1 < MaxTries)
    BY <1>3, <1>4, <1>6 DEF ThrowJob, TypeOK
  <1>7. QED
    BY <1>5, <1>6

\* Counting one more of x, which need not be counted at all.
LEMMA CountType ==
  ASSUME NEW D, NEW f \in [D -> Nat], NEW x
  PROVE  [f EXCEPT ![x] = @ + 1] \in [D -> Nat]
  <1>1. CASE x \in D
    BY <1>1
  <1>2. CASE x \notin D
    BY <1>2
  <1>3. QED
    BY <1>1, <1>2

LEMMA FaultType ==
  ASSUME faults \in 0 .. MaxFaults, NEW f, Fault(f)
  PROVE  faults' \in 0 .. MaxFaults
  BY Bounds DEF Fault

LEMMA InitType == Init => TypeOK
  <1> SUFFICES ASSUME Init PROVE TypeOK
    OBVIOUS
  <1>1. row \in [Rows -> Statuses]
    BY DEF Init, Statuses
  <1>2. QED
    BY <1>1, Bounds DEF Init, TypeOK

LEMMA TypeStep == TypeOK /\ [Next]_vars => TypeOK'
  <1> SUFFICES ASSUME TypeOK, [Next]_vars PROVE TypeOK'
    OBVIOUS
  <1> USE DEF tables, queues, history
  <1>1. ASSUME NEW e \in Events, Emit(e) PROVE TypeOK'
    BY <1>1 DEF TypeOK, Emit, Statuses
  <1>2. ASSUME NEW e \in Events, Expire(e) PROVE TypeOK'
    BY <1>2 DEF TypeOK, Expire
  <1>3. CASE PurgeExpired
    BY <1>3 DEF TypeOK, PurgeExpired, Statuses
  <1>4. ASSUME NEW S \in SUBSET Events, ResetStuck(S) PROVE TypeOK'
    BY <1>4 DEF TypeOK, ResetStuck, Statuses
  <1>5. ASSUME NEW T \in SUBSET Triggers, DropTriggers(T) PROVE TypeOK'
    BY <1>5 DEF TypeOK, DropTriggers, Statuses
  <1>6. CASE DeleteTenant
    BY <1>6 DEF TypeOK, DeleteTenant, Statuses
  <1>7. ASSUME NEW i \in Instances, NEW k \in Kinds, Poll(i, k) PROVE TypeOK'
    <2>1. PICK batch \in SUBSET Due(k) :
            /\ row' = [r \in Rows |-> IF r \in batch THEN "queued" ELSE row[r]]
            /\ claims' = [r \in Rows |->
                            IF r \in batch THEN claims[r] + 1 ELSE claims[r]]
            /\ held' = [held EXCEPT ![<<i, k>>] =
                          {[of |-> r, claim |-> claims[r] + 1] : r \in batch}]
      BY <1>7 DEF Poll
    <2>2. batch \subseteq Rows
      BY DEF Due, RowsOf, Rows
    <2>3. {[of |-> r, claim |-> claims[r] + 1] : r \in batch} \subseteq Claim
      BY <2>2 DEF Claim, TypeOK
    <2>4. row' \in [Rows -> Statuses] /\ claims' \in [Rows -> Nat]
      BY <2>1 DEF TypeOK, Statuses
    <2>5. held' \in [Instances \X Kinds -> SUBSET Claim]
      BY <2>1, <2>3 DEF TypeOK
    <2>6. QED
      BY <1>7, <2>4, <2>5 DEF TypeOK, Poll
  <1>8. ASSUME NEW i \in Instances, NEW k \in Kinds, Add(i, k) PROVE TypeOK'
    <2>1. PICK c \in held[<<i, k>>] :
            /\ jobs' = jobs \cup {[of |-> c.of, claim |-> c.claim,
                                   tries |-> 0, stalls |-> 0]}
            /\ held' = [held EXCEPT ![<<i, k>>] = @ \ {c}]
      BY <1>8 DEF Add
    <2>2. c \in Claim
      BY DEF TypeOK
    <2>3. [of |-> c.of, claim |-> c.claim, tries |-> 0, stalls |-> 0] \in Job
      BY <2>2, PipelineConstants DEF Claim, Job, MaxStalls
    <2>4. held' \in [Instances \X Kinds -> SUBSET Claim]
      BY <2>1 DEF TypeOK
    <2>5. QED
      BY <1>8, <2>1, <2>3, <2>4 DEF TypeOK, Add
  <1>9. ASSUME NEW i \in Instances, NEW k \in Kinds, AddFails(i, k) PROVE TypeOK'
    <2>1. held' \in [Instances \X Kinds -> SUBSET Claim]
      BY <1>9 DEF TypeOK, AddFails
    <2>2. QED
      BY <1>9, <2>1, FaultType DEF TypeOK, AddFails
  <1>10. ASSUME NEW i \in Instances, NEW k \in Kinds, Take(i, k) PROVE TypeOK'
    <2>1. PICK j \in jobs :
            /\ jobs' = jobs \ {j}
            /\ worker' = [worker EXCEPT ![<<i, k>>] =
                            [job |-> j, step |-> FirstStep(k), read |-> {}]]
      BY <1>10 DEF Take
    <2>2. [job |-> j, step |-> FirstStep(k), read |-> {}] \in Busy
      BY DEF Busy, FirstStep, TypeOK
    <2>3. worker' \in [Instances \X Kinds -> Busy \cup {None}]
      BY <2>1, <2>2 DEF TypeOK
    <2>4. QED
      BY <1>10, <2>1, <2>3 DEF TypeOK, Take
  <1>11. ASSUME NEW i \in Instances, NEW k \in Kinds, Finish(i, k) PROVE TypeOK'
    BY <1>11 DEF TypeOK, Finish
  <1>12. ASSUME NEW i \in Instances, SelectTriggers(i) PROVE TypeOK'
    <2> DEFINE w == worker[<<i, "event">>]
    <2>1. w \in Busy
      BY <1>12 DEF SelectTriggers, At, TypeOK, Kinds
    <2>2. [w EXCEPT !.step = "insert",
                    !.read = triggers \cap Matching[Row(i, "event")]] \in Busy
      BY <2>1 DEF Busy, TypeOK
    <2>3. worker' \in [Instances \X Kinds -> Busy \cup {None}]
      BY <1>12, <2>2 DEF SelectTriggers, TypeOK
    <2>4. QED
      BY <1>12, <2>3 DEF TypeOK, SelectTriggers
  <1>13. ASSUME NEW i \in Instances, InsertActions(i) PROVE TypeOK'
    <2>1. worker' \in [Instances \X Kinds -> Busy \cup {None}]
      BY <1>13, GoToType DEF InsertActions, At, Kinds
    <2>2. row' \in [Rows -> Statuses]
      BY <1>13 DEF InsertActions, TypeOK, Statuses
    <2>3. fired' \in [Events -> 0 .. MaxFired]
      <3> DEFINE e == Row(i, "event")
      <3>1. fired[e] < MaxFired /\ fired' = [fired EXCEPT ![e] = @ + 1]
        BY <1>13 DEF InsertActions
      <3>2. CASE e \in Events
        <4>1. fired[e] + 1 \in 0 .. MaxFired
          BY <3>1, <3>2, Bounds DEF TypeOK
        <4>2. QED
          BY <3>1, <4>1 DEF TypeOK
      <3>3. CASE e \notin Events
        BY <3>1, <3>3 DEF TypeOK
      <3>4. QED
        BY <3>2, <3>3
    <2>4. QED
      BY <1>13, <2>1, <2>2, <2>3 DEF InsertActions, TypeOK
  <1>14. ASSUME NEW i \in Instances, InsertRefused(i) PROVE TypeOK'
    BY <1>14, ThrowJobType DEF InsertRefused, At, Kinds, TypeOK
  <1>15. ASSUME NEW i \in Instances, MarkProcessed(i) PROVE TypeOK'
    <2>1. worker' \in [Instances \X Kinds -> Busy \cup {None}]
      BY <1>15, GoToType DEF MarkProcessed, At, Kinds
    <2>2. row' \in [Rows -> Statuses]
      BY <1>15, SetStatusType DEF MarkProcessed, TypeOK, Statuses
    <2>3. QED
      BY <1>15, <2>1, <2>2 DEF MarkProcessed, TypeOK
  <1>16. ASSUME NEW i \in Instances, BeginAction(i) PROVE TypeOK'
    <2>1. worker' \in [Instances \X Kinds -> Busy \cup {None}]
      BY <1>16, GoToType DEF BeginAction, At, Kinds
    <2>2. row' \in [Rows -> Statuses]
      BY <1>16, SetStatusType DEF BeginAction, TypeOK, Statuses
    <2>3. attempts' \in [Actions -> Nat]
      BY <1>16, CountType DEF BeginAction, TypeOK
    <2>4. QED
      BY <1>16, <2>1, <2>2, <2>3 DEF BeginAction, TypeOK
  <1>17. ASSUME NEW i \in Instances, TenantMissing(i) PROVE TypeOK'
    <2>1. worker' \in [Instances \X Kinds -> Busy \cup {None}]
      BY <1>17, GoToType DEF TenantMissing, At, Kinds
    <2>2. row' \in [Rows -> Statuses]
      BY <1>17, SetStatusType DEF TenantMissing, TypeOK, Statuses
    <2>3. QED
      BY <1>17, <2>1, <2>2 DEF TenantMissing, TypeOK
  <1>18. ASSUME NEW i \in Instances, RunAction(i) PROVE TypeOK'
    <2>1. worker' \in [Instances \X Kinds -> Busy \cup {None}]
      BY <1>18, GoToType DEF RunAction, At, Kinds
    <2>2. effects' \in [Actions -> Nat]
      BY <1>18, CountType DEF RunAction, TypeOK
    <2>3. QED
      BY <1>18, <2>1, <2>2 DEF RunAction, TypeOK
  <1>19. ASSUME NEW i \in Instances, EffectThenThrow(i) PROVE TypeOK'
    <2>1. effects' \in [Actions -> Nat]
      BY <1>19, CountType DEF EffectThenThrow, TypeOK
    <2>2. QED
      BY <1>19, <2>1, ThrowJobType, FaultType
         DEF EffectThenThrow, At, Kinds, TypeOK
  <1>20. ASSUME NEW i \in Instances, CompleteAction(i) PROVE TypeOK'
    <2>1. worker' \in [Instances \X Kinds -> Busy \cup {None}]
      BY <1>20, GoToType DEF CompleteAction, At, Kinds
    <2>2. row' \in [Rows -> Statuses]
      BY <1>20, SetStatusType DEF CompleteAction, TypeOK, Statuses
    <2>3. QED
      BY <1>20, <2>1, <2>2 DEF CompleteAction, TypeOK
  <1>21. ASSUME NEW i \in Instances, NEW k \in Kinds, StepFails(i, k) PROVE TypeOK'
    BY <1>21, ThrowJobType, FaultType DEF StepFails, TypeOK
  <1>22. ASSUME NEW i \in Instances, Crash(i) PROVE TypeOK'
    <2> DEFINE lost == {worker[<<i, k>>].job : k \in {k \in Kinds : worker[<<i, k>>] # None}}
               back == {j \in lost : j.stalls < MaxStalls}
    <2>1. lost \subseteq Job
      BY DEF TypeOK, Busy
    <2>2. \A j \in back : [j EXCEPT !.stalls = @ + 1] \in Job
      BY <2>1 DEF Job, MaxStalls
    <2>3. jobs' \subseteq Job
      BY <1>22, <2>2 DEF Crash, TypeOK
    <2>4. dead' \subseteq Rows
      BY <1>22, <2>1 DEF Crash, TypeOK, Job
    <2>5. /\ held' \in [Instances \X Kinds -> SUBSET Claim]
          /\ worker' \in [Instances \X Kinds -> Busy \cup {None}]
      BY <1>22 DEF Crash, TypeOK
    <2>6. QED
      BY <1>22, <2>3, <2>4, <2>5, FaultType DEF Crash, TypeOK
  <1>23. CASE UNCHANGED vars
    BY <1>23 DEF vars, TypeOK
  <1>24. ASSUME NEW t \in Triggers, DeleteTrigger(t) PROVE TypeOK'
    BY <1>5, <1>24 DEF DeleteTrigger
  <1>25. CASE DeleteTriggers
    BY <1>5, <1>25 DEF DeleteTriggers, TypeOK
  <1>26. QED
    BY <1>1, <1>2, <1>3, <1>4, <1>6, <1>7, <1>8, <1>9, <1>10, <1>11, <1>12,
       <1>13, <1>14, <1>15, <1>16, <1>17, <1>18, <1>19, <1>20, <1>21, <1>22,
       <1>23, <1>24, <1>25
       DEF Next, EventStep, ActionStep, Serve

\* Every reachable state has the declared types: a job is never tried more
\* often than its attempts allow and stalls once at most.
THEOREM TypeCorrect == Spec => []TypeOK
  BY InitType, TypeStep, PTL DEF Spec

-----------------------------------------------------------------------------
(* The rows in hand. *)

Slots == Instances \X Kinds

OwnKind == \A s \in Slots :
             worker[s] # None => worker[s].job.of \in RowsOf(s[2])

InHand(e) == \/ \E s \in Slots : \E c \in held[s] : c.of = e
             \/ \E j \in jobs : j.of = e
             \/ \E s \in Slots : worker[s] # None /\ worker[s].job.of = e

EmittedFirst == \A e \in Events :
                  row[e] = "none" => e \notin expired /\ ~InHand(e)

FiredFirst == \A i \in Instances :
                At(i, "event", "mark") => fired[Row(i, "event")] > 0

PipelineInv == TypeOK /\ OwnKind /\ EmittedFirst /\ FiredFirst

-----------------------------------------------------------------------------
LEMMA EventIsNoAction == \A e \in Events : e \notin Actions
  BY EventsAreNoActions

\* A statement on an action row leaves the events alone.
LEMMA ActionStatus ==
  ASSUME row \in [Rows -> Statuses], NEW a \in Actions, NEW s, SetStatus(a, s)
  PROVE  \A e \in Events : row'[e] = row[e]
  BY EventIsNoAction DEF SetStatus, Rows

LEMMA EventWorker ==
  ASSUME PipelineInv, NEW i \in Instances, worker[<<i, "event">>] # None
  PROVE  Row(i, "event") \in Events
  BY DEF PipelineInv, OwnKind, Slots, Kinds, RowsOf, Row

LEMMA ActionWorker ==
  ASSUME PipelineInv, NEW i \in Instances, worker[<<i, "action">>] # None
  PROVE  Row(i, "action") \in Actions
  BY DEF PipelineInv, OwnKind, Slots, Kinds, RowsOf, Row

\* The rows an evaluation inserts are rows of actions.
LEMMA InsertedRows ==
  ASSUME PipelineInv, NEW i \in Instances, InsertActions(i)
  PROVE  \A e \in Events : row'[e] = row[e]
  <1> DEFINE w == worker[<<i, "event">>]
             f == Row(i, "event")
  <1>1. w # None /\ w \in Busy
    BY DEF InsertActions, At, PipelineInv, TypeOK, Kinds
  <1>2. f \in Events
    BY <1>1, EventWorker
  <1>3. fired[f] + 1 \in Nat
    BY <1>2, Bounds DEF PipelineInv, TypeOK
  <1>4. \A t \in w.read : <<f, t, fired[f] + 1>> \notin Events
    BY <1>1, <1>2, <1>3, PipelineConstants DEF Busy
  <1>5. QED
    BY <1>4 DEF InsertActions, Rows

\* What a step may do to an event: it is never reopened, and never forgotten.
EventMoves(e) == /\ row[e] = "processed" => row'[e] \in {"processed", "gone"}
                 /\ row'[e] = "none" => row[e] = "none"

LEMMA EventsMove ==
  ASSUME PipelineInv, [Next]_vars
  PROVE  \A e \in Events : EventMoves(e)
  <1> USE DEF EventMoves, PipelineInv, tables
  <1> Events \subseteq Rows
    BY DEF Rows
  <1> row \in [Rows -> Statuses]
    BY DEF TypeOK
  <1>1. ASSUME NEW f \in Events, Emit(f) \/ Expire(f)
        PROVE  \A e \in Events : EventMoves(e)
    BY <1>1 DEF Emit, Expire
  <1>2. CASE PurgeExpired
    BY <1>2 DEF PurgeExpired
  <1>3. ASSUME NEW S \in SUBSET Events, ResetStuck(S)
        PROVE  \A e \in Events : EventMoves(e)
    BY <1>3 DEF ResetStuck
  <1>4. ASSUME NEW T \in SUBSET Triggers, DropTriggers(T)
        PROVE  \A e \in Events : EventMoves(e)
    BY <1>4, EventIsNoAction DEF DropTriggers
  <1>5. ASSUME NEW t \in Triggers, DeleteTrigger(t)
        PROVE  \A e \in Events : EventMoves(e)
    BY <1>4, <1>5 DEF DeleteTrigger
  <1>6. CASE DeleteTriggers
    BY <1>4, <1>6 DEF DeleteTriggers, TypeOK
  <1>7. CASE DeleteTenant
    BY <1>7 DEF DeleteTenant, Exists
  <1>8. ASSUME NEW i \in Instances, NEW k \in Kinds, Poll(i, k)
        PROVE  \A e \in Events : EventMoves(e)
    BY <1>8 DEF Poll, Due
  <1>9. ASSUME NEW i \in Instances, InsertActions(i)
        PROVE  \A e \in Events : EventMoves(e)
    BY <1>9, InsertedRows
  <1>10. ASSUME NEW i \in Instances, MarkProcessed(i)
         PROVE  \A e \in Events : EventMoves(e)
    BY <1>10 DEF MarkProcessed, SetStatus, Exists
  <1>11. ASSUME NEW i \in Instances,
                \/ BeginAction(i) \/ TenantMissing(i) \/ CompleteAction(i)
         PROVE  \A e \in Events : EventMoves(e)
    <2>1. Row(i, "action") \in Actions
      BY <1>11, ActionWorker
         DEF BeginAction, TenantMissing, CompleteAction, At
    <2>2. QED
      BY <1>11, <2>1, ActionStatus
         DEF BeginAction, TenantMissing, CompleteAction
  <1>12. ASSUME row' = row
         PROVE  \A e \in Events : EventMoves(e)
    BY <1>12
  <1>13. ASSUME NEW i \in Instances,
                \/ SelectTriggers(i) \/ InsertRefused(i) \/ RunAction(i)
                \/ EffectThenThrow(i) \/ Crash(i)
         PROVE  row' = row
    BY <1>13 DEF SelectTriggers, InsertRefused, RunAction, EffectThenThrow, Crash
  <1>14. ASSUME NEW i \in Instances, NEW k \in Kinds,
                \/ Add(i, k) \/ AddFails(i, k) \/ Take(i, k) \/ Finish(i, k)
                \/ StepFails(i, k)
         PROVE  row' = row
    BY <1>14 DEF Add, AddFails, Take, Finish, StepFails
  <1>15. CASE UNCHANGED vars
    BY <1>12, <1>15 DEF vars
  <1>16. QED
    BY <1>1, <1>2, <1>3, <1>5, <1>6, <1>7, <1>8, <1>9, <1>10, <1>11, <1>12,
       <1>13, <1>14, <1>15
       DEF Next, EventStep, ActionStep, Serve

-----------------------------------------------------------------------------
\* A row comes into somebody's hands by a poll of a pending row; everybody
\* else has it from somebody.
LEMMA InHandStep ==
  ASSUME PipelineInv, [Next]_vars
  PROVE  \A r \in Rows : InHand(r)' => InHand(r) \/ row[r] = "pending"
  <1> DEFINE G == \A r \in Rows : InHand(r)' => InHand(r) \/ row[r] = "pending"
  <1> USE DEF PipelineInv, queues, Slots
  <1>1. ASSUME UNCHANGED <<held, jobs, worker>> PROVE G
    BY <1>1 DEF InHand
  <1>2. ASSUME NEW i \in Instances, NEW k \in Kinds, Poll(i, k) PROVE G
    <2>1. PICK batch \in SUBSET Due(k) :
            held' = [held EXCEPT ![<<i, k>>] =
                       {[of |-> r, claim |-> claims[r] + 1] : r \in batch}]
      BY <1>2 DEF Poll
    <2>2. \A s \in Slots : \A c \in held'[s] : c \in held[s] \/ row[c.of] = "pending"
      BY <2>1 DEF Due, TypeOK
    <2>3. UNCHANGED <<jobs, worker>>
      BY <1>2 DEF Poll
    <2>4. QED
      BY <2>2, <2>3 DEF InHand
  <1>3. ASSUME NEW i \in Instances, NEW k \in Kinds, Add(i, k) PROVE G
    <2>1. PICK c \in held[<<i, k>>] :
            /\ jobs' = jobs \cup {[of |-> c.of, claim |-> c.claim,
                                   tries |-> 0, stalls |-> 0]}
            /\ held' = [held EXCEPT ![<<i, k>>] = @ \ {c}]
      BY <1>3 DEF Add
    <2>2. \A s \in Slots : held'[s] \subseteq held[s]
      BY <2>1 DEF TypeOK
    <2>3. \A j \in jobs' : j \in jobs \/ j.of = c.of
      BY <2>1
    <2>4. UNCHANGED worker
      BY <1>3 DEF Add
    <2>5. QED
      BY <2>2, <2>3, <2>4 DEF InHand
  <1>4. ASSUME NEW i \in Instances, NEW k \in Kinds, AddFails(i, k) PROVE G
    <2>1. \A s \in Slots : held'[s] \subseteq held[s]
      BY <1>4 DEF AddFails, TypeOK
    <2>2. UNCHANGED <<jobs, worker>>
      BY <1>4 DEF AddFails
    <2>3. QED
      BY <2>1, <2>2 DEF InHand
  <1>5. ASSUME NEW i \in Instances, NEW k \in Kinds, Take(i, k) PROVE G
    <2>1. PICK j \in jobs :
            /\ jobs' = jobs \ {j}
            /\ worker' = [worker EXCEPT ![<<i, k>>] =
                            [job |-> j, step |-> FirstStep(k), read |-> {}]]
      BY <1>5 DEF Take
    <2>2. UNCHANGED held
      BY <1>5 DEF Take
    <2>3. \A s \in Slots : worker'[s] = worker[s] \/ worker'[s].job = j
      BY <2>1 DEF TypeOK
    <2>4. QED
      BY <2>1, <2>2, <2>3 DEF InHand
  \* The worker keeps its job.
  <1>6. ASSUME UNCHANGED <<held, jobs>>,
               \A s \in Slots : worker'[s] # None =>
                 worker[s] # None /\ worker'[s].job = worker[s].job
        PROVE  G
    BY <1>6 DEF InHand
  <1>7. ASSUME NEW i \in Instances, NEW k \in Kinds,
               worker[<<i, k>>] # None, ThrowJob(i, k)
        PROVE  G
    <2> DEFINE w == worker[<<i, k>>]
    <2>1. w \in Busy
      BY <1>7 DEF TypeOK
    <2>2. [w.job EXCEPT !.tries = @ + 1].of = w.job.of
      BY <2>1 DEF Busy, Job
    <2>3. \A j \in jobs' : j \in jobs \/ j.of = w.job.of
      BY <1>7, <2>2 DEF ThrowJob
    <2>4. UNCHANGED held /\ \A s \in Slots : worker'[s] \in {worker[s], None}
      BY <1>7 DEF ThrowJob, TypeOK
    <2>5. QED
      BY <1>7, <2>3, <2>4 DEF InHand
  <1>8. ASSUME NEW i \in Instances, NEW k \in Kinds, NEW s, GoTo(i, k, s),
               worker[<<i, k>>] # None, UNCHANGED <<held, jobs>>
        PROVE  G
    <2> DEFINE w == worker[<<i, k>>]
    <2>1. w \in Busy
      BY <1>8 DEF TypeOK
    <2>2. [w EXCEPT !.step = s].job = w.job
      BY <2>1 DEF Busy
    <2>3. QED
      BY <1>6, <1>8, <2>2 DEF GoTo, TypeOK
  <1>9. ASSUME NEW i \in Instances, SelectTriggers(i) PROVE G
    <2> DEFINE w == worker[<<i, "event">>]
    <2>1. w \in Busy /\ w # None
      BY <1>9 DEF SelectTriggers, At, TypeOK, Kinds
    <2> DEFINE v == [w EXCEPT !.step = "insert",
                      !.read = triggers \cap Matching[Row(i, "event")]]
    <2>2. v.job = w.job
      BY <2>1 DEF Busy
    <2>3. worker' = [worker EXCEPT ![<<i, "event">>] = v]
      BY <1>9 DEF SelectTriggers
    <2>4. \A s \in Slots : worker'[s] # None =>
            worker[s] # None /\ worker'[s].job = worker[s].job
      BY <2>1, <2>2, <2>3 DEF TypeOK
    <2>5. QED
      BY <1>6, <1>9, <2>4 DEF SelectTriggers
  <1>10. ASSUME NEW i \in Instances, \/ InsertActions(i) \/ MarkProcessed(i)
         PROVE  G
    BY <1>8, <1>10 DEF InsertActions, MarkProcessed, At, Kinds
  <1>11. ASSUME NEW i \in Instances,
                \/ BeginAction(i) \/ TenantMissing(i) \/ RunAction(i)
                \/ CompleteAction(i)
         PROVE  G
    BY <1>8, <1>11
       DEF BeginAction, TenantMissing, RunAction, CompleteAction, At, Kinds
  <1>12. ASSUME NEW i \in Instances, InsertRefused(i) \/ EffectThenThrow(i)
         PROVE  G
    BY <1>7, <1>12 DEF InsertRefused, EffectThenThrow, At, Kinds
  <1>13. ASSUME NEW i \in Instances, NEW k \in Kinds, StepFails(i, k) PROVE G
    BY <1>7, <1>13 DEF StepFails
  <1>14. ASSUME NEW i \in Instances, NEW k \in Kinds, Finish(i, k) PROVE G
    BY <1>6, <1>14 DEF Finish, TypeOK
  <1>15. ASSUME NEW i \in Instances, Crash(i) PROVE G
    <2> DEFINE lost == {worker[<<i, k>>].job :
                          k \in {k \in Kinds : worker[<<i, k>>] # None}}
               back == {j \in lost : j.stalls < MaxStalls}
    <2>1. \A j \in lost : j \in Job /\ \E s \in Slots :
            worker[s] # None /\ worker[s].job = j
      BY DEF TypeOK, Busy
    <2>2. \A j \in lost : [j EXCEPT !.stalls = @ + 1].of = j.of
      BY <2>1 DEF Job
    <2>3. jobs' = jobs \cup {[j EXCEPT !.stalls = @ + 1] : j \in back}
      BY <1>15 DEF Crash
    <2>4. \A j \in jobs' : j \in jobs \/ \E s \in Slots :
            worker[s] # None /\ worker[s].job.of = j.of
      <3> SUFFICES ASSUME NEW j \in jobs', j \notin jobs
                   PROVE  \E s \in Slots : worker[s] # None /\ worker[s].job.of = j.of
        OBVIOUS
      <3>1. PICK l \in lost : j = [l EXCEPT !.stalls = @ + 1]
        BY <2>3
      <3>2. j.of = l.of
        BY <2>2, <3>1
      <3>3. QED
        BY <2>1, <3>2
    <2>5. \A s \in Slots : held'[s] \in {{}, held[s]} /\ worker'[s] \in {None, worker[s]}
      BY <1>15 DEF Crash
    <2>6. QED
      BY <2>4, <2>5 DEF InHand
  <1>16. ASSUME NEW e \in Events, Emit(e) \/ Expire(e) PROVE G
    BY <1>1, <1>16 DEF Emit, Expire
  <1>17. ASSUME \/ PurgeExpired \/ DeleteTriggers \/ DeleteTenant
                \/ \E S \in SUBSET Events : ResetStuck(S)
                \/ \E t \in Triggers : DeleteTrigger(t)
         PROVE  G
    BY <1>1, <1>17 DEF PurgeExpired, DeleteTriggers, DeleteTenant, ResetStuck,
                       DeleteTrigger, DropTriggers
  <1>18. CASE UNCHANGED vars
    BY <1>1, <1>18 DEF vars
  <1>19. QED
    BY <1>2, <1>3, <1>4, <1>5, <1>9, <1>10, <1>11, <1>12, <1>13, <1>14, <1>15,
       <1>16, <1>17, <1>18
       DEF Next, EventStep, ActionStep, Serve

-----------------------------------------------------------------------------
\* What a step may do to a worker: nothing, become idle, take a job of its own
\* kind, or go on with the one it has.  Only InsertActions leads to "mark".
WorkerMoves(s) ==
  \/ worker'[s] \in {worker[s], None}
  \/ /\ worker[s] = None
     /\ worker'[s].job.of \in RowsOf(s[2])
     /\ worker'[s].step # "mark"
  \/ /\ worker[s] # None
     /\ worker'[s].job = worker[s].job
     /\ \/ worker'[s].step # "mark"
        \/ fired'[worker[s].job.of] = fired[worker[s].job.of] + 1

LEMMA WorkersMove ==
  ASSUME PipelineInv, [Next]_vars
  PROVE  \A s \in Slots : WorkerMoves(s)
  <1> DEFINE G == \A s \in Slots : WorkerMoves(s)
  <1> USE DEF PipelineInv, queues, Slots
  <1>1. ASSUME UNCHANGED worker PROVE G
    BY <1>1 DEF WorkerMoves
  <1>2. ASSUME NEW i \in Instances, NEW k \in Kinds, Take(i, k) PROVE G
    <2>1. PICK j \in jobs :
            /\ KindOf(j.of) = k
            /\ worker' = [worker EXCEPT ![<<i, k>>] =
                            [job |-> j, step |-> FirstStep(k), read |-> {}]]
      BY <1>2 DEF Take
    <2>2. j.of \in Rows
      BY DEF TypeOK, Job
    <2>3. j.of \in RowsOf(k)
      BY <2>1, <2>2 DEF KindOf, RowsOf, Rows, Kinds
    <2>4. worker[<<i, k>>] = None
      BY <1>2 DEF Take
    <2>5. FirstStep(k) # "mark"
      BY DEF FirstStep
    <2>6. QED
      BY <2>1, <2>3, <2>4, <2>5 DEF WorkerMoves, TypeOK
  <1>3. ASSUME NEW i \in Instances, NEW k \in Kinds, ThrowJob(i, k) PROVE G
    BY <1>3 DEF ThrowJob, TypeOK, WorkerMoves
  <1>4. ASSUME NEW i \in Instances, NEW k \in Kinds, NEW s, GoTo(i, k, s),
               worker[<<i, k>>] # None,
               s # "mark" \/ fired'[Row(i, k)] = fired[Row(i, k)] + 1
        PROVE  G
    <2> DEFINE w == worker[<<i, k>>]
               v == [w EXCEPT !.step = s]
    <2>1. w \in Busy
      BY <1>4 DEF TypeOK
    <2>2. v.job = w.job /\ v.step = s
      BY <2>1 DEF Busy
    <2>3. worker' = [worker EXCEPT ![<<i, k>>] = v]
      BY <1>4 DEF GoTo
    <2>4. QED
      BY <1>4, <2>2, <2>3 DEF TypeOK, WorkerMoves, Row
  <1>5. ASSUME NEW i \in Instances, SelectTriggers(i) PROVE G
    <2> DEFINE w == worker[<<i, "event">>]
    <2>1. w \in Busy /\ w # None
      BY <1>5 DEF SelectTriggers, At, TypeOK, Kinds
    <2> DEFINE v == [w EXCEPT !.step = "insert",
                      !.read = triggers \cap Matching[Row(i, "event")]]
    <2>2. v.job = w.job /\ v.step = "insert"
      BY <2>1 DEF Busy
    <2>3. worker' = [worker EXCEPT ![<<i, "event">>] = v]
      BY <1>5 DEF SelectTriggers
    <2>4. QED
      BY <2>1, <2>2, <2>3 DEF TypeOK, WorkerMoves
  <1>6. ASSUME NEW i \in Instances, InsertActions(i) PROVE G
    <2>1. worker[<<i, "event">>] # None
      BY <1>6 DEF InsertActions, At
    <2>2. fired'[Row(i, "event")] = fired[Row(i, "event")] + 1
      BY <1>6, <2>1, EventWorker DEF InsertActions, TypeOK
    <2>3. QED
      BY <1>4, <1>6, <2>1, <2>2 DEF InsertActions, Kinds
  <1>7. ASSUME NEW i \in Instances, MarkProcessed(i) PROVE G
    BY <1>4, <1>7 DEF MarkProcessed, At, Kinds
  <1>8. ASSUME NEW i \in Instances,
               \/ BeginAction(i) \/ TenantMissing(i) \/ RunAction(i)
               \/ CompleteAction(i)
        PROVE  G
    BY <1>4, <1>8
       DEF BeginAction, TenantMissing, RunAction, CompleteAction, At, Kinds
  <1>9. ASSUME NEW i \in Instances, InsertRefused(i) \/ EffectThenThrow(i)
        PROVE  G
    BY <1>3, <1>9 DEF InsertRefused, EffectThenThrow, Kinds
  <1>10. ASSUME NEW i \in Instances, NEW k \in Kinds, StepFails(i, k) PROVE G
    BY <1>3, <1>10 DEF StepFails
  <1>11. ASSUME NEW i \in Instances, NEW k \in Kinds, Finish(i, k) PROVE G
    BY <1>11 DEF Finish, TypeOK, WorkerMoves
  <1>12. ASSUME NEW i \in Instances, Crash(i) PROVE G
    BY <1>12 DEF Crash, WorkerMoves
  <1>13. ASSUME NEW i \in Instances, NEW k \in Kinds,
                Poll(i, k) \/ Add(i, k) \/ AddFails(i, k)
         PROVE  G
    BY <1>1, <1>13 DEF Poll, Add, AddFails
  <1>14. ASSUME NEW e \in Events, Emit(e) \/ Expire(e) PROVE G
    BY <1>1, <1>14 DEF Emit, Expire
  <1>15. ASSUME \/ PurgeExpired \/ DeleteTriggers \/ DeleteTenant
                \/ \E S \in SUBSET Events : ResetStuck(S)
                \/ \E t \in Triggers : DeleteTrigger(t)
         PROVE  G
    BY <1>1, <1>15 DEF PurgeExpired, DeleteTriggers, DeleteTenant, ResetStuck,
                       DeleteTrigger, DropTriggers
  <1>16. CASE UNCHANGED vars
    BY <1>1, <1>16 DEF vars
  <1>17. QED
    BY <1>2, <1>5, <1>6, <1>7, <1>8, <1>9, <1>10, <1>11, <1>12, <1>13, <1>14,
       <1>15, <1>16
       DEF Next, EventStep, ActionStep, Serve

\* The history of evaluations only grows.
LEMMA FiredGrows ==
  ASSUME PipelineInv, [Next]_vars
  PROVE  /\ \A e \in Events : fired'[e] >= fired[e]
         /\ \/ UNCHANGED fired
            \/ \E i \in Instances : InsertActions(i)
  <1>1. UNCHANGED fired \/ \E i \in Instances : InsertActions(i)
    BY DEF Next, vars, history, queues, tables, Emit, Expire, PurgeExpired,
           ResetStuck, DeleteTrigger, DeleteTriggers, DropTriggers,
           DeleteTenant, EventStep, ActionStep, Serve, SelectTriggers,
           InsertRefused, MarkProcessed, BeginAction, TenantMissing, RunAction,
           CompleteAction, EffectThenThrow, Crash, Poll, Add, AddFails, Take,
           Finish, StepFails
  <1>2. fired \in [Events -> Nat]
    BY Bounds DEF PipelineInv, TypeOK
  <1>3. ASSUME NEW i \in Instances, InsertActions(i)
        PROVE  \A e \in Events : fired'[e] >= fired[e]
    BY <1>2, <1>3 DEF InsertActions
  <1>4. QED
    BY <1>1, <1>2, <1>3

\* Only rows that exist expire.
LEMMA ExpiredStep ==
  ASSUME PipelineInv, [Next]_vars
  PROVE  \A e \in Events :
           e \in expired' => e \in expired \/ row[e] # "none"
  BY DEF Next, vars, history, queues, tables, Emit, Expire, PurgeExpired,
         ResetStuck, DeleteTrigger, DeleteTriggers, DropTriggers, DeleteTenant,
         EventStep, ActionStep, Serve, SelectTriggers, InsertActions,
         InsertRefused, MarkProcessed, BeginAction, TenantMissing, RunAction,
         CompleteAction, EffectThenThrow, Crash, Poll, Add, AddFails, Take,
         Finish, StepFails, Exists

LEMMA PipelineInvInit == Init => PipelineInv
  BY InitType DEF Init, PipelineInv, OwnKind, EmittedFirst, FiredFirst, InHand,
                  At, Slots, Kinds

LEMMA PipelineInvStep == PipelineInv /\ [Next]_vars => PipelineInv'
  <1> SUFFICES ASSUME PipelineInv, [Next]_vars PROVE PipelineInv'
    OBVIOUS
  <1>1. TypeOK'
    BY TypeStep DEF PipelineInv
  <1>2. OwnKind'
    <2>1. \A s \in Slots : worker'[s] # None => worker'[s].job.of \in RowsOf(s[2])
      BY WorkersMove DEF WorkerMoves, PipelineInv, OwnKind
    <2>2. QED
      BY <2>1 DEF OwnKind
  <1>3. EmittedFirst'
    <2> SUFFICES ASSUME NEW e \in Events, row'[e] = "none"
                 PROVE  e \notin expired' /\ ~InHand(e)'
      BY DEF EmittedFirst
    <2>1. row[e] = "none"
      BY EventsMove DEF EventMoves
    <2>2. e \notin expired /\ ~InHand(e)
      BY <2>1 DEF PipelineInv, EmittedFirst
    <2>3. QED
      BY <2>1, <2>2, InHandStep, ExpiredStep DEF Rows
  <1>4. FiredFirst'
    <2> SUFFICES ASSUME NEW i \in Instances,
                        worker'[<<i, "event">>] # None,
                        worker'[<<i, "event">>].step = "mark"
                 PROVE  fired'[worker'[<<i, "event">>].job.of] > 0
      BY DEF FiredFirst, At, Row
    <2> DEFINE s == <<i, "event">>
    <2>1. s \in Slots /\ WorkerMoves(s)
      BY WorkersMove DEF Slots, Kinds
    <2>2. worker[s] # None /\ worker'[s].job = worker[s].job
      BY <2>1 DEF WorkerMoves
    <2>3. Row(i, "event") \in Events
      BY <2>2, EventWorker
    <2>4. fired[worker[s].job.of] \in Nat /\ fired'[worker[s].job.of] \in Nat
      BY <2>3, <1>1, Bounds DEF PipelineInv, TypeOK, Row
    <2>5. fired'[worker[s].job.of] >= fired[worker[s].job.of]
      BY <2>3, FiredGrows DEF Row
    <2>6. CASE worker'[s] = worker[s]
      BY <2>2, <2>4, <2>5, <2>6 DEF PipelineInv, FiredFirst, At, Row
    <2>7. CASE fired'[worker[s].job.of] = fired[worker[s].job.of] + 1
      BY <2>2, <2>4, <2>7
    <2>8. QED
      BY <2>1, <2>2, <2>6, <2>7 DEF WorkerMoves
  <1>5. QED
    BY <1>1, <1>2, <1>3, <1>4 DEF PipelineInv

LEMMA PipelineInvHolds == Spec => []PipelineInv
  BY PipelineInvInit, PipelineInvStep, PTL DEF Spec

\* A processed event is never given back to the pollers: not by a late job,
\* not by a second job of the event, not by the cron job that resets the
\* stuck ones.
THEOREM ProcessedForGood == Spec => ProcessedIsFinal
  <1>1. PipelineInv /\ [Next]_vars =>
          [\A e \in Events :
             row[e] = "processed" => row'[e] \in {"processed", "gone"}]_vars
    BY EventsMove DEF EventMoves
  <1>2. QED
    BY <1>1, PipelineInvHolds, PTL DEF Spec, ProcessedIsFinal

-----------------------------------------------------------------------------
(* Carriers: a row that was claimed once is in one place at most, and a    *)
(* row of actions is claimed once.                                         *)

Works(s, r) == worker[s] # None /\ worker[s].job.of = r
Holds(s, r) == \E c \in held[s] : c.of = r
Waits(r) == \E j \in jobs : j.of = r

OneHand(r) ==
  /\ \A s, u \in Slots : \A c \in held[s] : \A d \in held[u] :
       c.of = r /\ d.of = r => s = u /\ c = d
  /\ \A j, l \in jobs : j.of = r /\ l.of = r => j = l
  /\ \A s, u \in Slots : Works(s, r) /\ Works(u, r) => s = u
  /\ \A s \in Slots : Holds(s, r) => ~Waits(r) /\ \A u \in Slots : ~Works(u, r)
  /\ \A s \in Slots : Works(s, r) => ~Waits(r)

HandOk(r) == /\ claims[r] <= 1 => OneHand(r)
             /\ claims[r] = 0 => ~InHand(r)
HandsInv == \A r \in Rows : HandOk(r)

\* Rows of actions that an evaluation has yet to insert do not exist.
FreshInv == \A e \in Events, t \in Triggers, n \in 1 .. MaxFired :
              n > fired[e] => row[<<e, t, n>>] = "none"

ClaimedOnce(a) == /\ claims[a] <= 1
                  /\ row[a] \in {"none", "pending"} => claims[a] = 0
ActionsInv == \A a \in Actions : ClaimedOnce(a)

CarrierInv == PipelineInv /\ HandsInv /\ FreshInv /\ ActionsInv

\* Whoever has a row afterwards had it before.
HandsShrink ==
  /\ \A s \in Slots : held'[s] \subseteq held[s]
  /\ jobs' \subseteq jobs
  /\ \A s \in Slots : worker'[s] # None => worker[s] # None /\ worker'[s].job = worker[s].job

LEMMA ShrinkHands ==
  ASSUME HandsInv, HandsShrink, claims' = claims
  PROVE  HandsInv'
  BY DEF HandsInv, HandsShrink, HandOk, OneHand, Works, Holds, Waits, InHand

LEMMA AddHands ==
  ASSUME TypeOK, HandsInv, NEW i \in Instances, NEW k \in Kinds, Add(i, k)
  PROVE  HandsInv'
  <1>1. PICK c \in held[<<i, k>>] :
          /\ jobs' = jobs \cup {[of |-> c.of, claim |-> c.claim, tries |-> 0, stalls |-> 0]}
          /\ held' = [held EXCEPT ![<<i, k>>] = @ \ {c}]
    BY DEF Add
  <1>2. PICK j : j = [of |-> c.of, claim |-> c.claim, tries |-> 0, stalls |-> 0]
    OBVIOUS
  <1>3. j.of = c.of /\ jobs' = jobs \cup {j} /\ <<i, k>> \in Slots
    BY <1>1, <1>2 DEF Slots
  <1>4. \A s \in Slots : held'[s] = IF s = <<i, k>> THEN held[s] \ {c} ELSE held[s]
    BY <1>1 DEF TypeOK, Slots
  <1>5. worker' = worker /\ claims' = claims
    BY DEF Add, history
  <1>6. QED
    BY <1>1, <1>3, <1>4, <1>5 DEF HandsInv, HandOk, OneHand, Works, Holds, Waits, InHand

LEMMA TakeHands ==
  ASSUME TypeOK, HandsInv, NEW i \in Instances, NEW k \in Kinds, Take(i, k)
  PROVE  HandsInv'
  <1>1. PICK j \in jobs :
          /\ jobs' = jobs \ {j}
          /\ worker' = [worker EXCEPT ![<<i, k>>] = [job |-> j, step |-> FirstStep(k), read |-> {}]]
    BY DEF Take
  <1>2. <<i, k>> \in Slots /\ worker[<<i, k>>] = None
    BY DEF Take, Slots
  <1>3. \A s \in Slots : IF s = <<i, k>> THEN worker'[s].job = j ELSE worker'[s] = worker[s]
    BY <1>1 DEF TypeOK, Slots
  <1>4. held' = held /\ claims' = claims
    BY DEF Take, history
  <1>5. QED
    BY <1>1, <1>2, <1>3, <1>4 DEF HandsInv, HandOk, OneHand, Works, Holds, Waits, InHand

LEMMA ThrowHands ==
  ASSUME TypeOK, HandsInv, NEW i \in Instances, NEW k \in Kinds,
         worker[<<i, k>>] # None, ThrowJob(i, k), claims' = claims
  PROVE  HandsInv'
  <1>1. PICK w \in Busy : w = worker[<<i, k>>]
    BY DEF TypeOK
  <1>2. PICK j : j = [w.job EXCEPT !.tries = @ + 1]
    OBVIOUS
  <1>3. j.of = w.job.of
    BY <1>2 DEF Busy, Job
  <1>4. held' = held /\ jobs' \subseteq jobs \cup {j}
    BY <1>1, <1>2 DEF ThrowJob
  <1>5. <<i, k>> \in Slots /\ \A s \in Slots : worker'[s] = IF s = <<i, k>> THEN None ELSE worker[s]
    BY DEF ThrowJob, TypeOK, Slots
  <1>6. QED
    BY <1>1, <1>3, <1>4, <1>5 DEF HandsInv, HandOk, OneHand, Works, Holds, Waits, InHand

LEMMA CrashHands ==
  ASSUME TypeOK, HandsInv, NEW i \in Instances, Crash(i)
  PROVE  HandsInv'
  <1> DEFINE lost == {worker[<<i, k>>].job : k \in {k \in Kinds : worker[<<i, k>>] # None}}
             back == {j \in lost : j.stalls < MaxStalls}
  <1>1. \A s \in Slots : /\ held'[s] = IF s[1] = i THEN {} ELSE held[s]
                         /\ worker'[s] = IF s[1] = i THEN None ELSE worker[s]
    BY DEF Crash, Slots
  <1>2. claims' = claims /\ jobs' = jobs \cup {[j EXCEPT !.stalls = @ + 1] : j \in back}
    BY DEF Crash
  <1>3. \A j \in jobs' : j \in jobs \/ \E s \in Slots :
          worker[s] # None /\ s[1] = i /\ j = [worker[s].job EXCEPT !.stalls = @ + 1]
    BY <1>2 DEF Slots
  <1>4. \A s \in Slots : worker[s] # None =>
          [worker[s].job EXCEPT !.stalls = @ + 1].of = worker[s].job.of
    BY DEF TypeOK, Busy, Job, Slots
  <1>5. \A j \in jobs' : j \in jobs \/ \E s \in Slots : Works(s, j.of) /\ s[1] = i
                                          /\ j = [worker[s].job EXCEPT !.stalls = @ + 1]
    <2> SUFFICES ASSUME NEW j \in jobs', j \notin jobs
                 PROVE  \E s \in Slots : Works(s, j.of) /\ s[1] = i /\ j = [worker[s].job EXCEPT !.stalls = @ + 1]
      OBVIOUS
    <2>1. PICK s \in Slots : worker[s] # None /\ s[1] = i /\ j = [worker[s].job EXCEPT !.stalls = @ + 1]
      BY <1>3
    <2>2. j.of = worker[s].job.of
      BY <1>4, <2>1
    <2>3. QED
      BY <2>1, <2>2 DEF Works
  <1>6. SUFFICES ASSUME NEW r \in Rows PROVE HandOk(r)'
    BY DEF HandsInv
  <1>7. ASSUME ~InHand(r) PROVE ~InHand(r)'
    BY <1>1, <1>5, <1>7 DEF InHand, Works
  <1>8. ASSUME OneHand(r) PROVE OneHand(r)'
    <2>1. \A j, l \in jobs' : j.of = r /\ l.of = r => j = l
      BY <1>5, <1>8 DEF OneHand, Waits
    <2>2. \A s \in Slots : Holds(s, r)' => Holds(s, r) /\ s[1] # i
      BY <1>1 DEF Holds
    <2>3. \A s \in Slots : Works(s, r)' => Works(s, r) /\ s[1] # i
      BY <1>1 DEF Works
    <2>4. Waits(r)' => Waits(r) \/ \E s \in Slots : Works(s, r) /\ s[1] = i
      BY <1>5 DEF Waits
    <2>5. QED
      BY <1>1, <1>8, <2>1, <2>2, <2>3, <2>4 DEF OneHand
  <1>9. QED
    BY <1>2, <1>6, <1>7, <1>8 DEF HandsInv, HandOk

LEMMA PollHands ==
  ASSUME TypeOK, HandsInv, NEW i \in Instances, NEW k \in Kinds, Poll(i, k)
  PROVE  HandsInv'
  <1>1. PICK batch \in SUBSET Due(k) :
          /\ claims' = [r \in Rows |-> IF r \in batch THEN claims[r] + 1 ELSE claims[r]]
          /\ held' = [held EXCEPT ![<<i, k>>] = {[of |-> r, claim |-> claims[r] + 1] : r \in batch}]
    BY DEF Poll
  <1>2. jobs' = jobs /\ worker' = worker
    BY DEF Poll
  <1>3. <<i, k>> \in Slots /\ \A s \in Slots :
          held'[s] = IF s = <<i, k>> THEN {[of |-> r, claim |-> claims[r] + 1] : r \in batch} ELSE held[s]
    BY <1>1 DEF TypeOK, Slots
  <1>4. \A r \in Rows : claims[r] \in Nat
    BY DEF TypeOK
  <1> DEFINE Ticket(r) == [of |-> r, claim |-> claims[r] + 1]
  <1>5. \A q : Ticket(q).of = q
    OBVIOUS
  <1>6. \A s \in Slots : held'[s] = IF s = <<i, k>> THEN {Ticket(r) : r \in batch} ELSE held[s]
    BY <1>3
  <1> HIDE DEF Ticket
  <1>7. \A s \in Slots : \A c \in held'[s] :
           c \in held[s] \/ (s = <<i, k>> /\ c.of \in batch /\ c = Ticket(c.of))
    <2> SUFFICES ASSUME NEW s \in Slots, NEW c \in held'[s], c \notin held[s]
                 PROVE  s = <<i, k>> /\ c.of \in batch /\ c = Ticket(c.of)
      OBVIOUS
    <2>1. s = <<i, k>> /\ \E r \in batch : c = Ticket(r)
      BY <1>6
    <2>2. QED
      BY <1>5, <2>1
  <1>8. ASSUME NEW r \in Rows, r \notin batch PROVE HandOk(r)'
    <2>1. held[<<i, k>>] = {} /\ claims'[r] = claims[r]
      BY <1>1, <1>8 DEF Poll
    <2>2. \A s \in Slots : \A c \in held'[s] : c.of = r => c \in held[s]
      BY <1>7, <1>8
    <2>3. HandOk(r)
      BY DEF HandsInv
    <2>4. QED
      BY <1>2, <2>1, <2>2, <2>3 DEF HandOk, OneHand, Works, Holds, Waits, InHand
  <1>9. ASSUME NEW r \in Rows, r \in batch PROVE HandOk(r)'
    <2>1. claims'[r] = claims[r] + 1
      BY <1>1, <1>9
    <2>2. claims'[r] <= 1 => ~InHand(r)
      BY <1>4, <2>1 DEF HandsInv, HandOk
    <2>3. \A s \in Slots : \A c \in held'[s] : c.of = r =>
            c \in held[s] \/ (s = <<i, k>> /\ c = Ticket(r))
      BY <1>7
    <2>4. ASSUME ~InHand(r) PROVE OneHand(r)'
      BY <1>2, <2>3, <2>4 DEF OneHand, Works, Holds, Waits, InHand
    <2>5. QED
      BY <1>4, <2>1, <2>2, <2>4 DEF HandOk
  <1>10. QED
    BY <1>8, <1>9 DEF HandsInv

LEMMA HandsStep ==
  ASSUME PipelineInv, HandsInv, [Next]_vars
  PROVE  HandsInv'
  <1> USE DEF PipelineInv, history
  <1>1. ASSUME UNCHANGED <<held, jobs, worker, claims>> PROVE HandsInv'
    BY <1>1, ShrinkHands DEF HandsShrink
  <1>2. ASSUME NEW i \in Instances, NEW k \in Kinds, NEW s, GoTo(i, k, s), worker[<<i, k>>] # None,
               UNCHANGED <<held, jobs, claims>>
        PROVE  HandsInv'
    <2>1. PICK w \in Busy : w = worker[<<i, k>>]
      BY <1>2 DEF TypeOK
    <2>2. PICK v : v = [w EXCEPT !.step = s]
      OBVIOUS
    <2>3. v.job = w.job /\ worker' = [worker EXCEPT ![<<i, k>>] = v]
      BY <1>2, <2>1, <2>2 DEF Busy, GoTo
    <2>4. HandsShrink
      BY <1>2, <2>1, <2>3 DEF HandsShrink, TypeOK, Slots
    <2>5. QED
      BY <1>2, <2>4, ShrinkHands
  <1>3. ASSUME NEW i \in Instances, SelectTriggers(i) PROVE HandsInv'
    <2>1. PICK w \in Busy : w = worker[<<i, "event">>]
      BY <1>3 DEF SelectTriggers, At, TypeOK, Kinds
    <2>2. PICK v : v = [w EXCEPT !.step = "insert", !.read = triggers \cap Matching[Row(i, "event")]]
      OBVIOUS
    <2>3. v.job = w.job /\ worker' = [worker EXCEPT ![<<i, "event">>] = v]
      BY <1>3, <2>1, <2>2 DEF Busy, SelectTriggers
    <2>4. HandsShrink
      BY <1>3, <2>1, <2>3 DEF HandsShrink, TypeOK, Slots, SelectTriggers, At
    <2>5. QED
      BY <1>3, <2>4, ShrinkHands DEF SelectTriggers
  <1>4. ASSUME NEW i \in Instances,
               \/ InsertActions(i) \/ MarkProcessed(i) \/ BeginAction(i) \/ TenantMissing(i) \/ RunAction(i) \/ CompleteAction(i)
        PROVE  HandsInv'
    BY <1>2, <1>4 DEF InsertActions, MarkProcessed, BeginAction, TenantMissing, RunAction, CompleteAction, At, Kinds
  <1>5. ASSUME NEW i \in Instances, InsertRefused(i) \/ EffectThenThrow(i) PROVE HandsInv'
    BY <1>5, ThrowHands DEF InsertRefused, EffectThenThrow, At, Kinds
  <1>6. ASSUME NEW i \in Instances, NEW k \in Kinds, StepFails(i, k) PROVE HandsInv'
    BY <1>6, ThrowHands DEF StepFails
  <1>7. ASSUME NEW i \in Instances, NEW k \in Kinds, Finish(i, k) \/ AddFails(i, k) PROVE HandsInv'
    <2>1. HandsShrink
      BY <1>7 DEF Finish, AddFails, HandsShrink, TypeOK, Slots
    <2>2. QED
      BY <1>7, <2>1, ShrinkHands DEF Finish, AddFails
  <1>8. ASSUME \/ PurgeExpired \/ DeleteTriggers \/ DeleteTenant
               \/ \E e \in Events : Emit(e) \/ Expire(e)
               \/ \E S \in SUBSET Events : ResetStuck(S)
               \/ \E t \in Triggers : DeleteTrigger(t)
               \/ UNCHANGED vars
        PROVE  HandsInv'
    BY <1>1, <1>8 DEF PurgeExpired, DeleteTriggers, DeleteTenant, Emit, Expire, ResetStuck, DeleteTrigger, DropTriggers,
                      vars, queues
  <1>9. QED
    BY <1>3, <1>4, <1>5, <1>6, <1>7, <1>8, PollHands, AddHands, TakeHands, CrashHands
       DEF Next, EventStep, ActionStep, Serve

\* What a step may do to a row of actions: it is inserted, claimed, moved on by
\* its worker or deleted.
ActionMoves(a) ==
  \/ row'[a] = row[a] \/ (Exists(a) /\ row'[a] \notin {"none", "pending"})
  \/ row'[a] = "pending" /\ a[3] = fired[a[1]] + 1 /\ fired'[a[1]] = a[3]

LEMMA ActionsMove ==
  ASSUME PipelineInv, [Next]_vars
  PROVE  \A a \in Actions : ActionMoves(a)
  <1> DEFINE G == \A a \in Actions : ActionMoves(a)
  <1> USE DEF PipelineInv, tables
  <1> Actions \subseteq Rows /\ row \in [Rows -> Statuses]
    BY DEF Rows, TypeOK
  <1>1. ASSUME row' = row PROVE G
    BY <1>1 DEF ActionMoves
  <1>2. ASSUME NEW r \in Rows, NEW s \in Statuses \ {"none", "pending"}, SetStatus(r, s) PROVE G
    BY <1>2 DEF SetStatus, Exists, ActionMoves
  <1>3. ASSUME \/ PurgeExpired \/ DeleteTenant \/ \E T \in SUBSET Triggers : DropTriggers(T) PROVE G
    BY <1>3, EventIsNoAction DEF PurgeExpired, DeleteTenant, DropTriggers, Exists, ActionMoves, TypeOK
  <1>4. ASSUME \/ \E e \in Events : Emit(e)
               \/ \E S \in SUBSET Events : ResetStuck(S)
        PROVE G
    BY <1>4, EventIsNoAction DEF Emit, ResetStuck, ActionMoves
  <1>5. ASSUME NEW i \in Instances, NEW k \in Kinds, Poll(i, k) PROVE G
    BY <1>5 DEF Poll, Due, ActionMoves, Exists
  <1>6. ASSUME NEW i \in Instances, InsertActions(i) PROVE G
    <2> SUFFICES ASSUME NEW a \in Actions, row'[a] # row[a] PROVE ActionMoves(a)
      BY DEF ActionMoves
    <2>1. PICK w \in Busy : w = worker[<<i, "event">>] /\ w # None
      BY <1>6 DEF InsertActions, At, TypeOK, Kinds
    <2>2. PICK f \in Events : f = Row(i, "event")
      BY <1>6, EventWorker DEF InsertActions, At
    <2>3. PICK t \in w.read : a = <<f, t, fired[f] + 1>> /\ row'[a] = "pending"
      BY <1>6, <2>1, <2>2 DEF InsertActions
    <2>4. fired' = [fired EXCEPT ![f] = @ + 1] /\ fired \in [Events -> 0 .. MaxFired]
      BY <1>6, <2>2 DEF InsertActions, TypeOK
    <2>5. a[1] = f /\ a[3] = fired[f] + 1 /\ fired'[f] = fired[f] + 1
      BY <2>2, <2>3, <2>4
    <2>6. QED
      BY <2>3, <2>5 DEF ActionMoves
  <1>7. ASSUME NEW i \in Instances, MarkProcessed(i) \/ BeginAction(i) \/ TenantMissing(i) \/ CompleteAction(i) PROVE G
    <2>1. Row(i, "event") \in Rows \/ worker[<<i, "event">>] = None
      BY EventWorker DEF Rows
    <2>2. Row(i, "action") \in Rows \/ worker[<<i, "action">>] = None
      BY ActionWorker DEF Rows
    <2>3. QED
      BY <1>2, <1>7, <2>1, <2>2 DEF MarkProcessed, BeginAction, TenantMissing, CompleteAction, At, Statuses
  <1>8. ASSUME NEW i \in Instances,
               \/ SelectTriggers(i) \/ InsertRefused(i) \/ RunAction(i) \/ EffectThenThrow(i) \/ Crash(i)
               \/ \E k \in Kinds : Add(i, k) \/ AddFails(i, k) \/ Take(i, k) \/ Finish(i, k) \/ StepFails(i, k)
        PROVE  G
    BY <1>1, <1>8 DEF SelectTriggers, InsertRefused, RunAction, EffectThenThrow, Crash, Add, AddFails, Take, Finish, StepFails
  <1>9. ASSUME (\E e \in Events : Expire(e)) \/ UNCHANGED vars PROVE G
    BY <1>1, <1>9 DEF Expire, vars
  <1>10. ASSUME DeleteTriggers \/ \E t \in Triggers : DeleteTrigger(t) PROVE G
    BY <1>3, <1>10 DEF DeleteTriggers, DeleteTrigger, TypeOK
  <1>11. QED
    BY <1>3, <1>4, <1>5, <1>6, <1>7, <1>8, <1>9, <1>10 DEF Next, EventStep, ActionStep, Serve

LEMMA FreshStep ==
  ASSUME PipelineInv, FreshInv, [Next]_vars
  PROVE  FreshInv'
  <1> SUFFICES ASSUME NEW e \in Events, NEW t \in Triggers, NEW n \in 1 .. MaxFired, n > fired'[e]
               PROVE  row'[<<e, t, n>>] = "none"
    BY DEF FreshInv
  <1>1. PICK a \in Actions : a = <<e, t, n>> /\ a[1] = e /\ a[3] = n
    <2>1. PICK a : a = <<e, t, n>>
      OBVIOUS
    <2>2. QED
      BY <2>1 DEF Actions
  <1>2. fired[e] \in Nat /\ fired'[e] \in Nat /\ fired'[e] >= fired[e] /\ n \in Nat
    BY FiredGrows, TypeStep, Bounds DEF PipelineInv, TypeOK
  <1>3. row[a] = "none"
    BY <1>1, <1>2 DEF FreshInv
  <1>4. QED
    BY <1>1, <1>2, <1>3, ActionsMove DEF ActionMoves, Exists

LEMMA ActionsStep ==
  ASSUME CarrierInv, [Next]_vars
  PROVE  ActionsInv'
  <1> SUFFICES ASSUME NEW a \in Actions PROVE ClaimedOnce(a)'
    BY DEF ActionsInv
  <1>0. a \in Rows /\ claims[a] \in Nat /\ ClaimedOnce(a)
    BY DEF Rows, CarrierInv, PipelineInv, TypeOK, ActionsInv
  <1>1. CASE claims' = claims
    <2>1. row'[a] \in {"none", "pending"} => row[a] \in {"none", "pending"}
      <3>1. PICK e \in Events, t \in Triggers, n \in 1 .. MaxFired : a = <<e, t, n>> /\ a[1] = e /\ a[3] = n
        BY DEF Actions
      <3>2. fired[e] \in Nat
        BY Bounds DEF CarrierInv, PipelineInv, TypeOK
      <3>3. a[3] = fired[e] + 1 => row[a] = "none"
        BY <3>1, <3>2 DEF CarrierInv, FreshInv
      <3>4. QED
        BY <3>1, <3>3, ActionsMove DEF ActionMoves, CarrierInv, Exists
    <2>2. QED
      BY <1>0, <1>1, <2>1 DEF ClaimedOnce
  <1>2. ASSUME NEW i \in Instances, NEW k \in Kinds, Poll(i, k) PROVE ClaimedOnce(a)'
    BY <1>0, <1>2 DEF Poll, Due, ClaimedOnce, CarrierInv, PipelineInv, TypeOK
  <1>3. claims' = claims \/ \E i \in Instances, k \in Kinds : Poll(i, k)
    BY DEF Next, vars, history, queues, tables, Emit, Expire, PurgeExpired, ResetStuck, DeleteTrigger, DeleteTriggers,
           DropTriggers, DeleteTenant, EventStep, ActionStep, Serve, SelectTriggers, InsertActions, InsertRefused,
           MarkProcessed, BeginAction, TenantMissing, RunAction, CompleteAction, EffectThenThrow, Crash, Add, AddFails,
           Take, Finish, StepFails
  <1>4. QED
    BY <1>1, <1>2, <1>3

LEMMA CarrierInit == Init => CarrierInv
  <1>1. Init => PipelineInv
    BY PipelineInvInit
  <1>2. Init => HandsInv
    BY DEF Init, HandsInv, HandOk, OneHand, Works, Holds, Waits, InHand, Slots
  <1>3. Init => FreshInv /\ ActionsInv
    BY DEF Init, FreshInv, ActionsInv, ClaimedOnce, Actions, Rows
  <1>4. QED
    BY <1>1, <1>2, <1>3 DEF CarrierInv

LEMMA CarrierStep == CarrierInv /\ [Next]_vars => CarrierInv'
  BY PipelineInvStep, HandsStep, FreshStep, ActionsStep DEF CarrierInv

LEMMA CarrierAlways == Spec => []CarrierInv
  BY CarrierInit, CarrierStep, PTL DEF Spec

\* An action is in one place at most: with one poller, in one queued job or
\* with one worker, for any number of instances and faults
\* (AutomationActionPoller.poll, AutomationActionProcessor.process).
THEOREM OneCarrier == Spec => []ActionsHaveOneCarrier
  <1>1. ASSUME CarrierInv, NEW a \in Actions
        PROVE  Cardinality(Carriers(a)) <= 1
    <2>1. OneHand(a)
      BY <1>1 DEF CarrierInv, HandsInv, HandOk, ActionsInv, ClaimedOnce, Rows
    <2>2. \A x, y \in Carriers(a) : x = y
      BY <2>1 DEF Carriers, OneHand, Works, Holds, Waits, Slots
    <2>3. Carriers(a) = {} \/ \E x : Carriers(a) = {x}
      BY <2>2
    <2>4. QED
      <3>1. ASSUME NEW x PROVE Cardinality({x}) = 1
        BY FS_Singleton
      <3>2. Cardinality({}) = 0
        BY FS_EmptySet
      <3>3. Cardinality(Carriers(a)) \in {0, 1}
        BY <2>3, <3>1, <3>2, Zenon
      <3>4. QED
        BY <3>3
  <1>2. CarrierInv => ActionsHaveOneCarrier
    BY <1>1 DEF ActionsHaveOneCarrier
  <1>3. QED
    BY <1>2, CarrierAlways, PTL

-----------------------------------------------------------------------------
(* Attempts: what the column counts, the job that carries the row bounds.  *)

Tried(j) == j.tries + j.stalls

Spent(a) ==
  /\ Exists(a) => effects[a] <= attempts[a]
  /\ row[a] \in {"none", "pending"} => attempts[a] = 0 /\ effects[a] = 0
  /\ \A s \in Slots : Holds(s, a) => attempts[a] = 0
  /\ \A j \in jobs : j.of = a => attempts[a] <= Tried(j)
  /\ \A s \in Slots : Works(s, a) =>
       /\ attempts[a] <= Tried(worker[s].job) + 1
       /\ worker[s].step = "begin" => attempts[a] <= Tried(worker[s].job)
       /\ worker[s].step = "run" /\ Exists(a) => effects[a] < attempts[a]
  /\ attempts[a] <= MaxTries + MaxStalls
SpentInv == \A a \in Actions : Spent(a)

\* The row of a moves as rows of actions do, and its numbers stay.
RowKeeps(a) == \/ row'[a] = row[a]
               \/ Exists(a) /\ row'[a] \notin {"none", "pending"}
               \/ row[a] = "none" /\ row'[a] = "pending"

LEMMA RowsKeep ==
  ASSUME CarrierInv, [Next]_vars
  PROVE  \A a \in Actions : RowKeeps(a)
  <1> SUFFICES ASSUME NEW a \in Actions PROVE RowKeeps(a)
    OBVIOUS
  <1>1. PICK e \in Events, t \in Triggers, n \in 1 .. MaxFired : a = <<e, t, n>> /\ a[1] = e /\ a[3] = n
    BY DEF Actions
  <1>2. fired[e] \in Nat
    BY Bounds DEF CarrierInv, PipelineInv, TypeOK
  <1>3. a[3] = fired[e] + 1 => row[a] = "none"
    BY <1>1, <1>2 DEF CarrierInv, FreshInv
  <1>4. QED
    BY <1>1, <1>3, ActionsMove DEF ActionMoves, CarrierInv, RowKeeps

\* Of a row that somebody has the status says that it was claimed.
LEMMA CarriedRows ==
  ASSUME CarrierInv, NEW a \in Actions
  PROVE  /\ OneHand(a)
         /\ InHand(a) => row[a] \notin {"none", "pending"}
  BY DEF CarrierInv, HandsInv, HandOk, ActionsInv, ClaimedOnce, Rows

LEMMA Numbers ==
  ASSUME TypeOK, NEW a \in Actions
  PROVE  /\ attempts[a] \in Nat /\ effects[a] \in Nat /\ MaxTries \in Nat /\ MaxStalls = 1 /\ a \in Rows
         /\ \A j \in Job : Tried(j) \in Nat /\ Tried(j) < MaxTries + MaxStalls
  <1>1. attempts[a] \in Nat /\ effects[a] \in Nat /\ MaxTries \in Nat /\ MaxStalls = 1 /\ a \in Rows
    BY PipelineConstants DEF TypeOK, MaxStalls, Rows
  <1>2. \A j \in Job : j.tries \in 0 .. MaxTries - 1 /\ j.stalls \in 0 .. MaxStalls
    BY DEF Job
  <1>3. QED
    BY <1>1, <1>2 DEF Tried

\* A worker that does not run the row's action leaves its numbers.
SpentKeeps(a) ==
  /\ attempts'[a] = attempts[a] /\ effects'[a] = effects[a]
  /\ \A s \in Slots : held'[s] \subseteq held[s]
  /\ \A j \in jobs' : j.of = a => j \in jobs
  /\ \A s \in Slots : Works(s, a)' =>
       /\ Works(s, a) /\ worker'[s].job = worker[s].job
       /\ worker'[s].step \in {worker[s].step, "complete", "ack"}

LEMMA SpentStays ==
  ASSUME CarrierInv, NEW a \in Actions, Spent(a), RowKeeps(a), SpentKeeps(a)
  PROVE  Spent(a)'
  <1>1. attempts'[a] = attempts[a] /\ effects'[a] = effects[a] /\ attempts[a] \in Nat /\ effects[a] \in Nat
    BY Numbers DEF SpentKeeps, CarrierInv, PipelineInv
  <1>2. /\ Exists(a)' => effects[a] <= attempts[a]
        /\ row'[a] \in {"none", "pending"} => attempts[a] = 0 /\ effects[a] = 0
    BY <1>1 DEF Spent, RowKeeps, Exists
  <1>3. /\ \A s \in Slots : Holds(s, a)' => attempts[a] = 0
        /\ \A j \in jobs' : j.of = a => attempts[a] <= Tried(j)
    BY DEF Spent, SpentKeeps, Holds
  <1>4. ASSUME NEW s \in Slots, Works(s, a)'
        PROVE  /\ attempts[a] <= Tried(worker'[s].job) + 1
               /\ worker'[s].step = "begin" => attempts[a] <= Tried(worker'[s].job)
               /\ worker'[s].step = "run" /\ Exists(a)' => effects[a] < attempts[a]
    <2>1. Works(s, a) /\ worker'[s].job = worker[s].job /\ worker'[s].step \in {worker[s].step, "complete", "ack"}
      BY <1>4 DEF SpentKeeps
    <2>2. row[a] # "none"
      BY <2>1, CarriedRows DEF InHand, Works
    <2>3. QED
      BY <2>1, <2>2 DEF Spent, RowKeeps, Exists
  <1>5. QED
    BY <1>1, <1>2, <1>3, <1>4 DEF Spent

LEMMA SpentStep ==
  ASSUME CarrierInv, SpentInv, [Next]_vars
  PROVE  SpentInv'
  <1> SUFFICES ASSUME NEW a \in Actions PROVE Spent(a)'
    BY DEF SpentInv
  <1>0. TypeOK /\ Spent(a) /\ RowKeeps(a) /\ a \in Rows
    BY RowsKeep DEF CarrierInv, PipelineInv, SpentInv, Rows
  <1>. USE DEF tables, queues, history
  <1>1. ASSUME attempts' = attempts, effects' = effects, held' = held, jobs' = jobs, worker' = worker
        PROVE  Spent(a)'
    BY <1>0, <1>1, SpentStays DEF SpentKeeps, Works
  <1>2. ASSUME NEW i \in Instances, NEW k \in Kinds, Poll(i, k) PROVE Spent(a)'
    <2>1. PICK batch \in SUBSET Due(k) :
            /\ row' = [r \in Rows |-> IF r \in batch THEN "queued" ELSE row[r]]
            /\ held' = [held EXCEPT ![<<i, k>>] = {[of |-> r, claim |-> claims[r] + 1] : r \in batch}]
      BY <1>2 DEF Poll
    <2>2. \A s \in Slots : \A c \in held'[s] : c \in held[s] \/ c.of \in batch
      BY <1>0, <2>1 DEF TypeOK, Slots
    <2>3. a \in batch => row[a] = "pending"
      BY <2>1 DEF Due
    <2>4. UNCHANGED <<jobs, worker, attempts, effects>>
      BY <1>2 DEF Poll
    <2>5. QED
      BY <1>0, <2>1, <2>2, <2>3, <2>4, Numbers DEF Spent, RowKeeps, Holds, Works, Exists
  <1>3. ASSUME NEW i \in Instances, NEW k \in Kinds, Add(i, k) PROVE Spent(a)'
    <2>1. PICK c \in held[<<i, k>>] :
            /\ jobs' = jobs \cup {[of |-> c.of, claim |-> c.claim, tries |-> 0, stalls |-> 0]}
            /\ held' = [held EXCEPT ![<<i, k>>] = @ \ {c}]
      BY <1>3 DEF Add
    <2>2. PICK j : j = [of |-> c.of, claim |-> c.claim, tries |-> 0, stalls |-> 0]
      OBVIOUS
    <2>3. j.of = c.of /\ Tried(j) = 0 /\ jobs' = jobs \cup {j} /\ <<i, k>> \in Slots
      BY <2>1, <2>2 DEF Tried, Slots
    <2>4. \A s \in Slots : held'[s] \subseteq held[s]
      BY <1>0, <2>1 DEF TypeOK, Slots
    <2>5. UNCHANGED <<row, worker, attempts, effects>>
      BY <1>3 DEF Add
    <2>6. QED
      BY <1>0, <2>1, <2>3, <2>4, <2>5, Numbers DEF Spent, Holds, Works, Exists
  <1>4. ASSUME NEW i \in Instances, NEW k \in Kinds, Take(i, k) PROVE Spent(a)'
    <2>1. PICK j \in jobs :
            /\ jobs' = jobs \ {j}
            /\ worker' = [worker EXCEPT ![<<i, k>>] = [job |-> j, step |-> FirstStep(k), read |-> {}]]
      BY <1>4 DEF Take
    <2>2. \A s \in Slots : IF s = <<i, k>> THEN worker'[s].job = j /\ worker'[s].step # "run" ELSE worker'[s] = worker[s]
      BY <1>0, <2>1 DEF TypeOK, Slots, FirstStep
    <2>3. UNCHANGED <<row, held, attempts, effects>> /\ Tried(j) \in Nat
      BY <1>0, <1>4, Numbers DEF Take, TypeOK
    <2>4. QED
      BY <1>0, <2>1, <2>2, <2>3, Numbers DEF Spent, Holds, Works, Exists
  <1>5. ASSUME NEW i \in Instances, NEW k \in Kinds, worker[<<i, k>>] # None, ThrowJob(i, k), row' = row, attempts' = attempts,
               effects'[a] = effects[a] \/ (worker[<<i, k>>].step = "run" /\ Works(<<i, k>>, a) /\ effects'[a] = effects[a] + 1)
        PROVE  Spent(a)'
    <2>1. PICK w \in Busy : w = worker[<<i, k>>]
      BY <1>0, <1>5 DEF TypeOK
    <2>2. PICK j : j = [w.job EXCEPT !.tries = @ + 1]
      OBVIOUS
    <2>3. j.of = w.job.of /\ w.job \in Job /\ Tried(j) = Tried(w.job) + 1
      <3>1. w.job \in Job /\ w.job.tries \in Nat /\ w.job.stalls \in Nat
        BY PipelineConstants DEF Busy, Job, MaxStalls
      <3>2. j.of = w.job.of /\ j.tries = w.job.tries + 1 /\ j.stalls = w.job.stalls
        BY <2>2, <3>1 DEF Job
      <3>3. QED
        BY <3>1, <3>2 DEF Tried
    <2>4. held' = held /\ jobs' \subseteq jobs \cup {j}
      BY <1>5, <2>1, <2>2 DEF ThrowJob
    <2>5. <<i, k>> \in Slots /\ \A s \in Slots : worker'[s] = IF s = <<i, k>> THEN None ELSE worker[s]
      BY <1>0, <1>5 DEF ThrowJob, TypeOK, Slots
    <2>6. CASE effects'[a] = effects[a]
      BY <1>0, <1>5, <2>1, <2>3, <2>4, <2>5, <2>6, Numbers DEF Spent, Holds, Works, Exists
    <2>7. CASE effects'[a] # effects[a]
      <3>1. Works(<<i, k>>, a) /\ w.step = "run" /\ effects'[a] = effects[a] + 1 /\ w.job.of = a
        BY <1>5, <2>1, <2>7 DEF Works
      <3>2. OneHand(a) /\ row[a] \notin {"none", "pending"}
        BY <2>5, <3>1, CarriedRows DEF InHand, Works
      <3>3. \A s \in Slots : ~Works(s, a)' /\ ~Holds(s, a)'
        BY <2>4, <2>5, <3>1, <3>2 DEF OneHand, Works, Holds
      <3>4. \A l \in jobs' : l.of = a => l = j
        BY <2>4, <2>5, <3>1, <3>2 DEF OneHand, Waits
      <3>5. QED
        BY <1>0, <1>5, <2>1, <2>3, <2>5, <3>1, <3>2, <3>3, <3>4, Numbers DEF Spent, Exists
    <2>8. QED
      BY <2>6, <2>7
  <1>6. ASSUME NEW i \in Instances, Crash(i) PROVE Spent(a)'
    <2> DEFINE lost == {worker[<<i, k>>].job : k \in {k \in Kinds : worker[<<i, k>>] # None}}
               back == {j \in lost : j.stalls < MaxStalls}
    <2>1. \A s \in Slots : held'[s] \subseteq held[s] /\ worker'[s] \in {None, worker[s]}
      BY <1>6 DEF Crash, Slots
    <2>2. jobs' = jobs \cup {[j EXCEPT !.stalls = @ + 1] : j \in back}
      BY <1>6 DEF Crash
    <2>3. UNCHANGED <<row, attempts, effects>>
      BY <1>6 DEF Crash
    <2>4. ASSUME NEW j \in jobs', j.of = a PROVE attempts[a] <= Tried(j)
      <3>1. CASE j \in jobs
        BY <1>0, <2>4, <3>1 DEF Spent
      <3>2. CASE j \notin jobs
        <4>1. PICK l \in lost : j = [l EXCEPT !.stalls = @ + 1]
          BY <2>2, <3>2
        <4>2. PICK s \in Slots : worker[s] # None /\ worker[s].job = l
          BY <4>1 DEF Slots
        <4>3. l \in Job
          BY <1>0, <4>2 DEF TypeOK, Busy, Slots
        <4>4. j.of = l.of /\ j.tries = l.tries /\ j.stalls = l.stalls + 1 /\ l.tries \in Nat /\ l.stalls \in Nat
          BY <4>1, <4>3, PipelineConstants DEF Job, MaxStalls
        <4>5. Tried(j) = Tried(l) + 1
          BY <4>4 DEF Tried
        <4>6. Works(s, a)
          BY <2>4, <4>2, <4>4 DEF Works
        <4>7. QED
          BY <1>0, <4>2, <4>5, <4>6 DEF Spent
      <3>3. QED
        BY <3>1, <3>2
    <2>5. QED
      BY <1>0, <2>1, <2>3, <2>4, Numbers DEF Spent, Holds, Works, Exists
  <1>7. ASSUME NEW i \in Instances, NEW k \in Kinds, worker[<<i, k>>] # None, UNCHANGED <<held, jobs>>,
               NEW v, v.job = worker[<<i, k>>].job, worker' = [worker EXCEPT ![<<i, k>>] = v],
               attempts'[a] = attempts[a], effects'[a] = effects[a], v.step \in {"complete", "ack"} \/ Row(i, k) # a
        PROVE  Spent(a)'
    <2>1. <<i, k>> \in Slots /\ \A s \in Slots : worker'[s] = IF s = <<i, k>> THEN v ELSE worker[s]
      BY <1>0, <1>7 DEF TypeOK, Slots
    <2>2. SpentKeeps(a)
      BY <1>7, <2>1 DEF SpentKeeps, Works, Row
    <2>3. QED
      BY <1>0, <2>2, SpentStays
  <1>8. ASSUME NEW i \in Instances, NEW k \in Kinds, NEW s, GoTo(i, k, s), worker[<<i, k>>] # None, UNCHANGED <<held, jobs>>,
               attempts'[a] = attempts[a], effects'[a] = effects[a],
               s \in {"complete", "ack"} \/ Row(i, k) # a
        PROVE  Spent(a)'
    <2>1. PICK w \in Busy : w = worker[<<i, k>>]
      BY <1>0, <1>8 DEF TypeOK
    <2>2. PICK v : v = [w EXCEPT !.step = s]
      OBVIOUS
    <2>3. v.job = w.job /\ v.step = s /\ worker' = [worker EXCEPT ![<<i, k>>] = v] /\ Row(i, k) = w.job.of
      BY <1>8, <2>1, <2>2 DEF Busy, GoTo, Row
    <2>4. QED
      BY <1>7, <1>8, <2>1, <2>3
  <1>9. ASSUME NEW i \in Instances, worker[<<i, "event">>] # None PROVE Row(i, "event") # a
    BY <1>9, EventWorker, EventIsNoAction DEF CarrierInv
  <1>10. ASSUME NEW i \in Instances, SelectTriggers(i) PROVE Spent(a)'
    <2>1. PICK w \in Busy : w = worker[<<i, "event">>] /\ w # None
      BY <1>0, <1>10 DEF SelectTriggers, At, TypeOK, Kinds
    <2>2. PICK v : v = [w EXCEPT !.step = "insert", !.read = triggers \cap Matching[Row(i, "event")]]
      OBVIOUS
    <2>3. v.job = w.job /\ worker' = [worker EXCEPT ![<<i, "event">>] = v]
      BY <1>10, <2>1, <2>2 DEF Busy, SelectTriggers
    <2>4. Row(i, "event") # a /\ v.job = worker[<<i, "event">>].job /\ worker[<<i, "event">>] # None
      BY <1>9, <2>1, <2>3
    <2>5. UNCHANGED <<held, jobs, attempts, effects>>
      BY <1>10 DEF SelectTriggers
    <2>6. QED
      BY <1>7, <2>3, <2>4, <2>5 DEF Kinds
  <1>11. ASSUME NEW i \in Instances, InsertActions(i) \/ MarkProcessed(i) PROVE Spent(a)'
    BY <1>8, <1>9, <1>11 DEF InsertActions, MarkProcessed, At, Kinds
  <1>12. ASSUME NEW i \in Instances, TenantMissing(i) \/ CompleteAction(i) PROVE Spent(a)'
    BY <1>8, <1>12 DEF TenantMissing, CompleteAction, At, Kinds
  <1>13. ASSUME NEW i \in Instances, BeginAction(i) \/ RunAction(i) PROVE Spent(a)'
    <2>1. PICK w \in Busy : w = worker[<<i, "action">>] /\ w # None /\ w.step \in {"begin", "run"}
      BY <1>0, <1>13 DEF BeginAction, RunAction, At, TypeOK, Kinds
    <2>2. PICK r \in Actions : r = Row(i, "action") /\ r = w.job.of
      BY <2>1, ActionWorker DEF CarrierInv, Row
    <2>3. UNCHANGED <<held, jobs>> /\ <<i, "action">> \in Slots
      BY <1>13 DEF BeginAction, RunAction, Slots, Kinds
    <2>4. CASE r # a
      <3>1. attempts'[a] = attempts[a] /\ effects'[a] = effects[a]
        BY <1>0, <1>13, <2>2, <2>4 DEF BeginAction, RunAction, TypeOK
      <3>2. QED
        BY <1>8, <1>13, <2>1, <2>2, <2>3, <2>4, <3>1 DEF BeginAction, RunAction, Kinds
    <2>5. CASE r = a
      <3>1. Works(<<i, "action">>, a) /\ OneHand(a) /\ row[a] \notin {"none", "pending"}
        BY <2>1, <2>2, <2>3, <2>5, CarriedRows DEF InHand, Works
      <3>2. \A s \in Slots : ~Holds(s, a)' /\ (Works(s, a)' => s = <<i, "action">>)
        BY <1>0, <1>13, <2>3, <3>1 DEF OneHand, Holds, Works, BeginAction, RunAction, GoTo, TypeOK, Slots
      <3>3. ~Waits(a)'
        BY <2>3, <3>1 DEF OneHand, Waits
      <3>4. PICK v : v = [w EXCEPT !.step = IF BeginAction(i) THEN "run" ELSE "complete"]
        OBVIOUS
      <3>5. worker'[<<i, "action">>].job = w.job /\ w.job \in Job
        BY <1>0, <1>13, <2>1, <2>3 DEF BeginAction, RunAction, GoTo, TypeOK, Busy, Slots
      <3>6. CASE BeginAction(i)
        <4>1. worker'[<<i, "action">>].step = "run" /\ w.step = "begin" /\ effects' = effects
          BY <1>0, <2>1, <2>3, <3>6 DEF BeginAction, GoTo, TypeOK, Busy, Slots, At
        <4>2. row'[a] = IF Exists(a) THEN "processing" ELSE row[a]
          BY <1>0, <2>2, <2>5, <3>6 DEF BeginAction, SetStatus, TypeOK
        <4>3. attempts'[a] = IF Exists(a) THEN attempts[a] + 1 ELSE attempts[a]
          BY <1>0, <2>2, <2>5, <3>6 DEF BeginAction, TypeOK
        <4>4. attempts[a] <= Tried(w.job) /\ (Exists(a) => effects[a] <= attempts[a])
          BY <1>0, <2>1, <2>3, <3>1, <4>1 DEF Spent
        <4>5. QED
          BY <1>0, <3>1, <3>2, <3>3, <3>5, <4>1, <4>2, <4>3, <4>4, Numbers DEF Spent, Exists, Waits
      <3>7. CASE RunAction(i)
        <4>1. worker'[<<i, "action">>].step = "complete" /\ w.step = "run" /\ attempts' = attempts /\ row' = row
          BY <1>0, <2>1, <2>3, <3>7 DEF RunAction, GoTo, TypeOK, Busy, Slots, At
        <4>2. effects'[a] = effects[a] + 1
          BY <1>0, <2>2, <2>5, <3>7 DEF RunAction, TypeOK
        <4>3. attempts[a] <= Tried(w.job) + 1 /\ (Exists(a) => effects[a] < attempts[a]) /\ attempts[a] <= MaxTries + MaxStalls
          BY <1>0, <2>1, <2>3, <3>1, <4>1 DEF Spent
        <4>4. QED
          BY <1>0, <3>1, <3>2, <3>3, <3>5, <4>1, <4>2, <4>3, Numbers DEF Spent, Exists, Waits
      <3>8. QED
        BY <1>13, <3>6, <3>7
    <2>6. QED
      BY <2>4, <2>5
  <1>14. ASSUME NEW i \in Instances, InsertRefused(i) \/ EffectThenThrow(i) PROVE Spent(a)'
    <2>1. CASE InsertRefused(i)
      BY <1>5, <2>1 DEF InsertRefused, At, Kinds
    <2>2. CASE EffectThenThrow(i)
      <3>1. effects'[a] = effects[a] \/ (Works(<<i, "action">>, a) /\ effects'[a] = effects[a] + 1)
        BY <1>0, <2>2 DEF EffectThenThrow, At, Works, Row, TypeOK
      <3>2. QED
        BY <1>5, <2>2, <3>1 DEF EffectThenThrow, At, Kinds
    <2>3. QED
      BY <1>14, <2>1, <2>2
  <1>15. ASSUME NEW i \in Instances, NEW k \in Kinds, StepFails(i, k) PROVE Spent(a)'
    BY <1>5, <1>15 DEF StepFails
  <1>16. ASSUME NEW i \in Instances, NEW k \in Kinds, Finish(i, k) \/ AddFails(i, k) PROVE Spent(a)'
    <2>1. SpentKeeps(a)
      BY <1>0, <1>16 DEF Finish, AddFails, SpentKeeps, Works, TypeOK, Slots
    <2>2. QED
      BY <1>0, <2>1, SpentStays
  <1>17. ASSUME \/ PurgeExpired \/ DeleteTriggers \/ DeleteTenant
                \/ \E e \in Events : Emit(e) \/ Expire(e)
                \/ \E S \in SUBSET Events : ResetStuck(S)
                \/ \E t \in Triggers : DeleteTrigger(t)
                \/ UNCHANGED vars
         PROVE  Spent(a)'
    BY <1>1, <1>17 DEF PurgeExpired, DeleteTriggers, DeleteTenant, Emit, Expire, ResetStuck, DeleteTrigger, DropTriggers, vars
  <1>18. QED
    BY <1>2, <1>3, <1>4, <1>6, <1>10, <1>11, <1>12, <1>13, <1>14, <1>15, <1>16, <1>17
       DEF Next, EventStep, ActionStep, Serve

LEMMA SpentInit == Init => SpentInv
  <1> SUFFICES ASSUME Init, NEW a \in Actions PROVE Spent(a)
    BY DEF SpentInv
  <1>1. a \in Rows /\ MaxTries + MaxStalls >= 0
    BY PipelineConstants DEF Rows, MaxStalls
  <1>2. QED
    BY <1>1 DEF Init, Spent, Holds, Works, Exists, Slots

\* The column attempts of an action that exists is no less than its effects
\* and no more than the attempts of its job and one recovery from a stall, for
\* any number of instances, attempts and faults (AutomationActionProcessor.process).
THEOREM AttemptsCover == Spec => []AttemptsCoverEffects
  <1>1. SpentInv => AttemptsCoverEffects
    BY DEF SpentInv, Spent, AttemptsCoverEffects
  <1>2. QED
    BY <1>1, SpentInit, SpentStep, CarrierAlways, PTL DEF Spec

-----------------------------------------------------------------------------
(* Carried: what left 'pending' is in somebody's hands, until a worker has *)
(* brought its row to an end.                                              *)

Ends == {"processed", "completed", "failed", "gone"}
Settled(r) == row[r] \in Ends

AckInv == \A s \in Slots : worker[s] # None /\ worker[s].step = "ack" => Settled(worker[s].job.of)

Begun(r) == \E i \in Instances : BeginAction(i) /\ Row(i, "action") = r

\* Only a worker that begins it takes up a row that had ended.
LEMMA SettledStays ==
  ASSUME CarrierInv, [Next]_vars, NEW r \in Rows, Settled(r), ~Begun(r)
  PROVE  Settled(r)'
  <1>0. PipelineInv /\ row \in [Rows -> Statuses] /\ Events \subseteq Rows /\ Actions \subseteq Rows
    BY DEF CarrierInv, PipelineInv, TypeOK, Rows
  <1>. USE DEF tables
  <1>1. ASSUME row' = row PROVE Settled(r)'
    BY <1>1 DEF Settled, Ends
  <1>2. ASSUME NEW q \in Rows, NEW s, SetStatus(q, s), s \in {"processed", "completed", "failed"} \/ q # r PROVE Settled(r)'
    BY <1>0, <1>2 DEF SetStatus, Settled, Ends, Exists
  <1>3. ASSUME \/ PurgeExpired \/ DeleteTenant \/ \E T \in SUBSET Triggers : DropTriggers(T) PROVE Settled(r)'
    BY <1>0, <1>3 DEF PurgeExpired, DeleteTenant, DropTriggers, Exists, Settled, Ends
  <1>4. ASSUME \/ \E e \in Events : Emit(e)
               \/ \E S \in SUBSET Events : ResetStuck(S)
        PROVE  Settled(r)'
    BY <1>0, <1>4 DEF Emit, ResetStuck, Settled, Ends
  <1>5. ASSUME NEW i \in Instances, NEW k \in Kinds, Poll(i, k) PROVE Settled(r)'
    BY <1>5 DEF Poll, Due, Settled, Ends
  <1>6. ASSUME NEW i \in Instances, InsertActions(i) PROVE Settled(r)'
    <2>1. CASE r \in Actions
      BY <1>0, <1>6, <2>1, RowsKeep DEF RowKeeps, Settled, Ends, InsertActions
    <2>2. CASE r \in Events
      BY <1>0, <1>6, <2>2, InsertedRows DEF Settled, Ends
    <2>3. QED
      BY <2>1, <2>2 DEF Rows
  <1>7. ASSUME NEW i \in Instances, MarkProcessed(i) \/ TenantMissing(i) \/ CompleteAction(i) \/ BeginAction(i) PROVE Settled(r)'
    <2>1. Row(i, "event") \in Rows \/ worker[<<i, "event">>] = None
      BY <1>0, EventWorker
    <2>2. Row(i, "action") \in Rows \/ worker[<<i, "action">>] = None
      BY <1>0, ActionWorker
    <2>3. CASE BeginAction(i)
      BY <1>2, <2>2, <2>3 DEF BeginAction, At, Begun
    <2>4. CASE MarkProcessed(i) \/ TenantMissing(i) \/ CompleteAction(i)
      BY <1>2, <2>1, <2>2, <2>4 DEF MarkProcessed, TenantMissing, CompleteAction, At
    <2>5. QED
      BY <1>7, <2>3, <2>4
  <1>8. ASSUME NEW i \in Instances,
               \/ SelectTriggers(i) \/ InsertRefused(i) \/ RunAction(i) \/ EffectThenThrow(i) \/ Crash(i)
               \/ \E k \in Kinds : Add(i, k) \/ AddFails(i, k) \/ Take(i, k) \/ Finish(i, k) \/ StepFails(i, k)
        PROVE  Settled(r)'
    BY <1>1, <1>8 DEF SelectTriggers, InsertRefused, RunAction, EffectThenThrow, Crash, Add, AddFails, Take, Finish, StepFails
  <1>9. ASSUME (\E e \in Events : Expire(e)) \/ UNCHANGED vars PROVE Settled(r)'
    BY <1>1, <1>9 DEF Expire, vars
  <1>10. ASSUME DeleteTriggers \/ \E t \in Triggers : DeleteTrigger(t) PROVE Settled(r)'
    BY <1>0, <1>3, <1>10 DEF DeleteTriggers, DeleteTrigger, PipelineInv, TypeOK
  <1>11. QED
    BY <1>3, <1>4, <1>5, <1>6, <1>7, <1>8, <1>9, <1>10 DEF Next, EventStep, ActionStep, Serve

\* A worker comes to acknowledge its job by the last statement about its row.
LastStatement(s) ==
  \E i \in Instances : \/ s = <<i, "event">> /\ MarkProcessed(i)
                       \/ s = <<i, "action">> /\ (TenantMissing(i) \/ CompleteAction(i))

LEMMA AckMoves ==
  ASSUME CarrierInv, [Next]_vars
  PROVE  \A s \in Slots : worker'[s] # None /\ worker'[s].step = "ack" =>
           /\ worker[s] # None /\ worker'[s].job = worker[s].job
           /\ worker[s].step = "ack" \/ LastStatement(s)
  <1>0. PipelineInv /\ TypeOK
    BY DEF CarrierInv, PipelineInv
  <1> DEFINE G(s) == worker'[s] # None /\ worker'[s].step = "ack" =>
                       /\ worker[s] # None /\ worker'[s].job = worker[s].job
                       /\ worker[s].step = "ack" \/ LastStatement(s)
  <1> SUFFICES ASSUME NEW s \in Slots PROVE G(s)
    OBVIOUS
  <1>. USE DEF queues
  <1>1. ASSUME worker'[s] \in {worker[s], None} PROVE G(s)
    BY <1>1
  <1>2. ASSUME NEW i \in Instances, NEW k \in Kinds, Take(i, k) PROVE G(s)
    <2>1. PICK j \in jobs : worker' = [worker EXCEPT ![<<i, k>>] = [job |-> j, step |-> FirstStep(k), read |-> {}]]
      BY <1>2 DEF Take
    <2>2. IF s = <<i, k>> THEN worker'[s].step # "ack" ELSE worker'[s] = worker[s]
      BY <1>0, <2>1 DEF TypeOK, FirstStep, Slots
    <2>3. QED
      BY <2>2
  <1>3. ASSUME NEW i \in Instances, NEW k \in Kinds, NEW t, GoTo(i, k, t), worker[<<i, k>>] # None,
               t # "ack" \/ LastStatement(<<i, k>>)
        PROVE  G(s)
    <2>1. PICK w \in Busy : w = worker[<<i, k>>]
      BY <1>0, <1>3 DEF TypeOK
    <2>2. PICK v : v = [w EXCEPT !.step = t]
      OBVIOUS
    <2>3. v.job = w.job /\ v.step = t /\ worker' = [worker EXCEPT ![<<i, k>>] = v]
      BY <1>3, <2>1, <2>2 DEF Busy, GoTo
    <2>4. IF s = <<i, k>> THEN worker'[s] = v ELSE worker'[s] = worker[s]
      BY <1>0, <2>3 DEF TypeOK, Slots
    <2>5. QED
      BY <1>3, <2>1, <2>3, <2>4
  <1>4. ASSUME NEW i \in Instances, SelectTriggers(i) PROVE G(s)
    <2>1. PICK w \in Busy : w = worker[<<i, "event">>]
      BY <1>0, <1>4 DEF SelectTriggers, At, TypeOK, Kinds
    <2>2. PICK v : v = [w EXCEPT !.step = "insert", !.read = triggers \cap Matching[Row(i, "event")]]
      OBVIOUS
    <2>3. v.step = "insert" /\ worker' = [worker EXCEPT ![<<i, "event">>] = v]
      BY <1>4, <2>1, <2>2 DEF Busy, SelectTriggers
    <2>4. IF s = <<i, "event">> THEN worker'[s] = v ELSE worker'[s] = worker[s]
      BY <1>0, <2>3 DEF TypeOK, Slots
    <2>5. QED
      BY <2>3, <2>4
  <1>5. ASSUME NEW i \in Instances, InsertActions(i) \/ BeginAction(i) \/ RunAction(i) PROVE G(s)
    BY <1>3, <1>5 DEF InsertActions, BeginAction, RunAction, At, Kinds
  <1>6. ASSUME NEW i \in Instances, MarkProcessed(i) \/ TenantMissing(i) \/ CompleteAction(i) PROVE G(s)
    <2>1. CASE MarkProcessed(i)
      BY <1>3, <2>1 DEF MarkProcessed, At, Kinds, LastStatement
    <2>2. CASE TenantMissing(i)
      BY <1>3, <2>2 DEF TenantMissing, At, Kinds, LastStatement
    <2>3. CASE CompleteAction(i)
      BY <1>3, <2>3 DEF CompleteAction, At, Kinds, LastStatement
    <2>4. QED
      BY <1>6, <2>1, <2>2, <2>3
  <1>7. ASSUME NEW i \in Instances,
               \/ InsertRefused(i) \/ EffectThenThrow(i) \/ Crash(i)
               \/ \E k \in Kinds : Finish(i, k) \/ StepFails(i, k) \/ Poll(i, k) \/ Add(i, k) \/ AddFails(i, k)
        PROVE  G(s)
    BY <1>0, <1>1, <1>7 DEF InsertRefused, EffectThenThrow, Crash, Finish, StepFails, Poll, Add, AddFails, ThrowJob, TypeOK, Slots
  <1>8. ASSUME \/ PurgeExpired \/ DeleteTriggers \/ DeleteTenant
               \/ \E e \in Events : Emit(e) \/ Expire(e)
               \/ \E S \in SUBSET Events : ResetStuck(S)
               \/ \E t \in Triggers : DeleteTrigger(t)
               \/ UNCHANGED vars
         PROVE  G(s)
    BY <1>1, <1>8 DEF PurgeExpired, DeleteTriggers, DeleteTenant, Emit, Expire, ResetStuck, DeleteTrigger, DropTriggers, vars
  <1>9. QED
    BY <1>2, <1>4, <1>5, <1>6, <1>7, <1>8 DEF Next, EventStep, ActionStep, Serve

LEMMA AckStep ==
  ASSUME CarrierInv, AckInv, [Next]_vars
  PROVE  AckInv'
  <1>0. PipelineInv /\ TypeOK /\ row \in [Rows -> Statuses]
    BY DEF CarrierInv, PipelineInv, TypeOK
  <1> SUFFICES ASSUME NEW s \in Slots, worker'[s] # None, worker'[s].step = "ack"
               PROVE  row'[worker'[s].job.of] \in Ends
    BY DEF AckInv, Settled
  <1>1. PICK r \in Rows : worker[s] # None /\ r = worker[s].job.of /\ r = worker'[s].job.of
    BY <1>0, AckMoves DEF TypeOK, Busy, Job, Slots
  <1>2. CASE worker[s].step = "ack"
    <2>1. Settled(r)
      BY <1>1, <1>2 DEF AckInv
    <2>2. ASSUME NEW i \in Instances, BeginAction(i), Row(i, "action") = r PROVE FALSE
      <3>1. r \in Actions /\ Works(<<i, "action">>, r) /\ <<i, "action">> \in Slots /\ Works(s, r)
        BY <1>0, <1>1, <2>2, ActionWorker DEF BeginAction, At, Row, Works, Slots, Kinds
      <3>2. OneHand(r)
        BY <3>1, CarriedRows
      <3>3. s = <<i, "action">>
        BY <3>1, <3>2 DEF OneHand
      <3>4. QED
        BY <1>2, <2>2, <3>3 DEF BeginAction, At
    <2>3. ~Begun(r)
      BY <2>2 DEF Begun
    <2>4. Settled(r)'
      BY <2>1, <2>3, SettledStays
    <2>5. QED
      BY <1>1, <2>4 DEF Settled, Ends
  <1>3. CASE LastStatement(s)
    <2>1. row[r] # "none"
      <3>1. InHand(r)
        BY <1>1 DEF InHand
      <3>2. QED
        BY <1>0, <3>1, CarriedRows DEF PipelineInv, EmittedFirst, Rows
    <2>2. \E t \in {"processed", "failed", "completed"} : SetStatus(r, t)
      BY <1>1, <1>3 DEF LastStatement, MarkProcessed, TenantMissing, CompleteAction, Row
    <2>3. row'[r] \in {"processed", "failed", "completed", "gone"}
      BY <1>0, <2>1, <2>2 DEF SetStatus, Exists
    <2>4. QED
      BY <1>1, <2>3 DEF Settled, Ends
  <1>4. QED
    BY <1>2, <1>3, AckMoves

CarriedInv == faults = 0 => \A r \in Rows : row[r] \in {"queued", "processing"} => InHand(r) \/ r \in dead

\* Only a poll marks rows as queued, and only a worker its row as processing.
LEMMA QueuedMoves ==
  ASSUME CarrierInv, [Next]_vars, NEW r \in Rows, row'[r] \in {"queued", "processing"}
  PROVE  \/ row[r] \in {"queued", "processing"}
         \/ \E i \in Instances, k \in Kinds : Poll(i, k) /\ \E c \in held'[<<i, k>>] : c.of = r
         \/ Begun(r)
  <1>0. PipelineInv /\ row \in [Rows -> Statuses] /\ claims \in [Rows -> Nat] /\ Events \subseteq Rows /\ Actions \subseteq Rows
    BY DEF CarrierInv, PipelineInv, TypeOK, Rows
  <1> DEFINE G == \/ row[r] \in {"queued", "processing"}
                  \/ \E i \in Instances, k \in Kinds : Poll(i, k) /\ \E c \in held'[<<i, k>>] : c.of = r
                  \/ Begun(r)
  <1>. USE DEF tables
  <1>1. ASSUME row' = row PROVE G
    BY <1>1
  <1>2. ASSUME NEW q \in Rows, NEW s, SetStatus(q, s), s \in {"processed", "completed", "failed"} \/ q # r PROVE G
    BY <1>0, <1>2 DEF SetStatus
  <1>3. ASSUME \/ PurgeExpired \/ DeleteTenant \/ \E T \in SUBSET Triggers : DropTriggers(T) PROVE G
    BY <1>0, <1>3 DEF PurgeExpired, DeleteTenant, DropTriggers
  <1>4. ASSUME \/ \E e \in Events : Emit(e)
               \/ \E S \in SUBSET Events : ResetStuck(S)
               \/ \E i \in Instances : InsertActions(i)
        PROVE  G
    BY <1>0, <1>4 DEF Emit, ResetStuck, InsertActions
  <1>5. ASSUME NEW i \in Instances, NEW k \in Kinds, Poll(i, k) PROVE G
    <2>1. PICK batch \in SUBSET Due(k) :
            /\ row' = [q \in Rows |-> IF q \in batch THEN "queued" ELSE row[q]]
            /\ held' = [held EXCEPT ![<<i, k>>] = {[of |-> q, claim |-> claims[q] + 1] : q \in batch}]
      BY <1>5 DEF Poll
    <2>2. held'[<<i, k>>] = {[of |-> q, claim |-> claims[q] + 1] : q \in batch}
      BY <2>1 DEF CarrierInv, PipelineInv, TypeOK
    <2>3. ASSUME r \in batch PROVE \E c \in held'[<<i, k>>] : c.of = r
      <3>1. PICK c : c = [of |-> r, claim |-> claims[r] + 1]
        OBVIOUS
      <3>2. QED
        BY <2>2, <2>3, <3>1
    <2>4. QED
      BY <1>5, <2>1, <2>3
  <1>6. ASSUME NEW i \in Instances, MarkProcessed(i) \/ TenantMissing(i) \/ CompleteAction(i) \/ BeginAction(i) PROVE G
    <2>1. Row(i, "event") \in Rows \/ worker[<<i, "event">>] = None
      BY <1>0, EventWorker
    <2>2. Row(i, "action") \in Rows \/ worker[<<i, "action">>] = None
      BY <1>0, ActionWorker
    <2>3. CASE BeginAction(i)
      BY <1>2, <2>2, <2>3 DEF BeginAction, At, Begun
    <2>4. CASE MarkProcessed(i) \/ TenantMissing(i) \/ CompleteAction(i)
      BY <1>2, <2>1, <2>2, <2>4 DEF MarkProcessed, TenantMissing, CompleteAction, At
    <2>5. QED
      BY <1>6, <2>3, <2>4
  <1>7. ASSUME NEW i \in Instances,
               \/ SelectTriggers(i) \/ InsertRefused(i) \/ RunAction(i) \/ EffectThenThrow(i) \/ Crash(i)
               \/ \E k \in Kinds : Add(i, k) \/ AddFails(i, k) \/ Take(i, k) \/ Finish(i, k) \/ StepFails(i, k)
        PROVE  G
    BY <1>1, <1>7 DEF SelectTriggers, InsertRefused, RunAction, EffectThenThrow, Crash, Add, AddFails, Take, Finish, StepFails
  <1>8. ASSUME (\E e \in Events : Expire(e)) \/ UNCHANGED vars PROVE G
    BY <1>1, <1>8 DEF Expire, vars
  <1>9. ASSUME DeleteTriggers \/ \E t \in Triggers : DeleteTrigger(t) PROVE G
    BY <1>0, <1>3, <1>9 DEF DeleteTriggers, DeleteTrigger, PipelineInv, TypeOK
  <1>10. QED
    BY <1>3, <1>4, <1>5, <1>6, <1>7, <1>8, <1>9 DEF Next, EventStep, ActionStep, Serve

LEMMA NoFault ==
  ASSUME CarrierInv, faults' = 0
  PROVE  \A f : ~Fault(f)
  <1>1. faults \in Nat
    BY DEF CarrierInv, PipelineInv, TypeOK
  <1>2. QED
    BY <1>1 DEF Fault

\* Without a fault nobody drops a row: it is handed on, or acknowledged.
LEMMA HandsKeep ==
  ASSUME CarrierInv, AckInv, [Next]_vars, faults' = 0, NEW r \in Rows, InHand(r)
  PROVE  InHand(r)' \/ r \in dead' \/ Settled(r)'
  <1>0. PipelineInv /\ TypeOK /\ row \in [Rows -> Statuses] /\ faults \in Nat
    BY DEF CarrierInv, PipelineInv, TypeOK
  <1> DEFINE G == InHand(r)' \/ r \in dead' \/ Settled(r)'
  <1>. USE DEF queues, Slots
  <1>1. ASSUME UNCHANGED jobs, \A s \in Slots : held[s] \subseteq held'[s],
               \A s \in Slots : worker[s] # None => worker'[s] # None /\ worker'[s].job = worker[s].job
        PROVE  G
    BY <1>1 DEF InHand
  <1>2. ASSUME NEW i \in Instances, NEW k \in Kinds, NEW w \in Busy, w = worker[<<i, k>>],
               NEW v \in Busy, v.job = w.job, worker' = [worker EXCEPT ![<<i, k>>] = v], UNCHANGED <<held, jobs>>
        PROVE  G
    <2>1. \A s \in Slots : worker'[s] = IF s = <<i, k>> THEN v ELSE worker[s]
      BY <1>0, <1>2 DEF TypeOK
    <2>2. QED
      BY <1>1, <1>2, <2>1, IdleIsNoWork
  <1>3. ASSUME NEW i \in Instances, NEW k \in Kinds,
               NEW t \in {"select", "insert", "mark", "begin", "run", "complete", "ack"},
               GoTo(i, k, t), worker[<<i, k>>] # None, UNCHANGED <<held, jobs>>
        PROVE  G
    <2>1. PICK w \in Busy : w = worker[<<i, k>>]
      BY <1>0, <1>3 DEF TypeOK
    <2>2. PICK v : v = [w EXCEPT !.step = t]
      OBVIOUS
    <2>3. v.job = w.job /\ v \in Busy /\ worker' = [worker EXCEPT ![<<i, k>>] = v]
      BY <1>3, <2>1, <2>2 DEF Busy, GoTo
    <2>4. QED
      BY <1>2, <1>3, <2>1, <2>3
  <1>4. ASSUME NEW i \in Instances, SelectTriggers(i) PROVE G
    <2>1. PICK w \in Busy : w = worker[<<i, "event">>]
      BY <1>0, <1>4 DEF SelectTriggers, At, TypeOK, Kinds
    <2>2. PICK R \in SUBSET Triggers : R = triggers \cap Matching[Row(i, "event")]
      BY <1>0 DEF TypeOK
    <2>3. PICK v : v = [w EXCEPT !.step = "insert", !.read = R]
      OBVIOUS
    <2>4. v.job = w.job /\ v \in Busy /\ worker' = [worker EXCEPT ![<<i, "event">>] = v] /\ UNCHANGED <<held, jobs>>
      BY <1>4, <2>1, <2>2, <2>3 DEF Busy, SelectTriggers
    <2>5. QED
      BY <1>2, <2>1, <2>4 DEF Kinds
  <1>5. ASSUME NEW i \in Instances,
               \/ InsertActions(i) \/ MarkProcessed(i) \/ BeginAction(i) \/ TenantMissing(i) \/ RunAction(i) \/ CompleteAction(i)
        PROVE  G
    BY <1>3, <1>5 DEF InsertActions, MarkProcessed, BeginAction, TenantMissing, RunAction, CompleteAction, At, Kinds
  <1>6. ASSUME NEW i \in Instances, InsertRefused(i) PROVE G
    <2>1. PICK w \in Busy : w = worker[<<i, "event">>]
      BY <1>0, <1>6 DEF InsertRefused, At, TypeOK, Kinds
    <2>2. PICK j : j = [w.job EXCEPT !.tries = @ + 1]
      OBVIOUS
    <2>3. j.of = w.job.of
      BY <2>2 DEF Busy, Job
    <2>4. /\ held' = held /\ jobs \subseteq jobs' /\ dead \subseteq dead'
          /\ j \in jobs' \/ w.job.of \in dead'
          /\ \A s \in Slots : s # <<i, "event">> => worker'[s] = worker[s]
      BY <1>0, <1>6, <2>1, <2>2 DEF InsertRefused, ThrowJob, TypeOK
    <2>5. QED
      BY <2>1, <2>3, <2>4 DEF InHand
  <1>7. ASSUME NEW i \in Instances, NEW k \in Kinds, Poll(i, k) PROVE G
    <2>1. \A s \in Slots : held[s] \subseteq held'[s]
      BY <1>0, <1>7 DEF Poll, TypeOK
    <2>2. QED
      BY <1>1, <1>7, <2>1 DEF Poll
  <1>8. ASSUME NEW i \in Instances, NEW k \in Kinds, Add(i, k) PROVE G
    <2>1. PICK c \in held[<<i, k>>] :
            /\ jobs' = jobs \cup {[of |-> c.of, claim |-> c.claim, tries |-> 0, stalls |-> 0]}
            /\ held' = [held EXCEPT ![<<i, k>>] = @ \ {c}]
      BY <1>8 DEF Add
    <2>2. PICK j : j = [of |-> c.of, claim |-> c.claim, tries |-> 0, stalls |-> 0]
      OBVIOUS
    <2>3. j.of = c.of /\ j \in jobs' /\ jobs \subseteq jobs' /\ worker' = worker
      BY <1>8, <2>1, <2>2 DEF Add
    <2>4. \A s \in Slots : held[s] \ {c} \subseteq held'[s]
      BY <1>0, <2>1 DEF TypeOK
    <2>5. QED
      BY <2>3, <2>4 DEF InHand
  <1>9. ASSUME NEW i \in Instances, NEW k \in Kinds, Take(i, k) PROVE G
    <2>1. PICK j \in jobs :
            /\ jobs' = jobs \ {j}
            /\ worker' = [worker EXCEPT ![<<i, k>>] = [job |-> j, step |-> FirstStep(k), read |-> {}]]
      BY <1>9 DEF Take
    <2>2. PICK v : v = [job |-> j, step |-> FirstStep(k), read |-> {}]
      OBVIOUS
    <2>3. v \in Busy /\ v.job = j
      BY <1>0, <2>2 DEF Busy, FirstStep, TypeOK
    <2>4. \A s \in Slots : worker'[s] = IF s = <<i, k>> THEN v ELSE worker[s]
      BY <1>0, <2>1, <2>2 DEF TypeOK
    <2>5. held' = held /\ worker[<<i, k>>] = None /\ v # None /\ <<i, k>> \in Slots
      BY <1>9, <2>3, IdleIsNoWork DEF Take
    <2>6. worker'[<<i, k>>] # None /\ worker'[<<i, k>>].job = j
      BY <2>3, <2>4, <2>5
    <2>7. (\A s \in Slots : worker[s] # None => worker'[s] = worker[s]) /\ \A l \in jobs : l \in jobs' \/ l = j
      BY <2>1, <2>4, <2>5
    <2>8. QED
      BY <2>5, <2>6, <2>7 DEF InHand
  <1>10. ASSUME NEW i \in Instances, NEW k \in Kinds, Finish(i, k) PROVE G
    <2>1. PICK s \in Slots : s = <<i, k>> /\ worker[s] # None /\ worker[s].step = "ack"
      BY <1>10 DEF Finish, At
    <2>2. UNCHANGED <<held, jobs, row>> /\ \A u \in Slots : u # s => worker'[u] = worker[u]
      BY <1>0, <1>10, <2>1 DEF Finish, TypeOK, tables
    <2>3. Settled(worker[s].job.of)
      BY <2>1 DEF AckInv
    <2>4. QED
      BY <2>1, <2>2, <2>3 DEF InHand, Settled
  <1>11. ASSUME NEW i \in Instances,
                \/ EffectThenThrow(i) \/ Crash(i)
                \/ \E k \in Kinds : AddFails(i, k) \/ StepFails(i, k)
         PROVE  FALSE
    BY <1>11, NoFault DEF EffectThenThrow, Crash, AddFails, StepFails
  <1>12. ASSUME \/ PurgeExpired \/ DeleteTriggers \/ DeleteTenant
                \/ \E e \in Events : Emit(e) \/ Expire(e)
                \/ \E S \in SUBSET Events : ResetStuck(S)
                \/ \E t \in Triggers : DeleteTrigger(t)
                \/ UNCHANGED vars
         PROVE  G
    BY <1>1, <1>12 DEF PurgeExpired, DeleteTriggers, DeleteTenant, Emit, Expire, ResetStuck, DeleteTrigger, DropTriggers, vars
  <1>13. QED
    BY <1>4, <1>5, <1>6, <1>7, <1>8, <1>9, <1>10, <1>11, <1>12 DEF Next, EventStep, ActionStep, Serve

LEMMA FaultsGrow ==
  ASSUME CarrierInv, [Next]_vars, faults' = 0
  PROVE  faults = 0 /\ dead \subseteq dead'
  <1>. USE DEF tables, queues, history
  <1>1. ASSUME NEW i \in Instances, InsertRefused(i) PROVE faults' = faults /\ dead \subseteq dead'
    BY <1>1 DEF InsertRefused, ThrowJob
  <1>2. ASSUME NEW i \in Instances,
               \/ EffectThenThrow(i) \/ Crash(i)
               \/ \E k \in Kinds : AddFails(i, k) \/ StepFails(i, k)
        PROVE  FALSE
    BY <1>2, NoFault DEF EffectThenThrow, Crash, AddFails, StepFails
  <1>3. ASSUME NEW i \in Instances,
               \/ SelectTriggers(i) \/ InsertActions(i) \/ MarkProcessed(i) \/ ActionStep(i)
               \/ \E k \in Kinds : Serve(i, k)
        PROVE  UNCHANGED <<faults, dead>>
    BY <1>3 DEF SelectTriggers, InsertActions, MarkProcessed, ActionStep, BeginAction, TenantMissing, RunAction,
                CompleteAction, Serve, Poll, Add, Take, Finish
  <1>4. ASSUME \/ PurgeExpired \/ DeleteTriggers \/ DeleteTenant
               \/ \E e \in Events : Emit(e) \/ Expire(e)
               \/ \E S \in SUBSET Events : ResetStuck(S)
               \/ \E t \in Triggers : DeleteTrigger(t)
               \/ UNCHANGED vars
        PROVE  UNCHANGED <<faults, dead>>
    BY <1>4 DEF PurgeExpired, DeleteTriggers, DeleteTenant, Emit, Expire, ResetStuck, DeleteTrigger, DropTriggers, vars
  <1>5. QED
    BY <1>1, <1>2, <1>3, <1>4 DEF Next, EventStep

LEMMA CarriedStep ==
  ASSUME CarrierInv, AckInv, CarriedInv, [Next]_vars
  PROVE  CarriedInv'
  <1> SUFFICES ASSUME faults' = 0, NEW r \in Rows, row'[r] \in {"queued", "processing"}
               PROVE  InHand(r)' \/ r \in dead'
    BY DEF CarriedInv
  <1>1. faults = 0 /\ dead \subseteq dead' /\ ~Settled(r)'
    BY FaultsGrow DEF Settled, Ends
  <1>2. CASE row[r] \in {"queued", "processing"}
    BY <1>1, <1>2, HandsKeep DEF CarriedInv
  <1>3. CASE \E i \in Instances, k \in Kinds : Poll(i, k) /\ \E c \in held'[<<i, k>>] : c.of = r
    BY <1>3 DEF InHand, Slots
  <1>4. CASE Begun(r)
    <2>1. InHand(r)
      BY <1>4 DEF Begun, BeginAction, At, Row, InHand, Slots, Kinds
    <2>2. QED
      BY <1>1, <2>1, HandsKeep
  <1>5. QED
    BY <1>2, <1>3, <1>4, QueuedMoves

\* While nothing failed, every row that left 'pending' is with a poller, in a
\* queue or with a worker, or its job was given up because its trigger was
\* deleted, for any number of instances (PluginEventPoller.poll, AutomationActionPoller.poll).
THEOREM QueuedAreCarried == Spec => []QueuedRowsAreCarried
  <1>1. Init => AckInv /\ CarriedInv
    BY DEF Init, AckInv, CarriedInv, Slots
  <1>2. ASSUME NEW r, InHand(r) PROVE Carriers(r) # {}
    BY <1>2 DEF InHand, Carriers, Slots
  <1>3. CarriedInv => QueuedRowsAreCarried
    BY <1>2 DEF CarriedInv, QueuedRowsAreCarried
  <1>4. QED
    BY <1>1, <1>3, AckStep, CarriedStep, CarrierAlways, PTL DEF Spec

-----------------------------------------------------------------------------
(* Once: a row that was claimed once is done once, because it is ahead of  *)
(* being done in one place only.                                           *)

Undone == {"select", "insert", "begin", "run"}

Ahead(r) == \/ \E s \in Slots : Holds(s, r)
            \/ Waits(r)
            \/ \E s \in Slots : Works(s, r) /\ worker[s].step \in Undone

Done(r) == IF r \in Events THEN fired[r] ELSE effects[r]

OnceAt(r) == claims[r] <= 1 => /\ Done(r) <= 1
                               /\ claims[r] = 0 \/ Ahead(r) => Done(r) = 0
OnceInv == faults = 0 => \A r \in Rows : OnceAt(r)

Claimed(r) == claims'[r] = claims[r] + 1

LEMMA AheadMoves ==
  ASSUME CarrierInv, [Next]_vars, faults' = 0, NEW r \in Rows, Ahead(r)'
  PROVE  Ahead(r) \/ Claimed(r)
  <1>0. PipelineInv /\ TypeOK
    BY DEF CarrierInv, PipelineInv
  <1> DEFINE G == Ahead(r) \/ Claimed(r)
  <1>. USE DEF queues
  <1>1. ASSUME \A s \in Slots : held'[s] \subseteq held[s], jobs' \subseteq jobs,
               \A s \in Slots : worker'[s] # None /\ worker'[s].step \in Undone =>
                 worker[s] # None /\ worker'[s].job = worker[s].job /\ worker[s].step \in Undone
        PROVE  G
    BY <1>1 DEF Ahead, Holds, Waits, Works
  <1>2. ASSUME NEW i \in Instances, NEW k \in Kinds, NEW w \in Busy, w = worker[<<i, k>>], worker[<<i, k>>] # None,
               NEW v, v.job = w.job, v.step \in Undone => w.step \in Undone,
               worker' = [worker EXCEPT ![<<i, k>>] = v], UNCHANGED <<held, jobs>>
        PROVE  G
    <2>1. \A s \in Slots : worker'[s] = IF s = <<i, k>> THEN v ELSE worker[s]
      BY <1>0, <1>2 DEF TypeOK, Slots
    <2>2. QED
      BY <1>1, <1>2, <2>1
  <1>3. ASSUME NEW i \in Instances, NEW k \in Kinds, NEW t, GoTo(i, k, t), worker[<<i, k>>] # None, UNCHANGED <<held, jobs>>,
               t \in Undone => worker[<<i, k>>].step \in Undone
        PROVE  G
    <2>1. PICK w \in Busy : w = worker[<<i, k>>]
      BY <1>0, <1>3 DEF TypeOK
    <2>2. PICK v : v = [w EXCEPT !.step = t]
      OBVIOUS
    <2>3. v.job = w.job /\ v.step = t /\ worker' = [worker EXCEPT ![<<i, k>>] = v]
      BY <1>3, <2>1, <2>2 DEF Busy, GoTo
    <2>4. QED
      BY <1>2, <1>3, <2>1, <2>3
  <1>4. ASSUME NEW i \in Instances, SelectTriggers(i) PROVE G
    <2>1. PICK w \in Busy : w = worker[<<i, "event">>] /\ worker[<<i, "event">>] # None /\ w.step \in Undone
      BY <1>0, <1>4 DEF SelectTriggers, At, TypeOK, Kinds, Undone
    <2>2. PICK v : v = [w EXCEPT !.step = "insert", !.read = triggers \cap Matching[Row(i, "event")]]
      OBVIOUS
    <2>3. v.job = w.job /\ worker' = [worker EXCEPT ![<<i, "event">>] = v] /\ UNCHANGED <<held, jobs>>
      BY <1>4, <2>1, <2>2 DEF Busy, SelectTriggers
    <2>4. QED
      BY <1>2, <2>1, <2>3 DEF Kinds
  <1>5. ASSUME NEW i \in Instances,
               \/ InsertActions(i) \/ MarkProcessed(i) \/ BeginAction(i) \/ TenantMissing(i) \/ RunAction(i) \/ CompleteAction(i)
        PROVE  G
    BY <1>3, <1>5 DEF InsertActions, MarkProcessed, BeginAction, TenantMissing, RunAction, CompleteAction, At, Kinds, Undone
  <1>6. ASSUME NEW i \in Instances, InsertRefused(i) PROVE G
    <2>1. PICK w \in Busy : w = worker[<<i, "event">>] /\ worker[<<i, "event">>] # None /\ w.step \in Undone
      BY <1>0, <1>6 DEF InsertRefused, At, TypeOK, Kinds, Undone
    <2>2. PICK j : j = [w.job EXCEPT !.tries = @ + 1]
      OBVIOUS
    <2>3. j.of = w.job.of
      BY <2>2 DEF Busy, Job
    <2>4. held' = held /\ jobs' \subseteq jobs \cup {j} /\ <<i, "event">> \in Slots
      BY <1>0, <1>6, <2>1, <2>2 DEF InsertRefused, ThrowJob, Slots, Kinds
    <2>5. \A s \in Slots : worker'[s] \in {worker[s], None}
      BY <1>0, <1>6 DEF InsertRefused, ThrowJob, TypeOK, Slots
    <2>6. QED
      BY <2>1, <2>3, <2>4, <2>5 DEF Ahead, Holds, Waits, Works
  <1>7. ASSUME NEW i \in Instances, NEW k \in Kinds, Poll(i, k) PROVE G
    <2>1. PICK batch \in SUBSET Due(k) :
            /\ claims' = [q \in Rows |-> IF q \in batch THEN claims[q] + 1 ELSE claims[q]]
            /\ held' = [held EXCEPT ![<<i, k>>] = {[of |-> q, claim |-> claims[q] + 1] : q \in batch}]
      BY <1>7 DEF Poll
    <2>2. \A s \in Slots : \A c \in held'[s] : c \in held[s] \/ c.of \in batch
      BY <1>0, <2>1 DEF TypeOK, Slots
    <2>3. UNCHANGED <<jobs, worker>>
      BY <1>7 DEF Poll
    <2>4. QED
      BY <2>1, <2>2, <2>3 DEF Ahead, Holds, Waits, Works, Claimed
  <1>8. ASSUME NEW i \in Instances, NEW k \in Kinds, Add(i, k) PROVE G
    <2>1. PICK c \in held[<<i, k>>] :
            /\ jobs' = jobs \cup {[of |-> c.of, claim |-> c.claim, tries |-> 0, stalls |-> 0]}
            /\ held' = [held EXCEPT ![<<i, k>>] = @ \ {c}]
      BY <1>8 DEF Add
    <2>2. PICK j : j = [of |-> c.of, claim |-> c.claim, tries |-> 0, stalls |-> 0]
      OBVIOUS
    <2>3. j.of = c.of /\ jobs' = jobs \cup {j} /\ worker' = worker /\ <<i, k>> \in Slots
      BY <1>8, <2>1, <2>2 DEF Add, Slots
    <2>4. \A s \in Slots : held'[s] \subseteq held[s]
      BY <1>0, <2>1 DEF TypeOK, Slots
    <2>5. QED
      BY <2>1, <2>3, <2>4 DEF Ahead, Holds, Waits, Works
  <1>9. ASSUME NEW i \in Instances, NEW k \in Kinds, Take(i, k) PROVE G
    <2>1. PICK j \in jobs :
            /\ jobs' = jobs \ {j}
            /\ worker' = [worker EXCEPT ![<<i, k>>] = [job |-> j, step |-> FirstStep(k), read |-> {}]]
      BY <1>9 DEF Take
    <2>2. \A s \in Slots : IF s = <<i, k>> THEN worker'[s].job = j ELSE worker'[s] = worker[s]
      BY <1>0, <2>1 DEF TypeOK, Slots
    <2>3. held' = held
      BY <1>9 DEF Take
    <2>4. QED
      BY <2>1, <2>2, <2>3 DEF Ahead, Holds, Waits, Works
  <1>10. ASSUME NEW i \in Instances, NEW k \in Kinds, Finish(i, k) PROVE G
    <2>1. UNCHANGED <<held, jobs>> /\ \A s \in Slots : worker'[s] \in {worker[s], None}
      BY <1>0, <1>10 DEF Finish, TypeOK, Slots
    <2>2. QED
      BY <1>1, <2>1
  <1>11. ASSUME NEW i \in Instances,
                \/ EffectThenThrow(i) \/ Crash(i)
                \/ \E k \in Kinds : AddFails(i, k) \/ StepFails(i, k)
         PROVE  FALSE
    BY <1>11, NoFault DEF EffectThenThrow, Crash, AddFails, StepFails
  <1>12. ASSUME \/ PurgeExpired \/ DeleteTriggers \/ DeleteTenant
                \/ \E e \in Events : Emit(e) \/ Expire(e)
                \/ \E S \in SUBSET Events : ResetStuck(S)
                \/ \E t \in Triggers : DeleteTrigger(t)
                \/ UNCHANGED vars
         PROVE  G
    BY <1>1, <1>12 DEF PurgeExpired, DeleteTriggers, DeleteTenant, Emit, Expire, ResetStuck, DeleteTrigger, DropTriggers, vars
  <1>13. QED
    BY <1>4, <1>5, <1>6, <1>7, <1>8, <1>9, <1>10, <1>11, <1>12 DEF Next, EventStep, ActionStep, Serve

\* Who does it was ahead of it, and nobody else.
LEMMA DoneMoves ==
  ASSUME CarrierInv, [Next]_vars, faults' = 0, NEW r \in Rows
  PROVE  \/ Done(r)' = Done(r)
         \/ /\ Done(r)' = Done(r) + 1 /\ claims'[r] = claims[r]
            /\ claims[r] <= 1 => Ahead(r) /\ ~Ahead(r)'
  <1>0. PipelineInv /\ TypeOK /\ fired \in [Events -> 0 .. MaxFired] /\ effects \in [Actions -> Nat]
    BY DEF CarrierInv, PipelineInv, TypeOK
  <1> DEFINE G == \/ Done(r)' = Done(r)
                  \/ /\ Done(r)' = Done(r) + 1 /\ claims'[r] = claims[r]
                     /\ claims[r] <= 1 => Ahead(r) /\ ~Ahead(r)'
  <1>. USE DEF tables, queues, history
  <1>1. ASSUME UNCHANGED <<fired, effects>> PROVE G
    BY <1>1 DEF Done
  <1>2. ASSUME NEW i \in Instances, NEW k \in Kinds, worker[<<i, k>>] # None, worker[<<i, k>>].step \in Undone,
               Row(i, k) = r, NEW t \in {"mark", "complete"}, GoTo(i, k, t), UNCHANGED <<held, jobs, claims>>,
               claims[r] <= 1
        PROVE  Ahead(r) /\ ~Ahead(r)'
    <2>1. PICK w \in Busy : w = worker[<<i, k>>]
      BY <1>0, <1>2 DEF TypeOK
    <2>2. PICK v : v = [w EXCEPT !.step = t]
      OBVIOUS
    <2>3. v.step \notin Undone /\ worker' = [worker EXCEPT ![<<i, k>>] = v]
      BY <1>2, <2>1, <2>2 DEF Busy, GoTo, Undone
    <2>4. <<i, k>> \in Slots /\ \A s \in Slots : worker'[s] = IF s = <<i, k>> THEN v ELSE worker[s]
      BY <1>0, <2>3 DEF TypeOK, Slots
    <2>5. OneHand(r) /\ Works(<<i, k>>, r)
      BY <1>2 DEF CarrierInv, HandsInv, HandOk, Works, Row
    <2>6. QED
      BY <1>2, <2>3, <2>4, <2>5 DEF OneHand, Ahead, Holds, Waits, Works
  <1>3. ASSUME NEW i \in Instances, InsertActions(i) PROVE G
    <2>1. PICK f \in Events : f = Row(i, "event") /\ worker[<<i, "event">>] # None /\ worker[<<i, "event">>].step \in Undone
      BY <1>0, <1>3, EventWorker DEF InsertActions, At, Undone
    <2>2. fired' = [fired EXCEPT ![f] = @ + 1] /\ UNCHANGED <<effects, held, jobs, claims>> /\ GoTo(i, "event", "mark")
      BY <1>3, <2>1 DEF InsertActions
    <2>3. CASE r # f
      BY <1>0, <2>2, <2>3 DEF Done
    <2>4. CASE r = f
      <3>1. Done(r)' = Done(r) + 1 /\ claims'[r] = claims[r]
        BY <1>0, <2>1, <2>2, <2>4 DEF Done
      <3>2. claims[r] <= 1 => Ahead(r) /\ ~Ahead(r)'
        BY <1>2, <2>1, <2>2, <2>4 DEF Kinds
      <3>3. QED
        BY <3>1, <3>2
    <2>5. QED
      BY <2>3, <2>4
  <1>4. ASSUME NEW i \in Instances, RunAction(i) PROVE G
    <2>1. PICK a \in Actions : a = Row(i, "action") /\ worker[<<i, "action">>] # None /\ worker[<<i, "action">>].step \in Undone
      BY <1>0, <1>4, ActionWorker DEF RunAction, At, Undone
    <2>2. effects' = [effects EXCEPT ![a] = @ + 1] /\ UNCHANGED <<fired, held, jobs, claims>> /\ GoTo(i, "action", "complete")
      BY <1>4, <2>1 DEF RunAction
    <2>3. CASE r # a
      BY <1>0, <2>2, <2>3 DEF Done
    <2>4. CASE r = a
      <3>1. Done(r)' = Done(r) + 1 /\ claims'[r] = claims[r]
        BY <1>0, <2>1, <2>2, <2>4, EventIsNoAction DEF Done
      <3>2. claims[r] <= 1 => Ahead(r) /\ ~Ahead(r)'
        BY <1>2, <2>1, <2>2, <2>4 DEF Kinds
      <3>3. QED
        BY <3>1, <3>2
    <2>5. QED
      BY <2>3, <2>4
  <1>5. ASSUME NEW i \in Instances,
               \/ EffectThenThrow(i) \/ Crash(i)
               \/ \E k \in Kinds : AddFails(i, k) \/ StepFails(i, k)
        PROVE  FALSE
    BY <1>5, NoFault DEF EffectThenThrow, Crash, AddFails, StepFails
  <1>6. ASSUME NEW i \in Instances,
               \/ SelectTriggers(i) \/ InsertRefused(i) \/ MarkProcessed(i) \/ BeginAction(i) \/ TenantMissing(i)
               \/ CompleteAction(i)
               \/ \E k \in Kinds : Serve(i, k)
        PROVE  UNCHANGED <<fired, effects>>
    BY <1>6 DEF SelectTriggers, InsertRefused, MarkProcessed, BeginAction, TenantMissing, CompleteAction, Serve, Poll, Add,
                Take, Finish
  <1>7. ASSUME \/ PurgeExpired \/ DeleteTriggers \/ DeleteTenant
               \/ \E e \in Events : Emit(e) \/ Expire(e)
               \/ \E S \in SUBSET Events : ResetStuck(S)
               \/ \E t \in Triggers : DeleteTrigger(t)
               \/ UNCHANGED vars
        PROVE  UNCHANGED <<fired, effects>>
    BY <1>7 DEF PurgeExpired, DeleteTriggers, DeleteTenant, Emit, Expire, ResetStuck, DeleteTrigger, DropTriggers, vars
  <1>8. QED
    BY <1>1, <1>3, <1>4, <1>5, <1>6, <1>7 DEF Next, EventStep, ActionStep

LEMMA ClaimsGrow ==
  ASSUME CarrierInv, [Next]_vars, NEW r \in Rows
  PROVE  claims'[r] = claims[r] \/ Claimed(r)
  <1>1. claims \in [Rows -> Nat]
    BY DEF CarrierInv, PipelineInv, TypeOK
  <1>2. claims' = claims \/ \E i \in Instances, k \in Kinds : Poll(i, k)
    BY DEF Next, vars, history, queues, tables, Emit, Expire, PurgeExpired, ResetStuck, DeleteTrigger, DeleteTriggers,
           DropTriggers, DeleteTenant, EventStep, ActionStep, Serve, SelectTriggers, InsertActions, InsertRefused,
           MarkProcessed, BeginAction, TenantMissing, RunAction, CompleteAction, EffectThenThrow, Crash, Add, AddFails,
           Take, Finish, StepFails
  <1>3. QED
    BY <1>1, <1>2 DEF Poll, Claimed

LEMMA OnceStep ==
  ASSUME CarrierInv, OnceInv, [Next]_vars
  PROVE  OnceInv'
  <1> SUFFICES ASSUME faults' = 0, NEW r \in Rows PROVE OnceAt(r)'
    BY DEF OnceInv
  <1>1. claims[r] \in Nat /\ Done(r) \in Nat
    BY Bounds DEF CarrierInv, PipelineInv, TypeOK, Done, Rows
  <1>2. OnceAt(r)
    BY FaultsGrow DEF OnceInv
  <1>3. CASE Claimed(r)
    <2>1. Done(r)' = Done(r)
      BY <1>1, <1>3, DoneMoves DEF Claimed
    <2>2. ~(claims'[r] = 0)
      BY <1>1, <1>3 DEF Claimed
    <2>3. claims'[r] <= 1 => claims[r] = 0
      BY <1>1, <1>3 DEF Claimed
    <2>4. claims[r] = 0 => Done(r) = 0
      BY <1>2 DEF OnceAt
    <2>5. QED
      BY <2>1, <2>2, <2>3, <2>4 DEF OnceAt
  <1>4. CASE claims'[r] = claims[r]
    <2>1. Ahead(r)' => Ahead(r)
      BY <1>1, <1>4, AheadMoves DEF Claimed
    <2>2. CASE Done(r)' = Done(r)
      BY <1>2, <1>4, <2>1, <2>2 DEF OnceAt
    <2>3. CASE Done(r)' = Done(r) + 1 /\ (claims[r] <= 1 => Ahead(r) /\ ~Ahead(r)')
      <3>1. claims[r] <= 1 => Done(r) = 0 /\ ~(claims[r] = 0)
        <4>1. claims[r] = 0 => ~Ahead(r)
          BY DEF CarrierInv, HandsInv, HandOk, InHand, Ahead, Holds, Waits, Works
        <4>2. QED
          BY <1>1, <1>2, <2>3, <4>1 DEF OnceAt
      <3>2. QED
        BY <1>4, <2>3, <3>1 DEF OnceAt
    <2>4. QED
      BY <2>2, <2>3, DoneMoves
  <1>5. QED
    BY <1>3, <1>4, ClaimsGrow

\* Without a fault and without the 15 minutes, an event's triggers are evaluated
\* once and an action takes effect once, for any number of instances that poll
\* and work (PluginEventProcessor.process, AutomationActionProcessor.process).
THEOREM UndisturbedOnce == Spec => []OnceWhenUndisturbed
  <1>1. Init => OnceInv
    BY DEF Init, OnceInv, OnceAt, Done, Ahead, Holds, Waits, Works, Rows, Slots
  <1>2. ASSUME CarrierInv, OnceInv PROVE OnceWhenUndisturbed
    <2>1. \A e \in Events : e \in Rows /\ Done(e) = fired[e]
      BY DEF Done, Rows
    <2>2. \A a \in Actions : a \in Rows /\ Done(a) = effects[a] /\ claims[a] <= 1
      BY <1>2, EventIsNoAction DEF Done, Rows, CarrierInv, ActionsInv, ClaimedOnce
    <2>3. QED
      BY <1>2, <2>1, <2>2 DEF OnceInv, OnceAt, OnceWhenUndisturbed
  <1>3. QED
    BY <1>1, <1>2, OnceStep, CarrierAlways, PTL DEF Spec

-----------------------------------------------------------------------------
(* EventPipeline implements EventDelivery, but for liveness: the initial    *)
(* states map to initial states, and every step to a step or a stutter.     *)

Phase == [e \in Events |-> PhaseOf(row[e])]

LEMMA Unnoticed ==
  ASSUME \A e \in Events : row'[e] = row[e], UNCHANGED <<fired, expired, tenant>>
  PROVE  UNCHANGED Delivery!vars
  <1>1. Phase' = Phase
    BY DEF Phase
  <1>2. QED
    BY <1>1 DEF Phase, Delivery!vars

LEMMA DeliveryInit == Init => Delivery!Init
  <1> SUFFICES ASSUME Init PROVE Delivery!Init
    OBVIOUS
  <1>1. \A e \in Events : row[e] = "none"
    BY DEF Init, Rows
  <1>2. [e \in Events |-> PhaseOf(row[e])] = [e \in Events |-> "new"]
    BY <1>1 DEF PhaseOf
  <1>3. QED
    BY <1>2 DEF Init, Delivery!Init

LEMMA DeliveryStep == PipelineInv /\ [Next]_vars =>
                        [Delivery!Next]_(Delivery!vars)
  <1> SUFFICES ASSUME PipelineInv, [Next]_vars
               PROVE  Delivery!Next \/ UNCHANGED Delivery!vars
    OBVIOUS
  <1> DEFINE G == Delivery!Next \/ UNCHANGED Delivery!vars
  <1> USE DEF PipelineInv, tables, history
  <1> Events \subseteq Rows /\ row \in [Rows -> Statuses]
    BY DEF Rows, TypeOK
  <1>1. ASSUME NEW e \in Events, Emit(e) PROVE G
    <2>1. row[e] = "none" /\ row' = [row EXCEPT ![e] = "pending"]
      BY <1>1 DEF Emit
    <2>2. Phase[e] = "new" /\ Phase' = [Phase EXCEPT ![e] = "open"]
      BY <2>1 DEF Phase, PhaseOf
    <2>3. Delivery!Emit(e)
      BY <1>1, <2>2 DEF Delivery!Emit, Emit, Phase
    <2>4. QED
      BY <2>3 DEF Delivery!Next
  <1>2. ASSUME NEW e \in Events, Expire(e) PROVE G
    <2>1. Phase[e] # "new" /\ Phase' = Phase
      BY <1>2 DEF Expire, Exists, Phase, PhaseOf
    <2>2. Delivery!Lapse(e)
      BY <1>2, <2>1 DEF Delivery!Lapse, Expire, Phase
    <2>3. QED
      BY <2>2 DEF Delivery!Next
  <1>3. CASE PurgeExpired
    <2>1. Phase' = [e \in Events |-> IF e \in expired THEN "dropped" ELSE Phase[e]]
      BY <1>3 DEF PurgeExpired, Phase, PhaseOf
    <2>2. Delivery!Drop(expired) /\ expired \in SUBSET Events
      BY <1>3, <2>1 DEF Delivery!Drop, PurgeExpired, Phase, TypeOK
    <2>3. QED
      BY <2>2 DEF Delivery!Next
  <1>4. ASSUME NEW S \in SUBSET Events, ResetStuck(S) PROVE G
    <2>1. Phase' = Phase
      BY <1>4 DEF ResetStuck, Phase, PhaseOf
    <2>2. QED
      BY <1>4, <2>1 DEF ResetStuck, Phase, Delivery!vars
  <1>5. ASSUME NEW T \in SUBSET Triggers, DropTriggers(T) PROVE G
    BY <1>5, Unnoticed, EventIsNoAction DEF DropTriggers
  <1>6. ASSUME NEW t \in Triggers, DeleteTrigger(t) PROVE G
    BY <1>5, <1>6 DEF DeleteTrigger
  <1>7. CASE DeleteTriggers
    BY <1>5, <1>7 DEF DeleteTriggers, TypeOK
  <1>8. CASE DeleteTenant
    <2>1. Phase' = [e \in Events |->
                      IF Phase[e] = "new" THEN "new" ELSE "dropped"]
      BY <1>8 DEF DeleteTenant, Phase, PhaseOf, Exists
    <2>2. Delivery!Close
      BY <1>8, <2>1 DEF Delivery!Close, DeleteTenant, Phase
    <2>3. QED
      BY <2>2 DEF Delivery!Next
  <1>9. ASSUME NEW i \in Instances, NEW k \in Kinds, Poll(i, k) PROVE G
    <2>1. Phase' = Phase
      BY <1>9 DEF Poll, Due, Phase, PhaseOf
    <2>2. QED
      BY <1>9, <2>1 DEF Poll, Phase, Delivery!vars
  <1>10. ASSUME NEW i \in Instances, InsertActions(i) PROVE G
    <2> DEFINE e == Row(i, "event")
    <2>1. worker[<<i, "event">>] # None
      BY <1>10 DEF InsertActions, At
    <2>2. e \in Events
      BY <2>1, EventWorker
    <2>3. row[e] # "none"
      BY <2>1, <2>2 DEF EmittedFirst, InHand, Slots, Kinds, Row
    <2>4. Phase[e] # "new" /\ Phase' = Phase
      BY <1>10, <2>2, <2>3, InsertedRows DEF Phase, PhaseOf
    <2>5. Delivery!Fire(e)
      BY <1>10, <2>4 DEF Delivery!Fire, InsertActions, Phase
    <2>6. QED
      BY <2>2, <2>5 DEF Delivery!Next
  <1>11. ASSUME NEW i \in Instances, MarkProcessed(i) PROVE G
    <2> DEFINE e == Row(i, "event")
    <2>1. e \in Events
      BY <1>11, EventWorker DEF MarkProcessed, At
    <2>2. fired[e] > 0
      BY <1>11 DEF MarkProcessed, FiredFirst
    <2>3. CASE Exists(e) /\ row[e] # "processed"
      <3>1. Phase[e] = "open" /\ Phase' = [Phase EXCEPT ![e] = "done"]
        BY <1>11, <2>1, <2>3 DEF MarkProcessed, SetStatus, Exists, Phase, PhaseOf
      <3>2. Delivery!Settle(e)
        BY <1>11, <2>2, <3>1 DEF Delivery!Settle, MarkProcessed, Phase
      <3>3. QED
        BY <2>1, <3>2 DEF Delivery!Next
    <2>4. CASE ~(Exists(e) /\ row[e] # "processed")
      <3>1. row' = row
        BY <1>11, <2>1, <2>4 DEF MarkProcessed, SetStatus
      <3>2. QED
        BY <1>11, <3>1, Unnoticed DEF MarkProcessed
    <2>5. QED
      BY <2>3, <2>4
  <1>12. ASSUME NEW i \in Instances,
                \/ BeginAction(i) \/ TenantMissing(i) \/ CompleteAction(i)
         PROVE  G
    <2>1. \A e \in Events : row'[e] = row[e]
      BY <1>12, ActionWorker, ActionStatus
         DEF BeginAction, TenantMissing, CompleteAction, At
    <2>2. QED
      BY <1>12, <2>1, Unnoticed DEF BeginAction, TenantMissing, CompleteAction
  <1>13. ASSUME UNCHANGED <<row, fired, expired, tenant>> PROVE G
    BY <1>13, Unnoticed
  <1>14. ASSUME NEW i \in Instances,
                \/ SelectTriggers(i) \/ InsertRefused(i) \/ RunAction(i)
                \/ EffectThenThrow(i) \/ Crash(i)
         PROVE  G
    BY <1>13, <1>14
       DEF SelectTriggers, InsertRefused, RunAction, EffectThenThrow, Crash
  <1>15. ASSUME NEW i \in Instances, NEW k \in Kinds,
                \/ Add(i, k) \/ AddFails(i, k) \/ Take(i, k) \/ Finish(i, k)
                \/ StepFails(i, k)
         PROVE  G
    BY <1>13, <1>15 DEF Add, AddFails, Take, Finish, StepFails
  <1>16. CASE UNCHANGED vars
    BY <1>13, <1>16 DEF vars
  <1>17. QED
    BY <1>1, <1>2, <1>3, <1>4, <1>6, <1>7, <1>8, <1>9, <1>10, <1>11, <1>12,
       <1>14, <1>15, <1>16
       DEF Next, EventStep, ActionStep, Serve

\* The pipeline keeps the safety part of its promise, whatever the number of
\* events, triggers and instances and whatever fails: an event is settled only
\* after its triggers were evaluated, stays settled, and is dropped only after
\* its time or with its tenant.
THEOREM ImplementsDelivery == Spec => Delivery!SafeSpec
  BY DeliveryInit, DeliveryStep, PipelineInvHolds, PTL
     DEF Spec, Delivery!SafeSpec

-----------------------------------------------------------------------------
(***************************************************************************)
(* What OneCarrier and QueuedAreCarried leave open: an action row that was *)
(* claimed and that nobody has any more.  ResetStuck is for events only.   *)
(***************************************************************************)
Stranded(a) == row[a] \in {"queued", "processing"} /\ ~InHand(a)

StrandedStay ==
  [][\A a \in Actions : Stranded(a) => row'[a] \in {row[a], "gone"} /\ ~InHand(a)']_vars

\* Only who has a row changes its status, but for the claim of a pending row
\* and for deletions.
LEMMA StrandedStep ==
  ASSUME CarrierInv, [Next]_vars, NEW a \in Actions, Stranded(a)
  PROVE  row'[a] \in {row[a], "gone"} /\ ~InHand(a)'
  <1>0. /\ PipelineInv /\ row \in [Rows -> Statuses] /\ a \in Rows /\ a \notin Events
        /\ row[a] \notin {"none", "pending"} /\ ~InHand(a)
    BY EventIsNoAction DEF CarrierInv, PipelineInv, TypeOK, Rows, Stranded
  <1>1. ~InHand(a)'
    BY <1>0, InHandStep
  <1> DEFINE G == row'[a] \in {row[a], "gone"}
  <1> USE DEF tables
  <1>2. ASSUME row' = row PROVE G
    BY <1>2
  <1>3. ASSUME NEW i \in Instances, NEW k \in Kinds, NEW s, worker[<<i, k>>] # None, SetStatus(Row(i, k), s) PROVE G
    <2>1. Row(i, k) # a
      BY <1>0, <1>3 DEF InHand, Row, Slots
    <2>2. QED
      BY <1>0, <1>3, <2>1 DEF SetStatus
  <1>4. ASSUME \/ PurgeExpired \/ DeleteTenant \/ \E T \in SUBSET Triggers : DropTriggers(T) PROVE G
    BY <1>0, <1>4 DEF PurgeExpired, DeleteTenant, DropTriggers
  <1>5. ASSUME \/ \E e \in Events : Emit(e)
               \/ \E S \in SUBSET Events : ResetStuck(S)
        PROVE G
    BY <1>0, <1>5 DEF Emit, ResetStuck
  <1>6. ASSUME NEW i \in Instances, NEW k \in Kinds, Poll(i, k) PROVE G
    BY <1>0, <1>6 DEF Poll, Due
  <1>7. ASSUME NEW i \in Instances, InsertActions(i) PROVE G
    <2>1. row'[a] \in {row[a], "pending"}
      BY <1>0, <1>7 DEF InsertActions
    <2>2. RowKeeps(a)
      BY RowsKeep
    <2>3. QED
      BY <1>0, <2>1, <2>2 DEF RowKeeps
  <1>8. ASSUME NEW i \in Instances, MarkProcessed(i) \/ BeginAction(i) \/ TenantMissing(i) \/ CompleteAction(i) PROVE G
    BY <1>3, <1>8 DEF MarkProcessed, BeginAction, TenantMissing, CompleteAction, At, Kinds
  <1>9. ASSUME NEW i \in Instances,
               \/ SelectTriggers(i) \/ InsertRefused(i) \/ RunAction(i) \/ EffectThenThrow(i) \/ Crash(i)
               \/ \E k \in Kinds : Add(i, k) \/ AddFails(i, k) \/ Take(i, k) \/ Finish(i, k) \/ StepFails(i, k)
        PROVE  G
    BY <1>2, <1>9 DEF SelectTriggers, InsertRefused, RunAction, EffectThenThrow, Crash, Add, AddFails, Take, Finish, StepFails
  <1>10. ASSUME (\E e \in Events : Expire(e)) \/ UNCHANGED vars PROVE G
    BY <1>2, <1>10 DEF Expire, vars
  <1>11. ASSUME DeleteTriggers \/ \E t \in Triggers : DeleteTrigger(t) PROVE G
    BY <1>0, <1>4, <1>11 DEF DeleteTriggers, DeleteTrigger, CarrierInv, PipelineInv, TypeOK
  <1>12. QED
    BY <1>1, <1>4, <1>5, <1>6, <1>7, <1>8, <1>9, <1>10, <1>11 DEF Next, EventStep, ActionStep, Serve

\* An action row that was claimed and is in nobody's hands (its batch was lost in
\* a crash or with a failed queue.add, or BullMQ gave its job up) is never taken up
\* again: it keeps its status until it is deleted (AutomationActionPoller.poll,
\* AutomationActionProcessor.onFailed, which nothing calls).
THEOREM StrandedForGood == Spec => StrandedStay
  <1>1. CarrierInv /\ [Next]_vars =>
          [\A a \in Actions : Stranded(a) => row'[a] \in {row[a], "gone"} /\ ~InHand(a)']_vars
    BY StrandedStep
  <1>2. QED
    BY <1>1, CarrierAlways, PTL DEF Spec, StrandedStay
=============================================================================
