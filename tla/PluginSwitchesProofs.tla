------------------------ MODULE PluginSwitchesProofs ------------------------
(***************************************************************************)
(* The properties of PluginSwitches for any calls, requests and jobs and   *)
(* any part of the built-in plugins and plans.                             *)
(***************************************************************************)
EXTENDS PluginSwitches, TLAPS

-----------------------------------------------------------------------------
(* Types *)

CallTyped(q) ==
    /\ q \in Call
    /\ q.pc \in {"write", "queue"} => q.plugin \in Plugins
    /\ q.pc = "queue" => row[q.plugin] # None
    /\ q.pc = "confirmed" => q.from \in Tiers
    /\ q.pc \in {"confirmed", "apply"} => q.plan \in Tiers
    /\ q.pc = "apply" => q.was \in Tiers
JobTyped(q) == q \in Job /\ (q.pc # "none" => q.plugin \in Plugins /\ row[q.plugin] # None)
CallsTyped == call \in [Calls -> Call] /\ \A c \in Calls : CallTyped(call[c])
JobsTyped == job \in [Jobs -> Job] /\ \A j \in Jobs : JobTyped(job[j])
Typed ==
    /\ tier \in Tiers
    /\ row \in [Plugins -> Row \cup {None}]
    /\ entry \in {None} \cup SUBSET Plugins
    /\ request \in [Requests -> Request]
    /\ raced \in BOOLEAN

LEMMA TypeParts == TypeOK <=> Typed /\ CallsTyped /\ JobsTyped
  BY DEF TypeOK, Typed, CallsTyped, JobsTyped, CallTyped, JobTyped

LEMMA PartsNext == TypeOK' <=> Typed' /\ CallsTyped' /\ JobsTyped'
  BY DEF TypeOK, Typed, CallsTyped, JobsTyped, CallTyped, JobTyped

\* Rows are inserted and updated, never deleted.
RowsStay == \A p \in Plugins : row[p] # None => row'[p] # None

LEMMA SameCalls == ASSUME CallsTyped, RowsStay, call' = call PROVE CallsTyped'
  BY DEF CallsTyped, CallTyped, RowsStay
LEMMA SameJobs == ASSUME JobsTyped, RowsStay, job' = job PROVE JobsTyped'
  BY DEF JobsTyped, JobTyped, RowsStay
LEMMA SameRows == ASSUME row' = row PROVE RowsStay
  BY DEF RowsStay

LEMMA OneCall ==
    ASSUME CallsTyped, RowsStay, NEW c \in Calls, NEW q, CallTyped(q)', call' = [call EXCEPT ![c] = q]
    PROVE  CallsTyped'
  BY DEF CallsTyped, CallTyped, RowsStay

LEMMA OneJob ==
    ASSUME JobsTyped, RowsStay, NEW j \in Jobs, NEW q, JobTyped(q)', job' = [job EXCEPT ![j] = q]
    PROVE  JobsTyped'
  BY DEF JobsTyped, JobTyped, RowsStay

LEMMA NothingTyped == CallTyped(NoCall)' /\ JobTyped(NoJob)'
  BY DEF CallTyped, JobTyped, NoCall, NoJob, Call, Job

\* A call about to delete the entry.
Dropping == [NoCall EXCEPT !.pc = "drop"]
LEMMA DroppingTyped == CallTyped(Dropping)' /\ Dropping.pc = "drop" /\ Dropping.from = None
  BY DEF CallTyped, Dropping, NoCall, Call

LEMMA SwitchedType ==
    ASSUME NEW old \in Row \cup {None}, NEW on \in BOOLEAN
    PROVE  /\ Switched(old, on) \in Row /\ Switched(old, on) # None
           /\ Switched(old, on).enabled = on
           /\ old # None => Switched(old, on).initialized = old.initialized
<1>1. CASE old = None
  <2>1. PICK n : n = [enabled |-> on, initialized |-> FALSE]
    OBVIOUS
  <2>2. n \in Row /\ n.enabled = on
    BY <2>1 DEF Row
  <2>3. Switched(old, on) = n
    BY <1>1, <2>1, Zenon DEF Switched
  <2>. HIDE DEF Switched
  <2>. QED  BY <1>1, <2>2, <2>3, NoneIsNoRow
<1>2. CASE old # None
  <2>1. PICK n : n = [old EXCEPT !.enabled = on]
    OBVIOUS
  <2>2. n \in Row /\ n.enabled = on /\ n.initialized = old.initialized
    BY <1>2, <2>1 DEF Row
  <2>3. Switched(old, on) = n
    BY <1>2, <2>1 DEF Switched
  <2>. HIDE DEF Switched
  <2>. QED  BY <1>2, <2>2, <2>3, NoneIsNoRow
<1>. QED  BY <1>1, <1>2

LEMMA TypeInit ==
    ASSUME Init
    PROVE  TypeOK
<1>1. [enabled |-> TRUE, initialized |-> FALSE] \in Row
  BY DEF Row
<1>2. Typed
  BY <1>1 DEF Init, Typed, Request, NoRequest
<1>3. CallsTyped
  BY DEF Init, CallsTyped, CallTyped, NoCall, Call
<1>4. JobsTyped
  BY DEF Init, JobsTyped, JobTyped, NoJob, Job
<1>. QED  BY <1>2, <1>3, <1>4, TypeParts

\* What a switch of one plugin writes.
LEMMA WriteRows ==
    ASSUME TypeOK, NEW c \in Calls, Write(c)
    PROVE  /\ call[c].plugin \in Plugins /\ call[c].on \in BOOLEAN
           /\ row' \in [Plugins -> Row \cup {None}] /\ RowsStay
           /\ row'[call[c].plugin] # None
           /\ EnabledIn(row') = IF call[c].on THEN Enabled \cup {call[c].plugin} ELSE Enabled \ {call[c].plugin}
           /\ \A p \in Plugins : row[p] # None => row'[p].initialized = row[p].initialized
<1>. DEFINE p == call[c].plugin
            on == call[c].on
<1>1. p \in Plugins /\ on \in BOOLEAN /\ row \in [Plugins -> Row \cup {None}]
  BY DEF TypeOK, Write, WriteAs, Call
<1>2. PICK n : n = Switched(row[p], on)
  OBVIOUS
<1>3. n \in Row /\ n # None /\ n.enabled = on /\ (row[p] # None => n.initialized = row[p].initialized)
  BY <1>1, <1>2, SwitchedType
<1>4. row' = [row EXCEPT ![p] = n]
  BY <1>2, Zenon DEF Write, WriteAs
<1>5. EnabledIn(row') = IF on THEN Enabled \cup {p} ELSE Enabled \ {p}
  <2>1. \A q \in Plugins : row'[q] = IF q = p THEN n ELSE row[q]
    BY <1>1, <1>4
  <2>. QED  BY <1>1, <1>3, <2>1 DEF Enabled, EnabledIn
<1>. QED  BY <1>1, <1>3, <1>4, <1>5 DEF RowsStay

LEMMA PlanRows ==
    ASSUME TypeOK, NEW c \in Calls, Apply(c)
    PROVE  /\ call[c].was \in Tiers /\ call[c].plan \in Tiers
           /\ row' \in [Plugins -> Row \cup {None}] /\ RowsStay
           /\ \A p \in Plugins : row[p] # None => row'[p].initialized = row[p].initialized
           /\ call[c].was = call[c].plan => row' = row
<1>. DEFINE was == call[c].was
            plan == call[c].plan
<1>1. was \in Tiers /\ plan \in Tiers /\ row \in [Plugins -> Row \cup {None}]
  BY DEF TypeOK, Apply, ApplyThen
<1>2. row' = SwitchPlan(was, plan)
  BY DEF Apply, ApplyThen
<1>3. ASSUME NEW p \in Plugins
      PROVE  /\ row'[p] \in Row \cup {None} /\ (row[p] # None => row'[p] # None)
             /\ row[p] # None => row'[p].initialized = row[p].initialized
  <2>1. row'[p] = row[p] \/ \E on \in BOOLEAN : row'[p] = Switched(row[p], on)
    BY <1>2, Zenon DEF SwitchPlan
  <2>. QED  BY <1>1, <2>1, SwitchedType
<1>4. was = plan => row' = row
  BY <1>1, <1>2 DEF SwitchPlan, Gained, Lost
<1>5. row' = [p \in Plugins |-> row'[p]]
  BY <1>2 DEF SwitchPlan
<1>. QED  BY <1>1, <1>3, <1>4, <1>5 DEF RowsStay

LEMMA OffboardRows ==
    ASSUME TypeOK, NEW c \in Calls, Offboard(c)
    PROVE  /\ row' \in [Plugins -> Row \cup {None}] /\ RowsStay
           /\ EnabledIn(row') = {}
           /\ \A p \in Plugins : row[p] # None => row'[p].initialized = row[p].initialized
<1>1. row \in [Plugins -> Row \cup {None}]
  BY DEF TypeOK
<1>2. row' = [p \in Plugins |-> IF row[p] = None THEN None ELSE Switched(row[p], FALSE)]
  BY DEF Offboard
<1>3. ASSUME NEW p \in Plugins
      PROVE  /\ row'[p] \in Row \cup {None} /\ (row[p] # None <=> row'[p] # None)
             /\ row[p] # None => row'[p].initialized = row[p].initialized /\ row'[p].enabled = FALSE
  BY <1>1, <1>2, SwitchedType
<1>. QED  BY <1>2, <1>3 DEF RowsStay, EnabledIn

LEMMA EndJobRows ==
    ASSUME TypeOK, NEW j \in Jobs, EndJob(j)
    PROVE  /\ job[j].plugin \in Plugins /\ row[job[j].plugin] # None
           /\ row' \in [Plugins -> Row \cup {None}] /\ RowsStay
           /\ EnabledIn(row') = Enabled
           /\ \A p \in Plugins \ {job[j].plugin} : row'[p] = row[p]
<1>. DEFINE p == job[j].plugin
<1>1. p \in Plugins /\ row[p] \in Row /\ row[p] # None /\ row \in [Plugins -> Row \cup {None}]
  BY DEF TypeOK, EndJob
<1>2. PICK n : n = [row[p] EXCEPT !.initialized = TRUE]
  OBVIOUS
<1>3. n \in Row /\ n # None /\ n.enabled = row[p].enabled
  BY <1>1, <1>2, NoneIsNoRow DEF Row
<1>4. row' = [row EXCEPT ![p] = n]
  BY <1>2, Zenon DEF EndJob
<1>. QED  BY <1>1, <1>3, <1>4 DEF RowsStay, Enabled, EnabledIn

LEMMA CallTypeStep ==
    ASSUME TypeOK, NEW c \in Calls, CallNext(c)
    PROVE  TypeOK'
<1>1. Typed /\ CallsTyped /\ JobsTyped
  BY TypeParts
<1>2. CallTyped(call[c]) /\ call[c] \in Call
  BY <1>1 DEF CallsTyped, CallTyped
<1>3. ASSUME NEW p \in Plugins, NEW on \in BOOLEAN, Toggle(c, p, on)
      PROVE  TypeOK'
  <2>1. PICK first \in BOOLEAN : first = (row[p] = None \/ ~row[p].initialized)
    OBVIOUS
  <2>2. PICK q : q = [NoCall EXCEPT !.pc = "write", !.plugin = p, !.on = on, !.seen = Enabled, !.first = first]
    OBVIOUS
  <2>3. Enabled \in SUBSET Plugins
    BY DEF Enabled, EnabledIn
  <2>4. CallTyped(q)'
    BY <2>2, <2>3 DEF CallTyped, Call, NoCall
  <2>5. call' = [call EXCEPT ![c] = q]
    BY <1>3, <2>1, <2>2, Zenon DEF Toggle, Begin
  <2>. QED  BY <1>1, <1>3, <2>4, <2>5, OneCall, SameJobs, SameRows, PartsNext DEF Toggle, Begin, Typed
<1>4. ASSUME NEW plan \in Tiers, Confirm(c, plan)
      PROVE  TypeOK'
  <2>1. PICK q : q = [NoCall EXCEPT !.pc = "confirmed", !.plan = plan, !.from = tier]
    OBVIOUS
  <2>2. CallTyped(q)'
    BY <1>1, <2>1 DEF CallTyped, Call, NoCall, Typed
  <2>3. call' = [call EXCEPT ![c] = q]
    BY <1>4, <2>1 DEF Confirm, ConfirmAny
  <2>. QED  BY <1>1, <1>4, <2>2, <2>3, OneCall, SameJobs, SameRows, PartsNext DEF Confirm, ConfirmAny, Typed
<1>5. ASSUME NEW plan \in Tiers, ReadTier(c, plan)
      PROVE  TypeOK'
  <2>1. PICK q : q = [call[c] EXCEPT !.pc = "apply", !.plan = plan, !.was = tier]
    OBVIOUS
  <2>2. CallTyped(q)'
    BY <1>1, <1>2, <2>1 DEF CallTyped, Call, Typed
  <2>3. call' = [call EXCEPT ![c] = q]
    BY <1>1, <1>5, <2>1 DEF ReadTier, CallsTyped
  <2>. QED  BY <1>1, <1>5, <2>2, <2>3, OneCall, SameJobs, SameRows, PartsNext DEF ReadTier, Typed
<1>6. ASSUME NEW j \in Jobs, Queue(c, j)
      PROVE  TypeOK'
  <2>1. call[c].plugin \in Plugins /\ row[call[c].plugin] # None
    BY <1>2, <1>6 DEF Queue, CallTyped
  <2>2. PICK n : n = [NoJob EXCEPT !.pc = "waiting", !.plugin = call[c].plugin]
    OBVIOUS
  <2>3. JobTyped(n)' /\ job' = [job EXCEPT ![j] = n]
    BY <1>6, <2>1, <2>2 DEF Queue, JobTyped, Job, NoJob
  <2>4. call' = [call EXCEPT ![c] = Dropping] /\ RowsStay
    BY <1>6, SameRows DEF Queue, Dropping
  <2>. QED  BY <1>1, <1>6, <2>3, <2>4, DroppingTyped, OneCall, OneJob, PartsNext DEF Queue, Typed
<1>7. CASE Write(c)
  <2>1. PICK n : n = [NoCall EXCEPT !.pc = "queue", !.plugin = call[c].plugin]
    OBVIOUS
  <2>2. CallTyped(n)'
    BY <1>7, <2>1, WriteRows DEF CallTyped, Call, NoCall
  <2>3. call' = [call EXCEPT ![c] = n] \/ call' = [call EXCEPT ![c] = Dropping]
    BY <1>7, <2>1, Zenon DEF Write, WriteAs, Dropping
  <2>4. CallsTyped'
    BY <1>1, <1>7, <2>2, <2>3, WriteRows, DroppingTyped, OneCall
  <2>. QED  BY <1>1, <1>7, <2>4, WriteRows, SameJobs, PartsNext DEF Write, WriteAs, Typed
<1>8. CASE Drop(c) \/ Fail(c)
  <2>1. call' = [call EXCEPT ![c] = NoCall] /\ row' = row /\ job' = job
    BY <1>8 DEF Drop, Fail
  <2>2. Typed'
    BY <1>1, <1>8 DEF Drop, Fail, Typed
  <2>. QED  BY <1>1, <2>1, <2>2, NothingTyped, OneCall, SameJobs, SameRows, PartsNext
<1>9. CASE Apply(c)
  <2>1. call' = [call EXCEPT ![c] = NoCall] \/ call' = [call EXCEPT ![c] = Dropping]
    BY <1>9, Zenon DEF Apply, ApplyThen, Dropping
  <2>2. CallsTyped'
    BY <1>1, <1>9, <2>1, PlanRows, NothingTyped, DroppingTyped, OneCall
  <2>. QED  BY <1>1, <1>9, <2>2, PlanRows, SameJobs, PartsNext DEF Apply, ApplyThen, Typed
<1>10. CASE Offboard(c)
  <2>1. PICK q : q = [call[c] EXCEPT !.pc = "drop"]
    OBVIOUS
  <2>2. CallTyped(q)'
    BY <1>2, <2>1 DEF CallTyped, Call
  <2>3. call' = [call EXCEPT ![c] = q]
    BY <1>1, <1>10, <2>1 DEF Offboard, CallsTyped
  <2>. QED  BY <1>1, <1>10, <2>2, <2>3, OffboardRows, OneCall, SameJobs, PartsNext DEF Offboard, Typed
<1>. QED  BY <1>3, <1>4, <1>5, <1>6, <1>7, <1>8, <1>9, <1>10 DEF CallNext

LEMMA RequestTypeStep ==
    ASSUME TypeOK, NEW r \in Requests, RequestNext(r)
    PROVE  TypeOK'
<1>1. Typed /\ CallsTyped /\ JobsTyped
  BY TypeParts
<1>2. request[r] \in Request /\ Enabled \in SUBSET Plugins
  BY <1>1 DEF Typed, Enabled, EnabledIn
<1>3. UNCHANGED <<tier, row, call, job>>
  BY DEF RequestNext, Miss, ReadRows, Fill
<1>4. CASE Miss(r)
  <2>1. PICK q : q = [request[r] EXCEPT !.pc = "read"]
    OBVIOUS
  <2>2. q \in Request /\ request' = [request EXCEPT ![r] = q]
    BY <1>1, <1>2, <1>4, <2>1 DEF Miss, Request, Typed
  <2>. QED  BY <1>1, <1>3, <1>4, <2>2, SameCalls, SameJobs, SameRows, PartsNext DEF Miss, Typed
<1>5. CASE ReadRows(r)
  <2>1. [pc |-> "fill", list |-> Enabled] \in Request
    BY <1>2 DEF Request
  <2>. QED  BY <1>1, <1>3, <1>5, <2>1, SameCalls, SameJobs, SameRows, PartsNext DEF ReadRows, Typed
<1>6. CASE Fill(r)
  <2>1. NoRequest \in Request /\ request[r].list \in SUBSET Plugins
    BY <1>2 DEF Request, NoRequest
  <2>. QED  BY <1>1, <1>3, <1>6, <2>1, SameCalls, SameJobs, SameRows, PartsNext DEF Fill, Typed
<1>. QED  BY <1>4, <1>5, <1>6 DEF RequestNext

\* Which jobs start, and how: the others of the plugin learn that they are not alone.
Others(j) == {k \in Jobs \ {j} : job[k].pc = "running" /\ job[k].plugin = job[j].plugin}

LEMMA Starting ==
    ASSUME TypeOK, NEW j \in Jobs, StartJob(j)
    PROVE  \/ job' = [job EXCEPT ![j] = NoJob]
           \/ /\ ~row[job[j].plugin].initialized
              /\ job' \in [Jobs -> Job]
              /\ \A k \in Jobs : job'[k].plugin = job[k].plugin
              /\ \A k \in Jobs \ {j} : job'[k].pc = job[k].pc /\ (job[k].shared => job'[k].shared)
              /\ job'[j].pc = "running" /\ job[j].pc = "waiting"
              /\ \A k \in Others(j) : job'[k].shared /\ job'[j].shared
<1>1. job \in [Jobs -> Job] /\ job[j].pc = "waiting"
  BY DEF TypeOK, StartJob, StartIf
<1>2. CASE row[job[j].plugin].initialized
  BY <1>2, Zenon DEF StartJob, StartIf
<1>3. CASE ~row[job[j].plugin].initialized
  <2>1. PICK some \in BOOLEAN : some = (Others(j) # {})
    OBVIOUS
  <2>2. PICK n : n = [job[j] EXCEPT !.pc = "running", !.shared = some]
    OBVIOUS
  <2>3. n \in Job /\ n.pc = "running" /\ n.plugin = job[j].plugin /\ n.shared = some
    BY <1>1, <2>2 DEF Job
  <2>4. job' = [k \in Jobs |-> IF k = j THEN n
                               ELSE IF k \in Others(j) THEN [job[k] EXCEPT !.shared = TRUE] ELSE job[k]]
    BY <1>3, <2>1, <2>2, Zenon DEF StartJob, StartIf, Others
  <2>5. ASSUME NEW k \in Jobs \ {j}
        PROVE  /\ job'[k] \in Job /\ job'[k].plugin = job[k].plugin /\ job'[k].pc = job[k].pc
               /\ job[k].shared => job'[k].shared
               /\ k \in Others(j) => job'[k].shared
    <3>1. PICK m : m = [job[k] EXCEPT !.shared = TRUE]
      OBVIOUS
    <3>2. m \in Job /\ m.plugin = job[k].plugin /\ m.pc = job[k].pc /\ m.shared
      BY <1>1, <3>1 DEF Job
    <3>3. job'[k] = IF k \in Others(j) THEN m ELSE job[k]
      BY <2>4, <3>1, Zenon
    <3>. QED  BY <1>1, <3>2, <3>3
  <2>6. job'[j] = n
    BY <2>4
  <2>7. job' = [k \in Jobs |-> job'[k]]
    BY <2>4
  <2>8. \A k \in Others(j) : k \in Jobs \ {j} /\ some
    BY <2>1 DEF Others
  <2>9. job' \in [Jobs -> Job]
    BY <2>3, <2>5, <2>6, <2>7
  <2>. QED  BY <1>1, <1>3, <2>3, <2>5, <2>6, <2>8, <2>9
<1>. QED  BY <1>2, <1>3

LEMMA JobTypeStep ==
    ASSUME TypeOK, NEW j \in Jobs, JobNext(j)
    PROVE  TypeOK'
<1>1. Typed /\ CallsTyped /\ JobsTyped
  BY TypeParts
<1>2. CASE StartJob(j)
  <2>1. UNCHANGED <<tier, row, entry, call, request, raced>>
    BY <1>2 DEF StartJob, StartIf
  <2>2. CASE job' = [job EXCEPT ![j] = NoJob]
    BY <1>1, <2>1, <2>2, SameCalls, SameRows, NothingTyped, OneJob, PartsNext DEF Typed
  <2>3. CASE job' # [job EXCEPT ![j] = NoJob]
    <3>1. JobsTyped'
      BY <1>1, <1>2, <2>1, <2>3, Starting DEF JobsTyped, JobTyped
    <3>. QED  BY <1>1, <2>1, <3>1, SameCalls, SameRows, PartsNext DEF Typed
  <2>. QED  BY <2>2, <2>3
<1>3. CASE EndJob(j)
  <2>1. UNCHANGED <<tier, entry, call, request, raced>> /\ job' = [job EXCEPT ![j] = NoJob]
    BY <1>3 DEF EndJob
  <2>. QED  BY <1>1, <1>3, <2>1, EndJobRows, SameCalls, NothingTyped, OneJob, PartsNext DEF Typed
<1>. QED  BY <1>2, <1>3 DEF JobNext

LEMMA TypeStep ==
    ASSUME TypeOK, [Next]_vars
    PROVE  TypeOK'
<1>1. CASE UNCHANGED vars
  BY <1>1 DEF vars, TypeOK
<1>2. CASE ExpireEntry
  BY <1>2 DEF ExpireEntry, TypeOK
<1>. QED  BY <1>1, <1>2, CallTypeStep, RequestTypeStep, JobTypeStep DEF Next

\* Rows, entry, calls and jobs have their types; a job's plugin has a row.
THEOREM SwitchTypes == Spec => []TypeOK
  BY TypeInit, TypeStep, PTL DEF Spec

-----------------------------------------------------------------------------
(* What a call has read: it is not in the properties, and what they need.  *)

\* A switch was allowed by the rows it read; a confirmed plan is below the tier it was compared with.
Allowed(q) ==
    /\ q.pc = "write" => IF q.on THEN MissingDeps(q.plugin, q.seen) = {} ELSE BlockingDependents(q.plugin, q.seen) = {}
    /\ q.from # None => q.pc \in {"confirmed", "apply"} /\ TierOrder[q.plan] < TierOrder[q.from]
CallsAllowed == \A c \in Calls : Allowed(call[c])

LEMMA OneAllowed ==
    ASSUME TypeOK, CallsAllowed, NEW c \in Calls, NEW q, Allowed(q), call' = [call EXCEPT ![c] = q]
    PROVE  CallsAllowed'
  BY DEF CallsAllowed, Allowed, TypeOK

LEMMA SimplyAllowed ==
    ASSUME NEW q, q.pc # "write", q.from = None
    PROVE  Allowed(q)
  BY DEF Allowed

LEMMA AllowedStep ==
    ASSUME TypeOK, CallsAllowed, [Next]_vars
    PROVE  CallsAllowed'
<1>1. CASE call' = call
  BY <1>1 DEF CallsAllowed, Allowed
<1>2. ASSUME NEW c \in Calls, CallNext(c)
      PROVE  CallsAllowed'
  <2>1. call[c] \in Call /\ Allowed(call[c])
    BY DEF CallsAllowed, TypeOK
  <2>2. ASSUME NEW p \in Plugins, NEW on \in BOOLEAN, Toggle(c, p, on)
        PROVE  CallsAllowed'
    <3>1. PICK first \in BOOLEAN : first = (row[p] = None \/ ~row[p].initialized)
      OBVIOUS
    <3>2. PICK q : q = [NoCall EXCEPT !.pc = "write", !.plugin = p, !.on = on, !.seen = Enabled, !.first = first]
      OBVIOUS
    <3>3. q.pc = "write" /\ q.plugin = p /\ q.on = on /\ q.seen = Enabled /\ q.from = None
      BY <3>2 DEF NoCall
    <3>4. IF on THEN MissingDeps(p, Enabled) = {} ELSE BlockingDependents(p, Enabled) = {}
      BY <2>2 DEF Toggle
    <3>5. Allowed(q)
      BY <3>3, <3>4 DEF Allowed
    <3>6. call' = [call EXCEPT ![c] = q]
      BY <2>2, <3>1, <3>2, Zenon DEF Toggle, Begin
    <3>. QED  BY <3>5, <3>6, OneAllowed
  <2>3. ASSUME NEW plan \in Tiers, Confirm(c, plan)
        PROVE  CallsAllowed'
    <3>1. PICK q : q = [NoCall EXCEPT !.pc = "confirmed", !.plan = plan, !.from = tier]
      OBVIOUS
    <3>2. q.pc = "confirmed" /\ q.plan = plan /\ q.from = tier
      BY <3>1 DEF NoCall
    <3>3. Allowed(q)
      BY <2>3, <3>2 DEF Confirm, Allowed
    <3>4. call' = [call EXCEPT ![c] = q]
      BY <2>3, <3>1 DEF Confirm, ConfirmAny
    <3>. QED  BY <3>3, <3>4, OneAllowed
  <2>4. ASSUME NEW plan \in Tiers, ReadTier(c, plan)
        PROVE  CallsAllowed'
    <3>1. PICK q : q = [call[c] EXCEPT !.pc = "apply", !.plan = plan, !.was = tier]
      OBVIOUS
    <3>2. q.pc = "apply" /\ q.plan = plan /\ q.from = call[c].from
      BY <2>1, <3>1 DEF Call
    <3>3. call[c].pc = "idle" \/ call[c].plan = plan
      BY <2>4 DEF ReadTier
    <3>4. Allowed(q)
      BY <2>1, <3>2, <3>3 DEF Allowed
    <3>5. call' = [call EXCEPT ![c] = q]
      BY <2>4, <3>1 DEF ReadTier, TypeOK
    <3>. QED  BY <3>4, <3>5, OneAllowed
  <2>5. CASE Offboard(c)
    <3>1. PICK q : q = [call[c] EXCEPT !.pc = "drop"]
      OBVIOUS
    <3>2. q.pc = "drop" /\ q.from = call[c].from /\ call[c].pc = "idle"
      BY <2>1, <2>5, <3>1 DEF Call, Offboard
    <3>3. Allowed(q)
      BY <2>1, <3>2 DEF Allowed
    <3>4. call' = [call EXCEPT ![c] = q]
      BY <2>5, <3>1 DEF Offboard, TypeOK
    <3>. QED  BY <3>3, <3>4, OneAllowed
  <2>6. CASE Write(c)
    <3>1. PICK n : n = [NoCall EXCEPT !.pc = "queue", !.plugin = call[c].plugin]
      OBVIOUS
    <3>2. n.pc = "queue" /\ n.from = None
      BY <3>1 DEF NoCall
    <3>3. call' = [call EXCEPT ![c] = n] \/ call' = [call EXCEPT ![c] = Dropping]
      BY <2>6, <3>1, Zenon DEF Write, WriteAs, Dropping
    <3>. QED  BY <3>2, <3>3, DroppingTyped, SimplyAllowed, OneAllowed
  <2>7. CASE Drop(c) \/ Fail(c) \/ Apply(c) \/ \E j \in Jobs : Queue(c, j)
    <3>1. call' = [call EXCEPT ![c] = NoCall] \/ call' = [call EXCEPT ![c] = Dropping]
      BY <2>7, Zenon DEF Drop, Fail, Apply, ApplyThen, Queue, Dropping
    <3>2. NoCall.pc = "idle" /\ NoCall.from = None
      BY DEF NoCall
    <3>. QED  BY <3>1, <3>2, DroppingTyped, SimplyAllowed, OneAllowed
  <2>. QED  BY <1>2, <2>2, <2>3, <2>4, <2>5, <2>6, <2>7 DEF CallNext
<1>3. ASSUME ~(\E c \in Calls : CallNext(c))
      PROVE  call' = call
  BY <1>3 DEF Next, vars, RequestNext, Miss, ReadRows, Fill, JobNext, StartJob, StartIf, EndJob, ExpireEntry
<1>. QED  BY <1>1, <1>2, <1>3

LEMMA AllowedInit == Init => CallsAllowed
  BY DEF Init, CallsAllowed, Allowed, NoCall

LEMMA AllowedAlways == Spec => []CallsAllowed
  BY AllowedInit, AllowedStep, SwitchTypes, PTL DEF Spec

-----------------------------------------------------------------------------
(* The properties *)

\* Only calls and jobs write rows.
LEMMA RowWriters ==
    ASSUME [Next]_vars, row' # row
    PROVE  (\E c \in Calls : Write(c) \/ Apply(c) \/ Offboard(c)) \/ \E j \in Jobs : EndJob(j)
<1>1. ~UNCHANGED vars /\ ~ExpireEntry /\ ~\E r \in Requests : RequestNext(r)
  BY DEF vars, ExpireEntry, RequestNext, Miss, ReadRows, Fill
<1>2. ASSUME NEW j \in Jobs, JobNext(j)
      PROVE  EndJob(j)
  BY <1>2 DEF JobNext, StartJob, StartIf
<1>3. ASSUME NEW c \in Calls, CallNext(c)
      PROVE  Write(c) \/ Apply(c) \/ Offboard(c)
  BY <1>3 DEF CallNext, Toggle, Begin, Confirm, ConfirmAny, ReadTier, Queue, Drop, Fail
<1>. QED  BY <1>1, <1>2, <1>3 DEF Next

\* Plugins lose a dependency only by a change of the plan or by a switch whose
\* call had read other rows, for any number of calls and whatever is between
\* what togglePlugin reads and what it writes.
THEOREM TogglesClose == Spec => TogglesKeepClosure
<1>1. ASSUME TypeOK, CallsAllowed, [Next]_vars, row' # row, Closed(Enabled), ~Closed(Enabled')
      PROVE  \E c \in Calls : \/ call[c].pc = "apply"
                              \/ call[c].pc = "write" /\ call[c].seen # Enabled
  <2>0. Enabled' = EnabledIn(row')
    BY DEF Enabled, EnabledIn
  <2>1. ASSUME NEW c \in Calls, Write(c), call[c].seen = Enabled
        PROVE  FALSE
    <3>1. Enabled' = IF call[c].on THEN Enabled \cup {call[c].plugin} ELSE Enabled \ {call[c].plugin}
      BY <2>0, <2>1, <1>1, WriteRows
    <3>2. Allowed(call[c]) /\ call[c].pc = "write"
      BY <1>1, <2>1 DEF CallsAllowed, Write, WriteAs
    <3>3. CASE call[c].on
      BY <1>1, <2>1, <3>1, <3>2, <3>3 DEF Allowed, MissingDeps, Closed
    <3>4. CASE ~call[c].on
      BY <1>1, <2>1, <3>1, <3>2, <3>4 DEF Allowed, BlockingDependents, Closed
    <3>. QED  BY <3>3, <3>4
  <2>2. ASSUME NEW c \in Calls, Offboard(c)
        PROVE  FALSE
    BY <1>1, <2>0, <2>2, OffboardRows DEF Closed
  <2>3. ASSUME NEW j \in Jobs, EndJob(j)
        PROVE  FALSE
    BY <1>1, <2>0, <2>3, EndJobRows
  <2>4. PICK c \in Calls : Write(c) \/ Apply(c)
    BY <1>1, <2>2, <2>3, RowWriters
  <2>5. CASE Apply(c)
    BY <2>5 DEF Apply, ApplyThen
  <2>6. CASE Write(c)
    BY <2>1, <2>6 DEF Write, WriteAs
  <2>. QED  BY <2>4, <2>5, <2>6
<1>2. TypeOK /\ CallsAllowed /\ [Next]_vars
      => [Closed(Enabled) /\ ~Closed(Enabled')
             => \E c \in Calls : \/ call[c].pc = "apply"
                                 \/ call[c].pc = "write" /\ call[c].seen # Enabled]_row
  BY <1>1
<1>. QED  BY <1>2, SwitchTypes, AllowedAlways, PTL DEF Spec, TogglesKeepClosure

\* A confirmed downgrade lowers the tier, unless the tier changed after it was
\* compared, for any calls between the comparison and the UPDATE.
THEOREM DowngradesGoDown == Spec => ConfirmedGoesDown
<1>1. ASSUME TypeOK, CallsAllowed, [Next]_vars, NEW c \in Calls,
             call[c].pc = "apply", call'[c].pc # "apply", call[c].from = tier
      PROVE  TierOrder[tier'] < TierOrder[tier]
  <2>1. call # call' /\ call \in [Calls -> Call]
    BY <1>1 DEF TypeOK
  <2>2. PICK d \in Calls : CallNext(d)
    BY <1>1, <2>1 DEF Next, vars, RequestNext, Miss, ReadRows, Fill, JobNext, StartJob, StartIf, EndJob, ExpireEntry
  <2>3. PICK q : call' = [call EXCEPT ![d] = q]
    BY <2>2, Zenon DEF CallNext, Toggle, Begin, Confirm, ConfirmAny, ReadTier, Queue, Write, WriteAs, Drop, Fail,
                       Apply, ApplyThen, Offboard
  <2>4. d = c
    BY <1>1, <2>1, <2>3
  <2>5. Apply(c)
    BY <1>1, <2>2, <2>4 DEF CallNext, Toggle, Begin, Confirm, ConfirmAny, ReadTier, Queue, Write, WriteAs, Drop, Fail,
                            Offboard
  <2>6. tier' = call[c].plan /\ tier # None
    BY <1>1, <2>5, SwitchConstants DEF Apply, ApplyThen, TypeOK
  <2>. QED  BY <1>1, <2>6 DEF CallsAllowed, Allowed
<1>2. TypeOK /\ CallsAllowed /\ [Next]_vars
      => [\A c \in Calls : call[c].pc = "apply" /\ call'[c].pc # "apply" /\ call[c].from = tier
             => TierOrder[tier'] < TierOrder[tier]]_vars
  BY <1>1
<1>. QED  BY <1>2, SwitchTypes, AllowedAlways, PTL DEF Spec, ConfirmedGoesDown

\* The cached list is the list of the rows but for what StaleIsExplained names,
\* for any number of requests that fill it and of calls that delete it.
LEMMA StaleStep ==
    ASSUME TypeOK, StaleIsExplained, [Next]_vars
    PROVE  StaleIsExplained'
<1>. DEFINE Due(cs) == \E c \in Calls : cs[c].pc \in {"queue", "drop"}
<1>0. /\ call \in [Calls -> Call]
      /\ Enabled = EnabledIn(row) /\ Enabled' = EnabledIn(row')
      /\ StaleIsExplained <=> (entry \notin {None, Enabled} => raced \/ Due(call))
      /\ StaleIsExplained' <=> (entry' \notin {None, Enabled'} => raced' \/ Due(call'))
  BY DEF Enabled, EnabledIn, StaleIsExplained, TypeOK
<1>1. CASE UNCHANGED vars
  BY <1>0, <1>1 DEF vars
<1>2. CASE ExpireEntry
  BY <1>0, <1>2 DEF ExpireEntry
<1>3. ASSUME NEW j \in Jobs, JobNext(j)
      PROVE  StaleIsExplained'
  <2>1. Enabled' = Enabled /\ UNCHANGED <<entry, raced, call>>
    BY <1>0, <1>3, EndJobRows DEF JobNext, StartJob, StartIf, EndJob
  <2>. QED  BY <1>0, <2>1
<1>4. ASSUME NEW r \in Requests, RequestNext(r)
      PROVE  StaleIsExplained'
  BY <1>0, <1>4 DEF RequestNext, Miss, ReadRows, Fill
<1>5. ASSUME NEW c \in Calls, CallNext(c)
      PROVE  StaleIsExplained'
  <2>1. CASE Drop(c)
    BY <1>0, <2>1 DEF Drop
  <2>2. CASE Fail(c)
    BY <1>0, <2>2 DEF Fail
  <2>3. CASE Write(c)
    <3>1. PICK n : n = [NoCall EXCEPT !.pc = "queue", !.plugin = call[c].plugin]
      OBVIOUS
    <3>2. n.pc = "queue"
      BY <3>1 DEF NoCall
    <3>3. call' = [call EXCEPT ![c] = n] \/ call' = [call EXCEPT ![c] = Dropping]
      BY <2>3, <3>1, Zenon DEF Write, WriteAs, Dropping
    <3>4. Due(call')
      BY <1>0, <3>2, <3>3, DroppingTyped
    <3>. QED  BY <1>0, <3>4
  <2>4. CASE Apply(c)
    <3>1. CASE call[c].was = call[c].plan
      <4>1. call' = [call EXCEPT ![c] = NoCall] /\ call[c].pc = "apply" /\ UNCHANGED <<entry, raced>>
        BY <2>4, <3>1, Zenon DEF Apply, ApplyThen
      <4>2. row' = row
        BY <2>4, <3>1, PlanRows
      <4>3. Due(call) => Due(call')
        BY <1>0, <4>1
      <4>. QED  BY <1>0, <4>1, <4>2, <4>3
    <3>2. CASE call[c].was # call[c].plan
      <4>1. call' = [call EXCEPT ![c] = Dropping]
        BY <2>4, <3>2, Zenon DEF Apply, ApplyThen, Dropping
      <4>2. Due(call')
        BY <1>0, <4>1, DroppingTyped
      <4>. QED  BY <1>0, <4>2
    <3>. QED  BY <3>1, <3>2
  <2>5. CASE Offboard(c)
    <3>1. Due(call')
      BY <1>0, <2>5 DEF Offboard, Call
    <3>. QED  BY <1>0, <3>1
  <2>6. ASSUME NEW j \in Jobs, Queue(c, j)
        PROVE  StaleIsExplained'
    <3>1. call' = [call EXCEPT ![c] = Dropping]
      BY <2>6 DEF Queue, Dropping
    <3>2. Due(call')
      BY <1>0, <3>1, DroppingTyped
    <3>. QED  BY <1>0, <3>2
  <2>7. ASSUME \/ \E p \in Plugins, on \in BOOLEAN : Toggle(c, p, on)
               \/ \E plan \in Tiers : Confirm(c, plan) \/ ReadTier(c, plan)
        PROVE  StaleIsExplained'
    <3>1. UNCHANGED <<row, entry, raced>> /\ call[c].pc \in {"idle", "confirmed"}
      BY <2>7 DEF Toggle, Begin, Confirm, ConfirmAny, ReadTier
    <3>2. PICK q : call' = [call EXCEPT ![c] = q]
      BY <2>7, Zenon DEF Toggle, Begin, Confirm, ConfirmAny, ReadTier
    <3>3. Due(call) => Due(call')
      BY <1>0, <3>1, <3>2
    <3>. QED  BY <1>0, <3>1, <3>3
  <2>. QED  BY <1>5, <2>1, <2>2, <2>3, <2>4, <2>5, <2>6, <2>7 DEF CallNext
<1>. QED  BY <1>1, <1>2, <1>3, <1>4, <1>5 DEF Next

\* A list of enabled plugins that is not that of the rows is explained: some call
\* has yet to delete it, it was stored late, or its deletion failed.
THEOREM StaleExplained == Spec => []StaleIsExplained
<1>1. Init => StaleIsExplained
  BY DEF Init, StaleIsExplained
<1>. QED  BY <1>1, StaleStep, SwitchTypes, PTL DEF Spec

\* Two running jobs of a plugin know of each other, and so does a job whose
\* plugin was initialised under it.
TogetherKnown ==
    /\ \A j, k \in Jobs : j # k /\ job[j].pc = "running" /\ job[k].pc = "running" /\ job[j].plugin = job[k].plugin
                             => job[j].shared
    /\ \A j \in Jobs : job[j].pc = "running" /\ row[job[j].plugin].initialized => job[j].shared

\* A row's initialized_at is written by the jobs only.
LEMMA InitializedStays ==
    ASSUME TypeOK, [Next]_vars, ~\E j \in Jobs : EndJob(j)
    PROVE  \A p \in Plugins : row[p] # None => row'[p].initialized = row[p].initialized
<1>1. ASSUME NEW c \in Calls, Write(c) \/ Apply(c) \/ Offboard(c)
      PROVE  \A p \in Plugins : row[p] # None => row'[p].initialized = row[p].initialized
  BY <1>1, WriteRows, PlanRows, OffboardRows
<1>. QED  BY <1>1, RowWriters

LEMMA TogetherStep ==
    ASSUME TypeOK, TogetherKnown, [Next]_vars
    PROVE  TogetherKnown'
<1>1. /\ job \in [Jobs -> Job]
      /\ \A j \in Jobs : job[j].pc # "none" => job[j].plugin \in Plugins /\ row[job[j].plugin] # None
  BY DEF TypeOK
<1>2. ASSUME job' = job, ~\E j \in Jobs : EndJob(j)
      PROVE  TogetherKnown'
  BY <1>1, <1>2, InitializedStays DEF TogetherKnown
<1>3. ASSUME NEW c \in Calls, NEW j \in Jobs, Queue(c, j)
      PROVE  TogetherKnown'
  <2>1. PICK n : n = [NoJob EXCEPT !.pc = "waiting", !.plugin = call[c].plugin]
    OBVIOUS
  <2>2. n.pc = "waiting" /\ job' = [job EXCEPT ![j] = n] /\ row' = row
    BY <1>3, <2>1 DEF Queue, NoJob
  <2>. QED  BY <1>1, <2>2 DEF TogetherKnown
<1>4. ASSUME NEW j \in Jobs, StartJob(j)
      PROVE  TogetherKnown'
  <2>1. row' = row
    BY <1>4 DEF StartJob, StartIf
  <2>2. CASE job' = [job EXCEPT ![j] = NoJob]
    BY <1>1, <2>1, <2>2 DEF TogetherKnown, NoJob
  <2>3. CASE job' # [job EXCEPT ![j] = NoJob]
    <3>1. /\ ~row[job[j].plugin].initialized
          /\ \A k \in Jobs : job'[k].plugin = job[k].plugin
          /\ \A k \in Jobs \ {j} : job'[k].pc = job[k].pc /\ (job[k].shared => job'[k].shared)
          /\ \A k \in Others(j) : job'[k].shared /\ job'[j].shared
      BY <1>4, <2>3, Starting
    <3>2. ASSUME NEW k \in Jobs \ {j}, job'[k].pc = "running", job'[k].plugin = job'[j].plugin
          PROVE  job'[k].shared /\ job'[j].shared
      BY <3>1, <3>2 DEF Others
    <3>3. ASSUME NEW k \in Jobs \ {j}, NEW i \in Jobs \ {j}, k # i, job'[k].pc = "running",
                 job'[i].pc = "running", job'[k].plugin = job'[i].plugin
          PROVE  job'[k].shared
      BY <3>1, <3>3 DEF TogetherKnown
    <3>4. ASSUME NEW k \in Jobs, job'[k].pc = "running", row[job'[k].plugin].initialized
          PROVE  job'[k].shared
      BY <3>1, <3>4 DEF TogetherKnown
    <3>. QED  BY <2>1, <3>2, <3>3, <3>4 DEF TogetherKnown
  <2>. QED  BY <2>2, <2>3
<1>5. ASSUME NEW j \in Jobs, EndJob(j)
      PROVE  TogetherKnown'
  <2>1. job' = [job EXCEPT ![j] = NoJob] /\ job[j].pc = "running"
    BY <1>5 DEF EndJob
  <2>2. \A p \in Plugins \ {job[j].plugin} : row'[p] = row[p]
    BY <1>5, EndJobRows
  <2>3. ASSUME NEW k \in Jobs, job'[k].pc = "running"
        PROVE  k # j /\ job'[k] = job[k] /\ job[k].plugin \in Plugins
    BY <1>1, <2>1, <2>3 DEF NoJob
  <2>4. ASSUME NEW k \in Jobs, job'[k].pc = "running", row'[job'[k].plugin].initialized
        PROVE  job'[k].shared
    <3>1. CASE job[k].plugin = job[j].plugin
      BY <2>1, <2>3, <2>4, <3>1 DEF TogetherKnown
    <3>2. CASE job[k].plugin # job[j].plugin
      BY <2>2, <2>3, <2>4, <3>2 DEF TogetherKnown
    <3>. QED  BY <3>1, <3>2
  <2>. QED  BY <2>3, <2>4 DEF TogetherKnown
<1>6. ASSUME ~(\E c \in Calls, j \in Jobs : Queue(c, j)), ~(\E j \in Jobs : StartJob(j) \/ EndJob(j))
      PROVE  job' = job
  BY <1>6 DEF Next, vars, CallNext, Toggle, Begin, Confirm, ConfirmAny, ReadTier, Write, WriteAs, Drop, Fail,
              Apply, ApplyThen, Offboard, RequestNext, Miss, ReadRows, Fill, JobNext, ExpireEntry
<1>. QED  BY <1>2, <1>3, <1>4, <1>5, <1>6

LEMMA TogetherAlways == Spec => []TogetherKnown
<1>1. Init => TogetherKnown
  BY DEF Init, TogetherKnown, NoJob
<1>. QED  BY <1>1, TogetherStep, SwitchTypes, PTL DEF Spec

\* Two jobs initialise a plugin only when they ran at the same time, for any
\* number of jobs, so a job that is tried again does nothing.
THEOREM InitialisedByOne == Spec => InitialisedOnce
<1>1. ASSUME TogetherKnown
      PROVE  [\A j \in Jobs : job[j].pc = "running" /\ job'[j].pc = "none" /\ row[job[j].plugin].initialized
                 => job[j].shared]_vars
  BY <1>1 DEF TogetherKnown
<1>. QED  BY <1>1, TogetherAlways, PTL DEF Spec, InitialisedOnce
=============================================================================
