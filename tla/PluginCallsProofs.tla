-------------------------- MODULE PluginCallsProofs --------------------------
(***************************************************************************)
(* TypeOK, SummaryAdds and CasesStayListed of PluginCalls, and where the   *)
(* event of each customer is, for any number of customers, cases,          *)
(* campaigns, triggers and calls.                                          *)
(***************************************************************************)
EXTENDS PluginCalls, FiniteSetTheorems, TLAPS

-----------------------------------------------------------------------------
(* Types: what TypeOK leaves open is whose row a call is about.            *)

CustomersStay == \A i \in Customers : customer[i] # None => customer'[i] # None

Named(q) ==
    /\ q.pc \in {"run", "insert"} /\ q.op = "createCase" => q.id \in Customers
    /\ q.pc = "run" /\ q.op \in {"updateCustomer", "deleteCustomer"} => q.id \in Customers
    /\ q.pc = "run" /\ q.op \in {"updateCase", "deleteCase"} => q.id \in Cases
    /\ q.pc = "run" /\ q.op \in {"createCampaign", "updateCampaign", "deleteCampaign"} => q.id \in Campaigns
    /\ q.pc = "run" /\ q.op \in {"createTrigger", "updateTrigger", "deleteTrigger"} => q.id \in Triggers
    /\ q.pc = "insert" => q.op = "createCase" /\ customer[q.id] # None
    /\ q.pc \in {"hooks", "emit"} => q.op = "createCustomer" /\ q.id \in Customers /\ customer[q.id] # None
CallOk(q) == q \in Call /\ Named(q)
CallsOk == call \in [Calls -> Call] /\ \A c \in Calls : Named(call[c])
CasesOk == case \in [Cases -> {None} \cup Case] /\ \A k \in Cases : case[k] # None => customer[case[k].of] # None
RowsOk ==
    /\ listed \subseteq Plugins /\ customer \in [Customers -> {None} \cup BOOLEAN]
    /\ campaigns \subseteq Campaigns /\ triggers \subseteq Triggers
EventsOk == events \cup lost \subseteq {i \in Customers : customer[i] # None}
TypeInv == CallsOk /\ CasesOk /\ RowsOk /\ EventsOk

LEMMA TypeInvImplies == TypeInv => TypeOK
  BY DEF TypeInv, CallsOk, CasesOk, RowsOk, EventsOk, TypeOK, Named, At

LEMMA TotalIsNat == Total \in Nat
  BY CallConstants, FS_CardinalityType DEF Total

LEMMA SomeCustomers ==
    ASSUME NEW S \in SUBSET Customers
    PROVE  IsFiniteSet(S) /\ Cardinality(S) \in 0..Total
  BY CallConstants, FS_Subset, FS_CardinalityType, TotalIsNat DEF Total

LEMMA NoCallOk == NoCall \in Call /\ Named(NoCall) /\ NoCall.pc = "idle"
  BY TotalIsNat DEF NoCall, Call, Named

LEMMA NoCallNext == Named(NoCall)'
  BY DEF NoCall, Named

LEMMA SameCases == ASSUME CasesOk, RowsOk, CustomersStay, case' = case PROVE CasesOk'
  BY NoneIsNoRow DEF CasesOk, RowsOk, CustomersStay, Case

LEMMA SameEvents == ASSUME EventsOk, CustomersStay, UNCHANGED <<events, lost>> PROVE EventsOk'
  BY DEF EventsOk, CustomersStay

\* A call stays named while customers stay.
LEMMA NamedStays == ASSUME CustomersStay, NEW q, Named(q) PROVE Named(q)'
  BY DEF Named, CustomersStay

LEMMA OneCall ==
    ASSUME CallsOk, CustomersStay, NEW c \in Calls, NEW q \in Call, Named(q)', call' = [call EXCEPT ![c] = q]
    PROVE  CallsOk'
<1>1. \A d \in Calls : Named(call[d])'
  BY NamedStays DEF CallsOk
<1>. QED  BY <1>1 DEF CallsOk, Named

\* Whatever a method returns, its call has ended or waits to be taken.
LEMMA EndedOk ==
    ASSUME CallsOk, NEW c \in Calls, NEW answer, NEW q, q = Ended(c, answer)
    PROVE  q \in Call /\ q.pc \in {"idle", "answered"} /\ Named(q)'
<1>1. CASE q = NoCall
  BY <1>1, NoCallOk, NoCallNext
<1>2. CASE q # NoCall
  <2>1. call[c] \in Call /\ NoCall \in Call
    BY NoCallOk DEF CallsOk
  <2>2. /\ answer = "ok"
        /\ q = [NoCall EXCEPT !.pc = "answered", !.op = call[c].op, !.id = call[c].id, !.answer = answer,
                              !.total = call[c].total, !.active = call[c].active, !.grown = call[c].grown]
    BY <1>2 DEF Ended
  <2>3. q \in Call /\ q.pc = "answered"
    BY <2>1, <2>2 DEF Call
  <2>. QED  BY <2>3 DEF Named
<1>. QED  BY <1>1, <1>2

LEMMA ReturnOk ==
    ASSUME CallsOk, CustomersStay, NEW c \in Calls, NEW answer, Return(c, answer)
    PROVE  CallsOk'
<1>1. PICK q : q = Ended(c, answer)
  OBVIOUS
<1>. QED  BY <1>1, EndedOk, OneCall DEF Return

LEMMA HandleOk ==
    ASSUME TypeInv, NEW c \in Calls, HandlerNext(c)
    PROVE  TypeInv'
<1>0. UNCHANGED <<listed, customer, case, campaigns, triggers, events, lost>>
  BY DEF HandlerNext, HandleCustomer, HandleCase, HandleCampaign, HandleTrigger, HandleSummary, Handle, tables
<1>1. ASSUME NEW op \in Ops, NEW id \in Ids \cup {None}, NEW plugin, Handle(c, plugin, op, id),
             op = "createCase" => id \in Customers,
             op \in {"updateCustomer", "deleteCustomer"} => id \in Customers,
             op \in {"updateCase", "deleteCase"} => id \in Cases,
             op \in {"createCampaign", "updateCampaign", "deleteCampaign"} => id \in Campaigns,
             op \in {"createTrigger", "updateTrigger", "deleteTrigger"} => id \in Triggers
      PROVE  CallsOk'
  <2>0. PICK q : q = [NoCall EXCEPT !.pc = "run", !.op = op, !.id = id]
    OBVIOUS
  <2>1. q \in Call /\ q.pc = "run" /\ q.op = op /\ q.id = id
    BY <2>0, NoCallOk DEF Call
  <2>2. Named(q)'
    BY <1>1, <2>1 DEF Named
  <2>3. CustomersStay /\ call' = [call EXCEPT ![c] = q]
    BY <1>0, <1>1, <2>0 DEF CustomersStay, Handle
  <2>. QED  BY <2>1, <2>2, <2>3, OneCall DEF TypeInv
<1>2. CallsOk'
  <2>1. CASE HandleCustomer(c)
    BY <1>1, <2>1 DEF HandleCustomer, Ops, Ids
  <2>2. CASE HandleCase(c)
    BY <1>1, <2>2 DEF HandleCase, Ops, Ids
  <2>3. CASE HandleCampaign(c)
    BY <1>1, <2>3 DEF HandleCampaign, Ops, Ids
  <2>4. CASE HandleTrigger(c)
    BY <1>1, <2>4 DEF HandleTrigger, Ops, Ids
  <2>5. CASE HandleSummary(c)
    BY <1>1, <2>5 DEF HandleSummary, Ops, Ids
  <2>. QED  BY <2>1, <2>2, <2>3, <2>4, <2>5 DEF HandlerNext
<1>. QED  BY <1>0, <1>2 DEF TypeInv, CasesOk, RowsOk, EventsOk

LEMMA InsertOk ==
    ASSUME TypeInv, NEW c \in Calls, NEW i \in Customers, InsertCustomer(c, i)
    PROVE  TypeInv'
<1>1. customer' = [customer EXCEPT ![i] = TRUE] /\ UNCHANGED <<listed, case, campaigns, triggers, events, lost>>
      /\ customer \in [Customers -> {None} \cup BOOLEAN]
  BY DEF InsertCustomer, TypeInv, RowsOk
<1>2. CustomersStay /\ customer'[i] # None /\ RowsOk'
  BY <1>1, NoneIsNoRow DEF CustomersStay, TypeInv, RowsOk
<1>3. ASSUME NEW d \in Calls, NEW q, q = call'[d]
      PROVE  q \in Call /\ Named(q)'
  <2>. DEFINE n == [call EXCEPT ![c].pc = "hooks", ![c].id = i]
  <2>1. call \in [Calls -> Call] /\ Named(call[d]) /\ At(c, "run", "createCustomer")
    BY DEF TypeInv, CallsOk, InsertCustomer
  <2>2. n[d] = IF d = c THEN [call[c] EXCEPT !.pc = "hooks", !.id = i] ELSE call[d]
    BY <2>1
  <2>3. PICK p \in Call : p = n[d] /\ Named(p)'
    <3>1. CASE d = c
      <4>1. PICK p : p = [call[c] EXCEPT !.pc = "hooks", !.id = i]
        OBVIOUS
      <4>2. p \in Call /\ p.pc = "hooks" /\ p.id = i /\ p.op = "createCustomer"
        BY <2>1, <4>1 DEF Call, Ids, At
      <4>. QED  BY <1>2, <2>2, <3>1, <4>1, <4>2 DEF Named
    <3>2. CASE d # c
      BY <1>2, <2>1, <2>2, <3>2, NamedStays
    <3>. QED  BY <3>1, <3>2
  <2>4. call'[d] = IF At(d, "run", "summary") THEN [n[d] EXCEPT !.grown = IF n[d].grown < Total THEN n[d].grown + 1 ELSE n[d].grown]
                   ELSE n[d]
    BY DEF InsertCustomer, Grown
  <2>. HIDE DEF n
  <2>5. PICK g : g = IF p.grown < Total THEN p.grown + 1 ELSE p.grown
    OBVIOUS
  <2>6. g \in 0..Total
    BY <2>5, TotalIsNat DEF Call
  <2>7. call'[d] = p \/ call'[d] = [p EXCEPT !.grown = g]
    BY <2>3, <2>4, <2>5
  <2>8. q \in Call /\ q.pc = p.pc /\ q.op = p.op /\ q.id = p.id
    BY <1>3, <2>6, <2>7 DEF Call
  <2>. QED  BY <2>3, <2>8 DEF Named
<1>4. CallsOk'
  <2>1. call' = [d \in Calls |-> call'[d]]
    BY DEF InsertCustomer, Grown
  <2>2. \A d \in Calls : call'[d] \in Call /\ Named(call[d])'
    BY <1>3 DEF Named
  <2>. QED  BY <2>1, <2>2 DEF CallsOk
<1>. QED  BY <1>1, <1>2, <1>4, SameCases, SameEvents DEF TypeInv

LEMMA CustomerOk ==
    ASSUME TypeInv, NEW c \in Calls, UpdateCustomer(c) \/ DeleteCustomer(c)
    PROVE  TypeInv' /\ CustomersStay
<1>0. customer \in [Customers -> {None} \cup BOOLEAN] /\ call[c].id \in Customers
  BY DEF TypeInv, RowsOk, CallsOk, Named, UpdateCustomer, DeleteCustomer, WriteCustomer, At
<1>1. PICK active \in BOOLEAN \cup {customer[call[c].id]}, op \in Ops : WriteCustomer(c, op, active)
  BY DEF UpdateCustomer, DeleteCustomer, Ops
<1>2. customer' \in [Customers -> {None} \cup BOOLEAN] /\ CustomersStay
  BY <1>0, <1>1, NoneIsNoRow DEF WriteCustomer, CustomersStay
<1>3. CallsOk'
  BY <1>1, <1>2, ReturnOk DEF WriteCustomer, TypeInv
<1>. QED  BY <1>1, <1>2, <1>3, SameCases, SameEvents DEF WriteCustomer, TypeInv, RowsOk

LEMMA StepOk ==
    ASSUME TypeInv, customer' = customer, NEW c \in Calls, NEW pc \in {"insert", "hooks", "emit"}, Step(c, pc),
           pc = "insert" => call[c].op = "createCase" /\ call[c].pc = "run" /\ customer[call[c].id] # None,
           pc # "insert" => call[c].pc \in {"hooks", "emit"}
    PROVE  CallsOk'
<1>1. call[c] \in Call /\ Named(call[c]) /\ CustomersStay
  BY DEF TypeInv, CallsOk, CustomersStay
<1>2. PICK q : q = [call[c] EXCEPT !.pc = pc]
  OBVIOUS
<1>3. q \in Call /\ q.pc = pc /\ q.op = call[c].op /\ q.id = call[c].id
  BY <1>1, <1>2 DEF Call
<1>4. Named(q)'
  BY <1>1, <1>3 DEF Named
<1>. QED  BY <1>1, <1>2, <1>3, <1>4, OneCall DEF Step, TypeInv

LEMMA CaseOk ==
    ASSUME TypeInv, NEW c \in Calls, FindCustomer(c) \/ (\E k \in Cases : InsertCase(c, k)) \/ UpdateCase(c) \/ DeleteCase(c)
    PROVE  TypeInv'
<1>0. UNCHANGED <<listed, customer, campaigns, triggers, events, lost>> /\ CustomersStay
  BY DEF FindCustomer, InsertCase, UpdateCase, DeleteCase, tables, CustomersStay
<1>1. CASE FindCustomer(c)
  <2>1. CallsOk'
    BY <1>0, <1>1, ReturnOk, StepOk DEF FindCustomer, At, TypeInv
  <2>. QED  BY <1>0, <1>1, <2>1, SameCases, SameEvents DEF FindCustomer, tables, TypeInv, RowsOk
<1>2. ASSUME NEW k \in Cases, InsertCase(c, k)
      PROVE  TypeInv'
  <2>. DEFINE n == [of |-> call[c].id, status |-> "open", resolvedAt |-> FALSE]
  <2>1. n \in Case /\ customer[n.of] # None
    BY <1>2, CallConstants DEF InsertCase, At, TypeInv, CallsOk, Named, Case
  <2>2. CasesOk'
    BY <1>0, <1>2, <2>1 DEF InsertCase, TypeInv, CasesOk
  <2>3. CallsOk'
    BY <1>0, <1>2, ReturnOk DEF InsertCase, TypeInv
  <2>. QED  BY <1>0, <2>2, <2>3, SameEvents DEF TypeInv, RowsOk
<1>3. CASE UpdateCase(c)
  <2>1. call[c].id \in Cases /\ CallsOk'
    BY <1>0, <1>3, ReturnOk DEF UpdateCase, At, TypeInv, CallsOk, Named
  <2>2. CasesOk'
    <3>1. CASE case' = case
      BY <1>0, <3>1, SameCases DEF TypeInv
    <3>2. ASSUME NEW status \in Statuses, case[call[c].id] # None,
                 case' = [case EXCEPT ![call[c].id] = Patched(case[call[c].id], status)]
          PROVE  CasesOk'
      <4>1. PICK o \in Case : o = case[call[c].id] /\ customer[o.of] # None
        BY <2>1, <3>2 DEF TypeInv, CasesOk
      <4>2. PICK r \in BOOLEAN : r = (o.resolvedAt \/ status = "resolved")
        BY DEF Case
      <4>3. PICK n : n = [o EXCEPT !.status = status, !.resolvedAt = r]
        OBVIOUS
      <4>4. n \in Case /\ n.of = o.of
        BY <4>3 DEF Case
      <4>5. Patched(o, status) = n
        BY <4>2, <4>3, Zenon DEF Patched
      <4>. QED  BY <1>0, <2>1, <3>2, <4>1, <4>4, <4>5 DEF TypeInv, CasesOk
    <3>. QED  BY <1>3, <3>1, <3>2 DEF UpdateCase
  <2>. QED  BY <1>0, <2>1, <2>2, SameEvents DEF TypeInv, RowsOk
<1>4. CASE DeleteCase(c)
  <2>1. CallsOk'
    BY <1>0, <1>4, ReturnOk DEF DeleteCase, TypeInv
  <2>2. CasesOk'
    BY <1>0, <1>4 DEF DeleteCase, TypeInv, CasesOk
  <2>. QED  BY <1>0, <2>1, <2>2, SameEvents DEF TypeInv, RowsOk
<1>. QED  BY <1>1, <1>2, <1>3, <1>4

LEMMA RowOk ==
    ASSUME TypeInv, NEW c \in Calls, WriteCampaign(c) \/ WriteTrigger(c)
    PROVE  TypeInv'
<1>0. UNCHANGED <<listed, customer, case, events, lost>> /\ CustomersStay
  BY DEF WriteCampaign, WriteTrigger, CustomersStay
<1>1. \E answer : Return(c, answer)
  BY DEF WriteCampaign, WriteTrigger, WriteRow
<1>2. CallsOk'
  BY <1>0, <1>1, ReturnOk DEF TypeInv
<1>3. campaigns' \subseteq Campaigns /\ triggers' \subseteq Triggers
  BY DEF WriteCampaign, WriteTrigger, WriteRow, At, TypeInv, CallsOk, Named, RowsOk
<1>. QED  BY <1>0, <1>2, <1>3, SameCases, SameEvents DEF TypeInv, RowsOk

\* The steps that leave every table alone.
LEMMA QuietOk ==
    ASSUME TypeInv, NEW c \in Calls,
           RunHooks(c) \/ Emit(c) \/ CountTotal(c) \/ CountActive(c) \/ Summarise(c) \/ TimeOut(c) \/ Fail(c) \/ Take(c)
    PROVE  TypeInv'
<1>0. UNCHANGED <<listed, customer, case, campaigns, triggers>> /\ CustomersStay
  BY DEF RunHooks, Emit, CountTotal, CountActive, Summarise, TimeOut, Fail, Take, tables, CustomersStay
<1>1. call[c] \in Call /\ Named(call[c]) /\ CallsOk
  BY DEF TypeInv, CallsOk
<1>2. CASE RunHooks(c)
  BY <1>0, <1>2, StepOk, SameCases, SameEvents DEF RunHooks, At, TypeInv, RowsOk
<1>3. CASE Emit(c)
  <2>1. CallsOk'
    BY <1>0, <1>1, <1>3, ReturnOk DEF Emit
  <2>2. EventsOk'
    BY <1>0, <1>1, <1>3 DEF Emit, At, Named, TypeInv, EventsOk
  <2>. QED  BY <1>0, <2>1, <2>2, SameCases DEF TypeInv, RowsOk
<1>4. CASE Fail(c)
  <2>1. CallsOk'
    BY <1>0, <1>1, <1>4, ReturnOk DEF Fail
  <2>2. EventsOk'
    BY <1>0, <1>1, <1>4 DEF Fail, Named, TypeInv, EventsOk
  <2>. QED  BY <1>0, <2>1, <2>2, SameCases DEF TypeInv, RowsOk
<1>5. CASE Summarise(c)
  BY <1>0, <1>1, <1>5, ReturnOk, SameCases, SameEvents DEF Summarise, TypeInv, RowsOk
<1>6. CASE Take(c)
  BY <1>0, <1>1, <1>6, NoCallOk, NoCallNext, OneCall, SameCases, SameEvents DEF Take, TypeInv, RowsOk
<1>7. ASSUME NEW q \in Call, q.pc = call[c].pc, q.op = call[c].op, q.id = call[c].id, call' = [call EXCEPT ![c] = q],
             UNCHANGED <<events, lost>>
      PROVE  TypeInv'
  <2>1. Named(q)'
    BY <1>0, <1>1, <1>7 DEF Named
  <2>. QED  BY <1>0, <1>1, <1>7, <2>1, OneCall, SameCases, SameEvents DEF TypeInv, RowsOk
<1>8. CASE CountTotal(c)
  <2>1. PICK n \in 0..Total : n = Cardinality({i \in Customers : customer[i] # None})
    BY SomeCustomers
  <2>2. PICK q : q = [call[c] EXCEPT !.total = n]
    OBVIOUS
  <2>3. q \in Call /\ q.pc = call[c].pc /\ q.op = call[c].op /\ q.id = call[c].id
    BY <1>1, <2>2 DEF Call
  <2>. QED  BY <1>7, <1>8, <2>1, <2>2, <2>3 DEF CountTotal
<1>9. CASE CountActive(c)
  <2>1. PICK n \in 0..Total : n = Cardinality({i \in Customers : customer[i] = TRUE})
    BY SomeCustomers
  <2>2. PICK q : q = [call[c] EXCEPT !.active = n]
    OBVIOUS
  <2>3. q \in Call /\ q.pc = call[c].pc /\ q.op = call[c].op /\ q.id = call[c].id
    BY <1>1, <2>2 DEF Call
  <2>. QED  BY <1>7, <1>9, <2>1, <2>2, <2>3 DEF CountActive
<1>10. CASE TimeOut(c)
  <2>1. PICK q : q = [call[c] EXCEPT !.answer = "timeout"]
    OBVIOUS
  <2>2. q \in Call /\ q.pc = call[c].pc /\ q.op = call[c].op /\ q.id = call[c].id
    BY <1>1, <2>1 DEF Call
  <2>. QED  BY <1>7, <1>10, <2>1, <2>2 DEF TimeOut
<1>. QED  BY <1>2, <1>3, <1>4, <1>5, <1>6, <1>8, <1>9, <1>10

LEMMA TypeStep ==
    ASSUME TypeInv, [Next]_vars
    PROVE  TypeInv'
<1>1. CASE Switch
  <2>1. UNCHANGED <<customer, case, campaigns, triggers, events, call, lost>> /\ listed' \subseteq Plugins
    BY <1>1 DEF Switch, tables, Plugins
  <2>. QED  BY <2>1 DEF TypeInv, CallsOk, Named, CasesOk, RowsOk, EventsOk
<1>2. CASE UNCHANGED vars
  BY <1>2 DEF vars, TypeInv, CallsOk, Named, CasesOk, RowsOk, EventsOk
<1>. QED  BY <1>1, <1>2, HandleOk, InsertOk, CustomerOk, CaseOk, RowOk, QuietOk DEF Next, CoreNext

LEMMA TypeInit == Init => TypeInv
  BY NoCallOk DEF Init, TypeInv, CallsOk, CasesOk, RowsOk, EventsOk, Plugins

LEMMA TypeInvAlways == Spec => []TypeInv
  BY TypeInit, TypeStep, PTL DEF Spec

\* Rows, calls and events have their types, and a case its customer.
THEOREM CallTypes == Spec => []TypeOK
  BY TypeInvAlways, TypeInvImplies, PTL
-----------------------------------------------------------------------------
(* CasesStayListed: customers that exist stay, and only deleteCase removes *)
(* a case.                                                                 *)

\* What each step that changes a customer or a case does to them.
LEMMA RowsChange ==
    ASSUME TypeInv, [Next]_vars
    PROVE  /\ CustomersStay
           /\ \A k \in Cases : case[k] # None /\ case'[k] = None
                 => \E c \in Calls : At(c, "run", "deleteCase") /\ call[c].id = k
<1>0. case \in [Cases -> {None} \cup Case]
  BY DEF TypeInv, CasesOk
<1>1. ASSUME UNCHANGED <<customer, case>>
      PROVE  CustomersStay /\ \A k \in Cases : case'[k] = case[k]
  BY <1>1 DEF CustomersStay
<1>2. ASSUME NEW c \in Calls,
             \/ HandlerNext(c) \/ RunHooks(c) \/ Emit(c) \/ FindCustomer(c) \/ WriteCampaign(c) \/ WriteTrigger(c)
             \/ CountTotal(c) \/ CountActive(c) \/ Summarise(c) \/ TimeOut(c) \/ Fail(c) \/ Take(c)
      PROVE  UNCHANGED <<customer, case>>
  BY <1>2 DEF HandlerNext, HandleCustomer, HandleCase, HandleCampaign, HandleTrigger, HandleSummary, Handle, RunHooks, Emit,
              FindCustomer, WriteCampaign, WriteTrigger, CountTotal, CountActive, Summarise, TimeOut, Fail, Take, tables
<1>3. ASSUME NEW c \in Calls, NEW i \in Customers, InsertCustomer(c, i)
      PROVE  CustomersStay /\ case' = case
  BY <1>3, NoneIsNoRow DEF InsertCustomer, CustomersStay, TypeInv, RowsOk
<1>4. ASSUME NEW c \in Calls, UpdateCustomer(c) \/ DeleteCustomer(c)
      PROVE  CustomersStay /\ case' = case
  BY <1>4, CustomerOk DEF UpdateCustomer, DeleteCustomer, WriteCustomer
<1>5. ASSUME NEW c \in Calls, NEW k \in Cases, InsertCase(c, k)
      PROVE  CustomersStay /\ \A j \in Cases : case[j] # None => case'[j] = case[j]
  BY <1>0, <1>5 DEF InsertCase, CustomersStay
<1>6. ASSUME NEW c \in Calls, UpdateCase(c)
      PROVE  CustomersStay /\ \A j \in Cases : case[j] # None => case'[j] # None
  <2>1. CustomersStay /\ CasesOk'
    BY <1>6, CaseOk DEF UpdateCase, CustomersStay, TypeInv
  <2>2. CASE case' = case
    BY <2>1, <2>2
  <2>3. ASSUME NEW status \in Statuses, case[call[c].id] # None,
               case' = [case EXCEPT ![call[c].id] = Patched(case[call[c].id], status)]
        PROVE  \A j \in Cases : case[j] # None => case'[j] # None
    <3>1. call[c].id \in Cases /\ case[call[c].id] \in Case
      BY <1>0, <1>6, <2>3 DEF UpdateCase, At, TypeInv, CallsOk, Named
    <3>2. PICK o \in Case : o = case[call[c].id]
      BY <3>1
    <3>3. PICK r \in BOOLEAN : r = (o.resolvedAt \/ status = "resolved")
      BY DEF Case
    <3>4. PICK n \in Case : n = [o EXCEPT !.status = status, !.resolvedAt = r]
      BY DEF Case
    <3>5. Patched(o, status) = n
      BY <3>3, <3>4, Zenon DEF Patched
    <3>. QED  BY <1>0, <2>3, <3>1, <3>2, <3>5, NoneIsNoRow
  <2>. QED  BY <1>6, <2>1, <2>2, <2>3 DEF UpdateCase
<1>7. ASSUME NEW c \in Calls, DeleteCase(c)
      PROVE  /\ CustomersStay /\ At(c, "run", "deleteCase")
             /\ \A j \in Cases : case'[j] = case[j] \/ j = call[c].id
  BY <1>0, <1>7 DEF DeleteCase, CustomersStay
<1>8. CASE Switch \/ UNCHANGED vars
  BY <1>8, <1>1 DEF Switch, tables, vars
<1>. QED  BY <1>1, <1>2, <1>3, <1>4, <1>5, <1>6, <1>7, <1>8 DEF Next, CoreNext

\* A case leaves the list, which joins the customers, only by deleteCase, for
\* any number of calls that overlap (CustomerCareCore.listCases, deleteCustomer).
THEOREM CasesAreKept == Spec => CasesStayListed
<1>1. ASSUME TypeInv, [Next]_vars, NEW k \in Cases, case[k] # None, case'[k] = None \/ customer'[case[k].of] = None
      PROVE  \E c \in Calls : At(c, "run", "deleteCase") /\ call[c].id = k
  <2>1. case[k].of \in Customers /\ customer[case[k].of] # None
    BY <1>1 DEF TypeInv, CasesOk, Case
  <2>. QED  BY <1>1, <2>1, RowsChange DEF CustomersStay
<1>2. TypeInv /\ [Next]_vars
        => [\A k \in Cases : case[k] # None /\ (case'[k] = None \/ customer'[case[k].of] = None)
               => \E c \in Calls : At(c, "run", "deleteCase") /\ call[c].id = k]_<<case, customer>>
  BY <1>1
<1>. QED  BY <1>2, TypeInvAlways, PTL DEF Spec, CasesStayListed

-----------------------------------------------------------------------------
(* SummaryAdds: between its two counts a summary sees as many more         *)
(* customers as were inserted, and never fewer.                            *)

Existing == Cardinality({i \in Customers : customer[i] # None})

SummaryOk(q, n) ==
    q.op = "summary" =>
        /\ q.pc = "run" /\ q.total # None => n <= q.total + q.grown
        /\ q.pc = "run" /\ q.active # None /\ q.total = None => q.active <= n
        /\ q.pc \in {"run", "answered"} /\ q.total # None /\ q.active # None => q.active <= q.total + q.grown
        /\ q.pc = "answered" => q.total # None /\ q.active # None
SummariesOk == \A c \in Calls : SummaryOk(call[c], Existing)

LEMMA Counts ==
    ASSUME NEW q \in Call
    PROVE  /\ q.grown \in 0..Total /\ Total \in Nat
           /\ q.total # None => q.total \in 0..Total
           /\ q.active # None => q.active \in 0..Total
  BY TotalIsNat DEF Call

LEMMA ExistingType == Existing \in 0..Total
  BY SomeCustomers DEF Existing

LEMMA NoSummary == \A n \in Nat : SummaryOk(NoCall, n)
  BY DEF SummaryOk, NoCall

LEMMA OneSummary ==
    ASSUME TypeInv, SummariesOk, \A i \in Customers : customer'[i] = None <=> customer[i] = None,
           NEW c \in Calls, NEW q \in Call, SummaryOk(q, Existing), call' = [call EXCEPT ![c] = q]
    PROVE  SummariesOk'
<1>1. Existing' = Existing
  BY DEF Existing
<1>2. \A d \in Calls : SummaryOk(call'[d], Existing)
  BY DEF SummariesOk, TypeInv, CallsOk
<1>. QED  BY <1>1, <1>2 DEF SummariesOk, SummaryOk

LEMMA ReturnAdds ==
    ASSUME TypeInv, SummariesOk, \A i \in Customers : customer'[i] = None <=> customer[i] = None,
           NEW c \in Calls, NEW answer, Return(c, answer), call[c].pc # "answered",
           answer = "ok" /\ call[c].op = "summary" => call[c].pc = "run" /\ call[c].total # None /\ call[c].active # None
    PROVE  SummariesOk'
<1>1. PICK q : q = Ended(c, answer)
  OBVIOUS
<1>2. q \in Call
  BY <1>1, EndedOk DEF TypeInv
<1>3. SummaryOk(q, Existing)
  <2>1. CASE q = NoCall
    BY <2>1, NoSummary, ExistingType
  <2>2. CASE q # NoCall
    <3>1. /\ answer = "ok"
          /\ q = [NoCall EXCEPT !.pc = "answered", !.op = call[c].op, !.id = call[c].id, !.answer = answer,
                                !.total = call[c].total, !.active = call[c].active, !.grown = call[c].grown]
      BY <1>1, <2>2 DEF Ended
    <3>2. q.pc = "answered" /\ q.op = call[c].op /\ q.total = call[c].total /\ q.active = call[c].active
          /\ q.grown = call[c].grown
      BY <3>1, NoCallOk DEF Call
    <3>3. SummaryOk(call[c], Existing)
      BY DEF SummariesOk
    <3>. QED  BY <3>1, <3>2, <3>3 DEF SummaryOk
  <2>. QED  BY <2>1, <2>2
<1>. QED  BY <1>1, <1>2, <1>3, OneSummary DEF Return

LEMMA SummaryStep ==
    ASSUME TypeInv, SummariesOk, [Next]_vars
    PROVE  SummariesOk'
<1>0. call \in [Calls -> Call] /\ customer \in [Customers -> {None} \cup BOOLEAN] /\ Existing \in 0..Total /\ Total \in Nat
  BY ExistingType, TotalIsNat DEF TypeInv, CallsOk, RowsOk
<1>1. ASSUME NEW c \in Calls, HandlerNext(c)
      PROVE  SummariesOk'
  <2>1. customer' = customer /\ \E op \in Ops, id \in Ids \cup {None} : call' = [call EXCEPT ![c] = [NoCall EXCEPT !.pc = "run", !.op = op, !.id = id]]
    BY <1>1 DEF HandlerNext, HandleCustomer, HandleCase, HandleCampaign, HandleTrigger, HandleSummary, Handle, tables, Ops, Ids
  <2>2. PICK op \in Ops, id \in Ids \cup {None} : call' = [call EXCEPT ![c] = [NoCall EXCEPT !.pc = "run", !.op = op, !.id = id]]
    BY <2>1
  <2>3. PICK q : q = [NoCall EXCEPT !.pc = "run", !.op = op, !.id = id]
    OBVIOUS
  <2>4. q \in Call /\ q.pc = "run" /\ q.total = None /\ q.active = None
    BY <2>3, NoCallOk DEF Call, NoCall
  <2>. QED  BY <2>1, <2>2, <2>3, <2>4, OneSummary DEF SummaryOk
<1>2. ASSUME NEW c \in Calls, NEW i \in Customers, InsertCustomer(c, i)
      PROVE  SummariesOk'
  <2>1. Existing' = Existing + 1
    <3>. DEFINE S == {x \in Customers : customer[x] # None}
    <3>1. {x \in Customers : customer'[x] # None} = S \cup {i} /\ i \notin S
      BY <1>0, <1>2, NoneIsNoRow DEF InsertCustomer
    <3>2. IsFiniteSet(S)
      BY SomeCustomers
    <3>. QED  BY <3>1, <3>2, FS_AddElement DEF Existing
  <2>2. Existing' \in 0..Total
    BY SomeCustomers DEF Existing
  <2>3. ASSUME NEW d \in Calls
        PROVE  SummaryOk(call'[d], Existing')
    <3>1. PICK p \in Call : p = call[d] /\ SummaryOk(p, Existing)
      BY <1>0 DEF SummariesOk
    <3>2. CASE At(d, "run", "summary")
      <4>1. d # c
        BY <1>2, <3>2 DEF InsertCustomer, At
      <4>2. PICK g : g = IF p.grown < Total THEN p.grown + 1 ELSE p.grown
        OBVIOUS
      <4>3. call'[d] = [p EXCEPT !.grown = g]
        BY <1>0, <1>2, <3>1, <3>2, <4>1, <4>2 DEF InsertCustomer, Grown
      <4>4. PICK q : q = [p EXCEPT !.grown = g]
        OBVIOUS
      <4>5. q.pc = p.pc /\ q.op = p.op /\ q.total = p.total /\ q.active = p.active /\ q.grown = g
        BY <4>4 DEF Call
      <4>6. /\ g \in Nat /\ p.grown \in Nat
            /\ g = p.grown + 1 \/ (g = p.grown /\ g = Total)
        <5>1. p.grown \in 0..Total /\ Total \in Nat
          BY Counts
        <5>. QED  BY <4>2, <5>1
      <4>7. SummaryOk(q, Existing + 1)
        <5>1. p.total # None => p.total \in Nat
          BY Counts
        <5>2. p.active # None => p.active \in Nat
          BY Counts
        <5>3. Existing + 1 <= Total
          BY <1>0, <2>1, <2>2
        <5>. QED  BY <1>0, <3>1, <4>5, <4>6, <5>1, <5>2, <5>3 DEF SummaryOk
      <4>. QED  BY <2>1, <4>3, <4>4, <4>7
    <3>3. CASE ~At(d, "run", "summary") /\ d # c
      <4>1. call'[d] = p
        BY <1>0, <1>2, <3>1, <3>3 DEF InsertCustomer, Grown
      <4>. QED  BY <3>1, <3>3, <4>1 DEF SummaryOk, At
    <3>4. CASE d = c
      <4>1. PICK n : n = [call[c] EXCEPT !.pc = "hooks", !.id = i]
        OBVIOUS
      <4>2. n.op = "createCustomer"
        BY <1>0, <1>2, <4>1 DEF InsertCustomer, At, Call
      <4>3. ~At(c, "run", "summary")
        BY <1>2 DEF InsertCustomer, At
      <4>4. call'[c] = n
        BY <1>0, <1>2, <4>1, <4>3 DEF InsertCustomer, Grown
      <4>. QED  BY <3>4, <4>2, <4>4 DEF SummaryOk
    <3>. QED  BY <3>2, <3>3, <3>4
  <2>. QED  BY <2>3 DEF SummariesOk, SummaryOk
<1>3. ASSUME NEW c \in Calls, UpdateCustomer(c) \/ DeleteCustomer(c)
      PROVE  SummariesOk'
  <2>1. PICK active \in BOOLEAN \cup {customer[call[c].id]}, op \in {"updateCustomer", "deleteCustomer"} : WriteCustomer(c, op, active)
    BY <1>3 DEF UpdateCustomer, DeleteCustomer
  <2>2. \A i \in Customers : customer'[i] = None <=> customer[i] = None
    BY <1>0, <2>1, NoneIsNoRow DEF WriteCustomer
  <2>. QED  BY <2>1, <2>2, ReturnAdds DEF WriteCustomer, At
<1>4. ASSUME NEW c \in Calls, NEW pc \in {"insert", "hooks", "emit"}, Step(c, pc), customer' = customer
      PROVE  SummariesOk'
  <2>1. PICK q : q = [call[c] EXCEPT !.pc = pc]
    OBVIOUS
  <2>2. q \in Call /\ q.pc = pc
    BY <1>0, <2>1 DEF Call
  <2>. QED  BY <1>4, <2>1, <2>2, OneSummary DEF Step, SummaryOk
<1>5. ASSUME NEW c \in Calls, FindCustomer(c) \/ RunHooks(c) \/ Emit(c) \/ (\E k \in Cases : InsertCase(c, k)) \/ UpdateCase(c)
                              \/ DeleteCase(c) \/ WriteCampaign(c) \/ WriteTrigger(c) \/ Fail(c) \/ Summarise(c)
      PROVE  SummariesOk'
  <2>1. customer' = customer
    BY <1>5 DEF FindCustomer, RunHooks, Emit, InsertCase, UpdateCase, DeleteCase, WriteCampaign, WriteTrigger, Fail, Summarise, tables
  <2>2. CASE \E pc \in {"insert", "hooks", "emit"} : Step(c, pc)
    BY <1>4, <2>1, <2>2
  <2>3. CASE \E answer : Return(c, answer) /\ call[c].pc # "answered" /\ (answer = "ok" => call[c].op # "summary")
    BY <2>1, <2>3, ReturnAdds
  <2>4. CASE Summarise(c)
    BY <2>1, <2>4, ReturnAdds DEF Summarise, At
  <2>5. CASE Fail(c)
    BY <2>3, <2>5 DEF Fail, Running
  <2>6. CASE FindCustomer(c) \/ RunHooks(c)
    BY <2>2, <2>3, <2>6 DEF FindCustomer, RunHooks, At
  <2>7. CASE Emit(c) \/ (\E k \in Cases : InsertCase(c, k)) \/ UpdateCase(c) \/ DeleteCase(c)
    BY <2>3, <2>7 DEF Emit, InsertCase, UpdateCase, DeleteCase, At
  <2>8. CASE WriteCampaign(c) \/ WriteTrigger(c)
    BY <2>3, <2>8 DEF WriteCampaign, WriteTrigger, WriteRow, At
  <2>. QED  BY <1>5, <2>4, <2>5, <2>6, <2>7, <2>8
<1>6. ASSUME NEW c \in Calls, CountTotal(c)
      PROVE  SummariesOk'
  <2>1. PICK n \in 0..Total : n = Existing
    BY <1>0
  <2>2. PICK p \in Call : p = call[c] /\ SummaryOk(p, Existing) /\ p.pc = "run" /\ p.total = None
    BY <1>0, <1>6 DEF SummariesOk, CountTotal, At
  <2>3. PICK q : q = [p EXCEPT !.total = n]
    OBVIOUS
  <2>4. q \in Call /\ q.pc = "run" /\ q.op = p.op /\ q.total = n /\ q.active = p.active /\ q.grown = p.grown
    BY <2>2, <2>3 DEF Call
  <2>5. p.grown \in Nat /\ (p.active # None => p.active \in Nat) /\ n \in Nat
    BY <1>0, <2>1, Counts
  <2>6. SummaryOk(q, Existing)
    BY <2>1, <2>2, <2>4, <2>5 DEF SummaryOk
  <2>7. call' = [call EXCEPT ![c] = q] /\ customer' = customer
    BY <1>6, <2>1, <2>2, <2>3 DEF CountTotal, Existing, tables
  <2>. QED  BY <2>4, <2>6, <2>7, OneSummary
<1>7. ASSUME NEW c \in Calls, CountActive(c)
      PROVE  SummariesOk'
  <2>. DEFINE A == {i \in Customers : customer[i] = TRUE}
              S == {i \in Customers : customer[i] # None}
  <2>1. PICK n \in 0..Total : n = Cardinality(A)
    BY SomeCustomers
  <2>2. A \subseteq S /\ IsFiniteSet(S)
    BY SomeCustomers, NoneIsNoRow
  <2>3. n <= Existing
    BY <2>1, <2>2, FS_Subset DEF Existing
  <2>4. PICK p \in Call : p = call[c] /\ SummaryOk(p, Existing) /\ p.pc = "run" /\ p.active = None
    BY <1>0, <1>7 DEF SummariesOk, CountActive, At
  <2>5. PICK q : q = [p EXCEPT !.active = n]
    OBVIOUS
  <2>6. q \in Call /\ q.pc = "run" /\ q.op = p.op /\ q.active = n /\ q.total = p.total /\ q.grown = p.grown
    BY <2>4, <2>5 DEF Call
  <2>7. p.grown \in Nat /\ (p.total # None => p.total \in Nat) /\ n \in Nat
    BY <1>0, <2>1, Counts
  <2>8. SummaryOk(q, Existing)
    BY <1>0, <2>3, <2>4, <2>6, <2>7 DEF SummaryOk
  <2>9. call' = [call EXCEPT ![c] = q] /\ customer' = customer
    BY <1>7, <2>1, <2>4, <2>5 DEF CountActive, tables
  <2>. QED  BY <2>6, <2>8, <2>9, OneSummary
<1>8. ASSUME NEW c \in Calls, TimeOut(c)
      PROVE  SummariesOk'
  <2>1. PICK q : q = [call[c] EXCEPT !.answer = "timeout"]
    OBVIOUS
  <2>2. q \in Call /\ q.pc = call[c].pc /\ q.op = call[c].op /\ q.total = call[c].total /\ q.active = call[c].active
        /\ q.grown = call[c].grown
    BY <1>0, <2>1 DEF Call
  <2>3. SummaryOk(q, Existing)
    BY <2>2 DEF SummariesOk, SummaryOk
  <2>. QED  BY <1>8, <2>1, <2>2, <2>3, OneSummary DEF TimeOut, tables
<1>9. ASSUME NEW c \in Calls, Take(c)
      PROVE  SummariesOk'
  <2>1. customer' = customer /\ call' = [call EXCEPT ![c] = NoCall]
    BY <1>9 DEF Take, tables
  <2>2. NoCall \in Call /\ SummaryOk(NoCall, Existing)
    BY <1>0, NoCallOk, NoSummary
  <2>. QED  BY <2>1, <2>2, OneSummary
<1>10. CASE Switch \/ UNCHANGED vars
  <2>1. UNCHANGED <<customer, call>>
    BY <1>10 DEF Switch, tables, vars
  <2>2. Existing' = Existing
    BY <2>1 DEF Existing
  <2>. QED  BY <2>1, <2>2 DEF SummariesOk, SummaryOk
<1>. QED  BY <1>1, <1>2, <1>3, <1>5, <1>6, <1>7, <1>8, <1>9, <1>10 DEF Next, CoreNext

\* A summary shows more active customers than customers only by those inserted
\* since it began, for any number of customers and calls (AnalyticsCore.summary).
THEOREM SummariesAdd == Spec => []SummaryAdds
<1>1. Init => SummariesOk
  <2>1. Init => Existing \in Nat
    BY ExistingType, TotalIsNat
  <2>. QED  BY <2>1, NoSummary DEF Init, SummariesOk
<1>2. SummariesOk => SummaryAdds
  BY DEF SummariesOk, SummaryOk, SummaryAdds, At
<1>. QED  BY <1>1, <1>2, SummaryStep, TypeInvAlways, PTL DEF Spec

-----------------------------------------------------------------------------
(* The safety half of CustomersAreAnnounced: where a customer's event is.  *)

\* A call between the INSERT of its customer and the event.
Carries(c, i) == call[c].pc \in {"hooks", "emit"} /\ call[c].id = i

\* A customer is announced, lost or with one call: one of the three.
EventsAccounted ==
    \A i \in Customers :
       /\ customer[i] # None => i \in events \cup lost \/ \E c \in Calls : Carries(c, i)
       /\ i \in events \cup lost => \A c \in Calls : ~Carries(c, i)
       /\ \A c, d \in Calls : Carries(c, i) /\ Carries(d, i) => c = d
       /\ i \notin events \cap lost

SameCarriers == \A c \in Calls, i \in Customers : Carries(c, i)' <=> Carries(c, i)

\* The steps that have nothing to do with the event.
LEMMA SameAccount ==
    ASSUME EventsAccounted, SameCarriers, UNCHANGED <<events, lost>>,
           \A i \in Customers : customer'[i] # None <=> customer[i] # None
    PROVE  EventsAccounted'
<1>1. \A c \in Calls, i \in Customers : Carries(c, i)' <=> Carries(c, i)
  BY DEF SameCarriers
<1>. SUFFICES ASSUME NEW i \in Customers
              PROVE  /\ customer'[i] # None => i \in events' \cup lost' \/ \E c \in Calls : Carries(c, i)'
                     /\ i \in events' \cup lost' => \A c \in Calls : ~Carries(c, i)'
                     /\ \A c, d \in Calls : Carries(c, i)' /\ Carries(d, i)' => c = d
                     /\ i \notin events' \cap lost'
  BY DEF EventsAccounted
<1>. QED  BY <1>1 DEF EventsAccounted

\* A call that carries nothing before and after.
LEMMA NoCarrier ==
    ASSUME call \in [Calls -> Call], NEW c \in Calls, NEW q, call' = [call EXCEPT ![c] = q],
           call[c].pc \notin {"hooks", "emit"}, q.pc \notin {"hooks", "emit"}
    PROVE  SameCarriers
  BY DEF SameCarriers, Carries

\* A call that goes on with its customer.
LEMMA SameCarrier ==
    ASSUME call \in [Calls -> Call], NEW c \in Calls, NEW q, call' = [call EXCEPT ![c] = q],
           q.id = call[c].id, q.pc \in {"hooks", "emit"} <=> call[c].pc \in {"hooks", "emit"}
    PROVE  SameCarriers
  BY DEF SameCarriers, Carries

LEMMA ReturnCarries ==
    ASSUME CallsOk, NEW c \in Calls, NEW answer, Return(c, answer)
    PROVE  /\ \A i \in Customers : ~Carries(c, i)'
           /\ \A d \in Calls \ {c}, i \in Customers : Carries(d, i)' <=> Carries(d, i)
           /\ call[c].pc \notin {"hooks", "emit"} => SameCarriers
<1>1. PICK q : q = Ended(c, answer)
  OBVIOUS
<1>2. q.pc \in {"idle", "answered"}
  BY <1>1, EndedOk
<1>3. call' = [call EXCEPT ![c] = q] /\ call \in [Calls -> Call]
  BY <1>1 DEF Return, CallsOk
<1>. QED  BY <1>2, <1>3 DEF Carries, SameCarriers

\* An INSERT makes its call the carrier of the new customer, and no other.
LEMMA InsertCarries ==
    ASSUME TypeInv, NEW c \in Calls, NEW i \in Customers, InsertCustomer(c, i)
    PROVE  /\ \A j \in Customers : Carries(c, j)' <=> j = i
           /\ \A d \in Calls \ {c}, j \in Customers : Carries(d, j)' <=> Carries(d, j)
           /\ \A j \in Customers : ~Carries(c, j)
<1>0. call \in [Calls -> Call] /\ call[c].pc = "run" /\ call[c].op = "createCustomer"
  BY DEF TypeInv, CallsOk, InsertCustomer, At
<1>1. PICK n : n = [call[c] EXCEPT !.pc = "hooks", !.id = i]
  OBVIOUS
<1>2. n.pc = "hooks" /\ n.id = i
  BY <1>0, <1>1 DEF Call
<1>3. call'[c] = n
  BY <1>0, <1>1 DEF InsertCustomer, Grown, At
<1>4. ASSUME NEW d \in Calls \ {c}
      PROVE  call'[d].pc = call[d].pc /\ call'[d].id = call[d].id
  <2>1. PICK p \in Call : p = call[d]
    BY <1>0
  <2>2. PICK g : g = IF p.grown < Total THEN p.grown + 1 ELSE p.grown
    OBVIOUS
  <2>3. call'[d] = p \/ call'[d] = [p EXCEPT !.grown = g]
    BY <1>0, <2>1, <2>2 DEF InsertCustomer, Grown
  <2>4. [p EXCEPT !.grown = g].pc = p.pc /\ [p EXCEPT !.grown = g].id = p.id
    BY DEF Call
  <2>. QED  BY <2>1, <2>3, <2>4
<1>. QED  BY <1>0, <1>2, <1>3, <1>4 DEF Carries

LEMMA AccountStep ==
    ASSUME TypeInv, EventsAccounted, [Next]_vars
    PROVE  EventsAccounted'
<1>0. /\ call \in [Calls -> Call] /\ CallsOk /\ customer \in [Customers -> {None} \cup BOOLEAN]
      /\ events \cup lost \subseteq {i \in Customers : customer[i] # None}
  BY DEF TypeInv, CallsOk, RowsOk, EventsOk
<1>1. ASSUME NEW c \in Calls, HandlerNext(c)
      PROVE  EventsAccounted'
  <2>1. UNCHANGED <<customer, events, lost>> /\ call[c].pc = "idle"
        /\ \E op, id : call' = [call EXCEPT ![c] = [NoCall EXCEPT !.pc = "run", !.op = op, !.id = id]]
    BY <1>1 DEF HandlerNext, HandleCustomer, HandleCase, HandleCampaign, HandleTrigger, HandleSummary, Handle, tables
  <2>2. PICK op, id : call' = [call EXCEPT ![c] = [NoCall EXCEPT !.pc = "run", !.op = op, !.id = id]]
    BY <2>1
  <2>3. PICK q : q = [NoCall EXCEPT !.pc = "run", !.op = op, !.id = id]
    OBVIOUS
  <2>4. q.pc = "run"
    BY <2>3 DEF NoCall
  <2>. QED  BY <1>0, <2>1, <2>2, <2>3, <2>4, NoCarrier, SameAccount
<1>2. ASSUME NEW c \in Calls, NEW i \in Customers, InsertCustomer(c, i)
      PROVE  EventsAccounted'
  <2>1. /\ \A j \in Customers : Carries(c, j)' <=> j = i
        /\ \A d \in Calls \ {c}, j \in Customers : Carries(d, j)' <=> Carries(d, j)
        /\ \A j \in Customers : ~Carries(c, j)
    BY <1>2, InsertCarries
  <2>2. UNCHANGED <<events, lost>> /\ customer[i] = None /\ customer' = [customer EXCEPT ![i] = TRUE]
    BY <1>2 DEF InsertCustomer
  <2>3. \A d \in Calls : ~Carries(d, i)
    BY <1>0, <2>2 DEF Carries, CallsOk, Named
  <2>4. i \notin events \cup lost
    BY <1>0, <2>2
  <2>5. \A j \in Customers \ {i} : customer'[j] = customer[j]
    BY <1>0, <2>2
  <2>. SUFFICES ASSUME NEW j \in Customers
                PROVE  /\ customer'[j] # None => j \in events' \cup lost' \/ \E d \in Calls : Carries(d, j)'
                       /\ j \in events' \cup lost' => \A d \in Calls : ~Carries(d, j)'
                       /\ \A b, d \in Calls : Carries(b, j)' /\ Carries(d, j)' => b = d
                       /\ j \notin events' \cap lost'
    BY DEF EventsAccounted
  <2>6. CASE j = i
    BY <2>1, <2>2, <2>3, <2>4, <2>6 DEF EventsAccounted
  <2>7. CASE j # i
    BY <2>1, <2>2, <2>5, <2>7 DEF EventsAccounted
  <2>. QED  BY <2>6, <2>7
\* The event is written, or the call fails: its customer changes hands.
<1>3. ASSUME NEW c \in Calls, NEW answer, NEW i \in Customers, Return(c, answer), Carries(c, i), customer' = customer,
             \/ events' = events \cup {i} /\ lost' = lost
             \/ events' = events /\ lost' = lost \cup {i}
      PROVE  EventsAccounted'
  <2>1. /\ \A j \in Customers : ~Carries(c, j)'
        /\ \A d \in Calls \ {c}, j \in Customers : Carries(d, j)' <=> Carries(d, j)
    BY <1>0, <1>3, ReturnCarries
  <2>2. \A j \in Customers \ {i} : ~Carries(c, j)
    BY <1>3 DEF Carries
  <2>3. i \notin events \cup lost /\ \A d \in Calls \ {c} : ~Carries(d, i)
    BY <1>3 DEF EventsAccounted
  <2>. SUFFICES ASSUME NEW j \in Customers
                PROVE  /\ customer'[j] # None => j \in events' \cup lost' \/ \E d \in Calls : Carries(d, j)'
                       /\ j \in events' \cup lost' => \A d \in Calls : ~Carries(d, j)'
                       /\ \A b, d \in Calls : Carries(b, j)' /\ Carries(d, j)' => b = d
                       /\ j \notin events' \cap lost'
    BY DEF EventsAccounted
  <2>4. CASE j = i
    BY <1>3, <2>1, <2>3, <2>4
  <2>5. CASE j # i
    BY <1>3, <2>1, <2>2, <2>5 DEF EventsAccounted
  <2>. QED  BY <2>4, <2>5
<1>4. ASSUME NEW c \in Calls, Emit(c)
      PROVE  EventsAccounted'
  <2>1. call[c].id \in Customers /\ Carries(c, call[c].id)
    BY <1>0, <1>4 DEF Emit, At, CallsOk, Named, Carries
  <2>. QED  BY <1>3, <1>4, <2>1 DEF Emit, tables
<1>5. ASSUME NEW c \in Calls, Fail(c)
      PROVE  EventsAccounted'
  <2>1. CASE call[c].pc \in {"hooks", "emit"}
    <3>1. call[c].op = "createCustomer" /\ call[c].id \in Customers /\ Carries(c, call[c].id)
      BY <1>0, <2>1 DEF CallsOk, Named, Carries
    <3>. QED  BY <1>3, <1>5, <2>1, <3>1 DEF Fail, tables
  <2>2. CASE call[c].pc \notin {"hooks", "emit"}
    BY <1>0, <1>5, <2>2, ReturnCarries, SameAccount DEF Fail, tables
  <2>. QED  BY <2>1, <2>2
<1>6. ASSUME NEW c \in Calls, UpdateCustomer(c) \/ DeleteCustomer(c)
      PROVE  EventsAccounted'
  <2>1. PICK active \in BOOLEAN \cup {customer[call[c].id]}, op \in {"updateCustomer", "deleteCustomer"} : WriteCustomer(c, op, active)
    BY <1>6 DEF UpdateCustomer, DeleteCustomer
  <2>2. \A i \in Customers : customer'[i] # None <=> customer[i] # None
    BY <1>0, <2>1, NoneIsNoRow DEF WriteCustomer
  <2>. QED  BY <1>0, <2>1, <2>2, ReturnCarries, SameAccount DEF WriteCustomer, At
<1>7. ASSUME NEW c \in Calls, (\E k \in Cases : InsertCase(c, k)) \/ UpdateCase(c) \/ DeleteCase(c) \/ WriteCampaign(c)
                              \/ WriteTrigger(c) \/ Summarise(c)
      PROVE  EventsAccounted'
  <2>1. UNCHANGED <<customer, events, lost>>
    BY <1>7 DEF InsertCase, UpdateCase, DeleteCase, WriteCampaign, WriteTrigger, Summarise, tables
  <2>2. call[c].pc \notin {"hooks", "emit"} /\ \E answer : Return(c, answer)
    BY <1>7 DEF InsertCase, UpdateCase, DeleteCase, WriteCampaign, WriteTrigger, WriteRow, Summarise, At
  <2>. QED  BY <1>0, <2>1, <2>2, ReturnCarries, SameAccount
<1>8. ASSUME NEW c \in Calls, FindCustomer(c)
      PROVE  EventsAccounted'
  <2>1. UNCHANGED <<customer, events, lost>> /\ call[c].pc = "run"
    BY <1>8 DEF FindCustomer, At, tables
  <2>2. CASE \E answer : Return(c, answer)
    BY <1>0, <2>1, <2>2, ReturnCarries, SameAccount
  <2>3. CASE Step(c, "insert")
    <3>1. PICK q : q = [call[c] EXCEPT !.pc = "insert"]
      OBVIOUS
    <3>2. q.pc = "insert"
      BY <1>0, <3>1 DEF Call
    <3>. QED  BY <1>0, <2>1, <2>3, <3>1, <3>2, NoCarrier, SameAccount DEF Step
  <2>. QED  BY <1>8, <2>2, <2>3 DEF FindCustomer
<1>9. ASSUME NEW c \in Calls, NEW q, call' = [call EXCEPT ![c] = q], q.id = call[c].id,
             q.pc \in {"hooks", "emit"} <=> call[c].pc \in {"hooks", "emit"}, UNCHANGED <<customer, events, lost>>
      PROVE  EventsAccounted'
  BY <1>0, <1>9, SameCarrier, SameAccount
<1>10. ASSUME NEW c \in Calls, RunHooks(c)
       PROVE  EventsAccounted'
  <2>1. PICK q : q = [call[c] EXCEPT !.pc = "emit"]
    OBVIOUS
  <2>2. q.pc = "emit" /\ q.id = call[c].id /\ call[c].pc = "hooks"
    BY <1>0, <1>10, <2>1 DEF RunHooks, At, Call
  <2>. QED  BY <1>9, <1>10, <2>1, <2>2 DEF RunHooks, Step, tables
<1>11. ASSUME NEW c \in Calls, CountTotal(c) \/ CountActive(c) \/ TimeOut(c)
       PROVE  EventsAccounted'
  <2>1. PICK t : t = Cardinality({i \in Customers : customer[i] # None})
    OBVIOUS
  <2>2. PICK a : a = Cardinality({i \in Customers : customer[i] = TRUE})
    OBVIOUS
  <2>3. PICK x : x = [call[c] EXCEPT !.total = t]
    OBVIOUS
  <2>4. PICK y : y = [call[c] EXCEPT !.active = a]
    OBVIOUS
  <2>5. PICK z : z = [call[c] EXCEPT !.answer = "timeout"]
    OBVIOUS
  <2>6. /\ x.pc = call[c].pc /\ x.id = call[c].id
        /\ y.pc = call[c].pc /\ y.id = call[c].id
        /\ z.pc = call[c].pc /\ z.id = call[c].id
    BY <1>0, <2>3, <2>4, <2>5 DEF Call
  <2>7. call' = [call EXCEPT ![c] = x] \/ call' = [call EXCEPT ![c] = y] \/ call' = [call EXCEPT ![c] = z]
    BY <1>11, <2>1, <2>2, <2>3, <2>4, <2>5, Zenon DEF CountTotal, CountActive, TimeOut
  <2>8. UNCHANGED <<customer, events, lost>>
    BY <1>11 DEF CountTotal, CountActive, TimeOut, tables
  <2>. QED  BY <1>9, <2>6, <2>7, <2>8
<1>12. ASSUME NEW c \in Calls, Take(c)
       PROVE  EventsAccounted'
  BY <1>0, <1>12, NoCallOk, NoCarrier, SameAccount DEF Take, tables
<1>13. CASE Switch \/ UNCHANGED vars
  <2>1. UNCHANGED <<customer, call, events, lost>>
    BY <1>13 DEF Switch, tables, vars
  <2>. QED  BY <2>1, SameAccount DEF SameCarriers, Carries
<1>. QED  BY <1>1, <1>2, <1>4, <1>5, <1>6, <1>7, <1>8, <1>10, <1>11, <1>12, <1>13 DEF Next, CoreNext

\* A customer that exists is announced in plugin_events, was lost by a call that
\* failed after the INSERT, or is with one call, still to come, and never two of
\* these: a handler that answered 504 neither loses nor doubles an announcement
\* (CustomerDataCore.createCustomer under SandboxService).
THEOREM AnnouncementsAccounted == Spec => []EventsAccounted
<1>1. Init => EventsAccounted
  BY DEF Init, EventsAccounted, Carries, NoCall
<1>. QED  BY <1>1, AccountStep, TypeInvAlways, PTL DEF Spec
=============================================================================
