----------------------------- MODULE PluginCalls -----------------------------
(***************************************************************************)
(* Calls of the plugin controllers.  A handler builds its context, refuses *)
(* a tenant without the plugin, and runs a method of the plugin's core in  *)
(* SandboxService, which stops waiting when its time is over while the     *)
(* method goes on.  The cores keep customers, cases, campaigns and         *)
(* triggers; a new customer is announced by a row of plugin_events, which  *)
(* EventPipeline takes from there.                                         *)
(*                                                                         *)
(* A step is one statement.  One tenant: row level security keeps the rows *)
(* of another away (TenantConnections).  Names, texts and dates are left   *)
(* out, and so are the methods that only read, but for the summary, which  *)
(* reads twice.                                                            *)
(***************************************************************************)
EXTENDS Naturals, FiniteSets

CONSTANTS Customers, Cases, Statuses, Campaigns, Triggers, Calls, None

ASSUME CallConstants == IsFiniteSet(Customers) /\ {"open", "resolved"} \subseteq Statuses

VARIABLES
    listed,    \* what getEnabledPlugins answers (PluginSwitches)
    customer,  \* rows of customers: is_active
    case,      \* rows of support_cases
    campaigns, triggers,  \* rows of marketing_campaigns, automation_triggers
    events,    \* customers with a customer.create row in plugin_events
    call,      \* calls of the handlers
    lost       \* not in the code: customers whose call failed before the event

vars == <<listed, customer, case, campaigns, triggers, events, call, lost>>
tables == <<customer, case, campaigns, triggers>>

Plugins == {"customer_data", "customer_care", "marketing", "automation", "analytics"}
Ops == {"createCustomer", "updateCustomer", "deleteCustomer", "createCase", "updateCase", "deleteCase",
        "createCampaign", "updateCampaign", "deleteCampaign", "createTrigger", "updateTrigger", "deleteTrigger",
        "summary"}
Ids == Customers \cup Cases \cup Campaigns \cup Triggers
Case == [of : Customers, status : Statuses, resolvedAt : BOOLEAN]

\* total, active: what the summary's statements returned.  grown is not in the
\* code: how many customers were inserted since the summary began.
Total == Cardinality(Customers)
Call == [pc : {"idle", "run", "insert", "hooks", "emit", "answered"},
         op : Ops \cup {None}, id : Ids \cup {None},
         answer : {"none", "ok", "timeout"},
         total : {None} \cup 0..Total, active : {None} \cup 0..Total, grown : 0..Total]
NoCall == [pc |-> "idle", op |-> None, id |-> None, answer |-> "none", total |-> None, active |-> None, grown |-> 0]
ASSUME NoneIsNoRow == None \notin BOOLEAN \cup Nat \cup Case

Running(c) == call[c].pc \notin {"idle", "answered"}
At(c, pc, op) == call[c].pc = pc /\ call[c].op = op

TypeOK ==
    /\ listed \subseteq Plugins
    /\ customer \in [Customers -> {None} \cup BOOLEAN]
    /\ case \in [Cases -> {None} \cup Case]
    /\ campaigns \subseteq Campaigns /\ triggers \subseteq Triggers
    /\ events \subseteq Customers /\ lost \subseteq Customers
    /\ call \in [Calls -> Call]
    /\ \A i \in events \cup lost : customer[i] # None
    /\ \A k \in Cases : case[k] # None => customer[case[k].of] # None
    /\ \A c \in Calls : At(c, "insert", "createCase") => customer[call[c].id] # None

Init ==
    /\ listed \in {{"customer_data", "analytics"}, Plugins}
    /\ customer = [i \in Customers |-> None]
    /\ case = [k \in Cases |-> None]
    /\ campaigns = {} /\ triggers = {} /\ events = {} /\ lost = {}
    /\ call = [c \in Calls |-> NoCall]

-----------------------------------------------------------------------------
(* Controllers, context, sandbox *)

\* buildCtx: 403, and nothing done, unless the plugin is in the list.
Handle(c, plugin, op, id) ==
    /\ call[c].pc = "idle" /\ plugin \in listed
    /\ call' = [call EXCEPT ![c] = [NoCall EXCEPT !.pc = "run", !.op = op, !.id = id]]
    /\ UNCHANGED <<listed, tables, events, lost>>

HandleCustomer(c) ==
    \/ Handle(c, "customer_data", "createCustomer", None)
    \/ \E op \in {"updateCustomer", "deleteCustomer"}, i \in Customers : Handle(c, "customer_data", op, i)
HandleCase(c) ==
    \/ \E i \in Customers : Handle(c, "customer_care", "createCase", i)
    \/ \E op \in {"updateCase", "deleteCase"}, k \in Cases : Handle(c, "customer_care", op, k)
HandleCampaign(c) ==
    \E op \in {"createCampaign", "updateCampaign", "deleteCampaign"}, i \in Campaigns : Handle(c, "marketing", op, i)
HandleTrigger(c) ==
    \E op \in {"createTrigger", "updateTrigger", "deleteTrigger"}, i \in Triggers : Handle(c, "automation", op, i)
HandleSummary(c) == Handle(c, "analytics", "summary", None)

\* The method ends; if the handler waits no longer nobody learns how.  The
\* answers that no property is about are not kept.
Ended(c, answer) ==
    IF call[c].answer = "timeout" \/ answer # "ok" \/ call[c].op \notin {"createCustomer", "summary"} THEN NoCall
    ELSE [NoCall EXCEPT !.pc = "answered", !.op = call[c].op, !.id = call[c].id, !.answer = answer,
                        !.total = call[c].total, !.active = call[c].active, !.grown = call[c].grown]
Return(c, answer) == call' = [call EXCEPT ![c] = Ended(c, answer)]
Step(c, pc) == call' = [call EXCEPT ![c].pc = pc]

\* Faulty variant of TimeOut: the method stops with the handler.
TimeOutStops(c) ==
    /\ Running(c) /\ call[c].answer = "none"
    /\ call' = [call EXCEPT ![c] = NoCall]
    /\ UNCHANGED <<listed, tables, events, lost>>
\* The sandbox answers 504 and forgets the promise.
TimeOut(c) ==
    /\ Running(c) /\ call[c].answer = "none"
    /\ call' = [call EXCEPT ![c].answer = "timeout"]
    /\ UNCHANGED <<listed, tables, events, lost>>

\* A statement fails or the process dies: what is committed stays.
Fail(c) ==
    /\ Running(c)
    /\ Return(c, "error")
    /\ lost' = IF call[c].op = "createCustomer" /\ call[c].pc \in {"hooks", "emit"} THEN lost \cup {call[c].id} ELSE lost
    /\ UNCHANGED <<listed, tables, events>>

\* The client takes the answer.
Take(c) ==
    /\ call[c].pc = "answered"
    /\ call' = [call EXCEPT ![c] = NoCall]
    /\ UNCHANGED <<listed, tables, events, lost>>

-----------------------------------------------------------------------------
(* CustomerDataCore *)

\* The summaries under way count the new row, or not.
Grown(new) == [d \in Calls |-> IF At(d, "run", "summary") THEN [new[d] EXCEPT !.grown = IF @ < Total THEN @ + 1 ELSE @]
                               ELSE new[d]]

\* runBefore has no hooks; the INSERT is committed by itself.
InsertCustomer(c, i) ==
    /\ At(c, "run", "createCustomer") /\ customer[i] = None
    /\ customer' = [customer EXCEPT ![i] = TRUE]
    /\ call' = Grown([call EXCEPT ![c].pc = "hooks", ![c].id = i])
    /\ UNCHANGED <<listed, case, campaigns, triggers, events, lost>>

\* runAfter: the hook of customer_care, if the context has it, does nothing yet.
RunHooks(c) ==
    /\ At(c, "hooks", "createCustomer")
    /\ Step(c, "emit")
    /\ UNCHANGED <<listed, tables, events, lost>>

Emit(c) ==
    /\ At(c, "emit", "createCustomer")
    /\ events' = events \cup {call[c].id}
    /\ Return(c, "ok")
    /\ UNCHANGED <<listed, tables, lost>>

\* An update that matches no row is a 404.
WriteCustomer(c, op, active) ==
    LET i == call[c].id
    IN  /\ At(c, "run", op)
        /\ customer' = IF customer[i] = None THEN customer ELSE [customer EXCEPT ![i] = active]
        /\ Return(c, IF customer[i] = None THEN "not_found" ELSE "ok")
        /\ UNCHANGED <<listed, case, campaigns, triggers, events, lost>>
\* The client may send is_active or leave it out.
UpdateCustomer(c) ==
    /\ At(c, "run", "updateCustomer")
    /\ \E active \in BOOLEAN \cup {customer[call[c].id]} : WriteCustomer(c, "updateCustomer", active)
\* Faulty variant of DeleteCustomer: the row goes, and its cases with it (ON DELETE CASCADE).
DeleteCustomerRow(c) ==
    LET i == call[c].id
    IN  /\ At(c, "run", "deleteCustomer")
        /\ customer' = [customer EXCEPT ![i] = None]
        /\ case' = [k \in Cases |-> IF case[k] # None /\ case[k].of = i THEN None ELSE case[k]]
        /\ Return(c, IF customer[i] = None THEN "not_found" ELSE "ok")
        /\ UNCHANGED <<listed, campaigns, triggers, events, lost>>
DeleteCustomer(c) == WriteCustomer(c, "deleteCustomer", FALSE)

-----------------------------------------------------------------------------
(* CustomerCareCore *)

\* Faulty variant of FindCustomer: the customer is not looked for.
FindNobody(c) ==
    /\ At(c, "run", "createCase")
    /\ Step(c, "insert")
    /\ UNCHANGED <<listed, tables, events, lost>>
\* createCase reads the customer first, deleted (inactive) or not.
FindCustomer(c) ==
    /\ At(c, "run", "createCase")
    /\ IF customer[call[c].id] = None THEN Return(c, "not_found") ELSE Step(c, "insert")
    /\ UNCHANGED <<listed, tables, events, lost>>

InsertCase(c, k) ==
    /\ At(c, "insert", "createCase") /\ case[k] = None
    /\ case' = [case EXCEPT ![k] = [of |-> call[c].id, status |-> "open", resolvedAt |-> FALSE]]
    /\ Return(c, "ok")
    /\ UNCHANGED <<listed, customer, campaigns, triggers, events, lost>>

\* updateCase: resolved_at is written with the status "resolved" and never cleared.
Patched(old, status) == [old EXCEPT !.status = status, !.resolvedAt = @ \/ status = "resolved"]

UpdateCase(c) ==
    LET k == call[c].id
    IN  /\ At(c, "run", "updateCase")
        /\ IF case[k] = None THEN Return(c, "not_found") /\ UNCHANGED case
           ELSE /\ \E status \in Statuses : case' = [case EXCEPT ![k] = Patched(@, status)]
                /\ Return(c, "ok")
        /\ UNCHANGED <<listed, customer, campaigns, triggers, events, lost>>

DeleteCase(c) ==
    LET k == call[c].id
    IN  /\ At(c, "run", "deleteCase")
        /\ case' = [case EXCEPT ![k] = None]
        /\ Return(c, IF case[k] = None THEN "not_found" ELSE "ok")
        /\ UNCHANGED <<listed, customer, campaigns, triggers, events, lost>>

-----------------------------------------------------------------------------
(* MarketingCore, AutomationCore: single statements on rows of their own *)

WriteRow(c, rows, create, update, delete) ==
    LET i == call[c].id
    IN  \/ At(c, "run", create) /\ i \notin rows /\ rows' = rows \cup {i} /\ Return(c, "ok")
        \/ At(c, "run", update) /\ UNCHANGED rows /\ Return(c, IF i \in rows THEN "ok" ELSE "not_found")
        \/ At(c, "run", delete) /\ rows' = rows \ {i} /\ Return(c, IF i \in rows THEN "ok" ELSE "not_found")

WriteCampaign(c) ==
    /\ WriteRow(c, campaigns, "createCampaign", "updateCampaign", "deleteCampaign")
    /\ UNCHANGED <<listed, customer, case, triggers, events, lost>>

WriteTrigger(c) ==
    /\ WriteRow(c, triggers, "createTrigger", "updateTrigger", "deleteTrigger")
    /\ UNCHANGED <<listed, customer, case, campaigns, events, lost>>

-----------------------------------------------------------------------------
(* AnalyticsCore.summary: two statements at the same time, on two connections *)

CountTotal(c) ==
    /\ At(c, "run", "summary") /\ call[c].total = None
    /\ call' = [call EXCEPT ![c].total = Cardinality({i \in Customers : customer[i] # None})]
    /\ UNCHANGED <<listed, tables, events, lost>>

\* Faulty variant of CountActive: the rows that were deleted are counted too.
CountEach(c) ==
    /\ At(c, "run", "summary") /\ call[c].active = None
    /\ call' = [call EXCEPT ![c].active = Cardinality(Customers)]
    /\ UNCHANGED <<listed, tables, events, lost>>
CountActive(c) ==
    /\ At(c, "run", "summary") /\ call[c].active = None
    /\ call' = [call EXCEPT ![c].active = Cardinality({i \in Customers : customer[i] = TRUE})]
    /\ UNCHANGED <<listed, tables, events, lost>>

Summarise(c) ==
    /\ At(c, "run", "summary") /\ None \notin {call[c].total, call[c].active}
    /\ Return(c, "ok")
    /\ UNCHANGED <<listed, tables, events, lost>>

-----------------------------------------------------------------------------
\* A switch of the plugins, whatever it was.
Switch ==
    /\ listed' \in {{"customer_data", "analytics"}, Plugins} /\ listed' # listed
    /\ UNCHANGED <<tables, events, call, lost>>

HandlerNext(c) == HandleCustomer(c) \/ HandleCase(c) \/ HandleCampaign(c) \/ HandleTrigger(c) \/ HandleSummary(c)

CoreNext(c) ==
    \/ \E i \in Customers : InsertCustomer(c, i)
    \/ RunHooks(c) \/ Emit(c) \/ UpdateCustomer(c) \/ DeleteCustomer(c)
    \/ FindCustomer(c) \/ (\E k \in Cases : InsertCase(c, k)) \/ UpdateCase(c) \/ DeleteCase(c)
    \/ WriteCampaign(c) \/ WriteTrigger(c)
    \/ CountTotal(c) \/ CountActive(c) \/ Summarise(c)

Next ==
    \/ \E c \in Calls : HandlerNext(c) \/ CoreNext(c) \/ TimeOut(c) \/ Fail(c) \/ Take(c)
    \/ Switch

Spec == Init /\ [][Next]_vars

\* A method that runs goes on, whether anyone waits for it or not.
FairSpec == Spec /\ \A c \in Calls : WF_vars(CoreNext(c))

-----------------------------------------------------------------------------
(* Properties *)

\* A customer is announced at last, also when the handler answered 504 long
\* ago, unless the call failed between the INSERT and the event: then the
\* customer is there and nobody hears of it.
CustomersAreAnnounced ==
    \A i \in Customers : customer[i] # None ~> i \in events \cup lost

\* A case leaves the list of cases, which joins the customers, only by
\* deleteCase: deleting a customer, from another plugin, takes no case away.
CasesStayListed ==
    [][\A k \in Cases : case[k] # None /\ (case'[k] = None \/ customer'[case[k].of] = None)
          => \E c \in Calls : At(c, "run", "deleteCase") /\ call[c].id = k]_<<case, customer>>

\* The summary's two counts are of two moments: it shows more active customers
\* than customers only by those that were inserted in between.
SummaryAdds ==
    \A c \in Calls : At(c, "answered", "summary") /\ call[c].answer = "ok" => call[c].active <= call[c].total + call[c].grown
=============================================================================
