------------------------------- MODULE Console -------------------------------
(***************************************************************************)
(* A tab of the web or of the admin console: its pages, the lists they     *)
(* read through React Query, the dialogs over them and the saves that the  *)
(* dialogs send.  What is listed is the version of the rows that the       *)
(* server answered with; fields, texts and layout are left out, but for    *)
(* whether a form passes its validation and the steps of the trigger form. *)
(*                                                                         *)
(* A step is one event in the tab or one statement of the server.  One     *)
(* tenant: every key of the web console holds the tenant's id, every key   *)
(* of a tenant's page in the admin console too.  Only one dialog is open   *)
(* at a time; the confirmation inside the list of triggers counts as one.  *)
(***************************************************************************)
EXTENDS Integers, Sequences

CONSTANTS
    Saves,  \* identities of saves, used again
    Tours,  \* bound: the pages and filters that are entered, and how far the server's rows change
    None

ASSUME ConsoleConstants == Tours \subseteq [pages : Seq(STRING), changes : Nat]

VARIABLES
    site,      \* which console
    signedIn,  \* a token is in the auth store
    page,      \* the page that is mounted
    filtered,  \* the contacts page shows what another filter found
    gate,      \* the page's content is shown (PluginGate)
    list,      \* the queries
    dialog,    \* the dialog that is open
    save,      \* mutations on their way
    version,   \* the server's rows, counted in changes
    tour       \* not in the code: one of Tours and how much of it was entered

vars == <<site, signedIn, page, filtered, gate, list, dialog, save, version, tour>>
place == <<site, signedIn, page, filtered, gate, tour>>

-----------------------------------------------------------------------------
(* Dialogs: their page, the rows they save, whether they stay while their  *)
(* save is on its way, whether the component stays mounted when they are   *)
(* closed, and so remembers that save, and the lists read again after it.  *)

Dialog(on, rows, guarded, mounted, lists) ==
    [on |-> on, rows |-> rows, guarded |-> guarded, mounted |-> mounted, lists |-> lists]

CustomerKeys == {"customers", "found", "picker"}
TenantKeys == {"tenants", "tenant", "plugins"}

AddContact == Dialog("contacts", "customers", FALSE, TRUE, CustomerKeys)
EditContact == Dialog("contacts", "customers", FALSE, FALSE, CustomerKeys)
\* Faulty variant of DeleteContact: it can be closed while it deletes.
DeleteContactAnytime == Dialog("contacts", "customers", FALSE, FALSE, CustomerKeys)
DeleteContact == Dialog("contacts", "customers", TRUE, FALSE, CustomerKeys)
CreateCase == Dialog("cases", "cases", FALSE, TRUE, {"cases"})
EditCase == Dialog("cases", "cases", FALSE, FALSE, {"cases"})
AddCampaign == Dialog("marketing", "campaigns", FALSE, TRUE, {"campaigns"})
EditCampaign == Dialog("marketing", "campaigns", FALSE, TRUE, {"campaigns"})
\* One component creates and edits; closing it resets its mutations.
CreateTrigger == Dialog("automation", "triggers", FALSE, FALSE, {"triggers"})
DeleteTrigger == Dialog("automation", "triggers", FALSE, TRUE, {"triggers"})
ToggleTrigger == Dialog("automation", "triggers", TRUE, TRUE, {"triggers"})
AddTenant == Dialog("tenants", "tenants", TRUE, TRUE, TenantKeys)
EditTenant == Dialog("tenant", "tenants", TRUE, FALSE, TenantKeys)
AddUser == Dialog("tenant", "users", TRUE, TRUE, {"users"})
EditUser == Dialog("tenant", "users", TRUE, FALSE, {"users"})
DeleteUser == Dialog("tenant", "users", TRUE, FALSE, {"users"})
ToggleUser == Dialog("tenant", "users", FALSE, FALSE, {"users"})
TogglePlugin == Dialog("plugins", "plugins", TRUE, TRUE, {"plugins"})

Dialogs == [addContact |-> AddContact, editContact |-> EditContact, deleteContact |-> DeleteContact,
            createCase |-> CreateCase, editCase |-> EditCase,
            addCampaign |-> AddCampaign, editCampaign |-> EditCampaign,
            createTrigger |-> CreateTrigger, deleteTrigger |-> DeleteTrigger, toggleTrigger |-> ToggleTrigger,
            addTenant |-> AddTenant, editTenant |-> EditTenant,
            addUser |-> AddUser, editUser |-> EditUser, deleteUser |-> DeleteUser, toggleUser |-> ToggleUser,
            togglePlugin |-> TogglePlugin]
Kinds == DOMAIN Dialogs

\* What the rows of a list offer.
ContactsList == {"editContact", "deleteContact"}
CasesList == {"editCase"}
CampaignsList == {"editCampaign"}
TriggersList == {"createTrigger", "deleteTrigger", "toggleTrigger"}
UsersList == {"editUser", "deleteUser", "toggleUser"}
\* The switches that save at once, without a dialog.
Switches == {"toggleTrigger", "toggleUser", "togglePlugin"}
OfRow == ContactsList \cup CasesList \cup CampaignsList \cup TriggersList \cup UsersList
             \cup {"editTenant", "togglePlugin"}
\* Dialogs that a button of the page opens, empty.
OfPage == {"addContact", "createCase", "addCampaign", "createTrigger", "addTenant", "addUser"}

-----------------------------------------------------------------------------
(* Pages: the lists they read *)

ContactsPage == IF filtered THEN {"found"} ELSE {"customers"}
CasesPage == {"cases"}
MarketingPage == {"campaigns"}
AutomationPage == {"triggers"}
AnalyticsPage == {"summary", "trends"}
TenantsPage == {"tenants"}
\* The section of the users is rendered when the tenant is there; until then
\* their fetch counts as sent and not yet read.
TenantPage == {"tenant", "users"}
PluginsPage == {"plugins"}
MetricsPage == {"metrics"}

WebPages == {"contacts", "cases", "marketing", "automation", "analytics"}
AdminPages == {"tenants", "tenant", "plugins", "metrics"}
Reads(p) == CASE p = "contacts" -> ContactsPage [] p = "cases" -> CasesPage [] p = "marketing" -> MarketingPage
              [] p = "automation" -> AutomationPage [] p = "analytics" -> AnalyticsPage
              [] p = "tenants" -> TenantsPage [] p = "tenant" -> TenantPage [] p = "plugins" -> PluginsPage
              [] p = "metrics" -> MetricsPage [] OTHER -> {}

\* The rows behind a list.
Lists == CustomerKeys \cup TenantKeys \cup {"cases", "campaigns", "triggers", "summary", "trends", "users", "metrics"}
Rows == {"customers", "cases", "campaigns", "triggers", "tenants", "plugins", "users"}
RowsOf(l) == CASE l \in {"found", "picker", "summary", "trends"} -> "customers"
               [] l \in {"tenant", "metrics"} -> "tenants"
               [] OTHER -> l

\* The picker of customers is read while its dialog is open.
Observed(l) == l \in Reads(page) \/ (l = "picker" /\ dialog # None /\ dialog.kind = "createCase")

Version == Nat
\* own, raced are not in the code: the last change by a save of this tab whose
\* answer had the list read again; whether an answer read before that change
\* was let through after it.
List == [ver : Version \cup {None}, invalid : BOOLEAN, failed : BOOLEAN,
         fetch : {"idle", "sent", "read"}, got : Version \cup {None}, own : Version, raced : BOOLEAN]
NoList == [ver |-> None, invalid |-> FALSE, failed |-> FALSE, fetch |-> "idle", got |-> None, own |-> 0, raced |-> FALSE]
OpenDialog == [kind : Kinds, save : Saves \cup {None}, filled : BOOLEAN, step : 1..3]
\* attached: the page that sent it is still mounted.  hidden is not in the
\* code: its dialog was taken away since, with its component, by the gate or by
\* the answer of a save whose dialog the gate took.
Save == [kind : Kinds, pc : {"sent", "done", "failed"}, made : Version, attached : BOOLEAN, hidden : BOOLEAN]

ASSUME NoneIsNothing == None \notin Version \cup OpenDialog \cup Save \cup Saves \cup WebPages \cup AdminPages

TypeOK ==
    /\ site \in {"web", "admin"} /\ signedIn \in BOOLEAN /\ filtered \in BOOLEAN /\ gate \in BOOLEAN
    /\ page \in {None} \cup (IF site = "web" THEN WebPages ELSE AdminPages)
    /\ list \in [Lists -> List]
    /\ dialog \in OpenDialog \cup {None}
    /\ save \in [Saves -> Save \cup {None}]
    /\ version \in [Rows -> Version]
    /\ tour \in [of : Tours, at : Nat]
    /\ page # None => signedIn
    /\ dialog # None => Dialogs[dialog.kind].on = page
    /\ dialog # None /\ dialog.save # None =>
          save[dialog.save] # None /\ save[dialog.save].kind = dialog.kind /\ save[dialog.save].attached
    /\ \A s \in Saves : save[s] # None /\ save[s].attached => Dialogs[save[s].kind].on = page
    /\ \A l \in Lists : /\ list[l].own <= version[RowsOf(l)]
                        /\ list[l].ver # None => list[l].ver <= version[RowsOf(l)]

Init ==
    /\ site \in {"web", "admin"} /\ signedIn = FALSE
    /\ page = None /\ filtered = FALSE /\ gate = FALSE
    /\ list = [l \in Lists |-> NoList]
    /\ dialog = None
    /\ save = [s \in Saves |-> None]
    /\ version = [r \in Rows |-> 0]
    /\ tour \in [of : Tours, at : {0}]

-----------------------------------------------------------------------------
(* React Query *)

Sent(q) == [q EXCEPT !.fetch = "sent", !.got = None]

\* A query that gets an observer is fetched unless it is fresh or under way.
Mounted(q, stale) ==
    IF q.fetch = "idle" /\ (q.ver = None \/ q.invalid \/ stale) THEN Sent(q) ELSE q
Mount(ls) == \E stale \in BOOLEAN : list' = [l \in Lists |-> IF l \in ls THEN Mounted(list[l], stale) ELSE list[l]]

\* refetch: a fetch under way is dropped and a new one sent, unless the query
\* has no data yet: then the caller gets the one under way.
Refetched(q) ==
    CASE q.fetch = "idle" -> Sent(q)
      [] q.fetch # "idle" /\ q.ver # None -> [Sent(q) EXCEPT !.raced = FALSE]
      [] OTHER -> [q EXCEPT !.raced = q.fetch = "read"]
\* Faulty variant of Invalidated: the fetch under way is good enough (cancelRefetch: false).
InvalidatedLazily(q, active) ==
    IF q.fetch = "idle" /\ active THEN [Sent(q) EXCEPT !.invalid = TRUE] ELSE [q EXCEPT !.invalid = q.ver # None]
\* invalidateQueries: what nobody observes is only marked, and the answer of a
\* fetch under way takes the mark away.
Invalidated(q, active) ==
    IF active THEN [Refetched(q) EXCEPT !.invalid = q.ver # None]
    ELSE [q EXCEPT !.invalid = q.ver # None, !.raced = @ \/ q.fetch = "read"]

\* What a save's answer does to the lists; the automation page refetches.
Refresh(s) ==
    LET d == Dialogs[save[s].kind]
        Owned(l, q) == IF save[s].pc = "done" /\ save[s].made > q.own /\ RowsOf(l) = d.rows
                         THEN [q EXCEPT !.own = save[s].made] ELSE q
    IN  list' = [l \in Lists |->
            IF l \notin d.lists THEN list[l]
            ELSE Owned(l, IF d.on = "automation" THEN Refetched(list[l]) ELSE Invalidated(list[l], Observed(l)))]

\* The window gets the focus, or the metrics' 15 seconds are over.
Focus(l) ==
    /\ Observed(l) /\ list[l].fetch = "idle"
    /\ list' = [list EXCEPT ![l] = Sent(@)]
    /\ UNCHANGED <<place, dialog, save, version>>

ServerReads(l) ==
    /\ list[l].fetch = "sent"
    /\ list' = [list EXCEPT ![l].fetch = "read", ![l].got = version[RowsOf(l)]]
    /\ UNCHANGED <<place, dialog, save, version>>

Landed(q) == [q EXCEPT !.ver = q.got, !.invalid = FALSE, !.failed = FALSE, !.fetch = "idle", !.got = None,
                       !.raced = q.raced /\ q.got < q.own]
Land(l) ==
    /\ list[l].fetch = "read"
    /\ list' = [list EXCEPT ![l] = Landed(@)]
    /\ UNCHANGED <<place, dialog, save, version>>

\* After the retries; what was listed before stays in the cache.
FetchFails(l) ==
    /\ list[l].fetch # "idle"
    /\ list' = [list EXCEPT ![l] = [@ EXCEPT !.fetch = "idle", !.got = None, !.failed = TRUE]]
    /\ UNCHANGED <<place, dialog, save, version>>

-----------------------------------------------------------------------------
(* Sessions, pages, the gate *)

SignIn ==
    /\ ~signedIn /\ signedIn' = TRUE
    /\ UNCHANGED <<site, page, filtered, gate, tour, list, dialog, save, version>>

\* The cache of queries stays.
SignOut ==
    /\ signedIn /\ page = None /\ signedIn' = FALSE
    /\ UNCHANGED <<site, page, filtered, gate, tour, list, dialog, save, version>>

\* Tours bounds what is entered, and the filters that are set.
Goes(p) == /\ tour.at < Len(tour.of.pages) /\ tour.of.pages[tour.at + 1] = p
           /\ tour' = [tour EXCEPT !.at = @ + 1]

Enter(p) ==
    /\ signedIn /\ page = None /\ Goes(p)
    /\ p \in IF site = "web" THEN WebPages ELSE AdminPages
    /\ page' = p /\ gate' = (site = "admin")
    /\ Mount(Reads(p))
    /\ UNCHANGED <<site, signedIn, filtered, dialog, save, version>>

\* Faulty variant of Leave: the dialog's state outlives the page.
LeaveOpen ==
    /\ page # None
    /\ page' = None /\ filtered' = FALSE /\ gate' = FALSE
    /\ UNCHANGED <<site, signedIn, tour, list, dialog, save, version>>
\* A link or the back button: the page's state goes, its saves go on.
Leave ==
    /\ page # None
    /\ page' = None /\ filtered' = FALSE /\ gate' = FALSE
    /\ dialog' = None
    /\ save' = [s \in Saves |-> IF save[s] = None THEN None ELSE [save[s] EXCEPT !.attached = FALSE]]
    /\ UNCHANGED <<site, signedIn, tour, list, version>>

\* PluginGate: the plugins arrive, or arrive again without the page's plugin.
\* The page under the gate keeps its state, the dialogs above it start anew.
GateOpens ==
    /\ page \in WebPages /\ ~gate /\ gate' = TRUE
    /\ UNCHANGED <<site, signedIn, page, filtered, tour, list, dialog, save, version>>
GateShuts ==
    /\ page \in WebPages /\ gate /\ gate' = FALSE
    /\ dialog' = IF dialog = None THEN None
                 ELSE [dialog EXCEPT !.save = None, !.step = 1, !.filled = dialog.kind \in OfRow \ {"createTrigger"}]
    /\ save' = [s \in Saves |-> IF save[s] = None \/ ~save[s].attached THEN save[s] ELSE [save[s] EXCEPT !.hidden = TRUE]]
    /\ UNCHANGED <<site, signedIn, page, filtered, tour, list, version>>

\* Another filter, or the first one again: another key.
Filter ==
    /\ page = "contacts" /\ gate /\ dialog = None /\ Goes("filter")
    /\ filtered' = ~filtered
    /\ Mount(IF filtered THEN {"customers"} ELSE {"found"})
    /\ UNCHANGED <<site, signedIn, page, gate, dialog, save, version>>

-----------------------------------------------------------------------------
(* Dialogs *)

Idle == dialog = None /\ gate
\* Rows are shown unless the list failed; the pages of one tenant show what they have.
Shown(k) == \E l \in Reads(page) :
               /\ RowsOf(l) = Dialogs[k].rows /\ list[l].ver # None
               /\ list[l].failed => l \in {"tenant", "plugins"}
Offered(k) == Dialogs[k].on = page /\ (page = "tenant" => list["tenant"].ver # None)

\* The component of the dialog waits for a save it sent before.
Waits(k) == Dialogs[k].mounted /\ \E s \in Saves : save[s] # None /\ save[s].kind = k /\ save[s].attached /\ ~save[s].hidden

Open(k, fromRow) ==
    /\ Idle /\ Offered(k)
    /\ IF fromRow THEN k \in OfRow \ Switches /\ Shown(k) ELSE k \in OfPage
    /\ dialog' = [kind |-> k, save |-> None, filled |-> fromRow, step |-> 1]
    /\ Mount(IF k = "createCase" THEN {"picker"} ELSE {})
    /\ UNCHANGED <<place, save, version>>

\* What the form's validation asks for is typed in.
Type ==
    /\ dialog # None /\ gate /\ dialog.step = 1 /\ ~dialog.filled /\ dialog.kind \notin {"deleteContact", "deleteTrigger", "deleteUser"}
    /\ dialog.kind = "createCase" => list["picker"].ver # None
    /\ dialog' = [dialog EXCEPT !.filled = TRUE]
    /\ UNCHANGED <<place, list, save, version>>

\* The three steps of the trigger's form: its name, conditions and actions.
Turn(step) ==
    /\ dialog # None /\ gate /\ dialog.kind = "createTrigger"
    /\ step \in {dialog.step - 1, dialog.step + 1} /\ step \in 1..3 /\ (dialog.step = 1 => dialog.filled)
    /\ dialog' = [dialog EXCEPT !.step = step]
    /\ UNCHANGED <<place, list, save, version>>

Close ==
    /\ dialog # None /\ gate
    /\ dialog.save # None => ~Dialogs[dialog.kind].guarded
    /\ dialog' = None
    /\ UNCHANGED <<place, list, save, version>>

Send(s, k) == save[s] = None /\ save' = [save EXCEPT ![s] = [kind |-> k, pc |-> "sent", made |-> 0, attached |-> TRUE, hidden |-> FALSE]]

\* Only a form that passes its validation is sent.
Submit(s) ==
    /\ dialog # None /\ gate /\ dialog.save = None /\ ~Waits(dialog.kind)
    /\ dialog.filled /\ (dialog.kind = "createTrigger" => dialog.step = 3)
    /\ Send(s, dialog.kind)
    /\ dialog' = [dialog EXCEPT !.save = s]
    /\ UNCHANGED <<place, list, version>>

\* A switch in a row sends the opposite of what the row shows.
Toggle(s, k) ==
    /\ Idle /\ k \in Switches /\ Offered(k) /\ Shown(k) /\ ~Waits(k)
    /\ Send(s, k)
    /\ UNCHANGED <<place, list, dialog, version>>

-----------------------------------------------------------------------------
(* The server, the answers *)

Bound == \A r \in Rows : version[r] < tour.of.changes

Store(s) ==
    LET r == Dialogs[save[s].kind].rows
    IN  /\ save[s] # None /\ save[s].pc = "sent" /\ Bound
        /\ version' = [version EXCEPT ![r] = @ + 1]
        /\ save' = [save EXCEPT ![s].pc = "done", ![s].made = version[r] + 1]
        /\ UNCHANGED <<place, list, dialog>>

\* Refused, or the answer is lost: a save that was stored may be reported as failed.
Lose(s) ==
    /\ save[s] # None /\ save[s].pc \in {"sent", "done"}
    /\ save' = [save EXCEPT ![s].pc = "failed"]
    /\ UNCHANGED <<place, list, dialog, version>>

\* Another user or the server; only rows of which something has been fetched,
\* as nobody could tell otherwise.
OthersChange(r) ==
    /\ Bound /\ \E l \in Lists : RowsOf(l) = r /\ list[l] # NoList
    /\ version' = [version EXCEPT ![r] = @ + 1]
    /\ UNCHANGED <<place, list, dialog, save>>

\* The answer closes whatever dialog of its kind the page has open.
Closed(s) == IF save[s].attached /\ dialog # None /\ dialog.kind = save[s].kind THEN None ELSE dialog

\* The dialog that goes had sent another save.
Hides(s, u) == /\ save[s].hidden /\ dialog # None /\ Closed(s) = None
               /\ dialog.save = u /\ ~Dialogs[dialog.kind].mounted

Answer(s) ==
    /\ save[s] # None /\ save[s].pc = "done"
    /\ Refresh(s)
    /\ dialog' = Closed(s)
    /\ save' = [u \in Saves |-> IF u = s THEN None
                              ELSE IF Hides(s, u) THEN [save[u] EXCEPT !.hidden = TRUE] ELSE save[u]]
    /\ UNCHANGED <<place, version>>

\* The dialog stays, with an error; the confirmation in the list of triggers
\* goes, and the plugins are read again.
AnswerFails(s) ==
    /\ save[s] # None /\ save[s].pc = "failed"
    /\ IF save[s].kind = "togglePlugin" THEN Refresh(s) ELSE UNCHANGED list
    /\ dialog' = IF save[s].kind = "deleteTrigger" THEN Closed(s)
                 ELSE IF dialog # None /\ dialog.save = s THEN [dialog EXCEPT !.save = None] ELSE dialog
    /\ save' = [save EXCEPT ![s] = None]
    /\ UNCHANGED <<place, version>>

-----------------------------------------------------------------------------
QueryNext(l) == Focus(l) \/ ServerReads(l) \/ Land(l) \/ FetchFails(l)
PageNext ==
    \/ SignIn \/ SignOut \/ Leave \/ GateOpens \/ GateShuts \/ Filter \/ Type \/ Close
    \/ \E p \in WebPages \cup AdminPages : Enter(p)
    \/ \E k \in Kinds, fromRow \in BOOLEAN : Open(k, fromRow)
    \/ \E step \in 1..3 : Turn(step)
SaveNext(s) == Submit(s) \/ Store(s) \/ Lose(s) \/ Answer(s) \/ AnswerFails(s) \/ \E k \in Switches : Toggle(s, k)

Next ==
    \/ PageNext
    \/ \E l \in Lists : QueryNext(l)
    \/ \E s \in Saves : SaveNext(s)
    \/ \E r \in Rows : OthersChange(r)

Spec == Init /\ [][Next]_vars

-----------------------------------------------------------------------------
(* Properties *)

\* A list that is neither marked, nor failed, nor being read shows every save
\* of this tab whose answer had it read again, unless an answer read earlier
\* was let through: that of the list's first fetch, which is not dropped, or
\* one on its way when nobody observed the list any more.
OwnSavesAreListed ==
    \A l \in Lists : LET q == list[l] IN
        q.ver # None /\ q.fetch = "idle" /\ ~q.invalid /\ ~q.failed => q.ver >= q.own \/ q.raced

\* Dialogs that cannot be closed while their save is on its way.
Guarded == {"deleteContact", "addTenant", "editTenant", "addUser", "editUser", "deleteUser"}

\* A guarded dialog is taken away, with what was typed into it, by no answer but
\* that of its own save, unless the gate hid it while the save was on its way:
\* then it comes back as new, the old answer closes it or the next one, and the
\* answer of what that one had sent closes the one after it.
AnswersCloseTheirDialog ==
    [][\A s \in Saves :
          save[s] # None /\ save'[s] = None /\ dialog # None /\ dialog' = None /\ dialog.kind \in Guarded
              => dialog.save = s \/ save[s].hidden]_<<dialog, save>>
=============================================================================
