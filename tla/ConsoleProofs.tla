---------------------------- MODULE ConsoleProofs ----------------------------
(***************************************************************************)
(* What TLAPS proves of Console, for any number of saves on their way, any *)
(* tours and any number of changes of the server's rows.                   *)
(***************************************************************************)
EXTENDS Console, TLAPS

-----------------------------------------------------------------------------
(* Tables *)

LEMMA ListTable == \A l \in Lists : RowsOf(l) \in Rows
  BY DEF Lists, CustomerKeys, TenantKeys, Rows, RowsOf

LEMMA DialogTable ==
  ASSUME NEW k \in Kinds
  PROVE  /\ Dialogs[k].rows \in Rows /\ Dialogs[k].lists \subseteq Lists
         /\ Dialogs[k].on \in WebPages \cup AdminPages
         /\ k \in Guarded => /\ Dialogs[k].guarded /\ k \notin Switches /\ k # "deleteTrigger"
                             /\ Dialogs[k].on \in WebPages => ~Dialogs[k].mounted
  <1>1. Kinds = {"addContact", "editContact", "deleteContact", "createCase", "editCase", "addCampaign", "editCampaign",
                 "createTrigger", "deleteTrigger", "toggleTrigger", "addTenant", "editTenant", "addUser", "editUser",
                 "deleteUser", "toggleUser", "togglePlugin"}
    BY DEF Kinds, Dialogs
  <1> USE DEF Dialogs, Dialog
  <1>2. Dialogs[k].rows \in Rows
    BY <1>1 DEF Rows, AddContact, EditContact, DeleteContact, CreateCase, EditCase, AddCampaign, EditCampaign,
           CreateTrigger, DeleteTrigger, ToggleTrigger, AddTenant, EditTenant, AddUser, EditUser, DeleteUser, ToggleUser,
           TogglePlugin
  <1>3. Dialogs[k].lists \subseteq Lists
    BY <1>1 DEF Lists, CustomerKeys, TenantKeys, AddContact, EditContact, DeleteContact, CreateCase, EditCase, AddCampaign, EditCampaign,
           CreateTrigger, DeleteTrigger, ToggleTrigger, AddTenant, EditTenant, AddUser, EditUser, DeleteUser, ToggleUser,
           TogglePlugin
  <1>4. Dialogs[k].on \in WebPages \cup AdminPages
    BY <1>1 DEF WebPages, AdminPages, AddContact, EditContact, DeleteContact, CreateCase, EditCase, AddCampaign, EditCampaign,
           CreateTrigger, DeleteTrigger, ToggleTrigger, AddTenant, EditTenant, AddUser, EditUser, DeleteUser, ToggleUser,
           TogglePlugin
  <1>5. ASSUME k \in Guarded
        PROVE  /\ Dialogs[k].guarded /\ k \notin Switches /\ k # "deleteTrigger"
               /\ Dialogs[k].on \in WebPages => ~Dialogs[k].mounted
    BY <1>5 DEF Guarded, Switches, WebPages, DeleteContact, AddTenant, EditTenant, AddUser, EditUser, DeleteUser
  <1>6. QED
    BY <1>2, <1>3, <1>4, <1>5

LEMMA WebOrAdmin == WebPages \cap AdminPages = {}
  BY DEF WebPages, AdminPages

-----------------------------------------------------------------------------
(* Queries: q lists rows that are at version v. *)

\* What an answer that has been read tells is not older than the saves that
\* were to be listed, or the query was raced; and so for what is listed.
QueryOk(q, v) ==
  /\ q \in List
  /\ q.own <= v /\ (q.ver # None => q.ver <= v)
  /\ q.fetch = "read" => q.got # None /\ q.got <= v /\ (q.got >= q.own \/ q.raced)
  /\ q.ver # None /\ q.fetch = "idle" /\ ~q.invalid /\ ~q.failed => q.ver >= q.own \/ q.raced

LEMMA NoneIsNoVersion == None \notin Nat
  BY NoneIsNothing DEF Version

LEMMA NoListOk == \A v \in Nat : QueryOk(NoList, v)
  BY DEF QueryOk, NoList, List, Version

LEMMA OkLater ==
  ASSUME NEW v \in Nat, NEW w \in Nat, v <= w, NEW q, QueryOk(q, v)
  PROVE  QueryOk(q, w)
  BY NoneIsNoVersion DEF QueryOk, List, Version

LEMMA SentOk ==
  ASSUME NEW v \in Nat, NEW q, QueryOk(q, v)
  PROVE  QueryOk(Sent(q), v)
  <1>1. PICK s : s = [q EXCEPT !.fetch = "sent", !.got = None]
    OBVIOUS
  <1>2. s \in List /\ s.own = q.own /\ s.ver = q.ver /\ s.fetch = "sent"
    BY <1>1 DEF QueryOk, List
  <1>3. QED
    BY <1>1, <1>2 DEF QueryOk, Sent

LEMMA MountedOk ==
  ASSUME NEW v \in Nat, NEW q, QueryOk(q, v), NEW stale \in BOOLEAN
  PROVE  QueryOk(Mounted(q, stale), v)
  BY SentOk DEF Mounted

\* Reading again and marking allow for any save that is in the rows.
LEMMA RefetchedOk ==
  ASSUME NEW v \in Nat, NEW q, QueryOk(q, v), NEW n \in 0 .. v
  PROVE  LET r == Refetched(q) IN r.own = q.own /\ r \in List /\ QueryOk([r EXCEPT !.own = n], v)
  <1> DEFINE r == Refetched(q)
  <1>1. q \in List
    BY DEF QueryOk
  <1>2. CASE q.fetch = "idle"
    <2>1. r = Sent(q) /\ QueryOk(r, v)
      BY <1>2, SentOk DEF Refetched
    <2>2. r.own = q.own /\ r.fetch = "sent"
      BY <1>1, <2>1 DEF Sent, List
    <2>3. QED
      BY <2>1, <2>2 DEF QueryOk, List, Version
  <1>3. CASE q.fetch # "idle" /\ q.ver # None
    <2>1. PICK s : s = Sent(q)
      OBVIOUS
    <2>2. QueryOk(s, v) /\ s.own = q.own /\ s.fetch = "sent"
      BY <1>1, <2>1, SentOk DEF Sent, List
    <2>3. r = [s EXCEPT !.raced = FALSE]
      BY <1>3, <2>1 DEF Refetched
    <2>4. r \in List /\ r.own = q.own /\ r.ver = s.ver /\ r.fetch = "sent"
      BY <2>2, <2>3 DEF QueryOk, List
    <2>5. QED
      BY <2>2, <2>4 DEF QueryOk, List, Version
  <1>4. CASE q.fetch # "idle" /\ q.ver = None
    <2>1. r = [q EXCEPT !.raced = q.fetch = "read"]
      BY <1>4 DEF Refetched
    <2>2. r \in List /\ r.own = q.own /\ r.ver = None /\ r.fetch = q.fetch /\ r.got = q.got /\ (r.fetch = "read" => r.raced)
      BY <1>1, <1>4, <2>1 DEF List
    <2>3. QED
      BY <1>4, <2>2 DEF QueryOk, List, Version
  <1>5. QED
    BY <1>2, <1>3, <1>4

LEMMA InvalidatedOk ==
  ASSUME NEW v \in Nat, NEW q, QueryOk(q, v), NEW n \in 0 .. v, NEW active \in BOOLEAN
  PROVE  LET r == Invalidated(q, active) IN r.own = q.own /\ r \in List /\ QueryOk([r EXCEPT !.own = n], v)
  <1> DEFINE r == Invalidated(q, active)
  <1>1. q \in List
    BY DEF QueryOk
  <1>2. CASE active
    <2>1. PICK s : s = Refetched(q)
      OBVIOUS
    <2>2. s \in List /\ s.own = q.own /\ QueryOk([s EXCEPT !.own = n], v)
      BY <2>1, RefetchedOk
    <2>3. r = [s EXCEPT !.invalid = q.ver # None]
      BY <1>2, <2>1 DEF Invalidated
    <2>4. s.fetch # "idle"
      BY <1>1, <2>1 DEF Refetched, Sent, List
    <2>5. /\ r \in List /\ r.own = q.own /\ r.ver = s.ver /\ r.fetch = s.fetch /\ r.got = s.got /\ (r.raced <=> s.raced)
      BY <2>2, <2>3 DEF List
    <2>6. QED
      BY <2>2, <2>4, <2>5 DEF QueryOk, List, Version
  <1>3. CASE ~active
    <2>1. PICK s : s = [q EXCEPT !.invalid = q.ver # None, !.raced = @ \/ q.fetch = "read"]
      OBVIOUS
    <2>2. r = s
      BY <1>3, <2>1 DEF Invalidated
    <2>3. /\ s \in List /\ s.own = q.own /\ s.ver = q.ver /\ s.fetch = q.fetch /\ s.got = q.got
          /\ (s.fetch = "read" => s.raced) /\ (s.ver # None => s.invalid)
      BY <1>1, <2>1 DEF List
    <2>4. QED
      BY <2>2, <2>3 DEF QueryOk, List, Version
  <1>4. QED
    BY <1>2, <1>3

QueriesInv == /\ list \in [Lists -> List]
              /\ version \in [Rows -> Nat]
              /\ \A l \in Lists : QueryOk(list[l], version[RowsOf(l)])

LEMMA OneQuery ==
  ASSUME QueriesInv, NEW l \in Lists, NEW q, QueryOk(q, version[RowsOf(l)]), list' = [list EXCEPT ![l] = q], version' = version
  PROVE  QueriesInv'
  BY ListTable DEF QueriesInv, QueryOk

LEMMA QueryStep ==
  ASSUME QueriesInv, NEW l \in Lists, QueryNext(l)
  PROVE  QueriesInv'
  <1> DEFINE q == list[l]
             v == version[RowsOf(l)]
  <1>1. q \in List /\ QueryOk(q, v) /\ v \in Nat
    BY ListTable DEF QueriesInv
  <1>2. CASE Focus(l)
    BY <1>1, <1>2, SentOk, OneQuery DEF Focus
  <1>3. CASE ServerReads(l)
    <2>1. PICK s : s = [q EXCEPT !.fetch = "read", !.got = v]
      OBVIOUS
    <2>2. /\ s \in List /\ s.fetch = "read" /\ s.got = v /\ s.own = q.own /\ s.ver = q.ver
      BY <1>1, <2>1 DEF List, Version
    <2>3. QueryOk(s, v)
      BY <1>1, <2>2, NoneIsNoVersion DEF QueryOk, List, Version
    <2>4. list' = [list EXCEPT ![l] = s] /\ version' = version
      BY <1>3, <2>1 DEF ServerReads, QueriesInv
    <2>5. QED
      BY <2>3, <2>4, OneQuery
  <1>4. CASE Land(l)
    <2>1. PICK s : s = [q EXCEPT !.ver = q.got, !.invalid = FALSE, !.failed = FALSE, !.fetch = "idle",
                                 !.got = None, !.raced = q.raced /\ q.got < q.own]
      OBVIOUS
    <2>2. q.fetch = "read" /\ list' = [list EXCEPT ![l] = s] /\ version' = version
      BY <1>4, <2>1 DEF Land, Landed
    <2>3. /\ s \in List /\ s.fetch = "idle" /\ s.ver = q.got /\ s.own = q.own
          /\ s.raced <=> q.raced /\ q.got < q.own
      BY <1>1, <2>1 DEF List
    <2>4. QueryOk(s, v)
      BY <1>1, <2>2, <2>3, NoneIsNoVersion DEF QueryOk, List, Version
    <2>5. QED
      BY <2>2, <2>4, OneQuery
  <1>5. CASE FetchFails(l)
    <2>1. PICK s : s = [q EXCEPT !.fetch = "idle", !.got = None, !.failed = TRUE]
      OBVIOUS
    <2>2. /\ s \in List /\ s.fetch = "idle" /\ s.failed /\ s.ver = q.ver /\ s.own = q.own
      BY <1>1, <2>1 DEF List
    <2>3. QueryOk(s, v)
      BY <1>1, <2>2 DEF QueryOk
    <2>4. QED
      BY <1>5, <2>1, <2>3, OneQuery DEF FetchFails
  <1>6. QED
    BY <1>2, <1>3, <1>4, <1>5 DEF QueryNext

LEMMA MountStep ==
  ASSUME QueriesInv, NEW ls, Mount(ls), version' = version
  PROVE  QueriesInv'
  <1>1. PICK stale \in BOOLEAN : list' = [l \in Lists |-> IF l \in ls THEN Mounted(list[l], stale) ELSE list[l]]
    BY DEF Mount
  <1>2. \A l \in Lists : QueryOk(list'[l], version[RowsOf(l)])
    BY <1>1, MountedOk, ListTable DEF QueriesInv
  <1>3. QED
    BY <1>1, <1>2 DEF QueriesInv, QueryOk

LEMMA GrowStep ==
  ASSUME QueriesInv, list' = list, NEW r \in Rows, version' = [version EXCEPT ![r] = @ + 1]
  PROVE  QueriesInv'
  <1>1. version' \in [Rows -> Nat] /\ \A x \in Rows : version[x] \in Nat /\ version'[x] \in Nat /\ version[x] <= version'[x]
    BY DEF QueriesInv
  <1>2. \A l \in Lists : QueryOk(list[l], version'[RowsOf(l)])
    BY <1>1, OkLater, ListTable DEF QueriesInv
  <1>3. QED
    BY <1>1, <1>2 DEF QueriesInv

\* A save on its way tells of a version that the server has had.
MadeOk(s) == save[s] # None => /\ save[s] \in Save
                               /\ save[s].pc = "done" => save[s].made <= version[Dialogs[save[s].kind].rows]

LEMMA RefreshStep ==
  ASSUME QueriesInv, NEW s \in Saves, save[s] # None, MadeOk(s), Refresh(s), version' = version
  PROVE  QueriesInv'
  <1> DEFINE d == Dialogs[save[s].kind]
             New(l) == IF d.on = "automation" THEN Refetched(list[l]) ELSE Invalidated(list[l], Observed(l))
             Owned(l) == IF save[s].pc = "done" /\ save[s].made > New(l).own /\ RowsOf(l) = d.rows
                           THEN [New(l) EXCEPT !.own = save[s].made] ELSE New(l)
  <1>1. list' = [l \in Lists |-> IF l \notin d.lists THEN list[l] ELSE Owned(l)]
    BY DEF Refresh
  <1>2. ASSUME NEW l \in Lists PROVE QueryOk(Owned(l), version[RowsOf(l)])
    <2> DEFINE v == version[RowsOf(l)]
    <2>1. v \in Nat /\ QueryOk(list[l], v) /\ list[l].own \in 0 .. v
      BY ListTable DEF QueriesInv, QueryOk, List, Version
    <2>2. ASSUME NEW n \in 0 .. v
          PROVE  New(l).own = list[l].own /\ New(l) \in List /\ QueryOk([New(l) EXCEPT !.own = n], v)
      <3>1. CASE d.on = "automation"
        <4>1. New(l) = Refetched(list[l])
          BY <3>1
        <4>2. QED
          BY <2>1, <4>1, RefetchedOk
      <3>2. CASE d.on # "automation"
        <4>1. New(l) = Invalidated(list[l], Observed(l)) /\ Observed(l) \in BOOLEAN
          BY <3>2 DEF Observed
        <4>2. QED
          BY <2>1, <4>1, InvalidatedOk
      <3>3. QED
        BY <3>1, <3>2
    <2>3. CASE save[s].pc = "done" /\ save[s].made > New(l).own /\ RowsOf(l) = d.rows
      BY <2>1, <2>2, <2>3 DEF MadeOk, Save, Version
    <2>4. CASE ~(save[s].pc = "done" /\ save[s].made > New(l).own /\ RowsOf(l) = d.rows)
      <3>1. [New(l) EXCEPT !.own = list[l].own] = New(l)
        BY <2>1, <2>2 DEF List
      <3>2. Owned(l) = New(l)
        BY <2>4
      <3>3. QED
        BY <2>1, <2>2, <3>1, <3>2
    <2>5. QED
      BY <2>3, <2>4
  <1>3. \A l \in Lists : QueryOk(list'[l], version[RowsOf(l)])
    BY <1>1, <1>2 DEF QueriesInv
  <1>4. QED
    BY <1>1, <1>3 DEF QueriesInv, QueryOk

-----------------------------------------------------------------------------
(* Places, dialogs and saves. *)

PlacesInv == /\ site \in {"web", "admin"} /\ signedIn \in BOOLEAN /\ filtered \in BOOLEAN /\ gate \in BOOLEAN
             /\ page \in {None} \cup (IF site = "web" THEN WebPages ELSE AdminPages)
             /\ tour \in [of : Tours, at : Nat]
             /\ page # None => signedIn

LEMMA PlacesStep ==
  ASSUME PlacesInv, [Next]_vars
  PROVE  PlacesInv'
  <1> USE DEF PlacesInv, place
  <1>1. ASSUME NEW p, Goes(p) PROVE tour' \in [of : Tours, at : Nat]
    BY <1>1 DEF Goes
  <1>2. CASE PageNext
    <2>1. ASSUME NEW p \in WebPages \cup AdminPages, Enter(p) PROVE PlacesInv'
      BY <1>1, <2>1 DEF Enter
    <2>2. CASE Filter
      BY <1>1, <2>2 DEF Filter
    <2>3. CASE SignIn \/ SignOut
      BY <2>3 DEF SignIn, SignOut
    <2>4. CASE Leave \/ GateOpens \/ GateShuts
      BY <2>4 DEF Leave, GateOpens, GateShuts
    <2>5. CASE Type \/ Close
      BY <2>5 DEF Type, Close
    <2>6. ASSUME NEW k \in Kinds, NEW fromRow \in BOOLEAN, Open(k, fromRow) PROVE PlacesInv'
      BY <2>6 DEF Open
    <2>7. ASSUME NEW step \in 1 .. 3, Turn(step) PROVE PlacesInv'
      BY <2>7 DEF Turn
    <2>8. QED
      BY <1>2, <2>1, <2>2, <2>3, <2>4, <2>5, <2>6, <2>7 DEF PageNext
  <1>3. ASSUME NEW l \in Lists, QueryNext(l) PROVE PlacesInv'
    BY <1>3 DEF QueryNext, Focus, ServerReads, Land, FetchFails
  <1>4. ASSUME NEW s \in Saves, SaveNext(s) PROVE PlacesInv'
    BY <1>4 DEF SaveNext, Submit, Store, Lose, Answer, AnswerFails, Toggle
  <1>5. ASSUME NEW r \in Rows, OthersChange(r) PROVE PlacesInv'
    BY <1>5 DEF OthersChange
  <1>6. CASE UNCHANGED vars
    BY <1>6 DEF vars
  <1>7. QED
    BY <1>2, <1>3, <1>4, <1>5, <1>6 DEF Next

DialogOk == dialog # None =>
  /\ dialog \in OpenDialog
  /\ Dialogs[dialog.kind].on = page
  /\ dialog.save # None => /\ save[dialog.save] # None /\ save[dialog.save].kind = dialog.kind
                           /\ save[dialog.save].attached

AttachedOk(s) == save[s] # None /\ save[s].attached => /\ Dialogs[save[s].kind].on = page
                                                       /\ save[s].hidden => page \in WebPages

\* A guarded save that was not hidden still has its dialog.
Dialogued(s) == save[s] # None /\ save[s].attached /\ ~save[s].hidden /\ save[s].kind \in Guarded
                  => dialog # None /\ dialog.save = s

FormsInv == /\ save \in [Saves -> Save \cup {None}]
            /\ \A s \in Saves : MadeOk(s) /\ AttachedOk(s) /\ Dialogued(s)
            /\ DialogOk

LEMMA PagesAreSomething == None \notin WebPages \cup AdminPages /\ None \notin Save /\ None \notin OpenDialog /\ None \notin Saves
  BY NoneIsNothing

\* Nothing is open and nothing attached when no page is there.
LEMMA NoPage ==
  ASSUME FormsInv, page = None
  PROVE  dialog = None /\ \A s \in Saves : save[s] # None => ~save[s].attached
  BY DialogTable, PagesAreSomething DEF FormsInv, MadeOk, AttachedOk, DialogOk, OpenDialog, Save

\* The rows grow, and nothing else happens.
LEMMA FormsGrow ==
  ASSUME FormsInv, UNCHANGED <<page, dialog, save>>, \A r \in Rows : version[r] \in Nat /\ version'[r] \in Nat /\ version[r] <= version'[r]
  PROVE  FormsInv'
  BY DialogTable DEF FormsInv, MadeOk, AttachedOk, Dialogued, DialogOk, Save, Version

\* The dialog stays, with the save that it sent.
LEMMA FormsFilled ==
  ASSUME FormsInv, dialog # None, NEW d \in OpenDialog, dialog' = d, d.kind = dialog.kind, d.save = dialog.save,
         UNCHANGED <<page, save, version>>
  PROVE  FormsInv'
  BY PagesAreSomething DEF FormsInv, MadeOk, AttachedOk, Dialogued, DialogOk

\* What is left of a dialog that starts anew, and of a save that is hidden.
LEMMA NewDialog ==
  ASSUME NEW d \in OpenDialog, NEW full \in BOOLEAN,
         NEW n, n = [d EXCEPT !.save = None, !.step = 1, !.filled = full]
  PROVE  n \in OpenDialog /\ n.kind = d.kind /\ n.save = None
  <1>1. n = [kind |-> d.kind, save |-> None, filled |-> full, step |-> 1]
    BY DEF OpenDialog
  <1>2. QED
    BY <1>1 DEF OpenDialog

LEMMA HiddenSave ==
  ASSUME NEW x \in Save
  PROVE  [x EXCEPT !.hidden = TRUE] \in Save
  BY DEF Save

LEMMA FormsPage ==
  ASSUME FormsInv, PageNext, version' = version
  PROVE  FormsInv'
  <1> USE DEF place
  <1>1. ASSUME NEW p \in WebPages \cup AdminPages, Enter(p) PROVE FormsInv'
    BY <1>1, NoPage DEF Enter, FormsInv, MadeOk, AttachedOk, Dialogued, DialogOk
  <1>2. CASE SignIn \/ SignOut \/ GateOpens \/ Filter
    BY <1>2 DEF SignIn, SignOut, GateOpens, Filter, FormsInv, MadeOk, AttachedOk, Dialogued, DialogOk
  <1>3. CASE Leave
    <2>1. ASSUME NEW s \in Saves, save[s] # None
          PROVE  /\ save'[s] \in Save /\ ~save'[s].attached
                 /\ save'[s].pc = save[s].pc /\ save'[s].made = save[s].made /\ save'[s].kind = save[s].kind
      BY <1>3, <2>1 DEF Leave, FormsInv, MadeOk, Save
    <2>2. dialog' = None /\ version' = version /\ \A s \in Saves : save[s] = None => save'[s] = None
      BY <1>3 DEF Leave
    <2>3. save' \in [Saves -> Save \cup {None}]
      BY <1>3, <2>1, <2>2 DEF Leave
    <2>4. \A s \in Saves : MadeOk(s)' /\ AttachedOk(s)' /\ Dialogued(s)'
      BY <2>1, <2>2 DEF FormsInv, MadeOk, AttachedOk, Dialogued
    <2>5. QED
      BY <2>2, <2>3, <2>4 DEF FormsInv, DialogOk
  <1>4. CASE GateShuts
    <2>1. ASSUME NEW s \in Saves, save[s] # None
          PROVE  /\ save'[s] \in Save /\ (save'[s].attached <=> save[s].attached) /\ (save'[s].attached => save'[s].hidden)
                 /\ save'[s].pc = save[s].pc /\ save'[s].made = save[s].made /\ save'[s].kind = save[s].kind
      BY <1>4, <2>1 DEF GateShuts, FormsInv, MadeOk, Save
    <2>2. page' = page /\ page \in WebPages /\ \A s \in Saves : save[s] = None => save'[s] = None
      BY <1>4 DEF GateShuts
    <2>3. save' \in [Saves -> Save \cup {None}]
      BY <1>4, <2>1, <2>2 DEF GateShuts
    <2>4. \A s \in Saves : MadeOk(s)' /\ AttachedOk(s)' /\ Dialogued(s)'
      BY <2>1, <2>2 DEF FormsInv, MadeOk, AttachedOk, Dialogued
    <2>5. CASE dialog = None
      BY <1>4, <2>3, <2>4, <2>5 DEF FormsInv, DialogOk, GateShuts
    <2>6. CASE dialog # None
      <3>1. ASSUME NEW d \in OpenDialog, d.kind = dialog.kind, d.save = None, dialog' = d
            PROVE  FormsInv'
        BY <2>2, <2>3, <2>4, <2>6, <3>1 DEF FormsInv, DialogOk
      <3>2. dialog' = [dialog EXCEPT !.save = None, !.step = 1, !.filled = dialog.kind \in OfRow \ {"createTrigger"}]
        BY <1>4, <2>6 DEF GateShuts
      <3>3. CASE dialog.kind \in OfRow \ {"createTrigger"}
        <4>1. PICK d : d = [dialog EXCEPT !.save = None, !.step = 1, !.filled = TRUE]
          OBVIOUS
        <4>2. d \in OpenDialog /\ d.kind = dialog.kind /\ d.save = None
          BY <2>6, <4>1, NewDialog DEF FormsInv, DialogOk
        <4>3. (dialog.kind \in OfRow \ {"createTrigger"}) = TRUE
          BY <3>3
        <4>4. dialog' = d
          BY <3>2, <4>1, <4>3
        <4>5. QED
          BY <3>1, <4>2, <4>4
      <3>4. CASE dialog.kind \notin OfRow \ {"createTrigger"}
        <4>1. PICK d : d = [dialog EXCEPT !.save = None, !.step = 1, !.filled = FALSE]
          OBVIOUS
        <4>2. d \in OpenDialog /\ d.kind = dialog.kind /\ d.save = None
          BY <2>6, <4>1, NewDialog DEF FormsInv, DialogOk
        <4>3. (dialog.kind \in OfRow \ {"createTrigger"}) = FALSE
          BY <3>4
        <4>4. dialog' = d
          BY <3>2, <4>1, <4>3
        <4>5. QED
          BY <3>1, <4>2, <4>4
      <3>5. QED
        BY <3>3, <3>4
    <2>7. QED
      BY <2>5, <2>6
  <1>5. CASE Type
    <2>1. PICK d : d = [dialog EXCEPT !.filled = TRUE]
      OBVIOUS
    <2>2. dialog # None /\ d \in OpenDialog /\ d.kind = dialog.kind /\ d.save = dialog.save
      BY <1>5, <2>1 DEF Type, FormsInv, DialogOk, OpenDialog
    <2>3. QED
      BY <1>5, <2>1, <2>2, FormsFilled DEF Type
  <1>6. ASSUME NEW step \in 1 .. 3, Turn(step) PROVE FormsInv'
    <2>1. PICK d : d = [dialog EXCEPT !.step = step]
      OBVIOUS
    <2>2. dialog # None /\ d \in OpenDialog /\ d.kind = dialog.kind /\ d.save = dialog.save
      BY <1>6, <2>1 DEF Turn, FormsInv, DialogOk, OpenDialog
    <2>3. QED
      BY <1>6, <2>1, <2>2, FormsFilled DEF Turn
  <1>7. CASE Close
    <2>1. \A s \in Saves : save[s] # None /\ save[s].kind \in Guarded /\ dialog.save = s => FALSE
      BY <1>7, DialogTable, PagesAreSomething DEF Close, FormsInv, DialogOk, OpenDialog
    <2>2. QED
      BY <1>7, <2>1 DEF Close, FormsInv, MadeOk, AttachedOk, Dialogued, DialogOk
  <1>8. ASSUME NEW k \in Kinds, NEW fromRow \in BOOLEAN, Open(k, fromRow) PROVE FormsInv'
    <2>1. PICK d : d = [kind |-> k, save |-> None, filled |-> fromRow, step |-> 1]
      OBVIOUS
    <2>2. d \in OpenDialog /\ d.kind = k /\ d.save = None
      BY <2>1 DEF OpenDialog
    <2>3. dialog = None /\ dialog' = d /\ UNCHANGED <<page, save>> /\ Dialogs[k].on = page
      BY <1>8, <2>1 DEF Open, Idle, Offered
    <2>4. QED
      BY <2>2, <2>3 DEF FormsInv, MadeOk, AttachedOk, Dialogued, DialogOk
  <1>9. QED
    BY <1>1, <1>2, <1>3, <1>4, <1>5, <1>6, <1>7, <1>8 DEF PageNext

\* One save changes and the dialogs stay.
LEMMA FormsSave ==
  ASSUME FormsInv, NEW s \in Saves, save[s] # None, NEW n \in Save, save' = [save EXCEPT ![s] = n],
         n.kind = save[s].kind, n.attached = save[s].attached, n.hidden = save[s].hidden,
         n.pc = "done" => n.made <= version'[Dialogs[n.kind].rows],
         UNCHANGED <<page, dialog>>,
         \A r \in Rows : version[r] \in Nat /\ version'[r] \in Nat /\ version[r] <= version'[r]
  PROVE  FormsInv'
  <1>1. ASSUME NEW u \in Saves, u # s, save[u] # None
        PROVE  save'[u] = save[u] /\ MadeOk(u)'
    <2>1. save'[u] = save[u] /\ save[u] \in Save /\ Dialogs[save[u].kind].rows \in Rows
      BY <1>1, DialogTable DEF FormsInv, MadeOk, Save
    <2>2. QED
      BY <1>1, <2>1 DEF FormsInv, MadeOk, Save, Version
  <1>2. save'[s] = n /\ \A u \in Saves : save'[u] # None <=> save[u] # None
    BY PagesAreSomething DEF FormsInv
  <1>3. \A u \in Saves : MadeOk(u)' /\ AttachedOk(u)' /\ Dialogued(u)'
    BY <1>1, <1>2 DEF FormsInv, MadeOk, AttachedOk, Dialogued
  <1>4. DialogOk'
    BY <1>1, <1>2 DEF FormsInv, DialogOk, OpenDialog
  <1>5. QED
    BY <1>3, <1>4 DEF FormsInv

\* A save is sent; d is what is open then.
LEMMA FormsSend ==
  ASSUME FormsInv, NEW s \in Saves, NEW k \in Kinds, Send(s, k), Dialogs[k].on = page, UNCHANGED <<page, version>>,
         \/ dialog' = dialog /\ k \notin Guarded
         \/ dialog # None /\ dialog.save = None /\ dialog.kind = k /\ dialog' = [dialog EXCEPT !.save = s]
  PROVE  FormsInv'
  <1>1. PICK n : n = [kind |-> k, pc |-> "sent", made |-> 0, attached |-> TRUE, hidden |-> FALSE]
    OBVIOUS
  <1>2. n \in Save /\ n.kind = k /\ n.pc = "sent" /\ n.attached /\ ~n.hidden
    BY <1>1 DEF Save, Version
  <1>3. save[s] = None /\ save' = [save EXCEPT ![s] = n]
    BY <1>1 DEF Send
  <1>4. save'[s] = n /\ \A u \in Saves : u # s => save'[u] = save[u]
    BY <1>3 DEF FormsInv
  <1>5. \A u \in Saves : MadeOk(u)' /\ AttachedOk(u)'
    BY <1>2, <1>4 DEF FormsInv, MadeOk, AttachedOk
  <1>6. CASE dialog' = dialog /\ k \notin Guarded
    <2>1. \A u \in Saves : Dialogued(u)'
      BY <1>2, <1>4, <1>6 DEF FormsInv, Dialogued
    <2>2. DialogOk'
      BY <1>2, <1>3, <1>4, <1>6 DEF FormsInv, DialogOk, OpenDialog
    <2>3. QED
      BY <1>2, <1>3, <1>5, <2>1, <2>2 DEF FormsInv
  <1>7. CASE dialog # None /\ dialog.save = None /\ dialog.kind = k /\ dialog' = [dialog EXCEPT !.save = s]
    <2>1. PICK d : d = [dialog EXCEPT !.save = s]
      OBVIOUS
    <2>2. d \in OpenDialog /\ d.kind = k /\ d.save = s /\ dialog' = d
      BY <1>7, <2>1 DEF FormsInv, DialogOk, OpenDialog
    <2>3. \A u \in Saves : Dialogued(u)'
      BY <1>4, <1>7, <2>2, PagesAreSomething DEF FormsInv, Dialogued
    <2>4. DialogOk'
      BY <1>2, <1>4, <1>7, <2>2, PagesAreSomething DEF FormsInv, DialogOk, OpenDialog
    <2>5. QED
      BY <1>2, <1>3, <1>5, <2>3, <2>4 DEF FormsInv
  <1>8. QED
    BY <1>6, <1>7

\* A save is over, and others may have lost their dialog with it.
LEMMA FormsEnd ==
  ASSUME FormsInv, NEW s \in Saves, save[s] # None, UNCHANGED <<page, version>>,
         save' \in [Saves -> Save \cup {None}], save'[s] = None,
         \A u \in Saves : u # s => \/ save'[u] = save[u]
                                \/ /\ save[u] # None /\ save'[u] = [save[u] EXCEPT !.hidden = TRUE]
                                   /\ save[u].attached => page \in WebPages,
         \/ dialog' = None
         \/ dialog # None /\ dialog.save # s /\ dialog' = dialog
         \/ dialog # None /\ dialog.save = s /\ dialog' = [dialog EXCEPT !.save = None],
         \A u \in Saves \ {s} : Dialogued(u)'
  PROVE  FormsInv'
  <1>1. ASSUME NEW u \in Saves, save'[u] # None
        PROVE  /\ u # s /\ save[u] # None /\ save'[u] \in Save /\ (save'[u].attached <=> save[u].attached)
               /\ save'[u].hidden => save[u].hidden \/ (save[u].attached => page \in WebPages)
               /\ save'[u].pc = save[u].pc /\ save'[u].made = save[u].made /\ save'[u].kind = save[u].kind
    BY <1>1 DEF FormsInv, MadeOk, Save
  <1>2. \A u \in Saves : MadeOk(u)' /\ AttachedOk(u)'
    BY <1>1 DEF FormsInv, MadeOk, AttachedOk
  <1>3. Dialogued(s)'
    BY DEF Dialogued
  <1>4. DialogOk'
    <2>1. CASE dialog' = None
      BY <2>1 DEF DialogOk
    <2>2. CASE dialog # None /\ dialog.save # s /\ dialog' = dialog
      <3>1. ASSUME NEW u \in Saves, u = dialog.save, u # None
            PROVE  save'[u] # None /\ save'[u].kind = dialog.kind /\ save'[u].attached
        <4>1. save[u] # None /\ save[u].kind = dialog.kind /\ save[u].attached /\ u # s
          BY <2>2, <3>1 DEF FormsInv, DialogOk
        <4>2. save'[u] # None
          BY <4>1, PagesAreSomething, HiddenSave DEF FormsInv, MadeOk
        <4>3. QED
          BY <1>1, <4>1, <4>2
      <3>2. QED
        BY <2>2, <3>1 DEF FormsInv, DialogOk, OpenDialog
    <2>3. CASE dialog # None /\ dialog.save = s /\ dialog' = [dialog EXCEPT !.save = None]
      BY <2>3 DEF FormsInv, DialogOk, OpenDialog
    <2>4. QED
      BY <2>1, <2>2, <2>3
  <1>5. QED
    BY <1>2, <1>3, <1>4 DEF FormsInv

LEMMA FormsAnswer ==
  ASSUME FormsInv, NEW s \in Saves, Answer(s)
  PROVE  FormsInv'
  <1> USE DEF place
  <1>1. save[s] # None /\ save[s].pc = "done" /\ dialog' = Closed(s) /\ UNCHANGED <<page, version>>
    BY DEF Answer
  <1>2. save' = [u \in Saves |-> IF u = s THEN None
                                ELSE IF Hides(s, u) THEN [save[u] EXCEPT !.hidden = TRUE] ELSE save[u]]
    BY DEF Answer
  <1>3. ASSUME NEW u \in Saves, Hides(s, u)
        PROVE  /\ save[u] # None /\ page \in WebPages /\ dialog' = None
               /\ [save[u] EXCEPT !.hidden = TRUE] \in Save
    <2>1. save[s].hidden /\ dialog # None /\ Closed(s) = None /\ dialog.save = u
      BY <1>3 DEF Hides
    <2>2. save[s].attached /\ save[u] # None
      BY <2>1, PagesAreSomething DEF Closed, FormsInv, DialogOk
    <2>3. save[u] \in Save /\ page \in WebPages
      BY <1>1, <2>1, <2>2 DEF FormsInv, MadeOk, AttachedOk
    <2>4. QED
      BY <1>1, <2>1, <2>2, <2>3 DEF Save
  <1>4. save' \in [Saves -> Save \cup {None}]
    BY <1>2, <1>3 DEF FormsInv
  <1>5. ASSUME NEW u \in Saves \ {s} PROVE Dialogued(u)'
    <2>1. CASE Hides(s, u)
      <3>1. save'[u].hidden
        BY <1>2, <1>3, <2>1 DEF FormsInv, MadeOk, Save
      <3>2. QED
        BY <3>1 DEF Dialogued
    <2>2. CASE ~Hides(s, u)
      <3>1. save'[u] = save[u]
        BY <1>2, <2>2
      <3>2. SUFFICES ASSUME save[u] # None, save[u].attached, ~save[u].hidden, save[u].kind \in Guarded, dialog' # dialog
                     PROVE  FALSE
        BY <3>1 DEF Dialogued, FormsInv
      <3>3. dialog # None /\ dialog.save = u /\ dialog.kind = save[u].kind
        BY <3>2, PagesAreSomething DEF FormsInv, Dialogued, DialogOk
      <3>4. save[s].attached /\ dialog.kind = save[s].kind /\ Closed(s) = None
        BY <1>1, <3>2 DEF Closed
      <3>5. save[s].hidden
        BY <1>1, <3>2, <3>3, <3>4 DEF FormsInv, Dialogued
      <3>6. page \in WebPages /\ Dialogs[dialog.kind].on = page
        BY <1>1, <3>3, <3>4, <3>5 DEF FormsInv, AttachedOk, DialogOk
      <3>7. ~Dialogs[dialog.kind].mounted
        BY <3>2, <3>3, <3>6, DialogTable DEF FormsInv, DialogOk, OpenDialog
      <3>8. QED
        BY <2>2, <3>3, <3>4, <3>5, <3>7 DEF Hides
    <2>3. QED
      BY <2>1, <2>2
  <1>6. \A u \in Saves : u # s => \/ save'[u] = save[u]
                              \/ /\ save[u] # None /\ save'[u] = [save[u] EXCEPT !.hidden = TRUE]
                                 /\ save[u].attached => page \in WebPages
    BY <1>2, <1>3
  <1>7. dialog' = None \/ (dialog # None /\ dialog' = dialog /\ dialog.save # s)
    <2>1. dialog # None /\ dialog.save = s => Closed(s) = None
      BY PagesAreSomething DEF FormsInv, DialogOk, Closed
    <2>2. dialog' = None \/ dialog' = dialog
      BY <1>1 DEF Closed
    <2>3. QED
      BY <1>1, <2>1, <2>2
  <1>8. save'[s] = None
    BY <1>2
  <1>9. QED
    BY <1>1, <1>4, <1>5, <1>6, <1>7, <1>8, FormsEnd

LEMMA FormsFail ==
  ASSUME FormsInv, NEW s \in Saves, AnswerFails(s)
  PROVE  FormsInv'
  <1> USE DEF place
  <1>1. save[s] # None /\ save[s].pc = "failed" /\ UNCHANGED <<page, version>> /\ save' = [save EXCEPT ![s] = None]
    BY DEF AnswerFails
  <1>2. /\ save' \in [Saves -> Save \cup {None}] /\ save'[s] = None
        /\ \A u \in Saves : u # s => save'[u] = save[u]
    BY <1>1 DEF FormsInv
  <1>3. CASE save[s].kind = "deleteTrigger"
    <2>1. dialog' = Closed(s)
      BY <1>3 DEF AnswerFails
    <2>2. dialog' = None \/ (dialog # None /\ dialog' = dialog /\ dialog.save # s)
      <3>1. dialog # None /\ dialog.save = s => Closed(s) = None
        BY PagesAreSomething DEF FormsInv, DialogOk, Closed
      <3>2. dialog' = None \/ dialog' = dialog
        BY <2>1 DEF Closed
      <3>3. QED
        BY <2>1, <3>1, <3>2
    <2>3. ASSUME NEW u \in Saves \ {s} PROVE Dialogued(u)'
      <3>1. dialog # None /\ dialog.save = u /\ save[u] # None => save[u].kind = dialog.kind
        BY PagesAreSomething DEF FormsInv, DialogOk
      <3>2. "deleteTrigger" \notin Guarded
        BY DEF Guarded
      <3>3. QED
        BY <1>2, <1>3, <2>1, <3>1, <3>2 DEF FormsInv, Dialogued, Closed
    <2>4. QED
      BY <1>1, <1>2, <2>2, <2>3, FormsEnd
  <1>4. CASE save[s].kind # "deleteTrigger" /\ dialog # None /\ dialog.save = s
    <2>1. dialog' = [dialog EXCEPT !.save = None]
      BY <1>4 DEF AnswerFails
    <2>2. ASSUME NEW u \in Saves \ {s} PROVE Dialogued(u)'
      BY <1>2, <1>4 DEF FormsInv, Dialogued
    <2>3. QED
      BY <1>1, <1>2, <1>4, <2>1, <2>2, FormsEnd
  <1>5. CASE save[s].kind # "deleteTrigger" /\ ~(dialog # None /\ dialog.save = s)
    <2>1. dialog' = dialog
      BY <1>5 DEF AnswerFails
    <2>2. ASSUME NEW u \in Saves \ {s} PROVE Dialogued(u)'
      BY <1>2, <2>1 DEF FormsInv, Dialogued
    <2>3. QED
      BY <1>1, <1>2, <1>5, <2>1, <2>2, FormsEnd
  <1>6. QED
    BY <1>3, <1>4, <1>5

LEMMA FormsStep ==
  ASSUME FormsInv, QueriesInv, NEW s \in Saves, SaveNext(s)
  PROVE  FormsInv'
  <1> USE DEF place
  <1>1. CASE Submit(s)
    <2>1. Dialogs[dialog.kind].on = page /\ dialog.kind \in Kinds /\ dialog.save = None /\ dialog # None
      BY <1>1 DEF Submit, FormsInv, DialogOk, OpenDialog
    <2>2. QED
      BY <1>1, <2>1, FormsSend DEF Submit
  <1>2. ASSUME NEW k \in Switches, Toggle(s, k) PROVE FormsInv'
    <2>1. k \in Kinds /\ k \notin Guarded
      BY DEF Switches, Guarded, Kinds, Dialogs
    <2>2. QED
      BY <1>2, <2>1, FormsSend DEF Toggle, Offered
  <1>3. CASE Store(s)
    <2> DEFINE r == Dialogs[save[s].kind].rows
    <2>1. save[s] # None /\ save[s] \in Save /\ r \in Rows
      BY <1>3, DialogTable DEF Store, FormsInv, MadeOk, Save
    <2>2. version' = [version EXCEPT ![r] = @ + 1] /\ version \in [Rows -> Nat]
      BY <1>3 DEF Store, QueriesInv
    <2>3. \A x \in Rows : version[x] \in Nat /\ version'[x] \in Nat /\ version[x] <= version'[x]
      BY <2>2
    <2>4. PICK m \in Nat : m = version[r] + 1
      BY <2>1, <2>2
    <2>5a. PICK x \in Save : x = save[s]
      BY <2>1
    <2>5. PICK n : n = [x EXCEPT !.pc = "done", !.made = m]
      OBVIOUS
    <2>6. n \in Save /\ n.kind = save[s].kind /\ n.attached = save[s].attached /\ n.hidden = save[s].hidden /\ n.made = m
      <3>1. n \in Save /\ n.kind = x.kind /\ n.attached = x.attached /\ n.hidden = x.hidden /\ n.made = m
        BY <2>5 DEF Save, Version
      <3>2. QED
        BY <2>5a, <3>1, Zenon
    <2>7. n.made <= version'[Dialogs[n.kind].rows]
      BY <2>1, <2>2, <2>4, <2>6
    <2>8. save' = [save EXCEPT ![s] = n] /\ UNCHANGED <<page, dialog>>
      BY <1>3, <2>4, <2>5a, <2>5 DEF Store, FormsInv
    <2>9. QED
      BY <2>1, <2>3, <2>6, <2>7, <2>8, FormsSave
  <1>4. CASE Lose(s)
    <2>1. PICK n : n = [save[s] EXCEPT !.pc = "failed"]
      OBVIOUS
    <2>2. save[s] # None /\ save[s] \in Save /\ save' = [save EXCEPT ![s] = n] /\ UNCHANGED <<page, dialog, version>>
      BY <1>4, <2>1 DEF Lose, FormsInv, MadeOk
    <2>3. n \in Save /\ n.kind = save[s].kind /\ n.attached = save[s].attached /\ n.hidden = save[s].hidden
          /\ n.pc = "failed"
      BY <2>1, <2>2 DEF Save
    <2>4. \A x \in Rows : version[x] \in Nat /\ version'[x] \in Nat /\ version[x] <= version'[x]
      BY <2>2 DEF QueriesInv
    <2>5. QED
      BY <2>2, <2>3, <2>4, FormsSave
  <1>5. QED
    BY <1>1, <1>2, <1>3, <1>4, FormsAnswer, FormsFail DEF SaveNext

-----------------------------------------------------------------------------
Inv == QueriesInv /\ PlacesInv /\ FormsInv

LEMMA InvInit == Init => Inv
  <1> SUFFICES ASSUME Init PROVE Inv
    OBVIOUS
  <1>1. QueriesInv
    BY ListTable, NoListOk DEF Init, QueriesInv, QueryOk
  <1>2. PlacesInv
    <2>1. tour \in [of : Tours, at : Nat]
      BY DEF Init
    <2>2. QED
      BY <2>1 DEF Init, PlacesInv
  <1>3. FormsInv
    BY DEF Init, FormsInv, MadeOk, AttachedOk, Dialogued, DialogOk
  <1>4. QED
    BY <1>1, <1>2, <1>3 DEF Inv

\* Of the pages' steps only those that mount a list read one.
LEMMA QueriesPage ==
  ASSUME QueriesInv, PageNext
  PROVE  QueriesInv' /\ version' = version
  <1>1. ASSUME NEW p \in WebPages \cup AdminPages, Enter(p) PROVE QueriesInv' /\ version' = version
    BY <1>1, MountStep DEF Enter
  <1>2. CASE Filter
    BY <1>2, MountStep DEF Filter
  <1>3. ASSUME NEW k \in Kinds, NEW fromRow \in BOOLEAN, Open(k, fromRow) PROVE QueriesInv' /\ version' = version
    BY <1>3, MountStep DEF Open
  <1>4. CASE UNCHANGED <<list, version>>
    BY <1>4 DEF QueriesInv
  <1>5. ASSUME NEW step \in 1 .. 3, Turn(step) PROVE UNCHANGED <<list, version>>
    BY <1>5 DEF Turn
  <1>6. SignIn \/ SignOut \/ Leave \/ GateOpens \/ GateShuts \/ Type \/ Close => UNCHANGED <<list, version>>
    BY DEF SignIn, SignOut, Leave, GateOpens, GateShuts, Type, Close
  <1>7. QED
    BY <1>1, <1>2, <1>3, <1>4, <1>5, <1>6 DEF PageNext

LEMMA QueriesSave ==
  ASSUME QueriesInv, FormsInv, NEW s \in Saves, SaveNext(s)
  PROVE  QueriesInv'
  <1>1. CASE UNCHANGED <<list, version>>
    BY <1>1 DEF QueriesInv
  <1>2. Submit(s) \/ Lose(s) \/ (\E k \in Switches : Toggle(s, k)) => UNCHANGED <<list, version>>
    BY DEF Submit, Lose, Toggle
  <1>3. CASE Store(s)
    <2>1. save[s] # None /\ Dialogs[save[s].kind].rows \in Rows
      BY <1>3, DialogTable DEF Store, FormsInv, MadeOk, Save
    <2>2. QED
      BY <1>3, <2>1, GrowStep DEF Store
  <1>4. CASE Answer(s)
    BY <1>4, RefreshStep DEF Answer, FormsInv
  <1>5. CASE AnswerFails(s) /\ save[s].kind = "togglePlugin"
    BY <1>5, RefreshStep DEF AnswerFails, FormsInv
  <1>6. AnswerFails(s) /\ save[s].kind # "togglePlugin" => UNCHANGED <<list, version>>
    BY DEF AnswerFails
  <1>7. QED
    BY <1>1, <1>2, <1>3, <1>4, <1>5, <1>6 DEF SaveNext

LEMMA InvNext == Inv /\ [Next]_vars => Inv'
  <1> SUFFICES ASSUME Inv, [Next]_vars PROVE Inv'
    OBVIOUS
  <1> USE DEF Inv
  <1>1. PlacesInv'
    BY PlacesStep
  <1>2. CASE PageNext
    BY <1>1, <1>2, QueriesPage, FormsPage
  <1>3. ASSUME NEW l \in Lists, QueryNext(l) PROVE Inv'
    <2>1. UNCHANGED <<page, dialog, save, version>>
      BY <1>3 DEF QueryNext, Focus, ServerReads, Land, FetchFails, place
    <2>2. FormsInv'
      BY <2>1, FormsGrow DEF QueriesInv
    <2>3. QED
      BY <1>1, <1>3, <2>2, QueryStep
  <1>4. ASSUME NEW s \in Saves, SaveNext(s) PROVE Inv'
    BY <1>1, <1>4, QueriesSave, FormsStep
  <1>5. ASSUME NEW r \in Rows, OthersChange(r) PROVE Inv'
    <2>1. UNCHANGED <<page, dialog, save, list>> /\ version' = [version EXCEPT ![r] = @ + 1]
      BY <1>5 DEF OthersChange, place
    <2>2. \A x \in Rows : version[x] \in Nat /\ version'[x] \in Nat /\ version[x] <= version'[x]
      BY <2>1 DEF QueriesInv
    <2>3. QED
      BY <1>1, <2>1, <2>2, FormsGrow, GrowStep
  <1>6. CASE UNCHANGED vars
    <2>1. UNCHANGED <<page, dialog, save, version, list>>
      BY <1>6 DEF vars
    <2>2. FormsInv'
      BY <2>1, FormsGrow DEF QueriesInv
    <2>3. QED
      BY <1>1, <2>1, <2>2 DEF QueriesInv
  <1>7. QED
    BY <1>2, <1>3, <1>4, <1>5, <1>6 DEF Next

\* The invariant of every behaviour.
LEMMA InvAlways == Spec => []Inv
  BY InvInit, InvNext, PTL DEF Spec

\* A page is only there for somebody who is signed in and belongs to the
\* console, a dialog belongs to the page and to the save that it sent, a save
\* that still can close a dialog belongs to the page, and no list is ahead of
\* the server's rows.
THEOREM ConsoleTypes == Spec => []TypeOK
  <1>1. Inv => TypeOK
    <2> SUFFICES ASSUME Inv PROVE TypeOK
      OBVIOUS
    <2>1. \A l \in Lists : /\ list[l].own <= version[RowsOf(l)]
                           /\ list[l].ver # None => list[l].ver <= version[RowsOf(l)]
      BY DEF Inv, QueriesInv, QueryOk
    <2>2. dialog \in OpenDialog \cup {None} /\ (dialog # None => Dialogs[dialog.kind].on = page)
      BY DEF Inv, FormsInv, DialogOk
    <2>3. dialog # None /\ dialog.save # None =>
             save[dialog.save] # None /\ save[dialog.save].kind = dialog.kind /\ save[dialog.save].attached
      BY DEF Inv, FormsInv, DialogOk
    <2>4. \A s \in Saves : save[s] # None /\ save[s].attached => Dialogs[save[s].kind].on = page
      BY DEF Inv, FormsInv, AttachedOk
    <2>5. QED
      BY <2>1, <2>2, <2>3, <2>4 DEF TypeOK, Inv, QueriesInv, PlacesInv, FormsInv, Version
  <1>2. QED
    BY <1>1, InvAlways, PTL

\* After the answer of a save, a list that settles shows what was saved, or the
\* answer of an older read was let through, whatever number of saves, reads,
\* changes by others, filters and pages come in between.
THEOREM SavesAreListed == Spec => []OwnSavesAreListed
  <1>1. Inv => OwnSavesAreListed
    BY DEF Inv, QueriesInv, QueryOk, OwnSavesAreListed
  <1>2. QED
    BY <1>1, InvAlways, PTL

\* What somebody typed into a dialog that waits for its save is not thrown away
\* by another save's answer, unless the gate came between.
THEOREM AnswersClose == Spec => AnswersCloseTheirDialog
  <1>1. Inv /\ [Next]_vars => [\A s \in Saves :
           save[s] # None /\ save'[s] = None /\ dialog # None /\ dialog' = None /\ dialog.kind \in Guarded
               => dialog.save = s \/ save[s].hidden]_<<dialog, save>>
    <2> SUFFICES ASSUME Inv, Next, NEW s \in Saves, save[s] # None, save'[s] = None, dialog # None, dialog' = None,
                        dialog.kind \in Guarded, ~save[s].hidden
                 PROVE  dialog.save = s
      BY DEF vars
    <2> USE DEF place
    <2>1. save[s].attached /\ dialog.kind = save[s].kind
      <3>1. CASE PageNext
        <4>1. ~(\E p \in WebPages \cup AdminPages : Enter(p)) /\ ~SignIn /\ ~SignOut /\ ~GateOpens /\ ~Filter
              /\ ~Type /\ ~Close /\ ~(\E k \in Kinds, fromRow \in BOOLEAN : Open(k, fromRow)) /\ ~(\E step \in 1 .. 3 : Turn(step))
          BY DEF Enter, SignIn, SignOut, GateOpens, Filter, Type, Close, Open, Turn
        <4>2. save[s] \in Save
          BY DEF Inv, FormsInv, MadeOk
        <4>3. [save[s] EXCEPT !.attached = FALSE] # None /\ [save[s] EXCEPT !.hidden = TRUE] # None
          <5>1. [save[s] EXCEPT !.attached = FALSE] \in Save
            BY <4>2 DEF Save
          <5>2. QED
            BY <4>2, <5>1, HiddenSave, PagesAreSomething
        <4>4. ~Leave /\ ~GateShuts
          BY <4>3 DEF Leave, GateShuts
        <4>5. QED
          BY <3>1, <4>1, <4>4 DEF PageNext
      <3>2. ASSUME NEW l \in Lists, QueryNext(l) PROVE FALSE
        BY <3>2 DEF QueryNext, Focus, ServerReads, Land, FetchFails
      <3>3. ASSUME NEW r \in Rows, OthersChange(r) PROVE FALSE
        BY <3>3 DEF OthersChange
      <3>4. ASSUME NEW u \in Saves, SaveNext(u) PROVE save[s].attached /\ dialog.kind = save[s].kind
        <4>1. ~Store(u) /\ ~Lose(u) /\ ~(\E k \in Switches : Toggle(u, k))
          BY DEF Store, Lose, Toggle
        <4>2. ~Submit(u)
          <5>1. dialog \in OpenDialog
            BY DEF Inv, FormsInv, DialogOk
          <5>2. [dialog EXCEPT !.save = u] \in OpenDialog
            BY <5>1 DEF OpenDialog
          <5>3. QED
            BY <5>2, PagesAreSomething DEF Submit
        <4>3. CASE Answer(u)
          <5>1. dialog' = Closed(u) /\ u = s
            <6>1. save[s] \in Save
              BY DEF Inv, FormsInv, MadeOk
            <6>2. [save[s] EXCEPT !.hidden = TRUE] # None
              BY <6>1, HiddenSave, PagesAreSomething
            <6>3. QED
              BY <4>3, <6>2 DEF Answer
          <5>2. QED
            BY <5>1 DEF Closed
        <4>4. CASE AnswerFails(u)
          <5>1. u = s
            BY <4>4 DEF AnswerFails, Inv, FormsInv
          <5>2. CASE save[s].kind = "deleteTrigger"
            BY <4>4, <5>1, <5>2 DEF AnswerFails, Closed
          <5>3. CASE save[s].kind # "deleteTrigger"
            <6>1. dialog \in OpenDialog
              BY DEF Inv, FormsInv, DialogOk
            <6>2. [dialog EXCEPT !.save = None] \in OpenDialog
              BY <6>1 DEF OpenDialog
            <6>3. QED
              BY <4>4, <5>1, <5>3, <6>2, PagesAreSomething DEF AnswerFails
          <5>4. QED
            BY <5>2, <5>3
        <4>5. QED
          BY <3>4, <4>1, <4>2, <4>3, <4>4 DEF SaveNext
      <3>5. QED
        BY <3>1, <3>2, <3>3, <3>4 DEF Next
    <2>2. dialog.save = s
      BY <2>1 DEF Inv, FormsInv, Dialogued
    <2>3. QED
      BY <2>2
  <1>2. QED
    BY <1>1, InvAlways, PTL DEF Spec, AnswersCloseTheirDialog
=============================================================================
