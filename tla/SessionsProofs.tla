--------------------------- MODULE SessionsProofs ---------------------------
(***************************************************************************)
(* TypeOK, LogoutHolds, RotatesOnce and OneRole are invariants of Sessions *)
(* for any users, roles, tokens, calls, requests and edits; and sessions   *)
(* that agree with their user go on to do so.                              *)
(***************************************************************************)
EXTENDS Sessions, FiniteSetTheorems, TLAPS

-----------------------------------------------------------------------------
(* Types *)

\* The parts of TypeOK, each about what few actions change.
Typed ==
    /\ user \in [Users -> User \cup {None, Deleted}]
    /\ refresh \in [Refresh -> RefreshToken \cup {None}]
    /\ access \in [Access -> AccessToken \cup {None}]
    /\ blacklist \subseteq Access /\ out \subseteq Access
CallTyped(q) ==
    /\ q \in Call
    /\ q.pc # "idle" => q.user \in Users
    /\ q.pc \in {"load", "rotate"} => q.token \in Refresh
    /\ q.pc = "verify" => q.read # None
    /\ q.pc = "rotate" => q.read # None /\ q.read.active
RequestTyped(q) == q \in Request /\ (q.pc # "idle" => q.token \in Access /\ access[q.token] # None)
EditTyped(q) == q \in Edit /\ (q.pc # "idle" => q.role \in Roles /\ q.user \in Users /\ user[q.user] \in User)
OwnersExist == \A p \in Refresh : refresh[p] # None => user[refresh[p].user] \in User

CallsTyped == call \in [Calls -> Call] /\ \A c \in Calls : CallTyped(call[c])
RequestsTyped == request \in [Requests -> Request] /\ \A r \in Requests : RequestTyped(request[r])
EditsTyped == edit \in [Edits -> Edit] /\ \A e \in Edits : EditTyped(edit[e])

LEMMA TypeParts == TypeOK <=> Typed /\ CallsTyped /\ RequestsTyped /\ EditsTyped /\ OwnersExist
  BY DEF TypeOK, Typed, CallsTyped, RequestsTyped, EditsTyped, OwnersExist, CallTyped, RequestTyped, EditTyped

LEMMA PartsNext == TypeOK' <=> Typed' /\ CallsTyped' /\ RequestsTyped' /\ EditsTyped' /\ OwnersExist'
  BY DEF TypeOK, Typed, CallsTyped, RequestsTyped, EditsTyped, OwnersExist, CallTyped, RequestTyped, EditTyped

LEMMA NothingTyped == CallTyped(NoCall) /\ RequestTyped(NoRequest) /\ EditTyped(NoEdit)
  BY DEF CallTyped, RequestTyped, EditTyped, NoCall, NoRequest, NoEdit, Call, Request, Edit

LEMMA ExistingUser ==
    ASSUME Typed, NEW u \in Users, Exists(u)
    PROVE  user[u] \in User
  BY DEF Typed, Exists

LEMMA OneCall ==
    ASSUME CallsTyped, NEW c \in Calls, NEW q, CallTyped(q), call' = [call EXCEPT ![c] = q]
    PROVE  CallsTyped'
  BY DEF CallsTyped, CallTyped

LEMMA OneRequest ==
    ASSUME RequestsTyped, NEW r \in Requests, NEW q, RequestTyped(q), request' = [request EXCEPT ![r] = q],
           access' = access
    PROVE  RequestsTyped'
  BY DEF RequestsTyped, RequestTyped

LEMMA OneEdit ==
    ASSUME EditsTyped, NEW e \in Edits, NEW q, EditTyped(q), edit' = [edit EXCEPT ![e] = q], user' = user
    PROVE  EditsTyped'
  BY DEF EditsTyped, EditTyped

LEMMA SameCalls == ASSUME CallsTyped, call' = call PROVE CallsTyped'
  BY DEF CallsTyped, CallTyped
\* Tokens that were signed stay in the model.
LEMMA SameRequests ==
    ASSUME RequestsTyped, request' = request, \A a \in Access : access[a] # None => access'[a] # None
    PROVE  RequestsTyped'
  BY DEF RequestsTyped, RequestTyped

LEMMA SameEdits ==
    ASSUME EditsTyped, edit' = edit, user' = user
    PROVE  EditsTyped'
  BY DEF EditsTyped, EditTyped

\* A user's row is written with a row: edits and tokens keep their user.
LEMMA UserKept ==
    ASSUME Typed, EditsTyped, OwnersExist, NEW u \in Users, NEW q \in User, user' = [user EXCEPT ![u] = q],
           edit' = edit, refresh' = refresh
    PROVE  EditsTyped' /\ OwnersExist' /\ user' \in [Users -> User \cup {None, Deleted}]
<1>1. ASSUME NEW v, v \in Users, user[v] \in User  PROVE user'[v] \in User
  BY <1>1 DEF Typed
<1>2. ASSUME NEW p \in Refresh, refresh[p] # None  PROVE refresh[p].user \in Users
  BY <1>2 DEF Typed, RefreshToken
<1>. QED  BY <1>1, <1>2 DEF Typed, EditsTyped, EditTyped, OwnersExist

LEMMA TypeInit ==
    ASSUME Init
    PROVE  TypeOK
<1>1. (CHOOSE x \in Roles : TRUE) \in Roles
  BY SessionConstants
<1>2. [active |-> TRUE, roles |-> {CHOOSE x \in Roles : TRUE}] \in User
  BY <1>1 DEF User
<1>3. Typed
  BY <1>2 DEF Init, Typed
<1>4. CallsTyped /\ RequestsTyped /\ EditsTyped
  BY NothingTyped DEF Init, CallsTyped, RequestsTyped, EditsTyped, CallTyped, RequestTyped, EditTyped
<1>5. OwnersExist
  BY DEF Init, OwnersExist
<1>. QED  BY <1>3, <1>4, <1>5, TypeParts

\* A new refresh token of a user that exists.
LEMMA NewTokenType ==
    ASSUME NEW u \in Users
    PROVE  NewToken(u) \in RefreshToken /\ NewToken(u).user = u
  BY DEF NewToken, RefreshToken

LEMMA SignType ==
    ASSUME Typed, NEW a \in Access, NEW u \in Users, NEW roles \in SUBSET Roles, Sign(a, u, roles)
    PROVE  /\ access' \in [Access -> AccessToken \cup {None}] /\ out' \subseteq Access
           /\ \A b \in Access : access[b] # None => access'[b] # None
<1>. DEFINE t == [user |-> u, roles |-> roles, live |-> TRUE]
<1>1. t \in AccessToken /\ t.live
  BY DEF AccessToken
<1>2. access' = [access EXCEPT ![a] = t] /\ out' = out \ {a}
  BY DEF Sign
<1>3. t # None
  BY <1>1, NoneIsNoRow
<1>. QED  BY <1>1, <1>2, <1>3 DEF Typed

LEMMA ReplacedType ==
    ASSUME NEW t \in RefreshToken, NEW revoke \in BOOLEAN
    PROVE  /\ Replaced(t, revoke) \in RefreshToken /\ Replaced(t, revoke).user = t.user
           /\ Replaced(t, revoke).shared = t.shared
           /\ revoke => Replaced(t, revoke).revoked
           /\ Replaced(t, revoke).heirs > 1 => t.heirs > 0
<1>1. PICK h : h = IF t.heirs < 2 THEN t.heirs + 1 ELSE 2
  OBVIOUS
<1>2. t.heirs \in 0..2
  BY DEF RefreshToken
<1>3. h \in 0..2 /\ (h > 1 => t.heirs > 0)
  BY <1>1, <1>2
<1>4. PICK r : r = (t.revoked \/ revoke)
  OBVIOUS
<1>5. Replaced(t, revoke) = [t EXCEPT !.revoked = r, !.heirs = h]
  BY <1>1, <1>4, Zenon DEF Replaced
<1>6. r \in BOOLEAN
  BY <1>4
<1>. HIDE DEF Replaced
<1>. QED  BY <1>3, <1>4, <1>5, <1>6 DEF RefreshToken

\* A user that goes on to the rotation was read while active.
LEMMA LoadType ==
    ASSUME Typed, CallsTyped, NEW c \in Calls, LoadUser(c)
    PROVE  CallsTyped'
<1>. DEFINE u == call[c].user
<1>1. CallTyped(call[c]) /\ call[c] \in Call /\ call[c].pc = "load"
  BY DEF CallsTyped, CallTyped, LoadUser, Load
<1>2. u \in Users /\ call[c].token \in Refresh
  BY <1>1 DEF CallTyped
<1>3. CASE Exists(u) /\ user[u].active
  <2>1. user[u] \in User /\ user[u] # None
    BY <1>2, <1>3, ExistingUser DEF Exists
  <2>2. PICK v \in User : v = user[u] /\ v # None /\ v.active
    BY <1>3, <2>1
  <2>3. PICK q : q = [call[c] EXCEPT !.pc = "rotate", !.read = v]
    OBVIOUS
  <2>4. CallTyped(q)
    BY <1>1, <1>2, <2>2, <2>3 DEF CallTyped, Call
  <2>5. call' = [call EXCEPT ![c] = q]
    BY <1>3, <2>2, <2>3, Zenon DEF LoadUser, Load, CallsTyped
  <2>. QED  BY <2>4, <2>5, OneCall
<1>4. CASE ~(Exists(u) /\ user[u].active)
  <2>1. call' = [call EXCEPT ![c] = NoCall]
    BY <1>4, Zenon DEF LoadUser, Load
  <2>. QED  BY <2>1, NothingTyped, OneCall
<1>. QED  BY <1>3, <1>4

LEMMA CallTypeStep ==
    ASSUME TypeOK, NEW c \in Calls, CallNext(c)
    PROVE  TypeOK'
<1>1. Typed /\ CallsTyped /\ RequestsTyped /\ EditsTyped /\ OwnersExist
  BY TypeParts
<1>2. CallTyped(call[c]) /\ call[c] \in Call
  BY <1>1 DEF CallsTyped, CallTyped
<1>3. CASE LoadUser(c)
  BY <1>1, <1>3, LoadType, SameRequests, SameEdits, PartsNext DEF LoadUser, Load, Typed, OwnersExist
<1>4. ASSUME NEW a \in Access, NEW p \in Refresh, LoginEnds(c, a, p)
      PROVE  TypeOK'
  <2>. DEFINE u == call[c].user
  <2>1. u \in Users /\ call[c].read \in User
    BY <1>2, <1>4 DEF LoginEnds, CallTyped, Call
  <2>2. CallsTyped'
    BY <1>1, <1>4, NothingTyped, OneCall DEF LoginEnds
  <2>3. CASE call[c].read.active /\ Exists(u)
    <3>1. call[c].read.roles \in SUBSET Roles /\ user[u] \in User
      BY <1>1, <2>1, <2>3, ExistingUser DEF User
    <3>2. Sign(a, u, call[c].read.roles) /\ refresh' = [refresh EXCEPT ![p] = NewToken(u)]
      BY <1>4, <2>3 DEF LoginEnds
    <3>3. Typed' /\ \A b \in Access : access[b] # None => access'[b] # None
      BY <1>1, <1>4, <2>1, <3>1, <3>2, SignType, NewTokenType DEF LoginEnds, Typed
    <3>4. OwnersExist'
      BY <1>1, <1>4, <2>1, <3>1, <3>2, NewTokenType DEF LoginEnds, OwnersExist, Typed
    <3>. QED  BY <1>1, <1>4, <2>2, <3>3, <3>4, SameRequests, SameEdits, PartsNext DEF LoginEnds
  <2>4. CASE ~(call[c].read.active /\ Exists(u))
    BY <1>1, <1>4, <2>2, <2>4, SameRequests, SameEdits, PartsNext DEF LoginEnds, Typed, OwnersExist
  <2>. QED  BY <2>3, <2>4
<1>5. ASSUME NEW a \in Access, NEW p \in Refresh, Rotate(c, a, p)
      PROVE  TypeOK'
  <2>. DEFINE u == call[c].user
              q == call[c].token
  <2>1. u \in Users /\ call[c].read \in User /\ q \in Refresh
    BY <1>2, <1>5 DEF Rotate, RotateTo, CallTyped, Call
  <2>2. CallsTyped'
    BY <1>1, <1>5, NothingTyped, OneCall DEF Rotate, RotateTo
  <2>3. CASE Exists(u)
    <3>1. call[c].read.roles \in SUBSET Roles /\ user[u] \in User
      BY <1>1, <2>1, <2>3, ExistingUser DEF User
    <3>2. Sign(a, u, call[c].read.roles)
      BY <1>5, <2>3 DEF Rotate, RotateTo
    <3>3. PICK n : n = IF refresh[q] = None THEN None ELSE Replaced(refresh[q], TRUE)
      OBVIOUS
    <3>4. n \in RefreshToken \cup {None} /\ (n # None => refresh[q] # None /\ n.user = refresh[q].user)
      <4>1. CASE refresh[q] = None
        BY <3>3, <4>1
      <4>2. CASE refresh[q] # None
        <5>1. refresh[q] \in RefreshToken
          BY <1>1, <2>1, <4>2 DEF Typed
        <5>. QED  BY <3>3, <4>2, <5>1, ReplacedType
      <4>. QED  BY <4>1, <4>2
    <3>5. /\ refresh' = [[refresh EXCEPT ![p] = NewToken(u)] EXCEPT ![q] = n]
          /\ p # q
      BY <1>1, <1>5, <2>1, <2>3, <3>3, Zenon DEF Rotate, RotateTo, NewRefresh, Typed
    <3>6. Typed' /\ \A b \in Access : access[b] # None => access'[b] # None
      BY <1>1, <1>5, <2>1, <3>1, <3>2, <3>4, <3>5, SignType, NewTokenType DEF Rotate, RotateTo, Typed
    <3>7. OwnersExist'
      BY <1>1, <1>5, <2>1, <3>1, <3>4, <3>5, NewTokenType DEF Rotate, RotateTo, OwnersExist, Typed
    <3>. QED  BY <1>1, <1>5, <2>2, <3>6, <3>7, SameRequests, SameEdits, PartsNext DEF Rotate, RotateTo
  <2>4. CASE ~Exists(u)
    BY <1>1, <1>5, <2>2, <2>4, SameRequests, SameEdits, PartsNext DEF Rotate, RotateTo, Typed, OwnersExist
  <2>. QED  BY <2>3, <2>4
<1>. QED  BY <1>3, <1>4, <1>5 DEF CallNext

LEMMA BeginCallType ==
    ASSUME TypeOK, NEW c \in Calls,
           \/ \E u \in Users : Login(c, u)
           \/ \E p \in Refresh : FindToken(c, p)
    PROVE  TypeOK'
<1>1. Typed /\ CallsTyped /\ RequestsTyped /\ EditsTyped /\ OwnersExist
  BY TypeParts
<1>2. ASSUME NEW u \in Users, Login(c, u)
      PROVE  TypeOK'
  <2>1. user[u] \in User /\ user[u] # None
    BY <1>1, <1>2, ExistingUser DEF Login, Exists
  <2>2. CallTyped([pc |-> "verify", user |-> u, token |-> None, read |-> user[u]])
    BY <2>1 DEF CallTyped, Call
  <2>. QED  BY <1>1, <1>2, <2>2, OneCall, SameRequests, SameEdits, PartsNext DEF Login, Typed, OwnersExist
<1>3. ASSUME NEW p \in Refresh, FindToken(c, p)
      PROVE  TypeOK'
  <2>1. refresh[p] \in RefreshToken
    BY <1>1, <1>3 DEF FindToken, Typed
  <2>2. CallTyped([pc |-> "load", user |-> refresh[p].user, token |-> p, read |-> None])
    BY <2>1 DEF CallTyped, Call, RefreshToken
  <2>3. PICK b \in BOOLEAN : b = (refresh[p].shared \/ \E d \in Calls : call[d].token = p)
    OBVIOUS
  <2>4. PICK n : n = [refresh[p] EXCEPT !.shared = b]
    OBVIOUS
  <2>5. n \in RefreshToken /\ n.user = refresh[p].user
    BY <2>1, <2>4 DEF RefreshToken
  <2>6. refresh' = [refresh EXCEPT ![p] = n]
    BY <1>3, <2>3, <2>4, Zenon DEF FindToken
  <2>7. Typed'
    BY <1>1, <1>3, <2>5, <2>6 DEF FindToken, Typed
  <2>8. OwnersExist'
    BY <1>1, <1>3, <2>1, <2>5, <2>6, NoneIsNoRow DEF FindToken, OwnersExist, Typed
  <2>. QED  BY <1>1, <1>3, <2>2, <2>7, <2>8, OneCall, SameRequests, SameEdits, PartsNext DEF FindToken
<1>. QED  BY <1>2, <1>3

LEMMA RequestTypeStep ==
    ASSUME TypeOK, NEW r \in Requests, RequestNext(r) \/ \E a \in Access : Receive(r, a)
    PROVE  TypeOK'
<1>1. Typed /\ CallsTyped /\ RequestsTyped /\ EditsTyped /\ OwnersExist
  BY TypeParts
<1>2. RequestTyped(request[r]) /\ request[r] \in Request
  BY <1>1 DEF RequestsTyped, RequestTyped
<1>3. CASE CheckBlacklist(r)
  <2>1. PICK n : n = [request[r] EXCEPT !.pc = "served"]
    OBVIOUS
  <2>2. RequestTyped(n)
    BY <1>2, <1>3, <2>1 DEF RequestTyped, Request, CheckBlacklist
  <2>3. \/ request' = [request EXCEPT ![r] = n]
        \/ request' = [request EXCEPT ![r] = NoRequest]
    BY <1>3, <2>1, Zenon DEF CheckBlacklist
  <2>. QED  BY <1>1, <1>3, <2>2, <2>3, NothingTyped, OneRequest, SameCalls, SameEdits, PartsNext
              DEF CheckBlacklist, Typed, OwnersExist
<1>4. CASE Answer(r)
  BY <1>1, <1>4, NothingTyped, OneRequest, SameCalls, SameEdits, PartsNext DEF Answer, Typed, OwnersExist
<1>5. CASE Logout(r)
  <2>1. request[r].token \in Access
    BY <1>2, <1>5 DEF RequestTyped, Logout
  <2>2. Typed'
    BY <1>1, <1>5, <2>1 DEF Logout, Typed
  <2>. QED  BY <1>1, <1>5, <2>2, NothingTyped, OneRequest, SameCalls, SameEdits, PartsNext DEF Logout, OwnersExist
<1>6. ASSUME NEW a \in Access, Receive(r, a)
      PROVE  TypeOK'
  <2>1. RequestTyped([pc |-> "check", token |-> a, late |-> a \in out])
    BY <1>6 DEF RequestTyped, Request, Receive
  <2>. QED  BY <1>1, <1>6, <2>1, OneRequest, SameCalls, SameEdits, PartsNext DEF Receive, Typed, OwnersExist
<1>. QED  BY <1>3, <1>4, <1>5, <1>6 DEF RequestNext

LEMMA TokenTypeStep ==
    ASSUME TypeOK,
           \/ \E p \in Refresh : RefreshExpires(p)
           \/ \E a \in Access : AccessExpires(a) \/ BlacklistExpires(a)
    PROVE  TypeOK'
<1>1. Typed /\ CallsTyped /\ RequestsTyped /\ EditsTyped /\ OwnersExist
  BY TypeParts
<1>2. ASSUME NEW p \in Refresh, RefreshExpires(p)
      PROVE  TypeOK'
  <2>1. Typed' /\ OwnersExist'
    BY <1>1, <1>2 DEF RefreshExpires, Typed, OwnersExist
  <2>. QED  BY <1>1, <1>2, <2>1, SameCalls, SameRequests, SameEdits, PartsNext DEF RefreshExpires
<1>3. ASSUME NEW a \in Access, AccessExpires(a)
      PROVE  TypeOK'
  <2>1. access[a] \in AccessToken
    BY <1>1, <1>3 DEF AccessExpires, Typed
  <2>2. PICK n : n = [access[a] EXCEPT !.live = FALSE]
    OBVIOUS
  <2>3. n \in AccessToken /\ access' = [access EXCEPT ![a] = n]
    BY <1>3, <2>1, <2>2 DEF AccessExpires, AccessToken
  <2>4. Typed' /\ \A b \in Access : access[b] # None => access'[b] # None
    BY <1>1, <1>3, <2>3, NoneIsNoRow DEF AccessExpires, Typed
  <2>. QED  BY <1>1, <1>3, <2>4, SameCalls, SameRequests, SameEdits, PartsNext DEF AccessExpires, OwnersExist
<1>4. ASSUME NEW a \in Access, BlacklistExpires(a)
      PROVE  TypeOK'
  BY <1>1, <1>4, SameCalls, SameRequests, SameEdits, PartsNext DEF BlacklistExpires, OwnersExist, Typed
<1>. QED  BY <1>2, <1>3, <1>4

LEMMA AdminTypeStep ==
    ASSUME TypeOK, NEW u \in Users,
           \/ \E role \in Roles : CreateUser(u, role)
           \/ \E isActive \in BOOLEAN : SetActive(u, isActive)
           \/ DeleteUser(u)
           \/ \E e \in Edits, role \in Roles : UpdateUser(e, u, role)
    PROVE  TypeOK'
<1>1. Typed /\ CallsTyped /\ RequestsTyped /\ EditsTyped /\ OwnersExist
  BY TypeParts
<1>2. ASSUME NEW role \in Roles, CreateUser(u, role)
      PROVE  TypeOK'
  <2>1. [active |-> TRUE, roles |-> {role}] \in User
    BY DEF User
  <2>. QED  BY <1>1, <1>2, <2>1, UserKept, SameCalls, SameRequests, PartsNext DEF CreateUser, Typed
<1>3. ASSUME NEW isActive \in BOOLEAN, SetActive(u, isActive)
      PROVE  TypeOK'
  <2>1. user[u] \in User
    BY <1>1, <1>3, ExistingUser DEF SetActive
  <2>2. PICK n : n = [user[u] EXCEPT !.active = isActive]
    OBVIOUS
  <2>3. n \in User /\ user' = [user EXCEPT ![u] = n]
    BY <1>3, <2>1, <2>2 DEF SetActive, User
  <2>. QED  BY <1>1, <1>3, <2>3, UserKept, SameCalls, SameRequests, PartsNext DEF SetActive, Typed
<1>4. CASE DeleteUser(u)
  <2>1. ASSUME NEW e \in Edits, edit[e].pc # "idle"
        PROVE  edit[e].user # u
    BY <1>4, <2>1 DEF DeleteUser, Locked, Holds
  <2>2. user' = [user EXCEPT ![u] = Deleted] /\ edit' = edit
    BY <1>4 DEF DeleteUser
  <2>3. EditsTyped'
    BY <1>1, <2>1, <2>2 DEF EditsTyped, EditTyped, Typed
  <2>4. refresh' = [p \in Refresh |-> IF refresh[p] # None /\ refresh[p].user = u THEN None ELSE refresh[p]]
    BY <1>4 DEF DeleteUser
  <2>5. Typed'
    BY <1>1, <1>4, <2>2, <2>4 DEF DeleteUser, Typed
  <2>6. OwnersExist'
    <3>. SUFFICES ASSUME NEW p \in Refresh, refresh'[p] # None
                  PROVE  user'[refresh'[p].user] \in User
      BY DEF OwnersExist
    <3>1. refresh'[p] = refresh[p] /\ refresh[p] # None /\ refresh[p].user # u
      BY <2>4
    <3>2. refresh[p].user \in Users /\ user[refresh[p].user] \in User
      BY <1>1, <3>1 DEF OwnersExist, Typed, RefreshToken
    <3>. QED  BY <1>1, <2>2, <3>1, <3>2 DEF Typed
  <2>. QED  BY <1>1, <1>4, <2>3, <2>5, <2>6, SameCalls, SameRequests, PartsNext DEF DeleteUser
<1>5. ASSUME NEW e \in Edits, NEW role \in Roles, UpdateUser(e, u, role)
      PROVE  TypeOK'
  <2>1. user[u] \in User
    BY <1>1, <1>5, ExistingUser DEF UpdateUser, Begin
  <2>2. EditTyped([pc |-> "locked", user |-> u, role |-> role, seen |-> {}])
    BY <2>1 DEF EditTyped, Edit
  <2>. QED  BY <1>1, <1>5, <2>2, OneEdit, SameCalls, SameRequests, PartsNext DEF UpdateUser, Begin, Typed, OwnersExist
<1>. QED  BY <1>2, <1>3, <1>4, <1>5

LEMMA EditTypeStep ==
    ASSUME TypeOK, NEW e \in Edits, DeleteRoles(e) \/ InsertRole(e)
    PROVE  TypeOK'
<1>. DEFINE u == edit[e].user
<1>1. Typed /\ CallsTyped /\ RequestsTyped /\ EditsTyped /\ OwnersExist
  BY TypeParts
<1>2. edit[e].pc # "idle" /\ EditTyped(edit[e]) /\ edit[e] \in Edit
  BY <1>1 DEF DeleteRoles, InsertRole, EditsTyped, EditTyped
<1>3. u \in Users /\ user[u] \in User /\ edit[e].role \in Roles
  BY <1>2 DEF EditTyped
<1>4. user[u].roles \in SUBSET Roles /\ edit[e].seen \in SUBSET Roles
  BY <1>2, <1>3 DEF User, Edit
<1>5. CASE DeleteRoles(e)
  <2>1. PICK seen : seen = IF edit[e].pc = "waits" THEN edit[e].seen \cap user[u].roles ELSE user[u].roles
    OBVIOUS
  <2>2. PICK pc : pc = IF edit[e].pc = "locked" /\ Deleting(e) THEN "waits" ELSE "insert"
    OBVIOUS
  <2>3. seen \in SUBSET Roles /\ pc \in {"waits", "insert"}
    BY <1>4, <2>1, <2>2
  <2>4. PICK n : n = [edit[e] EXCEPT !.seen = seen, !.pc = pc]
    OBVIOUS
  <2>5. EditTyped(n)
    BY <1>2, <1>3, <2>3, <2>4 DEF EditTyped, Edit
  <2>6. edit' = [edit EXCEPT ![e] = n]
    BY <1>1, <1>5, <2>1, <2>2, <2>4 DEF DeleteRoles, EditsTyped
  <2>. QED  BY <1>1, <1>5, <2>5, <2>6, OneEdit, SameCalls, SameRequests, PartsNext DEF DeleteRoles, Typed, OwnersExist
<1>6. CASE InsertRole(e)
  <2>1. PICK n : n = [user[u] EXCEPT !.roles = (user[u].roles \ edit[e].seen) \cup {edit[e].role}]
    OBVIOUS
  <2>2. n \in User
    BY <1>3, <1>4, <2>1 DEF User
  <2>3. user' = user \/ user' = [user EXCEPT ![u] = n]
    BY <1>6, <2>1, Zenon DEF InsertRole
  <2>4. \A v \in Users : user[v] \in User => user'[v] \in User
    BY <1>1, <2>2, <2>3 DEF Typed
  <2>5. user' \in [Users -> User \cup {None, Deleted}]
    BY <1>1, <2>2, <2>3 DEF Typed
  <2>6. EditsTyped'
    BY <1>1, <1>6, <2>4, NothingTyped DEF InsertRole, EditsTyped, EditTyped
  <2>7. OwnersExist'
    <3>1. \A p \in Refresh : refresh[p] # None => refresh[p].user \in Users
      BY <1>1 DEF Typed, RefreshToken
    <3>. QED  BY <1>1, <1>6, <2>4, <3>1 DEF InsertRole, OwnersExist
  <2>. QED  BY <1>1, <1>6, <2>5, <2>6, <2>7, SameCalls, SameRequests, PartsNext DEF InsertRole, Typed
<1>. QED  BY <1>5, <1>6

LEMMA TypeStep ==
    ASSUME TypeOK, [Next]_vars
    PROVE  TypeOK'
<1>1. CASE UNCHANGED vars
  BY <1>1 DEF vars, TypeOK
<1>. QED  BY <1>1, CallTypeStep, BeginCallType, RequestTypeStep, TokenTypeStep, AdminTypeStep, EditTypeStep DEF Next

\* Rows of users, tokens, calls, requests and edits have their types: a call
\* that rotates holds a token and read an active user, a token's user exists.
THEOREM SessionTypes == Spec => []TypeOK
  BY TypeInit, TypeStep, PTL DEF Spec

-----------------------------------------------------------------------------
(* LogoutHolds: it is not inductive, since it says nothing of a request    *)
(* that has not asked for the blacklist yet.                               *)

\* A logout that was answered is on the blacklist for as long as the token lives.
OutIsBlacklisted == \A a \in out : access[a].live => a \in blacklist
\* A late request's token is still out: nobody signs it anew while it is in use.
LateIsOut == \A r \in Requests : request[r].pc # "idle" /\ request[r].late => request[r].token \in out
LogoutInv == OutIsBlacklisted /\ LateIsOut /\ LogoutHolds

\* A step that keeps the requests, takes no token out and brings none to life.
LEMMA RequestsKeepLogout ==
    ASSUME TypeOK, LogoutInv, request' = request, out' = out, blacklist' = blacklist,
           \A a \in Access : access'[a].live => access[a].live
    PROVE  LogoutInv'
<1>1. out \subseteq Access /\ \A r \in Requests : request[r].pc = "served" => request[r].token \in Access
  BY DEF TypeOK
<1>. QED  BY <1>1 DEF LogoutInv, OutIsBlacklisted, LateIsOut, LogoutHolds

LEMMA SignKeepsLogout ==
    ASSUME TypeOK, LogoutInv, request' = request, blacklist' = blacklist,
           NEW a \in Access, NEW u, NEW roles, Sign(a, u, roles)
    PROVE  LogoutInv'
<1>1. \A r \in Requests : request[r].token # a
  BY DEF Sign, NewAccess
<1>2. out' = out \ {a} /\ \A b \in Access \ {a} : access'[b] = access[b]
  BY DEF Sign, TypeOK
<1>3. out \subseteq Access /\ \A r \in Requests : request[r].pc = "served" => request[r].token \in Access
  BY DEF TypeOK
<1>. QED  BY <1>1, <1>2, <1>3 DEF LogoutInv, OutIsBlacklisted, LateIsOut, LogoutHolds

LEMMA CallKeepsLogout ==
    ASSUME TypeOK, LogoutInv, NEW c \in Calls, CallNext(c)
    PROVE  LogoutInv'
<1>1. CASE LoadUser(c)
  BY <1>1, RequestsKeepLogout DEF LoadUser, Load
<1>2. ASSUME NEW a \in Access, NEW p \in Refresh, LoginEnds(c, a, p)
      PROVE  LogoutInv'
  <2>1. CASE Sign(a, call[c].user, call[c].read.roles)
    BY <1>2, <2>1, SignKeepsLogout DEF LoginEnds
  <2>2. CASE UNCHANGED <<refresh, access, out>>
    BY <1>2, <2>2, RequestsKeepLogout DEF LoginEnds
  <2>. QED  BY <1>2, <2>1, <2>2, Zenon DEF LoginEnds
<1>3. ASSUME NEW a \in Access, NEW p \in Refresh, Rotate(c, a, p)
      PROVE  LogoutInv'
  <2>1. CASE Sign(a, call[c].user, call[c].read.roles)
    BY <1>3, <2>1, SignKeepsLogout DEF Rotate, RotateTo
  <2>2. CASE UNCHANGED <<refresh, access, out>>
    BY <1>3, <2>2, RequestsKeepLogout DEF Rotate, RotateTo
  <2>. QED  BY <1>3, <2>1, <2>2, Zenon DEF Rotate, RotateTo
<1>. QED  BY <1>1, <1>2, <1>3 DEF CallNext

LEMMA RequestKeepsLogout ==
    ASSUME TypeOK, LogoutInv, NEW r \in Requests, RequestNext(r) \/ \E a \in Access : Receive(r, a)
    PROVE  LogoutInv'
<1>1. request[r] \in Request /\ (request[r].pc # "idle" => request[r].token \in Access)
  BY DEF TypeOK
<1>2. CASE CheckBlacklist(r)
  <2>1. UNCHANGED <<access, blacklist, out>> /\ request[r].pc = "check"
    BY <1>2 DEF CheckBlacklist
  <2>2. CASE request[r].token \in blacklist
    <3>1. request' = [request EXCEPT ![r] = NoRequest]
      BY <1>2, <2>2, Zenon DEF CheckBlacklist
    <3>. QED  BY <2>1, <3>1 DEF LogoutInv, OutIsBlacklisted, LateIsOut, LogoutHolds, NoRequest, TypeOK
  <2>3. CASE request[r].token \notin blacklist
    <3>1. PICK n : n = [request[r] EXCEPT !.pc = "served"]
      OBVIOUS
    <3>2. request' = [request EXCEPT ![r] = n]
      BY <1>2, <2>3, <3>1, Zenon DEF CheckBlacklist
    <3>3. n.pc = "served" /\ n.token = request[r].token /\ n.late = request[r].late
      BY <1>1, <3>1 DEF Request
    <3>4. n.late => n.token \in out /\ ~access[n.token].live
      BY <2>1, <2>3, <3>3 DEF LogoutInv, OutIsBlacklisted, LateIsOut
    <3>. QED  BY <2>1, <3>2, <3>3, <3>4 DEF LogoutInv, OutIsBlacklisted, LateIsOut, LogoutHolds, TypeOK
  <2>. QED  BY <2>2, <2>3
<1>3. CASE Answer(r)
  BY <1>3 DEF Answer, LogoutInv, OutIsBlacklisted, LateIsOut, LogoutHolds, NoRequest, TypeOK
<1>4. CASE Logout(r)
  BY <1>1, <1>4 DEF Logout, LogoutInv, OutIsBlacklisted, LateIsOut, LogoutHolds, NoRequest, TypeOK
<1>5. ASSUME NEW a \in Access, Receive(r, a)
      PROVE  LogoutInv'
  BY <1>5 DEF Receive, LogoutInv, OutIsBlacklisted, LateIsOut, LogoutHolds, TypeOK
<1>. QED  BY <1>2, <1>3, <1>4, <1>5 DEF RequestNext

LEMMA TokenKeepsLogout ==
    ASSUME TypeOK, LogoutInv, NEW a \in Access, AccessExpires(a) \/ BlacklistExpires(a)
    PROVE  LogoutInv'
<1>1. CASE AccessExpires(a)
  <2>1. access[a] \in AccessToken
    BY <1>1 DEF AccessExpires, TypeOK
  <2>2. \A b \in Access : access'[b].live => access[b].live
    BY <1>1, <2>1 DEF AccessExpires, AccessToken, TypeOK
  <2>. QED  BY <1>1, <2>2, RequestsKeepLogout DEF AccessExpires
<1>2. CASE BlacklistExpires(a)
  BY <1>2 DEF BlacklistExpires, LogoutInv, OutIsBlacklisted, LateIsOut, LogoutHolds
<1>. QED  BY <1>1, <1>2

LEMMA LogoutStep ==
    ASSUME TypeOK, LogoutInv, [Next]_vars
    PROVE  LogoutInv'
<1>1. CASE UNCHANGED vars
  BY <1>1 DEF vars, LogoutInv, OutIsBlacklisted, LateIsOut, LogoutHolds
<1>2. ASSUME NEW c \in Calls, \/ \E u \in Users : Login(c, u)
                              \/ \E p \in Refresh : FindToken(c, p)
      PROVE  LogoutInv'
  BY <1>2, RequestsKeepLogout DEF Login, FindToken
<1>3. ASSUME NEW p \in Refresh, RefreshExpires(p)
      PROVE  LogoutInv'
  BY <1>3, RequestsKeepLogout DEF RefreshExpires
<1>4. ASSUME NEW u \in Users, \/ \E role \in Roles : CreateUser(u, role)
                              \/ \E isActive \in BOOLEAN : SetActive(u, isActive)
                              \/ DeleteUser(u)
                              \/ \E e \in Edits, role \in Roles : UpdateUser(e, u, role)
      PROVE  LogoutInv'
  BY <1>4, RequestsKeepLogout DEF CreateUser, SetActive, DeleteUser, UpdateUser, Begin
<1>5. ASSUME NEW e \in Edits, DeleteRoles(e) \/ InsertRole(e)
      PROVE  LogoutInv'
  BY <1>5, RequestsKeepLogout DEF DeleteRoles, InsertRole
<1>. QED  BY <1>1, <1>2, <1>3, <1>4, <1>5, CallKeepsLogout, RequestKeepsLogout, TokenKeepsLogout DEF Next

LEMMA LogoutInit ==
    ASSUME Init
    PROVE  LogoutInv
  BY DEF Init, LogoutInv, OutIsBlacklisted, LateIsOut, LogoutHolds, NoRequest

\* A request that arrives after its token's logout was answered is not served
\* while the token lives, for any number of tokens and requests and whatever
\* the guard's two checks and the expiries come between.
THEOREM LogoutIsFinal == Spec => []LogoutHolds
<1>1. Init => LogoutInv
  BY LogoutInit
<1>2. LogoutInv => LogoutHolds
  BY DEF LogoutInv
<1>. QED  BY <1>1, <1>2, LogoutStep, SessionTypes, PTL DEF Spec

-----------------------------------------------------------------------------
(* RotatesOnce: what it needs to know of the calls that hold a token.      *)

Holders(p) == {c \in Calls : call[c].token = p}

\* A token that was replaced is revoked; one that is held by two calls, or by
\* one after it was replaced, was held by two at a time.
HeldOnce(p) ==
    /\ refresh[p].heirs > 0 => refresh[p].revoked
    /\ \A c, d \in Holders(p) : c # d => refresh[p].shared
    /\ refresh[p].heirs > 0 /\ Holders(p) # {} => refresh[p].shared
    /\ refresh[p].heirs > 1 => refresh[p].shared
RotateInv == \A p \in Refresh : refresh[p] # None => HeldOnce(p)

\* A step after which no call holds a token it did not hold before.
LEMMA FewerHolders ==
    ASSUME RotateInv, NEW p \in Refresh, refresh[p] # None, refresh'[p] = refresh[p],
           \A d \in Calls : call'[d].token = p => call[d].token = p
    PROVE  HeldOnce(p)'
  BY DEF RotateInv, HeldOnce, Holders

LEMMA TokensStay ==
    ASSUME RotateInv, \A p \in Refresh : refresh'[p] \in {refresh[p], None},
           \A d \in Calls : call'[d].token \in {call[d].token, None}
    PROVE  RotateInv'
  BY FewerHolders, SessionConstants DEF RotateInv

\* A new token has no holder.
LEMMA NewTokenHeld ==
    ASSUME NEW p \in Refresh, NEW u, refresh'[p] = NewToken(u), \A d \in Calls : call'[d].token # p
    PROVE  HeldOnce(p)'
  BY DEF HeldOnce, Holders, NewToken

LEMMA RotateKeepsHeld ==
    ASSUME TypeOK, RotateInv, NEW c \in Calls, NEW a \in Access, NEW p \in Refresh, Rotate(c, a, p)
    PROVE  RotateInv'
<1>. DEFINE u == call[c].user
            q == call[c].token
<1>1. call[c].pc = "rotate" /\ q \in Refresh /\ refresh \in [Refresh -> RefreshToken \cup {None}]
  BY DEF Rotate, RotateTo, TypeOK
<1>2. call' = [call EXCEPT ![c] = NoCall] /\ call \in [Calls -> Call]
  BY DEF Rotate, RotateTo, TypeOK
<1>3. /\ \A d \in Calls : call'[d].token \in {call[d].token, None}
      /\ call'[c].token = None /\ \A d \in Calls \ {c} : call'[d].token = call[d].token
  BY <1>2 DEF NoCall
<1>4. CASE Exists(u)
  <2>1. PICK n : n = IF refresh[q] = None THEN None ELSE Replaced(refresh[q], TRUE)
    OBVIOUS
  <2>2. refresh' = [[refresh EXCEPT ![p] = NewToken(u)] EXCEPT ![q] = n] /\ NewRefresh(p)
    BY <1>1, <1>4, <2>1, Zenon DEF Rotate, RotateTo, NewRefresh
  <2>3. p # q
    BY <2>2 DEF NewRefresh
  <2>. SUFFICES ASSUME NEW r \in Refresh, refresh'[r] # None
                PROVE  HeldOnce(r)'
    BY DEF RotateInv
  <2>4. CASE r = p
    <3>1. refresh'[r] = NewToken(u)
      BY <1>1, <2>2, <2>3, <2>4
    <3>2. \A d \in Calls : call'[d].token # r
      BY <1>3, <2>2, <2>4, SessionConstants DEF NewRefresh
    <3>. QED  BY <3>1, <3>2, NewTokenHeld
  <2>5. CASE r = q
    <3>1. refresh'[r] = n /\ n # None
      BY <1>1, <2>2, <2>5
    <3>2. refresh[q] \in RefreshToken /\ refresh[q] # None /\ n = Replaced(refresh[q], TRUE)
      BY <1>1, <2>1, <3>1
    <3>3. n.revoked /\ n.shared = refresh[q].shared /\ (n.heirs > 1 => refresh[q].heirs > 0)
      BY <3>2, ReplacedType
    <3>4. HeldOnce(q) /\ c \in Holders(q)
      BY <1>1, <3>2 DEF RotateInv, Holders
    <3>5. \A d \in Holders(r)' : d \in Holders(q) /\ d # c
      BY <1>1, <1>3, <2>5, SessionConstants DEF Holders
    <3>6. Holders(r)' # {} => n.shared
      BY <3>3, <3>4, <3>5 DEF HeldOnce
    <3>7. n.heirs > 1 => n.shared
      BY <3>3, <3>4 DEF HeldOnce
    <3>8. /\ n.heirs > 0 => n.revoked
          /\ \A d, e \in Holders(r)' : d # e => n.shared
          /\ n.heirs > 0 /\ Holders(r)' # {} => n.shared
          /\ n.heirs > 1 => n.shared
      BY <3>3, <3>6, <3>7 DEF Holders
    <3>. QED  BY <3>1, <3>8 DEF HeldOnce, Holders
  <2>6. CASE r # p /\ r # q
    <3>1. refresh'[r] = refresh[r]
      BY <1>1, <2>2, <2>6
    <3>. QED  BY <1>3, <3>1, FewerHolders, SessionConstants
  <2>. QED  BY <2>4, <2>5, <2>6
<1>5. CASE ~Exists(u)
  <2>1. refresh' = refresh
    BY <1>5 DEF Rotate, RotateTo
  <2>. QED  BY <1>3, <2>1, TokensStay
<1>. QED  BY <1>4, <1>5

LEMMA FindTokenKeepsHeld ==
    ASSUME TypeOK, RotateInv, NEW c \in Calls, NEW p \in Refresh, FindToken(c, p)
    PROVE  RotateInv'
<1>1. refresh[p] \in RefreshToken /\ refresh[p] # None /\ ~refresh[p].revoked
  BY DEF FindToken, TypeOK
<1>2. PICK b \in BOOLEAN : b = (refresh[p].shared \/ \E d \in Calls : call[d].token = p)
  OBVIOUS
<1>3. PICK n : n = [refresh[p] EXCEPT !.shared = b]
  OBVIOUS
<1>4. refresh' = [refresh EXCEPT ![p] = n]
  BY <1>2, <1>3, Zenon DEF FindToken
<1>5. n.shared = b /\ n.heirs = refresh[p].heirs
  BY <1>1, <1>3 DEF RefreshToken
<1>6. refresh[p].heirs = 0
  BY <1>1 DEF RotateInv, HeldOnce, RefreshToken
<1>7. /\ call'[c].token = p
      /\ \A d \in Calls \ {c} : call'[d].token = call[d].token
  BY DEF FindToken, TypeOK
<1>. SUFFICES ASSUME NEW r \in Refresh, refresh'[r] # None
              PROVE  HeldOnce(r)'
  BY DEF RotateInv
<1>8. CASE r = p
  <2>1. refresh'[r] = n
    BY <1>4, <1>8 DEF TypeOK
  <2>2. \A d, e \in Holders(r)' : d # e => n.shared
    BY <1>2, <1>5, <1>7, <1>8 DEF Holders
  <2>. QED  BY <1>5, <1>6, <2>1, <2>2 DEF HeldOnce, Holders
<1>9. CASE r # p
  <2>1. refresh'[r] = refresh[r]
    BY <1>4, <1>9 DEF TypeOK
  <2>. QED  BY <1>7, <1>9, <2>1, FewerHolders
<1>. QED  BY <1>8, <1>9

LEMMA CallKeepsHeld ==
    ASSUME TypeOK, RotateInv, NEW c \in Calls, CallNext(c) \/ \E u \in Users : Login(c, u)
    PROVE  RotateInv'
<1>1. call \in [Calls -> Call] /\ refresh \in [Refresh -> RefreshToken \cup {None}]
  BY DEF TypeOK
<1>2. CASE LoadUser(c)
  <2>1. refresh' = refresh
    BY <1>2 DEF LoadUser, Load
  <2>2. PICK n : n = [call[c] EXCEPT !.pc = "rotate", !.read = user[call[c].user]]
    OBVIOUS
  <2>3. n.token = call[c].token
    BY <1>1, <2>2 DEF Call
  <2>4. call' = [call EXCEPT ![c] = n] \/ call' = [call EXCEPT ![c] = NoCall]
    BY <1>1, <1>2, <2>2, Zenon DEF LoadUser, Load
  <2>5. \A d \in Calls : call'[d].token \in {call[d].token, None}
    BY <1>1, <2>3, <2>4 DEF NoCall
  <2>. QED  BY <2>1, <2>5, TokensStay
<1>3. ASSUME NEW a \in Access, NEW p \in Refresh, LoginEnds(c, a, p)
      PROVE  RotateInv'
  <2>1. \A d \in Calls : call'[d].token \in {call[d].token, None}
    BY <1>1, <1>3 DEF LoginEnds, NoCall
  <2>2. CASE refresh' = refresh
    BY <2>1, <2>2, TokensStay
  <2>3. CASE NewRefresh(p) /\ refresh' = [refresh EXCEPT ![p] = NewToken(call[c].user)]
    <3>. SUFFICES ASSUME NEW r \in Refresh, refresh'[r] # None
                  PROVE  HeldOnce(r)'
      BY DEF RotateInv
    <3>1. CASE r = p
      BY <1>1, <2>1, <2>3, <3>1, NewTokenHeld, SessionConstants DEF NewRefresh
    <3>2. CASE r # p
      BY <1>1, <2>1, <2>3, <3>2, FewerHolders, SessionConstants
    <3>. QED  BY <3>1, <3>2
  <2>. QED  BY <1>3, <2>2, <2>3, Zenon DEF LoginEnds
<1>4. ASSUME NEW u \in Users, Login(c, u)
      PROVE  RotateInv'
  BY <1>1, <1>4, TokensStay DEF Login
<1>5. CASE \E a \in Access, p \in Refresh : Rotate(c, a, p)
  BY <1>5, RotateKeepsHeld
<1>. QED  BY <1>2, <1>3, <1>4, <1>5 DEF CallNext

LEMMA RotateStep ==
    ASSUME TypeOK, RotateInv, [Next]_vars
    PROVE  RotateInv'
<1>0. refresh \in [Refresh -> RefreshToken \cup {None}]
  BY DEF TypeOK
<1>1. CASE UNCHANGED vars
  BY <1>1, TokensStay DEF vars
<1>2. ASSUME NEW c \in Calls, NEW p \in Refresh, FindToken(c, p)
      PROVE  RotateInv'
  BY <1>2, FindTokenKeepsHeld
<1>3. ASSUME NEW p \in Refresh, RefreshExpires(p)
      PROVE  RotateInv'
  BY <1>0, <1>3, TokensStay DEF RefreshExpires
<1>4. ASSUME NEW r \in Requests, RequestNext(r) \/ \E a \in Access : Receive(r, a)
      PROVE  RotateInv'
  BY <1>4, TokensStay DEF RequestNext, CheckBlacklist, Answer, Logout, Receive
<1>5. ASSUME NEW a \in Access, AccessExpires(a) \/ BlacklistExpires(a)
      PROVE  RotateInv'
  BY <1>5, TokensStay DEF AccessExpires, BlacklistExpires
<1>6. ASSUME NEW u \in Users, \/ \E role \in Roles : CreateUser(u, role)
                              \/ \E isActive \in BOOLEAN : SetActive(u, isActive)
                              \/ \E e \in Edits, role \in Roles : UpdateUser(e, u, role)
      PROVE  RotateInv'
  BY <1>6, TokensStay DEF CreateUser, SetActive, UpdateUser, Begin
<1>7. ASSUME NEW u \in Users, DeleteUser(u)
      PROVE  RotateInv'
  BY <1>7, TokensStay DEF DeleteUser
<1>8. ASSUME NEW e \in Edits, DeleteRoles(e) \/ InsertRole(e)
      PROVE  RotateInv'
  BY <1>8, TokensStay DEF DeleteRoles, InsertRole
<1>. QED  BY <1>1, <1>2, <1>3, <1>4, <1>5, <1>6, <1>7, <1>8, CallKeepsHeld DEF Next

\* A refresh token is replaced twice only when two calls held it at a time,
\* for any number of calls, tokens and users: whoever finds it later finds it revoked.
THEOREM TokensRotateOnce == Spec => []RotatesOnce
<1>1. Init => RotateInv
  BY DEF Init, RotateInv
<1>2. RotateInv => RotatesOnce
  BY DEF RotateInv, HeldOnce, RotatesOnce
<1>. QED  BY <1>1, <1>2, RotateStep, SessionTypes, PTL DEF Spec

-----------------------------------------------------------------------------
(* OneRole: whoever holds a user's row is alone with the user's roles, so  *)
(* that nothing is left of them when it inserts its own.                   *)

Single(roles) == \E role \in Roles : roles \subseteq {role}
SingleRoles == \A u \in Users : user[u] \in User => Single(user[u].roles)
EditAlone(e) ==
    edit[e].pc # "idle" =>
        /\ edit[e].pc \in {"locked", "insert"}
        /\ \A d \in Edits \ {e} : ~Holds(d, edit[e].user)
        /\ edit[e].pc = "insert" => user[edit[e].user].roles \subseteq edit[e].seen
RoleInv == SingleRoles /\ \A e \in Edits : EditAlone(e)

LEMMA SingleCardinality ==
    ASSUME NEW roles, Single(roles)
    PROVE  Cardinality(roles) <= 1
<1>1. PICK role \in Roles : roles = {} \/ roles = {role}
  BY DEF Single
<1>2. Cardinality({}) = 0 /\ Cardinality({role}) = 1
  BY FS_EmptySet, FS_Singleton
<1>. QED  BY <1>1, <1>2

LEMMA RoleInvImplies ==
    ASSUME TypeOK, RoleInv
    PROVE  OneRole
<1>1. ASSUME NEW u \in Users, Exists(u)
      PROVE  Single(user[u].roles)
  BY <1>1 DEF TypeOK, Exists, RoleInv, SingleRoles
<1>. QED  BY <1>1, SingleCardinality DEF OneRole

\* Steps that write the row of a user nobody holds, or none.
LEMMA UsersKeepRoles ==
    ASSUME TypeOK, RoleInv, edit' = edit, NEW u \in Users, NEW n, user' = [user EXCEPT ![u] = n],
           n \in User => Single(n.roles), ~Locked(u)
    PROVE  RoleInv'
<1>1. user \in [Users -> User \cup {None, Deleted}] /\ edit \in [Edits -> Edit]
  BY DEF TypeOK
<1>2. SingleRoles'
  BY <1>1 DEF RoleInv, SingleRoles
<1>3. ASSUME NEW e \in Edits
      PROVE  EditAlone(e)'
  <2>1. edit[e].pc # "idle" => edit[e].user # u
    BY DEF Locked, Holds
  <2>2. EditAlone(e)
    BY DEF RoleInv
  <2>3. edit[e].pc # "idle" => user'[edit[e].user] = user[edit[e].user]
    BY <1>1, <2>1
  <2>. QED  BY <2>2, <2>3 DEF EditAlone, Holds
<1>. QED  BY <1>2, <1>3 DEF RoleInv

LEMMA EditKeepsRoles ==
    ASSUME TypeOK, RoleInv, NEW e \in Edits, DeleteRoles(e) \/ InsertRole(e)
    PROVE  RoleInv'
<1>0. /\ user \in [Users -> User \cup {None, Deleted}] /\ edit \in [Edits -> Edit] /\ edit[e] \in Edit
      /\ edit[e].pc # "idle" /\ EditAlone(e)
  BY DEF TypeOK, RoleInv, DeleteRoles, InsertRole
<1>1. PICK u \in Users : u = edit[e].user /\ user[u] \in User /\ edit[e].role \in Roles
  BY <1>0 DEF TypeOK
<1>2. \A d \in Edits \ {e} : edit[d].pc # "idle" => edit[d].user # u
  BY <1>0, <1>1 DEF EditAlone, Holds
<1>3. CASE DeleteRoles(e)
  <2>1. edit[e].pc = "locked" /\ ~Deleting(e)
    BY <1>0, <1>1, <1>2, <1>3 DEF DeleteRoles, EditAlone, Deleting
  <2>2. edit' = [edit EXCEPT ![e].seen = user[u].roles, ![e].pc = "insert"] /\ user' = user
    BY <1>1, <1>3, <2>1 DEF DeleteRoles
  <2>3. PICK n \in Edit : n = [edit[e] EXCEPT !.seen = user[u].roles, !.pc = "insert"]
    BY <1>0, <1>1 DEF Edit, User
  <2>4. n.pc = "insert" /\ n.user = u /\ n.seen = user[u].roles
    BY <1>0, <1>1, <2>3 DEF Edit
  <2>5. edit' = [edit EXCEPT ![e] = n]
    BY <2>2, <2>3
  <2>6. \A d \in Edits : edit'[d].user = edit[d].user /\ (edit'[d].pc = "idle" <=> edit[d].pc = "idle")
                         /\ (d # e => edit'[d] = edit[d])
    BY <1>0, <1>1, <2>4, <2>5
  <2>7. \A d \in Edits : EditAlone(d)'
    <3>1. EditAlone(e)'
      BY <1>0, <1>1, <1>2, <2>2, <2>4, <2>5, <2>6 DEF EditAlone, Holds
    <3>2. ASSUME NEW d \in Edits \ {e}
          PROVE  EditAlone(d)'
      <4>1. EditAlone(d)
        BY DEF RoleInv
      <4>. QED  BY <2>2, <2>6, <4>1 DEF EditAlone, Holds
    <3>. QED  BY <3>1, <3>2
  <2>. QED  BY <2>2, <2>7 DEF RoleInv, SingleRoles
<1>4. CASE InsertRole(e)
  <2>1. user[u].roles \ edit[e].seen = {}
    BY <1>0, <1>1, <1>4 DEF InsertRole, EditAlone
  <2>2. user' = [user EXCEPT ![u].roles = {edit[e].role}] /\ edit' = [edit EXCEPT ![e] = NoEdit]
    BY <1>1, <1>4, <2>1 DEF InsertRole
  <2>3. PICK n \in User : n = [user[u] EXCEPT !.roles = {edit[e].role}]
    BY <1>1 DEF User
  <2>4. n.roles = {edit[e].role} /\ user' = [user EXCEPT ![u] = n]
    BY <1>1, <2>2, <2>3 DEF User
  <2>5. SingleRoles'
    BY <1>0, <1>1, <2>4 DEF RoleInv, SingleRoles, Single
  <2>6. edit'[e].pc = "idle" /\ \A d \in Edits \ {e} : edit'[d] = edit[d]
    BY <1>0, <2>2 DEF NoEdit
  <2>7. ASSUME NEW d \in Edits
        PROVE  EditAlone(d)'
    <3>1. EditAlone(d)
      BY DEF RoleInv
    <3>2. d # e /\ edit[d].pc # "idle" => user'[edit[d].user] = user[edit[d].user]
      BY <1>0, <1>2, <2>4
    <3>. QED  BY <2>6, <3>1, <3>2 DEF EditAlone, Holds
  <2>. QED  BY <2>5, <2>7 DEF RoleInv
<1>. QED  BY <1>3, <1>4

LEMMA RoleStep ==
    ASSUME TypeOK, RoleInv, [Next]_vars
    PROVE  RoleInv'
<1>0. user \in [Users -> User \cup {None, Deleted}] /\ edit \in [Edits -> Edit]
  BY DEF TypeOK
<1>1. CASE UNCHANGED <<user, edit>>
  BY <1>1 DEF RoleInv, SingleRoles, EditAlone, Holds
<1>2. ASSUME NEW u \in Users, NEW role \in Roles, CreateUser(u, role)
      PROVE  RoleInv'
  <2>1. ~Locked(u)
    BY <1>2, NoneIsNoRow DEF CreateUser, Locked, Holds, TypeOK
  <2>. QED  BY <1>2, <2>1, UsersKeepRoles DEF CreateUser, Single
<1>3. ASSUME NEW u \in Users, NEW isActive \in BOOLEAN, SetActive(u, isActive)
      PROVE  RoleInv'
  <2>1. user[u] \in User
    BY <1>0, <1>3 DEF SetActive, Exists
  <2>2. PICK n \in User : n = [user[u] EXCEPT !.active = isActive]
    BY <2>1 DEF User
  <2>3. n.roles = user[u].roles /\ user' = [user EXCEPT ![u] = n]
    BY <1>3, <2>1, <2>2 DEF User, SetActive
  <2>4. Single(n.roles)
    BY <2>1, <2>3 DEF RoleInv, SingleRoles
  <2>. QED  BY <1>3, <2>3, <2>4, UsersKeepRoles DEF SetActive
<1>4. ASSUME NEW u \in Users, DeleteUser(u)
      PROVE  RoleInv'
  BY <1>4, UsersKeepRoles, NoneIsNoRow DEF DeleteUser
<1>5. ASSUME NEW u \in Users, NEW e \in Edits, NEW role \in Roles, UpdateUser(e, u, role)
      PROVE  RoleInv'
  <2>. DEFINE n == [pc |-> "locked", user |-> u, role |-> role, seen |-> {}]
  <2>1. edit[e].pc = "idle" /\ edit' = [edit EXCEPT ![e] = n] /\ user' = user /\ ~Locked(u)
    BY <1>5 DEF UpdateUser, Begin
  <2>2. \A d \in Edits \ {e} : edit'[d] = edit[d] /\ ~Holds(d, u)
    BY <1>0, <2>1 DEF Locked
  <2>3. edit'[e] = n
    BY <1>0, <2>1
  <2>4. ASSUME NEW d \in Edits
        PROVE  EditAlone(d)'
    <3>1. CASE d = e
      BY <2>1, <2>2, <2>3, <3>1 DEF EditAlone, Holds
    <3>2. CASE d # e
      <4>1. EditAlone(d)
        BY DEF RoleInv
      <4>. QED  BY <2>1, <2>2, <2>3, <3>2, <4>1 DEF EditAlone, Holds
    <3>. QED  BY <3>1, <3>2
  <2>. QED  BY <2>1, <2>4 DEF RoleInv, SingleRoles
<1>6. ASSUME NEW c \in Calls, CallNext(c) \/ (\E u \in Users : Login(c, u)) \/ \E p \in Refresh : FindToken(c, p)
      PROVE  UNCHANGED <<user, edit>>
  BY <1>6 DEF CallNext, LoadUser, Load, LoginEnds, Rotate, RotateTo, Login, FindToken
<1>7. ASSUME NEW r \in Requests, RequestNext(r) \/ \E a \in Access : Receive(r, a)
      PROVE  UNCHANGED <<user, edit>>
  BY <1>7 DEF RequestNext, CheckBlacklist, Answer, Logout, Receive
<1>8. ASSUME (\E p \in Refresh : RefreshExpires(p)) \/ (\E a \in Access : AccessExpires(a) \/ BlacklistExpires(a)) \/ UNCHANGED vars
      PROVE  UNCHANGED <<user, edit>>
  BY <1>8 DEF RefreshExpires, AccessExpires, BlacklistExpires, vars
<1>. QED  BY <1>1, <1>2, <1>3, <1>4, <1>5, <1>6, <1>7, <1>8, EditKeepsRoles DEF Next

LEMMA RoleInit ==
    ASSUME Init
    PROVE  RoleInv
  BY SessionConstants, NoneIsNoRow DEF Init, RoleInv, SingleRoles, Single, EditAlone, NoEdit

\* However many edits of a user overlap, the user ends with one role at most,
\* since each holds the user's row from its UPDATE to its COMMIT (updateUser).
THEOREM RoleIsOne == Spec => []OneRole
  BY RoleInit, RoleStep, RoleInvImplies, SessionTypes, PTL DEF Spec

-----------------------------------------------------------------------------
(* The safety half of SessionsSettle: what has settled stays so.           *)

\* A token that works is of an active user and has the user's roles.
Agrees(a, u) ==
    access[a] # None /\ access[a].live /\ access[a].user = u
       => Exists(u) /\ user[u].active /\ access[a].roles = user[u].roles
\* A call that is about to sign a token has read the row as it is.
UpToDate(c, u) == call[c].pc \in {"verify", "rotate"} /\ call[c].user = u => call[c].read = user[u]
Settled(u) == (\A a \in Access : Agrees(a, u)) /\ (\A c \in Calls : UpToDate(c, u))
SettledStays == [][\A u \in Users : Settled(u) /\ user'[u] = user[u] => Settled(u)']_vars

\* One call moves and no token changes.
LEMMA CallKeepsSettled ==
    ASSUME TypeOK, NEW u \in Users, Settled(u), user'[u] = user[u], access' = access,
           NEW c \in Calls, NEW q, call' = [call EXCEPT ![c] = q],
           q.pc \in {"verify", "rotate"} /\ q.user = u => q.read = user[u]
    PROVE  Settled(u)'
<1>1. \A a \in Access : Agrees(a, u)'
  BY DEF Settled, Agrees, Exists
<1>2. \A d \in Calls : UpToDate(d, u)'
  BY DEF Settled, UpToDate, TypeOK
<1>. QED  BY <1>1, <1>2 DEF Settled

\* A call ends with a token, signed with what the call had read.
LEMMA SignKeepsSettled ==
    ASSUME TypeOK, NEW u \in Users, Settled(u), user'[u] = user[u], NEW c \in Calls, call' = [call EXCEPT ![c] = NoCall],
           call[c].pc \in {"verify", "rotate"}, call[c].read.active, Exists(call[c].user),
           NEW a \in Access, Sign(a, call[c].user, call[c].read.roles)
    PROVE  Settled(u)'
<1>. DEFINE t == [user |-> call[c].user, roles |-> call[c].read.roles, live |-> TRUE]
<1>1. access' = [access EXCEPT ![a] = t] /\ access \in [Access -> AccessToken \cup {None}]
  BY DEF Sign, TypeOK
<1>2. call[c].user = u => call[c].read = user[u]
  BY DEF Settled, UpToDate
<1>3. \A b \in Access : Agrees(b, u)'
  <2>. TAKE b \in Access
  <2>1. CASE b = a
    BY <1>1, <1>2, <2>1 DEF Agrees, Exists
  <2>2. CASE b # a
    <3>1. access'[b] = access[b]
      BY <1>1, <2>2
    <3>. QED  BY <3>1 DEF Settled, Agrees, Exists
  <2>. QED  BY <2>1, <2>2
<1>4. \A d \in Calls : UpToDate(d, u)'
  BY DEF Settled, UpToDate, TypeOK, NoCall
<1>. QED  BY <1>3, <1>4 DEF Settled

LEMMA SettledStep ==
    ASSUME TypeOK, [Next]_vars, NEW u \in Users, Settled(u), user'[u] = user[u]
    PROVE  Settled(u)'
<1>0. call \in [Calls -> Call] /\ access \in [Access -> AccessToken \cup {None}] /\ NoCall.pc = "idle"
  BY DEF TypeOK, NoCall
<1>1. ASSUME NEW c \in Calls, call' = [call EXCEPT ![c] = NoCall], access' = access
      PROVE  Settled(u)'
  BY <1>0, <1>1, CallKeepsSettled
<1>2. ASSUME NEW c \in Calls, NEW v \in Users, Login(c, v)
      PROVE  Settled(u)'
  BY <1>2, CallKeepsSettled DEF Login
<1>3. ASSUME NEW c \in Calls, NEW p \in Refresh, FindToken(c, p)
      PROVE  Settled(u)'
  BY <1>3, CallKeepsSettled DEF FindToken
<1>4. ASSUME NEW c \in Calls, LoadUser(c)
      PROVE  Settled(u)'
  <2>1. access' = access
    BY <1>4 DEF LoadUser, Load
  <2>2. PICK q : q = [call[c] EXCEPT !.pc = "rotate", !.read = user[call[c].user]]
    OBVIOUS
  <2>3. q.user = call[c].user /\ q.read = user[call[c].user]
    BY <1>0, <2>2 DEF Call
  <2>4. call' = [call EXCEPT ![c] = q] \/ call' = [call EXCEPT ![c] = NoCall]
    BY <1>4, <2>2, Zenon DEF LoadUser, Load
  <2>. QED  BY <1>1, <2>1, <2>3, <2>4, CallKeepsSettled
<1>5. ASSUME NEW c \in Calls, NEW a \in Access, NEW p \in Refresh, LoginEnds(c, a, p)
      PROVE  Settled(u)'
  <2>1. CASE call[c].read.active /\ Exists(call[c].user)
    BY <1>5, <2>1, SignKeepsSettled DEF LoginEnds
  <2>2. CASE ~(call[c].read.active /\ Exists(call[c].user))
    BY <1>1, <1>5, <2>2 DEF LoginEnds
  <2>. QED  BY <2>1, <2>2
<1>6. ASSUME NEW c \in Calls, NEW a \in Access, NEW p \in Refresh, Rotate(c, a, p)
      PROVE  Settled(u)'
  <2>1. call[c].pc = "rotate" /\ call[c].read.active /\ call' = [call EXCEPT ![c] = NoCall]
    BY <1>6 DEF Rotate, RotateTo, TypeOK
  <2>2. CASE Exists(call[c].user)
    <3>1. Sign(a, call[c].user, call[c].read.roles)
      BY <1>6, <2>2, Zenon DEF Rotate, RotateTo
    <3>. QED  BY <2>1, <2>2, <3>1, SignKeepsSettled
  <2>3. CASE ~Exists(call[c].user)
    <3>1. access' = access
      BY <1>6, <2>3, Zenon DEF Rotate, RotateTo
    <3>. QED  BY <1>1, <2>1, <3>1
  <2>. QED  BY <2>2, <2>3
<1>7. ASSUME NEW a \in Access, AccessExpires(a)
      PROVE  Settled(u)'
  <2>1. PICK t : t = [access[a] EXCEPT !.live = FALSE]
    OBVIOUS
  <2>2. ~t.live /\ access' = [access EXCEPT ![a] = t] /\ call' = call
    BY <1>0, <1>7, <2>1 DEF AccessExpires, AccessToken
  <2>3. \A b \in Access : Agrees(b, u)'
    BY <1>0, <2>2 DEF Settled, Agrees, Exists
  <2>. QED  BY <2>2, <2>3 DEF Settled, UpToDate
<1>8. ASSUME UNCHANGED <<access, call>>
      PROVE  Settled(u)'
  BY <1>8 DEF Settled, Agrees, UpToDate, Exists
<1>9. ASSUME ~\E c \in Calls : CallNext(c) \/ (\E v \in Users : Login(c, v)) \/ \E p \in Refresh : FindToken(c, p),
             ~\E a \in Access : AccessExpires(a)
      PROVE  UNCHANGED <<access, call>>
  BY <1>9 DEF Next, vars, RefreshExpires, RequestNext, CheckBlacklist, Answer, Logout, Receive, BlacklistExpires,
              CreateUser, SetActive, DeleteUser, UpdateUser, Begin, DeleteRoles, InsertRole
<1>. QED  BY <1>2, <1>3, <1>4, <1>5, <1>6, <1>7, <1>8, <1>9 DEF CallNext

\* When the tokens that work and the calls under way agree with a user's row,
\* only a change of that row makes one of them disagree: no login or refresh can
\* bring back roles, or a user, that were there before (AuthService).
THEOREM SettledSessionsStay == Spec => SettledStays
<1>1. ASSUME TypeOK, [Next]_vars, NEW u \in Users, Settled(u), user'[u] = user[u]
      PROVE  Settled(u)'
  BY <1>1, SettledStep
<1>2. TypeOK /\ [Next]_vars => [\A u \in Users : Settled(u) /\ user'[u] = user[u] => Settled(u)']_vars
  BY <1>1
<1>. QED  BY <1>2, SessionTypes, PTL DEF Spec, SettledStays
=============================================================================
