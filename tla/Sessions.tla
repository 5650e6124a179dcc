------------------------------ MODULE Sessions ------------------------------
(***************************************************************************)
(* Sessions of a tenant's users: AuthService (login, refresh tokens that   *)
(* are rotated, logout by a blacklist in Redis), JwtAuthGuard, which every *)
(* request passes, and AdminUsersService, which changes the users under    *)
(* the sessions.                                                           *)
(*                                                                         *)
(* A step is one statement that others can come between, or one            *)
(* transaction.  Tokens are a few identities, used again when nothing      *)
(* refers to them any more.  The tenant's own status is in TenantGateway.  *)
(***************************************************************************)
EXTENDS Naturals, FiniteSets

CONSTANTS Users, Seeded, Roles, Access, Refresh, Calls, Requests, Edits, Deleted, None

ASSUME SessionConstants ==
    /\ Seeded \subseteq Users
    /\ Roles # {}
    /\ None \notin Users \cup Roles \cup Access \cup Refresh /\ Deleted # None

VARIABLES
    user,      \* rows of users and user_roles
    refresh,   \* rows of refresh_tokens that have not expired
    access,    \* the access tokens that were signed, live until their exp
    blacklist, \* auth:blacklist:<jti>
    call,      \* login and refresh calls
    request,   \* requests with an access token
    edit,      \* updateUser transactions
    out        \* not in the code: tokens whose logout was answered

vars == <<user, refresh, access, blacklist, call, request, edit, out>>

User == [active : BOOLEAN, roles : SUBSET Roles]
\* heirs and shared are not in the code: how many tokens (up to two) replaced
\* this one, and whether two calls ever held it at a time.
RefreshToken == [user : Users, revoked : BOOLEAN, heirs : 0..2, shared : BOOLEAN]
AccessToken == [user : Users, roles : SUBSET Roles, live : BOOLEAN]
Call == [pc : {"idle", "verify", "load", "rotate"}, user : Users \cup {None},
         token : Refresh \cup {None}, read : User \cup {None}]
NoCall == [pc |-> "idle", user |-> None, token |-> None, read |-> None]
Request == [pc : {"idle", "check", "served"}, token : Access \cup {None}, late : BOOLEAN]
NoRequest == [pc |-> "idle", token |-> None, late |-> FALSE]
Edit == [pc : {"idle", "locked", "waits", "insert"}, user : Users \cup {None}, role : Roles \cup {None},
         seen : SUBSET Roles]
NoEdit == [pc |-> "idle", user |-> None, role |-> None, seen |-> {}]

ASSUME NoneIsNoRow == None \notin User \cup RefreshToken \cup AccessToken /\ Deleted \notin User

TypeOK ==
    /\ user \in [Users -> User \cup {None, Deleted}]
    /\ refresh \in [Refresh -> RefreshToken \cup {None}]
    /\ access \in [Access -> AccessToken \cup {None}]
    /\ blacklist \subseteq Access /\ out \subseteq Access
    /\ call \in [Calls -> Call]
    /\ request \in [Requests -> Request]
    /\ edit \in [Edits -> Edit]
    /\ \A r \in Requests : request[r].pc # "idle" => request[r].token \in Access /\ access[request[r].token] # None
    /\ \A c \in Calls :
          /\ call[c].pc # "idle" => call[c].user \in Users
          /\ call[c].pc \in {"load", "rotate"} => call[c].token \in Refresh
          /\ call[c].pc = "verify" => call[c].read # None
          /\ call[c].pc = "rotate" => call[c].read # None /\ call[c].read.active
    /\ \A p \in Refresh : refresh[p] # None => user[refresh[p].user] \in User
    /\ \A e \in Edits : edit[e].pc # "idle" =>
          edit[e].role \in Roles /\ edit[e].user \in Users /\ user[edit[e].user] \in User

Init ==
    /\ user = [u \in Users |-> IF u \in Seeded THEN [active |-> TRUE, roles |-> {CHOOSE x \in Roles : TRUE}] ELSE None]
    /\ refresh = [p \in Refresh |-> None]
    /\ access = [a \in Access |-> None]
    /\ blacklist = {} /\ out = {}
    /\ call = [c \in Calls |-> NoCall]
    /\ request = [r \in Requests |-> NoRequest]
    /\ edit = [e \in Edits |-> NoEdit]

Exists(u) == user[u] \notin {None, Deleted}

-----------------------------------------------------------------------------
(* AuthService *)

\* Tokens are random, so a new one is one that nobody can still present.
NewRefresh(p) == refresh[p] = None /\ \A c \in Calls : call[c].token # p
NewAccess(a) ==
    /\ access[a] # None => ~access[a].live
    /\ a \notin blacklist /\ \A r \in Requests : request[r].token # a

\* sign() and the answer: an access token with the roles that were read.
Sign(a, u, roles) ==
    /\ NewAccess(a)
    /\ access' = [access EXCEPT ![a] = [user |-> u, roles |-> roles, live |-> TRUE]]
    /\ out' = out \ {a}

NewToken(u) == [user |-> u, revoked |-> FALSE, heirs |-> 0, shared |-> FALSE]

\* login: the user and the roles are read and committed, then the password is compared.
Login(c, u) ==
    /\ call[c].pc = "idle" /\ Exists(u)
    /\ call' = [call EXCEPT ![c] = [pc |-> "verify", user |-> u, token |-> None, read |-> user[u]]]
    /\ UNCHANGED <<user, refresh, access, blacklist, request, edit, out>>

\* The rest of login; the INSERT of the refresh token needs the user's row.
LoginEnds(c, a, p) ==
    LET u == call[c].user
    IN  /\ call[c].pc = "verify"
        /\ call' = [call EXCEPT ![c] = NoCall]
        /\ IF call[c].read.active /\ Exists(u)
             THEN /\ Sign(a, u, call[c].read.roles)
                  /\ NewRefresh(p) /\ refresh' = [refresh EXCEPT ![p] = NewToken(u)]
             ELSE UNCHANGED <<refresh, access, out>>
        /\ UNCHANGED <<user, blacklist, request, edit>>

\* refresh: the token is looked up among those not revoked.
FindToken(c, p) ==
    /\ call[c].pc = "idle"
    /\ refresh[p] # None /\ ~refresh[p].revoked
    /\ call' = [call EXCEPT ![c] = [pc |-> "load", user |-> refresh[p].user, token |-> p, read |-> None]]
    /\ refresh' = [refresh EXCEPT ![p].shared = @ \/ \E d \in Calls : call[d].token = p]
    /\ UNCHANGED <<user, access, blacklist, request, edit, out>>

Load(c, usable) ==
    /\ call[c].pc = "load"
    /\ \/ usable /\ call' = [call EXCEPT ![c].pc = "rotate", ![c].read = user[call[c].user]]
       \/ ~usable /\ call' = [call EXCEPT ![c] = NoCall]
    /\ UNCHANGED <<user, refresh, access, blacklist, request, edit, out>>
\* Faulty variant of LoadUser: a deactivated user goes on.
LoadAnyUser(c) == Load(c, Exists(call[c].user))
LoadUser(c) == Load(c, Exists(call[c].user) /\ user[call[c].user].active)

Replaced(t, revoke) == [t EXCEPT !.revoked = @ \/ revoke, !.heirs = IF @ < 2 THEN @ + 1 ELSE 2]

\* One transaction: the old token is revoked by its id, whatever others did to
\* it meanwhile, and a new one is inserted; a deleted user makes both fail.
RotateTo(c, a, p, revoke) ==
    LET q == call[c].token
        u == call[c].user
    IN  /\ call[c].pc = "rotate"
        /\ call' = [call EXCEPT ![c] = NoCall]
        /\ IF Exists(u)
             THEN /\ Sign(a, u, call[c].read.roles) /\ NewRefresh(p)
                  /\ refresh' = [refresh EXCEPT ![p] = NewToken(u),
                                                ![q] = IF @ = None THEN None ELSE Replaced(@, revoke)]
             ELSE UNCHANGED <<refresh, access, out>>
        /\ UNCHANGED <<user, blacklist, request, edit>>
\* Faulty variant of Rotate: the old token is not revoked.
RotateWithoutRevoking(c, a, p) == RotateTo(c, a, p, FALSE)
Rotate(c, a, p) == RotateTo(c, a, p, TRUE)

RefreshExpires(p) ==
    /\ refresh[p] # None
    /\ refresh' = [refresh EXCEPT ![p] = None]
    /\ UNCHANGED <<user, access, blacklist, call, request, edit, out>>

-----------------------------------------------------------------------------
(* JwtAuthGuard and logout *)

\* The strategy verifies signature and exp, the guard asks Redis afterwards.
Receive(r, a) ==
    /\ request[r].pc = "idle"
    /\ access[a] # None /\ access[a].live
    /\ request' = [request EXCEPT ![r] = [pc |-> "check", token |-> a, late |-> a \in out]]
    /\ UNCHANGED <<user, refresh, access, blacklist, call, edit, out>>

CheckBlacklist(r) ==
    /\ request[r].pc = "check"
    /\ request' = [request EXCEPT ![r] = IF @.token \in blacklist THEN NoRequest ELSE [@ EXCEPT !.pc = "served"]]
    /\ UNCHANGED <<user, refresh, access, blacklist, call, edit, out>>

Answer(r) ==
    /\ request[r].pc = "served"
    /\ request' = [request EXCEPT ![r] = NoRequest]
    /\ UNCHANGED <<user, refresh, access, blacklist, call, edit, out>>

\* The request is the logout: SETEX until the token's exp, unless that is over.
\* The refresh token stays as it is.
Logout(r) ==
    LET a == request[r].token
    IN  /\ request[r].pc = "served"
        /\ request' = [request EXCEPT ![r] = NoRequest]
        /\ blacklist' = IF access[a].live THEN blacklist \cup {a} ELSE blacklist
        /\ out' = out \cup {a}
        /\ UNCHANGED <<user, refresh, access, call, edit>>

AccessExpires(a) ==
    /\ access[a] # None /\ access[a].live
    /\ access' = [access EXCEPT ![a].live = FALSE]
    /\ UNCHANGED <<user, refresh, blacklist, call, request, edit, out>>

\* Faulty variant of BlacklistExpires: the entry's TTL is not the token's.
BlacklistExpiresEarly(a) ==
    /\ a \in blacklist
    /\ blacklist' = blacklist \ {a}
    /\ UNCHANGED <<user, refresh, access, call, request, edit, out>>
\* The entry's TTL is what was left of the token's life.
BlacklistExpires(a) ==
    /\ a \in blacklist /\ ~access[a].live
    /\ blacklist' = blacklist \ {a}
    /\ UNCHANGED <<user, refresh, access, call, request, edit, out>>

-----------------------------------------------------------------------------
(* AdminUsersService *)

Holds(e, u) == edit[e].user = u /\ edit[e].pc # "idle"
Locked(u) == \E e \in Edits : Holds(e, u)

\* createUser, setActive: one transaction each.
CreateUser(u, role) ==
    /\ user[u] = None
    /\ user' = [user EXCEPT ![u] = [active |-> TRUE, roles |-> {role}]]
    /\ UNCHANGED <<refresh, access, blacklist, call, request, edit, out>>

SetActive(u, isActive) ==
    /\ Exists(u) /\ ~Locked(u)
    /\ user' = [user EXCEPT ![u].active = isActive]
    /\ UNCHANGED <<refresh, access, blacklist, call, request, edit, out>>

\* deleteUser: the user's roles and refresh tokens go with the row.
DeleteUser(u) ==
    /\ Exists(u) /\ ~Locked(u)
    /\ user' = [user EXCEPT ![u] = Deleted]
    /\ refresh' = [p \in Refresh |-> IF refresh[p] # None /\ refresh[p].user = u THEN None ELSE refresh[p]]
    /\ UNCHANGED <<access, blacklist, call, request, edit, out>>

Begin(e, u, role) ==
    /\ edit[e].pc = "idle" /\ Exists(u)
    /\ edit' = [edit EXCEPT ![e] = [pc |-> "locked", user |-> u, role |-> role, seen |-> {}]]
    /\ UNCHANGED <<user, refresh, access, blacklist, call, request, out>>
\* Faulty variant of UpdateUser: the role alone is sent, so no row of users is
\* written and none locked (a client of the API may do that, the console does not).
UpdateRole(e, u, role) == Begin(e, u, role)
\* updateUser with name, e-mail and role, as the console sends it: UPDATE users
\* locks the row until the end of the transaction.
UpdateUser(e, u, role) == ~Locked(u) /\ Begin(e, u, role)

\* The rows another transaction has deleted and not yet committed.
Deleting(e) == \E d \in Edits \ {e} : edit[d].pc = "insert" /\ edit[d].user = edit[e].user

\* DELETE FROM user_roles: the statement's snapshot; rows that another
\* transaction deletes are waited for and then skipped.
DeleteRoles(e) ==
    LET u == edit[e].user
    IN  /\ \/ edit[e].pc = "locked"
           \/ edit[e].pc = "waits" /\ ~Deleting(e)
        /\ edit' = [edit EXCEPT ![e].seen = IF edit[e].pc = "waits" THEN @ \cap user[u].roles ELSE user[u].roles,
                                ![e].pc = IF edit[e].pc = "locked" /\ Deleting(e) THEN "waits" ELSE "insert"]
        /\ UNCHANGED <<user, refresh, access, blacklist, call, request, out>>

\* INSERT INTO user_roles, COMMIT; a role that is still there is a conflict.
InsertRole(e) ==
    LET u == edit[e].user
        left == user[u].roles \ edit[e].seen
    IN  /\ edit[e].pc = "insert"
        /\ edit' = [edit EXCEPT ![e] = NoEdit]
        /\ user' = IF edit[e].role \in left THEN user
                   ELSE [user EXCEPT ![u].roles = left \cup {edit[e].role}]
        /\ UNCHANGED <<refresh, access, blacklist, call, request, out>>

-----------------------------------------------------------------------------
CallNext(c) ==
    \/ LoadUser(c)
    \/ \E a \in Access, p \in Refresh : LoginEnds(c, a, p) \/ Rotate(c, a, p)

RequestNext(r) == CheckBlacklist(r) \/ Answer(r) \/ Logout(r)

Next ==
    \/ \E c \in Calls : \/ \E u \in Users : Login(c, u)
                        \/ \E p \in Refresh : FindToken(c, p)
                        \/ CallNext(c)
    \/ \E p \in Refresh : RefreshExpires(p)
    \/ \E r \in Requests : RequestNext(r) \/ \E a \in Access : Receive(r, a)
    \/ \E a \in Access : AccessExpires(a) \/ BlacklistExpires(a)
    \/ \E u \in Users :
          \/ \E role \in Roles : CreateUser(u, role)
          \/ \E isActive \in BOOLEAN : SetActive(u, isActive)
          \/ DeleteUser(u)
          \/ \E e \in Edits, role \in Roles : UpdateUser(e, u, role)
    \/ \E e \in Edits : DeleteRoles(e) \/ InsertRole(e)

Spec == Init /\ [][Next]_vars

\* Calls that have begun go on and access tokens reach their exp; nobody has to
\* log in, out or be changed.
FairSpec ==
    /\ Spec
    /\ \A c \in Calls : WF_vars(CallNext(c))
    /\ \A a \in Access : WF_vars(AccessExpires(a))

-----------------------------------------------------------------------------
(* Properties *)

\* A request that came after the token's logout was answered is not served while
\* the token could still be: the guard verifies the token before it asks for the
\* blacklist, and only a token whose time runs out in between can pass.
LogoutHolds ==
    \A r \in Requests : request[r].pc = "served" /\ request[r].late => ~access[request[r].token].live

\* A refresh token is replaced twice only by calls that held it at the same time
\* (AuthService.refresh reads the token before the transaction that revokes it).
RotatesOnce == \A p \in Refresh : refresh[p] # None /\ refresh[p].heirs > 1 => refresh[p].shared

\* Whatever edits of one user overlap, the user ends with one role, since every
\* edit of the console locks the user's row before it replaces the role.
OneRole == \A u \in Users : Exists(u) => Cardinality(user[u].roles) <= 1

\* Sessions follow the user at last: when a user's row stays as it is, every
\* access token that still works is of an active user and has the user's roles,
\* whatever logins and refreshes had read before the last change.
SessionsSettle ==
    \A u \in Users :
        <>[][user'[u] = user[u]]_user
            => <>[](\A a \in Access : access[a] # None /\ access[a].live /\ access[a].user = u
                       => Exists(u) /\ user[u].active /\ access[a].roles = user[u].roles)
=============================================================================
