---------------------------- MODULE StaffAccounts ----------------------------
(***************************************************************************)
(* Staff accounts, their roles and the token pairs they sign in with       *)
(* (auth.service.ts, rbac.service.ts, reset-admin-password.ts).            *)
(*                                                                         *)
(* A request reads and checks in its first step and writes in the ones     *)
(* that follow; whatever other requests do comes in between.               *)
(***************************************************************************)
EXTENDS Integers, FiniteSets

CONSTANTS
    Users, Roles, AdminRole,
    Catalog,                  \* permission keys the panel may assign
    Super,                    \* the wildcard
    ManageUsers, ManageRoles, \* keys of the catalog that guard these requests
    FirstRole, FirstUser,     \* the tables after the seed
    Grants,                   \* permission sets that role edits ask for
    Requests,
    MaxAsked                  \* bound: requests

ASSUME StaffAssumption ==
    /\ AdminRole \in Roles /\ Super \notin Catalog
    /\ ManageUsers \in Catalog /\ ManageRoles \in Catalog
    /\ FirstRole \in [Roles -> [state: {"none", "live"}, perms: SUBSET (Catalog \cup {Super})]]
    /\ FirstRole[AdminRole] = [state |-> "live", perms |-> {Super}]
    /\ FirstUser \in [Users -> [state: {"none", "active", "inactive"}, roles: SUBSET Roles,
                               version: {0}, current: {0}]]
    /\ \A u \in Users : \A r \in FirstUser[u].roles : FirstRole[r].state = "live"
    /\ \A u \in Users : FirstUser[u].state = "none" => FirstUser[u].roles = {}
    /\ Grants \subseteq SUBSET Catalog
    /\ MaxAsked \in Nat

VARIABLES
    role,    \* roles and role_permissions
    user,    \* users and user_roles
    issued,  \* token pairs handed out
    task,    \* requests in flight
    asked,
    killed,     \* history: pairs handed out before their user's sessions were revoked
    overtaken,  \* history: accounts saved from a copy that a revocation overtook
    contested   \* history: a role lost the management of accounts, or an account
                \* did while another edit of an account was under way

history == <<killed, overtaken, contested>>
vars == <<role, user, issued, task, asked, history>>

NewUser == [state |-> "none", roles |-> {}, version |-> 0, current |-> 0]
NoTask == [step |-> "idle", user |-> "none", row |-> NewUser, read |-> 0,
           over |-> {}, perms |-> {}, from |-> 0, todo |-> {}, role |-> "none"]

Exists(r) == role[r].state = "live"
Present(u) == user[u].state \in {"active", "inactive"}
PermsOf(R) == UNION {role[r].perms : r \in R}

-----------------------------------------------------------------------------
(* Guards *)

\* (fault) the token version is not compared
AnyVersion(t) == user[t.user].state = "active"

\* Both tokens of a pair: the account exists, is active, and has their version.
Accepted(t) == user[t.user].state = "active" /\ user[t.user].version = t.version

Allows(t, p) == Accepted(t) /\ t.perms \cap {Super, p} # {}

\* An actor grants only what the token presented holds.
MayGrant(t, P) == Super \in t.perms \/ P \subseteq t.perms

GrantsManagement(P) == P \cap {Super, ManageUsers} # {}

Manages(row) == row.state = "active" /\ GrantsManagement(PermsOf(row.roles))

Managers == {u \in Users : Manages(user[u])}

\* (fault) deactivated managers count as remaining
LastOfAll(u) ==
    /\ Manages(user[u])
    /\ \A v \in Users \ {u} : ~GrantsManagement(PermsOf(user[v].roles))

IsLastManager(u) == Managers = {u}

-----------------------------------------------------------------------------
(* Requests *)

Ready(q) == task[q] = NoTask /\ asked < MaxAsked

Start(q, w) ==
    /\ Ready(q)
    /\ task' = [task EXCEPT ![q] = w]
    /\ asked' = asked + 1

Answer(q) == task' = [task EXCEPT ![q] = NoTask]

Bumping(q, U) ==
    task' = [task EXCEPT ![q] =
        IF U = {} THEN NoTask ELSE [@ EXCEPT !.step = "bump", !.todo = U]]

IssueTo(u, from) ==
    [NoTask EXCEPT !.step = "issue", !.user = u, !.row = user[u],
                   !.perms = PermsOf(user[u].roles), !.from = from]

Login(q, u) ==
    /\ user[u].state = "active"
    /\ Start(q, IssueTo(u, 0))
    /\ UNCHANGED <<role, user, issued, history>>

\* A refresh token that is not the current one was rotated before: the whole
\* family is revoked.
Refresh(q, t) ==
    /\ Accepted(t)
    /\ Start(q,
             IF user[t.user].current = t.id
             THEN IssueTo(t.user, t.id)
             ELSE [NoTask EXCEPT !.step = "bump", !.todo = {t.user}])
    /\ UNCHANGED <<role, user, issued, history>>

\* (fault) the version is read again when the pair is signed
VersionNow(w) == user[w.user].version

\* The pair carries what was read with the account.
VersionSigned(w) == w.row.version

Issue(q) ==
    LET w == task[q]
        id == Cardinality(issued) + 1
    IN /\ w.step = "issue"
       /\ user' = IF Present(w.user) THEN [user EXCEPT ![w.user].current = id] ELSE user
       /\ issued' = issued \cup
             {[user |-> w.user, version |-> VersionSigned(w), id |-> id,
               perms |-> w.perms, from |-> w.from]}
       /\ Answer(q)
       /\ UNCHANGED <<role, asked, history>>

Logout(q, t) ==
    /\ Accepted(t)
    /\ Start(q, [NoTask EXCEPT !.step = "bump", !.todo = {t.user}])
    /\ UNCHANGED <<role, user, issued, history>>

Revoked(u) == killed \cup {t \in issued : t.user = u}

\* bumpTokenVersion: the increment, then the rotation anchor.
Bump(q, u) ==
    /\ task[q].step = "bump" /\ u \in task[q].todo
    /\ user' = IF Present(u) THEN [user EXCEPT ![u].version = @ + 1] ELSE user
    /\ killed' = Revoked(u)
    /\ task' = [task EXCEPT ![q].step = "clear", ![q].user = u]
    /\ UNCHANGED <<role, issued, asked, overtaken, contested>>

Clear(q) ==
    LET u == task[q].user
    IN /\ task[q].step = "clear"
       /\ user' = IF Present(u) THEN [user EXCEPT ![u].current = 0] ELSE user
       /\ Bumping(q, task[q].todo \ {u})
       /\ UNCHANGED <<role, issued, asked, history>>

-----------------------------------------------------------------------------
(* Roles *)

CreateRole(q, t, r, P) ==
    /\ Allows(t, ManageRoles) /\ MayGrant(t, P) /\ role[r].state = "none"
    /\ Ready(q) /\ asked' = asked + 1
    /\ role' = [role EXCEPT ![r] = [state |-> "live", perms |-> P]]
    /\ UNCHANGED <<user, issued, task, history>>

\* updateRole holds a copy of the role, with new permissions or those it read.
EditRole(q, t, r, P) ==
    /\ Allows(t, ManageRoles) /\ Exists(r) /\ r # AdminRole
    /\ P = role[r].perms \/ (P \in Grants /\ MayGrant(t, P))
    /\ Start(q, [NoTask EXCEPT !.step = "saveRole", !.role = r, !.perms = P])
    /\ UNCHANGED <<role, user, issued, history>>

SaveRole(q) ==
    /\ task[q].step = "saveRole"
    /\ role' = [role EXCEPT ![task[q].role] = [state |-> "live", perms |-> task[q].perms]]
    /\ task' = [task EXCEPT ![q].step = "holders"]
    /\ contested' = (contested \/ (/\ GrantsManagement(role[task[q].role].perms)
                                  /\ ~GrantsManagement(task[q].perms)))
    /\ UNCHANGED <<user, issued, asked, killed, overtaken>>

\* (fault) only holders with a session in the table are invalidated
SignedInHolders(r) == {u \in Users : r \in user[u].roles /\ user[u].current # 0}

HoldersOf(r) == {u \in Users : r \in user[u].roles}

Holders(q) ==
    /\ task[q].step = "holders"
    /\ Bumping(q, HoldersOf(task[q].role))
    /\ UNCHANGED <<role, user, issued, asked, history>>

\* The join table's foreign key closes the window after the check.
DeleteRole(q, t, r) ==
    /\ Allows(t, ManageRoles) /\ Exists(r) /\ r # AdminRole
    /\ HoldersOf(r) = {}
    /\ Ready(q) /\ asked' = asked + 1
    /\ role' = [role EXCEPT ![r].state = "gone"]
    /\ UNCHANGED <<user, issued, task, history>>

-----------------------------------------------------------------------------
(* Accounts *)

\* States of the row that a save without, and with, a password can write.
Incomplete == {"active", "inactive"}
Complete == {"active", "inactive", "gone"}

CreateUser(q, t, u, R) ==
    /\ Allows(t, ManageUsers) /\ user[u].state = "none"
    /\ \A r \in R : Exists(r) /\ MayGrant(t, role[r].perms)
    /\ Start(q, [NoTask EXCEPT !.step = "saveUser", !.user = u,
                            !.over = {"none"},
                            !.row = [NewUser EXCEPT !.state = "active", !.roles = R]])
    /\ UNCHANGED <<role, user, issued, history>>

\* updateUser holds a copy of the account with the patch applied. Its sessions
\* are invalidated unless the patch changes the name alone. A patch of the
\* password makes the copy complete: saved after a removal, it is inserted again.
UpdateUser(q, t, u, s, R, bump, password) ==
    LET row == [user[u] EXCEPT !.state = s, !.roles = R]
    IN /\ Allows(t, ManageUsers) /\ Present(u)
       /\ row # user[u] \/ password => bump
       /\ ~Manages(row) => ~IsLastManager(u)
       /\ R # user[u].roles =>
             /\ \A r \in R : Exists(r) /\ MayGrant(t, role[r].perms)
             /\ t.user = u => Super \in t.perms
       /\ Start(q, [NoTask EXCEPT !.step = "saveUser", !.user = u, !.row = row,
                               !.read = user[u].version, !.over = IF password THEN Complete ELSE Incomplete,
                               !.todo = IF bump THEN {u} ELSE {}])
       /\ UNCHANGED <<role, user, issued, history>>

\* The operator's script: the next version, an active account.
ResetPassword(q, u) ==
    /\ Present(u)
    /\ Start(q, [NoTask EXCEPT !.step = "saveUser", !.user = u, !.over = Complete,
             !.read = user[u].version,
             !.row = [user[u] EXCEPT !.state = "active", !.version = @ + 1]])
    /\ UNCHANGED <<role, user, issued, history>>

EditsAccount(q) == task[q].step \in {"saveUser", "deleteUser"}

\* q ends somebody's management while another account edit is under way.
Contest(q) ==
    contested' = (contested \/ (/\ ~(Managers \subseteq Managers')
                              /\ \E p \in Requests \ {q} : EditsAccount(p)))

\* The save writes the whole copy; one with a removed role fails, and an insert over
\* an account or without a password.
SaveUser(q) ==
    LET w == task[q]
        saved == user[w.user].state \in w.over /\ \A r \in w.row.roles : Exists(r)
    IN /\ w.step = "saveUser"
       /\ user' = IF saved THEN [user EXCEPT ![w.user] = w.row] ELSE user
       /\ killed' = IF saved /\ w.row.version > user[w.user].version
                    THEN Revoked(w.user) ELSE killed
       /\ overtaken' = IF saved /\ user[w.user].state # "none"
                             /\ (Present(w.user) => user[w.user].version # w.read)
                       THEN overtaken \cup {w.user} ELSE overtaken
       /\ Bumping(q, IF saved THEN w.todo ELSE {})
       /\ UNCHANGED <<role, issued, asked>>
       /\ Contest(q)

DeleteUser(q, t, u) ==
    /\ Allows(t, ManageUsers) /\ Present(u) /\ ~IsLastManager(u)
    /\ Start(q, [NoTask EXCEPT !.step = "deleteUser", !.user = u])
    /\ UNCHANGED <<role, user, issued, history>>

RemoveUser(q) ==
    /\ task[q].step = "deleteUser"
    /\ user' = [user EXCEPT ![task[q].user] = [NewUser EXCEPT !.state = "gone"]]
    /\ killed' = Revoked(task[q].user)
    /\ Answer(q)
    /\ UNCHANGED <<role, issued, asked, overtaken>>
    /\ Contest(q)

-----------------------------------------------------------------------------
Init ==
    /\ role = FirstRole /\ user = FirstUser
    /\ issued = {}
    /\ killed = {} /\ overtaken = {} /\ contested = FALSE
    /\ task = [q \in Requests |-> NoTask]
    /\ asked = 0

Signing(q) ==
    \/ Ready(q) /\ \E u \in Users : Login(q, u)
    \/ Ready(q) /\ \E t \in issued : Refresh(q, t) \/ Logout(q, t)
    \/ Issue(q)
    \/ \E u \in Users : Bump(q, u)
    \/ Clear(q)

RoleKeeping(q) ==
    \/ Ready(q) /\ \E t \in issued, r \in Roles :
          \/ DeleteRole(q, t, r)
          \/ \E P \in Grants : CreateRole(q, t, r, P)
          \/ \E P \in Grants \cup {role[r].perms} : EditRole(q, t, r, P)
    \/ SaveRole(q) \/ Holders(q)

UserKeeping(q) ==
    \/ Ready(q) /\ \E t \in issued, u \in Users :
          \/ DeleteUser(q, t, u)
          \/ \E R \in SUBSET Roles :
                \/ CreateUser(q, t, u, R)
                \/ \E s \in {"active", "inactive"}, bump, password \in BOOLEAN :
                      UpdateUser(q, t, u, s, R, bump, password)
    \/ Ready(q) /\ \E u \in Users : ResetPassword(q, u)
    \/ SaveUser(q) \/ RemoveUser(q)

Next == \E q \in Requests : Signing(q) \/ RoleKeeping(q) \/ UserKeeping(q)

Spec == Init /\ [][Next]_vars

-----------------------------------------------------------------------------
(***************************************************************************)
(* Properties                                                              *)
(***************************************************************************)

Keys == Catalog \cup {Super}
Row == [state: {"none", "active", "inactive", "gone"}, roles: SUBSET Roles, version: Nat, current: Nat]
Pair == [user: Users, version: Nat, id: Nat, perms: SUBSET Keys, from: Nat]
Task == [step: {"idle", "issue", "bump", "clear", "saveRole", "holders", "saveUser", "deleteUser"},
         user: Users \cup {"none"}, row: Row, read: Nat,
         over: SUBSET {"none", "active", "inactive", "gone"}, perms: SUBSET Keys, from: Nat,
         todo: SUBSET Users, role: Roles \cup {"none"}]

\* Tables, pairs and requests are well typed; a role in use exists; a request
\* names the account or role it is about.
TypeOK ==
    /\ role \in [Roles -> [state: {"none", "live", "gone"}, perms: SUBSET Keys]]
    /\ user \in [Users -> Row]
    /\ \A u \in Users : \A r \in user[u].roles : Exists(r)
    /\ issued \subseteq Pair /\ IsFiniteSet(issued) /\ killed \subseteq issued
    /\ task \in [Requests -> Task]
    /\ \A q \in Requests :
          /\ task[q].step \in {"issue", "clear", "saveUser", "deleteUser"} => task[q].user \in Users
          /\ task[q].step \in {"saveRole", "holders"} => task[q].role \in Roles
    /\ asked \in Nat /\ overtaken \subseteq Users /\ contested \in BOOLEAN

\* A revocation is on its way to the sessions of u.
BumpPending(u) ==
    \E q \in Requests :
        \/ task[q].step \in {"bump", "clear"} /\ u \in task[q].todo
        \/ task[q].step = "holders" /\ task[q].role \in user[u].roles

\* A change of roles or of their permissions is enforced on the next request: no
\* accepted token grants more than its account's roles do, however logins,
\* refreshes, role and account edits overlap, once the revocations they started are
\* done. Excepted: an account saved from a copy that a revocation overtook.
NoStaleGrants ==
    \A t \in issued :
        Accepted(t) /\ t.user \notin overtaken =>
            t.perms \subseteq PermsOf(user[t.user].roles) \/ BumpPending(t.user)

\* A pair handed out before its user was revoked (logout, reuse detected, role or
\* account changed, account removed, password reset) is never accepted again, unless
\* the account was saved from a copy that a revocation overtook.
KilledStaysDead == \A t \in killed : t.user \notin overtaken => ~Accepted(t)

\* Without the exception: rename_revives_token.cfg refutes it.
NeverRevived == \A t \in killed : ~Accepted(t)

\* Somebody can manage the accounts, whatever edits overlap, unless a role lost that
\* permission or an account lost it while another account edit, which may have
\* counted on it, was between its check and its save.
ManagerRemains == contested \/ Managers # {}

\* Without the exceptions: the overlap refutes it here, the role in
\* role_edit_locks_out.cfg.
SomebodyManages == Managers # {}

\* A refresh token is exchanged once.
RedeemedOnce ==
    \A t1, t2 \in issued : t1.from = t2.from /\ t1.from # 0 => t1 = t2
=============================================================================
