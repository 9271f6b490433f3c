------------------------ MODULE StaffAccountsProofs ------------------------
(***************************************************************************)
(* Theorems about StaffAccounts, for any number of accounts, roles and     *)
(* requests.                                                               *)
(***************************************************************************)
EXTENDS StaffAccounts, FiniteSetTheorems, TLAPS

-----------------------------------------------------------------------------
(* Types *)

\* A request in flight is well typed and names what it is about.
Named(w) ==
    /\ w.step \in {"issue", "clear", "saveUser", "deleteUser"} => w.user \in Users
    /\ w.step \in {"saveRole", "holders"} => w.role \in Roles

TasksTyped == task \in [Requests -> Task] /\ \A q \in Requests : Named(task[q])

RolesTyped == role \in [Roles -> [state: {"none", "live", "gone"}, perms: SUBSET Keys]]

UsersTyped ==
    /\ user \in [Users -> Row]
    /\ \A u \in Users : \A r \in user[u].roles : Exists(r)

PairsTyped == issued \subseteq Pair /\ IsFiniteSet(issued) /\ killed \subseteq issued

FlagsTyped == overtaken \subseteq Users /\ contested \in BOOLEAN

LEMMA TypeParts ==
    TypeOK <=> /\ RolesTyped /\ UsersTyped /\ PairsTyped /\ TasksTyped
               /\ asked \in Nat /\ FlagsTyped
BY DEF TypeOK, RolesTyped, UsersTyped, PairsTyped, TasksTyped, Named, FlagsTyped

LEMMA FreshTyped == NewUser \in Row /\ NoTask \in Task /\ Named(NoTask)
BY DEF NewUser, NoTask, Row, Task, Named

\* One request changes.
LEMMA TaskSet ==
    ASSUME NEW q \in Requests, NEW w \in Task, TasksTyped, Named(w),
           task' = [task EXCEPT ![q] = w]
    PROVE  TasksTyped'
BY DEF TasksTyped, Named

LEMMA StartTyped ==
    ASSUME NEW q \in Requests, NEW w \in Task, TasksTyped, asked \in Nat, Named(w), Start(q, w)
    PROVE  TasksTyped' /\ asked' \in Nat
<1>1. task' = [task EXCEPT ![q] = w] /\ asked' \in Nat
      BY DEF Start
<1>2. QED
      BY <1>1, TaskSet

LEMMA BumpingTyped ==
    ASSUME NEW q \in Requests, NEW U \in SUBSET Users, TasksTyped, Bumping(q, U)
    PROVE  TasksTyped'
<1>1. [task[q] EXCEPT !.step = "bump", !.todo = U] \in Task
      BY DEF TasksTyped, Task
<1>2. Named([task[q] EXCEPT !.step = "bump", !.todo = U])
      BY DEF TasksTyped, Task, Named
<1>3. CASE U = {}
      BY <1>3, FreshTyped, TaskSet DEF Bumping
<1>4. CASE U # {}
      BY <1>1, <1>2, <1>4, TaskSet DEF Bumping
<1>5. QED
      BY <1>3, <1>4

LEMMA PermsTyped ==
    ASSUME RolesTyped, NEW R \in SUBSET Roles
    PROVE  PermsOf(R) \in SUBSET Keys
BY DEF RolesTyped, PermsOf

LEMMA IssueToTyped ==
    ASSUME TypeOK, NEW u \in Users, NEW n \in Nat
    PROVE  IssueTo(u, n) \in Task /\ Named(IssueTo(u, n))
<1>1. user[u] \in Row /\ user[u].roles \in SUBSET Roles
      BY DEF TypeOK, Row
<1>2. PermsOf(user[u].roles) \in SUBSET Keys
      BY <1>1, TypeParts, PermsTyped
<1>3. QED
      BY <1>1, <1>2, FreshTyped DEF IssueTo, NoTask, Task, Named

\* A request written out from NoTask.
LEMMA BumpTaskTyped ==
    ASSUME NEW U \in SUBSET Users
    PROVE  [NoTask EXCEPT !.step = "bump", !.todo = U] \in Task
           /\ Named([NoTask EXCEPT !.step = "bump", !.todo = U])
BY FreshTyped DEF NoTask, Task, Named

\* Starting a request keeps all types.
LEMMA StartKeepsTypes ==
    ASSUME NEW q \in Requests, NEW w \in Task, TypeOK, Named(w), Start(q, w),
           UNCHANGED <<role, user, issued, history>>
    PROVE  TypeOK'
<1>1. RolesTyped' /\ UsersTyped' /\ PairsTyped' /\ FlagsTyped'
      BY TypeParts DEF RolesTyped, UsersTyped, PairsTyped, FlagsTyped, Exists, history
<1>2. TasksTyped' /\ asked' \in Nat
      BY TypeParts, StartTyped
<1>3. QED
      BY <1>1, <1>2 DEF TypeOK, RolesTyped, UsersTyped,
         PairsTyped, TasksTyped, Named, FlagsTyped, Exists

LEMMA PairTyped ==
    ASSUME NEW q \in Requests, TypeOK, task[q].step = "issue"
    PROVE  /\ Cardinality(issued) + 1 \in Nat
           /\ [user |-> task[q].user, version |-> VersionSigned(task[q]),
               id |-> Cardinality(issued) + 1, perms |-> task[q].perms,
               from |-> task[q].from] \in Pair
<1>1. Cardinality(issued) \in Nat
      BY FS_CardinalityType DEF TypeOK
<1>2. task[q] \in Task /\ task[q].user \in Users
      BY DEF TypeOK
<1>3. QED
      BY <1>1, <1>2 DEF Task, Row, Pair, VersionSigned

LEMMA IssueTyped ==
    ASSUME NEW q \in Requests, TypeOK, Issue(q)
    PROVE  TypeOK'
<1> DEFINE id == Cardinality(issued) + 1
           t == [user |-> task[q].user, version |-> VersionSigned(task[q]), id |-> id,
                 perms |-> task[q].perms, from |-> task[q].from]
<1>1. id \in Nat /\ t \in Pair
      BY PairTyped DEF Issue
<1>2. issued' = issued \cup {t} /\ killed' = killed /\ role' = role /\ asked' = asked
      BY DEF Issue, history
<1>3. PairsTyped'
  <2>1. IsFiniteSet(issued)
        BY DEF TypeOK
  <2>2. IsFiniteSet(issued')
    <3> HIDE DEF t
    <3>1. QED
          BY <1>2, <2>1, FS_AddElement
  <2>3. QED
        BY <1>1, <1>2, <2>2 DEF TypeOK, PairsTyped
<1>4. user' = user \/ user' = [user EXCEPT ![task[q].user] = [@ EXCEPT !.current = id]]
      BY DEF Issue
<1>5. UsersTyped'
  <2> HIDE DEF id
  <2>1. QED
        BY <1>1, <1>2, <1>4 DEF TypeOK, UsersTyped, Row, Exists
<1>6. TasksTyped'
      BY TypeParts, TaskSet, FreshTyped DEF Issue, Answer
<1>7. RolesTyped' /\ FlagsTyped'
      BY <1>2, TypeParts DEF Issue, history, RolesTyped, FlagsTyped
<1>8. QED
      BY <1>2, <1>3, <1>5, <1>6, <1>7 DEF TypeOK, RolesTyped, UsersTyped,
         PairsTyped, TasksTyped, Named, FlagsTyped, Exists

LEMMA BumpTyped ==
    ASSUME NEW q \in Requests, NEW u \in Users, TypeOK, Bump(q, u)
    PROVE  TypeOK'
<1>1. user' = user \/ user' = [user EXCEPT ![u] = [user[u] EXCEPT !.version = user[u].version + 1]]
      BY DEF Bump, TypeOK, Row
<1>2. UsersTyped'
      BY <1>1 DEF Bump, TypeOK, UsersTyped, Row, Exists
<1>3. PairsTyped'
      BY DEF Bump, TypeOK, PairsTyped, Revoked
<1>4. task[q] \in Task
      BY DEF TypeOK
<1>5. /\ [task[q] EXCEPT !.step = "clear", !.user = u] \in Task
      /\ Named([task[q] EXCEPT !.step = "clear", !.user = u])
      BY <1>4 DEF Task, Named
<1>6. task' = [task EXCEPT ![q] = [task[q] EXCEPT !.step = "clear", !.user = u]]
      BY DEF Bump, TypeOK
<1>7. TasksTyped'
      BY <1>5, <1>6, TypeParts, TaskSet
<1>8. RolesTyped' /\ asked' \in Nat /\ FlagsTyped'
      BY TypeParts DEF Bump, RolesTyped, FlagsTyped
<1>9. QED
      BY <1>2, <1>3, <1>7, <1>8 DEF TypeOK, RolesTyped, UsersTyped,
         PairsTyped, TasksTyped, Named, FlagsTyped, Exists

LEMMA ClearTyped ==
    ASSUME NEW q \in Requests, TypeOK, Clear(q)
    PROVE  TypeOK'
<1>1. user' = user \/ user' = [user EXCEPT ![task[q].user] = [@ EXCEPT !.current = 0]]
      BY DEF Clear
<1>2. UsersTyped'
      BY <1>1 DEF Clear, TypeOK, UsersTyped, Row, Exists
<1>3. task[q].todo \ {task[q].user} \in SUBSET Users
      BY DEF TypeOK, Task
<1>4. TasksTyped'
      BY <1>3, TypeParts, BumpingTyped DEF Clear
<1>5. RolesTyped' /\ PairsTyped' /\ asked' \in Nat /\ FlagsTyped'
      BY TypeParts DEF Clear, RolesTyped, PairsTyped, FlagsTyped, history
<1>6. QED
      BY <1>2, <1>4, <1>5 DEF TypeOK, RolesTyped, UsersTyped,
         PairsTyped, TasksTyped, Named, FlagsTyped, Exists

LEMMA SigningTyped ==
    ASSUME NEW q \in Requests, TypeOK, Signing(q)
    PROVE  TypeOK'
<1>1. CASE \E u \in Users : Login(q, u)
  <2>1. PICK u \in Users : Login(q, u)
        BY <1>1
  <2>2. IssueTo(u, 0) \in Task /\ Named(IssueTo(u, 0))
        BY IssueToTyped
  <2>3. QED
        BY <2>1, <2>2, StartKeepsTypes DEF Login
<1>2. CASE \E t \in issued : Refresh(q, t) \/ Logout(q, t)
  <2>1. PICK t \in issued : Refresh(q, t) \/ Logout(q, t)
        BY <1>2
  <2>2. t.user \in Users /\ t.id \in Nat
        BY DEF TypeOK, Pair
  <2>3. IssueTo(t.user, t.id) \in Task /\ Named(IssueTo(t.user, t.id))
        BY <2>2, IssueToTyped
  <2>4. {t.user} \in SUBSET Users
        BY <2>2
  <2>5. /\ [NoTask EXCEPT !.step = "bump", !.todo = {t.user}] \in Task
        /\ Named([NoTask EXCEPT !.step = "bump", !.todo = {t.user}])
        BY <2>4, BumpTaskTyped
  <2>6. CASE Refresh(q, t)
    <3>1. CASE user[t.user].current = t.id
          BY <2>3, <2>6, <3>1, StartKeepsTypes DEF Refresh
    <3>2. CASE user[t.user].current # t.id
          BY <2>5, <2>6, <3>2, StartKeepsTypes DEF Refresh
    <3>3. QED
          BY <3>1, <3>2
  <2>7. CASE Logout(q, t)
        BY <2>5, <2>7, StartKeepsTypes DEF Logout
  <2>8. QED
        BY <2>1, <2>6, <2>7
<1>3. QED
      BY <1>1, <1>2, IssueTyped, BumpTyped, ClearTyped DEF Signing

LEMMA RoleWritesTyped ==
    ASSUME NEW q \in Requests, NEW t \in issued, NEW r \in Roles, TypeOK,
           DeleteRole(q, t, r) \/ \E P \in Grants : CreateRole(q, t, r, P)
    PROVE  TypeOK'
<1>1. /\ RolesTyped'
      /\ UNCHANGED <<user, issued, task, killed, overtaken, contested>> /\ asked' \in Nat
  <2>1. \A P \in Grants : P \in SUBSET Keys
        BY StaffAssumption DEF Keys
  <2>2. role[r].perms \in SUBSET Keys
        BY DEF TypeOK
  <2>3. CASE DeleteRole(q, t, r)
        BY <2>2, <2>3 DEF DeleteRole, TypeOK, RolesTyped, Ready, history
  <2>4. CASE \E P \in Grants : CreateRole(q, t, r, P)
        BY <2>1, <2>4 DEF CreateRole, TypeOK, RolesTyped, Ready, history
  <2>5. QED
        BY <2>3, <2>4
<1>2. \A u \in Users : \A s \in user[u].roles : Exists(s)'
  <2>1. SUFFICES ASSUME NEW u \in Users, NEW s \in user[u].roles
                 PROVE  Exists(s)'
        OBVIOUS
  <2>2. s \in Roles /\ Exists(s)
        BY DEF TypeOK, Row
  <2>3. CASE DeleteRole(q, t, r)
        BY <2>2, <2>3 DEF DeleteRole, HoldersOf, Exists, TypeOK
  <2>4. CASE \E P \in Grants : CreateRole(q, t, r, P)
        BY <2>2, <2>4 DEF CreateRole, Exists, TypeOK
  <2>5. QED
        BY <2>3, <2>4
<1>3. QED
      BY <1>1, <1>2 DEF TypeOK, RolesTyped

LEMMA RoleKeepingTyped ==
    ASSUME NEW q \in Requests, TypeOK, RoleKeeping(q)
    PROVE  TypeOK'
<1>1. CASE \E t \in issued, r \in Roles :
              \E P \in Grants \cup {role[r].perms} : EditRole(q, t, r, P)
  <2>1. PICK t \in issued, r \in Roles : \E P \in Grants \cup {role[r].perms} : EditRole(q, t, r, P)
        BY <1>1
  <2>2. PICK P \in Grants \cup {role[r].perms} : EditRole(q, t, r, P)
        BY <2>1
  <2>3. P \in SUBSET Keys
        BY StaffAssumption DEF TypeOK, Keys
  <2>4. /\ [NoTask EXCEPT !.step = "saveRole", !.role = r, !.perms = P] \in Task
        /\ Named([NoTask EXCEPT !.step = "saveRole", !.role = r, !.perms = P])
        BY <2>3, FreshTyped DEF NoTask, Task, Named
  <2>5. QED
        BY <2>2, <2>4, StartKeepsTypes DEF EditRole
<1>2. CASE SaveRole(q)
  <2>1. task[q] \in Task /\ task[q].role \in Roles
        BY <1>2 DEF SaveRole, TypeOK
  <2>2. /\ [task[q] EXCEPT !.step = "holders"] \in Task
        /\ Named([task[q] EXCEPT !.step = "holders"])
        BY <2>1 DEF Task, Named
  <2>3. task' = [task EXCEPT ![q] = [task[q] EXCEPT !.step = "holders"]]
        BY <1>2 DEF SaveRole, TypeOK
  <2>4. TasksTyped'
        BY <2>2, <2>3, TypeParts, TaskSet
  <2>5. RolesTyped' /\ (\A s \in Roles : Exists(s) => Exists(s)')
        BY <1>2, <2>1 DEF SaveRole, TypeOK, RolesTyped, Exists, Task
  <2>6. UsersTyped'
        BY <1>2, <2>5 DEF SaveRole, TypeOK, UsersTyped, Row
  <2>7. PairsTyped' /\ asked' \in Nat /\ FlagsTyped'
        BY <1>2 DEF SaveRole, TypeOK, PairsTyped, FlagsTyped
  <2>8. QED
        BY <2>4, <2>5, <2>6, <2>7 DEF TypeOK, RolesTyped, UsersTyped,
           PairsTyped, TasksTyped, Named, FlagsTyped, Exists
<1>3. CASE Holders(q)
  <2>1. HoldersOf(task[q].role) \in SUBSET Users
        BY DEF HoldersOf
  <2>2. TasksTyped'
        BY <1>3, <2>1, TypeParts, BumpingTyped DEF Holders
  <2>3. QED
        BY <1>3, <2>2 DEF Holders, history, TypeOK, RolesTyped, UsersTyped,
           PairsTyped, TasksTyped, Named, FlagsTyped, Exists
<1>4. QED
      BY <1>1, <1>2, <1>3, RoleWritesTyped DEF RoleKeeping

LEMMA SaveUserTyped ==
    ASSUME NEW q \in Requests, TypeOK, SaveUser(q)
    PROVE  TypeOK'
<1>1. task[q] \in Task /\ task[q].user \in Users
      BY DEF SaveUser, TypeOK
<1>2. \/ user' = user
      \/ /\ user' = [user EXCEPT ![task[q].user] = task[q].row]
         /\ \A r \in task[q].row.roles : Exists(r)
      BY DEF SaveUser
<1>3. role' = role /\ issued' = issued /\ asked' = asked
      BY DEF SaveUser
<1>4. UsersTyped'
      BY <1>1, <1>2, <1>3 DEF TypeOK, UsersTyped, Task, Exists
<1>5. PairsTyped' /\ FlagsTyped'
      BY <1>1, <1>3 DEF SaveUser, Contest, TypeOK, PairsTyped, FlagsTyped, Revoked
<1>6. \E U \in SUBSET Users : Bumping(q, U)
  <2>1. task[q].todo \in SUBSET Users /\ {} \in SUBSET Users
        BY <1>1 DEF Task
  <2>2. QED
        BY <2>1 DEF SaveUser
<1>7. TasksTyped'
      BY <1>6, TypeParts, BumpingTyped
<1>8. QED
      BY <1>3, <1>4, <1>5, <1>7 DEF TypeOK, RolesTyped, UsersTyped,
         PairsTyped, TasksTyped, Named, FlagsTyped, Exists

LEMMA UserKeepingTyped ==
    ASSUME NEW q \in Requests, TypeOK, UserKeeping(q)
    PROVE  TypeOK'
<1>1. ASSUME NEW t \in issued, NEW u \in Users, DeleteUser(q, t, u)
      PROVE  TypeOK'
  <2>1. /\ [NoTask EXCEPT !.step = "deleteUser", !.user = u] \in Task
        /\ Named([NoTask EXCEPT !.step = "deleteUser", !.user = u])
        BY FreshTyped DEF NoTask, Task, Named
  <2>2. QED
        BY <1>1, <2>1, StartKeepsTypes DEF DeleteUser
<1>2. ASSUME NEW t \in issued, NEW u \in Users, NEW R \in SUBSET Roles, CreateUser(q, t, u, R)
      PROVE  TypeOK'
  <2> DEFINE row == [NewUser EXCEPT !.state = "active", !.roles = R]
             w == [NoTask EXCEPT !.step = "saveUser", !.user = u, !.over = {"none"}, !.row = row]
  <2>1. row \in Row
        BY FreshTyped DEF NewUser, Row
  <2>2. w \in Task /\ Named(w)
    <3> HIDE DEF row
    <3>1. QED
          BY <2>1, FreshTyped DEF NoTask, Task, Named
  <2>3. QED
        BY <1>2, <2>2, StartKeepsTypes DEF CreateUser
<1>3. ASSUME NEW t \in issued, NEW u \in Users, NEW R \in SUBSET Roles,
             NEW s \in {"active", "inactive"}, NEW bump \in BOOLEAN, NEW password \in BOOLEAN,
             UpdateUser(q, t, u, s, R, bump, password)
      PROVE  TypeOK'
  <2> DEFINE row == [user[u] EXCEPT !.state = s, !.roles = R]
             over == IF password THEN Complete ELSE Incomplete
             U == IF bump THEN {u} ELSE {}
             read == user[u].version
             w == [NoTask EXCEPT !.step = "saveUser", !.user = u, !.row = row,
                             !.read = read, !.over = over, !.todo = U]
  <2>1. row \in Row /\ U \in SUBSET Users /\ read \in Nat
        BY DEF TypeOK, Row
  <2>2. over \in SUBSET {"none", "active", "inactive", "gone"}
        BY DEF Complete, Incomplete
  <2>3. w \in Task /\ Named(w)
    <3> HIDE DEF row, over, U, read
    <3>1. QED
          BY <2>1, <2>2, FreshTyped DEF NoTask, Task, Named
  <2>4. QED
        BY <1>3, <2>3, StartKeepsTypes DEF UpdateUser
<1>4. ASSUME NEW u \in Users, ResetPassword(q, u)
      PROVE  TypeOK'
  <2> DEFINE row == [user[u] EXCEPT !.state = "active", !.version = user[u].version + 1]
             w == [NoTask EXCEPT !.step = "saveUser", !.user = u, !.over = Complete,
                             !.read = user[u].version, !.row = row]
  <2>1. row \in Row /\ user[u].version \in Nat
    <3>1. user[u] \in Row
          BY DEF TypeOK
    <3>2. user[u].version + 1 \in Nat
          BY <3>1 DEF Row
    <3>3. QED
          BY <3>1, <3>2 DEF Row
  <2>2. w \in Task /\ Named(w)
    <3> HIDE DEF row
    <3>1. QED
          BY <2>1, FreshTyped DEF NoTask, Task, Named, Complete
  <2>3. QED
        BY <1>4, <2>2, StartKeepsTypes DEF ResetPassword
<1>5. CASE RemoveUser(q)
  <2>1. [NewUser EXCEPT !.state = "gone"] \in Row /\ [NewUser EXCEPT !.state = "gone"].roles = {}
        BY FreshTyped DEF NewUser, Row
  <2>2. user' = [user EXCEPT ![task[q].user] = [NewUser EXCEPT !.state = "gone"]]
        BY <1>5 DEF RemoveUser
  <2>3. UsersTyped'
        BY <1>5, <2>1, <2>2 DEF RemoveUser, TypeOK, UsersTyped, Exists
  <2>4. TasksTyped'
        BY <1>5, TypeParts, FreshTyped, TaskSet DEF RemoveUser, Answer
  <2>5. FlagsTyped'
        BY <1>5 DEF RemoveUser, Contest, TypeOK, FlagsTyped
  <2>6. QED
        BY <1>5, <2>3, <2>4, <2>5 DEF RemoveUser, Revoked, TypeOK, RolesTyped, UsersTyped,
           PairsTyped, TasksTyped, Named, FlagsTyped, Exists
<1>6. QED
      BY <1>1, <1>2, <1>3, <1>4, <1>5, SaveUserTyped DEF UserKeeping

LEMMA InitTyped == Init => TypeOK
<1> SUFFICES ASSUME Init PROVE TypeOK
    OBVIOUS
<1>1. role \in [Roles -> [state: {"none", "live", "gone"}, perms: SUBSET Keys]]
      BY StaffAssumption DEF Init, Keys
<1>2. user \in [Users -> Row] /\ \A u \in Users : \A r \in user[u].roles : Exists(r)
      BY StaffAssumption DEF Init, Row, Exists
<1>3. issued \subseteq Pair /\ IsFiniteSet(issued) /\ killed \subseteq issued /\ asked \in Nat
      /\ overtaken = {} /\ contested = FALSE
      BY FS_EmptySet DEF Init
<1>4. task \in [Requests -> Task] /\ \A q \in Requests : task[q].step = "idle"
      BY FreshTyped DEF Init, NoTask
<1>5. QED
      BY <1>1, <1>2, <1>3, <1>4 DEF TypeOK

LEMMA NextTyped == TypeOK /\ [Next]_vars => TypeOK'
<1> SUFFICES ASSUME TypeOK, [Next]_vars PROVE TypeOK'
    OBVIOUS
<1>1. CASE Next
      BY <1>1, SigningTyped, RoleKeepingTyped, UserKeepingTyped DEF Next
<1>2. CASE UNCHANGED vars
      BY <1>2 DEF vars, history, TypeOK, Exists
<1>3. QED
      BY <1>1, <1>2

\* Accounts, roles, token pairs and every copy a request holds keep their types, and
\* no account holds a role that is gone.
THEOREM TypeCorrect == Spec => []TypeOK
BY InitTyped, NextTyped, PTL DEF Spec

-----------------------------------------------------------------------------
(***************************************************************************)
(* Revocation, one account at a time, whatever requests overlap.  The      *)
(* version of an account never falls but by the save of a copy that a      *)
(* revocation of that account overtook.                                    *)
(***************************************************************************)

\* A pair of version v may be accepted for u; it never will be.
Behind(u, v) == user[u].state = "gone" \/ (user[u].state # "none" /\ v <= user[u].version)
Dead(u, v) == user[u].state = "gone" \/ (user[u].state # "none" /\ v < user[u].version)

\* The request w still has to raise the version of u.
Owes(w, u) ==
    \/ w.step = "bump" /\ u \in w.todo
    \/ w.step = "clear" /\ u \in w.todo /\ u # w.user

\* How an account moves: it is removed, or keeps existing without falling back.
Onward(u) ==
    \/ user'[u] = user[u]
    \/ user'[u].state = "gone"
    \/ user[u].state = "none"
    \/ /\ user[u].state # "gone" /\ user'[u].state # "none"
       /\ user[u].version <= user'[u].version

LEMMA OnwardKeeps ==
    ASSUME TypeOK, TypeOK', NEW u \in Users, NEW v \in Nat, Onward(u)
    PROVE  (Behind(u, v) => Behind(u, v)') /\ (Dead(u, v) => Dead(u, v)')
<1>1. user[u].version \in Nat /\ user'[u].version \in Nat
      BY DEF TypeOK, Row
<1>2. QED
      BY <1>1 DEF Onward, Behind, Dead

\* The save goes through although the account was removed, or its version moved
\* past the copy's, since the copy was read.
Outdated(w) ==
    /\ user[w.user].state \in w.over /\ \A r \in w.row.roles : Exists(r)
    /\ user[w.user].state # "none"
    /\ user[w.user].state = "gone" \/ w.row.version < user[w.user].version

SavesOutdated(u) ==
    \E q \in Requests : SaveUser(q) /\ task[q].user = u /\ Outdated(task[q])

\* What a request holds of u is not ahead of it when it signs; what it saves is an
\* account, and not behind the version it read.
HoldsInOrder(w, u) ==
    /\ w.step = "issue" /\ w.user = u => Behind(u, w.row.version)
    /\ w.step = "saveUser" => w.row.state \in {"active", "inactive"} /\ w.read <= w.row.version

OrderIInv(u) ==
    /\ TypeOK
    /\ \A t \in issued : t.user = u => Behind(u, t.version)
    /\ \A t \in killed : t.user = u => Dead(u, t.version)
    /\ \A q \in Requests : HoldsInOrder(task[q], u)

LEMMA StartOrder ==
    ASSUME NEW u \in Users, OrderIInv(u), TypeOK',
           NEW q \in Requests, NEW w \in Task, HoldsInOrder(w, u),
           Start(q, w), UNCHANGED <<role, user, issued, history>>
    PROVE  OrderIInv(u)'
<1>1. \A p \in Requests : task'[p] = IF p = q THEN w ELSE task[p]
      BY DEF Start, OrderIInv, TypeOK
<1>2. QED
      BY <1>1 DEF OrderIInv, HoldsInOrder, Behind, Dead, history

LEMMA StepOrder ==
    ASSUME NEW u \in Users, OrderIInv(u), TypeOK', NEW q \in Requests,
           \A p \in Requests \ {q} : task'[p] = task[p],
           task'[q].step \notin {"issue", "saveUser"},
           Onward(u),
           \A t \in issued' : t.user = u => t \in issued \/ Behind(u, t.version),
           \A t \in killed' : t.user = u => t \in killed \/ Dead(u, t.version)'
    PROVE  OrderIInv(u)'
<1>1. TypeOK
      BY DEF OrderIInv
<1>2. ASSUME NEW t \in issued', t.user = u PROVE Behind(u, t.version)'
  <2>1. t.version \in Nat
        BY DEF TypeOK, Pair
  <2>2. Behind(u, t.version)
        BY <1>2 DEF OrderIInv
  <2>3. QED
        BY <1>1, <2>1, <2>2, OnwardKeeps
<1>3. ASSUME NEW t \in killed', t.user = u PROVE Dead(u, t.version)'
  <2>1. t.version \in Nat
        BY DEF TypeOK, Pair
  <2>2. CASE t \in killed
        BY <1>1, <1>3, <2>1, <2>2, OnwardKeeps DEF OrderIInv
  <2>3. QED
        BY <1>3, <2>2
<1>4. ASSUME NEW p \in Requests PROVE HoldsInOrder(task[p], u)'
  <2>1. CASE p = q
        BY <2>1 DEF HoldsInOrder
  <2>2. CASE p # q
    <3>1. task'[p] = task[p] /\ HoldsInOrder(task[p], u) /\ task[p].row.version \in Nat
          BY <1>1, <2>2 DEF OrderIInv, TypeOK, Task, Row
    <3>2. Behind(u, task[p].row.version) => Behind(u, task[p].row.version)'
      <4>1. PICK v \in Nat : v = task[p].row.version
            BY <3>1
      <4>2. Behind(u, v) => Behind(u, v)'
            BY <1>1, OnwardKeeps
      <4>3. QED
            BY <3>1, <4>1, <4>2 DEF Behind
    <3>3. QED
          BY <3>1, <3>2 DEF HoldsInOrder
  <2>3. QED
        BY <2>1, <2>2
<1>5. QED
      BY <1>2, <1>3, <1>4 DEF OrderIInv

\* A request that goes on or ends without touching accounts and pairs.
LEMMA QuietOrder ==
    ASSUME NEW u \in Users, OrderIInv(u), TypeOK', NEW q \in Requests,
           \A p \in Requests \ {q} : task'[p] = task[p],
           task'[q].step \notin {"issue", "saveUser"},
           UNCHANGED <<user, issued, killed>>
    PROVE  OrderIInv(u)'
<1>1. Onward(u)
      BY DEF Onward
<1>2. QED
      BY <1>1, StepOrder

LEMMA BumpingOrder ==
    ASSUME NEW q \in Requests, NEW U \in SUBSET Users, TypeOK, Bumping(q, U)
    PROVE  /\ \A p \in Requests \ {q} : task'[p] = task[p]
           /\ task'[q].step \notin {"issue", "saveUser"}
           /\ \A u \in U : Owes(task'[q], u)
<1>1. CASE U = {}
      BY <1>1 DEF Bumping, TypeOK, NoTask
<1>2. CASE U # {}
  <2>1. task[q] \in Task /\ task' = [task EXCEPT ![q] = [task[q] EXCEPT !.step = "bump", !.todo = U]]
        BY <1>2 DEF Bumping, TypeOK
  <2>2. task'[q].step = "bump" /\ task'[q].todo = U
        BY <2>1 DEF TypeOK, Task
  <2>3. QED
        BY <2>1, <2>2 DEF TypeOK, Owes
<1>3. QED
      BY <1>1, <1>2

LEMMA IssueToOrder ==
    ASSUME TypeOK, NEW u \in Users, NEW x \in Users, NEW n \in Nat, user[x].state = "active"
    PROVE  IssueTo(x, n) \in Task /\ HoldsInOrder(IssueTo(x, n), u)
<1>1. /\ IssueTo(x, n).step = "issue" /\ IssueTo(x, n).user = x
      /\ IssueTo(x, n).row = user[x]
      BY DEF IssueTo, NoTask
<1>2. user[x].version \in Nat
      BY DEF TypeOK, Row
<1>3. QED
      BY <1>1, <1>2, IssueToTyped DEF HoldsInOrder, Behind

LEMMA SigningOrder ==
    ASSUME NEW u \in Users, OrderIInv(u), TypeOK', NEW q \in Requests, Signing(q)
    PROVE  OrderIInv(u)'
<1>1. TypeOK /\ task[q] \in Task /\ NoTask.step = "idle"
      BY DEF OrderIInv, TypeOK, NoTask
<1>2. ASSUME NEW x \in Users, Login(q, x) PROVE OrderIInv(u)'
      BY <1>1, <1>2, IssueToOrder, StartOrder DEF Login
<1>3. ASSUME NEW t \in issued, Refresh(q, t) \/ Logout(q, t)
      PROVE  OrderIInv(u)'
  <2> DEFINE w == [NoTask EXCEPT !.step = "bump", !.todo = {t.user}]
  <2>1. t.user \in Users /\ t.id \in Nat
        BY <1>1 DEF TypeOK, Pair
  <2>2. {t.user} \in SUBSET Users
        BY <2>1
  <2>3. w \in Task /\ w.step = "bump"
        BY <2>2, BumpTaskTyped DEF NoTask
  <2> HIDE DEF w
  <2>4. HoldsInOrder(w, u)
        BY <2>3 DEF HoldsInOrder
  <2>5. CASE Refresh(q, t) /\ user[t.user].current = t.id
    <3>1. user[t.user].state = "active"
          BY <2>5 DEF Refresh, Accepted
    <3>2. Start(q, IssueTo(t.user, t.id)) /\ UNCHANGED <<role, user, issued, history>>
          BY <2>5 DEF Refresh
    <3>3. QED
          BY <1>1, <2>1, <3>1, <3>2, IssueToOrder, StartOrder
  <2>6. CASE Logout(q, t) \/ (Refresh(q, t) /\ user[t.user].current # t.id)
    <3>1. Start(q, w) /\ UNCHANGED <<role, user, issued, history>>
          BY <2>6 DEF Refresh, Logout, w
    <3>2. QED
          BY <2>3, <2>4, <3>1, StartOrder
  <2>7. QED
        BY <1>3, <2>5, <2>6
<1>4. CASE Issue(q)
  <2>1. /\ task'[q] = NoTask /\ \A p \in Requests \ {q} : task'[p] = task[p]
        /\ killed' = killed /\ task[q].step = "issue"
        BY <1>1, <1>4 DEF Issue, Answer, TypeOK, history
  <2>2. Onward(u)
        BY <1>1, <1>4 DEF Issue, Onward, TypeOK, Row, Present
  <2>3. \A t \in issued' \ issued : t.user = task[q].user /\ t.version = task[q].row.version
        BY <1>4 DEF Issue, VersionSigned
  <2>4. task[q].user = u => Behind(u, task[q].row.version)
        BY <2>1 DEF OrderIInv, HoldsInOrder
  <2>5. QED
        BY <1>1, <2>1, <2>2, <2>3, <2>4, StepOrder
<1>5. ASSUME NEW x \in Users, Bump(q, x) PROVE OrderIInv(u)'
  <2>1. /\ \A p \in Requests \ {q} : task'[p] = task[p]
        /\ task'[q].step \notin {"issue", "saveUser"} /\ issued' = issued
        BY <1>1, <1>5 DEF Bump, TypeOK, Task
  <2>2. user[x] \in Row /\ user[x].version \in Nat
        BY <1>1 DEF TypeOK, Row
  <2>3. Onward(u)
        BY <1>1, <1>5, <2>2 DEF Bump, Onward, TypeOK, Row, Present
  <2>4. ASSUME NEW t \in killed', t.user = u, t \notin killed PROVE Dead(u, t.version)'
    <3>1. t \in issued /\ x = u /\ Behind(u, t.version) /\ t.version \in Nat
          BY <1>1, <1>5, <2>4 DEF Bump, Revoked, OrderIInv, TypeOK, Pair
    <3>2. CASE user[u].state = "gone"
          BY <1>5, <3>1, <3>2 DEF Bump, Present, Dead
    <3>3. CASE user[u].state # "gone"
      <4>1. Present(u) /\ t.version <= user[u].version
            BY <2>2, <3>1, <3>3 DEF Behind, Present, Row
      <4>2. user'[u].state = user[u].state /\ user'[u].version = user[u].version + 1
            BY <1>1, <1>5, <2>2, <3>1, <4>1 DEF Bump, TypeOK, Row
      <4>3. QED
            BY <2>2, <3>1, <4>1, <4>2 DEF Dead, Present
    <3>4. QED
          BY <3>2, <3>3
  <2>5. QED
        BY <2>1, <2>3, <2>4, StepOrder
<1>6. CASE Clear(q)
  <2>1. Bumping(q, task[q].todo \ {task[q].user}) /\ issued' = issued /\ killed' = killed
        BY <1>6 DEF Clear, history
  <2>2. task[q].todo \ {task[q].user} \in SUBSET Users
        BY <1>1 DEF Task
  <2>3. Onward(u)
        BY <1>1, <1>6 DEF Clear, Onward, TypeOK, Row, Present
  <2>4. QED
        BY <1>1, <2>1, <2>2, <2>3, BumpingOrder, StepOrder
<1>7. QED
      BY <1>2, <1>3, <1>4, <1>5, <1>6 DEF Signing

LEMMA RoleKeepingOrder ==
    ASSUME NEW u \in Users, OrderIInv(u), TypeOK', NEW q \in Requests, RoleKeeping(q)
    PROVE  OrderIInv(u)'
<1>1. TypeOK /\ task[q] \in Task
      BY DEF OrderIInv, TypeOK
<1>2. ASSUME NEW t \in issued, NEW r \in Roles,
             DeleteRole(q, t, r) \/ \E P \in Grants : CreateRole(q, t, r, P)
      PROVE  OrderIInv(u)'
  <2>1. UNCHANGED <<user, issued, task, killed>>
        BY <1>2 DEF DeleteRole, CreateRole, history
  <2>2. QED
        BY <2>1 DEF OrderIInv, HoldsInOrder, Behind, Dead
<1>3. ASSUME NEW t \in issued, NEW r \in Roles, NEW P, EditRole(q, t, r, P),
             P \in Grants \cup {role[r].perms}
      PROVE  OrderIInv(u)'
  <2> DEFINE w == [NoTask EXCEPT !.step = "saveRole", !.role = r, !.perms = P]
  <2>1. P \in SUBSET Keys
        BY <1>1, <1>3, StaffAssumption DEF TypeOK, Keys
  <2>2. w \in Task /\ w.step = "saveRole"
        BY <2>1, FreshTyped DEF NoTask, Task
  <2>3. Start(q, w) /\ UNCHANGED <<role, user, issued, history>>
        BY <1>3 DEF EditRole
  <2> HIDE DEF w
  <2>4. QED
        BY <2>2, <2>3, StartOrder DEF HoldsInOrder
<1>4. CASE SaveRole(q)
  <2>1. task' = [task EXCEPT ![q] = [task[q] EXCEPT !.step = "holders"]]
        BY <1>1, <1>4 DEF SaveRole, TypeOK
  <2>2. /\ \A p \in Requests \ {q} : task'[p] = task[p]
        /\ task'[q].step = "holders" /\ UNCHANGED <<user, issued, killed>>
        BY <1>1, <1>4, <2>1 DEF SaveRole, TypeOK, Task
  <2>3. QED
        BY <2>2, QuietOrder
<1>5. CASE Holders(q)
  <2>1. /\ Bumping(q, HoldersOf(task[q].role)) /\ HoldersOf(task[q].role) \in SUBSET Users
        /\ UNCHANGED <<user, issued, killed>>
        BY <1>5 DEF Holders, HoldersOf, history
  <2>2. QED
        BY <1>1, <2>1, BumpingOrder, QuietOrder
<1>6. QED
      BY <1>2, <1>3, <1>4, <1>5 DEF RoleKeeping

\* A save of u that is not outdated moves the account onward.
LEMMA SaveUserOrder ==
    ASSUME NEW u \in Users, OrderIInv(u), TypeOK', NEW q \in Requests,
           SaveUser(q), ~SavesOutdated(u)
    PROVE  OrderIInv(u)'
<1> DEFINE x == task[q].user
           row == task[q].row
<1>1. TypeOK /\ task[q] \in Task /\ task[q].step = "saveUser" /\ issued' = issued
      BY DEF OrderIInv, TypeOK, SaveUser
<1>2. x \in Users /\ user[x] \in Row /\ row \in Row /\ row.state \in {"active", "inactive"}
      BY <1>1 DEF TypeOK, Task, OrderIInv, HoldsInOrder
<1>3. \/ user' = user /\ killed' = killed
      \/ /\ user[x].state \in task[q].over /\ \A r \in row.roles : Exists(r)
         /\ user' = [user EXCEPT ![x] = row]
         /\ \/ killed' = killed
            \/ row.version > user[x].version /\ killed' = Revoked(x)
      BY DEF SaveUser
<1>4. CASE x # u
  <2>1. user'[u] = user[u] /\ \A t \in killed' : t.user = u => t \in killed
        BY <1>1, <1>2, <1>3, <1>4 DEF Revoked, TypeOK
  <2>2. Onward(u)
        BY <2>1 DEF Onward
  <2>3. \E U \in SUBSET Users : Bumping(q, U)
    <3>1. task[q].todo \in SUBSET Users /\ {} \in SUBSET Users
          BY <1>1 DEF Task
    <3>2. QED
          BY <3>1 DEF SaveUser
  <2>4. QED
        BY <1>1, <2>1, <2>2, <2>3, BumpingOrder, StepOrder
<1>5. CASE x = u
  <2>1. user[u].state \in task[q].over /\ (\A r \in row.roles : Exists(r)) =>
           user[u].state = "none" \/ (user[u].state # "gone" /\ user[u].version <= row.version)
    <3>1. ~Outdated(task[q])
          BY <1>5 DEF SavesOutdated
    <3>2. user[u].version \in Nat /\ row.version \in Nat
          BY <1>2, <1>5 DEF Row
    <3>3. QED
          BY <1>5, <3>1, <3>2 DEF Outdated
  <2>2. Onward(u)
        BY <1>1, <1>2, <1>3, <1>5, <2>1 DEF Onward, TypeOK
  <2>3. ASSUME NEW t \in killed', t.user = u, t \notin killed PROVE Dead(u, t.version)'
    <3>1. /\ user[u].state \in task[q].over /\ user' = [user EXCEPT ![u] = row]
          /\ \A r \in row.roles : Exists(r)
          /\ row.version > user[u].version /\ t \in issued
          BY <1>3, <1>5, <2>3 DEF Revoked
    <3>2. Behind(u, t.version) /\ t.version \in Nat
          BY <1>1, <2>3, <3>1 DEF OrderIInv, TypeOK, Pair
    <3>3. t.version <= user[u].version
          BY <2>1, <3>1, <3>2 DEF Behind
    <3>4. user'[u] = row /\ t.version < row.version
          BY <1>1, <1>2, <1>5, <3>1, <3>2, <3>3 DEF TypeOK, Row
    <3>5. QED
          BY <1>2, <3>4 DEF Dead
  <2>4. \E U \in SUBSET Users : Bumping(q, U)
    <3>1. task[q].todo \in SUBSET Users /\ {} \in SUBSET Users
          BY <1>1 DEF Task
    <3>2. QED
          BY <3>1 DEF SaveUser
  <2>5. QED
        BY <1>1, <2>2, <2>3, <2>4, BumpingOrder, StepOrder
<1>6. QED
      BY <1>4, <1>5

LEMMA UserKeepingOrder ==
    ASSUME NEW u \in Users, OrderIInv(u), TypeOK', NEW q \in Requests,
           UserKeeping(q), ~SavesOutdated(u)
    PROVE  OrderIInv(u)'
<1>1. TypeOK /\ NoTask.step = "idle"
      BY DEF OrderIInv, NoTask
<1>2. ASSUME NEW w \in Task, w.step = "saveUser" => w.row.state \in {"active", "inactive"},
             w.step = "saveUser" => w.read <= w.row.version, w.step # "issue",
             Start(q, w), UNCHANGED <<role, user, issued, history>>
      PROVE  OrderIInv(u)'
      BY <1>2, StartOrder DEF HoldsInOrder
<1>3. ASSUME NEW t \in issued, NEW x \in Users, DeleteUser(q, t, x)
      PROVE  OrderIInv(u)'
  <2> DEFINE w == [NoTask EXCEPT !.step = "deleteUser", !.user = x]
  <2>1. w \in Task /\ w.step = "deleteUser"
        BY FreshTyped DEF NoTask, Task
  <2>2. Start(q, w) /\ UNCHANGED <<role, user, issued, history>>
        BY <1>3 DEF DeleteUser
  <2> HIDE DEF w
  <2>3. QED
        BY <1>2, <2>1, <2>2
<1>4. ASSUME NEW t \in issued, NEW x \in Users, NEW R \in SUBSET Roles, CreateUser(q, t, x, R)
      PROVE  OrderIInv(u)'
  <2> DEFINE row == [NewUser EXCEPT !.state = "active", !.roles = R]
             w == [NoTask EXCEPT !.step = "saveUser", !.user = x, !.over = {"none"}, !.row = row]
  <2>1. row \in Row /\ row.state = "active"
        BY FreshTyped DEF NewUser, Row
  <2>2. row.version = 0
        BY DEF NewUser
  <2> HIDE DEF row
  <2>3. w \in Task /\ w.step = "saveUser" /\ w.row = row /\ w.read = 0
        BY <2>1, FreshTyped DEF NoTask, Task
  <2>4. Start(q, w) /\ UNCHANGED <<role, user, issued, history>>
        BY <1>4 DEF CreateUser, row
  <2> HIDE DEF w
  <2>5. QED
        BY <1>2, <2>1, <2>2, <2>3, <2>4
<1>5. ASSUME NEW t \in issued, NEW x \in Users, NEW R \in SUBSET Roles,
             NEW s \in {"active", "inactive"}, NEW bump \in BOOLEAN, NEW password \in BOOLEAN,
             UpdateUser(q, t, x, s, R, bump, password)
      PROVE  OrderIInv(u)'
  <2> DEFINE row == [user[x] EXCEPT !.state = s, !.roles = R]
             over == IF password THEN Complete ELSE Incomplete
             U == IF bump THEN {x} ELSE {}
             read == user[x].version
             w == [NoTask EXCEPT !.step = "saveUser", !.user = x, !.row = row,
                             !.read = read, !.over = over, !.todo = U]
  <2>1. row \in Row /\ row.state = s /\ U \in SUBSET Users /\ row.version = read
    <3>1. user[x] \in Row
          BY <1>1 DEF TypeOK
    <3>2. row \in Row /\ row.state = s /\ row.version = read
          BY <3>1 DEF Row
    <3>3. QED
          BY <3>2
  <2>2. over \in SUBSET {"none", "active", "inactive", "gone"}
        BY DEF Complete, Incomplete
  <2>3. w \in Task /\ w.step = "saveUser" /\ w.row = row /\ w.read <= row.version
    <3>1. read \in Nat
          BY <2>1 DEF Row
    <3> HIDE DEF row, over, U, read
    <3>2. w \in Task /\ w.step = "saveUser" /\ w.row = row /\ w.read = read
          BY <2>1, <2>2, <3>1, FreshTyped DEF NoTask, Task
    <3>3. QED
          BY <2>1, <3>1, <3>2
  <2>4. Start(q, w)
        BY <1>5 DEF UpdateUser
  <2>5. UNCHANGED <<role, user, issued, history>>
        BY <1>5 DEF UpdateUser
  <2> HIDE DEF row, over, U, read, w
  <2>6. QED
        BY <1>2, <2>1, <2>3, <2>4, <2>5
<1>6. ASSUME NEW x \in Users, ResetPassword(q, x)
      PROVE  OrderIInv(u)'
  <2> DEFINE row == [user[x] EXCEPT !.state = "active", !.version = user[x].version + 1]
             w == [NoTask EXCEPT !.step = "saveUser", !.user = x, !.over = Complete,
                             !.read = user[x].version, !.row = row]
  <2>1. user[x] \in Row /\ user[x].version + 1 \in Nat /\ user[x].version \in Nat
        BY <1>1 DEF TypeOK, Row
  <2>2. row \in Row /\ row.state = "active" /\ row.version = user[x].version + 1
        BY <2>1 DEF Row
  <2>3. w \in Task /\ w.step = "saveUser" /\ w.row = row /\ w.read <= row.version
    <3> HIDE DEF row
    <3>1. w \in Task /\ w.step = "saveUser" /\ w.row = row /\ w.read = user[x].version
          BY <2>1, <2>2, FreshTyped DEF NoTask, Task, Complete
    <3>2. QED
          BY <2>1, <2>2, <3>1
  <2>4. Start(q, w) /\ UNCHANGED <<role, user, issued, history>>
        BY <1>6 DEF ResetPassword
  <2> HIDE DEF row, w
  <2>5. QED
        BY <1>2, <2>2, <2>3, <2>4
<1>7. CASE RemoveUser(q)
  <2>1. /\ task'[q] = NoTask /\ \A p \in Requests \ {q} : task'[p] = task[p]
        /\ issued' = issued /\ killed' = Revoked(task[q].user) /\ task[q].user \in Users
        BY <1>1, <1>7 DEF RemoveUser, Answer, TypeOK
  <2>2. user'[task[q].user].state = "gone" /\ Onward(u)
        BY <1>1, <1>7, <2>1 DEF RemoveUser, TypeOK, NewUser, Onward
  <2>3. \A t \in killed' : t.user = u => t \in killed \/ Dead(u, t.version)'
        BY <2>1, <2>2 DEF Revoked, Dead
  <2>4. QED
        BY <1>1, <2>1, <2>2, <2>3, StepOrder
<1>8. QED
      BY <1>3, <1>4, <1>5, <1>6, <1>7, SaveUserOrder DEF UserKeeping

LEMMA InitOrder ==
    ASSUME NEW u \in Users
    PROVE  Init => OrderIInv(u)
<1> SUFFICES ASSUME Init PROVE OrderIInv(u)
    OBVIOUS
<1>1. \A q \in Requests : task[q].step = "idle"
      BY DEF Init, NoTask
<1>2. issued = {} /\ killed = {}
      BY DEF Init
<1>3. QED
      BY <1>1, <1>2, InitTyped DEF OrderIInv, HoldsInOrder

LEMMA NextOrder ==
    ASSUME NEW u \in Users, OrderIInv(u), [Next]_vars, [~SavesOutdated(u)]_vars
    PROVE  OrderIInv(u)'
<1>1. TypeOK'
      BY NextTyped DEF OrderIInv
<1>2. CASE Next /\ ~SavesOutdated(u)
      BY <1>1, <1>2, SigningOrder, RoleKeepingOrder, UserKeepingOrder DEF Next
<1>3. CASE UNCHANGED vars
      BY <1>1, <1>3 DEF vars, history, OrderIInv, HoldsInOrder, Behind, Dead
<1>4. QED
      BY <1>2, <1>3

LEMMA OrderRevokes ==
    ASSUME NEW u \in Users, OrderIInv(u), NEW t \in killed, t.user = u
    PROVE  ~Accepted(t)
<1>1. Dead(u, t.version) /\ t.version \in Nat /\ user[u].version \in Nat
      BY DEF OrderIInv, TypeOK, Pair, Row
<1>2. QED
      BY <1>1 DEF Dead, Accepted

\* The pairs of an account revoked by a logout, a reuse detected, an edit of its
\* roles, a reset or its removal are never accepted again, whatever requests
\* overlap, unless the save of a copy read before a revocation of this very
\* account goes through after it (rbac.service.ts, updateUser's save).
THEOREM RevokedUnlessOutdated ==
    ASSUME NEW u \in Users
    PROVE  Spec /\ [][~SavesOutdated(u)]_vars
           => [](\A t \in killed : t.user = u => ~Accepted(t))
<1>1. Init => OrderIInv(u)
      BY InitOrder
<1>2. OrderIInv(u) /\ [Next]_vars /\ [~SavesOutdated(u)]_vars => OrderIInv(u)'
      BY NextOrder
<1>3. OrderIInv(u) => \A t \in killed : t.user = u => ~Accepted(t)
      BY OrderRevokes
<1>4. QED
      BY <1>1, <1>2, <1>3, PTL DEF Spec

\* An account once overtaken stays so.
LEMMA MoreOvertaken ==
    ASSUME [Next]_vars
    PROVE  overtaken \subseteq overtaken'
<1>1. ASSUME NEW q \in Requests, Signing(q) PROVE overtaken' = overtaken
      BY <1>1 DEF Signing, Login, Refresh, Logout, Issue, Bump, Clear, history
<1>2. ASSUME NEW q \in Requests, RoleKeeping(q) PROVE overtaken' = overtaken
      BY <1>2, Zenon DEF RoleKeeping, DeleteRole, CreateRole, EditRole, SaveRole, Holders, history
<1>3. ASSUME NEW q \in Requests, UserKeeping(q) PROVE overtaken \subseteq overtaken'
  <2>1. CASE SaveUser(q)
        BY <2>1 DEF SaveUser
  <2>2. CASE RemoveUser(q)
        BY <2>2 DEF RemoveUser
  <2>3. ASSUME NEW t, NEW u, DeleteUser(q, t, u) PROVE overtaken' = overtaken
        BY <2>3 DEF DeleteUser, history
  <2>4. ASSUME NEW t, NEW u, NEW R, CreateUser(q, t, u, R) PROVE overtaken' = overtaken
        BY <2>4 DEF CreateUser, history
  <2>5. ASSUME NEW t, NEW u, NEW s, NEW R, NEW bump, NEW password,
               UpdateUser(q, t, u, s, R, bump, password)
        PROVE  overtaken' = overtaken
        BY <2>5 DEF UpdateUser, history
  <2>6. ASSUME NEW u, ResetPassword(q, u) PROVE overtaken' = overtaken
        BY <2>6 DEF ResetPassword, history
  <2>7. QED
        BY <1>3, <2>1, <2>2, <2>3, <2>4, <2>5, <2>6 DEF UserKeeping
<1>4. QED
      BY <1>1, <1>2, <1>3 DEF Next, vars, history

\* What an outdated save changes is overtaken.
LEMMA OutdatedOvertakes ==
    ASSUME NEW u \in Users, OrderIInv(u), SavesOutdated(u)
    PROVE  u \in overtaken'
<1>1. PICK q \in Requests : SaveUser(q) /\ task[q].user = u /\ Outdated(task[q])
      BY DEF SavesOutdated
<1>2. /\ task[q].read \in Nat /\ task[q].row.version \in Nat /\ user[u].version \in Nat
      /\ task[q].read <= task[q].row.version
      BY <1>1 DEF OrderIInv, HoldsInOrder, TypeOK, Task, Row, SaveUser
<1>3. user[u].state = "gone" \/ user[u].version # task[q].read
      BY <1>1, <1>2 DEF Outdated
<1>4. overtaken' = overtaken \cup {u}
      BY <1>1, <1>3 DEF SaveUser, Outdated, Present
<1>5. QED
      BY <1>4

\* What the history variable excepts is what an outdated save can do.
SafeIInv == TypeOK /\ \A u \in Users : u \in overtaken \/ OrderIInv(u)

\* A pair handed out before its user was revoked is never accepted again unless the
\* account was saved from a copy that a revocation overtook: the invariant the run
\* checks, from the one above (bumpTokenVersion, updateUser, deleteUser).
THEOREM RevokedStaysDead == Spec => []KilledStaysDead
<1>1. Init => SafeIInv
      BY InitTyped, InitOrder DEF SafeIInv
<1>2. SafeIInv /\ [Next]_vars => SafeIInv'
  <2> SUFFICES ASSUME SafeIInv, [Next]_vars PROVE SafeIInv'
      OBVIOUS
  <2>1. ASSUME NEW u \in Users PROVE u \in overtaken' \/ OrderIInv(u)'
    <3>1. CASE u \in overtaken
      <4>1. SUFFICES overtaken \subseteq overtaken'
            BY <3>1
      <4>2. QED
            BY MoreOvertaken
    <3>2. CASE OrderIInv(u)
      <4>1. CASE SavesOutdated(u)
            BY <3>2, <4>1, OutdatedOvertakes
      <4>2. CASE ~SavesOutdated(u)
            BY <3>2, <4>2, NextOrder
      <4>3. QED
            BY <4>1, <4>2
    <3>3. QED
          BY <3>1, <3>2 DEF SafeIInv
  <2>2. QED
        BY <2>1, NextTyped DEF SafeIInv
<1>3. SafeIInv => KilledStaysDead
  <2> SUFFICES ASSUME SafeIInv, NEW t \in killed, t.user \notin overtaken
               PROVE  ~Accepted(t)
      BY DEF KilledStaysDead
  <2>1. t.user \in Users
        BY DEF SafeIInv, TypeOK, Pair
  <2>2. OrderIInv(t.user)
        BY <2>1 DEF SafeIInv
  <2>3. QED
        BY <2>1, <2>2, OrderRevokes
<1>4. QED
      BY <1>1, <1>2, <1>3, PTL DEF Spec

-----------------------------------------------------------------------------
(***************************************************************************)
(* Grants, one account at a time, whatever requests overlap.  A pair, and  *)
(* a request about to sign one, hold no more than the roles of their       *)
(* account, unless they are of an older version or a bump of the account   *)
(* is still to come.  A bump that is done counts no more, which is what    *)
(* NoStaleGrants is too weak to say.                                       *)
(***************************************************************************)

Owed(u) == \E q \in Requests : Owes(task[q], u)

Reaches(w, u) == Owes(w, u) \/ (w.step = "holders" /\ w.role \in user[u].roles)

Due(u) == \E q \in Requests : Reaches(task[q], u)

Covered(u, v, P) == Dead(u, v) \/ P \subseteq PermsOf(user[u].roles) \/ Due(u)

\* A copy is saved over no account, over one that a revocation has overtaken since,
\* or it keeps the roles, or the account is owed a bump: by this save, or by the
\* edit that changed the roles after the copy was read.
SavesSoundly(w, u) ==
    \/ w.over = {"none"}
    \/ /\ "none" \notin w.over /\ user[u].state # "none"
       /\ \/ user[u].state = "gone"
          \/ w.read < user[u].version
          \/ /\ w.read = user[u].version
             /\ w.row.roles = user[u].roles \/ u \in w.todo \/ Owed(u)

TaskGranted(w, u) ==
    /\ w.step = "issue" /\ w.user = u => Covered(u, w.row.version, w.perms)
    /\ w.step = "saveUser" /\ w.user = u => SavesSoundly(w, u)

GrantsIInv(u) ==
    /\ OrderIInv(u)
    /\ \A t \in issued : t.user = u => Covered(u, t.version, t.perms)
    /\ \A q \in Requests : TaskGranted(task[q], u)

\* How a step may treat the sessions of u: end them all, or keep the bumps it
\* owes them and take no permission away without owing one.
Eased(u) ==
    \/ \A v \in Nat : Behind(u, v) => Dead(u, v)'
    \/ /\ Due(u) => Due(u)'
       /\ PermsOf(user[u].roles) \subseteq PermsOf(user[u].roles)' \/ Due(u)'

\* How a step may treat the copies of u: overtake them, or keep the roles and the
\* bumps owed, or owe one.
Steady(u) ==
    \/ user[u].state = "none" \/ user'[u].state = "gone"
    \/ user[u].version < user'[u].version
    \/ Owed(u)'
    \/ user'[u].roles = user[u].roles /\ ~Owed(u)

LEMMA EasedKeeps ==
    ASSUME TypeOK, TypeOK', NEW u \in Users, NEW v \in Nat, NEW P,
           Onward(u), Eased(u), Behind(u, v), Covered(u, v, P)
    PROVE  Covered(u, v, P)'
<1>1. Dead(u, v) => Dead(u, v)'
      BY OnwardKeeps
<1>2. CASE \A n \in Nat : Behind(u, n) => Dead(u, n)'
      BY <1>2 DEF Covered
<1>3. CASE /\ Due(u) => Due(u)'
           /\ PermsOf(user[u].roles) \subseteq PermsOf(user[u].roles)' \/ Due(u)'
      BY <1>1, <1>3 DEF Covered
<1>4. QED
      BY <1>2, <1>3 DEF Eased

LEMMA SteadyKeeps ==
    ASSUME TypeOK, TypeOK', NEW u \in Users, NEW w \in Task,
           Onward(u), Steady(u), SavesSoundly(w, u)
    PROVE  SavesSoundly(w, u)'
<1>1. user[u].version \in Nat /\ user'[u].version \in Nat /\ w.read \in Nat
      BY DEF TypeOK, Row, Task
<1>2. CASE w.over = {"none"}
      BY <1>2 DEF SavesSoundly
<1>3. CASE w.over # {"none"}
  <2>1. "none" \notin w.over /\ user[u].state # "none" /\ user'[u].state # "none"
        BY <1>3 DEF SavesSoundly, Onward
  <2>2. CASE user'[u].state = "gone"
        BY <2>1, <2>2 DEF SavesSoundly
  <2>3. CASE user'[u].state # "gone"
    <3>1. user[u].state # "gone" /\ user[u].version <= user'[u].version
          BY <1>1, <2>1, <2>3 DEF Onward
    <3>2. CASE w.read < user'[u].version
          BY <2>1, <3>2 DEF SavesSoundly
    <3>3. CASE ~(w.read < user'[u].version)
      <4>1. /\ w.read = user[u].version /\ user'[u].version = user[u].version
            /\ w.row.roles = user[u].roles \/ u \in w.todo \/ Owed(u)
            BY <1>1, <1>3, <3>1, <3>3 DEF SavesSoundly
      <4>2. Owed(u)' \/ (user'[u].roles = user[u].roles /\ ~Owed(u))
            BY <1>1, <2>1, <2>3, <4>1 DEF Steady
      <4>3. w.row.roles = user'[u].roles \/ u \in w.todo \/ Owed(u)'
            BY <4>1, <4>2
      <4>4. QED
            BY <2>1, <4>1, <4>3 DEF SavesSoundly
    <3>4. QED
          BY <3>2, <3>3
  <2>4. QED
        BY <2>2, <2>3
<1>4. QED
      BY <1>2, <1>3

LEMMA SamePerms ==
    ASSUME NEW u, user'[u].roles = user[u].roles,
           \A r \in user[u].roles : role'[r].perms = role[r].perms
    PROVE  PermsOf(user[u].roles)' = PermsOf(user[u].roles)
BY DEF PermsOf

\* A step of q that leaves roles alone owes what it owed.
LEMMA QuietEases ==
    ASSUME NEW q \in Requests, NEW u, user'[u].roles = user[u].roles,
           \A r \in user[u].roles : role'[r].perms = role[r].perms,
           \A p \in Requests \ {q} : task'[p] = task[p],
           Reaches(task[q], u) => Reaches(task[q], u)'
    PROVE  Eased(u)
<1>1. PermsOf(user[u].roles)' = PermsOf(user[u].roles)
      BY SamePerms
<1>2. ASSUME Due(u) PROVE Due(u)'
  <2>1. PICK p \in Requests : Reaches(task[p], u)
        BY <1>2 DEF Due
  <2>2. Reaches(task[p], u)'
    <3>1. CASE p = q
          BY <2>1, <3>1
    <3>2. CASE p # q
          BY <2>1, <3>2 DEF Reaches, Owes
    <3>3. QED
          BY <3>1, <3>2
  <2>3. QED
        BY <2>2 DEF Due
<1>3. QED
      BY <1>1, <1>2 DEF Eased

LEMMA KeepsOwed ==
    ASSUME NEW q \in Requests, NEW u,
           \A p \in Requests \ {q} : task'[p] = task[p],
           Owes(task[q], u) => Owes(task'[q], u), Owed(u)
    PROVE  Owed(u)'
<1>1. PICK p \in Requests : Owes(task[p], u)
      BY DEF Owed
<1>2. Owes(task'[p], u)
  <2>1. CASE p = q
        BY <1>1, <2>1
  <2>2. CASE p # q
        BY <1>1, <2>2
  <2>3. QED
        BY <2>1, <2>2
<1>3. QED
      BY <1>2 DEF Owed

LEMMA QuietSteady ==
    ASSUME NEW q \in Requests, NEW u, user'[u].roles = user[u].roles,
           \A p \in Requests \ {q} : task'[p] = task[p],
           Owes(task[q], u) => Owes(task'[q], u)
    PROVE  Steady(u)
BY KeepsOwed DEF Steady

\* A request that goes on, and signs or saves no more.
LEMMA StepGrants ==
    ASSUME NEW q \in Requests, NEW u \in Users, GrantsIInv(u), OrderIInv(u)',
           Onward(u), Eased(u), Steady(u),
           \A p \in Requests \ {q} : task'[p] = task[p],
           task'[q].step \notin {"issue", "saveUser"},
           \A t \in issued' : t.user = u => t \in issued \/ Covered(u, t.version, t.perms)'
    PROVE  GrantsIInv(u)'
<1>1. /\ TypeOK /\ TypeOK' /\ OrderIInv(u)
      /\ \A p \in Requests : HoldsInOrder(task[p], u) /\ TaskGranted(task[p], u)
      BY DEF GrantsIInv, OrderIInv
<1>2. ASSUME NEW t \in issued, t.user = u PROVE Covered(u, t.version, t.perms)'
  <2>1. t.version \in Nat
        BY <1>1 DEF TypeOK, Pair
  <2>2. Behind(u, t.version) /\ Covered(u, t.version, t.perms)
        BY <1>1, <1>2 DEF OrderIInv, GrantsIInv
  <2>3. QED
        BY <1>1, <2>1, <2>2, EasedKeeps
<1>3. ASSUME NEW p \in Requests PROVE TaskGranted(task[p], u)'
  <2>1. CASE p = q
        BY <2>1 DEF TaskGranted
  <2>2. CASE p # q
    <3>1. PICK w \in Task : w = task[p] /\ w = task'[p]
          BY <1>1, <2>2 DEF TypeOK
    <3>2. HoldsInOrder(w, u) /\ TaskGranted(w, u)
          BY <1>1, <3>1
    <3>3. CASE w.step = "issue" /\ w.user = u
      <4>1. PICK v \in Nat : v = w.row.version
            BY DEF Task, Row
      <4>2. PICK P : P = w.perms
            OBVIOUS
      <4>3. Behind(u, v) /\ Covered(u, v, P)
            BY <3>2, <3>3, <4>1, <4>2 DEF HoldsInOrder, TaskGranted
      <4>4. Covered(u, v, P)'
            BY <1>1, <4>3, EasedKeeps
      <4>5. QED
            BY <3>1, <3>3, <4>1, <4>2, <4>4 DEF TaskGranted
    <3>4. CASE w.step = "saveUser" /\ w.user = u
      <4>1. SavesSoundly(w, u)'
            BY <1>1, <3>2, <3>4, SteadyKeeps DEF TaskGranted
      <4>2. QED
            BY <3>1, <3>4, <4>1 DEF TaskGranted
    <3>5. QED
          BY <3>1, <3>3, <3>4 DEF TaskGranted
  <2>3. QED
        BY <2>1, <2>2
<1>4. QED
      BY <1>2, <1>3 DEF GrantsIInv

\* A request that starts takes nothing from anybody.
LEMMA StartGrants ==
    ASSUME NEW u \in Users, NEW q \in Requests, NEW w \in Task, GrantsIInv(u), OrderIInv(u)',
           Start(q, w), UNCHANGED <<role, user, issued, history>>,
           w.step = "issue" /\ w.user = u => w.perms \subseteq PermsOf(user[u].roles),
           w.step = "saveUser" /\ w.user = u => SavesSoundly(w, u)
    PROVE  GrantsIInv(u)'
<1>1. TypeOK /\ TypeOK' /\ \A p \in Requests : TaskGranted(task[p], u)
      BY DEF GrantsIInv, OrderIInv
<1>2. task[q] = NoTask /\ \A p \in Requests : task'[p] = IF p = q THEN w ELSE task[p]
      BY <1>1 DEF Start, Ready, TypeOK
<1>3. ~Reaches(task[q], u) /\ ~Owes(task[q], u)
      BY <1>2 DEF Reaches, Owes, NoTask
<1>4. Onward(u) /\ Eased(u) /\ Steady(u) /\ (Owed(u) => Owed(u)')
      BY <1>2, <1>3, QuietEases, QuietSteady, KeepsOwed DEF Onward
<1>5. Due(u) => Due(u)'
      BY <1>2, <1>3 DEF Due, Reaches
<1>6. ASSUME NEW v, NEW P, Covered(u, v, P) PROVE Covered(u, v, P)'
      BY <1>5, <1>6 DEF Covered, Dead, PermsOf
<1>7. \A t \in issued' : t.user = u => Covered(u, t.version, t.perms)'
      BY <1>6 DEF GrantsIInv
<1>8. ASSUME NEW p \in Requests PROVE TaskGranted(task[p], u)'
  <2>1. CASE p = q
    <3>1. w.step = "issue" /\ w.user = u => Covered(u, w.row.version, w.perms)'
          BY DEF Covered, PermsOf
    <3>2. w.step = "saveUser" /\ w.user = u => SavesSoundly(w, u)'
          BY <1>1, <1>4, SteadyKeeps
    <3>3. QED
          BY <1>2, <2>1, <3>1, <3>2 DEF TaskGranted
  <2>2. CASE p # q
    <3>1. PICK y \in Task : y = task[p] /\ y = task'[p]
          BY <1>1, <1>2, <2>2 DEF TypeOK
    <3>2. TaskGranted(y, u)
          BY <1>1, <3>1
    <3>3. y.step = "issue" /\ y.user = u => Covered(u, y.row.version, y.perms)'
          BY <1>6, <3>2 DEF TaskGranted
    <3>4. y.step = "saveUser" /\ y.user = u => SavesSoundly(y, u)'
          BY <1>1, <1>4, <3>2, SteadyKeeps DEF TaskGranted
    <3>5. QED
          BY <3>1, <3>3, <3>4 DEF TaskGranted
  <2>3. QED
        BY <2>1, <2>2
<1>9. QED
      BY <1>7, <1>8 DEF GrantsIInv

LEMMA SignInGrants ==
    ASSUME NEW u \in Users, NEW q \in Requests, GrantsIInv(u), OrderIInv(u)',
           \/ \E x \in Users : Login(q, x)
           \/ \E t \in issued : Refresh(q, t) \/ Logout(q, t)
    PROVE  GrantsIInv(u)'
<1>1. TypeOK
      BY DEF GrantsIInv, OrderIInv
<1>2. ASSUME NEW x \in Users, NEW n \in Nat, Start(q, IssueTo(x, n)),
             UNCHANGED <<role, user, issued, history>>
      PROVE  GrantsIInv(u)'
  <2>1. IssueTo(x, n) \in Task
        BY <1>1, IssueToTyped
  <2>2. /\ IssueTo(x, n).step = "issue" /\ IssueTo(x, n).user = x
        /\ IssueTo(x, n).perms = PermsOf(user[x].roles)
        BY DEF IssueTo, NoTask
  <2>3. QED
        BY <1>2, <2>1, <2>2, StartGrants
<1>3. CASE \E x \in Users : Login(q, x)
      BY <1>2, <1>3 DEF Login
<1>4. CASE \E t \in issued : Refresh(q, t) \/ Logout(q, t)
  <2>1. PICK t \in issued : Refresh(q, t) \/ Logout(q, t)
        BY <1>4
  <2>2. t.user \in Users /\ t.id \in Nat
        BY <1>1 DEF TypeOK, Pair
  <2> DEFINE w == [NoTask EXCEPT !.step = "bump", !.todo = {t.user}]
  <2>3. {t.user} \in SUBSET Users
        BY <2>2
  <2>4. w \in Task /\ w.step = "bump"
        BY <2>3, BumpTaskTyped DEF NoTask
  <2>5. CASE Refresh(q, t) /\ user[t.user].current = t.id
    <3>1. Start(q, IssueTo(t.user, t.id)) /\ UNCHANGED <<role, user, issued, history>>
          BY <2>5 DEF Refresh
    <3>2. QED
          BY <1>2, <2>2, <3>1
  <2>6. CASE Logout(q, t) \/ (Refresh(q, t) /\ user[t.user].current # t.id)
    <3>1. Start(q, w) /\ UNCHANGED <<role, user, issued, history>>
          BY <2>6 DEF Refresh, Logout
    <3> HIDE DEF w
    <3>2. QED
          BY <2>4, <3>1, StartGrants
  <2>7. QED
        BY <2>1, <2>5, <2>6
<1>5. QED
      BY <1>3, <1>4

\* The pair gets what its request had read with the version it signs.
LEMMA IssueGrants ==
    ASSUME NEW u \in Users, NEW q \in Requests, GrantsIInv(u), OrderIInv(u)', Issue(q)
    PROVE  GrantsIInv(u)'
<1>1. TypeOK /\ TypeOK' /\ TaskGranted(task[q], u) /\ HoldsInOrder(task[q], u)
      BY DEF GrantsIInv, OrderIInv
<1>2. task[q].step = "issue" /\ task[q] \in Task /\ task[q].user \in Users
      BY <1>1 DEF Issue, TypeOK
<1>3. Onward(u) /\ user'[u].roles = user[u].roles
      BY <1>1 DEF Issue, Onward, TypeOK, Row, Present
<1>4. /\ task'[q] = NoTask /\ NoTask.step = "idle"
      /\ \A p \in Requests \ {q} : task'[p] = task[p]
      BY <1>1 DEF Issue, Answer, TypeOK, NoTask
<1>5. ~Reaches(task[q], u) /\ ~Owes(task[q], u) /\ role' = role
      BY <1>2 DEF Reaches, Owes, Issue
<1>6. Eased(u) /\ Steady(u)
      BY <1>3, <1>4, <1>5, QuietEases, QuietSteady
<1>7. ASSUME NEW t \in issued', t.user = u, t \notin issued
      PROVE  Covered(u, t.version, t.perms)'
  <2>1. PICK v \in Nat : v = task[q].row.version
        BY <1>2 DEF Task, Row
  <2>2. PICK P : P = task[q].perms
        OBVIOUS
  <2>3. task[q].user = u /\ t.version = v /\ t.perms = P
        BY <1>7, <2>1, <2>2 DEF Issue, VersionSigned
  <2>4. Behind(u, v) /\ Covered(u, v, P)
        BY <1>1, <1>2, <2>1, <2>2, <2>3 DEF HoldsInOrder, TaskGranted
  <2>5. Covered(u, v, P)'
        BY <1>1, <1>3, <1>6, <2>4, EasedKeeps
  <2>6. QED
        BY <2>3, <2>5
<1>8. QED
      BY <1>3, <1>4, <1>6, <1>7, StepGrants

\* The bump leaves every earlier pair, and every earlier copy, of its account behind.
LEMMA BumpGrants ==
    ASSUME NEW u \in Users, NEW q \in Requests, NEW x \in Users,
           GrantsIInv(u), OrderIInv(u)', Bump(q, x)
    PROVE  GrantsIInv(u)'
<1>1. TypeOK
      BY DEF GrantsIInv, OrderIInv
<1>2. task[q] \in Task /\ task[q].step = "bump" /\ user[x] \in Row /\ user[u] \in Row
      BY <1>1 DEF Bump, TypeOK
<1>3. user' = IF Present(x) THEN [user EXCEPT ![x] = [user[x] EXCEPT !.version = user[x].version + 1]]
              ELSE user
      BY <1>1 DEF Bump, TypeOK, Row
<1>4. Onward(u)
      BY <1>1, <1>3 DEF Onward, TypeOK, Row
<1>5. /\ \A p \in Requests \ {q} : task'[p] = task[p]
      /\ task'[q].step = "clear" /\ task'[q].user = x /\ task'[q].todo = task[q].todo
      BY <1>1, <1>2 DEF Bump, TypeOK, Task
<1>6. ASSUME x = u, Present(u) PROVE Eased(u) /\ Steady(u)
  <2>1. user'[u].state = user[u].state /\ user'[u].version = user[u].version + 1
        BY <1>1, <1>2, <1>3, <1>6 DEF TypeOK, Row
  <2>2. user[u].version < user'[u].version
        BY <1>2, <2>1 DEF Row
  <2>3. \A v \in Nat : Behind(u, v) => Dead(u, v)'
        BY <1>2, <1>6, <2>1 DEF Behind, Dead, Present, Row
  <2>4. QED
        BY <2>2, <2>3 DEF Eased, Steady
<1>7. ASSUME x = u, ~Present(u) PROVE Eased(u) /\ Steady(u)
  <2>1. user' = user /\ user[u].state \in {"none", "gone"}
        BY <1>2, <1>3, <1>7 DEF Present, Row
  <2>2. \A v \in Nat : Behind(u, v) => Dead(u, v)'
        BY <2>1 DEF Behind, Dead
  <2>3. QED
        BY <2>1, <2>2 DEF Eased, Steady
<1>8. ASSUME x # u PROVE Eased(u) /\ Steady(u)
  <2>1. (Owes(task[q], u) => Owes(task'[q], u)) /\ (Reaches(task[q], u) => Reaches(task[q], u)')
        BY <1>2, <1>5, <1>8 DEF Owes, Reaches
  <2>2. user'[u].roles = user[u].roles /\ role' = role
        BY <1>1, <1>3, <1>8 DEF Bump, TypeOK
  <2>3. QED
        BY <1>5, <2>1, <2>2, QuietEases, QuietSteady
<1>9. Eased(u) /\ Steady(u) /\ issued' = issued
      BY <1>6, <1>7, <1>8 DEF Bump
<1>10. QED
      BY <1>4, <1>5, <1>9, StepGrants

LEMMA ClearGrants ==
    ASSUME NEW u \in Users, NEW q \in Requests, GrantsIInv(u), OrderIInv(u)', Clear(q)
    PROVE  GrantsIInv(u)'
<1> DEFINE U == task[q].todo \ {task[q].user}
<1>1. TypeOK
      BY DEF GrantsIInv, OrderIInv
<1>2. task[q].step = "clear" /\ issued' = issued /\ role' = role
      BY DEF Clear
<1>3. Onward(u) /\ user'[u].roles = user[u].roles
      BY <1>1 DEF Clear, Onward, TypeOK, Row, Present
<1>4. U \in SUBSET Users /\ Bumping(q, U)
      BY <1>1 DEF Clear, TypeOK, Task
<1>5. /\ \A p \in Requests \ {q} : task'[p] = task[p]
      /\ task'[q].step \notin {"issue", "saveUser"}
      /\ \A x \in U : Owes(task'[q], x)
  <2> HIDE DEF U
  <2>1. QED
        BY <1>1, <1>4, BumpingOrder
<1>6. Reaches(task[q], u) \/ Owes(task[q], u) => u \in U
      BY <1>2 DEF Reaches, Owes
<1>7. u \in U => Owes(task'[q], u) /\ Reaches(task[q], u)'
      BY <1>5 DEF Reaches
<1> HIDE DEF U
<1>8. Eased(u) /\ Steady(u)
      BY <1>2, <1>3, <1>5, <1>6, <1>7, QuietEases, QuietSteady
<1>9. QED
      BY <1>2, <1>3, <1>5, <1>8, StepGrants

\* The holders of a role whose permissions change are owed a bump from the save on.
LEMMA SaveRoleGrants ==
    ASSUME NEW u \in Users, NEW q \in Requests, GrantsIInv(u), OrderIInv(u)', SaveRole(q)
    PROVE  GrantsIInv(u)'
<1>1. TypeOK
      BY DEF GrantsIInv, OrderIInv
<1>2. /\ task[q].step = "saveRole" /\ task[q] \in Task
      /\ UNCHANGED <<user, issued>>
      BY <1>1 DEF SaveRole, TypeOK
<1>3. task' = [task EXCEPT ![q] = [task[q] EXCEPT !.step = "holders"]]
      BY <1>1 DEF SaveRole, TypeOK
<1>4. /\ \A p \in Requests \ {q} : task'[p] = task[p]
      /\ task'[q].step = "holders" /\ task'[q].role = task[q].role
      BY <1>1, <1>2, <1>3 DEF TypeOK, Task
<1>5. ~Reaches(task[q], u) /\ ~Owes(task[q], u) /\ user'[u].roles = user[u].roles
      BY <1>2 DEF Reaches, Owes
<1>6. Eased(u)
  <2>1. CASE task[q].role \in user[u].roles
    <3>1. Reaches(task[q], u)'
          BY <1>2, <1>4, <2>1 DEF Reaches
    <3>2. Due(u)'
          BY <3>1 DEF Due
    <3>3. QED
          BY <3>2 DEF Eased
  <2>2. CASE task[q].role \notin user[u].roles
    <3>1. \A r \in user[u].roles : role'[r].perms = role[r].perms
      <4>1. \A r \in user[u].roles : r \in Roles
            BY <1>1 DEF TypeOK, Row
      <4>2. QED
            BY <1>1, <2>2, <4>1 DEF SaveRole, TypeOK
    <3>2. QED
          BY <1>4, <1>5, <3>1, QuietEases
  <2>3. QED
        BY <2>1, <2>2
<1>7. Steady(u) /\ Onward(u)
      BY <1>2, <1>4, <1>5, QuietSteady DEF Onward
<1>8. QED
      BY <1>2, <1>4, <1>6, <1>7, StepGrants

LEMMA HoldersGrants ==
    ASSUME NEW u \in Users, NEW q \in Requests, GrantsIInv(u), OrderIInv(u)', Holders(q)
    PROVE  GrantsIInv(u)'
<1> DEFINE U == HoldersOf(task[q].role)
<1>1. TypeOK
      BY DEF GrantsIInv, OrderIInv
<1>2. /\ task[q].step = "holders" /\ UNCHANGED <<role, user, issued>>
      /\ U \in SUBSET Users /\ Bumping(q, U)
      BY DEF Holders, HoldersOf
<1>3. Reaches(task[q], u) => u \in U
      BY <1>2 DEF Reaches, Owes, HoldersOf
<1>4. ~Owes(task[q], u)
      BY <1>2 DEF Owes
<1> HIDE DEF U
<1>5. /\ \A p \in Requests \ {q} : task'[p] = task[p]
      /\ task'[q].step \notin {"issue", "saveUser"}
      /\ \A x \in U : Owes(task'[q], x)
      BY <1>1, <1>2, BumpingOrder
<1>6. u \in U => Reaches(task[q], u)'
      BY <1>5 DEF Reaches
<1>7. Eased(u) /\ Steady(u) /\ Onward(u)
      BY <1>2, <1>3, <1>4, <1>5, <1>6, QuietEases, QuietSteady DEF Onward
<1>8. QED
      BY <1>2, <1>5, <1>7, StepGrants

\* A role that appears or goes has no holders.
LEMMA RoleListGrants ==
    ASSUME NEW u \in Users, NEW q \in Requests, NEW t \in issued, NEW r \in Roles,
           GrantsIInv(u), OrderIInv(u)',
           DeleteRole(q, t, r) \/ \E P \in Grants : CreateRole(q, t, r, P)
    PROVE  GrantsIInv(u)'
<1>1. TypeOK /\ \A p \in Requests : TaskGranted(task[p], u)
      BY DEF GrantsIInv, OrderIInv
<1>2. UNCHANGED <<user, issued, task>>
      BY DEF DeleteRole, CreateRole
<1>3. PermsOf(user[u].roles)' = PermsOf(user[u].roles)
  <2>1. \A s \in user[u].roles : s \in Roles /\ Exists(s)
        BY <1>1 DEF TypeOK, Row
  <2>2. \A s \in user[u].roles : role'[s].perms = role[s].perms
        BY <1>1, <2>1 DEF DeleteRole, CreateRole, TypeOK, Exists
  <2>3. QED
        BY <1>2, <2>2, SamePerms
<1>4. ASSUME NEW v, NEW P, Covered(u, v, P) PROVE Covered(u, v, P)'
      BY <1>2, <1>3, <1>4 DEF Covered, Dead, Due, Reaches
<1>5. ASSUME NEW p \in Requests PROVE TaskGranted(task[p], u)'
  <2>1. PICK y : y = task[p] /\ task'[p] = y
        BY <1>2
  <2>2. y.step = "issue" /\ y.user = u => Covered(u, y.row.version, y.perms)'
        BY <1>1, <1>4, <2>1 DEF TaskGranted
  <2>3. y.step = "saveUser" /\ y.user = u => SavesSoundly(y, u)'
        BY <1>1, <1>2, <2>1 DEF TaskGranted, SavesSoundly, Owed
  <2>4. QED
        BY <2>1, <2>2, <2>3 DEF TaskGranted
<1>6. \A s \in issued' : s.user = u => Covered(u, s.version, s.perms)'
      BY <1>2, <1>4 DEF GrantsIInv
<1>7. QED
      BY <1>5, <1>6 DEF GrantsIInv

LEMMA RoleKeepingGrants ==
    ASSUME NEW u \in Users, NEW q \in Requests, GrantsIInv(u), OrderIInv(u)', RoleKeeping(q)
    PROVE  GrantsIInv(u)'
<1>1. ASSUME NEW t \in issued, NEW r \in Roles, NEW P, EditRole(q, t, r, P),
             P \in Grants \cup {role[r].perms}
      PROVE  GrantsIInv(u)'
  <2> DEFINE w == [NoTask EXCEPT !.step = "saveRole", !.role = r, !.perms = P]
  <2>1. P \in SUBSET Keys
        BY <1>1, StaffAssumption DEF GrantsIInv, OrderIInv, TypeOK, Keys
  <2>2. w \in Task /\ w.step = "saveRole"
        BY <2>1, FreshTyped DEF NoTask, Task
  <2>3. Start(q, w) /\ UNCHANGED <<role, user, issued, history>>
        BY <1>1 DEF EditRole
  <2> HIDE DEF w
  <2>4. QED
        BY <2>2, <2>3, StartGrants
<1>2. QED
      BY <1>1, SaveRoleGrants, HoldersGrants, RoleListGrants DEF RoleKeeping

\* A save writes a copy that no revocation overtook: it keeps the roles, or a bump
\* is to come.
LEMMA SaveUserGrants ==
    ASSUME NEW u \in Users, NEW q \in Requests, GrantsIInv(u), OrderIInv(u)', SaveUser(q),
           u \notin overtaken'
    PROVE  GrantsIInv(u)'
<1> DEFINE x == task[q].user
           row == task[q].row
           saved == user[x].state \in task[q].over /\ \A r \in row.roles : Exists(r)
           U == IF saved THEN task[q].todo ELSE {}
<1>1. /\ TypeOK /\ task[q] \in Task /\ task[q].step = "saveUser"
      /\ HoldsInOrder(task[q], u) /\ TaskGranted(task[q], u)
      BY DEF GrantsIInv, OrderIInv, TypeOK, SaveUser
<1>2. x \in Users /\ user[u] \in Row /\ row \in Row /\ task[q].read \in Nat
      BY <1>1 DEF TypeOK, Task
<1>3. user' = (IF saved THEN [user EXCEPT ![x] = row] ELSE user) /\ issued' = issued /\ role' = role
      BY DEF SaveUser
<1>4. U \in SUBSET Users /\ Bumping(q, U)
      BY <1>1 DEF SaveUser, Task
<1>5. /\ \A p \in Requests \ {q} : task'[p] = task[p]
      /\ task'[q].step \notin {"issue", "saveUser"}
      /\ \A y \in U : Owes(task'[q], y)
  <2> HIDE DEF U
  <2>1. QED
        BY <1>1, <1>4, BumpingOrder
<1>6. ~Reaches(task[q], u) /\ ~Owes(task[q], u)
      BY <1>1 DEF Reaches, Owes
<1>7. ASSUME user'[u].roles = user[u].roles PROVE Eased(u) /\ Steady(u)
      BY <1>3, <1>5, <1>6, <1>7, QuietEases, QuietSteady
<1>8. CASE ~(saved /\ x = u)
  <2>1. user'[u] = user[u]
        BY <1>1, <1>2, <1>3, <1>8 DEF TypeOK
  <2>2. Onward(u) /\ Eased(u) /\ Steady(u)
        BY <1>7, <2>1 DEF Onward
  <2>3. QED
        BY <1>3, <1>5, <2>2, StepGrants
<1>9. CASE saved /\ x = u /\ user[u].state = "none"
  <2>1. Onward(u) /\ Steady(u) /\ \A v \in Nat : ~Behind(u, v)
        BY <1>9 DEF Onward, Steady, Behind
  <2>2. Eased(u)
        BY <2>1 DEF Eased
  <2>3. QED
        BY <1>3, <1>5, <2>1, <2>2, StepGrants
<1>10. CASE saved /\ x = u /\ user[u].state # "none"
  <2>1. Present(u) /\ user[u].version = task[q].read
        BY <1>10 DEF SaveUser
  <2>2. user'[u] = row /\ user[u].state \in task[q].over
        BY <1>1, <1>3, <1>10 DEF TypeOK
  <2>3. row.roles = user[u].roles \/ u \in task[q].todo \/ Owed(u)
    <3>1. SavesSoundly(task[q], u)
          BY <1>1, <1>10 DEF TaskGranted
    <3>2. task[q].over # {"none"} /\ user[u].state # "gone"
          BY <1>10, <2>1, <2>2 DEF Present
    <3>3. ~(task[q].read < user[u].version)
          BY <1>2, <2>1
    <3>4. QED
          BY <3>1, <3>2, <3>3 DEF SavesSoundly
  <2>4. Onward(u)
    <3>1. /\ task[q].read <= row.version /\ row.state \in {"active", "inactive"}
          BY <1>1 DEF HoldsInOrder
    <3>2. QED
          BY <2>1, <2>2, <3>1 DEF Onward, Present
  <2>5. ASSUME Owed(u)' PROVE Eased(u) /\ Steady(u)
    <3>1. Due(u)'
          BY <2>5 DEF Owed, Due, Reaches
    <3>2. QED
          BY <2>5, <3>1 DEF Eased, Steady
  <2>6. CASE u \in task[q].todo
    <3>1. Owes(task'[q], u)
          BY <1>5, <1>10, <2>6
    <3>2. Owed(u)'
          BY <3>1 DEF Owed
    <3>3. QED
          BY <1>3, <1>5, <2>4, <2>5, <3>2, StepGrants
  <2>7. CASE Owed(u)
    <3>1. Owed(u)'
          BY <1>5, <1>6, <2>7, KeepsOwed
    <3>2. QED
          BY <1>3, <1>5, <2>4, <2>5, <3>1, StepGrants
  <2>8. CASE row.roles = user[u].roles
        BY <1>3, <1>5, <1>7, <2>2, <2>4, <2>8, StepGrants
  <2>9. QED
        BY <2>3, <2>6, <2>7, <2>8
<1>11. QED
      BY <1>8, <1>9, <1>10

LEMMA RemoveUserGrants ==
    ASSUME NEW u \in Users, NEW q \in Requests, GrantsIInv(u), OrderIInv(u)', RemoveUser(q)
    PROVE  GrantsIInv(u)'
<1> DEFINE x == task[q].user
<1>1. TypeOK
      BY DEF GrantsIInv, OrderIInv
<1>2. /\ task'[q] = NoTask /\ NoTask.step = "idle" /\ task[q].step = "deleteUser"
      /\ \A p \in Requests \ {q} : task'[p] = task[p]
      BY <1>1 DEF RemoveUser, Answer, NoTask, TypeOK
<1>3. /\ x \in Users /\ user'[x].state = "gone" /\ Onward(u)
      /\ issued' = issued /\ role' = role
      BY <1>1 DEF RemoveUser, TypeOK, NewUser, Onward
<1>4. CASE x = u
      BY <1>2, <1>3, <1>4, StepGrants DEF Eased, Steady, Dead
<1>5. CASE x # u
  <2>1. user'[u].roles = user[u].roles /\ ~Reaches(task[q], u) /\ ~Owes(task[q], u)
        BY <1>1, <1>2, <1>3, <1>5 DEF RemoveUser, TypeOK, Reaches, Owes
  <2>2. QED
        BY <1>2, <1>3, <2>1, QuietEases, QuietSteady, StepGrants
<1>6. QED
      BY <1>4, <1>5

LEMMA UserKeepingGrants ==
    ASSUME NEW u \in Users, NEW q \in Requests, GrantsIInv(u), OrderIInv(u)', UserKeeping(q),
           u \notin overtaken'
    PROVE  GrantsIInv(u)'
<1>1. TypeOK
      BY DEF GrantsIInv, OrderIInv
<1>2. ASSUME NEW t \in issued, NEW x \in Users, DeleteUser(q, t, x)
      PROVE  GrantsIInv(u)'
  <2> DEFINE w == [NoTask EXCEPT !.step = "deleteUser", !.user = x]
  <2>1. w \in Task /\ w.step = "deleteUser"
        BY FreshTyped DEF NoTask, Task
  <2>2. Start(q, w) /\ UNCHANGED <<role, user, issued, history>>
        BY <1>2 DEF DeleteUser
  <2> HIDE DEF w
  <2>3. QED
        BY <2>1, <2>2, StartGrants
<1>3. ASSUME NEW t \in issued, NEW x \in Users, NEW R \in SUBSET Roles, CreateUser(q, t, x, R)
      PROVE  GrantsIInv(u)'
  <2> DEFINE row == [NewUser EXCEPT !.state = "active", !.roles = R]
             w == [NoTask EXCEPT !.step = "saveUser", !.user = x, !.over = {"none"}, !.row = row]
  <2>1. row \in Row
        BY FreshTyped DEF NewUser, Row
  <2> HIDE DEF row
  <2>2. w \in Task /\ w.step = "saveUser" /\ w.over = {"none"}
        BY <2>1, FreshTyped DEF NoTask, Task
  <2>3. Start(q, w) /\ UNCHANGED <<role, user, issued, history>>
        BY <1>3 DEF CreateUser, row
  <2> HIDE DEF w
  <2>4. SavesSoundly(w, u)
        BY <2>2 DEF SavesSoundly
  <2>5. QED
        BY <2>2, <2>3, <2>4, StartGrants
<1>4. ASSUME NEW t \in issued, NEW x \in Users, NEW R \in SUBSET Roles,
             NEW s \in {"active", "inactive"}, NEW bump \in BOOLEAN, NEW password \in BOOLEAN,
             UpdateUser(q, t, x, s, R, bump, password)
      PROVE  GrantsIInv(u)'
  <2> DEFINE row == [user[x] EXCEPT !.state = s, !.roles = R]
             over == IF password THEN Complete ELSE Incomplete
             U == IF bump THEN {x} ELSE {}
             read == user[x].version
             w == [NoTask EXCEPT !.step = "saveUser", !.user = x, !.row = row,
                             !.read = read, !.over = over, !.todo = U]
  <2>1. row \in Row /\ U \in SUBSET Users /\ read \in Nat
    <3>1. user[x] \in Row
          BY <1>1 DEF TypeOK
    <3>2. row \in Row /\ read \in Nat
          BY <3>1 DEF Row
    <3>3. QED
          BY <3>2
  <2>2. over \in SUBSET {"none", "active", "inactive", "gone"} /\ "none" \notin over
        BY DEF Complete, Incomplete
  <2>3. row = user[x] \/ bump
        BY <1>4 DEF UpdateUser
  <2>4. row.roles = user[x].roles \/ x \in U
        BY <2>3
  <2>5. Start(q, w) /\ UNCHANGED <<role, user, issued, history>> /\ Present(x)
        BY <1>4 DEF UpdateUser
  <2>6. user[x].state # "none" /\ read = user[x].version
        BY <2>5 DEF Present
  <2> HIDE DEF row, over, U, read
  <2>7. /\ w \in Task /\ w.step = "saveUser" /\ w.user = x /\ w.row = row /\ w.todo = U
        /\ w.over = over /\ w.read = read
        BY <2>1, <2>2, FreshTyped DEF NoTask, Task
  <2> HIDE DEF w
  <2>8. w.user = u => SavesSoundly(w, u)
        BY <2>2, <2>4, <2>6, <2>7 DEF SavesSoundly
  <2>9. QED
        BY <2>5, <2>7, <2>8, StartGrants
<1>5. ASSUME NEW x \in Users, ResetPassword(q, x)
      PROVE  GrantsIInv(u)'
  <2> DEFINE row == [user[x] EXCEPT !.state = "active", !.version = user[x].version + 1]
             read == user[x].version
             w == [NoTask EXCEPT !.step = "saveUser", !.user = x, !.over = Complete,
                             !.read = read, !.row = row]
  <2>1. user[x] \in Row /\ user[x].version + 1 \in Nat /\ read \in Nat
        BY <1>1 DEF TypeOK, Row
  <2>2. row \in Row /\ row.roles = user[x].roles
        BY <2>1 DEF Row
  <2>3. Start(q, w) /\ UNCHANGED <<role, user, issued, history>> /\ Present(x)
        BY <1>5 DEF ResetPassword
  <2>4. user[x].state # "none" /\ read = user[x].version
        BY <2>3 DEF Present
  <2> HIDE DEF row, read
  <2>5. /\ w \in Task /\ w.step = "saveUser" /\ w.user = x /\ w.row = row
        /\ w.over = Complete /\ w.read = read
        BY <2>1, <2>2, FreshTyped DEF NoTask, Task, Complete
  <2> HIDE DEF w
  <2>6. w.user = u => SavesSoundly(w, u)
        BY <2>2, <2>4, <2>5 DEF SavesSoundly, Complete
  <2>7. QED
        BY <2>3, <2>5, <2>6, StartGrants
<1>6. QED
      BY <1>2, <1>3, <1>4, <1>5, SaveUserGrants, RemoveUserGrants DEF UserKeeping

LEMMA InitGrants ==
    ASSUME NEW u \in Users
    PROVE  Init => GrantsIInv(u)
<1> SUFFICES ASSUME Init PROVE GrantsIInv(u)
    OBVIOUS
<1>1. \A q \in Requests : task[q] = NoTask /\ NoTask.step = "idle"
      BY DEF Init, NoTask
<1>2. issued = {}
      BY DEF Init
<1>3. QED
      BY <1>1, <1>2, InitOrder DEF GrantsIInv, TaskGranted

LEMMA NextGrants ==
    ASSUME NEW u \in Users, GrantsIInv(u), [Next]_vars, u \notin overtaken'
    PROVE  GrantsIInv(u)'
<1>1. OrderIInv(u)'
  <2>1. OrderIInv(u)
        BY DEF GrantsIInv
  <2>2. ~SavesOutdated(u)
        BY <2>1, OutdatedOvertakes
  <2>3. QED
        BY <2>1, <2>2, NextOrder
<1>2. ASSUME NEW q \in Requests, Signing(q)
      PROVE  GrantsIInv(u)'
      BY <1>1, <1>2, SignInGrants, IssueGrants, BumpGrants, ClearGrants DEF Signing
<1>3. CASE Next
      BY <1>1, <1>2, <1>3, RoleKeepingGrants, UserKeepingGrants DEF Next
<1>4. CASE UNCHANGED vars
  <2>1. UNCHANGED <<role, user, issued, task>>
        BY <1>4 DEF vars
  <2>2. \A t \in issued' : t.user = u => Covered(u, t.version, t.perms)'
        BY <2>1 DEF GrantsIInv, Covered, Dead, Due, Reaches, PermsOf
  <2>3. \A q \in Requests : TaskGranted(task[q], u)'
        BY <2>1 DEF GrantsIInv, TaskGranted, SavesSoundly, Owed, Covered, Dead, Due, Reaches, PermsOf
  <2>4. QED
        BY <1>1, <2>2, <2>3 DEF GrantsIInv
<1>5. QED
      BY <1>3, <1>4

SoundIInv == TypeOK /\ \A u \in Users : u \in overtaken \/ GrantsIInv(u)

\* However logins, refreshes, role and account edits overlap, no accepted token
\* grants more than its account's roles do, unless the revocation that an edit of a
\* role or of the account owes it is under way, or the account was saved from a copy
\* that a revocation overtook (updateRole, updateUser, issue).
THEOREM GrantsNeverStale == Spec => []NoStaleGrants
<1>1. Init => SoundIInv
      BY InitTyped, InitGrants DEF SoundIInv
<1>2. SoundIInv /\ [Next]_vars => SoundIInv'
  <2> SUFFICES ASSUME SoundIInv, [Next]_vars PROVE SoundIInv'
      OBVIOUS
  <2>1. ASSUME NEW u \in Users PROVE u \in overtaken' \/ GrantsIInv(u)'
    <3>1. CASE u \in overtaken
          BY <3>1, MoreOvertaken
    <3>2. CASE GrantsIInv(u)
          BY <3>2, NextGrants
    <3>3. QED
          BY <3>1, <3>2 DEF SoundIInv
  <2>2. QED
        BY <2>1, NextTyped DEF SoundIInv
<1>3. SoundIInv => NoStaleGrants
  <2> SUFFICES ASSUME SoundIInv, NEW t \in issued, Accepted(t), t.user \notin overtaken
               PROVE  t.perms \subseteq PermsOf(user[t.user].roles) \/ BumpPending(t.user)
      BY DEF NoStaleGrants
  <2>1. t.user \in Users /\ t.version \in Nat
        BY DEF SoundIInv, TypeOK, Pair
  <2>2. Covered(t.user, t.version, t.perms) /\ ~Dead(t.user, t.version)
        BY <2>1 DEF SoundIInv, GrantsIInv, Accepted, Dead
  <2>3. Due(t.user) => BumpPending(t.user)
        BY DEF Due, Reaches, Owes, BumpPending
  <2>4. QED
        BY <2>2, <2>3 DEF Covered
<1>4. QED
      BY <1>1, <1>2, <1>3, PTL DEF Spec

-----------------------------------------------------------------------------
(***************************************************************************)
(* Managers.  The check that an account is not the last manager is made    *)
(* when a request reads, and counts when it saves.  Until something is     *)
(* contested, what the check saw still holds then: either the copy keeps   *)
(* managing or somebody else manages.                                      *)
(***************************************************************************)

\* The roles of a copy were created before it was made.
KnownRoles(w) == w.step = "saveUser" => \A r \in w.row.roles : role[r].state # "none"

InOffice(w) ==
    /\ w.step = "saveUser" => Manages(w.row) \/ \E v \in Users \ {w.user} : Manages(user[v])
    /\ w.step = "deleteUser" => \E v \in Users \ {w.user} : Manages(user[v])

Settled == Managers # {} /\ \A q \in Requests : InOffice(task[q])

OfficeIInv ==
    /\ TypeOK
    /\ \A q \in Requests : KnownRoles(task[q])
    /\ contested \/ Settled

\* Roles that may be held stay in the table, and none loses the management of accounts.
RolesStay == \A r \in Roles : role[r].state # "none" => role'[r].state # "none"

RolesHold ==
    \A r \in Roles : role[r].state # "none" /\ GrantsManagement(role[r].perms)
                        => GrantsManagement(role'[r].perms)

LEMMA HeldManages ==
    ASSUME RolesHold, NEW row, row.roles \subseteq Roles,
           \A r \in row.roles : role[r].state # "none", Manages(row)
    PROVE  Manages(row)'
<1>1. PICK r \in row.roles : GrantsManagement(role[r].perms)
      BY DEF Manages, GrantsManagement, PermsOf
<1>2. GrantsManagement(role'[r].perms)
      BY <1>1 DEF RolesHold
<1>3. QED
      BY <1>1, <1>2 DEF Manages, GrantsManagement, PermsOf

\* An account whose row keeps its state and roles goes on managing.
LEMMA HeldManager ==
    ASSUME TypeOK, RolesHold, NEW u \in Users, Manages(user[u]),
           user'[u].state = user[u].state, user'[u].roles = user[u].roles
    PROVE  Manages(user[u])'
<1>1. PICK row : row = user[u]
      OBVIOUS
<1>2. row.roles \subseteq Roles /\ \A r \in row.roles : role[r].state # "none"
      BY <1>1 DEF TypeOK, Row, Exists
<1>3. Manages(row)'
      BY <1>1, <1>2, HeldManages
<1>4. QED
      BY <1>1, <1>3 DEF Manages

LEMMA HeldManagers ==
    ASSUME TypeOK, RolesHold,
           \A u \in Users : user'[u].state = user[u].state /\ user'[u].roles = user[u].roles
    PROVE  Managers \subseteq Managers'
BY HeldManager DEF Managers

\* What the check of a request saw stands as long as managers and roles do.
LEMMA HeldOffice ==
    ASSUME OfficeIInv, RolesHold, Managers \subseteq Managers', NEW p \in Requests,
           InOffice(task[p]), task'[p] = task[p]
    PROVE  InOffice(task[p])'
<1>1. PICK w \in Task : w = task[p] /\ w = task'[p]
      BY DEF OfficeIInv, TypeOK
<1>2. InOffice(w) /\ KnownRoles(w) /\ w.row.roles \subseteq Roles
      BY <1>1 DEF OfficeIInv, Task, Row
<1>3. \A v \in Users : Manages(user[v]) => Manages(user[v])'
      BY DEF Managers
<1>4. w.step = "saveUser" /\ Manages(w.row) => Manages(w.row)'
      BY <1>2, HeldManages DEF KnownRoles
<1>5. InOffice(w)'
      BY <1>2, <1>3, <1>4 DEF InOffice
<1>6. QED
      BY <1>1, <1>5 DEF InOffice

\* A request that goes on or ends.
LEMMA StepOffice ==
    ASSUME NEW q \in Requests, OfficeIInv, TypeOK', RolesStay,
           \A p \in Requests \ {q} : task'[p] = task[p],
           task'[q].step \notin {"saveUser", "deleteUser"},
           contested' \/ (RolesHold /\ Managers \subseteq Managers' /\ contested' = contested)
    PROVE  OfficeIInv'
<1>1. ASSUME NEW p \in Requests PROVE KnownRoles(task[p])'
  <2>1. CASE p = q
        BY <2>1 DEF KnownRoles
  <2>2. CASE p # q
    <3>1. task'[p] = task[p] /\ KnownRoles(task[p]) /\ task[p].row.roles \subseteq Roles
          BY <2>2 DEF OfficeIInv, TypeOK, Task, Row
    <3>2. QED
          BY <3>1 DEF KnownRoles, RolesStay
  <2>3. QED
        BY <2>1, <2>2
<1>2. CASE contested'
      BY <1>1, <1>2 DEF OfficeIInv
<1>3. CASE ~contested'
  <2>1. Settled
        BY <1>3 DEF OfficeIInv
  <2>2. Managers' # {}
        BY <1>3, <2>1 DEF Settled
  <2>3. ASSUME NEW p \in Requests PROVE InOffice(task[p])'
    <3>1. CASE p = q
          BY <3>1 DEF InOffice
    <3>2. CASE p # q
          BY <1>3, <2>1, <3>2, HeldOffice DEF Settled
    <3>3. QED
          BY <3>1, <3>2
  <2>4. QED
        BY <1>1, <2>2, <2>3 DEF OfficeIInv, Settled
<1>4. QED
      BY <1>2, <1>3

\* A request that starts has just made its check.
LEMMA StartOffice ==
    ASSUME NEW q \in Requests, NEW w \in Task, OfficeIInv, TypeOK', Start(q, w),
           UNCHANGED <<role, user, issued, history>>,
           KnownRoles(w), Managers # {} => InOffice(w)
    PROVE  OfficeIInv'
<1>1. \A p \in Requests : task'[p] = IF p = q THEN w ELSE task[p]
      BY DEF Start, OfficeIInv, TypeOK
<1>2. UNCHANGED <<role, user, contested>>
      BY DEF history
<1>3. \A p \in Requests : KnownRoles(task[p])'
      BY <1>1, <1>2 DEF OfficeIInv, KnownRoles
<1>4. Managers' = Managers
      BY <1>2 DEF Managers, Manages, PermsOf
<1>5. ASSUME Settled PROVE Settled'
  <2>1. ASSUME NEW p \in Requests PROVE InOffice(task[p])'
    <3>1. PICK y : y = task'[p] /\ InOffice(y)
          BY <1>1, <1>5 DEF Settled
    <3>2. PICK row : row = y.row
          OBVIOUS
    <3>3. Manages(row) => Manages(row)'
          BY <1>2 DEF Manages, PermsOf
    <3>4. ASSUME NEW v \in Users, Manages(user[v]) PROVE Manages(user[v])'
          BY <1>2, <3>4 DEF Manages, PermsOf
    <3>5. QED
          BY <3>1, <3>2, <3>3, <3>4 DEF InOffice
  <2>2. QED
        BY <1>4, <1>5, <2>1 DEF Settled
<1>6. QED
      BY <1>2, <1>3, <1>5 DEF OfficeIInv

LEMMA IdleOffice ==
    ASSUME NEW w, w.step \notin {"saveUser", "deleteUser"}
    PROVE  KnownRoles(w) /\ InOffice(w)
BY DEF KnownRoles, InOffice

LEMMA BumpingOffice ==
    ASSUME NEW q \in Requests, NEW U \in SUBSET Users, TypeOK, Bumping(q, U)
    PROVE  /\ \A p \in Requests \ {q} : task'[p] = task[p]
           /\ task'[q].step \notin {"saveUser", "deleteUser"}
<1>1. CASE U = {}
      BY <1>1 DEF Bumping, TypeOK, NoTask
<1>2. CASE U # {}
  <2>1. task[q] \in Task /\ task' = [task EXCEPT ![q] = [task[q] EXCEPT !.step = "bump", !.todo = U]]
        BY <1>2 DEF Bumping, TypeOK
  <2>2. QED
        BY <2>1 DEF TypeOK, Task
<1>3. QED
      BY <1>1, <1>2

\* Signing in and out touches neither the state nor the roles of an account.
LEMMA SigningOffice ==
    ASSUME NEW q \in Requests, OfficeIInv, TypeOK', Signing(q)
    PROVE  OfficeIInv'
<1>1. TypeOK /\ task[q] \in Task /\ NoTask.step = "idle"
      BY DEF OfficeIInv, TypeOK, NoTask
<1>2. ASSUME NEW w \in Task, w.step \in {"issue", "bump"}, Start(q, w),
             UNCHANGED <<role, user, issued, history>>
      PROVE  OfficeIInv'
      BY <1>2, IdleOffice, StartOffice
<1>3. ASSUME NEW x \in Users, NEW n \in Nat
      PROVE  IssueTo(x, n) \in Task /\ IssueTo(x, n).step = "issue"
      BY <1>1, IssueToTyped DEF IssueTo, NoTask
<1>4. CASE \E u \in Users : Login(q, u)
      BY <1>2, <1>3, <1>4 DEF Login
<1>5. ASSUME NEW t \in issued, Refresh(q, t) \/ Logout(q, t) PROVE OfficeIInv'
  <2> DEFINE w == [NoTask EXCEPT !.step = "bump", !.todo = {t.user}]
  <2>1. t.user \in Users /\ t.id \in Nat
        BY <1>1 DEF TypeOK, Pair
  <2>2. {t.user} \in SUBSET Users
        BY <2>1
  <2>3. w \in Task /\ w.step = "bump"
        BY <2>2, BumpTaskTyped DEF NoTask
  <2>4. CASE Refresh(q, t) /\ user[t.user].current = t.id
    <3>1. Start(q, IssueTo(t.user, t.id)) /\ UNCHANGED <<role, user, issued, history>>
          BY <2>4 DEF Refresh
    <3>2. QED
          BY <1>2, <1>3, <2>1, <3>1
  <2>5. CASE Logout(q, t) \/ (Refresh(q, t) /\ user[t.user].current # t.id)
    <3>1. Start(q, w) /\ UNCHANGED <<role, user, issued, history>>
          BY <2>5 DEF Refresh, Logout
    <3> HIDE DEF w
    <3>2. QED
          BY <1>2, <2>3, <3>1
  <2>6. QED
        BY <1>5, <2>4, <2>5
<1>6. ASSUME role' = role, contested' = contested,
             \A u \in Users : user'[u].state = user[u].state /\ user'[u].roles = user[u].roles,
             \A p \in Requests \ {q} : task'[p] = task[p],
             task'[q].step \notin {"saveUser", "deleteUser"}
      PROVE  OfficeIInv'
  <2>1. RolesHold /\ RolesStay
        BY <1>6 DEF RolesHold, RolesStay
  <2>2. Managers \subseteq Managers'
        BY <1>1, <1>6, <2>1, HeldManagers
  <2>3. QED
        BY <1>6, <2>1, <2>2, StepOffice
<1>7. CASE Issue(q)
  <2>1. role' = role /\ contested' = contested /\ task'[q] = NoTask
        /\ \A p \in Requests \ {q} : task'[p] = task[p]
        BY <1>1, <1>7 DEF Issue, Answer, TypeOK, history
  <2>2. \A u \in Users : user'[u].state = user[u].state /\ user'[u].roles = user[u].roles
        BY <1>1, <1>7 DEF Issue, TypeOK, Row
  <2>3. QED
        BY <1>1, <1>6, <2>1, <2>2
<1>8. ASSUME NEW x \in Users, Bump(q, x) PROVE OfficeIInv'
  <2>1. /\ \A p \in Requests \ {q} : task'[p] = task[p]
        /\ task'[q].step = "clear" /\ role' = role /\ contested' = contested
        BY <1>1, <1>8 DEF Bump, TypeOK, Task
  <2>2. \A u \in Users : user'[u].state = user[u].state /\ user'[u].roles = user[u].roles
        BY <1>1, <1>8 DEF Bump, TypeOK, Row
  <2>3. QED
        BY <1>6, <2>1, <2>2
<1>9. CASE Clear(q)
  <2>1. /\ Bumping(q, task[q].todo \ {task[q].user}) /\ role' = role /\ contested' = contested
        /\ task[q].todo \ {task[q].user} \in SUBSET Users
        BY <1>1, <1>9 DEF Clear, history, Task
  <2>2. \A u \in Users : user'[u].state = user[u].state /\ user'[u].roles = user[u].roles
        BY <1>1, <1>9 DEF Clear, TypeOK, Row
  <2>3. QED
        BY <1>1, <1>6, <2>1, <2>2, BumpingOffice
<1>10. QED
      BY <1>4, <1>5, <1>7, <1>8, <1>9 DEF Signing

\* A role that stops managing accounts contests; one that appears is held by nobody.
LEMMA RoleKeepingOffice ==
    ASSUME NEW q \in Requests, OfficeIInv, TypeOK', RoleKeeping(q)
    PROVE  OfficeIInv'
<1>1. TypeOK /\ task[q] \in Task /\ NoTask.step = "idle"
      BY DEF OfficeIInv, TypeOK, NoTask
<1>2. ASSUME NEW t \in issued, NEW r \in Roles, NEW P, EditRole(q, t, r, P),
             P \in Grants \cup {role[r].perms}
      PROVE  OfficeIInv'
  <2> DEFINE w == [NoTask EXCEPT !.step = "saveRole", !.role = r, !.perms = P]
  <2>1. P \in SUBSET Keys
        BY <1>1, <1>2, StaffAssumption DEF TypeOK, Keys
  <2>2. w \in Task /\ w.step = "saveRole"
        BY <2>1, FreshTyped DEF NoTask, Task
  <2>3. Start(q, w) /\ UNCHANGED <<role, user, issued, history>>
        BY <1>2 DEF EditRole
  <2> HIDE DEF w
  <2>4. QED
        BY <2>2, <2>3, IdleOffice, StartOffice
<1>3. CASE SaveRole(q)
  <2> DEFINE r == task[q].role
  <2>1. task' = [task EXCEPT ![q] = [task[q] EXCEPT !.step = "holders"]]
        BY <1>1, <1>3 DEF SaveRole, TypeOK
  <2>2. /\ \A p \in Requests \ {q} : task'[p] = task[p]
        /\ task'[q].step = "holders" /\ user' = user /\ RolesStay
        BY <1>1, <1>3, <2>1 DEF SaveRole, TypeOK, Task, RolesStay
  <2>3. contested' \in BOOLEAN
        BY DEF TypeOK
  <2>4. CASE ~contested'
    <3>1. contested' = contested
          BY <1>1, <1>3, <2>3, <2>4 DEF SaveRole, TypeOK
    <3>2. GrantsManagement(role[r].perms) => GrantsManagement(task[q].perms)
          BY <1>3, <2>4 DEF SaveRole
    <3>3. RolesHold
          BY <1>1, <1>3, <3>2 DEF SaveRole, TypeOK, RolesHold
    <3>4. Managers \subseteq Managers'
          BY <1>1, <2>2, <3>3, HeldManagers
    <3>5. QED
          BY <2>2, <3>1, <3>3, <3>4, StepOffice
  <2>5. CASE contested'
        BY <2>2, <2>5, StepOffice
  <2>6. QED
        BY <2>4, <2>5
<1>4. ASSUME role' = role, contested' = contested, user' = user,
             \A p \in Requests \ {q} : task'[p] = task[p],
             task'[q].step \notin {"saveUser", "deleteUser"}
      PROVE  OfficeIInv'
  <2>1. RolesHold /\ RolesStay
        BY <1>4 DEF RolesHold, RolesStay
  <2>2. Managers \subseteq Managers'
        BY <1>1, <1>4, <2>1, HeldManagers
  <2>3. QED
        BY <1>4, <2>1, <2>2, StepOffice
<1>5. CASE Holders(q)
  <2>1. /\ Bumping(q, HoldersOf(task[q].role)) /\ HoldersOf(task[q].role) \in SUBSET Users
        /\ role' = role /\ contested' = contested /\ user' = user
        BY <1>5 DEF Holders, HoldersOf, history
  <2>2. QED
        BY <1>1, <1>4, <2>1, BumpingOffice
<1>6. ASSUME NEW t \in issued, NEW r \in Roles,
             DeleteRole(q, t, r) \/ \E P \in Grants : CreateRole(q, t, r, P)
      PROVE  OfficeIInv'
  <2>1. UNCHANGED <<user, task, contested>> /\ task[q] = NoTask
        BY <1>6 DEF DeleteRole, CreateRole, Ready, history
  <2>2. \A s \in Roles : role[s].state # "none" =>
                            role'[s].state # "none" /\ role'[s].perms = role[s].perms
        BY <1>1, <1>6 DEF DeleteRole, CreateRole, TypeOK
  <2>3. RolesHold /\ RolesStay
        BY <2>2 DEF RolesHold, RolesStay
  <2>4. Managers \subseteq Managers'
        BY <1>1, <2>1, <2>3, HeldManagers
  <2>5. QED
        BY <1>1, <2>1, <2>3, <2>4, StepOffice
<1>7. QED
      BY <1>2, <1>3, <1>5, <1>6 DEF RoleKeeping

\* The save or the removal: either it takes nobody's management away, or no other
\* edit of an account counts on it and somebody else manages.
LEMMA EditOffice ==
    ASSUME NEW q \in Requests, OfficeIInv, TypeOK', EditsAccount(q), Contest(q), role' = role,
           \A p \in Requests \ {q} : task'[p] = task[p],
           task'[q].step \notin {"saveUser", "deleteUser"},
           \A v \in Users \ {task[q].user} : user'[v] = user[v],
           user' = user \/ (task[q].step = "saveUser" /\ user'[task[q].user] = task[q].row)
                        \/ task[q].step = "deleteUser"
    PROVE  OfficeIInv'
<1>1. TypeOK /\ task[q] \in Task /\ task[q].user \in Users
      BY DEF OfficeIInv, TypeOK, EditsAccount
<1>2. RolesHold /\ RolesStay
      BY DEF RolesHold, RolesStay
<1>3. contested' \in BOOLEAN /\ contested \in BOOLEAN
      BY <1>1 DEF TypeOK
<1>4. CASE contested'
      BY <1>2, <1>4, StepOffice
<1>5. CASE ~contested' /\ Managers \subseteq Managers'
  <2>1. contested' = contested
        BY <1>3, <1>5 DEF Contest
  <2>2. QED
        BY <1>2, <1>5, <2>1, StepOffice
<1>6. CASE ~contested' /\ ~(Managers \subseteq Managers')
  <2>1. ~contested /\ \A p \in Requests \ {q} : ~EditsAccount(p)
        BY <1>3, <1>6 DEF Contest
  <2>2. InOffice(task[q])
        BY <2>1 DEF OfficeIInv, Settled
  <2>3. user' # user
        BY <1>6 DEF Managers, Manages, PermsOf
  <2>4. \E v \in Users : Manages(user[v])'
    <3>1. CASE \E v \in Users \ {task[q].user} : Manages(user[v])
          BY <3>1 DEF Manages, PermsOf
    <3>2. CASE task[q].step = "saveUser" /\ Manages(task[q].row)
      <4>1. PICK u \in Users, row \in Row : u = task[q].user /\ row = task[q].row
            BY <1>1 DEF Task
      <4>2. user'[u] = row /\ Manages(row)
            BY <2>3, <3>2, <4>1
      <4>3. Manages(user[u])'
            BY <4>2 DEF Manages, PermsOf
      <4>4. QED
            BY <4>3
    <3>3. QED
          BY <2>2, <3>1, <3>2 DEF InOffice, EditsAccount
  <2>5. ASSUME NEW p \in Requests PROVE InOffice(task[p])' /\ KnownRoles(task[p])'
    <3>1. task'[p].step \notin {"saveUser", "deleteUser"}
      <4>1. CASE p = q
            BY <4>1
      <4>2. CASE p # q
            BY <2>1, <4>2 DEF EditsAccount
      <4>3. QED
            BY <4>1, <4>2
    <3>2. QED
          BY <3>1 DEF InOffice, KnownRoles
  <2>6. QED
        BY <2>4, <2>5 DEF OfficeIInv, Settled, Managers
<1>7. QED
      BY <1>4, <1>5, <1>6

\* The check of an account edit, as it starts.
LEMMA ChecksOffice ==
    ASSUME NEW u \in Users, ~IsLastManager(u), Managers # {}
    PROVE  \E v \in Users \ {u} : Manages(user[v])
BY DEF IsLastManager, Managers

LEMMA UserKeepingOffice ==
    ASSUME NEW q \in Requests, OfficeIInv, TypeOK', UserKeeping(q)
    PROVE  OfficeIInv'
<1>1. TypeOK /\ NoTask.step = "idle" /\ \A u \in Users : user[u].roles \subseteq Roles
      BY DEF OfficeIInv, TypeOK, NoTask, Row
<1>2. \A u \in Users : \A r \in user[u].roles : role[r].state # "none"
      BY <1>1 DEF TypeOK, Exists
<1>3. ASSUME NEW t \in issued, NEW u \in Users, DeleteUser(q, t, u)
      PROVE  OfficeIInv'
  <2> DEFINE w == [NoTask EXCEPT !.step = "deleteUser", !.user = u]
  <2>1. w \in Task /\ w.step = "deleteUser" /\ w.user = u
        BY FreshTyped DEF NoTask, Task
  <2>2. Start(q, w) /\ UNCHANGED <<role, user, issued, history>> /\ ~IsLastManager(u)
        BY <1>3 DEF DeleteUser
  <2> HIDE DEF w
  <2>3. KnownRoles(w) /\ (Managers # {} => InOffice(w))
        BY <2>1, <2>2, ChecksOffice DEF KnownRoles, InOffice
  <2>4. QED
        BY <2>1, <2>2, <2>3, StartOffice
<1>4. ASSUME NEW t \in issued, NEW u \in Users, NEW R \in SUBSET Roles, CreateUser(q, t, u, R)
      PROVE  OfficeIInv'
  <2> DEFINE row == [NewUser EXCEPT !.state = "active", !.roles = R]
             w == [NoTask EXCEPT !.step = "saveUser", !.user = u, !.over = {"none"}, !.row = row]
  <2>1. row \in Row /\ row.roles = R
        BY FreshTyped DEF NewUser, Row
  <2> HIDE DEF row
  <2>2. w \in Task /\ w.step = "saveUser" /\ w.user = u /\ w.row = row
        BY <2>1, FreshTyped DEF NoTask, Task
  <2>3. Start(q, w) /\ UNCHANGED <<role, user, issued, history>>
        BY <1>4 DEF CreateUser, row
  <2>4. (\A r \in R : role[r].state # "none") /\ user[u].state = "none"
        BY <1>4 DEF CreateUser, Exists
  <2> HIDE DEF w
  <2>5. Managers # {} => \E v \in Users \ {u} : Manages(user[v])
        BY <2>4 DEF Managers, Manages
  <2>6. KnownRoles(w) /\ (Managers # {} => InOffice(w))
        BY <2>1, <2>2, <2>4, <2>5 DEF KnownRoles, InOffice
  <2>7. QED
        BY <2>2, <2>3, <2>6, StartOffice
<1>5. ASSUME NEW t \in issued, NEW u \in Users, NEW R \in SUBSET Roles,
             NEW s \in {"active", "inactive"}, NEW bump \in BOOLEAN, NEW password \in BOOLEAN,
             UpdateUser(q, t, u, s, R, bump, password)
      PROVE  OfficeIInv'
  <2> DEFINE row == [user[u] EXCEPT !.state = s, !.roles = R]
             over == IF password THEN Complete ELSE Incomplete
             U == IF bump THEN {u} ELSE {}
             read == user[u].version
             w == [NoTask EXCEPT !.step = "saveUser", !.user = u, !.row = row,
                             !.read = read, !.over = over, !.todo = U]
  <2>1. row \in Row /\ U \in SUBSET Users /\ read \in Nat /\ row.roles = R
    <3>1. user[u] \in Row
          BY <1>1 DEF TypeOK
    <3>2. row \in Row /\ read \in Nat /\ row.roles = R
          BY <3>1 DEF Row
    <3>3. QED
          BY <3>2
  <2>2. over \in SUBSET {"none", "active", "inactive", "gone"}
        BY DEF Complete, Incomplete
  <2>3. Start(q, w) /\ UNCHANGED <<role, user, issued, history>>
        BY <1>5 DEF UpdateUser
  <2>4. ~Manages(row) => ~IsLastManager(u)
        BY <1>5 DEF UpdateUser
  <2>5. \A r \in R : role[r].state # "none"
    <3>1. R = user[u].roles \/ \A r \in R : Exists(r)
          BY <1>5 DEF UpdateUser
    <3>2. QED
          BY <1>2, <3>1 DEF Exists
  <2> HIDE DEF row, over, U, read
  <2>6. w \in Task /\ w.step = "saveUser" /\ w.user = u /\ w.row = row
        BY <2>1, <2>2, FreshTyped DEF NoTask, Task
  <2> HIDE DEF w
  <2>7. KnownRoles(w) /\ (Managers # {} => InOffice(w))
        BY <2>1, <2>4, <2>5, <2>6, ChecksOffice DEF KnownRoles, InOffice
  <2>8. QED
        BY <2>3, <2>6, <2>7, StartOffice
<1>6. ASSUME NEW u \in Users, ResetPassword(q, u)
      PROVE  OfficeIInv'
  <2> DEFINE row == [user[u] EXCEPT !.state = "active", !.version = user[u].version + 1]
             read == user[u].version
             w == [NoTask EXCEPT !.step = "saveUser", !.user = u, !.over = Complete,
                             !.read = read, !.row = row]
  <2>1. user[u] \in Row /\ user[u].version + 1 \in Nat /\ read \in Nat
        BY <1>1 DEF TypeOK, Row
  <2>2. row \in Row /\ row.roles = user[u].roles /\ row.state = "active"
        BY <2>1 DEF Row
  <2>3. Start(q, w) /\ UNCHANGED <<role, user, issued, history>>
        BY <1>6 DEF ResetPassword
  <2> HIDE DEF row, read
  <2>4. w \in Task /\ w.step = "saveUser" /\ w.user = u /\ w.row = row
        BY <2>1, <2>2, FreshTyped DEF NoTask, Task, Complete
  <2> HIDE DEF w
  <2>5. Manages(user[u]) => Manages(row)
        BY <2>2 DEF Manages
  <2>6. Managers # {} => Manages(row) \/ \E v \in Users \ {u} : Manages(user[v])
        BY <2>5 DEF Managers
  <2>7. KnownRoles(w) /\ (Managers # {} => InOffice(w))
        BY <1>2, <2>2, <2>4, <2>6 DEF KnownRoles, InOffice
  <2>8. QED
        BY <2>3, <2>4, <2>7, StartOffice
<1>7. CASE SaveUser(q)
  <2>1. task[q] \in Task /\ task[q].user \in Users /\ task[q].step = "saveUser"
        BY <1>1, <1>7 DEF SaveUser, TypeOK
  <2>2. \E U \in SUBSET Users : Bumping(q, U)
    <3>1. task[q].todo \in SUBSET Users /\ {} \in SUBSET Users
          BY <2>1 DEF Task
    <3>2. QED
          BY <1>7, <3>1 DEF SaveUser
  <2>3. user' = user \/ user' = [user EXCEPT ![task[q].user] = task[q].row]
        BY <1>7 DEF SaveUser
  <2>4. role' = role /\ Contest(q) /\ EditsAccount(q)
        BY <1>7 DEF SaveUser, EditsAccount
  <2>5. /\ \A v \in Users \ {task[q].user} : user'[v] = user[v]
        /\ user' = user \/ user'[task[q].user] = task[q].row
        BY <1>1, <2>1, <2>3 DEF TypeOK
  <2>6. QED
        BY <1>1, <2>1, <2>2, <2>4, <2>5, BumpingOffice, EditOffice
<1>8. CASE RemoveUser(q)
  <2>1. /\ task'[q] = NoTask /\ \A p \in Requests \ {q} : task'[p] = task[p]
        /\ task[q].step = "deleteUser" /\ task[q].user \in Users
        BY <1>1, <1>8 DEF RemoveUser, Answer, TypeOK
  <2>2. role' = role /\ Contest(q) /\ EditsAccount(q)
        BY <1>8 DEF RemoveUser, EditsAccount
  <2>3. \A v \in Users \ {task[q].user} : user'[v] = user[v]
        BY <1>1, <1>8, <2>1 DEF RemoveUser, TypeOK
  <2>4. QED
        BY <1>1, <2>1, <2>2, <2>3, EditOffice
<1>9. QED
      BY <1>3, <1>4, <1>5, <1>6, <1>7, <1>8 DEF UserKeeping

\* From a seeded administrator on, somebody can manage the accounts, whatever edits
\* overlap, unless a role lost that permission or an account lost it while another
\* edit of an account was between its check and its save (rbac.service.ts,
\* isLastActiveAdmin).
THEOREM ManagerUnlessContested ==
    ASSUME \E u \in Users : FirstUser[u].state = "active" /\ AdminRole \in FirstUser[u].roles
    PROVE  Spec => []ManagerRemains
<1>1. Init => OfficeIInv
  <2> SUFFICES ASSUME Init PROVE OfficeIInv
      OBVIOUS
  <2>1. \A q \in Requests : task[q].step = "idle"
        BY DEF Init, NoTask
  <2>2. PICK u \in Users : FirstUser[u].state = "active" /\ AdminRole \in FirstUser[u].roles
        OBVIOUS
  <2>3. Super \in PermsOf(user[u].roles)
        BY <2>2, StaffAssumption DEF Init, PermsOf
  <2>4. Manages(user[u])
        BY <2>2, <2>3 DEF Init, Manages, GrantsManagement
  <2>5. QED
        BY <2>1, <2>4, InitTyped DEF OfficeIInv, Settled, Managers, KnownRoles, InOffice
<1>2. OfficeIInv /\ [Next]_vars => OfficeIInv'
  <2> SUFFICES ASSUME OfficeIInv, [Next]_vars PROVE OfficeIInv'
      OBVIOUS
  <2>1. TypeOK'
        BY NextTyped DEF OfficeIInv
  <2>2. CASE Next
        BY <2>1, <2>2, SigningOffice, RoleKeepingOffice, UserKeepingOffice DEF Next
  <2>3. CASE UNCHANGED vars
        BY <2>1, <2>3 DEF vars, history, OfficeIInv, Settled, KnownRoles, InOffice, Managers,
                          Manages, PermsOf
  <2>4. QED
        BY <2>2, <2>3
<1>3. OfficeIInv => ManagerRemains
      BY DEF OfficeIInv, Settled, ManagerRemains
<1>4. QED
      BY <1>1, <1>2, <1>3, PTL DEF Spec

=============================================================================
