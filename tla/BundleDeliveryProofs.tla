------------------------ MODULE BundleDeliveryProofs ------------------------
(***************************************************************************)
(* Theorems about BundleDelivery, for any number of builds, licences,      *)
(* requests, faults and outstanding URLs.                                  *)
(***************************************************************************)
EXTENDS BundleDelivery, TLAPS

-----------------------------------------------------------------------------
(* Types *)

\* A request in flight is well formed; a publish saves a spelling it was given,
\* and only a publish saves a row.
TaskOK(t) ==
    /\ t \in Task
    /\ t.kind = "idle" <=> t.step = "idle"
    /\ t.kind # "idle" => t.build \in Builds
    /\ t.kind = "session" => /\ PlanOf[t.build] = "premium" /\ t.lic \in Licences
                             /\ t.step # "row"
    /\ t.step \in {"base", "marked"} => t.kind = "session"
    /\ t.kind = "publish" => t.spelling \in Spellings
    /\ t.step = "row" => t.kind = "publish"

TasksOK == task \in [Requests -> Task] /\ \A r \in Requests : TaskOK(task[r])

StateOK ==
    /\ driver \in Drivers
    /\ row \in [Builds -> {"none"} \cup Spellings]
    /\ file \in [Contents -> {"none", "torn", "whole"}]
    /\ root \in {"unmade", "made", "rejected"}
    /\ memo \in [Contents -> Contents \cup {NoDigest}]
    /\ link \subseteq LinkRow
    /\ faults \in Nat

TypeInv == StateOK /\ TasksOK

LEMMA TypeInvIsTyped == TypeInv => TypeOK
BY DEF TypeInv, StateOK, TasksOK, TaskOK, TypeOK

\* A bundle and its marks are different contents.
LEMMA ContentsOf ==
    ASSUME NEW b \in Builds
    PROVE  /\ Plain(b) \in Contents
           /\ Plain(b).lic = NoLicence
           /\ \A l \in Licences : /\ applyWatermark(b, l) \in Contents
                                  /\ applyWatermark(b, l) # Plain(b)
                                  /\ applyWatermark(b, l).lic = l
BY BundleAssumption DEF Plain, applyWatermark, Contents

LEMMA IdleOK == TaskOK(Idle) /\ Idle.kind = "idle"
BY DEF TaskOK, Idle, Request, Task, Steps

\* A request that goes on is well formed if the step is one of its kind.
LEMMA MovedOK ==
    ASSUME NEW t, NEW step \in Steps, TaskOK(t), t.kind # "idle", step # "idle",
           step \in {"base", "marked"} => t.kind = "session",
           step = "row" => t.kind = "publish"
    PROVE  /\ TaskOK([t EXCEPT !.step = step])
           /\ [t EXCEPT !.step = step].kind = t.kind
           /\ [t EXCEPT !.step = step].build = t.build
           /\ [t EXCEPT !.step = step].lic = t.lic
           /\ [t EXCEPT !.step = step].spelling = t.spelling
<1>1. t \in [kind: {"idle", "publish", "restore", "session"}, step: Steps,
             build: Builds \cup {NoBuild}, lic: Licences \cup {NoLicence},
             spelling: {"lower", "upper"}]
      BY DEF TaskOK, Task
<1>2. [t EXCEPT !.step = step] \in Task
      BY <1>1 DEF Task
<1>3. /\ [t EXCEPT !.step = step].kind = t.kind
      /\ [t EXCEPT !.step = step].build = t.build
      /\ [t EXCEPT !.step = step].lic = t.lic
      /\ [t EXCEPT !.step = step].spelling = t.spelling
      /\ [t EXCEPT !.step = step].step = step
      BY <1>1
<1>4. QED
      BY <1>2, <1>3 DEF TaskOK

LEMMA OneTaskChanged ==
    ASSUME TasksOK, NEW r \in Requests, NEW t, TaskOK(t), task' = [task EXCEPT ![r] = t]
    PROVE  /\ TasksOK'
           /\ \A s \in Requests : task'[s] = IF s = r THEN t ELSE task[s]
BY DEF TasksOK, TaskOK

LEMMA LeaveTyped ==
    ASSUME TasksOK, NEW r \in Requests, Leave(r)
    PROVE  /\ TasksOK'
           /\ \A s \in Requests : task'[s] = IF s = r THEN Idle ELSE task[s]
BY IdleOK, OneTaskChanged DEF Leave

LEMMA GotoTyped ==
    ASSUME TasksOK, NEW r \in Requests, NEW step \in Steps, Goto(r, step),
           task[r].kind # "idle", step # "idle",
           step \in {"base", "marked"} => task[r].kind = "session",
           step = "row" => task[r].kind = "publish"
    PROVE  /\ TasksOK'
           /\ \A s \in Requests :
                 /\ task'[s].kind = task[s].kind /\ task'[s].build = task[s].build
                 /\ task'[s].lic = task[s].lic /\ task'[s].spelling = task[s].spelling
<1>1. TaskOK(task[r])
      BY DEF TasksOK
<1> DEFINE t == [task[r] EXCEPT !.step = step]
<1>2. /\ TaskOK(t)
      /\ t.kind = task[r].kind /\ t.build = task[r].build
      /\ t.lic = task[r].lic /\ t.spelling = task[r].spelling
      BY <1>1, MovedOK
<1>3. task' = [task EXCEPT ![r] = t]
      BY DEF Goto
<1> HIDE DEF t
<1>4. TasksOK' /\ \A s \in Requests : task'[s] = IF s = r THEN t ELSE task[s]
      BY <1>2, <1>3, OneTaskChanged
<1>5. QED
      BY <1>2, <1>4

\* A URL handed out to a session is well typed.
LEMMA HandOutTyped ==
    ASSUME StateOK, NEW t, NEW c \in Contents, NEW sp \in {"lower", "upper"},
           NEW f \in BOOLEAN, t.build \in Builds, t.lic \in Licences \cup {NoLicence},
           HandOut(t, c, sp, f)
    PROVE  link' \subseteq LinkRow
<1> DEFINE bk == file[Plain(t.build)] = "whole"
<1>1. bk \in BOOLEAN
      OBVIOUS
<1>2. link' = link \cup {[build |-> t.build, content |-> c, spelling |-> sp,
                          lic |-> t.lic, failed |-> f, backed |-> bk]}
      BY DEF HandOut, Link
<1> HIDE DEF bk
<1>3. QED
      BY <1>1, <1>2 DEF StateOK, LinkRow

\* Failing open keeps the types.
LEMMA FailOpenTyped ==
    ASSUME TypeInv, NEW r \in Requests, NEW f \in BOOLEAN, task[r].kind # "idle", FailOpen(r, f)
    PROVE  TasksOK' /\ link' \subseteq LinkRow /\ memo' = memo
<1>1. TaskOK(task[r]) /\ TasksOK /\ StateOK
      BY DEF TypeInv, TasksOK
<1>2. /\ task[r].build \in Builds /\ task[r].lic \in Licences \cup {NoLicence}
      /\ task[r].spelling \in {"lower", "upper"}
      BY <1>1 DEF TaskOK, Task
<1>3. link' \subseteq LinkRow
      BY <1>1, <1>2, ContentsOf, HandOutTyped DEF FailOpen
<1>4. QED
      BY <1>1, <1>3, LeaveTyped DEF FailOpen, AfterFailure

\* So does a put that failed,
LEMMA ThrewTyped ==
    ASSUME TypeInv, NEW r \in Requests, task[r].kind # "idle", Threw(r)
    PROVE  TasksOK' /\ link' \subseteq LinkRow /\ memo' = memo
<1>1. CASE task[r].kind # "session" /\ Leave(r) /\ UNCHANGED <<memo, link>>
      BY <1>1, LeaveTyped DEF TypeInv, StateOK
<1>2. CASE FailOpen(r, TRUE)
      BY <1>2, FailOpenTyped
<1>3. QED
      BY <1>1, <1>2 DEF Threw

\* and one that succeeded.
LEMMA StoredTyped ==
    ASSUME TypeInv, NEW r \in Requests, task[r].kind # "idle", Stored(r)
    PROVE  /\ TasksOK' /\ link' \subseteq LinkRow
           /\ memo' \in [Contents -> Contents \cup {NoDigest}]
<1>1. TaskOK(task[r]) /\ TasksOK /\ StateOK
      BY DEF TypeInv, TasksOK
<1>2. CASE task[r].kind = "publish" /\ Goto(r, "row") /\ UNCHANGED <<memo, link>>
      BY <1>1, <1>2, GotoTyped DEF StateOK, Steps
<1>3. CASE task[r].kind = "restore" /\ Leave(r) /\ UNCHANGED <<memo, link>>
      BY <1>1, <1>3, LeaveTyped DEF StateOK
<1>4. CASE /\ task[r].kind = "session"
           /\ memo' = [memo EXCEPT ![Marked(task[r])] = Marked(task[r])]
           /\ HandOut(task[r], Marked(task[r]), "lower", FALSE)
           /\ Leave(r)
  <2>1. task[r].build \in Builds /\ task[r].lic \in Licences
        BY <1>1, <1>4 DEF TaskOK
  <2>2. Marked(task[r]) \in Contents
        BY <2>1, ContentsOf DEF Marked
  <2>3. link' \subseteq LinkRow
        BY <1>1, <1>4, <2>1, <2>2, HandOutTyped
  <2>4. QED
        BY <1>1, <1>4, <2>2, <2>3, LeaveTyped DEF StateOK
<1>5. QED
      BY <1>2, <1>3, <1>4 DEF Stored

\* Storing a bundle keeps the table of files typed.
LEMMA BytesOf ==
    ASSUME TypeInv, NEW r \in Requests, task[r].kind # "idle"
    PROVE  Bytes(task[r]) \in Contents
BY ContentsOf DEF TypeInv, TasksOK, TaskOK, Bytes, Marked

LEMMA StepTypes ==
    ASSUME TasksOK, NEW r \in Requests, task[r].step # "idle"
    PROVE  /\ task[r].kind # "idle" /\ TaskOK(task[r])
           /\ task[r].kind # "publish" => task[r].step # "row"
BY DEF TasksOK, TaskOK

LEMMA PutFirstIsStep == PutFirst \in {"root", "look"} /\ {"root", "look"} \subseteq Steps
BY DEF PutFirst, Steps

LEMMA HandleTyped ==
    ASSUME TypeInv, NEW r \in Requests, Handle(r)
    PROVE  TypeInv'
<1> USE DEF TypeInv
<1>1. CASE EnsureRoot(r)
  <2>1. task[r].kind # "idle" /\ "look" \in Steps
        BY <1>1, StepTypes DEF EnsureRoot, At, Steps
  <2>2. CASE Goto(r, "look") /\ root' = "made" /\ UNCHANGED <<memo, link, faults>>
        BY <1>1, <2>1, <2>2, GotoTyped DEF EnsureRoot, StateOK
  <2>3. CASE Threw(r) /\ root' \in {"unmade", "made", "rejected"} /\ faults' \in Nat
        BY <1>1, <2>1, <2>3, ThrewTyped DEF EnsureRoot, StateOK
  <2>4. QED
        BY <1>1, <2>2, <2>3 DEF EnsureRoot, StateOK
<1>2. CASE Look(r)
  <2>1. task[r].kind # "idle" /\ "write" \in Steps
        BY <1>2, StepTypes DEF Look, At, Steps
  <2>2. CASE Stored(r) /\ faults' = faults
        BY <1>2, <2>1, <2>2, StoredTyped DEF Look, StateOK, store
  <2>3. CASE Goto(r, "write") /\ faults' \in Nat /\ UNCHANGED <<memo, link>>
        BY <1>2, <2>1, <2>3, GotoTyped DEF Look, StateOK, store
  <2>4. QED
        BY <1>2, <2>2, <2>3 DEF Look, StateOK
<1>3. CASE Write(r)
  <2>1. task[r].kind # "idle" /\ "rename" \in Steps
        BY <1>3, StepTypes DEF Write, At, Steps
  <2>2. CASE Goto(r, "rename") /\ file' = Written(Bytes(task[r])) /\ UNCHANGED <<memo, link, faults>>
        BY <1>3, <2>1, <2>2, GotoTyped DEF Write, StateOK, Written
  <2>3. CASE Threw(r) /\ faults' = faults + 1 /\ UNCHANGED file
        BY <1>3, <2>1, <2>3, ThrewTyped DEF Write, StateOK
  <2>4. QED
        BY <1>3, <2>2, <2>3 DEF Write
<1>4. CASE Place(r)
  <2>1. task[r].kind # "idle"
        BY <1>4, StepTypes DEF Place, At
  <2>2. [file EXCEPT ![Bytes(task[r])] = "whole"] \in [Contents -> {"none", "torn", "whole"}]
        BY DEF StateOK
  <2>3. CASE /\ file' = [file EXCEPT ![Bytes(task[r])] = "whole"]
             /\ Stored(r) /\ UNCHANGED faults
        BY <1>4, <2>1, <2>2, <2>3, StoredTyped DEF Place, StateOK
  <2>4. CASE /\ faults' = faults + 1 /\ Threw(r)
             /\ file' \in [Contents -> {"none", "torn", "whole"}]
        BY <1>4, <2>1, <2>4, ThrewTyped DEF Place, StateOK
  <2>5. QED
        BY <1>4, <2>2, <2>3, <2>4 DEF Place, StateOK
<1>5. CASE SaveRow(r)
  <2>1. TaskOK(task[r]) /\ task[r].kind = "publish"
        BY <1>5, StepTypes DEF SaveRow, At
  <2>2. task[r].spelling \in Spellings
        BY <2>1 DEF TaskOK
  <2>3. row' \in [Builds -> {"none"} \cup Spellings]
        BY <1>5, <2>2 DEF SaveRow, StateOK
  <2>4. TasksOK'
        BY <1>5, LeaveTyped DEF SaveRow
  <2>5. QED
        BY <1>5, <2>3, <2>4 DEF SaveRow, StateOK, store
<1>6. CASE ReadBase(r)
  <2>1. task[r].kind = "session" /\ "marked" \in Steps
        BY <1>6, StepTypes DEF ReadBase, At, Steps, TaskOK
  <2>2. CASE Goto(r, "marked") /\ UNCHANGED <<memo, link, faults>>
        BY <1>6, <2>1, <2>2, GotoTyped DEF ReadBase, StateOK, store
  <2>3. CASE /\ faults' \in Nat
             /\ FailOpen(r, TRUE) \/ FailOpen(r, FALSE)
        BY <1>6, <2>1, <2>3, FailOpenTyped DEF ReadBase, StateOK, store
  <2>4. faults \in Nat /\ faults + 1 \in Nat
        BY DEF StateOK
  <2>5. \/ Goto(r, "marked") /\ UNCHANGED <<memo, link, faults>>
        \/ FailOpen(r, FALSE) /\ UNCHANGED faults
        \/ FailOpen(r, TRUE) /\ faults' = faults + 1
        BY <1>6, Zenon DEF ReadBase
  <2>6. CASE FailOpen(r, FALSE) /\ faults' = faults
        BY <2>3, <2>4, <2>6
  <2>7. CASE FailOpen(r, TRUE) /\ faults' = faults + 1
        BY <2>3, <2>4, <2>7
  <2>8. QED
        BY <2>2, <2>5, <2>6, <2>7
<1>7. CASE FindMark(r)
  <2>1. task[r].kind # "idle"
        BY <1>7, StepTypes DEF FindMark, At
  <2>2. CASE Stored(r) /\ faults' = faults
        BY <1>7, <2>1, <2>2, StoredTyped DEF FindMark, StateOK, store
  <2>3. CASE Goto(r, PutFirst) /\ faults' \in Nat /\ UNCHANGED <<memo, link>>
        BY <1>7, <2>1, <2>3, GotoTyped, PutFirstIsStep DEF FindMark, StateOK, store
  <2>4. QED
        BY <1>7, <2>2, <2>3 DEF FindMark, StateOK
<1>8. QED
      BY <1>1, <1>2, <1>3, <1>4, <1>5, <1>6, <1>7 DEF Handle

\* What a request is when it begins.
LEMMA BeginOK ==
    ASSUME NEW b \in Builds
    PROVE  /\ \A s \in Spellings, st \in {PutFirst, "row"} :
                 TaskOK(Request("publish", st, b, NoLicence, s))
           /\ TaskOK(Request("restore", PutFirst, b, NoLicence, "lower"))
<1>1. PutFirst \in {"root", "look"}
      BY PutFirstIsStep
<1>2. Spellings \subseteq {"lower", "upper"}
      BY BundleAssumption
<1>3. QED
      BY <1>1, <1>2 DEF TaskOK, Task, Steps, Request

LEMMA SessionOK ==
    ASSUME NEW b \in Builds, NEW l \in Licences \cup {NoLicence}, StateOK, Registered(b)
    PROVE  /\ SessionFor(b, l) \in Task
           /\ SessionFor(b, l).kind = "session" /\ SessionFor(b, l).step = "base"
           /\ SessionFor(b, l).build = b /\ SessionFor(b, l).lic = l
           /\ SessionFor(b, l).spelling = row[b] /\ row[b] \in Spellings
           /\ (PlanOf[b] = "premium" /\ l \in Licences) => TaskOK(SessionFor(b, l))
<1>1. row[b] \in Spellings /\ row[b] \in {"lower", "upper"}
      BY BundleAssumption DEF StateOK, Registered
<1>2. QED
      BY <1>1 DEF SessionFor, Request, Task, Steps, TaskOK

LEMMA ArriveTyped ==
    ASSUME TypeInv, NEW r \in Requests, Arrive(r)
    PROVE  TypeInv'
<1> USE DEF TypeInv
<1>1. ASSUME NEW b \in Builds, NEW s \in Spellings, NEW bytes \in BOOLEAN,
             BeginPublish(r, b, s, bytes)
      PROVE  TypeInv'
  <2>1. \E st \in {PutFirst, "row"} :
           task' = [task EXCEPT ![r] = Request("publish", st, b, NoLicence, s)]
        BY <1>1 DEF BeginPublish
  <2>2. TasksOK'
        BY <2>1, BeginOK, OneTaskChanged
  <2>3. QED
        BY <1>1, <2>2 DEF BeginPublish, StateOK, store
<1>2. ASSUME NEW b \in Builds, NEW l \in Licences, BeginMarking(r, b, l)
      PROVE  TypeInv'
  <2>1. TaskOK(SessionFor(b, l))
        BY <1>2, SessionOK DEF BeginMarking, Marking
  <2>2. TasksOK'
        BY <1>2, <2>1, OneTaskChanged DEF BeginMarking
  <2>3. QED
        BY <1>2, <2>2 DEF BeginMarking, RememberedAtStart, StateOK, store
<1>3. ASSUME NEW b \in Builds, BeginRestore(r, b)
      PROVE  TypeInv'
  <2>1. TasksOK'
        BY <1>3, BeginOK, OneTaskChanged DEF BeginRestore
  <2>2. QED
        BY <1>3, <2>1 DEF BeginRestore, StateOK, store
<1>4. QED
      BY <1>1, <1>2, <1>3 DEF Arrive

LEMMA OpenSessionTyped ==
    ASSUME TypeInv, NEW b \in Builds, NEW l \in Licences \cup {NoLicence}, OpenSession(b, l)
    PROVE  TypeInv'
<1>1. StateOK /\ TasksOK /\ Registered(b)
      BY DEF TypeInv, OpenSession
<1> DEFINE t == SessionFor(b, l)
<1>2. t.build \in Builds /\ t.lic \in Licences \cup {NoLicence}
      BY DEF SessionFor, Request
<1>3. row[b] \in {"lower", "upper"}
      BY <1>1, BundleAssumption DEF StateOK, Registered
<1> HIDE DEF t
<1>4. ASSUME HandOut(t, Plain(b), row[b], FALSE)
      PROVE  link' \subseteq LinkRow
  <2>1. Plain(b) \in Contents
        BY ContentsOf
  <2>2. QED
        BY <1>1, <1>2, <1>3, <1>4, <2>1, HandOutTyped
<1>5. ASSUME Marking(b, l), memo[applyWatermark(b, l)] # NoDigest,
             HandOut(t, memo[applyWatermark(b, l)], "lower", FALSE)
      PROVE  link' \subseteq LinkRow
  <2>1. applyWatermark(b, l) \in Contents
    <3>1. l \in Licences
          BY <1>5 DEF Marking
    <3>2. QED
          BY <3>1, ContentsOf
  <2>2. memo[applyWatermark(b, l)] \in Contents
        BY <1>1, <1>5, <2>1 DEF StateOK
  <2>3. QED
        BY <1>1, <1>2, <1>5, <2>2, HandOutTyped
<1>6. \/ HandOut(t, Plain(b), row[b], FALSE)
      \/ /\ Marking(b, l) /\ memo[applyWatermark(b, l)] # NoDigest
         /\ HandOut(t, memo[applyWatermark(b, l)], "lower", FALSE)
      BY Zenon DEF OpenSession, t
<1>7. link' \subseteq LinkRow
      BY <1>4, <1>5, <1>6
<1>8. QED
      BY <1>1, <1>7 DEF OpenSession, TypeInv, StateOK, TasksOK, store

LEMMA RedeployTyped ==
    ASSUME TypeInv, NEW wipe \in BOOLEAN, Redeploy(wipe)
    PROVE  TypeInv'
<1>1. TasksOK'
      BY IdleOK DEF Redeploy, TasksOK, TaskOK
<1>2. NothingMarked \in [Contents -> Contents \cup {NoDigest}]
      BY DEF NothingMarked
<1>3. [c \in Contents |-> "none"] \in [Contents -> {"none", "torn", "whole"}]
      OBVIOUS
<1>4. \A u \in LinkRow : [u EXCEPT !.backed = FALSE] \in LinkRow
      BY DEF LinkRow
<1>5. link' \subseteq LinkRow
      BY <1>4 DEF Redeploy, TypeInv, StateOK
<1>6. QED
      BY <1>1, <1>2, <1>3, <1>5 DEF Redeploy, TypeInv, StateOK

LEMMA NextTyped == TypeInv /\ [Next]_vars => TypeInv'
<1>1. ASSUME TypeInv, NEW r \in Requests, Arrive(r) \/ Handle(r)
      PROVE  TypeInv'
      BY <1>1, ArriveTyped, HandleTyped
<1>2. ASSUME TypeInv, NEW b \in Builds, NEW l \in Licences \cup {NoLicence}, OpenSession(b, l)
      PROVE  TypeInv'
      BY <1>2, OpenSessionTyped
<1>3. ASSUME TypeInv, NEW u \in link, Lapse(u)
      PROVE  TypeInv'
      BY <1>3 DEF TypeInv, Lapse, StateOK, TasksOK, store
<1>4. ASSUME TypeInv, NEW wipe \in BOOLEAN, Redeploy(wipe)
      PROVE  TypeInv'
      BY <1>4, RedeployTyped
<1>5. ASSUME TypeInv, UNCHANGED vars
      PROVE  TypeInv'
      BY <1>5 DEF TypeInv, vars, StateOK, TasksOK, store
<1>6. QED
      BY <1>1, <1>2, <1>3, <1>4, <1>5 DEF Next

LEMMA InitTyped == Init => TypeInv
BY IdleOK DEF Init, TypeInv, StateOK, TasksOK, TaskOK, NothingMarked

\* Rows, files, links and requests keep their types whatever fails, and however
\* requests interleave.
THEOREM TypeCorrect == Spec => []TypeOK
<1>1. Spec => []TypeInv
      BY InitTyped, NextTyped, PTL DEF Spec
<1>2. QED
      BY <1>1, TypeInvIsTyped, PTL

-----------------------------------------------------------------------------
(* What is promised is served *)

\* No file is half written; the memo names what is stored; a URL names the bundle
\* of its build or the mark of its licence, stored if the base was there; and a
\* session in flight is of a build whose row spells its digest in lower case.
FilesWhole == \A c \in Contents : file[c] \in {"none", "whole"}

MemoStored ==
    \A c \in Contents : memo[c] # NoDigest => memo[c] = c /\ file[c] = "whole"

GoodLink(u) ==
    /\ Registered(u.build) /\ u.spelling = "lower"
    /\ \/ u.content = Plain(u.build)
       \/ /\ PlanOf[u.build] = "premium" /\ u.lic \in Licences
          /\ u.content = applyWatermark(u.build, u.lic)
    /\ u.backed => file[u.content] = "whole"
    /\ (u.backed /\ ~u.failed /\ Marking(u.build, u.lic)) => u.content.lic = u.lic

LinksGood == \A u \in link : GoodLink(u)

SessionsGood ==
    \A r \in Requests :
        task[r].kind = "session" => Registered(task[r].build) /\ task[r].spelling = "lower"

DeliveryInv == TypeInv /\ FilesWhole /\ MemoStored /\ LinksGood /\ SessionsGood

\* Only a wipe takes a file away, and nothing takes a row away.
Grown ==
    /\ \A c \in Contents : file[c] = "whole" => file'[c] = "whole"
    /\ \A b \in Builds : Registered(b) => Registered(b)'

LEMMA NothingLost == ASSUME row' = row, file' = file PROVE Grown
BY DEF Grown, Registered

LEMMA LinksKept ==
    ASSUME TypeInv, LinksGood, Grown, NEW u \in link
    PROVE  GoodLink(u)'
<1>1. u \in LinkRow /\ GoodLink(u)
      BY DEF TypeInv, StateOK, LinksGood
<1>2. u.build \in Builds /\ u.content \in Contents
      BY <1>1 DEF LinkRow
<1>3. QED
      BY <1>1, <1>2 DEF GoodLink, Grown

LEMMA MemoKept ==
    ASSUME MemoStored, Grown, memo' = memo
    PROVE  MemoStored'
BY DEF MemoStored, Grown

LEMMA SessionsKept ==
    ASSUME TasksOK, SessionsGood, Grown,
           \A s \in Requests : task'[s].kind = "session" =>
               /\ task[s].kind = "session" /\ task'[s].build = task[s].build
               /\ task'[s].spelling = task[s].spelling
    PROVE  SessionsGood'
BY DEF TasksOK, TaskOK, SessionsGood, Grown

LEMMA LeaveSessions ==
    ASSUME TasksOK, SessionsGood, Grown, NEW r \in Requests, Leave(r)
    PROVE  SessionsGood'
BY LeaveTyped, IdleOK, SessionsKept

LEMMA GotoSessions ==
    ASSUME TasksOK, SessionsGood, Grown, NEW r \in Requests, NEW step \in Steps,
           Goto(r, step), task[r].kind # "idle", step # "idle",
           step \in {"base", "marked"} => task[r].kind = "session",
           step = "row" => task[r].kind = "publish"
    PROVE  SessionsGood'
BY GotoTyped, SessionsKept

\* A URL for what is stored, or for the base bundle, is a good one.
LEMMA GoodHandOut ==
    ASSUME TypeInv, LinksGood, Grown, NEW t, NEW c \in Contents, NEW f \in BOOLEAN,
           t.build \in Builds, Registered(t.build), HandOut(t, c, "lower", f),
           \/ c = Plain(t.build)
           \/ /\ PlanOf[t.build] = "premium" /\ t.lic \in Licences
              /\ c = applyWatermark(t.build, t.lic) /\ file'[c] = "whole",
           \/ f = TRUE
           \/ file[Plain(t.build)] # "whole"
           \/ Marking(t.build, t.lic) => c.lic = t.lic
    PROVE  LinksGood'
<1>1. SUFFICES ASSUME NEW u \in link', u \notin link
               PROVE  GoodLink(u)'
      BY LinksKept DEF LinksGood
<1>2. u = Link(t, c, "lower", f)
      BY <1>1 DEF HandOut
<1>3. /\ u.build = t.build /\ u.content = c /\ u.spelling = "lower" /\ u.lic = t.lic
      BY <1>2 DEF Link
<1>4. u.failed = f /\ u.backed = (file[Plain(t.build)] = "whole")
      BY <1>2 DEF Link
<1>5. Registered(t.build)' /\ (file[Plain(t.build)] = "whole" => file'[Plain(t.build)] = "whole")
      BY ContentsOf DEF Grown
<1>6. u.backed => file'[u.content] = "whole"
      BY <1>3, <1>4, <1>5
<1>7. (u.backed /\ ~u.failed /\ Marking(u.build, u.lic)) => u.content.lic = u.lic
      BY <1>3, <1>4
<1>8. QED
      BY <1>3, <1>5, <1>6, <1>7 DEF GoodLink

\* What the three answers of a request leave behind.
AnswersGood == MemoStored' /\ LinksGood' /\ SessionsGood'

LEMMA FailOpenGood ==
    ASSUME DeliveryInv, Grown, NEW r \in Requests, task[r].kind = "session",
           \/ FailOpen(r, TRUE)
           \/ FailOpen(r, FALSE) /\ file[Plain(task[r].build)] # "whole"
    PROVE  AnswersGood
<1>1. TypeInv /\ TasksOK /\ LinksGood /\ SessionsGood /\ MemoStored
      BY DEF DeliveryInv, TypeInv
<1>2. task[r].build \in Builds /\ Registered(task[r].build) /\ task[r].spelling = "lower"
      BY <1>1 DEF SessionsGood, TasksOK, TaskOK
<1>3. Plain(task[r].build) \in Contents
      BY <1>2, ContentsOf
<1>4. Leave(r) /\ memo' = memo
      BY DEF FailOpen, AfterFailure
<1>5. ASSUME FailOpen(r, TRUE)
      PROVE  LinksGood'
      BY <1>1, <1>2, <1>3, <1>5, GoodHandOut DEF FailOpen
<1>6. ASSUME FailOpen(r, FALSE), file[Plain(task[r].build)] # "whole"
      PROVE  LinksGood'
      BY <1>1, <1>2, <1>3, <1>6, GoodHandOut DEF FailOpen
<1>7. LinksGood'
      BY <1>5, <1>6
<1>8. MemoStored' /\ SessionsGood'
      BY <1>1, <1>4, MemoKept, LeaveSessions
<1>9. QED
      BY <1>7, <1>8 DEF AnswersGood

LEMMA ThrewGood ==
    ASSUME DeliveryInv, Grown, NEW r \in Requests, task[r].kind # "idle", Threw(r)
    PROVE  AnswersGood
<1>1. TypeInv /\ TasksOK /\ LinksGood /\ SessionsGood /\ MemoStored
      BY DEF DeliveryInv, TypeInv
<1>2. CASE task[r].kind # "session" /\ Leave(r) /\ UNCHANGED <<memo, link>>
  <2>1. LinksGood'
        BY <1>1, <1>2, LinksKept DEF LinksGood
  <2>2. MemoStored' /\ SessionsGood'
        BY <1>1, <1>2, MemoKept, LeaveSessions
  <2>3. QED
        BY <2>1, <2>2 DEF AnswersGood
<1>3. CASE task[r].kind = "session" /\ FailOpen(r, TRUE)
      BY <1>3, FailOpenGood
<1>4. QED
      BY <1>2, <1>3 DEF Threw

LEMMA StoredGood ==
    ASSUME DeliveryInv, Grown, NEW r \in Requests, task[r].kind # "idle", Stored(r),
           file'[Bytes(task[r])] = "whole"
    PROVE  AnswersGood
<1>1. TypeInv /\ TasksOK /\ LinksGood /\ SessionsGood /\ MemoStored /\ TaskOK(task[r])
      BY DEF DeliveryInv, TypeInv, TasksOK
<1>2. CASE task[r].kind = "publish" /\ Goto(r, "row") /\ UNCHANGED <<memo, link>>
  <2>1. LinksGood'
        BY <1>1, <1>2, LinksKept DEF LinksGood
  <2>2. MemoStored' /\ SessionsGood'
        BY <1>1, <1>2, MemoKept, GotoSessions DEF Steps
  <2>3. QED
        BY <2>1, <2>2 DEF AnswersGood
<1>3. CASE task[r].kind = "restore" /\ Leave(r) /\ UNCHANGED <<memo, link>>
  <2>1. LinksGood'
        BY <1>1, <1>3, LinksKept DEF LinksGood
  <2>2. MemoStored' /\ SessionsGood'
        BY <1>1, <1>3, MemoKept, LeaveSessions
  <2>3. QED
        BY <2>1, <2>2 DEF AnswersGood
<1>4. CASE /\ task[r].kind = "session"
           /\ memo' = [memo EXCEPT ![Marked(task[r])] = Marked(task[r])]
           /\ HandOut(task[r], Marked(task[r]), "lower", FALSE)
           /\ Leave(r)
  <2>1. /\ task[r].build \in Builds /\ PlanOf[task[r].build] = "premium"
        /\ task[r].lic \in Licences /\ Registered(task[r].build)
        BY <1>1, <1>4 DEF TaskOK, SessionsGood
  <2>2. /\ Bytes(task[r]) = Marked(task[r]) /\ Marked(task[r]) \in Contents
        /\ Marked(task[r]) = applyWatermark(task[r].build, task[r].lic)
        /\ Marked(task[r]).lic = task[r].lic
        BY <1>4, <2>1, ContentsOf DEF Bytes, Marked
  <2>3. file'[Marked(task[r])] = "whole"
        BY <2>2
  <2>4. LinksGood'
        BY <1>1, <1>4, <2>1, <2>2, <2>3, GoodHandOut
  <2>5. MemoStored'
        BY <1>1, <1>4, <2>2, <2>3 DEF MemoStored, Grown, TypeInv, StateOK
  <2>6. SessionsGood'
        BY <1>1, <1>4, LeaveSessions
  <2>7. QED
        BY <2>4, <2>5, <2>6 DEF AnswersGood
<1>5. QED
      BY <1>2, <1>3, <1>4 DEF Stored

\* A request that only goes on leaves memo, links and sessions good.
LEMMA GotoGood ==
    ASSUME DeliveryInv, Grown, NEW r \in Requests, NEW step \in Steps,
           Goto(r, step), task[r].kind # "idle", step \notin {"idle", "row", "base"},
           step = "marked" => task[r].kind = "session", UNCHANGED <<memo, link>>
    PROVE  AnswersGood
<1>1. TypeInv /\ TasksOK /\ LinksGood /\ SessionsGood /\ MemoStored
      BY DEF DeliveryInv, TypeInv
<1>2. SessionsGood'
      BY <1>1, GotoSessions
<1>3. LinksGood'
      BY <1>1, LinksKept DEF LinksGood
<1>4. QED
      BY <1>1, <1>2, <1>3, MemoKept DEF AnswersGood

\* What is found is whole.
LEMMA FoundIsWhole ==
    ASSUME FilesWhole, NEW c \in Contents, Found(c)
    PROVE  file[c] = "whole"
BY DEF FilesWhole, Found

LEMMA HandleGood ==
    ASSUME DeliveryInv, NEW r \in Requests, Handle(r)
    PROVE  DeliveryInv'
<1> SUFFICES FilesWhole' /\ AnswersGood
    BY HandleTyped DEF DeliveryInv, AnswersGood
<1> TypeInv /\ TasksOK /\ FilesWhole
    BY DEF DeliveryInv, TypeInv
<1>1. CASE EnsureRoot(r)
  <2>1. task[r].kind # "idle" /\ "look" \in Steps
        BY <1>1, StepTypes DEF EnsureRoot, At, Steps
  <2>2. Grown /\ FilesWhole'
        BY <1>1, NothingLost DEF EnsureRoot, FilesWhole
  <2>3. CASE Goto(r, "look") /\ UNCHANGED <<memo, link, faults>>
        BY <2>1, <2>2, <2>3, GotoGood
  <2>4. CASE Threw(r)
        BY <2>1, <2>2, <2>4, ThrewGood
  <2>5. QED
        BY <1>1, <2>3, <2>4 DEF EnsureRoot
<1>2. CASE Look(r)
  <2>1. task[r].kind # "idle" /\ "write" \in Steps /\ Bytes(task[r]) \in Contents
        BY <1>2, StepTypes, BytesOf DEF Look, At, Steps
  <2>2. Grown /\ FilesWhole' /\ file' = file
        BY <1>2, NothingLost DEF Look, FilesWhole, store
  <2>3. CASE Found(Bytes(task[r])) /\ Stored(r)
        BY <2>1, <2>2, <2>3, StoredGood, FoundIsWhole
  <2>4. CASE Goto(r, "write") /\ UNCHANGED <<memo, link>>
        BY <2>1, <2>2, <2>4, GotoGood
  <2>5. QED
        BY <1>2, <2>3, <2>4 DEF Look
<1>3. CASE Write(r)
  <2>1. task[r].kind # "idle" /\ "rename" \in Steps
        BY <1>3, StepTypes DEF Write, At, Steps
  <2>2. Grown /\ FilesWhole'
        BY <1>3, NothingLost DEF Write, FilesWhole, Written
  <2>3. CASE Goto(r, "rename") /\ UNCHANGED <<memo, link, faults>>
        BY <2>1, <2>2, <2>3, GotoGood
  <2>4. CASE Threw(r)
        BY <2>1, <2>2, <2>4, ThrewGood
  <2>5. QED
        BY <1>3, <2>3, <2>4 DEF Write
<1>4. CASE Place(r)
  <2>1. task[r].kind # "idle" /\ Bytes(task[r]) \in Contents
        BY <1>4, StepTypes, BytesOf DEF Place, At
  <2>2. file' = file \/ file' = [file EXCEPT ![Bytes(task[r])] = "whole"]
        BY <1>4 DEF Place
  <2>3. Grown
        BY <1>4, <2>1, <2>2 DEF Grown, Registered, Place, TypeInv, StateOK
  <2>4. FilesWhole'
        BY <2>1, <2>2 DEF FilesWhole, TypeInv, StateOK
  <2>5. CASE file' = [file EXCEPT ![Bytes(task[r])] = "whole"] /\ Stored(r)
    <3>1. file'[Bytes(task[r])] = "whole"
          BY <2>1, <2>5 DEF TypeInv, StateOK
    <3>2. QED
          BY <2>1, <2>3, <2>4, <2>5, <3>1, StoredGood
  <2>6. CASE Threw(r)
        BY <2>1, <2>3, <2>4, <2>6, ThrewGood
  <2>7. QED
        BY <1>4, <2>5, <2>6 DEF Place
<1>5. CASE SaveRow(r)
  <2>1. task[r].kind = "publish" /\ TaskOK(task[r])
        BY <1>5, StepTypes DEF SaveRow, At
  <2>2. task[r].spelling \in Spellings /\ "none" \notin Spellings
        BY <2>1, BundleAssumption DEF TaskOK
  <2>3. Grown /\ FilesWhole'
        BY <1>5, <2>2 DEF SaveRow, Grown, Registered, FilesWhole, store, TypeInv, StateOK
  <2>4. LinksGood' /\ MemoStored'
        BY <1>5, <2>3, LinksKept, MemoKept DEF SaveRow, LinksGood, DeliveryInv
  <2>5. SessionsGood'
        BY <1>5, <2>3, LeaveSessions DEF SaveRow, DeliveryInv
  <2>6. QED
        BY <2>3, <2>4, <2>5 DEF AnswersGood
<1>6. CASE ReadBase(r)
  <2>1. task[r].kind = "session" /\ "marked" \in Steps /\ TaskOK(task[r])
        BY <1>6, StepTypes DEF ReadBase, At, Steps, TaskOK
  <2>2. Grown /\ FilesWhole'
        BY <1>6, NothingLost DEF ReadBase, FilesWhole, store
  <2>3. task[r].spelling = "lower"
        BY <2>1 DEF DeliveryInv, SessionsGood
  <2>4. \/ Goto(r, "marked") /\ UNCHANGED <<memo, link, faults>>
        \/ ~Found(Plain(task[r].build)) /\ FailOpen(r, FALSE)
        \/ FailOpen(r, TRUE)
        BY <1>6, <2>3, Zenon DEF ReadBase
  <2>5. ~Found(Plain(task[r].build)) => file[Plain(task[r].build)] # "whole"
        BY DEF Found
  <2>6. CASE Goto(r, "marked") /\ UNCHANGED <<memo, link, faults>>
        BY <2>1, <2>2, <2>6, GotoGood
  <2>7. CASE FailOpen(r, TRUE)
        BY <2>1, <2>2, <2>7, FailOpenGood
  <2>8. CASE ~Found(Plain(task[r].build)) /\ FailOpen(r, FALSE)
        BY <2>1, <2>2, <2>5, <2>8, FailOpenGood
  <2>9. QED
        BY <2>4, <2>6, <2>7, <2>8
<1>7. CASE FindMark(r)
  <2>1. task[r].kind # "idle" /\ Bytes(task[r]) \in Contents
        BY <1>7, StepTypes, BytesOf DEF FindMark, At
  <2>2. Grown /\ FilesWhole' /\ file' = file
        BY <1>7, NothingLost DEF FindMark, FilesWhole, store
  <2>3. CASE Found(Bytes(task[r])) /\ Stored(r)
        BY <2>1, <2>2, <2>3, StoredGood, FoundIsWhole
  <2>4. CASE Goto(r, PutFirst) /\ UNCHANGED <<memo, link>>
        BY <2>1, <2>2, <2>4, GotoGood, PutFirstIsStep
  <2>5. QED
        BY <1>7, <2>3, <2>4 DEF FindMark
<1>8. QED
      BY <1>1, <1>2, <1>3, <1>4, <1>5, <1>6, <1>7 DEF Handle

\* A publish or a restore that begins is no session.
LEMMA ArriveGood ==
    ASSUME DeliveryInv, Spellings \subseteq {"lower"}, NEW r \in Requests, Arrive(r)
    PROVE  DeliveryInv'
<1>1. TypeInv /\ TasksOK /\ StateOK /\ LinksGood /\ SessionsGood /\ MemoStored /\ FilesWhole
      BY DEF DeliveryInv, TypeInv
<1>2. ASSUME NEW t, TaskOK(t), task' = [task EXCEPT ![r] = t],
             t.kind = "session" => Registered(t.build) /\ t.spelling = "lower",
             UNCHANGED <<driver, row, store, memo, link, faults>>
      PROVE  DeliveryInv'
  <2>1. row' = row /\ file' = file /\ memo' = memo /\ link' = link
        BY <1>2 DEF store
  <2>2. Grown
        BY <2>1, NothingLost
  <2>3. \A s \in Requests : task'[s] = IF s = r THEN t ELSE task[s]
        BY <1>1, <1>2, OneTaskChanged
  <2>4. SessionsGood'
        BY <1>1, <1>2, <2>1, <2>3 DEF SessionsGood, Registered
  <2>5. LinksGood' /\ MemoStored' /\ FilesWhole'
        BY <1>1, <2>1, <2>2, LinksKept, MemoKept DEF LinksGood, FilesWhole
  <2>6. TypeInv'
        BY <1>1, ArriveTyped
  <2>7. QED
        BY <2>4, <2>5, <2>6 DEF DeliveryInv
<1>3. ASSUME NEW b \in Builds, NEW s \in Spellings, NEW bytes \in BOOLEAN,
             BeginPublish(r, b, s, bytes)
      PROVE  DeliveryInv'
  <2>1. PICK st \in {PutFirst, "row"} :
           task' = [task EXCEPT ![r] = Request("publish", st, b, NoLicence, s)]
        BY <1>3 DEF BeginPublish
  <2>2. Request("publish", st, b, NoLicence, s).kind = "publish"
        BY DEF Request
  <2>3. QED
        BY <1>2, <1>3, <2>1, <2>2, BeginOK DEF BeginPublish
<1>4. ASSUME NEW b \in Builds, NEW l \in Licences, BeginMarking(r, b, l)
      PROVE  DeliveryInv'
  <2>1. TaskOK(SessionFor(b, l)) /\ row[b] \in Spellings
        BY <1>1, <1>4, SessionOK DEF BeginMarking, Marking
  <2>2. SessionFor(b, l).build = b /\ SessionFor(b, l).spelling = "lower"
        BY <2>1 DEF SessionFor, Request
  <2>3. QED
        BY <1>2, <1>4, <2>1, <2>2 DEF BeginMarking, RememberedAtStart
<1>5. ASSUME NEW b \in Builds, BeginRestore(r, b)
      PROVE  DeliveryInv'
  <2>1. Request("restore", PutFirst, b, NoLicence, "lower").kind = "restore"
        BY DEF Request
  <2>2. QED
        BY <1>2, <1>5, <2>1, BeginOK DEF BeginRestore
<1>6. QED
      BY <1>3, <1>4, <1>5 DEF Arrive

LEMMA OpenSessionGood ==
    ASSUME DeliveryInv, Spellings \subseteq {"lower"},
           NEW b \in Builds, NEW l \in Licences \cup {NoLicence}, OpenSession(b, l)
    PROVE  DeliveryInv'
<1>1. TypeInv /\ StateOK /\ LinksGood /\ SessionsGood /\ MemoStored /\ FilesWhole /\ Registered(b)
      BY DEF DeliveryInv, TypeInv, OpenSession
<1>2. row' = row /\ file' = file /\ memo' = memo /\ task' = task
      BY DEF OpenSession, store
<1>3. Grown /\ row[b] = "lower"
      BY <1>1, <1>2, NothingLost DEF StateOK, Registered
<1> DEFINE t == SessionFor(b, l)
<1>4. t.build = b /\ t.lic = l
      BY DEF SessionFor, Request
<1>5. \/ ~Marking(b, l) /\ HandOut(t, Plain(b), row[b], FALSE)
      \/ /\ Marking(b, l) /\ memo[applyWatermark(b, l)] # NoDigest
         /\ HandOut(t, memo[applyWatermark(b, l)], "lower", FALSE)
      BY Zenon DEF OpenSession
<1> HIDE DEF t
<1>6. ASSUME ~Marking(b, l), HandOut(t, Plain(b), row[b], FALSE)
      PROVE  LinksGood'
  <2>1. Plain(b) \in Contents /\ HandOut(t, Plain(b), "lower", FALSE)
        BY <1>3, <1>6, ContentsOf
  <2>2. QED
        BY <1>1, <1>3, <1>4, <1>6, <2>1, GoodHandOut
<1>7. ASSUME Marking(b, l), memo[applyWatermark(b, l)] # NoDigest,
             HandOut(t, memo[applyWatermark(b, l)], "lower", FALSE)
      PROVE  LinksGood'
  <2>1. PlanOf[b] = "premium" /\ l \in Licences
        BY <1>7 DEF Marking
  <2>2. applyWatermark(b, l) \in Contents /\ applyWatermark(b, l).lic = l
        BY <2>1, ContentsOf
  <2>3. /\ memo[applyWatermark(b, l)] = applyWatermark(b, l)
        /\ file'[applyWatermark(b, l)] = "whole"
        BY <1>1, <1>2, <1>7, <2>2 DEF MemoStored
  <2>4. HandOut(t, applyWatermark(b, l), "lower", FALSE)
        BY <1>7, <2>3
  <2>5. QED
        BY <1>1, <1>3, <1>4, <2>1, <2>2, <2>3, <2>4, GoodHandOut
<1>8. LinksGood'
      BY <1>5, <1>6, <1>7
<1>9. MemoStored' /\ FilesWhole' /\ SessionsGood'
      BY <1>1, <1>2, <1>3, MemoKept DEF FilesWhole, SessionsGood, Registered
<1>10. TypeInv'
      BY <1>1, OpenSessionTyped
<1>11. QED
      BY <1>8, <1>9, <1>10 DEF DeliveryInv

LEMMA LapseGood ==
    ASSUME DeliveryInv, NEW u \in link, Lapse(u)
    PROVE  DeliveryInv'
<1>1. TypeInv'
      BY NextTyped DEF DeliveryInv, Next
<1>2. /\ row' = row /\ file' = file /\ memo' = memo /\ task' = task /\ link' \subseteq link
      BY DEF Lapse, store
<1>3. LinksGood'
      BY <1>2, LinksKept, NothingLost DEF LinksGood, DeliveryInv
<1>4. MemoStored' /\ FilesWhole' /\ SessionsGood'
      BY <1>2 DEF MemoStored, FilesWhole, SessionsGood, Registered, DeliveryInv
<1>5. QED
      BY <1>1, <1>3, <1>4 DEF DeliveryInv

\* A redeploy forgets the memo with the process; a wipe ends what was promised.
LEMMA RedeployGood ==
    ASSUME DeliveryInv, NEW wipe \in BOOLEAN, Redeploy(wipe)
    PROVE  DeliveryInv'
<1>1. TypeInv'
      BY RedeployTyped DEF DeliveryInv
<1>2. row' = row /\ memo' = NothingMarked /\ \A r \in Requests : task'[r] = Idle
      BY DEF Redeploy
<1>3. MemoStored' /\ SessionsGood' /\ FilesWhole'
      BY <1>2, IdleOK DEF MemoStored, NothingMarked, SessionsGood, FilesWhole, Redeploy, DeliveryInv
<1>4. CASE ~wipe
  <2>1. file' = file /\ link' = link
        BY <1>4 DEF Redeploy
  <2>2. LinksGood'
        BY <1>2, <2>1, LinksKept, NothingLost DEF LinksGood, DeliveryInv
  <2>3. QED
        BY <1>1, <1>3, <2>2 DEF DeliveryInv
<1>5. CASE wipe
  <2>1. link' = {[u EXCEPT !.backed = FALSE] : u \in link}
        BY <1>5 DEF Redeploy
  <2>2. ASSUME NEW u \in link
        PROVE  GoodLink([u EXCEPT !.backed = FALSE])'
    <3>1. u \in LinkRow /\ GoodLink(u)
          BY DEF DeliveryInv, TypeInv, StateOK, LinksGood
    <3> DEFINE v == [u EXCEPT !.backed = FALSE]
    <3>2. /\ v.build = u.build /\ v.content = u.content /\ v.spelling = u.spelling
          /\ v.lic = u.lic /\ v.backed = FALSE
          BY <3>1 DEF LinkRow
    <3> HIDE DEF v
    <3>3. GoodLink(v)'
          BY <1>2, <3>1, <3>2 DEF GoodLink, Registered
    <3>4. QED
          BY <3>3 DEF v
  <2>3. LinksGood'
        BY <2>1, <2>2 DEF LinksGood
  <2>4. QED
        BY <1>1, <1>3, <2>3 DEF DeliveryInv
<1>6. QED
      BY <1>4, <1>5

LEMMA NextGood ==
    ASSUME Spellings \subseteq {"lower"}, DeliveryInv, [Next]_vars
    PROVE  DeliveryInv'
<1>1. ASSUME NEW r \in Requests, Arrive(r) \/ Handle(r)
      PROVE  DeliveryInv'
      BY <1>1, ArriveGood, HandleGood
<1>2. ASSUME NEW b \in Builds, NEW l \in Licences \cup {NoLicence}, OpenSession(b, l)
      PROVE  DeliveryInv'
      BY <1>2, OpenSessionGood
<1>3. ASSUME NEW u \in link, Lapse(u)
      PROVE  DeliveryInv'
      BY <1>3, LapseGood
<1>4. ASSUME NEW wipe \in BOOLEAN, Redeploy(wipe)
      PROVE  DeliveryInv'
      BY <1>4, RedeployGood
<1>5. ASSUME UNCHANGED vars
      PROVE  DeliveryInv'
      BY <1>5 DEF vars, store, DeliveryInv, TypeInv, StateOK, TasksOK, FilesWhole, MemoStored,
                  LinksGood, GoodLink, SessionsGood, Registered
<1>6. QED
      BY <1>1, <1>2, <1>3, <1>4, <1>5 DEF Next

LEMMA InitGood == Init => DeliveryInv
BY InitTyped, IdleOK DEF Init, DeliveryInv, FilesWhole, MemoStored, NothingMarked, LinksGood,
                         SessionsGood

LEMMA AlwaysGood ==
    ASSUME Spellings \subseteq {"lower"}
    PROVE  Spec => []DeliveryInv
<1>1. DeliveryInv /\ [Next]_vars => DeliveryInv'
      BY NextGood
<1>2. QED
      BY <1>1, InitGood, PTL DEF Spec

\* If manifests spell digests in lower case, what a session tells a browser to
\* fetch is served whole until its URL expires or the disk is wiped.
THEOREM PromisesAreServed ==
    ASSUME Spellings \subseteq {"lower"}
    PROVE  Spec => []PromisedIsServed
<1>1. ASSUME DeliveryInv, NEW u \in link, u.backed
      PROVE  Serve(u.build, u.content, u.spelling) = "whole"
  <2>1. GoodLink(u) /\ u \in LinkRow
        BY <1>1 DEF DeliveryInv, LinksGood, TypeInv, StateOK
  <2>2. u.build \in Builds /\ file[u.content] = "whole" /\ u.spelling = "lower"
        BY <1>1, <2>1 DEF GoodLink, LinkRow
  <2>3. Signed(u.content)
        BY <1>1 DEF Signed
  <2>4. CASE u.content = Plain(u.build)
        BY <2>1, <2>2, <2>3, <2>4 DEF Serve, readBundle, GoodLink
  <2>5. CASE PlanOf[u.build] = "premium" /\ u.content # Plain(u.build)
        BY <2>2, <2>3, <2>5 DEF Serve, readBundle
  <2>6. QED
        BY <2>1, <2>2, <2>4, <2>5, ContentsOf DEF GoodLink
<1>2. DeliveryInv => PromisedIsServed
      BY <1>1 DEF PromisedIsServed
<1>3. QED
      BY <1>2, AlwaysGood, PTL

\* If manifests spell digests in lower case, a licence whose session met no failed
\* storage operation gets the premium bundle with its own mark.
THEOREM MarksFailOnlyWithStorage ==
    ASSUME Spellings \subseteq {"lower"}
    PROVE  Spec => []UnmarkedOnlyOnFailure
<1>1. DeliveryInv => UnmarkedOnlyOnFailure
      BY DEF DeliveryInv, LinksGood, GoodLink, UnmarkedOnlyOnFailure
<1>2. QED
      BY <1>1, AlwaysGood, PTL

=============================================================================
