------------------------ MODULE DefaultPackageProofs ------------------------
(***************************************************************************)
(* Theorems about DefaultPackage, for any number of processes, requests,   *)
(* deploys and failed queries.                                             *)
(***************************************************************************)
EXTENDS DefaultPackage, TLAPS

-----------------------------------------------------------------------------
(* Types *)

\* A refresh starts a load or changes nothing; a load it starts has read nothing.
LEMMA RefreshTyped ==
    ASSUME NEW s \in Servers, NEW k \in Loads, TypeOK, Refresh(s, k)
    PROVE  /\ load' \in [Servers -> [Loads -> Load]]
           /\ inflight' \in [Servers -> Loads \cup {NoLoad}]
           /\ \A t \in Servers, j \in Loads :
                 load'[t][j].step = "package" => load'[t][j] = load[t][j]
           /\ \A t \in Servers, j \in Loads :
                 load'[t][j].step = "package" => load'[t][j].row \in Packages
<1>1. CASE Joins(s)
      BY <1>1 DEF Refresh, TypeOK
<1>2. CASE ~Joins(s)
  <2>1. load[s][k] \in Load
        BY DEF TypeOK
  <2>2. load[s][k] = NotLoading
        BY <1>2 DEF Refresh
  <2>3. load' = [load EXCEPT ![s][k].step = "row"] /\ inflight' = [inflight EXCEPT ![s] = k]
        BY <1>2 DEF Refresh
  <2>4. load' = [load EXCEPT ![s] = [load[s] EXCEPT ![k] = [load[s][k] EXCEPT !.step = "row"]]]
        BY <2>3 DEF TypeOK
  <2>5. [load[s][k] EXCEPT !.step = "row"] \in Load
        BY <2>1 DEF Load
  <2>6. [load[s][k] EXCEPT !.step = "row"].step = "row"
        BY <2>1 DEF Load
  <2>7. load' \in [Servers -> [Loads -> Load]] /\ inflight' \in [Servers -> Loads \cup {NoLoad}]
        BY <2>3, <2>4, <2>5 DEF TypeOK
  <2>8. ASSUME NEW t \in Servers, NEW j \in Loads, load'[t][j].step = "package"
        PROVE  load'[t][j] = load[t][j]
    <3>1. load \in [Servers -> [Loads -> Load]]
          BY DEF TypeOK
    <3>2. CASE t = s /\ j = k
          BY <2>4, <2>6, <2>8, <3>1, <3>2
    <3>3. CASE ~(t = s /\ j = k)
          BY <2>4, <3>1, <3>3
    <3>4. QED
          BY <3>2, <3>3
  <2>9. QED
        BY <2>7, <2>8 DEF TypeOK
<1>3. QED
      BY <1>1, <1>2

\* The four tables and their history are well typed.
TablesTyped ==
    /\ content \in [Packages -> Lists \cup {Gone}]
    /\ designated \in Packages \cup {NoPackage}
    /\ changes \in Nat /\ chosen \subseteq Packages
    /\ granted \in [Packages -> SUBSET Lists]

LEMMA WriteTyped ==
    ASSUME NEW p \in Packages, NEW list \in Lists \cup {Gone}, TypeOK, Write(p, list)
    PROVE  TablesTyped'
BY DEF TypeOK, Write, TablesTyped

LEMMA DesignateTyped ==
    ASSUME NEW p \in Packages, TypeOK, Designate(p)
    PROVE  TablesTyped'
BY DEF TypeOK, Designate, TablesTyped

\* The requests of administrators are well typed.
TaskTyped(t) ==
    /\ t \in Task
    /\ t.step # "idle" => t.server \in Servers /\ t.pkg \in Packages
    /\ t.step = "edit" => t.list \in Lists

LEMMA NoTaskTyped == TaskTyped(NoTask)
BY DEF TaskTyped, NoTask, Task

\* The end of a load keeps all types if what it caches is typed.
LEMMA EndTyped ==
    ASSUME NEW s \in Servers, NEW k \in Loads, NEW r \in BOOLEAN, TypeOK, EndLoad(s, k, r),
           cache' \in [Servers -> Cached \cup {NoCache}], newest' \in [Servers -> Nat]
    PROVE  TypeOK'
<1>1. NotLoading \in Load /\ NotLoading.step = "idle"
      BY DEF NotLoading, Load
<1>3. load' = [load EXCEPT ![s] = [load[s] EXCEPT ![k] = NotLoading]]
      BY DEF EndLoad, TypeOK
<1>4. load \in [Servers -> [Loads -> Load]] /\ task \in [Admins -> Task]
      BY DEF TypeOK
<1>5. load' \in [Servers -> [Loads -> Load]]
      BY <1>1, <1>3, <1>4
<1>6. \A t \in Servers, j \in Loads :
         load'[t][j].step = "package" => load'[t][j].row \in Packages
  <2>1. SUFFICES ASSUME NEW t \in Servers, NEW j \in Loads
                 PROVE  load'[t][j].step = "package" => load'[t][j].row \in Packages
        OBVIOUS
  <2>2. CASE t = s /\ j = k
        BY <1>1, <1>3, <1>4, <2>2
  <2>3. CASE ~(t = s /\ j = k)
        BY <1>3, <1>4, <2>3 DEF TypeOK
  <2>4. QED
        BY <2>2, <2>3
<1>7. task' \in [Admins -> Task] /\ \A a \in Admins : TaskTyped(task'[a])
  <2>1. \A a \in Admins : TaskTyped(task[a])
        BY DEF TypeOK, TaskTyped
  <2>2. \A a \in Admins : task'[a] = task[a] \/ task'[a] = NoTask
        BY DEF EndLoad
  <2>3. \A a \in Admins : TaskTyped(task'[a])
        BY <2>1, <2>2, NoTaskTyped
  <2>4. task' \in [Admins -> Task]
        BY <1>4, NoTaskTyped DEF EndLoad, TaskTyped
  <2>5. QED
        BY <2>3, <2>4
<1>8. QED
      BY <1>5, <1>6, <1>7 DEF EndLoad, TypeOK, TaskTyped, InflightAfter, tables

LEMMA AskTyped ==
    ASSUME NEW a \in Admins, NEW s \in Servers, NEW q, TypeOK, Ask(a, s, q),
           q \in Task, q.pkg \in Packages, q.step = "edit" => q.list \in Lists
    PROVE  TypeOK'
<1>1. [q EXCEPT !.server = s] \in Task
      BY DEF Task
<1>2. /\ [q EXCEPT !.server = s].server = s
      /\ [q EXCEPT !.server = s].pkg = q.pkg
      /\ [q EXCEPT !.server = s].list = q.list
      /\ [q EXCEPT !.server = s].step = q.step
      BY DEF Task
<1>3. task' = [task EXCEPT ![a] = [q EXCEPT !.server = s]] /\ asked' = asked + 1
      /\ UNCHANGED <<tables, memory, restarts>>
      BY DEF Ask
<1>4. \A b \in Admins : task'[b] = IF b = a THEN [q EXCEPT !.server = s] ELSE task[b]
      BY <1>3 DEF TypeOK
<1>5. task' \in [Admins -> Task]
      BY <1>1, <1>3 DEF TypeOK
<1>6. \A b \in Admins :
         /\ task'[b].step # "idle" => task'[b].server \in Servers /\ task'[b].pkg \in Packages
         /\ task'[b].step = "edit" => task'[b].list \in Lists
      BY <1>2, <1>4 DEF TypeOK
<1>7. QED
      BY <1>3, <1>5, <1>6 DEF TypeOK, tables, memory

\* Rows, caches, loads and requests keep their types: a load past its first
\* query names the package it read, a request in flight its package and process.
THEOREM TypeCorrect == Spec => []TypeOK
<1>1. Init => TypeOK
      BY DefaultAssumption DEF Init, TypeOK, NoCache, NotLoading, NoTask, Load, Task
<1>2. TypeOK /\ [Next]_vars => TypeOK'
  <2> SUFFICES ASSUME TypeOK, [Next]_vars
               PROVE  TypeOK'
      OBVIOUS
  <2>1. CASE UNCHANGED vars
        BY <2>1 DEF TypeOK, vars, tables, memory
  <2>2. ASSUME NEW s \in Servers, NEW k \in Loads, Visit(s, k)
        PROVE  TypeOK'
        BY <2>2, RefreshTyped DEF Visit, TypeOK, tables
  <2>3. ASSUME NEW s \in Servers, Age(s)
        PROVE  TypeOK'
    <3>1. cache[s] \in Cached
          BY <2>3 DEF Age, TypeOK, NoCache
    <3>2. [cache[s] EXCEPT !.fresh = FALSE] \in Cached
          BY <3>1 DEF Cached
    <3>3. QED
          BY <2>3, <3>2 DEF Age, TypeOK, tables
  <2>4. ASSUME NEW s \in Servers, NEW k \in Loads, ReadRow(s, k)
        PROVE  TypeOK'
    <3>1. CASE designated = NoPackage
          BY <2>4, <3>1, EndTyped DEF ReadRow, TypeOK, tables
    <3>2. CASE designated # NoPackage
      <4>1. [step |-> "package", row |-> designated, asOf |-> changes] \in Load
            BY <3>2 DEF TypeOK, Load
      <4>2. load' = [load EXCEPT ![s] = [load[s] EXCEPT ![k] =
                       [step |-> "package", row |-> designated, asOf |-> changes]]]
            BY <2>4, <3>2 DEF ReadRow, TypeOK
      <4>3. load' \in [Servers -> [Loads -> Load]]
            BY <4>1, <4>2 DEF TypeOK
      <4>4. \A t \in Servers, j \in Loads :
               load'[t][j].step = "package" => load'[t][j].row \in Packages
            BY <3>2, <4>2 DEF TypeOK
      <4>5. QED
            BY <2>4, <3>2, <4>3, <4>4 DEF ReadRow, TypeOK, tables
    <3>3. QED
          BY <3>1, <3>2
  <2>5. ASSUME NEW s \in Servers, NEW k \in Loads, ReadPackage(s, k)
        PROVE  TypeOK'
    <3> DEFINE got == load[s][k]
               list == content[got.row]
    <3>1. got \in Load /\ got.row \in Packages /\ got.asOf \in Nat
          BY <2>5 DEF ReadPackage, TypeOK, Load
    <3>2. list \in Lists \cup {Gone}
          BY <3>1 DEF TypeOK
    <3>3. Resolves(list) \in BOOLEAN /\ (Resolves(list) => list \in Lists)
          BY <3>2 DEF Resolves
    <3>4. EndLoad(s, k, Resolves(list))
          BY <2>5 DEF ReadPackage
    <3>5. CASE Resolves(list)
      <4>1. [pkg |-> got.row, list |-> list, fresh |-> TRUE, asOf |-> got.asOf] \in Cached
            BY <3>1, <3>3, <3>5 DEF Cached
      <4>2. cache' \in [Servers -> Cached \cup {NoCache}] /\ newest' \in [Servers -> Nat]
            BY <2>5, <3>1, <3>5, <4>1 DEF ReadPackage, TypeOK
      <4>3. QED
            BY <3>3, <3>4, <4>2, EndTyped
    <3>6. CASE ~Resolves(list)
          BY <2>5, <3>3, <3>4, <3>6, EndTyped DEF ReadPackage, TypeOK, tables
    <3>7. QED
          BY <3>5, <3>6
  <2>6. ASSUME NEW s \in Servers, NEW k \in Loads, FailLoad(s, k)
        PROVE  TypeOK'
        BY <2>6, EndTyped DEF FailLoad, TypeOK, tables
  <2>7. ASSUME NEW s \in Servers, SeedRead(s) \/ SeedSkip(s) \/ SeedFail(s)
        PROVE  TypeOK'
        BY <2>7 DEF SeedRead, SeedSkip, SeedFail, ToBoot, TypeOK, tables
  <2>8. ASSUME NEW s \in Servers, SeedCreate(s)
        PROVE  TypeOK'
    <3>1. TablesTyped'
          BY <2>8, WriteTyped, DefaultAssumption DEF SeedCreate, TypeOK, TablesTyped, tables
    <3>2. QED
          BY <2>8, <3>1 DEF SeedCreate, ToBoot, TypeOK, TablesTyped
  <2>9. ASSUME NEW s \in Servers, SeedSave(s)
        PROVE  TypeOK'
    <3>1. TablesTyped'
          BY <2>9, DesignateTyped, DefaultAssumption DEF SeedSave, TypeOK, TablesTyped, tables
    <3>2. QED
          BY <2>9, <3>1 DEF SeedSave, ToBoot, TypeOK, TablesTyped
  <2>10. ASSUME NEW s \in Servers, NEW k \in Loads, Warm(s, k)
         PROVE  TypeOK'
         BY <2>10, RefreshTyped DEF Warm, ToBoot, TypeOK, tables
  <2>11. ASSUME NEW s \in Servers, Restart(s)
         PROVE  TypeOK'
    <3>1. [k \in Loads |-> NotLoading] \in [Loads -> Load] /\ NotLoading.step = "idle"
          BY DEF NotLoading, Load
    <3>2. load' \in [Servers -> [Loads -> Load]]
          /\ \A t \in Servers, j \in Loads :
                load'[t][j].step = "package" => load'[t][j].row \in Packages
          BY <2>11, <3>1 DEF Restart, TypeOK
    <3>3. \A a \in Admins : TaskTyped(task'[a])
          BY <2>11, NoTaskTyped DEF Restart, TypeOK, TaskTyped
    <3>4. task' \in [Admins -> Task]
          BY <2>11, NoTaskTyped DEF Restart, TypeOK, TaskTyped
    <3>5. QED
          BY <2>11, <3>2, <3>3, <3>4 DEF Restart, ToBoot, TypeOK, TaskTyped, tables
  <2>12. ASSUME NEW a \in Admins, NEW s \in Servers, NEW p \in Packages,
                AskDesignate(a, s, p) \/ AskRemove(a, s, p)
         PROVE  TypeOK'
    <3>1. CASE AskDesignate(a, s, p)
      <4>1. LET q == [NoTask EXCEPT !.step = "designate", !.pkg = p]
            IN  q \in Task /\ q.pkg = p /\ q.step = "designate"
            BY DEF NoTask, Task
      <4>2. QED
            BY <3>1, <4>1, AskTyped DEF AskDesignate
    <3>2. CASE AskRemove(a, s, p)
      <4>1. LET q == [NoTask EXCEPT !.step = "remove", !.pkg = p]
            IN  q \in Task /\ q.pkg = p /\ q.step = "remove"
            BY DEF NoTask, Task
      <4>2. QED
            BY <3>2, <4>1, AskTyped DEF AskRemove
    <3>3. QED
          BY <2>12, <3>1, <3>2
  <2>13. ASSUME NEW a \in Admins, NEW s \in Servers, NEW p \in Packages, NEW list \in Lists,
                AskEdit(a, s, p, list)
         PROVE  TypeOK'
    <3>1. LET q == [NoTask EXCEPT !.step = "edit", !.pkg = p, !.list = list]
          IN  q \in Task /\ q.pkg = p /\ q.step = "edit" /\ q.list = list
          BY DEF NoTask, Task
    <3>2. QED
          BY <2>13, <3>1, AskTyped DEF AskEdit
  <2>14. ASSUME NEW a \in Admins, SaveDesignation(a)
         PROVE  TypeOK'
    <3>1. TaskTyped(task[a])
          BY DEF TypeOK, TaskTyped
    <3>2. task[a].pkg \in Packages
          BY <2>14, <3>1 DEF SaveDesignation, TaskTyped
    <3>3. TablesTyped'
          BY <2>14, <3>2, DesignateTyped DEF SaveDesignation, TypeOK, TablesTyped, tables
    <3>4. TaskTyped([task[a] EXCEPT !.step = "reload"])
          BY <2>14, <3>1 DEF SaveDesignation, TaskTyped, Task
    <3>5. \A b \in Admins : TaskTyped(task'[b])
          BY <2>14, <3>4, NoTaskTyped DEF SaveDesignation, Answer, TypeOK, TaskTyped
    <3>6. task' \in [Admins -> Task]
          BY <2>14, <3>4, NoTaskTyped DEF SaveDesignation, Answer, TypeOK, TaskTyped
    <3>7. QED
          BY <2>14, <3>3, <3>5, <3>6 DEF SaveDesignation, TypeOK, TablesTyped, TaskTyped, memory
  <2>15. ASSUME NEW a \in Admins, Reload(a)
         PROVE  TypeOK'
    <3>1. TaskTyped(task[a])
          BY DEF TypeOK, TaskTyped
    <3>2. PICK k \in Loads :
             /\ Refresh(task[a].server, k)
             /\ task' = [task EXCEPT ![a].step = "wait", ![a].joined = k]
          BY <2>15 DEF Reload
    <3>3. task[a].server \in Servers
          BY <2>15, <3>1 DEF Reload, TaskTyped
    <3>4. TaskTyped([task[a] EXCEPT !.step = "wait", !.joined = k])
          BY <2>15, <3>1 DEF Reload, TaskTyped, Task
    <3>5. \A b \in Admins : TaskTyped(task'[b])
          BY <3>2, <3>4 DEF TypeOK, TaskTyped
    <3>6. task' \in [Admins -> Task]
          BY <3>2, <3>4 DEF TypeOK, TaskTyped
    <3>7. QED
          BY <2>15, <3>2, <3>3, <3>5, <3>6, RefreshTyped DEF Reload, TypeOK, TaskTyped, tables
  <2>16. ASSUME NEW a \in Admins, SaveEdit(a)
         PROVE  TypeOK'
    <3>1. TaskTyped(task[a])
          BY DEF TypeOK, TaskTyped
    <3>2. task[a].pkg \in Packages /\ task[a].list \in Lists
          BY <2>16, <3>1 DEF SaveEdit, TaskTyped
    <3>3. TablesTyped'
          BY <2>16, <3>2, WriteTyped DEF SaveEdit
    <3>4. TaskTyped([task[a] EXCEPT !.step = "edited"])
          BY <2>16, <3>1 DEF SaveEdit, TaskTyped, Task
    <3>5. \A b \in Admins : TaskTyped(task'[b])
          BY <2>16, <3>4 DEF SaveEdit, TypeOK, TaskTyped
    <3>6. task' \in [Admins -> Task]
          BY <2>16, <3>4 DEF SaveEdit, TypeOK, TaskTyped
    <3>7. QED
          BY <2>16, <3>3, <3>5, <3>6 DEF SaveEdit, TypeOK, TablesTyped, TaskTyped, memory
  <2>17. ASSUME NEW a \in Admins, AfterEdit(a)
         PROVE  TypeOK'
    <3>1. TaskTyped(task[a])
          BY DEF TypeOK, TaskTyped
    <3>2. task[a].server \in Servers
          BY <2>17, <3>1 DEF AfterEdit, TaskTyped
    <3>3. CASE designated = task[a].pkg
      <4>1. PICK k \in Loads :
               /\ Refresh(task[a].server, k)
               /\ task' = [task EXCEPT ![a].step = "wait", ![a].joined = k]
            BY <2>17, <3>3 DEF AfterEdit
      <4>2. TaskTyped([task[a] EXCEPT !.step = "wait", !.joined = k])
            BY <2>17, <3>1 DEF AfterEdit, TaskTyped, Task
      <4>3. \A b \in Admins : TaskTyped(task'[b])
            BY <4>1, <4>2 DEF TypeOK, TaskTyped
      <4>4. task' \in [Admins -> Task]
            BY <4>1, <4>2 DEF TypeOK, TaskTyped
      <4>5. QED
            BY <2>17, <3>2, <4>1, <4>3, <4>4, RefreshTyped DEF AfterEdit, TypeOK, TaskTyped, tables
    <3>4. CASE designated # task[a].pkg
      <4>1. task' = [task EXCEPT ![a] = NoTask]
            BY <2>17, <3>4 DEF AfterEdit, Answer
      <4>2. task' \in [Admins -> Task] /\ \A b \in Admins : TaskTyped(task'[b])
            BY <4>1, NoTaskTyped DEF TypeOK, TaskTyped
      <4>3. QED
            BY <2>17, <3>4, <4>2 DEF AfterEdit, TypeOK, TaskTyped, tables
    <3>5. QED
          BY <3>3, <3>4
  <2>18. ASSUME NEW a \in Admins, Remove(a)
         PROVE  TypeOK'
    <3>1. task[a].pkg \in Packages
          BY <2>18 DEF Remove, TypeOK
    <3>2. TablesTyped'
          BY <2>18, <3>1, WriteTyped DEF Remove, TypeOK, TablesTyped, tables
    <3>3. task' \in [Admins -> Task] /\ \A b \in Admins : TaskTyped(task'[b])
          BY <2>18, NoTaskTyped DEF Remove, Answer, TypeOK, TaskTyped
    <3>4. QED
          BY <2>18, <3>2, <3>3 DEF Remove, TypeOK, TablesTyped, TaskTyped, memory
  <2>19. QED
         BY <2>1, <2>2, <2>3, <2>4, <2>5, <2>6, <2>7, <2>8, <2>9, <2>10, <2>11, <2>12,
            <2>13, <2>14, <2>15, <2>16, <2>17, <2>18
         DEF Next, Caching, Booting, Administration
<1>3. QED
      BY <1>1, <1>2, PTL DEF Spec
-----------------------------------------------------------------------------
(* The designation never dangles *)

DefaultIInv == TypeOK /\ DefaultExists

LEMMA WriteKeepsDefault ==
    ASSUME NEW p \in Packages, NEW list \in Lists \cup {Gone}, DefaultIInv,
           Write(p, list), list # Gone \/ designated # p
    PROVE  DefaultExists'
BY DEF DefaultIInv, TypeOK, DefaultExists, Write

LEMMA DesignateKeepsDefault ==
    ASSUME NEW p \in Packages, DefaultIInv, Designate(p)
    PROVE  DefaultExists'
BY DEF DefaultIInv, TypeOK, DefaultExists, Designate

\* However checks, designations, removals, saves of removed rows and boots of
\* any number of processes interleave, the designated package exists.
THEOREM DefaultNeverDangles == Spec => []DefaultExists
<1>1. Init => DefaultExists
      BY DefaultAssumption DEF Init, DefaultExists
<1>2. TypeOK /\ DefaultExists /\ [Next]_vars => DefaultExists'
  <2> SUFFICES ASSUME DefaultIInv, [Next]_vars
               PROVE  DefaultExists'
      BY DEF DefaultIInv
  <2>1. CASE UNCHANGED tables
        BY <2>1 DEF DefaultIInv, DefaultExists, tables
  <2>2. ASSUME NEW s \in Servers, SeedCreate(s)
        PROVE  DefaultExists'
        BY <2>1, <2>2, WriteKeepsDefault, DefaultAssumption DEF SeedCreate
  <2>3. ASSUME NEW s \in Servers, SeedSave(s)
        PROVE  DefaultExists'
        BY <2>1, <2>3, DesignateKeepsDefault, DefaultAssumption DEF SeedSave
  <2>4. ASSUME NEW a \in Admins, SaveDesignation(a)
        PROVE  DefaultExists'
    <3>1. task[a].pkg \in Packages
          BY <2>4 DEF SaveDesignation, DefaultIInv, TypeOK
    <3>2. QED
          BY <2>1, <2>4, <3>1, DesignateKeepsDefault DEF SaveDesignation
  <2>5. ASSUME NEW a \in Admins, SaveEdit(a)
        PROVE  DefaultExists'
    <3>1. task[a].pkg \in Packages /\ task[a].list \in Lists
          BY <2>5 DEF SaveEdit, DefaultIInv, TypeOK
    <3>2. QED
          BY <2>5, <3>1, WriteKeepsDefault, DefaultAssumption DEF SaveEdit
  <2>6. ASSUME NEW a \in Admins, Remove(a)
        PROVE  DefaultExists'
    <3>1. task[a].pkg \in Packages
          BY <2>6 DEF Remove, DefaultIInv, TypeOK
    <3>2. QED
          BY <2>1, <2>6, <3>1, WriteKeepsDefault DEF Remove, MayDelete
  <2>7. CASE \E s \in Servers : Caching(s)
    <3>1. PICK s \in Servers : Caching(s)
          BY <2>7
    <3>2. ASSUME Age(s)
          PROVE  UNCHANGED tables
          BY <3>2 DEF Age, tables
    <3>3. ASSUME NEW k \in Loads, Visit(s, k)
          PROVE  UNCHANGED tables
          BY <3>3 DEF Visit, tables
    <3>4. ASSUME NEW k \in Loads, ReadRow(s, k)
          PROVE  UNCHANGED tables
          BY <3>4 DEF ReadRow, EndLoad, tables
    <3>5. ASSUME NEW k \in Loads, ReadPackage(s, k)
          PROVE  UNCHANGED tables
          BY <3>5 DEF ReadPackage, EndLoad
    <3>6. ASSUME NEW k \in Loads, FailLoad(s, k)
          PROVE  UNCHANGED tables
          BY <3>6 DEF FailLoad, EndLoad
    <3>7. QED
          BY <2>1, <3>1, <3>2, <3>3, <3>4, <3>5, <3>6 DEF Caching
  <2>8. CASE \E s \in Servers : Booting(s)
    <3>1. PICK s \in Servers : Booting(s)
          BY <2>8
    <3>2. CASE \/ SeedRead(s) \/ SeedSkip(s) \/ SeedFail(s) \/ Restart(s)
               \/ \E k \in Loads : Warm(s, k)
          BY <2>1, <3>2 DEF SeedRead, SeedSkip, SeedFail, Restart, Warm, tables
    <3>3. QED
          BY <2>2, <2>3, <3>1, <3>2 DEF Booting
  <2>9. CASE \E a \in Admins : Administration(a)
    <3>1. PICK a \in Admins : Administration(a)
          BY <2>9
    <3>2. CASE \E s \in Servers, p \in Packages :
                  \/ AskDesignate(a, s, p) \/ AskRemove(a, s, p)
                  \/ \E list \in Lists : AskEdit(a, s, p, list)
          BY <2>1, <3>2 DEF AskDesignate, AskRemove, AskEdit, Ask, tables
    <3>3. CASE Reload(a) \/ AfterEdit(a)
          BY <2>1, <3>3 DEF Reload, AfterEdit, tables
    <3>4. QED
          BY <2>4, <2>5, <2>6, <3>1, <3>2, <3>3 DEF Administration
  <2>10. QED
         BY <2>1, <2>7, <2>8, <2>9 DEF Next, vars, tables
<1>3. QED
      BY <1>1, <1>2, TypeCorrect, PTL DEF Spec
-----------------------------------------------------------------------------
(* What a cache holds was granted and chosen *)

\* The history covers the tables, and a load has read a designation.
ServesIInv ==
    /\ TypeOK
    /\ \A p \in Packages : content[p] # Gone => content[p] \in granted[p]
    /\ designated # NoPackage => designated \in chosen
    /\ \A s \in Servers, k \in Loads :
          load[s][k].step = "package" => load[s][k].row \in chosen
    /\ ServesChosen

LEMMA WriteKeepsServing ==
    ASSUME NEW p \in Packages, NEW list \in Lists \cup {Gone}, ServesIInv, TypeOK',
           Write(p, list), UNCHANGED <<cache, load>>
    PROVE  ServesIInv'
BY DEF ServesIInv, TypeOK, ServesChosen, Write, Cold

LEMMA DesignateKeepsServing ==
    ASSUME NEW p \in Packages, ServesIInv, TypeOK', Designate(p), UNCHANGED <<cache, load>>
    PROVE  ServesIInv'
BY DEF ServesIInv, TypeOK, ServesChosen, Designate, Cold

\* A step that leaves the tables alone need only account for caches and loads.
LEMMA CachesKeepServing ==
    ASSUME ServesIInv, TypeOK', UNCHANGED tables,
           \A s \in Servers : cache'[s] \in {cache[s], NoCache},
           \A s \in Servers, k \in Loads :
              load'[s][k].step = "package" => load'[s][k] = load[s][k]
    PROVE  ServesIInv'
BY DEF ServesIInv, ServesChosen, Cold, tables

\* The end of a load leaves no other load past its query than there was.
LEMMA EndLoads ==
    ASSUME NEW s \in Servers, NEW k \in Loads, NEW r, TypeOK, EndLoad(s, k, r)
    PROVE  /\ load'[s][k] = NotLoading
           /\ \A t \in Servers, j \in Loads :
                 ~(t = s /\ j = k) => load'[t][j] = load[t][j]
           /\ \A t \in Servers, j \in Loads :
                 load'[t][j].step = "package" => load'[t][j] = load[t][j]
<1>1. load' = [load EXCEPT ![s] = [load[s] EXCEPT ![k] = NotLoading]]
      BY DEF EndLoad, TypeOK
<1>2. load \in [Servers -> [Loads -> Load]] /\ NotLoading.step = "idle"
      BY DEF TypeOK, NotLoading
<1>3. load'[s][k] = NotLoading
      BY <1>1, <1>2
<1>4. ASSUME NEW t \in Servers, NEW j \in Loads, ~(t = s /\ j = k)
      PROVE  load'[t][j] = load[t][j]
      BY <1>1, <1>2, <1>4
<1>5. QED
      BY <1>2, <1>3, <1>4

\* Degraded or not, a process serves a list that its package granted, of a package
\* that somebody designated, and never the empty list, across any number of
\* outages, removals and deploys.
THEOREM ServedWasChosen == Spec => []ServesChosen
<1>1. Init => ServesIInv
  <2>1. Init => TypeOK
        BY DefaultAssumption DEF Init, TypeOK, NoCache, NotLoading, NoTask, Load, Task
  <2>2. QED
        BY <2>1, DefaultAssumption DEF Init, ServesIInv, ServesChosen, Cold, NotLoading
<1>2. ServesIInv /\ TypeOK' /\ [Next]_vars => ServesIInv'
  <2> SUFFICES ASSUME ServesIInv, TypeOK', [Next]_vars
               PROVE  ServesIInv'
      OBVIOUS
  <2>0. TypeOK
        BY DEF ServesIInv
  <2>1. CASE UNCHANGED <<tables, cache, load>>
        BY <2>1 DEF ServesIInv, ServesChosen, Cold, tables
  <2>2. ASSUME NEW s \in Servers, NEW k \in Loads, Refresh(s, k), UNCHANGED tables,
               \A t \in Servers : cache'[t] \in {cache[t], NoCache}
        PROVE  ServesIInv'
        BY <2>0, <2>2, RefreshTyped, CachesKeepServing
  <2>3. ASSUME NEW s \in Servers, Age(s)
        PROVE  ServesIInv'
    <3>1. cache[s] \in Cached
          BY <2>0, <2>3 DEF Age, TypeOK, NoCache
    <3>2. cache[s] # NoCache
          BY <2>3 DEF Age, NoCache
    <3>3. \A t \in Servers :
             ~Cold(t)' => /\ ~Cold(t) /\ cache'[t].pkg = cache[t].pkg
                         /\ cache'[t].list = cache[t].list
          BY <2>0, <2>3, <3>1, <3>2 DEF Age, Cold, TypeOK, Cached
    <3>4. QED
          BY <2>3, <3>3 DEF Age, ServesIInv, ServesChosen, tables
  <2>4. ASSUME NEW s \in Servers, NEW k \in Loads, ReadRow(s, k)
        PROVE  ServesIInv'
    <3>1. CASE designated = NoPackage
      <4>1. EndLoad(s, k, FALSE) /\ UNCHANGED cache
            BY <2>4, <3>1 DEF ReadRow
      <4>2. UNCHANGED tables
            BY <4>1 DEF EndLoad
      <4>3. QED
            BY <2>0, <4>1, <4>2, EndLoads, CachesKeepServing
    <3>2. CASE designated # NoPackage
      <4>1. load' = [load EXCEPT ![s] = [load[s] EXCEPT ![k] =
                       [step |-> "package", row |-> designated, asOf |-> changes]]]
            BY <2>0, <2>4, <3>2 DEF ReadRow, TypeOK
      <4>2. \A t \in Servers, j \in Loads :
               load'[t][j].step = "package" => load'[t][j].row \in chosen
            BY <2>0, <3>2, <4>1 DEF ServesIInv, TypeOK
      <4>3. UNCHANGED <<tables, cache>>
            BY <2>4, <3>2 DEF ReadRow
      <4>4. QED
            BY <4>2, <4>3 DEF ServesIInv, ServesChosen, Cold, tables
    <3>3. QED
          BY <3>1, <3>2
  <2>5. ASSUME NEW s \in Servers, NEW k \in Loads, ReadPackage(s, k)
        PROVE  ServesIInv'
    <3> DEFINE got == load[s][k]
               list == content[got.row]
    <3>1. got.row \in Packages /\ got.row \in chosen
          BY <2>0, <2>5 DEF ReadPackage, ServesIInv, TypeOK
    <3>2. EndLoad(s, k, Resolves(list))
          BY <2>5 DEF ReadPackage
    <3>3. UNCHANGED tables
          BY <3>2 DEF EndLoad
    <3>4. \A t \in Servers, j \in Loads :
             load'[t][j].step = "package" => load'[t][j] = load[t][j]
          BY <2>0, <3>2, EndLoads
    <3>5. CASE ~Resolves(list)
          BY <2>5, <3>3, <3>4, <3>5, CachesKeepServing DEF ReadPackage
    <3>6. CASE Resolves(list)
      <4>1. cache' = [cache EXCEPT ![s] =
               [pkg |-> got.row, list |-> list, fresh |-> TRUE, asOf |-> got.asOf]]
            BY <2>5, <3>6 DEF ReadPackage
      <4>2. list # Gone /\ list # Empty /\ list \in granted[got.row]
            BY <3>1, <3>6 DEF Resolves, ServesIInv
      <4>3. ServesChosen'
            BY <2>0, <3>1, <3>3, <4>1, <4>2 DEF ServesIInv, ServesChosen, Cold, TypeOK, tables
      <4>4. QED
            BY <3>3, <3>4, <4>3 DEF ServesIInv, tables
    <3>7. QED
          BY <3>5, <3>6
  <2>6. ASSUME NEW s \in Servers, NEW k \in Loads, FailLoad(s, k)
        PROVE  ServesIInv'
    <3>1. EndLoad(s, k, FALSE) /\ UNCHANGED cache
          BY <2>6 DEF FailLoad
    <3>2. UNCHANGED tables
          BY <3>1 DEF EndLoad
    <3>3. QED
          BY <2>0, <3>1, <3>2, EndLoads, CachesKeepServing
  <2>7. ASSUME NEW s \in Servers, Restart(s)
        PROVE  ServesIInv'
    <3>1. \A t \in Servers, k \in Loads :
             load'[t][k].step = "package" => load'[t][k] = load[t][k]
          BY <2>0, <2>7 DEF Restart, TypeOK, NotLoading
    <3>2. \A t \in Servers : cache'[t] \in {cache[t], NoCache}
          BY <2>0, <2>7 DEF Restart, TypeOK
    <3>3. QED
          BY <2>7, <3>1, <3>2, CachesKeepServing DEF Restart
  <2>8. CASE \E s \in Servers : Caching(s)
        BY <2>2, <2>3, <2>4, <2>5, <2>6, <2>8 DEF Caching, Visit
  <2>9. CASE \E s \in Servers : Booting(s)
    <3>1. PICK s \in Servers : Booting(s)
          BY <2>9
    <3>2. CASE SeedRead(s) \/ SeedSkip(s) \/ SeedFail(s)
          BY <2>1, <3>2 DEF SeedRead, SeedSkip, SeedFail
    <3>3. CASE SeedCreate(s)
          BY <2>1, <3>3, WriteKeepsServing, DefaultAssumption DEF SeedCreate
    <3>4. CASE SeedSave(s)
          BY <2>1, <3>4, DesignateKeepsServing, DefaultAssumption DEF SeedSave
    <3>5. CASE \E k \in Loads : Warm(s, k)
          BY <2>2, <3>5 DEF Warm
    <3>6. QED
          BY <2>7, <3>1, <3>2, <3>3, <3>4, <3>5 DEF Booting
  <2>10. CASE \E a \in Admins : Administration(a)
    <3>1. PICK a \in Admins : Administration(a)
          BY <2>10
    <3>2. CASE \E s \in Servers, p \in Packages :
                  \/ AskDesignate(a, s, p) \/ AskRemove(a, s, p)
                  \/ \E list \in Lists : AskEdit(a, s, p, list)
          BY <2>1, <3>2 DEF AskDesignate, AskRemove, AskEdit, Ask, memory
    <3>3. task[a].step # "idle" => task[a].server \in Servers /\ task[a].pkg \in Packages
          BY <2>0 DEF TypeOK
    <3>4. CASE SaveDesignation(a)
          BY <2>1, <3>3, <3>4, DesignateKeepsServing DEF SaveDesignation, memory
    <3>5. CASE Reload(a)
      <4>1. \A t \in Servers : cache'[t] \in {cache[t], NoCache}
            BY <2>0, <3>5 DEF Reload, TypeOK
      <4>2. QED
            BY <2>2, <3>3, <3>5, <4>1 DEF Reload
    <3>6. CASE SaveEdit(a)
      <4>1. task[a].list \in Lists
            BY <2>0, <3>6 DEF SaveEdit, TypeOK
      <4>2. QED
            BY <3>3, <3>6, <4>1, WriteKeepsServing DEF SaveEdit, memory
    <3>7. CASE AfterEdit(a)
          BY <2>1, <2>2, <3>3, <3>7 DEF AfterEdit
    <3>8. CASE Remove(a)
          BY <2>1, <3>3, <3>8, WriteKeepsServing DEF Remove, memory
    <3>9. QED
          BY <3>1, <3>2, <3>4, <3>5, <3>6, <3>7, <3>8 DEF Administration
  <2>11. QED
         BY <2>1, <2>8, <2>9, <2>10 DEF Next, vars, memory
<1>3. ServesIInv => ServesChosen
      BY DEF ServesIInv
<1>4. QED
      BY <1>1, <1>2, <1>3, TypeCorrect, PTL DEF Spec
-----------------------------------------------------------------------------
(* Refreshes land in the order they read *)

\* A process has one load at a time, and what it has read is not older than what
\* the process last cached.
OrderIInv ==
    /\ TypeOK
    /\ \A s \in Servers, k \in Loads : load[s][k] # NotLoading => inflight[s] = k
    /\ \A s \in Servers, k \in Loads :
          load[s][k].step = "package" =>
             newest[s] <= load[s][k].asOf /\ load[s][k].asOf <= changes
    /\ \A s \in Servers : newest[s] <= changes
    /\ NeverGoesBack

\* Writes to the tables only push the present forward.
LEMMA TablesKeepOrder ==
    ASSUME OrderIInv, TypeOK', UNCHANGED <<cache, load, inflight, newest>>, changes <= changes'
    PROVE  OrderIInv'
<1>1. \A s \in Servers : newest'[s] <= changes'
      BY DEF OrderIInv, TypeOK
<1>2. \A s \in Servers, k \in Loads :
         load[s][k].step = "package" => load[s][k].asOf <= changes'
      BY DEF OrderIInv, TypeOK, Load
<1>3. QED
      BY <1>1, <1>2 DEF OrderIInv, NeverGoesBack, Cold

\* A refresh starts a load only when none is in flight.
LEMMA RefreshKeepsOrder ==
    ASSUME NEW s \in Servers, NEW k \in Loads, OrderIInv, TypeOK', Refresh(s, k),
           UNCHANGED <<changes, newest>>,
           \A t \in Servers : cache'[t] \in {cache[t], NoCache}
    PROVE  OrderIInv'
<1>0. TypeOK
      BY DEF OrderIInv
<1>1. \A t \in Servers, j \in Loads :
         load'[t][j].step = "package" => load'[t][j] = load[t][j]
      BY <1>0, RefreshTyped
<1>2. \A t \in Servers, j \in Loads : load'[t][j] # NotLoading => inflight'[t] = j
  <2>1. CASE Joins(s)
        BY <2>1 DEF Refresh, OrderIInv
  <2>2. CASE ~Joins(s)
    <3>1. /\ load' = [load EXCEPT ![s] = [load[s] EXCEPT ![k].step = "row"]]
          /\ inflight' = [inflight EXCEPT ![s] = k]
          BY <1>0, <2>2 DEF Refresh, TypeOK
    <3>2. \A j \in Loads : load[s][j] = NotLoading
          BY <2>2, DefaultAssumption DEF Joins, OrderIInv
    <3>3. QED
          BY <1>0, <3>1, <3>2 DEF OrderIInv, TypeOK
  <2>3. QED
        BY <2>1, <2>2
<1>3. QED
      BY <1>1, <1>2 DEF OrderIInv, NeverGoesBack, Cold

\* After the only load of a process none is left.
LEMMA EndKeepsOrder ==
    ASSUME NEW s \in Servers, NEW k \in Loads, NEW r, OrderIInv, EndLoad(s, k, r),
           load[s][k] # NotLoading
    PROVE  /\ \A j \in Loads : load'[s][j] = NotLoading
           /\ \A t \in Servers : t # s => load'[t] = load[t] /\ inflight'[t] = inflight[t]
           /\ UNCHANGED changes
<1>1. /\ load' = [load EXCEPT ![s] = [load[s] EXCEPT ![k] = NotLoading]]
      /\ inflight' = [inflight EXCEPT ![s] = NoLoad] /\ UNCHANGED changes
      BY DEF OrderIInv, EndLoad, InflightAfter, TypeOK, tables
<1>2. \A j \in Loads : j # k => load[s][j] = NotLoading
      BY DEF OrderIInv
<1>3. QED
      BY <1>1, <1>2 DEF OrderIInv, TypeOK

LEMMA NotLoadingIdle == NotLoading.step = "idle"
BY DEF NotLoading

\* A cache never goes back to an older state of the tables than its process has
\* served, however refreshes, designations, edits, outages and deploys overlap.
THEOREM RefreshesInOrder == Spec => []NeverGoesBack
<1>1. Init => OrderIInv
  <2>1. Init => TypeOK
        BY DefaultAssumption DEF Init, TypeOK, NoCache, NotLoading, NoTask, Load, Task
  <2>2. QED
        BY <2>1 DEF Init, OrderIInv, NeverGoesBack, Cold, NotLoading
<1>2. OrderIInv /\ TypeOK' /\ [Next]_vars => OrderIInv'
  <2> SUFFICES ASSUME OrderIInv, TypeOK', [Next]_vars
               PROVE  OrderIInv'
      OBVIOUS
  <2>0. TypeOK /\ changes \in Nat
        BY DEF OrderIInv, TypeOK
  <2>1. CASE UNCHANGED <<changes, cache, load, inflight, newest>>
        BY <2>0, <2>1, TablesKeepOrder
  <2>2. ASSUME NEW p \in Packages, NEW list, Write(p, list) \/ Designate(p),
               UNCHANGED <<cache, load, inflight, newest>>
        PROVE  OrderIInv'
        BY <2>0, <2>2, TablesKeepOrder DEF Write, Designate
  <2>3. ASSUME NEW s \in Servers, Age(s)
        PROVE  OrderIInv'
    <3>1. cache[s] \in Cached /\ cache[s] # NoCache
          BY <2>0, <2>3 DEF Age, TypeOK, NoCache
    <3>2. \A t \in Servers : ~Cold(t)' => ~Cold(t) /\ cache'[t].asOf = cache[t].asOf
          BY <2>0, <2>3, <3>1 DEF Age, Cold, TypeOK, Cached
    <3>3. QED
          BY <2>3, <3>2 DEF Age, OrderIInv, NeverGoesBack, tables
  <2>4. ASSUME NEW s \in Servers, NEW k \in Loads, ReadRow(s, k), designated # NoPackage
        PROVE  OrderIInv'
    <3>1. load' = [load EXCEPT ![s] = [load[s] EXCEPT ![k] =
                     [step |-> "package", row |-> designated, asOf |-> changes]]]
          BY <2>0, <2>4 DEF ReadRow, TypeOK
    <3>2. UNCHANGED <<changes, cache, inflight, newest>>
          BY <2>4 DEF ReadRow, tables
    <3>3. load[s][k] # NotLoading
          BY <2>4, NotLoadingIdle DEF ReadRow
    <3>4. \A t \in Servers, j \in Loads : load'[t][j] # NotLoading => inflight'[t] = j
          BY <2>0, <3>1, <3>2, <3>3 DEF OrderIInv, TypeOK
    <3>5. \A t \in Servers, j \in Loads :
             load'[t][j].step = "package" =>
                newest'[t] <= load'[t][j].asOf /\ load'[t][j].asOf <= changes'
          BY <2>0, <3>1, <3>2 DEF OrderIInv, TypeOK
    <3>6. QED
          BY <3>2, <3>4, <3>5 DEF OrderIInv, NeverGoesBack, Cold
  <2>5. ASSUME NEW s \in Servers, NEW k \in Loads, NEW r, EndLoad(s, k, r),
               load[s][k] # NotLoading, UNCHANGED <<cache, newest>>
        PROVE  OrderIInv'
        BY <2>0, <2>5, EndKeepsOrder, NotLoadingIdle DEF OrderIInv, NeverGoesBack, Cold
  <2>6. ASSUME NEW s \in Servers, NEW k \in Loads, ReadPackage(s, k)
        PROVE  OrderIInv'
    <3> DEFINE got == load[s][k]
               list == content[got.row]
    <3>1. EndLoad(s, k, Resolves(list)) /\ got # NotLoading /\ got.step = "package"
          BY <2>6, NotLoadingIdle DEF ReadPackage
    <3>2. CASE ~Resolves(list)
          BY <2>5, <2>6, <3>1, <3>2 DEF ReadPackage
    <3>3. CASE Resolves(list)
      <4>1. got.asOf \in Nat /\ newest[s] \in Nat /\ newest[s] <= got.asOf
            /\ got.asOf <= changes
            BY <2>0, <3>1 DEF OrderIInv, TypeOK, Load
      <4>2. \A t \in Servers : newest'[t] = IF t = s THEN got.asOf ELSE newest[t]
        <5> DEFINE latest == IF got.asOf > newest[s] THEN got.asOf ELSE newest[s]
        <5>1. newest' = [newest EXCEPT ![s] = latest]
              BY <2>6, <3>3 DEF ReadPackage
        <5>2. latest = got.asOf
              BY <4>1
        <5> HIDE DEF latest
        <5>3. QED
              BY <2>0, <5>1, <5>2 DEF TypeOK
      <4>3. cache' = [cache EXCEPT ![s] =
               [pkg |-> got.row, list |-> list, fresh |-> TRUE, asOf |-> got.asOf]]
            BY <2>6, <3>3 DEF ReadPackage
      <4>4. NeverGoesBack'
            BY <2>0, <4>2, <4>3 DEF OrderIInv, NeverGoesBack, Cold, TypeOK
      <4>5. /\ \A j \in Loads : load'[s][j] = NotLoading
            /\ \A t \in Servers : t # s => load'[t] = load[t] /\ inflight'[t] = inflight[t]
            /\ UNCHANGED changes
            BY <3>1, EndKeepsOrder
      <4>6. \A t \in Servers, j \in Loads : load'[t][j] # NotLoading => inflight'[t] = j
            BY <4>5 DEF OrderIInv
      <4>7. \A t \in Servers, j \in Loads :
               load'[t][j].step = "package" =>
                  newest'[t] <= load'[t][j].asOf /\ load'[t][j].asOf <= changes'
            BY <4>2, <4>5, NotLoadingIdle DEF OrderIInv
      <4>8. \A t \in Servers : newest'[t] <= changes'
            BY <4>1, <4>2, <4>5 DEF OrderIInv
      <4>9. QED
            BY <4>4, <4>6, <4>7, <4>8 DEF OrderIInv
    <3>4. QED
          BY <3>2, <3>3
  <2>7. ASSUME NEW s \in Servers, Restart(s)
        PROVE  OrderIInv'
    <3>1. \A t \in Servers, k \in Loads :
             load'[t][k] = IF t = s THEN NotLoading ELSE load[t][k]
          BY <2>0, <2>7 DEF Restart, TypeOK
    <3>2. \A t \in Servers :
             /\ newest'[t] = IF t = s THEN 0 ELSE newest[t]
             /\ inflight'[t] = IF t = s THEN NoLoad ELSE inflight[t]
             /\ cache'[t] = IF t = s THEN NoCache ELSE cache[t]
          BY <2>0, <2>7 DEF Restart, TypeOK
    <3>3. QED
          BY <2>0, <2>7, <3>1, <3>2, NotLoadingIdle
          DEF Restart, OrderIInv, NeverGoesBack, Cold, tables
  <2>8. CASE \E s \in Servers : Caching(s)
    <3>1. PICK s \in Servers : Caching(s)
          BY <2>8
    <3>2. ASSUME NEW k \in Loads, Visit(s, k)
          PROVE  OrderIInv'
          BY <3>2, RefreshKeepsOrder DEF Visit, tables
    <3>3. ASSUME NEW k \in Loads, ReadRow(s, k) \/ FailLoad(s, k)
          PROVE  OrderIInv'
          BY <2>4, <2>5, <3>3, NotLoadingIdle DEF ReadRow, FailLoad
    <3>4. QED
          BY <2>3, <2>6, <3>1, <3>2, <3>3 DEF Caching
  <2>9. CASE \E s \in Servers : Booting(s)
    <3>1. PICK s \in Servers : Booting(s)
          BY <2>9
    <3>2. CASE SeedRead(s) \/ SeedSkip(s) \/ SeedFail(s)
          BY <2>1, <3>2 DEF SeedRead, SeedSkip, SeedFail, tables
    <3>3. CASE SeedCreate(s) \/ SeedSave(s)
          BY <2>1, <2>2, <3>3, DefaultAssumption DEF SeedCreate, SeedSave, tables
    <3>4. CASE \E k \in Loads : Warm(s, k)
          BY <3>4, RefreshKeepsOrder DEF Warm, tables
    <3>5. QED
          BY <2>7, <3>1, <3>2, <3>3, <3>4 DEF Booting
  <2>10. CASE \E a \in Admins : Administration(a)
    <3>1. PICK a \in Admins : Administration(a)
          BY <2>10
    <3>2. CASE \E s \in Servers, p \in Packages :
                  \/ AskDesignate(a, s, p) \/ AskRemove(a, s, p)
                  \/ \E list \in Lists : AskEdit(a, s, p, list)
          BY <2>1, <3>2 DEF AskDesignate, AskRemove, AskEdit, Ask, memory, tables
    <3>3. task[a].step # "idle" => task[a].server \in Servers /\ task[a].pkg \in Packages
          BY <2>0 DEF TypeOK
    <3>4. CASE SaveDesignation(a) \/ SaveEdit(a) \/ Remove(a)
          BY <2>1, <2>2, <3>3, <3>4 DEF SaveDesignation, SaveEdit, Remove, memory, tables
    <3>5. CASE Reload(a)
      <4>1. \A t \in Servers : cache'[t] \in {cache[t], NoCache}
            BY <2>0, <3>5 DEF Reload, TypeOK
      <4>2. QED
            BY <3>3, <3>5, <4>1, RefreshKeepsOrder DEF Reload, tables
    <3>6. CASE AfterEdit(a)
          BY <2>1, <3>3, <3>6, RefreshKeepsOrder DEF AfterEdit, tables
    <3>7. QED
          BY <3>1, <3>2, <3>4, <3>5, <3>6 DEF Administration
  <2>11. QED
         BY <2>1, <2>8, <2>9, <2>10 DEF Next, vars, memory, tables
<1>3. OrderIInv => NeverGoesBack
      BY DEF OrderIInv
<1>4. QED
      BY <1>1, <1>2, <1>3, TypeCorrect, PTL DEF Spec
=============================================================================
