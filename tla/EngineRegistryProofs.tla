------------------------ MODULE EngineRegistryProofs ------------------------
(***************************************************************************)
(* Theorems about EngineRegistry, for every set of versions, bundles,      *)
(* scopes, callers, administrators and sessions.                           *)
(***************************************************************************)
EXTENDS EngineRegistry, TLAPS

-----------------------------------------------------------------------------
(* The shape of what is held, read off its kind. *)

LEMMA TaskShape ==
    ASSUME NEW t \in Tasks
    PROVE  /\ t.kind = "publish" => t \in PublishTasks
           /\ t.kind = "saveRows" => t \in CopyTasks
           /\ t.kind \in {"checkRelease", "checkRollback", "readPointer"} => t \in PointerTasks
           /\ t.kind = "writePointer" => t \in WriteTasks
           /\ t.kind = "record" => t \in RecordTasks
           /\ t.kind = "saveCanary" => t \in CanaryTasks
<1>1. CASE t \in {Idle}
  BY <1>1 DEF Idle
<1>2. CASE t \in PublishTasks
  BY <1>2 DEF PublishTasks
<1>3. CASE t \in CopyTasks
  BY <1>3 DEF CopyTasks
<1>4. CASE t \in PointerTasks
  BY <1>4 DEF PointerTasks
<1>5. CASE t \in WriteTasks
  BY <1>5 DEF WriteTasks
<1>6. CASE t \in RecordTasks
  BY <1>6 DEF RecordTasks
<1>7. CASE t \in CanaryTasks
  BY <1>7 DEF CanaryTasks
<1>8. QED
  BY <1>1, <1>2, <1>3, <1>4, <1>5, <1>6, <1>7 DEF Tasks

LEMMA SessionShape ==
    ASSUME NEW t \in Opened
    PROVE  /\ t.kind = "plan" => t \in PlanSessions
           /\ t.kind = "canary" => t \in CanarySessions
           /\ t.kind \in {"build", "done"} => t \in ChosenSessions
<1>1. CASE t \in {Idle}
  BY <1>1 DEF Idle
<1>2. CASE t \in PlanSessions
  BY <1>2 DEF PlanSessions
<1>3. CASE t \in CanarySessions
  BY <1>3 DEF CanarySessions
<1>4. CASE t \in ChosenSessions
  BY <1>4 DEF ChosenSessions
<1>5. QED
  BY <1>1, <1>2, <1>3, <1>4 DEF Opened

LEMMA RowShape ==
    ASSUME TypeOK, NEW v \in Versions, NEW p \in Plans
    PROVE  /\ build[<<v, p>>] \in Row \cup {NoRow}
           /\ Published(v, p) => build[<<v, p>>] \in Row
           /\ build[<<v, p>>] \in Row => Published(v, p)
<1>1. build[<<v, p>>] \in Row \cup {NoRow}
  BY DEF TypeOK
<1>2. CASE build[<<v, p>>] \in Row
  BY <1>1, <1>2 DEF Row, Published
<1>3. CASE build[<<v, p>>] = NoRow
  <2>1. ~Published(v, p)
    BY <1>3 DEF NoRow, Published
  <2>2. QED
    BY <1>1, <1>2, <2>1
<1>4. QED
  BY <1>1, <1>2, <1>3

\* A chain with something in it has a first step that chooses.
LEMMA SomeStepDecides ==
    ASSUME NEW chain, ~ \A k \in 1 .. 5 : chain[Steps[k]] = NoVersion
    PROVE  \E k \in 1 .. 5 : /\ chain[Steps[k]] # NoVersion
                             /\ \A j \in 1 .. (k - 1) : chain[Steps[j]] = NoVersion
<1> DEFINE found(k) == /\ chain[Steps[k]] # NoVersion
                       /\ \A j \in 1 .. (k - 1) : chain[Steps[j]] = NoVersion
<1>1. CASE chain[Steps[1]] # NoVersion
  <2>1. found(1)
    BY <1>1
  <2>2. QED
    BY <2>1
<1>2. CASE chain[Steps[1]] = NoVersion /\ chain[Steps[2]] # NoVersion
  <2>1. found(2)
    BY <1>2
  <2>2. QED
    BY <2>1
<1>3. CASE /\ chain[Steps[1]] = NoVersion /\ chain[Steps[2]] = NoVersion
           /\ chain[Steps[3]] # NoVersion
  <2>1. found(3)
    BY <1>3
  <2>2. QED
    BY <2>1
<1>4. CASE /\ chain[Steps[1]] = NoVersion /\ chain[Steps[2]] = NoVersion
           /\ chain[Steps[3]] = NoVersion /\ chain[Steps[4]] # NoVersion
  <2>1. found(4)
    BY <1>4
  <2>2. QED
    BY <2>1
<1>5. CASE /\ chain[Steps[1]] = NoVersion /\ chain[Steps[2]] = NoVersion
           /\ chain[Steps[3]] = NoVersion /\ chain[Steps[4]] = NoVersion
  <2>1. chain[Steps[5]] # NoVersion
    BY <1>5
  <2>2. found(5)
    BY <1>5, <2>1
  <2>3. QED
    BY <2>2
<1>6. QED
  BY <1>1, <1>2, <1>3, <1>4, <1>5

\* First match wins, and what wins was there.
LEMMA Resolution ==
    ASSUME NEW chain \in Chain
    PROVE  LET d == resolveVersion(chain)
           IN  /\ d.source \in Sources /\ d.version \in Maybe
               /\ d.source = "none" => d.version = NoVersion
               /\ d.source # "none" => d.version = chain[d.source] /\ d.version # NoVersion
<1> DEFINE found(k) == /\ chain[Steps[k]] # NoVersion
                       /\ \A j \in 1 .. (k - 1) : chain[Steps[j]] = NoVersion
<1>1. CASE \A k \in 1 .. 5 : chain[Steps[k]] = NoVersion
  BY <1>1 DEF resolveVersion, decidingStep, Sources, Maybe
<1>2. CASE ~ \A k \in 1 .. 5 : chain[Steps[k]] = NoVersion
  <2>1. \E k \in 1 .. 5 : found(k)
    BY <1>2, SomeStepDecides
  <2> DEFINE k == CHOOSE k \in 1 .. 5 : found(k)
  <2>2. k \in 1 .. 5 /\ found(k)
    BY <2>1
  <2>3. decidingStep(chain) = Steps[k]
    BY <1>2 DEF decidingStep
  <2> HIDE DEF k
  <2>4. Steps[k] \in {"pin", "override", "canary", "channel", "global"}
    BY <2>2 DEF Steps
  <2>5. Steps[k] \in Sources
    BY <2>2 DEF Sources
  <2>6. chain[Steps[k]] \in Maybe
    BY <2>4 DEF Chain
  <2>7. QED
    BY <2>2, <2>3, <2>4, <2>5, <2>6 DEF resolveVersion
<1>3. QED
  BY <1>1, <1>2

-----------------------------------------------------------------------------
(* Type correctness. *)

LEMMA TypeInit == Init => TypeOK
<1> SUFFICES ASSUME Init PROVE TypeOK
  OBVIOUS
<1> USE RegistryAssumption
<1>1. build \in [Versions \X Plans -> Row \cup {NoRow}]
  <2>1. \A q \in Plans : [published |-> TRUE, channel |-> "stable", status |-> "published",
                          content |-> Shipped[q], bytes |-> TRUE] \in Row
    BY DEF Row, Channels
  <2>2. QED
    BY <2>1 DEF Init
<1>2. stored \subseteq Contents /\ lost \subseteq Contents
  BY DEF Init
<1>3. default \in [Scopes -> Maybe] /\ previous \in [Scopes -> Maybe]
  BY DEF Init, Maybe
<1>4. canary \in [Scopes -> [version: Maybe, percent: 0 .. 100]]
  BY DEF Init, NoCanary, Maybe
<1>5. chosen \in [Scopes -> SUBSET Versions]
  BY DEF Init
<1>6. task \in [Admins -> Tasks] /\ sess \in [Sessions -> Opened]
  BY DEF Init, Tasks, Opened
<1>7. QED
  BY <1>1, <1>2, <1>3, <1>4, <1>5, <1>6 DEF TypeOK

\* What Start, Continue, AfterStep and Done leave in task.
LEMMA TaskTyped ==
    ASSUME TypeOK, NEW a \in Admins, NEW t \in Tasks
    PROVE  /\ Start(a, t) => task' \in [Admins -> Tasks]
           /\ Continue(a, t) => task' \in [Admins -> Tasks]
           /\ Done(a) => task' \in [Admins -> Tasks]
  BY DEF TypeOK, Start, Continue, Done, Tasks

LEMMA PublishShape ==
    ASSUME TypeOK, NEW a \in Admins, NEW step, PublishStep(a, step)
    PROVE  /\ task[a] \in PublishTasks
           /\ task[a].row \in Row /\ task[a].version \in Versions /\ task[a].plan \in Plans
           /\ step = "store" => task[a].todo = <<"store", "save">>
           /\ step = "save" => task[a].todo = <<"store", "save">> \/ task[a].todo = <<"save">>
<1>1. task[a] \in Tasks
  BY DEF TypeOK
<1>2. task[a].kind = "publish" /\ Head(task[a].todo) = step
  BY DEF PublishStep
<1>3. task[a] \in PublishTasks
  BY <1>1, <1>2, TaskShape
<1>4. task[a].todo \in {<<"store", "save">>, <<"save">>}
  BY <1>3 DEF PublishTasks
<1>5. Head(<<"store", "save">>) = "store" /\ Head(<<"save">>) = "save"
  OBVIOUS
<1>6. QED
  BY <1>2, <1>3, <1>4, <1>5 DEF PublishTasks

LEMMA AfterStepTyped ==
    ASSUME TypeOK, NEW a \in Admins, task[a] \in PublishTasks, AfterStep(a)
    PROVE  task' \in [Admins -> Tasks]
<1>1. CASE Tail(task[a].todo) = <<>>
  <2>1. Done(a)
    BY <1>1 DEF AfterStep
  <2>2. Idle \in Tasks
    BY DEF Tasks
  <2>3. QED
    BY <2>1, <2>2, TaskTyped
<1>2. CASE Tail(task[a].todo) # <<>>
  <2>1. task[a].todo = <<"store", "save">>
    <3>1. Tail(<<"save">>) = <<>>
      OBVIOUS
    <3>2. task[a].todo \in {<<"store", "save">>, <<"save">>}
      BY DEF PublishTasks
    <3>3. QED
      BY <1>2, <3>1, <3>2
  <2>2. Tail(task[a].todo) = <<"save">>
    BY <2>1
  <2> DEFINE t == [task[a] EXCEPT !.todo = Tail(@)]
  <2>3. t = [task[a] EXCEPT !.todo = <<"save">>]
    BY <2>2
  <2>4. t \in PublishTasks
    BY <2>3 DEF PublishTasks
  <2>5. Continue(a, t)
    BY <1>2 DEF AfterStep
  <2>6. t \in Tasks
    BY <2>4 DEF Tasks
  <2> HIDE DEF t
  <2>7. QED
    BY <2>5, <2>6, TaskTyped
<1>3. QED
  BY <1>1, <1>2

LEMMA PublishingTyped ==
    ASSUME TypeOK, NEW a \in Admins, Publishing(a)
    PROVE  TypeOK'
<1> USE RegistryAssumption
<1>1. ASSUME NEW v \in Versions, NEW p \in Plans, NEW c \in Offered[<<v, p>>],
             BeginPublish(a, v, p, c)
      PROVE  TypeOK'
  <2>1. PICK as \in PublishAs :
          Start(a, [kind |-> "publish", todo |-> PublishSteps(as.bytes), version |-> v, plan |-> p,
                    row |-> [published |-> TRUE, channel |-> as.channel, status |-> "published",
                             content |-> c, bytes |-> as.bytes]])
    BY <1>1 DEF BeginPublish
  <2> DEFINE r == [published |-> TRUE, channel |-> as.channel, status |-> "published",
                   content |-> c, bytes |-> as.bytes]
             t == [kind |-> "publish", todo |-> PublishSteps(as.bytes), version |-> v,
                   plan |-> p, row |-> r]
  <2>2. c \in Contents
    BY <1>1
  <2>3. r \in Row
    BY <2>2 DEF Row
  <2>4. PublishSteps(as.bytes) \in {<<"store", "save">>, <<"save">>}
    BY DEF PublishSteps
  <2> HIDE DEF r
  <2>5. t \in PublishTasks
    BY <2>3, <2>4 DEF PublishTasks
  <2>6. t \in Tasks
    BY <2>5 DEF Tasks
  <2>7. Start(a, t)
    BY <2>1 DEF r
  <2> HIDE DEF t
  <2>8. task' \in [Admins -> Tasks]
    BY <2>6, <2>7, TaskTyped
  <2>9. QED
    BY <1>1, <2>8 DEF TypeOK, BeginPublish, registry
<1>2. CASE StoreBytes(a)
  <2>1. task[a] \in PublishTasks /\ task[a].row \in Row
    BY <1>2, PublishShape DEF StoreBytes
  <2>2. task' \in [Admins -> Tasks]
    BY <1>2, <2>1, AfterStepTyped DEF StoreBytes
  <2>3. stored' \subseteq Contents
    BY <1>2, <2>1 DEF StoreBytes, TypeOK, Row
  <2>4. QED
    BY <1>2, <2>2, <2>3 DEF TypeOK, StoreBytes
<1>3. CASE SaveRow(a)
  <2>1. task[a] \in PublishTasks /\ task[a].row \in Row
    BY <1>3, PublishShape DEF SaveRow
  <2>2. task' \in [Admins -> Tasks]
    BY <1>3, <2>1, AfterStepTyped DEF SaveRow
  <2>3. build' \in [Versions \X Plans -> Row \cup {NoRow}]
    BY <1>3, <2>1 DEF SaveRow, TypeOK, UniqueInsert
  <2>4. QED
    BY <1>3, <2>2, <2>3 DEF TypeOK, SaveRow
<1>4. QED
  BY <1>1, <1>2, <1>3 DEF Publishing

LEMMA StewardshipTyped ==
    ASSUME TypeOK, NEW a \in Admins, Stewardship(a)
    PROVE  TypeOK'
<1> USE RegistryAssumption
<1>1. ASSUME NEW v \in Versions, NEW ch \in PromoteTo, BeginPromote(a, v, ch)
      PROVE  TypeOK'
  <2> DEFINE rows == [p \in Plans |-> IF Published(v, p)
                        THEN [build[<<v, p>>] EXCEPT !.channel = ch] ELSE NoRow]
             t == [kind |-> "saveRows", version |-> v, rows |-> rows]
  <2>1. \A p \in Plans : Published(v, p) => [build[<<v, p>>] EXCEPT !.channel = ch] \in Row
    BY RowShape DEF Row
  <2>2. rows \in [Plans -> Row \cup {NoRow}]
    BY <2>1
  <2>3. Start(a, t)
    BY <1>1 DEF BeginPromote
  <2> HIDE DEF rows
  <2>4. t \in Tasks
    BY <2>2 DEF Tasks, CopyTasks
  <2> HIDE DEF t
  <2>5. task' \in [Admins -> Tasks]
    BY <2>3, <2>4, TaskTyped
  <2>6. QED
    BY <1>1, <2>5 DEF TypeOK, BeginPromote, registry
<1>2. ASSUME NEW v \in Versions, BeginRetire(a, v)
      PROVE  TypeOK'
  <2> DEFINE rows == [p \in Plans |-> IF Published(v, p)
                        THEN [build[<<v, p>>] EXCEPT !.status = "retired"] ELSE NoRow]
             t == [kind |-> "saveRows", version |-> v, rows |-> rows]
  <2>1. \A p \in Plans : Published(v, p) => [build[<<v, p>>] EXCEPT !.status = "retired"] \in Row
    BY RowShape DEF Row
  <2>2. rows \in [Plans -> Row \cup {NoRow}]
    BY <2>1
  <2>3. Start(a, t)
    BY <1>2 DEF BeginRetire
  <2> HIDE DEF rows
  <2>4. t \in Tasks
    BY <2>2 DEF Tasks, CopyTasks
  <2> HIDE DEF t
  <2>5. task' \in [Admins -> Tasks]
    BY <2>3, <2>4, TaskTyped
  <2>6. QED
    BY <1>2, <2>5 DEF TypeOK, BeginRetire, registry
<1>3. CASE SaveRows(a)
  <2>1. task[a] \in CopyTasks
    BY <1>3, TaskShape DEF SaveRows, TypeOK
  <2>2. task[a].rows \in [Plans -> Row \cup {NoRow}]
    BY <2>1 DEF CopyTasks
  <2>3. build' \in [Versions \X Plans -> Row \cup {NoRow}]
    BY <1>3, <2>2 DEF SaveRows, TypeOK
  <2>4. task' \in [Admins -> Tasks]
    <3>1. Idle \in Tasks
      BY DEF Tasks
    <3>2. QED
      BY <1>3, <3>1, TaskTyped DEF SaveRows
  <2>5. QED
    BY <1>3, <2>3, <2>4 DEF TypeOK, SaveRows
<1>4. QED
  BY <1>1, <1>2, <1>3 DEF Stewardship

\* What the steps that move a pointer hold.
LEMMA PointerShape ==
    ASSUME TypeOK, NEW a \in Admins
    PROVE  /\ task[a].kind \in {"checkRelease", "checkRollback", "readPointer"} =>
                /\ task[a] \in PointerTasks /\ task[a].scope \in Scopes
                /\ task[a].version \in Versions /\ task[a].rollback \in BOOLEAN
           /\ task[a].kind = "writePointer" =>
                /\ task[a].scope \in Scopes /\ task[a].version \in Versions
                /\ task[a].rollback \in BOOLEAN /\ task[a].from \in Maybe
           /\ task[a].kind = "record" => task[a].scope \in Scopes /\ task[a].from \in Maybe
           /\ task[a].kind = "saveCanary" =>
                /\ task[a] \in CanaryTasks /\ task[a].scope \in Scopes
                /\ task[a].row \in [version: Versions, percent: 0 .. 100]
<1>1. task[a] \in Tasks
  BY DEF TypeOK
<1>2. CASE task[a].kind \in {"checkRelease", "checkRollback", "readPointer"}
  <2>1. task[a] \in PointerTasks
    BY <1>1, <1>2, TaskShape
  <2>2. QED
    BY <1>2, <2>1 DEF PointerTasks
<1>3. CASE task[a].kind = "writePointer"
  <2>1. task[a] \in WriteTasks
    BY <1>1, <1>3, TaskShape
  <2>2. QED
    BY <1>3, <2>1 DEF WriteTasks
<1>4. CASE task[a].kind = "record"
  <2>1. task[a] \in RecordTasks
    BY <1>1, <1>4, TaskShape
  <2>2. QED
    BY <1>4, <2>1 DEF RecordTasks
<1>5. CASE task[a].kind = "saveCanary"
  <2>1. task[a] \in CanaryTasks
    BY <1>1, <1>5, TaskShape
  <2>2. QED
    BY <1>5, <2>1 DEF CanaryTasks
<1>6. QED
  BY <1>2, <1>3, <1>4, <1>5

LEMMA PointingTyped ==
    ASSUME TypeOK, NEW a \in Admins, Pointing(a)
    PROVE  TypeOK'
<1>0. Idle \in Tasks
  BY DEF Tasks
<1>1. ASSUME NEW s \in Scopes, NEW v \in Versions, BeginSetDefault(a, s, v)
      PROVE  TypeOK'
  <2> DEFINE t == [kind |-> "checkRelease", scope |-> s, version |-> v, rollback |-> FALSE]
  <2>1. t \in Tasks
    BY DEF Tasks, PointerTasks
  <2>2. Start(a, t)
    BY <1>1 DEF BeginSetDefault
  <2> HIDE DEF t
  <2>3. QED
    BY <1>1, <2>1, <2>2, TaskTyped DEF TypeOK, BeginSetDefault, registry
<1>2. ASSUME NEW s \in Scopes, BeginRollback(a, s)
      PROVE  TypeOK'
  <2> DEFINE t == [kind |-> "checkRollback", scope |-> s, version |-> previousDefault(s),
                   rollback |-> TRUE]
  <2>1. previousDefault(s) \in Versions
    BY <1>2 DEF BeginRollback, previousDefault, TypeOK, Maybe
  <2>2. t \in Tasks
    BY <2>1 DEF Tasks, PointerTasks
  <2>3. Start(a, t)
    BY <1>2 DEF BeginRollback
  <2> HIDE DEF t
  <2>4. QED
    BY <1>2, <2>2, <2>3, TaskTyped DEF TypeOK, BeginRollback, registry
<1>3. CASE CheckRelease(a) \/ CheckRollback(a)
  <2> DEFINE t == [task[a] EXCEPT !.kind = "readPointer"]
  <2>1. task[a] \in PointerTasks
    BY <1>3, PointerShape DEF CheckRelease, CheckRollback
  <2>2. t \in Tasks
    BY <2>1 DEF Tasks, PointerTasks
  <2>3. Continue(a, t)
    BY <1>3 DEF CheckRelease, CheckRollback
  <2> HIDE DEF t
  <2>4. QED
    BY <1>3, <2>2, <2>3, TaskTyped DEF TypeOK, CheckRelease, CheckRollback, registry
<1>4. CASE ReadPointer(a)
  <2> DEFINE t == [kind |-> "writePointer", scope |-> task[a].scope,
                   version |-> task[a].version, rollback |-> task[a].rollback,
                   from |-> default[task[a].scope]]
  <2>1. /\ task[a].scope \in Scopes /\ task[a].version \in Versions
        /\ task[a].rollback \in BOOLEAN
    BY <1>4, PointerShape DEF ReadPointer
  <2>2. default[task[a].scope] \in Maybe
    BY <2>1 DEF TypeOK
  <2>3. t \in Tasks
    BY <2>1, <2>2 DEF Tasks, WriteTasks
  <2>4. Continue(a, t)
    BY <1>4 DEF ReadPointer
  <2> HIDE DEF t
  <2>5. QED
    BY <1>4, <2>3, <2>4, TaskTyped DEF TypeOK, ReadPointer, registry
<1>5. CASE WritePointer(a)
  <2> DEFINE t == [kind |-> "record", scope |-> task[a].scope, from |-> task[a].from]
  <2>1. /\ task[a].scope \in Scopes /\ task[a].version \in Versions
        /\ task[a].from \in Maybe
    BY <1>5, PointerShape DEF WritePointer
  <2>2. t \in Tasks
    BY <2>1 DEF Tasks, RecordTasks
  <2>3. Done(a) \/ Continue(a, t)
    BY <1>5 DEF WritePointer
  <2> HIDE DEF t
  <2>4. task' \in [Admins -> Tasks]
    BY <1>0, <2>2, <2>3, TaskTyped
  <2>5. default' \in [Scopes -> Maybe]
    BY <1>5, <2>1 DEF WritePointer, TypeOK, Maybe
  <2>6. chosen' \in [Scopes -> SUBSET Versions]
    <3> DEFINE s == task[a].scope
               new == IF task[a].rollback THEN chosen[s] ELSE chosen[s] \cup {task[a].version}
    <3>1. chosen' = [chosen EXCEPT ![s] = new]
      BY <1>5 DEF WritePointer
    <3>2. new \in SUBSET Versions
      BY <2>1 DEF TypeOK
    <3> HIDE DEF new, s
    <3>3. QED
      BY <3>1, <3>2 DEF TypeOK
  <2>7. QED
    BY <1>5, <2>4, <2>5, <2>6 DEF TypeOK, WritePointer
<1>6. CASE Record(a)
  <2>1. task[a].scope \in Scopes /\ task[a].from \in Maybe
    BY <1>6, PointerShape DEF Record
  <2>2. task' \in [Admins -> Tasks]
    BY <1>0, <1>6, TaskTyped DEF Record
  <2>3. previous' \in [Scopes -> Maybe]
    BY <1>6, <2>1 DEF Record, TypeOK
  <2>4. QED
    BY <1>6, <2>2, <2>3 DEF TypeOK, Record
<1>7. QED
  BY <1>1, <1>2, <1>3, <1>4, <1>5, <1>6 DEF Pointing

LEMMA ReleasingTyped ==
    ASSUME TypeOK, NEW a \in Admins, Releasing(a)
    PROVE  TypeOK'
<1> USE RegistryAssumption
<1>1. ASSUME NEW s \in Scopes, NEW v \in Versions, NEW percent \in Percents,
             BeginCanary(a, s, v, percent)
      PROVE  TypeOK'
  <2> DEFINE t == [kind |-> "saveCanary", scope |-> s, current |-> canary[s] # NoCanary,
                   row |-> [version |-> v, percent |-> ClampPercent(percent)]]
  <2>1. ClampPercent(percent) \in 0 .. 100
    BY DEF ClampPercent
  <2>2. t \in Tasks
    BY <2>1 DEF Tasks, CanaryTasks
  <2>3. Start(a, t)
    BY <1>1 DEF BeginCanary
  <2> HIDE DEF t
  <2>4. QED
    BY <1>1, <2>2, <2>3, TaskTyped DEF TypeOK, BeginCanary, registry
<1>2. CASE SaveCanary(a)
  <2>1. task[a].scope \in Scopes /\ task[a].row \in [version: Versions, percent: 0 .. 100]
    BY <1>2, PointerShape DEF SaveCanary
  <2>2. Idle \in Tasks
    BY DEF Tasks
  <2>3. task' \in [Admins -> Tasks]
    BY <1>2, <2>2, TaskTyped DEF SaveCanary
  <2>4. task[a].row \in [version: Maybe, percent: 0 .. 100]
    BY <2>1 DEF Maybe
  <2>5. canary' \in [Scopes -> [version: Maybe, percent: 0 .. 100]]
    BY <1>2, <2>1, <2>4 DEF SaveCanary, TypeOK
  <2>6. QED
    BY <1>2, <2>3, <2>5 DEF TypeOK, SaveCanary
<1>3. QED
  BY <1>1, <1>2 DEF Releasing

\* What a session holds at each of its steps.
LEMMA HeldBySession ==
    ASSUME TypeOK, NEW k \in Sessions
    PROVE  /\ sess[k].kind = "plan" =>
                /\ sess[k].caller \in Callers
                /\ sess[k].channelDefault \in Maybe /\ sess[k].globalDefault \in Maybe
           /\ sess[k].kind = "canary" =>
                /\ sess[k].caller \in Callers /\ sess[k].plan \in Plans
                /\ sess[k].channelDefault \in Maybe /\ sess[k].globalDefault \in Maybe
           /\ sess[k].kind \in {"build", "done"} =>
                /\ sess[k] \in ChosenSessions /\ sess[k].plan \in Plans
                /\ sess[k].version \in Maybe /\ sess[k].source \in Sources
<1>1. sess[k] \in Opened
  BY DEF TypeOK
<1>2. CASE sess[k].kind = "plan"
  <2>1. sess[k] \in PlanSessions
    BY <1>1, <1>2, SessionShape
  <2>2. QED
    BY <1>2, <2>1 DEF PlanSessions
<1>3. CASE sess[k].kind = "canary"
  <2>1. sess[k] \in CanarySessions
    BY <1>1, <1>3, SessionShape
  <2>2. QED
    BY <1>3, <2>1 DEF CanarySessions
<1>4. CASE sess[k].kind \in {"build", "done"}
  <2>1. sess[k] \in ChosenSessions
    BY <1>1, <1>4, SessionShape
  <2>2. QED
    BY <1>4, <2>1 DEF ChosenSessions
<1>5. QED
  BY <1>2, <1>3, <1>4

\* A canary is offered only from the row of one of the scopes.
LEMMA CanaryOffered ==
    ASSUME TypeOK, NEW c \in Callers
    PROVE  /\ canaryFor(c) \in Maybe
           /\ canaryFor(c) # NoVersion => \E s \in Scopes : canary[s].version = canaryFor(c)
<1>1. \/ \E s \in Scopes : CanaryRow(c) = canary[s]
      \/ CanaryRow(c) = NoCanary
  BY DEF CanaryRow
<1>2. CASE \E s \in Scopes : CanaryRow(c) = canary[s]
  <2>1. PICK s \in Scopes : CanaryRow(c) = canary[s]
    BY <1>2
  <2>2. canary[s].version \in Maybe
    BY DEF TypeOK
  <2>3. canaryFor(c) \in {canary[s].version, NoVersion}
    BY <2>1 DEF canaryFor
  <2>4. QED
    BY <2>2, <2>3 DEF Maybe
<1>3. CASE CanaryRow(c) = NoCanary
  <2>1. canaryFor(c) = NoVersion
    BY <1>3 DEF canaryFor, NoCanary
  <2>2. QED
    BY <2>1 DEF Maybe
<1>4. QED
  BY <1>1, <1>2, <1>3

\* The chain a session resolves, and what its default steps hold.
LEMMA ChainShape ==
    ASSUME TypeOK, NEW k \in Sessions, sess[k].kind = "canary", NEW v \in Maybe
    PROVE  /\ ChainOf(sess[k], v) \in Chain
           /\ ChainOf(sess[k], v).canary = v
           /\ ChainOf(sess[k], v).channel = sess[k].channelDefault
           /\ ChainOf(sess[k], v).global = sess[k].globalDefault
<1>1. sess[k].caller \in Caller
  BY HeldBySession, RegistryAssumption
<1>2. /\ sess[k].caller.pin \in Maybe /\ sess[k].caller.asks \in Maybe
      /\ sess[k].caller.override \in Maybe
  BY <1>1 DEF Caller
<1>3. sess[k].channelDefault \in Maybe /\ sess[k].globalDefault \in Maybe
  BY HeldBySession
<1>4. OrElse(sess[k].caller.pin, sess[k].caller.asks) \in Maybe
  BY <1>2 DEF OrElse
<1>5. QED
  BY <1>2, <1>3, <1>4 DEF ChainOf, Chain

LEMMA SessionTyped ==
    ASSUME TypeOK, NEW k \in Sessions, Session(k)
    PROVE  TypeOK'
<1>1. SUFFICES ASSUME NEW t \in Opened, sess' = [sess EXCEPT ![k] = t],
                      UNCHANGED <<registry, task>>
               PROVE  TypeOK'
  <2>1. ASSUME NEW c \in Callers, OpenSession(k, c)
        PROVE  \E t \in Opened : sess' = [sess EXCEPT ![k] = t] /\ UNCHANGED <<registry, task>>
    <3> DEFINE t == [kind |-> "plan", caller |-> c,
                     channelDefault |-> PointerOf(channelScope["stable"]),
                     globalDefault |-> PointerOf(GLOBAL_SCOPE)]
    <3>1. /\ PointerOf(channelScope["stable"]) \in Maybe
          /\ PointerOf(GLOBAL_SCOPE) \in Maybe
      BY DEF PointerOf, TypeOK, Maybe
    <3>2. t \in Opened
      BY <3>1 DEF Opened, PlanSessions
    <3>3. sess' = [sess EXCEPT ![k] = t] /\ UNCHANGED <<registry, task>>
      BY <2>1 DEF OpenSession
    <3> HIDE DEF t
    <3>4. QED
      BY <3>2, <3>3
  <2>2. ASSUME DecidePlan(k)
        PROVE  \E t \in Opened : sess' = [sess EXCEPT ![k] = t] /\ UNCHANGED <<registry, task>>
    <3>0. PICK answered \in BOOLEAN :
             sess' = [sess EXCEPT ![k] =
                [kind |-> "canary", caller |-> sess[k].caller,
                 plan |-> PlanFor(sess[k], answered),
                 channelDefault |-> sess[k].channelDefault,
                 globalDefault |-> sess[k].globalDefault]]
      BY <2>2 DEF DecidePlan
    <3> DEFINE t == [kind |-> "canary", caller |-> sess[k].caller,
                     plan |-> PlanFor(sess[k], answered),
                     channelDefault |-> sess[k].channelDefault,
                     globalDefault |-> sess[k].globalDefault]
    <3>1. PlanFor(sess[k], answered) \in Plans
      BY DEF PlanFor, planForFeatures, Plans
    <3>2. /\ sess[k].caller \in Callers /\ sess[k].channelDefault \in Maybe
          /\ sess[k].globalDefault \in Maybe
      BY <2>2, HeldBySession DEF DecidePlan
    <3>3. t \in Opened
      BY <3>1, <3>2 DEF Opened, CanarySessions
    <3>4. sess' = [sess EXCEPT ![k] = t] /\ UNCHANGED <<registry, task>>
      BY <2>2, <3>0 DEF DecidePlan
    <3> HIDE DEF t
    <3>5. QED
      BY <3>3, <3>4
  <2>3. ASSUME ChooseVersion(k)
        PROVE  \E t \in Opened : sess' = [sess EXCEPT ![k] = t] /\ UNCHANGED <<registry, task>>
    <3>0. PICK offered \in {canaryFor(sess[k].caller), NoVersion} :
             LET d == resolveVersion(ChainOf(sess[k], offered))
             IN sess' = [sess EXCEPT ![k] =
                   [kind |-> IF d.version = NoVersion THEN "done" ELSE "build",
                    caller |-> sess[k].caller, plan |-> sess[k].plan, result |-> "none",
                    version |-> d.version, source |-> d.source]]
      BY <2>3 DEF ChooseVersion
    <3> DEFINE chain == ChainOf(sess[k], offered)
               d == resolveVersion(chain)
               t == [kind |-> IF d.version = NoVersion THEN "done" ELSE "build",
                     caller |-> sess[k].caller, plan |-> sess[k].plan, result |-> "none",
                     version |-> d.version, source |-> d.source]
    <3>1. sess[k].kind = "canary" /\ sess[k].caller \in Callers /\ sess[k].plan \in Plans
      BY <2>3, HeldBySession DEF ChooseVersion
    <3>2. chain \in Chain
      <4>1. offered \in Maybe
        BY <3>1, CanaryOffered DEF Maybe
      <4>2. QED
        BY <3>1, <4>1, ChainShape
    <3> HIDE DEF chain
    <3>3. d.version \in Maybe /\ d.source \in Sources
      BY <3>2, Resolution
    <3> HIDE DEF d
    <3>4. t \in Opened
      BY <3>1, <3>3 DEF Opened, ChosenSessions
    <3>5. sess' = [sess EXCEPT ![k] = t] /\ UNCHANGED <<registry, task>>
      BY <2>3, <3>0 DEF ChooseVersion, d, chain
    <3> HIDE DEF t
    <3>6. QED
      BY <3>4, <3>5
  <2>4. ASSUME Serve(k)
        PROVE  \E t \in Opened : sess' = [sess EXCEPT ![k] = t] /\ UNCHANGED <<registry, task>>
    <3>1. PICK r \in {"noBuild", "refused", "served"} :
             sess' = [sess EXCEPT ![k] = [sess[k] EXCEPT !.kind = "done", !.result = r]]
      BY <2>4 DEF Serve
    <3> DEFINE t == [sess[k] EXCEPT !.kind = "done", !.result = r]
    <3>2. sess[k] \in ChosenSessions
      BY <2>4, HeldBySession DEF Serve
    <3>3. t \in ChosenSessions
      BY <3>2 DEF ChosenSessions
    <3>4. t \in Opened
      BY <3>3 DEF Opened
    <3>5. sess' = [sess EXCEPT ![k] = t] /\ UNCHANGED <<registry, task>>
      BY <2>4, <3>1 DEF Serve
    <3> HIDE DEF t
    <3>6. QED
      BY <3>4, <3>5
  <2>5. QED
    BY <2>1, <2>2, <2>3, <2>4 DEF Session
<1>2. QED
  BY <1>1 DEF TypeOK, registry

\* A halt leaves every request as it was, but for a ramp's `current`.
LEMMA HaltedTasks ==
    ASSUME TypeOK, NEW s \in Scopes, HaltCanary(s), NEW a \in Admins
    PROVE  /\ task'[a] \in Tasks
           /\ \/ task'[a] = task[a]
              \/ /\ task[a].kind = "saveCanary" /\ task'[a].kind = "saveCanary"
                 /\ task'[a].row = task[a].row
<1>1. CASE Ramping(a, s)
  <2>1. task[a] \in CanaryTasks
    BY <1>1, PointerShape DEF Ramping
  <2>2. task'[a] = [task[a] EXCEPT !.current = FALSE]
    BY <1>1 DEF HaltCanary
  <2>3. task'[a] \in CanaryTasks
    BY <2>1, <2>2 DEF CanaryTasks
  <2>4. task'[a].row = task[a].row
    BY <2>1, <2>2 DEF CanaryTasks
  <2>5. QED
    BY <2>1, <2>3, <2>4 DEF Tasks, CanaryTasks
<1>2. CASE ~Ramping(a, s)
  <2>1. task'[a] = task[a]
    BY <1>2 DEF HaltCanary
  <2>2. QED
    BY <2>1 DEF TypeOK
<1>3. QED
  BY <1>1, <1>2

LEMMA TypeNext == TypeOK /\ [Next]_vars => TypeOK'
<1> SUFFICES ASSUME TypeOK, [Next]_vars PROVE TypeOK'
  OBVIOUS
<1>1. CASE LoseBytes
  BY <1>1 DEF LoseBytes, TypeOK
<1>2. ASSUME NEW v \in Versions, NEW p \in Plans, RestoreBytes(v, p)
      PROVE  TypeOK'
  <2>1. build[<<v, p>>].content \in Contents
    BY <1>2, RowShape DEF RestoreBytes, Row
  <2>2. QED
    BY <1>2, <2>1 DEF RestoreBytes, TypeOK
<1>3. ASSUME NEW s \in Scopes, HaltCanary(s)
      PROVE  TypeOK'
  <2>1. NoCanary \in [version: Maybe, percent: 0 .. 100]
    BY DEF NoCanary, Maybe
  <2>2. task' \in [Admins -> Tasks]
    BY <1>3, HaltedTasks DEF HaltCanary, TypeOK
  <2>3. QED
    BY <1>3, <2>1, <2>2 DEF HaltCanary, TypeOK
<1>4. ASSUME NEW a \in Admins, Abandon(a)
      PROVE  TypeOK'
  <2>1. Idle \in Tasks
    BY DEF Tasks
  <2>2. QED
    BY <1>4, <2>1, TaskTyped DEF Abandon, TypeOK, registry
<1>5. CASE UNCHANGED vars
  BY <1>5 DEF TypeOK, vars, registry
<1>6. QED
  BY <1>1, <1>2, <1>3, <1>4, <1>5, PublishingTyped, StewardshipTyped, PointingTyped,
     ReleasingTyped, SessionTyped DEF Next

\* Rows, pointers and held requests keep their types whatever administrators
\* and sessions do (every handler of engine-version.service.ts).
THEOREM TypeCorrect == Spec => []TypeOK
  BY TypeInit, TypeNext, PTL DEF Spec

-----------------------------------------------------------------------------
(* What is published stays.  The one write that could undo it is a whole    *)
(* stale copy saved by promote or retire; the copy was taken from rows that *)
(* have kept their bundle since.                                            *)

CopiesAgree ==
    \A a \in Admins, p \in Plans :
        (task[a].kind = "saveRows" /\ task[a].rows[p].published)
        => LET row == build[<<task[a].version, p>>]
           IN  /\ row.published
               /\ row.content = task[a].rows[p].content
               /\ row.bytes = task[a].rows[p].bytes

\* A publish that has only its row left to write has stored its bytes.
BytesFirst ==
    \A a \in Admins :
        (task[a].kind = "publish" /\ task[a].todo = <<"save">> /\ task[a].row.bytes)
        => task[a].row.content \in stored \cup lost

RowsIInv == TypeOK /\ CopiesAgree /\ BytesFirst /\ BytesBehindRow

\* Every published row keeps its bundle in this step, and no bundle is forgotten.
Kept ==
    /\ \A v \in Versions, p \in Plans :
          build[<<v, p>>].published =>
              /\ build'[<<v, p>>].published
              /\ build'[<<v, p>>].content = build[<<v, p>>].content
              /\ build'[<<v, p>>].bytes = build[<<v, p>>].bytes
    /\ stored \cup lost \subseteq stored' \cup lost'

\* What a step leaves in the request slot of another administrator.
LEMMA OthersWait ==
    ASSUME TypeOK, NEW a \in Admins, NEW b \in Admins, a # b, NEW t,
           Start(a, t) \/ Continue(a, t) \/ Done(a)
    PROVE  task'[b] = task[b]
  BY DEF TypeOK, Start, Continue, Done

LEMMA Holds ==
    ASSUME TypeOK, NEW a \in Admins, NEW t
    PROVE  /\ Start(a, t) => task'[a] = t
           /\ Continue(a, t) => task'[a] = t
           /\ Done(a) => task'[a] = Idle
  BY DEF TypeOK, Start, Continue, Done

LEMMA AfterStepHolds ==
    ASSUME TypeOK, NEW a \in Admins, task[a] \in PublishTasks, AfterStep(a)
    PROVE  /\ \A b \in Admins : a # b => task'[b] = task[b]
           /\ \/ task'[a] = Idle
              \/ /\ task[a].todo = <<"store", "save">>
                 /\ task'[a] = [task[a] EXCEPT !.todo = <<"save">>]
<1>1. CASE Tail(task[a].todo) = <<>>
  BY <1>1, Holds, OthersWait DEF AfterStep
<1>2. CASE Tail(task[a].todo) # <<>>
  <2>1. Tail(<<"save">>) = <<>>
    OBVIOUS
  <2>2. task[a].todo \in {<<"store", "save">>, <<"save">>}
    BY DEF PublishTasks
  <2>3. task[a].todo = <<"store", "save">>
    BY <1>2, <2>1, <2>2
  <2>4. Tail(task[a].todo) = <<"save">>
    BY <2>3
  <2> DEFINE t == [task[a] EXCEPT !.todo = Tail(@)]
  <2>5. t = [task[a] EXCEPT !.todo = <<"save">>]
    BY <2>4
  <2>6. Continue(a, t)
    BY <1>2 DEF AfterStep
  <2> HIDE DEF t
  <2>7. task'[a] = t /\ \A b \in Admins : a # b => task'[b] = task[b]
    BY <2>6, Holds, OthersWait
  <2>8. QED
    BY <2>3, <2>5, <2>7
<1>3. QED
  BY <1>1, <1>2

LEMMA RowsInit == Init => RowsIInv
<1> SUFFICES ASSUME Init PROVE RowsIInv
  OBVIOUS
<1>1. TypeOK
  BY TypeInit
<1>2. CopiesAgree /\ BytesFirst
  BY DEF Init, CopiesAgree, BytesFirst, Idle
<1>3. BytesBehindRow
  <2> USE RegistryAssumption
  <2> SUFFICES ASSUME NEW k \in Versions \X Plans, build[k].published, build[k].bytes
               PROVE  build[k].content \in stored
    BY DEF BytesBehindRow
  <2>1. k[1] = ShippedVersion
    BY DEF Init, NoRow
  <2>2. QED
    BY <2>1 DEF Init
<1>4. QED
  BY <1>1, <1>2, <1>3 DEF RowsIInv

\* A step that leaves rows and bytes alone, and puts nothing but t into a
\* request slot, preserves the invariant if t does.
LEMMA RowsUntouched ==
    ASSUME RowsIInv, TypeOK', NEW a \in Admins, NEW t,
           Start(a, t) \/ Continue(a, t) \/ Done(a),
           Done(a) \/ t.kind \notin {"saveRows", "publish"},
           UNCHANGED <<build, stored, lost>>
    PROVE  RowsIInv' /\ Kept
<1>1. task'[a] = t \/ task'[a] = Idle
  BY Holds DEF RowsIInv
<1>2. task'[a].kind \notin {"saveRows", "publish"}
  <2>1. CASE Done(a)
    BY <2>1, Holds DEF RowsIInv, Idle
  <2>2. CASE ~Done(a)
    BY <2>2, Holds DEF RowsIInv
  <2>3. QED
    BY <2>1, <2>2
<1>3. \A b \in Admins : b # a => task'[b] = task[b]
  BY OthersWait DEF RowsIInv
<1>4. CopiesAgree'
  BY <1>2, <1>3 DEF RowsIInv, CopiesAgree
<1>5. BytesFirst'
  BY <1>2, <1>3 DEF RowsIInv, BytesFirst
<1>6. BytesBehindRow'
  BY DEF RowsIInv, BytesBehindRow
<1>7. Kept
  BY DEF Kept
<1>8. QED
  BY <1>4, <1>5, <1>6, <1>7 DEF RowsIInv

LEMMA RowsPublishing ==
    ASSUME RowsIInv, TypeOK', NEW a \in Admins, Publishing(a)
    PROVE  RowsIInv' /\ Kept
<1>0. TypeOK
  BY DEF RowsIInv
<1>1. ASSUME NEW v \in Versions, NEW p \in Plans, NEW c \in Offered[<<v, p>>],
             BeginPublish(a, v, p, c)
      PROVE  RowsIInv' /\ Kept
  <2>1. PICK as \in PublishAs :
          Start(a, [kind |-> "publish", todo |-> PublishSteps(as.bytes), version |-> v, plan |-> p,
                    row |-> [published |-> TRUE, channel |-> as.channel, status |-> "published",
                             content |-> c, bytes |-> as.bytes]])
    BY <1>1 DEF BeginPublish
  <2> DEFINE t == [kind |-> "publish", todo |-> PublishSteps(as.bytes), version |-> v,
                   plan |-> p,
                   row |-> [published |-> TRUE, channel |-> as.channel, status |-> "published",
                            content |-> c, bytes |-> as.bytes]]
  <2>2. t.kind = "publish" /\ ~(t.todo = <<"save">> /\ t.row.bytes)
    <3>1. <<"store", "save">> # <<"save">>
      OBVIOUS
    <3>2. QED
      BY <3>1 DEF PublishSteps
  <2> HIDE DEF t
  <2>3. task'[a] = t /\ \A b \in Admins : b # a => task'[b] = task[b]
    BY <1>0, <2>1, Holds, OthersWait DEF t
  <2>4. UNCHANGED <<build, stored, lost>>
    BY <1>1 DEF BeginPublish, registry
  <2>5. CopiesAgree'
    BY <2>2, <2>3, <2>4 DEF RowsIInv, CopiesAgree
  <2>6. BytesFirst'
    BY <2>2, <2>3, <2>4 DEF RowsIInv, BytesFirst
  <2>7. BytesBehindRow'
    BY <2>4 DEF RowsIInv, BytesBehindRow
  <2>8. QED
    BY <2>4, <2>5, <2>6, <2>7 DEF RowsIInv, Kept
<1>2. CASE StoreBytes(a)
  <2>1. task[a] \in PublishTasks
    BY <1>0, <1>2, PublishShape DEF StoreBytes
  <2>2. /\ \A b \in Admins : a # b => task'[b] = task[b]
        /\ \/ task'[a] = Idle
           \/ task'[a] = [task[a] EXCEPT !.todo = <<"save">>]
    BY <1>0, <1>2, <2>1, AfterStepHolds DEF StoreBytes
  <2>3. stored' = stored \cup {task[a].row.content} /\ UNCHANGED <<build, lost>>
    BY <1>2 DEF StoreBytes
  <2>4. \/ task'[a].kind = "idle"
        \/ task'[a].kind = "publish" /\ task'[a].row = task[a].row
    BY <2>1, <2>2 DEF Idle, PublishTasks
  <2>5. CopiesAgree'
    BY <2>2, <2>3, <2>4 DEF RowsIInv, CopiesAgree
  <2>6. BytesFirst'
    <3> SUFFICES ASSUME NEW b \in Admins, task'[b].kind = "publish",
                        task'[b].todo = <<"save">>, task'[b].row.bytes
                 PROVE  task'[b].row.content \in stored' \cup lost'
      BY DEF BytesFirst
    <3>1. CASE b = a
      BY <2>3, <2>4, <3>1
    <3>2. CASE b # a
      BY <2>2, <2>3, <3>2 DEF RowsIInv, BytesFirst
    <3>3. QED
      BY <3>1, <3>2
  <2>7. BytesBehindRow'
    BY <2>3 DEF RowsIInv, BytesBehindRow
  <2>8. Kept
    BY <2>3 DEF Kept
  <2>9. QED
    BY <2>5, <2>6, <2>7, <2>8 DEF RowsIInv
<1>3. CASE SaveRow(a)
  <2> DEFINE v == task[a].version
             p == task[a].plan
             row == task[a].row
  <2>1. /\ task[a] \in PublishTasks /\ v \in Versions /\ p \in Plans /\ row \in Row
        /\ task[a].todo = <<"store", "save">> \/ task[a].todo = <<"save">>
    BY <1>0, <1>3, PublishShape DEF SaveRow
  <2>2. task[a].todo = <<"save">>
    <3>1. Head(<<"store", "save">>) = "store"
      OBVIOUS
    <3>2. QED
      BY <1>3, <2>1, <3>1 DEF SaveRow, PublishStep
  <2>3. task'[a] = Idle /\ \A b \in Admins : a # b => task'[b] = task[b]
    <3>1. <<"store", "save">> # <<"save">>
      OBVIOUS
    <3>2. QED
      BY <1>0, <1>3, <2>1, <2>2, <3>1, AfterStepHolds DEF SaveRow
  <2>4. UNCHANGED <<stored, lost>>
    BY <1>3 DEF SaveRow
  <2>5. build' = [build EXCEPT ![<<v, p>>] = UniqueInsert(build[<<v, p>>], row)]
    BY <1>3 DEF SaveRow
  <2>6. /\ \A k \in Versions \X Plans : build[k].published => build'[k] = build[k]
        /\ \A k \in Versions \X Plans :
              build'[k] = build[k] \/ build'[k] = row
    BY <1>0, <2>1, <2>5 DEF UniqueInsert, TypeOK
  <2>7. row.bytes => row.content \in stored \cup lost
    BY <2>1, <2>2 DEF RowsIInv, BytesFirst, PublishTasks
  <2> HIDE DEF v, p, row
  <2>8. CopiesAgree'
    <3> SUFFICES ASSUME NEW b \in Admins, NEW q \in Plans, task'[b].kind = "saveRows",
                        task'[b].rows[q].published
                 PROVE  LET r == build'[<<task'[b].version, q>>]
                        IN  /\ r.published
                            /\ r.content = task'[b].rows[q].content
                            /\ r.bytes = task'[b].rows[q].bytes
      BY DEF CopiesAgree
    <3>1. b # a
      BY <2>3 DEF Idle
    <3>2. task'[b] = task[b]
      BY <2>3, <3>1
    <3>3. task[b].version \in Versions
      BY <1>0, <3>2, TaskShape DEF TypeOK, CopyTasks
    <3>4. build[<<task[b].version, q>>].published
      BY <3>2 DEF RowsIInv, CopiesAgree
    <3>5. build'[<<task[b].version, q>>] = build[<<task[b].version, q>>]
      BY <2>6, <3>3, <3>4
    <3>6. QED
      BY <3>2, <3>5 DEF RowsIInv, CopiesAgree
  <2>9. BytesFirst'
    BY <2>3, <2>4 DEF RowsIInv, BytesFirst, Idle
  <2>10. BytesBehindRow'
    BY <2>4, <2>6, <2>7 DEF RowsIInv, BytesBehindRow
  <2>11. Kept
    BY <2>4, <2>6 DEF Kept
  <2>12. QED
    BY <2>8, <2>9, <2>10, <2>11 DEF RowsIInv
<1>4. QED
  BY <1>1, <1>2, <1>3 DEF Publishing

\* The copy promote and retire take agrees with the rows it was taken from.
LEMMA CopyTaken ==
    ASSUME RowsIInv, TypeOK', NEW a \in Admins, NEW v \in Versions, NEW rows,
           Start(a, [kind |-> "saveRows", version |-> v, rows |-> rows]),
           \A p \in Plans : rows[p].published =>
               /\ build[<<v, p>>].published
               /\ rows[p].content = build[<<v, p>>].content
               /\ rows[p].bytes = build[<<v, p>>].bytes,
           UNCHANGED <<build, stored, lost>>
    PROVE  RowsIInv' /\ Kept
<1> DEFINE t == [kind |-> "saveRows", version |-> v, rows |-> rows]
<1>1. t.kind = "saveRows" /\ t.version = v /\ t.rows = rows
  OBVIOUS
<1> HIDE DEF t
<1>2. task'[a] = t /\ \A b \in Admins : b # a => task'[b] = task[b]
  BY Holds, OthersWait DEF RowsIInv, t
<1>3. CopiesAgree'
  BY <1>1, <1>2 DEF RowsIInv, CopiesAgree
<1>4. BytesFirst'
  BY <1>1, <1>2 DEF RowsIInv, BytesFirst
<1>5. BytesBehindRow'
  BY DEF RowsIInv, BytesBehindRow
<1>6. QED
  BY <1>3, <1>4, <1>5 DEF RowsIInv, Kept

LEMMA RowsStewardship ==
    ASSUME RowsIInv, TypeOK', NEW a \in Admins, Stewardship(a)
    PROVE  RowsIInv' /\ Kept
<1>0. TypeOK
  BY DEF RowsIInv
<1>1. ASSUME NEW v \in Versions, NEW ch \in PromoteTo, BeginPromote(a, v, ch)
      PROVE  RowsIInv' /\ Kept
  <2> DEFINE rows == [p \in Plans |-> IF Published(v, p)
                        THEN [build[<<v, p>>] EXCEPT !.channel = ch] ELSE NoRow]
  <2>1. \A p \in Plans : rows[p].published =>
            /\ build[<<v, p>>].published
            /\ rows[p].content = build[<<v, p>>].content
            /\ rows[p].bytes = build[<<v, p>>].bytes
    BY <1>0, RowShape DEF Published, Row, NoRow
  <2>2. /\ Start(a, [kind |-> "saveRows", version |-> v, rows |-> rows])
        /\ UNCHANGED <<build, stored, lost>>
    BY <1>1 DEF BeginPromote, registry
  <2> HIDE DEF rows
  <2>3. QED
    BY <2>1, <2>2, CopyTaken
<1>2. ASSUME NEW v \in Versions, BeginRetire(a, v)
      PROVE  RowsIInv' /\ Kept
  <2> DEFINE rows == [p \in Plans |-> IF Published(v, p)
                        THEN [build[<<v, p>>] EXCEPT !.status = "retired"] ELSE NoRow]
  <2>1. \A p \in Plans : rows[p].published =>
            /\ build[<<v, p>>].published
            /\ rows[p].content = build[<<v, p>>].content
            /\ rows[p].bytes = build[<<v, p>>].bytes
    BY <1>0, RowShape DEF Published, Row, NoRow
  <2>2. /\ Start(a, [kind |-> "saveRows", version |-> v, rows |-> rows])
        /\ UNCHANGED <<build, stored, lost>>
    BY <1>2 DEF BeginRetire, registry
  <2> HIDE DEF rows
  <2>3. QED
    BY <2>1, <2>2, CopyTaken
<1>3. CASE SaveRows(a)
  <2>1. task[a] \in CopyTasks /\ task[a].version \in Versions /\ task[a].kind = "saveRows"
    BY <1>0, <1>3, TaskShape DEF SaveRows, TypeOK, CopyTasks
  <2>2. task'[a] = Idle /\ \A b \in Admins : a # b => task'[b] = task[b]
    BY <1>0, <1>3, Holds, OthersWait DEF SaveRows
  <2>3. UNCHANGED <<stored, lost>>
    BY <1>3 DEF SaveRows
  <2>4. \A u \in Versions, p \in Plans :
            \/ build'[<<u, p>>] = build[<<u, p>>]
            \/ /\ u = task[a].version /\ task[a].rows[p].published
               /\ build'[<<u, p>>] = task[a].rows[p]
    BY <1>3 DEF SaveRows
  <2>5. \A u \in Versions, p \in Plans :
            \/ build'[<<u, p>>] = build[<<u, p>>]
            \/ /\ build[<<u, p>>].published /\ build'[<<u, p>>].published
               /\ build'[<<u, p>>].content = build[<<u, p>>].content
               /\ build'[<<u, p>>].bytes = build[<<u, p>>].bytes
    <3> SUFFICES ASSUME NEW u \in Versions, NEW p \in Plans,
                        build'[<<u, p>>] # build[<<u, p>>]
                 PROVE  /\ build[<<u, p>>].published /\ build'[<<u, p>>].published
                        /\ build'[<<u, p>>].content = build[<<u, p>>].content
                        /\ build'[<<u, p>>].bytes = build[<<u, p>>].bytes
      OBVIOUS
    <3>1. /\ u = task[a].version /\ task[a].rows[p].published
          /\ build'[<<u, p>>] = task[a].rows[p]
      BY <2>4
    <3>2. LET row == build[<<task[a].version, p>>]
          IN  /\ row.published
              /\ row.content = task[a].rows[p].content
              /\ row.bytes = task[a].rows[p].bytes
      BY <2>1, <3>1 DEF RowsIInv, CopiesAgree
    <3>3. QED
      BY <3>1, <3>2
  <2>6. Kept
    BY <2>3, <2>5 DEF Kept
  <2>7. CopiesAgree'
    <3> SUFFICES ASSUME NEW b \in Admins, NEW q \in Plans, task'[b].kind = "saveRows",
                        task'[b].rows[q].published
                 PROVE  LET r == build'[<<task'[b].version, q>>]
                        IN  /\ r.published
                            /\ r.content = task'[b].rows[q].content
                            /\ r.bytes = task'[b].rows[q].bytes
      BY DEF CopiesAgree
    <3>1. b # a
      BY <2>2 DEF Idle
    <3>2. task'[b] = task[b]
      BY <2>2, <3>1
    <3>3. task[b].version \in Versions
      BY <1>0, <3>2, TaskShape DEF TypeOK, CopyTasks
    <3>4. LET r == build[<<task[b].version, q>>]
          IN  /\ r.published
              /\ r.content = task[b].rows[q].content
              /\ r.bytes = task[b].rows[q].bytes
      BY <3>2 DEF RowsIInv, CopiesAgree
    <3>5. QED
      BY <2>5, <3>2, <3>3, <3>4
  <2>8. BytesFirst'
    BY <2>2, <2>3 DEF RowsIInv, BytesFirst, Idle
  <2>9. BytesBehindRow'
    <3> SUFFICES ASSUME NEW u \in Versions, NEW p \in Plans,
                        build'[<<u, p>>].published, build'[<<u, p>>].bytes
                 PROVE  build'[<<u, p>>].content \in stored' \cup lost'
      BY DEF BytesBehindRow
    <3>1. /\ build[<<u, p>>].published /\ build[<<u, p>>].bytes
          /\ build'[<<u, p>>].content = build[<<u, p>>].content
      BY <2>5
    <3>2. QED
      BY <2>3, <3>1 DEF RowsIInv, BytesBehindRow
  <2>10. QED
    BY <2>6, <2>7, <2>8, <2>9 DEF RowsIInv
<1>4. QED
  BY <1>1, <1>2, <1>3 DEF Stewardship

LEMMA RowsPointing ==
    ASSUME RowsIInv, TypeOK', NEW a \in Admins, Pointing(a)
    PROVE  RowsIInv' /\ Kept
<1>0. TypeOK
  BY DEF RowsIInv
<1>1. ASSUME NEW s \in Scopes, NEW v \in Versions, BeginSetDefault(a, s, v)
      PROVE  RowsIInv' /\ Kept
  <2> DEFINE t == [kind |-> "checkRelease", scope |-> s, version |-> v, rollback |-> FALSE]
  <2>1. Start(a, t) /\ t.kind = "checkRelease" /\ UNCHANGED <<build, stored, lost>>
    BY <1>1 DEF BeginSetDefault, registry
  <2> HIDE DEF t
  <2>2. QED
    BY <2>1, RowsUntouched
<1>2. ASSUME NEW s \in Scopes, BeginRollback(a, s)
      PROVE  RowsIInv' /\ Kept
  <2> DEFINE t == [kind |-> "checkRollback", scope |-> s, version |-> previousDefault(s),
                   rollback |-> TRUE]
  <2>1. Start(a, t) /\ t.kind = "checkRollback" /\ UNCHANGED <<build, stored, lost>>
    BY <1>2 DEF BeginRollback, registry
  <2> HIDE DEF t
  <2>2. QED
    BY <2>1, RowsUntouched
<1>3. CASE CheckRelease(a) \/ CheckRollback(a)
  <2> DEFINE t == [task[a] EXCEPT !.kind = "readPointer"]
  <2>1. task[a] \in PointerTasks
    BY <1>0, <1>3, PointerShape DEF CheckRelease, CheckRollback
  <2>2. Continue(a, t) /\ t.kind = "readPointer" /\ UNCHANGED <<build, stored, lost>>
    BY <1>3, <2>1 DEF CheckRelease, CheckRollback, registry, PointerTasks
  <2> HIDE DEF t
  <2>3. QED
    BY <2>2, RowsUntouched
<1>4. CASE ReadPointer(a)
  <2> DEFINE t == [kind |-> "writePointer", scope |-> task[a].scope,
                   version |-> task[a].version, rollback |-> task[a].rollback,
                   from |-> default[task[a].scope]]
  <2>1. Continue(a, t) /\ t.kind = "writePointer" /\ UNCHANGED <<build, stored, lost>>
    BY <1>4 DEF ReadPointer, registry
  <2> HIDE DEF t
  <2>2. QED
    BY <2>1, RowsUntouched
<1>5. CASE WritePointer(a)
  <2> DEFINE t == [kind |-> "record", scope |-> task[a].scope, from |-> task[a].from]
  <2>1. /\ Done(a) \/ Continue(a, t)
        /\ t.kind = "record"
        /\ UNCHANGED <<build, stored, lost>>
    BY <1>5 DEF WritePointer
  <2> HIDE DEF t
  <2>2. QED
    BY <2>1, RowsUntouched
<1>6. CASE Record(a)
  BY <1>6, RowsUntouched DEF Record
<1>7. QED
  BY <1>1, <1>2, <1>3, <1>4, <1>5, <1>6 DEF Pointing

LEMMA RowsReleasing ==
    ASSUME RowsIInv, TypeOK', NEW a \in Admins, Releasing(a)
    PROVE  RowsIInv' /\ Kept
<1>1. ASSUME NEW s \in Scopes, NEW v \in Versions, NEW percent \in Percents,
             BeginCanary(a, s, v, percent)
      PROVE  RowsIInv' /\ Kept
  <2> DEFINE t == [kind |-> "saveCanary", scope |-> s, current |-> canary[s] # NoCanary,
                   row |-> [version |-> v, percent |-> ClampPercent(percent)]]
  <2>1. Start(a, t) /\ t.kind = "saveCanary" /\ UNCHANGED <<build, stored, lost>>
    BY <1>1 DEF BeginCanary, registry
  <2> HIDE DEF t
  <2>2. QED
    BY <2>1, RowsUntouched
<1>2. CASE SaveCanary(a)
  BY <1>2, RowsUntouched DEF SaveCanary
<1>3. QED
  BY <1>1, <1>2 DEF Releasing

LEMMA RowsNext == RowsIInv /\ [Next]_vars => RowsIInv' /\ Kept
<1> SUFFICES ASSUME RowsIInv, [Next]_vars PROVE RowsIInv' /\ Kept
  OBVIOUS
<1>0. TypeOK /\ TypeOK'
  BY TypeNext DEF RowsIInv
<1>1. ASSUME UNCHANGED <<build, task>>, stored \cup lost \subseteq stored' \cup lost'
      PROVE  RowsIInv' /\ Kept
  BY <1>0, <1>1 DEF RowsIInv, CopiesAgree, BytesFirst, BytesBehindRow, Kept
<1>2. CASE LoseBytes
  BY <1>1, <1>2 DEF LoseBytes
<1>3. ASSUME NEW v \in Versions, NEW p \in Plans, RestoreBytes(v, p)
      PROVE  RowsIInv' /\ Kept
  BY <1>1, <1>3 DEF RestoreBytes
<1>4. ASSUME NEW s \in Scopes, HaltCanary(s)
      PROVE  RowsIInv' /\ Kept
  <2>1. UNCHANGED <<build, stored, lost>>
    BY <1>4 DEF HaltCanary
  <2>2. \A b \in Admins : task'[b] = task[b] \/ task'[b].kind = "saveCanary"
    BY <1>0, <1>4, HaltedTasks
  <2>3. CopiesAgree'
    BY <2>1, <2>2 DEF RowsIInv, CopiesAgree
  <2>4. BytesFirst'
    BY <2>1, <2>2 DEF RowsIInv, BytesFirst
  <2>5. QED
    BY <1>0, <2>1, <2>3, <2>4 DEF RowsIInv, BytesBehindRow, Kept
<1>5. ASSUME NEW a \in Admins, Abandon(a)
      PROVE  RowsIInv' /\ Kept
  BY <1>0, <1>5, RowsUntouched DEF Abandon, registry
<1>6. ASSUME NEW k \in Sessions, Session(k)
      PROVE  RowsIInv' /\ Kept
  BY <1>1, <1>6 DEF Session, OpenSession, DecidePlan, ChooseVersion, Serve, registry
<1>7. CASE UNCHANGED vars
  BY <1>1, <1>7 DEF vars, registry
<1>8. QED
  BY <1>0, <1>2, <1>3, <1>4, <1>5, <1>6, <1>7, RowsPublishing, RowsStewardship,
     RowsPointing, RowsReleasing DEF Next

LEMMA RowsInductive == Spec => []RowsIInv
  BY RowsInit, RowsNext, PTL DEF Spec

\* publishBuild stores the bytes before the row and never twice the same row,
\* so a row that promised bytes has them, or a redeploy took them away.
THEOREM RowsHaveBytes == Spec => []BytesBehindRow
<1>1. RowsIInv => BytesBehindRow
  BY DEF RowsIInv
<1>2. QED
  BY <1>1, RowsInductive, PTL

\* A published (version, plan) keeps its bundle for good: publishBuild's check,
\* the unique index behind it and the stale copies of promote and retire
\* together never replace one.
THEOREM NeverReplaced == Spec => PublishedNeverChanges
<1>1. Kept => \A k \in Versions \X Plans :
          build[k].published => build'[k].published /\ build'[k].content = build[k].content
  BY DEF Kept
<1>2. RowsIInv /\ [Next]_vars =>
          [\A k \in Versions \X Plans :
              build[k].published => build'[k].published /\ build'[k].content = build[k].content]_vars
  BY <1>1, RowsNext
<1>3. QED
  BY <1>2, RowsInductive, PTL DEF Spec, PublishedNeverChanges

-----------------------------------------------------------------------------
(* Whatever was chosen for a caller has both builds.  A version is checked  *)
(* for completeness once, when an administrator names it; the invariant     *)
(* follows it from there through the request that carries it, the pointer   *)
(* or release it is written to, the session that read the pointer, and the  *)
(* choice that session makes.  It stays true because rows are Kept.         *)

Full(v) == \A p \in Plans : build[<<v, p>>].published

\* What a request holds once completeness was checked.
CarriesFull == {"checkRelease", "readPointer", "writePointer"}
USE DEF CarriesFull

DefaultsFull == \A s \in Scopes : default[s] # NoVersion => Full(default[s])
CanariesFull == \A s \in Scopes : canary[s].version # NoVersion => Full(canary[s].version)
TasksFull ==
    \A a \in Admins :
        /\ task[a].kind \in CarriesFull => Full(task[a].version)
        /\ task[a].kind = "saveCanary" => Full(task[a].row.version)
SessionFull(k) ==
    /\ sess[k].kind \in {"plan", "canary"} =>
          /\ sess[k].channelDefault # NoVersion => Full(sess[k].channelDefault)
          /\ sess[k].globalDefault # NoVersion => Full(sess[k].globalDefault)
    /\ (sess[k].kind = "build" /\ ByDefault(k)) =>
          sess[k].version \in Versions /\ Full(sess[k].version)
    /\ (sess[k].kind = "done" /\ ByDefault(k)) => sess[k].result # "noBuild"
SessionsFull == \A k \in Sessions : SessionFull(k)

MatrixIInv == RowsIInv /\ DefaultsFull /\ CanariesFull /\ TasksFull /\ SessionsFull

LEMMA CompleteIsFull == ASSUME NEW v, isComplete(v) PROVE Full(v)
  BY DEF isComplete, Full, Published, REQUIRED_PLANS, Plans

LEMMA MatrixInit == Init => MatrixIInv
<1> SUFFICES ASSUME Init PROVE MatrixIInv
  OBVIOUS
<1> USE RegistryAssumption
<1>1. Full(ShippedVersion)
  BY DEF Full, Init
<1>2. DefaultsFull /\ CanariesFull
  BY <1>1 DEF Init, DefaultsFull, CanariesFull, NoCanary
<1>3. TasksFull
  BY DEF Init, TasksFull, Idle
<1>4. SessionsFull
  BY DEF Init, SessionsFull, SessionFull, Idle
<1>5. QED
  BY <1>2, <1>3, <1>4, RowsInit DEF MatrixIInv

\* The parts no step of this kind writes survive it.
LEMMA DefaultsKept ==
    ASSUME TypeOK, DefaultsFull, Kept, UNCHANGED default PROVE DefaultsFull'
<1> SUFFICES ASSUME NEW s \in Scopes, default[s] # NoVersion
             PROVE  \A p \in Plans : build'[<<default[s], p>>].published
  BY DEF DefaultsFull, Full
<1>1. default[s] \in Versions
  BY DEF TypeOK, Maybe
<1>2. QED
  BY <1>1 DEF DefaultsFull, Full, Kept

LEMMA CanariesKept ==
    ASSUME TypeOK, CanariesFull, Kept, UNCHANGED canary PROVE CanariesFull'
<1> SUFFICES ASSUME NEW s \in Scopes, canary[s].version # NoVersion
             PROVE  \A p \in Plans : build'[<<canary[s].version, p>>].published
  BY DEF CanariesFull, Full
<1>1. canary[s].version \in Versions
  BY DEF TypeOK, Maybe
<1>2. QED
  BY <1>1 DEF CanariesFull, Full, Kept

LEMMA TaskFullKept ==
    ASSUME TypeOK, TasksFull, Kept, NEW b \in Admins, task'[b] = task[b]
    PROVE  /\ task'[b].kind \in CarriesFull => Full(task[b].version)'
           /\ task'[b].kind = "saveCanary" => Full(task[b].row.version)'
<1>1. ASSUME task[b].kind \in CarriesFull
      PROVE  \A p \in Plans : build'[<<task[b].version, p>>].published
  <2>1. task[b].version \in Versions
    BY <1>1, PointerShape
  <2>2. QED
    BY <1>1, <2>1 DEF TasksFull, Full, Kept
<1>2. ASSUME task[b].kind = "saveCanary"
      PROVE  \A p \in Plans : build'[<<task[b].row.version, p>>].published
  <2>1. task[b].row.version \in Versions
    BY <1>2, PointerShape
  <2>2. QED
    BY <1>2, <2>1 DEF TasksFull, Full, Kept
<1>3. QED
  BY <1>1, <1>2 DEF Full

LEMMA TasksKept == ASSUME TypeOK, TasksFull, Kept, UNCHANGED task PROVE TasksFull'
<1> SUFFICES ASSUME NEW b \in Admins
             PROVE  /\ task'[b].kind \in CarriesFull => Full(task[b].version)'
                    /\ task'[b].kind = "saveCanary" => Full(task[b].row.version)'
  BY DEF TasksFull, Full
<1>1. QED
  BY TaskFullKept

LEMMA SessionKept ==
    ASSUME TypeOK, NEW k \in Sessions, SessionFull(k), Kept, sess'[k] = sess[k]
    PROVE  SessionFull(k)'
<1>1. \A v \in Maybe : v # NoVersion /\ Full(v) =>
          \A p \in Plans : build'[<<v, p>>].published
  BY DEF Maybe, Kept, Full
<1>2. ASSUME sess[k].kind \in {"plan", "canary"}
      PROVE  /\ sess[k].channelDefault # NoVersion =>
                    \A p \in Plans : build'[<<sess[k].channelDefault, p>>].published
             /\ sess[k].globalDefault # NoVersion =>
                    \A p \in Plans : build'[<<sess[k].globalDefault, p>>].published
  <2>1. sess[k].channelDefault \in Maybe /\ sess[k].globalDefault \in Maybe
    BY <1>2, HeldBySession
  <2>2. QED
    BY <1>1, <1>2, <2>1 DEF SessionFull
<1>3. ASSUME sess[k].kind = "build", ByDefault(k)
      PROVE  \A p \in Plans : build'[<<sess[k].version, p>>].published
  <2>1. sess[k].version \in Versions /\ Full(sess[k].version)
    BY <1>3 DEF SessionFull
  <2>2. QED
    BY <2>1 DEF Full, Kept
<1>4. QED
  BY <1>2, <1>3 DEF SessionFull, Full, ByDefault

LEMMA SessionsKept == ASSUME TypeOK, SessionsFull, Kept, UNCHANGED sess PROVE SessionsFull'
<1> SUFFICES ASSUME NEW k \in Sessions PROVE SessionFull(k)'
  BY DEF SessionsFull
<1>1. SessionFull(k)
  BY DEF SessionsFull
<1>2. QED
  BY <1>1, SessionKept

\* A request slot filled with t: what t promises is all that is new.
LEMMA TasksStep ==
    ASSUME TypeOK, TasksFull, Kept, UNCHANGED build, NEW a \in Admins, NEW t,
           Start(a, t) \/ Continue(a, t) \/ Done(a),
           t.kind \in CarriesFull => Full(t.version),
           t.kind = "saveCanary" => Full(t.row.version)
    PROVE  TasksFull'
<1>1. task'[a] = t \/ task'[a] = Idle
  BY Holds
<1>2. \A b \in Admins : b # a => task'[b] = task[b]
  BY OthersWait
<1>3. /\ task'[a].kind \in CarriesFull => Full(task'[a].version)
      /\ task'[a].kind = "saveCanary" => Full(task'[a].row.version)
  BY <1>1 DEF Idle
<1>4. QED
  BY <1>2, <1>3 DEF TasksFull, Full

\* Finishing or filling a slot with what names no version to check.
LEMMA TasksQuiet ==
    ASSUME TypeOK, TasksFull, Kept, NEW a \in Admins,
           \A b \in Admins : b # a => task'[b] = task[b],
           task'[a].kind \notin CarriesFull \cup {"saveCanary"}
    PROVE  TasksFull'
<1> SUFFICES ASSUME NEW b \in Admins
             PROVE  /\ task'[b].kind \in CarriesFull => Full(task[b].version)'
                    /\ task'[b].kind = "saveCanary" => Full(task[b].row.version)'
  BY DEF TasksFull, Full
<1>1. CASE b = a
  BY <1>1
<1>2. CASE b # a
  BY <1>2, TaskFullKept
<1>3. QED
  BY <1>1, <1>2

\* A publish leaves its own slot publishing or empty, and every other as it was.
LEMMA PublishingHolds ==
    ASSUME TypeOK, NEW a \in Admins, Publishing(a)
    PROVE  /\ \A b \in Admins : b # a => task'[b] = task[b]
           /\ task'[a].kind \in {"publish", "idle"}
<1>1. ASSUME NEW v \in Versions, NEW p \in Plans, NEW c \in Offered[<<v, p>>],
             BeginPublish(a, v, p, c)
      PROVE  /\ \A b \in Admins : b # a => task'[b] = task[b]
             /\ task'[a].kind \in {"publish", "idle"}
  BY <1>1, Holds, OthersWait DEF BeginPublish
<1>2. CASE StoreBytes(a) \/ SaveRow(a)
  <2>1. task[a] \in PublishTasks /\ AfterStep(a)
    BY <1>2, PublishShape DEF StoreBytes, SaveRow
  <2>2. /\ \A b \in Admins : a # b => task'[b] = task[b]
        /\ \/ task'[a] = Idle
           \/ task'[a] = [task[a] EXCEPT !.todo = <<"save">>]
    BY <2>1, AfterStepHolds
  <2>3. [task[a] EXCEPT !.todo = <<"save">>].kind = "publish"
    BY <2>1 DEF PublishTasks
  <2>4. Idle.kind = "idle"
    BY DEF Idle
  <2>5. task'[a].kind \in {"publish", "idle"}
    BY <2>2, <2>3, <2>4
  <2>6. QED
    BY <2>2, <2>5
<1>3. QED
  BY <1>1, <1>2 DEF Publishing

LEMMA MatrixPublishing ==
    ASSUME MatrixIInv, RowsIInv', Kept, NEW a \in Admins, Publishing(a)
    PROVE  MatrixIInv'
<1>0. TypeOK /\ TasksFull
  BY DEF MatrixIInv, RowsIInv
<1>1. UNCHANGED <<default, canary, sess>>
  BY DEF Publishing, BeginPublish, StoreBytes, SaveRow, registry
<1>2. /\ \A b \in Admins : b # a => task'[b] = task[b]
      /\ task'[a].kind \in {"publish", "idle"}
  BY <1>0, PublishingHolds
<1>3. TasksFull'
  BY <1>0, <1>2, TasksQuiet
<1>4. QED
  BY <1>0, <1>1, <1>3, DefaultsKept, CanariesKept, SessionsKept DEF MatrixIInv

\* A promotion or a retirement holds the copies it read, then nothing.
LEMMA StewardshipHolds ==
    ASSUME TypeOK, NEW a \in Admins, Stewardship(a)
    PROVE  /\ \A b \in Admins : b # a => task'[b] = task[b]
           /\ task'[a].kind \in {"saveRows", "idle"}
<1>1. PICK t : /\ Start(a, t) \/ Done(a)
               /\ t.kind = "saveRows"
  <2>1. ASSUME NEW v \in Versions, NEW ch \in PromoteTo, BeginPromote(a, v, ch)
        PROVE  \E t : Start(a, t) /\ t.kind = "saveRows"
    <3> DEFINE t == [kind |-> "saveRows", version |-> v,
                     rows |-> [p \in Plans |-> IF Published(v, p)
                                THEN [build[<<v, p>>] EXCEPT !.channel = ch] ELSE NoRow]]
    <3>1. Start(a, t) /\ t.kind = "saveRows"
      BY <2>1 DEF BeginPromote
    <3> HIDE DEF t
    <3>2. QED
      BY <3>1
  <2>2. ASSUME NEW v \in Versions, BeginRetire(a, v)
        PROVE  \E t : Start(a, t) /\ t.kind = "saveRows"
    <3> DEFINE t == [kind |-> "saveRows", version |-> v,
                     rows |-> [p \in Plans |-> IF Published(v, p)
                                THEN [build[<<v, p>>] EXCEPT !.status = "retired"] ELSE NoRow]]
    <3>1. Start(a, t) /\ t.kind = "saveRows"
      BY <2>2 DEF BeginRetire
    <3> HIDE DEF t
    <3>2. QED
      BY <3>1
  <2>3. ASSUME SaveRows(a) PROVE \E t : Done(a) /\ t.kind = "saveRows"
    BY <2>3 DEF SaveRows
  <2>4. QED
    BY <2>1, <2>2, <2>3 DEF Stewardship
<1>2. \A b \in Admins : b # a => task'[b] = task[b]
  BY <1>1, OthersWait
<1>3. task'[a].kind \in {"saveRows", "idle"}
  BY <1>1, Holds DEF Idle
<1>4. QED
  BY <1>2, <1>3

LEMMA MatrixStewardship ==
    ASSUME MatrixIInv, RowsIInv', Kept, NEW a \in Admins, Stewardship(a)
    PROVE  MatrixIInv'
<1>0. TypeOK /\ TasksFull
  BY DEF MatrixIInv, RowsIInv
<1>1. UNCHANGED <<default, canary, sess>>
  BY DEF Stewardship, BeginPromote, BeginRetire, SaveRows, registry
<1>2. /\ \A b \in Admins : b # a => task'[b] = task[b]
      /\ task'[a].kind \in {"saveRows", "idle"}
  BY <1>0, StewardshipHolds
<1>3. TasksFull'
  BY <1>0, <1>2, TasksQuiet
<1>4. QED
  BY <1>0, <1>1, <1>3, DefaultsKept, CanariesKept, SessionsKept DEF MatrixIInv

LEMMA MatrixPointing ==
    ASSUME MatrixIInv, RowsIInv', Kept, NEW a \in Admins, Pointing(a)
    PROVE  MatrixIInv'
<1>0. TypeOK /\ TasksFull /\ DefaultsFull
  BY DEF MatrixIInv, RowsIInv
<1>1. UNCHANGED <<build, canary, sess>>
  BY DEF Pointing, BeginSetDefault, BeginRollback, CheckRelease, CheckRollback, ReadPointer,
         WritePointer, Record, registry
<1>2. SUFFICES TasksFull' /\ DefaultsFull'
  BY <1>0, <1>1, CanariesKept, SessionsKept DEF MatrixIInv
<1>3. ASSUME NEW s \in Scopes, NEW v \in Versions, BeginSetDefault(a, s, v)
      PROVE  TasksFull' /\ DefaultsFull'
  <2> DEFINE t == [kind |-> "checkRelease", scope |-> s, version |-> v, rollback |-> FALSE]
  <2>1. Full(v)
    BY <1>3, CompleteIsFull DEF BeginSetDefault
  <2>2. Start(a, t) /\ t.kind = "checkRelease" /\ t.version = v
    BY <1>3 DEF BeginSetDefault
  <2> HIDE DEF t
  <2>3. TasksFull'
    BY <1>0, <1>1, <2>1, <2>2, TasksStep
  <2>4. DefaultsFull'
    BY <1>0, <1>3, DefaultsKept DEF BeginSetDefault, registry
  <2>5. QED
    BY <2>3, <2>4
<1>4. ASSUME NEW s \in Scopes, BeginRollback(a, s)
      PROVE  TasksFull' /\ DefaultsFull'
  <2> DEFINE t == [kind |-> "checkRollback", scope |-> s, version |-> previousDefault(s),
                   rollback |-> TRUE]
  <2>1. Start(a, t) /\ t.kind = "checkRollback"
    BY <1>4 DEF BeginRollback
  <2> HIDE DEF t
  <2>2. TasksFull'
    BY <1>0, <1>1, <2>1, TasksStep
  <2>3. DefaultsFull'
    BY <1>0, <1>4, DefaultsKept DEF BeginRollback, registry
  <2>4. QED
    BY <2>2, <2>3
<1>5. CASE CheckRelease(a) \/ CheckRollback(a)
  <2> DEFINE t == [task[a] EXCEPT !.kind = "readPointer"]
  <2>1. task[a] \in PointerTasks
    BY <1>0, <1>5, PointerShape DEF CheckRelease, CheckRollback
  <2>2. task[a].kind = "checkRelease" \/ isComplete(task[a].version)
    BY <1>5 DEF CheckRelease, CheckRollback
  <2>3. Full(task[a].version)
    BY <1>0, <1>5, <2>2, CompleteIsFull DEF TasksFull, CheckRelease
  <2>4. Continue(a, t) /\ t.kind = "readPointer" /\ t.version = task[a].version
    BY <1>5, <2>1 DEF CheckRelease, CheckRollback, PointerTasks
  <2> HIDE DEF t
  <2>5. TasksFull'
    BY <1>0, <1>1, <2>3, <2>4, TasksStep
  <2>6. DefaultsFull'
    BY <1>0, <1>5, DefaultsKept DEF CheckRelease, CheckRollback, registry
  <2>7. QED
    BY <2>5, <2>6
<1>6. CASE ReadPointer(a)
  <2> DEFINE t == [kind |-> "writePointer", scope |-> task[a].scope,
                   version |-> task[a].version, rollback |-> task[a].rollback,
                   from |-> default[task[a].scope]]
  <2>1. Full(task[a].version)
    BY <1>0, <1>6 DEF ReadPointer, TasksFull
  <2>2. Continue(a, t) /\ t.kind = "writePointer" /\ t.version = task[a].version
    BY <1>6 DEF ReadPointer
  <2> HIDE DEF t
  <2>3. TasksFull'
    BY <1>0, <1>1, <2>1, <2>2, TasksStep
  <2>4. DefaultsFull'
    BY <1>0, <1>6, DefaultsKept DEF ReadPointer, registry
  <2>5. QED
    BY <2>3, <2>4
<1>7. CASE WritePointer(a)
  <2> DEFINE t == [kind |-> "record", scope |-> task[a].scope, from |-> task[a].from]
  <2>1. Done(a) \/ Continue(a, t)
    BY <1>7 DEF WritePointer
  <2>2. t.kind = "record"
    OBVIOUS
  <2> HIDE DEF t
  <2>3. TasksFull'
    BY <1>0, <1>1, <2>1, <2>2, TasksStep
  <2>4. Full(task[a].version)
    BY <1>0, <1>7 DEF WritePointer, TasksFull
  <2>5. default' = [default EXCEPT ![task[a].scope] = task[a].version]
    BY <1>7 DEF WritePointer
  <2>6. DefaultsFull'
    BY <1>0, <1>1, <2>4, <2>5 DEF DefaultsFull, Full, TypeOK
  <2>7. QED
    BY <2>3, <2>6
<1>8. CASE Record(a)
  <2>1. Done(a) /\ UNCHANGED default
    BY <1>8 DEF Record
  <2>2. \A b \in Admins : b # a => task'[b] = task[b]
    BY <1>0, <2>1, OthersWait
  <2>3. task'[a].kind = "idle"
    BY <1>0, <2>1, Holds DEF Idle
  <2>4. QED
    BY <1>0, <2>1, <2>2, <2>3, TasksQuiet, DefaultsKept
<1>9. QED
  BY <1>3, <1>4, <1>5, <1>6, <1>7, <1>8 DEF Pointing

LEMMA MatrixReleasing ==
    ASSUME MatrixIInv, RowsIInv', Kept, NEW a \in Admins, Releasing(a)
    PROVE  MatrixIInv'
<1>0. TypeOK /\ TasksFull /\ CanariesFull
  BY DEF MatrixIInv, RowsIInv
<1>1. UNCHANGED <<build, default, sess>>
  BY DEF Releasing, BeginCanary, SaveCanary, registry
<1>2. SUFFICES TasksFull' /\ CanariesFull'
  BY <1>0, <1>1, DefaultsKept, SessionsKept DEF MatrixIInv
<1>3. ASSUME NEW s \in Scopes, NEW v \in Versions, NEW percent \in Percents,
             BeginCanary(a, s, v, percent)
      PROVE  TasksFull' /\ CanariesFull'
  <2> DEFINE t == [kind |-> "saveCanary", scope |-> s, current |-> canary[s] # NoCanary,
                   row |-> [version |-> v, percent |-> ClampPercent(percent)]]
  <2>1. Full(v)
    BY <1>3, CompleteIsFull DEF BeginCanary
  <2>2. Start(a, t) /\ t.kind = "saveCanary" /\ t.row.version = v
    BY <1>3 DEF BeginCanary
  <2> HIDE DEF t
  <2>3. TasksFull'
    BY <1>0, <1>1, <2>1, <2>2, TasksStep
  <2>4. CanariesFull'
    BY <1>0, <1>3, CanariesKept DEF BeginCanary, registry
  <2>5. QED
    BY <2>3, <2>4
<1>4. CASE SaveCanary(a)
  <2>1. Full(task[a].row.version)
    BY <1>0, <1>4 DEF SaveCanary, TasksFull
  <2>2. canary' = [canary EXCEPT ![task[a].scope] = task[a].row] /\ Done(a)
    BY <1>4 DEF SaveCanary
  <2>3. \A b \in Admins : b # a => task'[b] = task[b]
    BY <1>0, <2>2, OthersWait
  <2>4. task'[a].kind = "idle"
    BY <1>0, <2>2, Holds DEF Idle
  <2>5. TasksFull'
    BY <1>0, <2>3, <2>4, TasksQuiet
  <2>6. CanariesFull'
    BY <1>0, <1>1, <2>1, <2>2 DEF CanariesFull, Full, TypeOK
  <2>7. QED
    BY <2>5, <2>6
<1>5. QED
  BY <1>3, <1>4 DEF Releasing

LEMMA MatrixSession ==
    ASSUME MatrixIInv, RowsIInv', Kept, NEW k \in Sessions, Session(k)
    PROVE  MatrixIInv'
<1>0. TypeOK /\ DefaultsFull /\ CanariesFull /\ SessionsFull /\ SessionFull(k)
  BY DEF MatrixIInv, RowsIInv, SessionsFull
<1>1. UNCHANGED <<build, default, canary, task>>
  BY DEF Session, OpenSession, DecidePlan, ChooseVersion, Serve, registry
<1>2. \A j \in Sessions : j # k => sess'[j] = sess[j]
  BY <1>0 DEF Session, OpenSession, DecidePlan, ChooseVersion, Serve, TypeOK
<1>3. SUFFICES SessionFull(k)'
  <2>1. SessionsFull'
    BY <1>0, <1>2, <1>3, SessionKept DEF SessionsFull
  <2>2. QED
    BY <1>0, <1>1, <2>1, DefaultsKept, CanariesKept, TasksKept DEF MatrixIInv
<1>4. ASSUME NEW c \in Callers, OpenSession(k, c)
      PROVE  SessionFull(k)'
  <2> DEFINE t == [kind |-> "plan", caller |-> c,
                   channelDefault |-> PointerOf(channelScope["stable"]),
                   globalDefault |-> PointerOf(GLOBAL_SCOPE)]
  <2>1. \A s : PointerOf(s) # NoVersion => Full(PointerOf(s))
    BY <1>0 DEF PointerOf, DefaultsFull
  <2>2. /\ t.kind = "plan"
        /\ t.channelDefault # NoVersion => Full(t.channelDefault)
        /\ t.globalDefault # NoVersion => Full(t.globalDefault)
    BY <2>1
  <2>3. sess'[k] = t
    BY <1>0, <1>4 DEF OpenSession, TypeOK
  <2> HIDE DEF t
  <2>4. QED
    BY <1>1, <2>2, <2>3 DEF SessionFull, Full
<1>5. CASE DecidePlan(k)
  <2>0. PICK answered \in BOOLEAN :
           sess' = [sess EXCEPT ![k] =
              [kind |-> "canary", caller |-> sess[k].caller,
               plan |-> PlanFor(sess[k], answered),
               channelDefault |-> sess[k].channelDefault,
               globalDefault |-> sess[k].globalDefault]]
    BY <1>5 DEF DecidePlan
  <2> DEFINE t == [kind |-> "canary", caller |-> sess[k].caller,
                   plan |-> PlanFor(sess[k], answered),
                   channelDefault |-> sess[k].channelDefault,
                   globalDefault |-> sess[k].globalDefault]
  <2>1. /\ t.kind = "canary"
        /\ t.channelDefault # NoVersion => Full(t.channelDefault)
        /\ t.globalDefault # NoVersion => Full(t.globalDefault)
    BY <1>0, <1>5 DEF DecidePlan, SessionFull
  <2>2. sess'[k] = t
    BY <1>0, <2>0 DEF TypeOK
  <2> HIDE DEF t
  <2>3. QED
    BY <1>1, <2>1, <2>2 DEF SessionFull, Full
<1>6. CASE ChooseVersion(k)
  <2>0. PICK offered \in {canaryFor(sess[k].caller), NoVersion} :
           LET d == resolveVersion(ChainOf(sess[k], offered))
           IN sess' = [sess EXCEPT ![k] =
                 [kind |-> IF d.version = NoVersion THEN "done" ELSE "build",
                  caller |-> sess[k].caller, plan |-> sess[k].plan, result |-> "none",
                  version |-> d.version, source |-> d.source]]
    BY <1>6 DEF ChooseVersion
  <2> DEFINE chain == ChainOf(sess[k], offered)
             d == resolveVersion(chain)
             t == [kind |-> IF d.version = NoVersion THEN "done" ELSE "build",
                   caller |-> sess[k].caller, plan |-> sess[k].plan, result |-> "none",
                   version |-> d.version, source |-> d.source]
  <2>1. sess[k].kind = "canary" /\ sess[k].caller \in Callers
    BY <1>0, <1>6, HeldBySession DEF ChooseVersion
  <2>2. offered \in Maybe /\ (offered # NoVersion => Full(offered))
    BY <1>0, <2>1, CanaryOffered DEF CanariesFull, Maybe
  <2>3. /\ sess[k].channelDefault # NoVersion => Full(sess[k].channelDefault)
        /\ sess[k].globalDefault # NoVersion => Full(sess[k].globalDefault)
    BY <1>0, <2>1 DEF SessionFull
  <2>4. /\ chain \in Chain /\ chain.canary = offered
        /\ chain.channel = sess[k].channelDefault /\ chain.global = sess[k].globalDefault
    BY <1>0, <2>1, <2>2, ChainShape
  <2>5. \A s \in {"canary", "channel", "global"} :
            chain[s] # NoVersion => Full(chain[s])
    BY <2>2, <2>3, <2>4
  <2> HIDE DEF chain
  <2>6. /\ d.version \in Maybe
        /\ d.source # "none" => d.version = chain[d.source] /\ d.version # NoVersion
    BY <2>4, Resolution
  <2>7. d.source \in {"canary", "channel", "global"} => d.version \in Versions /\ Full(d.version)
    BY <2>5, <2>6 DEF Maybe
  <2> HIDE DEF d
  <2>8. /\ t.kind \in {"build", "done"} /\ t.source = d.source /\ t.version = d.version
        /\ t.result = "none"
    OBVIOUS
  <2>9. sess'[k] = t
    BY <1>0, <2>0 DEF TypeOK, d, chain
  <2> HIDE DEF t
  <2>10. QED
    BY <1>1, <2>7, <2>8, <2>9 DEF SessionFull, ByDefault, Full
<1>7. CASE Serve(k)
  <2>1. sess[k].kind = "build" /\ sess[k] \in ChosenSessions /\ sess[k].plan \in Plans
    BY <1>0, <1>7, HeldBySession DEF Serve
  <2> DEFINE r == IF ~build[<<sess[k].version, sess[k].plan>>].published THEN "noBuild"
                  ELSE IF Refused(sess[k].caller, sess[k].source,
                                  build[<<sess[k].version, sess[k].plan>>])
                  THEN "refused" ELSE "served"
             t == [sess[k] EXCEPT !.kind = "done", !.result = r]
  <2>2. ByDefault(k) => r # "noBuild"
    BY <1>0, <2>1 DEF SessionFull, Full
  <2>3. sess'[k] = t
    BY <1>0, <1>7 DEF Serve, TypeOK
  <2> HIDE DEF r
  <2>4. t.kind = "done" /\ t.source = sess[k].source /\ t.result = r
    BY <2>1 DEF ChosenSessions
  <2> HIDE DEF t
  <2>5. QED
    BY <2>2, <2>3, <2>4 DEF SessionFull, ByDefault
<1>8. QED
  BY <1>4, <1>5, <1>6, <1>7 DEF Session

LEMMA MatrixNext == MatrixIInv /\ [Next]_vars => MatrixIInv'
<1> SUFFICES ASSUME MatrixIInv, [Next]_vars PROVE MatrixIInv'
  OBVIOUS
<1>0. TypeOK /\ RowsIInv' /\ Kept
  BY RowsNext DEF MatrixIInv, RowsIInv
<1>1. ASSUME UNCHANGED <<default, task, sess>>, CanariesFull'
      PROVE  MatrixIInv'
  BY <1>0, <1>1, DefaultsKept, TasksKept, SessionsKept DEF MatrixIInv
<1>2. CASE LoseBytes
  BY <1>0, <1>1, <1>2, CanariesKept DEF LoseBytes, MatrixIInv
<1>3. ASSUME NEW v \in Versions, NEW p \in Plans, RestoreBytes(v, p)
      PROVE  MatrixIInv'
  BY <1>0, <1>1, <1>3, CanariesKept DEF RestoreBytes, MatrixIInv
<1>4. ASSUME NEW s \in Scopes, HaltCanary(s)
      PROVE  MatrixIInv'
  <2>1. canary' = [canary EXCEPT ![s] = NoCanary] /\ UNCHANGED <<build, default, sess>>
    BY <1>4 DEF HaltCanary
  <2>2. CanariesFull'
    BY <1>0, <2>1 DEF MatrixIInv, CanariesFull, Full, NoCanary, TypeOK
  <2>3. TasksFull'
    <3> SUFFICES ASSUME NEW b \in Admins
                 PROVE  /\ task'[b].kind \in CarriesFull =>
                              Full(task'[b].version)
                        /\ task'[b].kind = "saveCanary" => Full(task'[b].row.version)
      BY <2>1 DEF TasksFull, Full
    <3>1. \/ task'[b] = task[b]
          \/ /\ task[b].kind = "saveCanary" /\ task'[b].kind = "saveCanary"
             /\ task'[b].row = task[b].row
      BY <1>0, <1>4, HaltedTasks
    <3>2. QED
      BY <3>1 DEF MatrixIInv, TasksFull
  <2>4. QED
    BY <1>0, <2>1, <2>2, <2>3, DefaultsKept, SessionsKept DEF MatrixIInv
<1>5. ASSUME NEW a \in Admins, Abandon(a)
      PROVE  MatrixIInv'
  <2>1. Done(a) /\ UNCHANGED registry /\ UNCHANGED sess
    BY <1>5 DEF Abandon
  <2>2. \A b \in Admins : b # a => task'[b] = task[b]
    BY <1>0, <2>1, OthersWait
  <2>3. task'[a].kind = "idle"
    BY <1>0, <2>1, Holds DEF Idle
  <2>4. TasksFull'
    BY <1>0, <2>2, <2>3, TasksQuiet DEF MatrixIInv
  <2>5. QED
    BY <1>0, <2>1, <2>4, DefaultsKept, CanariesKept, SessionsKept DEF MatrixIInv, registry
<1>6. CASE UNCHANGED vars
  BY <1>0, <1>1, <1>6, CanariesKept DEF vars, registry, MatrixIInv
<1>7. QED
  BY <1>0, <1>2, <1>3, <1>4, <1>5, <1>6, MatrixPublishing, MatrixStewardship,
     MatrixPointing, MatrixReleasing, MatrixSession DEF Next

\* A session that a default or a release chose for finds a build for its plan,
\* although rows, pointers, releases and the session's own two reads interleave
\* freely: setDefault, rollback and startCanary check completeness once, and
\* nothing takes a published row away again.
THEOREM BothBuildsBehindDefaults == Spec => []CompleteMatrix
<1>1. MatrixIInv => CompleteMatrix
  BY DEF MatrixIInv, SessionsFull, SessionFull, CompleteMatrix, Answered
<1>2. QED
  BY <1>1, MatrixInit, MatrixNext, PTL DEF Spec

-----------------------------------------------------------------------------
(***************************************************************************)
(* Where a rollback may lead.  The default of a scope and the version its  *)
(* history would go back to were chosen for it, and so was every version a *)
(* request carries between reading one of them and writing the other.      *)
(***************************************************************************)

MovingKinds == {"checkRelease", "checkRollback", "readPointer", "writePointer", "record"}

TaskChosen(t, choices) ==
    /\ (t.kind \in {"checkRelease", "checkRollback", "readPointer", "writePointer"} /\ t.rollback) =>
          t.version \in choices[t.scope]
    /\ (t.kind \in {"writePointer", "record"} /\ t.from # NoVersion) =>
          t.from \in choices[t.scope]

PreviousChosen == \A s \in Scopes : previous[s] # NoVersion => previous[s] \in chosen[s]
TasksChosen == \A a \in Admins : TaskChosen(task[a], chosen)
PointersChosen == RollbackTargetWasChosen /\ PreviousChosen

ChosenIInv == TypeOK /\ PointersChosen /\ TasksChosen

LEMMA ChosenInit == Init => ChosenIInv
<1> SUFFICES ASSUME Init PROVE PointersChosen /\ TasksChosen
  BY TypeInit DEF ChosenIInv
<1>1. RollbackTargetWasChosen
  BY DEF Init, RollbackTargetWasChosen
<1>2. PreviousChosen /\ TasksChosen
  BY DEF Init, PreviousChosen, TasksChosen, TaskChosen, Idle
<1>3. QED
  BY <1>1, <1>2 DEF PointersChosen

\* Choices are only added to: what was held stays chosen.
LEMMA HeldStaysChosen ==
    ASSUME TypeOK, NEW choices, \A s \in Scopes : chosen[s] \subseteq choices[s],
           NEW a \in Admins, TaskChosen(task[a], chosen)
    PROVE  TaskChosen(task[a], choices)
<1>1. task[a].kind \in MovingKinds => task[a].scope \in Scopes
  BY PointerShape DEF MovingKinds
<1>2. QED
  BY <1>1 DEF TaskChosen, MovingKinds

\* A slot filled with t: that t was chosen is all that is new.
LEMMA ChosenStep ==
    ASSUME TypeOK, TasksChosen, \A s \in Scopes : chosen[s] \subseteq chosen'[s],
           NEW a \in Admins, NEW t, Start(a, t) \/ Continue(a, t) \/ Done(a),
           TaskChosen(t, chosen')
    PROVE  TasksChosen'
<1> SUFFICES ASSUME NEW b \in Admins PROVE TaskChosen(task'[b], chosen')
  BY DEF TasksChosen, TaskChosen
<1>1. CASE b = a
  <2>1. TaskChosen(Idle, chosen')
    BY DEF TaskChosen, Idle
  <2>2. task'[a] = t \/ task'[a] = Idle
    BY Holds
  <2>3. QED
    BY <1>1, <2>1, <2>2
<1>2. CASE b # a
  <2>1. task'[b] = task[b]
    BY <1>2, OthersWait
  <2>2. TaskChosen(task[b], chosen)
    BY DEF TasksChosen
  <2>3. QED
    BY <2>1, <2>2, HeldStaysChosen
<1>3. QED
  BY <1>1, <1>2

\* A slot that ends up outside the pointer moves has nothing to be chosen.
LEMMA ChosenQuiet ==
    ASSUME TypeOK, TasksChosen, UNCHANGED chosen, NEW a \in Admins,
           \A b \in Admins : b # a => task'[b] = task[b], task'[a].kind \notin MovingKinds
    PROVE  TasksChosen'
  BY DEF TasksChosen, TaskChosen, MovingKinds

LEMMA PointersStay ==
    ASSUME PointersChosen, UNCHANGED <<default, previous, chosen>>
    PROVE  PointersChosen'
  BY DEF PointersChosen, RollbackTargetWasChosen, PreviousChosen

LEMMA ChosenBegins ==
    ASSUME ChosenIInv, NEW a \in Admins, NEW s \in Scopes,
           BeginRollback(a, s) \/ \E v \in Versions : BeginSetDefault(a, s, v)
    PROVE  PointersChosen' /\ TasksChosen'
<1>0. TypeOK /\ TasksChosen /\ PointersChosen /\ PreviousChosen
  BY DEF ChosenIInv, PointersChosen
<1>1. UNCHANGED <<default, previous, chosen>>
  BY DEF BeginRollback, BeginSetDefault, registry
<1>2. ASSUME NEW v \in Versions, BeginSetDefault(a, s, v)
      PROVE  TasksChosen'
  <2> DEFINE t == [kind |-> "checkRelease", scope |-> s, version |-> v, rollback |-> FALSE]
  <2>1. Start(a, t)
    BY <1>2 DEF BeginSetDefault
  <2>2. TaskChosen(t, chosen')
    BY DEF TaskChosen
  <2> HIDE DEF t
  <2>3. QED
    BY <1>0, <1>1, <2>1, <2>2, ChosenStep
<1>3. ASSUME BeginRollback(a, s)
      PROVE  TasksChosen'
  <2> DEFINE t == [kind |-> "checkRollback", scope |-> s, version |-> previousDefault(s),
                   rollback |-> TRUE]
  <2>1. Start(a, t) /\ previousDefault(s) # NoVersion
    BY <1>3 DEF BeginRollback
  <2>2. previousDefault(s) \in chosen[s]
    BY <1>0, <2>1 DEF previousDefault, PreviousChosen
  <2>3. TaskChosen(t, chosen')
    BY <1>1, <2>2 DEF TaskChosen
  <2> HIDE DEF t
  <2>4. QED
    BY <1>0, <1>1, <2>1, <2>3, ChosenStep
<1>4. QED
  BY <1>0, <1>1, <1>2, <1>3, PointersStay

LEMMA ChosenReads ==
    ASSUME ChosenIInv, NEW a \in Admins,
           CheckRelease(a) \/ CheckRollback(a) \/ ReadPointer(a)
    PROVE  PointersChosen' /\ TasksChosen'
<1>0. TypeOK /\ TasksChosen /\ PointersChosen /\ RollbackTargetWasChosen
  BY DEF ChosenIInv, PointersChosen
<1>1. UNCHANGED <<default, previous, chosen>>
  BY DEF CheckRelease, CheckRollback, ReadPointer, registry
<1>2. TaskChosen(task[a], chosen)
  BY <1>0 DEF TasksChosen
<1>3. ASSUME CheckRelease(a) \/ CheckRollback(a)
      PROVE  TasksChosen'
  <2> DEFINE t == [task[a] EXCEPT !.kind = "readPointer"]
  <2>1. /\ task[a] \in PointerTasks
        /\ task[a].kind \in {"checkRelease", "checkRollback"}
    BY <1>0, <1>3, PointerShape DEF CheckRelease, CheckRollback
  <2>2. /\ t.kind = "readPointer" /\ t.rollback = task[a].rollback
        /\ t.version = task[a].version /\ t.scope = task[a].scope
    BY <2>1 DEF PointerTasks
  <2>3. Continue(a, t)
    BY <1>3 DEF CheckRelease, CheckRollback
  <2> HIDE DEF t
  <2>4. TaskChosen(t, chosen')
    BY <1>1, <1>2, <2>1, <2>2 DEF TaskChosen
  <2>5. QED
    BY <1>0, <1>1, <2>3, <2>4, ChosenStep
<1>4. ASSUME ReadPointer(a)
      PROVE  TasksChosen'
  <2> DEFINE t == [kind |-> "writePointer", scope |-> task[a].scope,
                   version |-> task[a].version, rollback |-> task[a].rollback,
                   from |-> default[task[a].scope]]
  <2>1. Continue(a, t) /\ task[a].kind = "readPointer" /\ task[a].scope \in Scopes
    BY <1>0, <1>4, PointerShape DEF ReadPointer
  <2>2. TaskChosen(t, chosen')
    BY <1>0, <1>1, <1>2, <2>1 DEF TaskChosen, RollbackTargetWasChosen
  <2> HIDE DEF t
  <2>3. QED
    BY <1>0, <1>1, <2>1, <2>2, ChosenStep
<1>5. QED
  BY <1>0, <1>1, <1>3, <1>4, PointersStay

\* The write: a rollback's version was chosen, any other's is chosen now.
LEMMA ChosenWrite ==
    ASSUME ChosenIInv, NEW a \in Admins, WritePointer(a)
    PROVE  PointersChosen' /\ TasksChosen'
<1> DEFINE s == task[a].scope
           v == task[a].version
           t == [kind |-> "record", scope |-> s, from |-> task[a].from]
<1>0. TypeOK /\ TasksChosen /\ RollbackTargetWasChosen /\ PreviousChosen
  BY DEF ChosenIInv, PointersChosen
<1>1. task[a].kind = "writePointer" /\ s \in Scopes /\ v \in Versions
  BY <1>0, PointerShape DEF WritePointer
<1>2. /\ default' = [default EXCEPT ![s] = v]
      /\ chosen' = [chosen EXCEPT ![s] = IF task[a].rollback THEN @ ELSE @ \cup {v}]
      /\ Done(a) \/ Continue(a, t)
      /\ UNCHANGED previous
  BY DEF WritePointer
<1>3. \A r \in Scopes : chosen[r] \subseteq chosen'[r]
  BY <1>0, <1>1, <1>2 DEF TypeOK
<1>4. TaskChosen(task[a], chosen)
  BY <1>0 DEF TasksChosen
<1>5. v \in chosen'[s]
  BY <1>0, <1>1, <1>2, <1>4 DEF TaskChosen, TypeOK
<1>6. task[a].from # NoVersion => task[a].from \in chosen'[s]
  BY <1>1, <1>3, <1>4 DEF TaskChosen
<1>7. TaskChosen(t, chosen')
  BY <1>6 DEF TaskChosen
<1> HIDE DEF s, v, t
<1>8. TasksChosen'
  BY <1>0, <1>2, <1>3, <1>7, ChosenStep
<1>9. RollbackTargetWasChosen'
  <2> SUFFICES ASSUME NEW r \in Scopes, default'[r] # NoVersion
               PROVE  default'[r] \in chosen'[r]
    BY DEF RollbackTargetWasChosen
  <2>1. default'[r] = IF r = s THEN v ELSE default[r]
    BY <1>0, <1>2 DEF TypeOK
  <2>2. QED
    BY <1>0, <1>3, <1>5, <2>1 DEF RollbackTargetWasChosen
<1>10. PreviousChosen'
  BY <1>0, <1>2, <1>3 DEF PreviousChosen
<1>11. QED
  BY <1>8, <1>9, <1>10 DEF PointersChosen

LEMMA ChosenRecord ==
    ASSUME ChosenIInv, NEW a \in Admins, Record(a)
    PROVE  PointersChosen' /\ TasksChosen'
<1>0. TypeOK /\ TasksChosen /\ RollbackTargetWasChosen /\ PreviousChosen
  BY DEF ChosenIInv, PointersChosen
<1>1. task[a].kind = "record" /\ task[a].scope \in Scopes
  BY <1>0, PointerShape DEF Record
<1>2. /\ previous' = [previous EXCEPT ![task[a].scope] = task[a].from]
      /\ UNCHANGED <<default, chosen>> /\ Done(a)
  BY DEF Record
<1>3. TaskChosen(task[a], chosen)
  BY <1>0 DEF TasksChosen
<1>4. PreviousChosen'
  BY <1>0, <1>1, <1>2, <1>3 DEF PreviousChosen, TaskChosen, TypeOK
<1>5. RollbackTargetWasChosen'
  BY <1>0, <1>2 DEF RollbackTargetWasChosen
<1>6. TaskChosen(Idle, chosen')
  BY DEF TaskChosen, Idle
<1>7. TasksChosen'
  BY <1>0, <1>2, <1>6, ChosenStep
<1>8. QED
  BY <1>4, <1>5, <1>7 DEF PointersChosen

LEMMA ChosenPointing ==
    ASSUME ChosenIInv, NEW a \in Admins, Pointing(a)
    PROVE  PointersChosen' /\ TasksChosen'
  BY ChosenBegins, ChosenReads, ChosenWrite, ChosenRecord DEF Pointing

\* Whoever does not move a pointer leaves the pointers alone.
LEMMA ChosenElsewhere ==
    ASSUME ChosenIInv, NEW a \in Admins,
           Publishing(a) \/ Stewardship(a) \/ Releasing(a) \/ Abandon(a)
    PROVE  PointersChosen' /\ TasksChosen'
<1>0. TypeOK /\ TasksChosen /\ PointersChosen
  BY DEF ChosenIInv
<1>1. CASE Publishing(a)
  <2>1. UNCHANGED <<default, previous, chosen>>
    BY <1>1 DEF Publishing, BeginPublish, StoreBytes, SaveRow, registry
  <2>2. QED
    BY <1>0, <1>1, <2>1, PublishingHolds, ChosenQuiet, PointersStay DEF MovingKinds
<1>2. CASE Stewardship(a)
  <2>1. UNCHANGED <<default, previous, chosen>>
    BY <1>2 DEF Stewardship, BeginPromote, BeginRetire, SaveRows, registry
  <2>2. QED
    BY <1>0, <1>2, <2>1, StewardshipHolds, ChosenQuiet, PointersStay DEF MovingKinds
<1>3. CASE Releasing(a)
  <2>1. UNCHANGED <<default, previous, chosen>>
    BY <1>3 DEF Releasing, BeginCanary, SaveCanary, registry
  <2>2. PICK t : (Start(a, t) \/ Done(a)) /\ t.kind \notin MovingKinds
    <3>1. ASSUME NEW s \in Scopes, NEW v \in Versions, NEW percent \in Percents,
                 BeginCanary(a, s, v, percent)
          PROVE  \E t : Start(a, t) /\ t.kind \notin MovingKinds
      <4> DEFINE t == [kind |-> "saveCanary", scope |-> s, current |-> canary[s] # NoCanary,
                       row |-> [version |-> v, percent |-> ClampPercent(percent)]]
      <4>1. Start(a, t) /\ t.kind \notin MovingKinds
        BY <3>1 DEF BeginCanary, MovingKinds
      <4> HIDE DEF t
      <4>2. QED
        BY <4>1
    <3>2. ASSUME SaveCanary(a)
          PROVE  Done(a) /\ task[a].kind \notin MovingKinds
      BY <3>2 DEF SaveCanary, MovingKinds
    <3>3. QED
      BY <1>3, <3>1, <3>2 DEF Releasing
  <2>3. TaskChosen(t, chosen')
    BY <2>2 DEF TaskChosen, MovingKinds
  <2>4. QED
    BY <1>0, <2>1, <2>2, <2>3, ChosenStep, PointersStay
<1>4. CASE Abandon(a)
  <2>1. UNCHANGED <<default, previous, chosen>> /\ Done(a)
    BY <1>4 DEF Abandon, registry
  <2>2. TaskChosen(Idle, chosen')
    BY DEF TaskChosen, Idle
  <2>3. QED
    BY <1>0, <2>1, <2>2, ChosenStep, PointersStay
<1>5. QED
  BY <1>1, <1>2, <1>3, <1>4

LEMMA ChosenNext == ChosenIInv /\ [Next]_vars => ChosenIInv'
<1> SUFFICES ASSUME ChosenIInv, [Next]_vars PROVE PointersChosen' /\ TasksChosen'
  BY TypeNext DEF ChosenIInv
<1>0. TypeOK /\ TasksChosen /\ PointersChosen
  BY DEF ChosenIInv
<1>1. ASSUME UNCHANGED <<default, previous, chosen, task>>
      PROVE  PointersChosen' /\ TasksChosen'
  BY <1>0, <1>1, PointersStay DEF TasksChosen, TaskChosen
<1>2. CASE LoseBytes \/ \E v \in Versions, p \in Plans : RestoreBytes(v, p)
  BY <1>1, <1>2 DEF LoseBytes, RestoreBytes
<1>3. ASSUME NEW k \in Sessions, Session(k)
      PROVE  PointersChosen' /\ TasksChosen'
  BY <1>1, <1>3 DEF Session, OpenSession, DecidePlan, ChooseVersion, Serve, registry
<1>4. ASSUME NEW s \in Scopes, HaltCanary(s)
      PROVE  PointersChosen' /\ TasksChosen'
  <2>1. UNCHANGED <<default, previous, chosen>>
    BY <1>4 DEF HaltCanary
  <2>2. ASSUME NEW b \in Admins
        PROVE  TaskChosen(task'[b], chosen')
    <3>1. \/ task'[b] = task[b]
          \/ task'[b].kind = "saveCanary"
      BY <1>0, <1>4, HaltedTasks
    <3>2. TaskChosen(task[b], chosen)
      BY <1>0 DEF TasksChosen
    <3>3. QED
      BY <2>1, <3>1, <3>2 DEF TaskChosen
  <2>3. TasksChosen'
    BY <2>2 DEF TasksChosen, TaskChosen
  <2>4. QED
    BY <1>0, <2>1, <2>3, PointersStay
<1>5. CASE UNCHANGED vars
  BY <1>1, <1>5 DEF vars, registry
<1>6. QED
  BY <1>2, <1>3, <1>4, <1>5, ChosenPointing, ChosenElsewhere DEF Next

\* A rollback leads only to versions a release chose for that scope, however
\* many rollbacks, releases and failed history rows overlap (setDefault,
\* previousDefault, rollback: read, check, read, write and record are separate
\* queries).
THEOREM RollbacksLeadBack == Spec => []RollbackTargetWasChosen
<1>1. ChosenIInv => RollbackTargetWasChosen
  BY DEF ChosenIInv, PointersChosen
<1>2. QED
  BY <1>1, ChosenInit, ChosenNext, PTL DEF Spec

-----------------------------------------------------------------------------
(***************************************************************************)
(* Pins.  From the moment its version is chosen, a pinned session holds    *)
(* the caller's pin and its source; the guard of the default steps never   *)
(* looks at it.                                                            *)
(***************************************************************************)

Pinned(t) ==
    (t.kind \in {"build", "done"} /\ t.caller.pin # NoVersion) =>
        t.version = t.caller.pin /\ t.source = "pin" /\ t.result # "refused"

PinIInv == TypeOK /\ \A k \in Sessions : Pinned(sess[k])

LEMMA PinInit == Init => PinIInv
<1> SUFFICES ASSUME Init PROVE \A k \in Sessions : Pinned(sess[k])
  BY TypeInit DEF PinIInv
<1>1. QED
  BY DEF Init, Pinned, Idle

\* A pin is the first step of the chain.
LEMMA PinDecides ==
    ASSUME NEW chain \in Chain, chain.pin # NoVersion
    PROVE  resolveVersion(chain) = [version |-> chain.pin, source |-> "pin"]
<1> DEFINE found(k) == /\ chain[Steps[k]] # NoVersion
                       /\ \A j \in 1 .. (k - 1) : chain[Steps[j]] = NoVersion
           k == CHOOSE k \in 1 .. 5 : found(k)
<1>1. Steps[1] = "pin" /\ chain[Steps[1]] # NoVersion
  BY DEF Steps
<1>2. \E i \in 1 .. 5 : found(i)
  <2>1. found(1)
    BY <1>1
  <2>2. QED
    BY <2>1
<1>3. k \in 1 .. 5 /\ found(k)
  BY <1>2
<1>4. decidingStep(chain) = Steps[k]
  BY <1>1 DEF decidingStep
<1> HIDE DEF k
<1>5. k = 1
  BY <1>1, <1>3
<1>6. QED
  BY <1>1, <1>4, <1>5 DEF resolveVersion

LEMMA PinChosen ==
    ASSUME PinIInv, NEW k \in Sessions, ChooseVersion(k)
    PROVE  Pinned(sess'[k])
<1>1. TypeOK /\ sess[k].kind = "canary" /\ sess[k].caller \in Callers
  BY HeldBySession DEF PinIInv, ChooseVersion
<1>2. PICK offered \in {canaryFor(sess[k].caller), NoVersion} :
         LET d == resolveVersion(ChainOf(sess[k], offered))
         IN sess' = [sess EXCEPT ![k] =
               [kind |-> IF d.version = NoVersion THEN "done" ELSE "build",
                caller |-> sess[k].caller, plan |-> sess[k].plan, result |-> "none",
                version |-> d.version, source |-> d.source]]
  BY DEF ChooseVersion
<1> DEFINE chain == ChainOf(sess[k], offered)
           d == resolveVersion(chain)
<1>3. chain \in Chain
  <2>1. offered \in Maybe
    BY <1>1, CanaryOffered DEF Maybe
  <2>2. QED
    BY <1>1, <2>1, ChainShape
<1>4. sess[k].caller.pin # NoVersion => chain.pin = sess[k].caller.pin
  BY DEF ChainOf, OrElse
<1> HIDE DEF chain
<1>5. sess[k].caller.pin # NoVersion => d.version = sess[k].caller.pin /\ d.source = "pin"
  BY <1>3, <1>4, PinDecides
<1>6. /\ sess'[k].caller = sess[k].caller /\ sess'[k].result = "none"
      /\ sess'[k].version = d.version /\ sess'[k].source = d.source
  BY <1>1, <1>2 DEF TypeOK, chain
<1> HIDE DEF d
<1>7. QED
  BY <1>5, <1>6 DEF Pinned

LEMMA PinServed ==
    ASSUME PinIInv, NEW k \in Sessions, Serve(k)
    PROVE  Pinned(sess'[k])
<1> DEFINE t == sess[k]
           row == build[<<t.version, t.plan>>]
           result == IF ~row.published THEN "noBuild"
                     ELSE IF Refused(t.caller, t.source, row) THEN "refused" ELSE "served"
<1>1. t \in ChosenSessions /\ t.kind = "build" /\ Pinned(t)
  BY HeldBySession DEF PinIInv, Serve
<1>2. sess'[k] = [t EXCEPT !.kind = "done", !.result = result]
  BY DEF Serve, PinIInv, TypeOK
<1>3. t.source = "pin" => result # "refused"
  BY DEF Refused
<1> HIDE DEF result
<1>4. /\ sess'[k].caller = t.caller /\ sess'[k].result = result
      /\ sess'[k].version = t.version /\ sess'[k].source = t.source
  BY <1>1, <1>2 DEF ChosenSessions
<1>5. QED
  BY <1>1, <1>3, <1>4 DEF Pinned

\* No request of an administrator writes what a session holds.
LEMMA AdminsLeaveSessions ==
    ASSUME NEW a \in Admins,
           Publishing(a) \/ Stewardship(a) \/ Pointing(a) \/ Releasing(a) \/ Abandon(a)
    PROVE  UNCHANGED sess
<1>1. CASE Publishing(a)
  BY <1>1 DEF Publishing, BeginPublish, StoreBytes, SaveRow
<1>2. CASE Stewardship(a)
  BY <1>2 DEF Stewardship, BeginPromote, BeginRetire, SaveRows
<1>3. CASE Pointing(a)
  BY <1>3 DEF Pointing, BeginSetDefault, BeginRollback, CheckRelease, CheckRollback, ReadPointer,
              WritePointer, Record
<1>4. CASE Releasing(a) \/ Abandon(a)
  BY <1>4 DEF Releasing, BeginCanary, SaveCanary, Abandon
<1>5. QED
  BY <1>1, <1>2, <1>3, <1>4

LEMMA PinNext == PinIInv /\ [Next]_vars => PinIInv'
<1> SUFFICES ASSUME PinIInv, [Next]_vars PROVE \A k \in Sessions : Pinned(sess'[k])
  BY TypeNext DEF PinIInv, Pinned
<1>1. ASSUME UNCHANGED sess
      PROVE  \A k \in Sessions : Pinned(sess'[k])
  BY <1>1 DEF PinIInv
<1>2. ASSUME NEW k \in Sessions, Session(k), Pinned(sess'[k])
      PROVE  \A j \in Sessions : Pinned(sess'[j])
  <2>1. \A j \in Sessions : j # k => sess'[j] = sess[j]
    BY <1>2 DEF Session, OpenSession, DecidePlan, ChooseVersion, Serve, PinIInv, TypeOK
  <2>2. QED
    BY <1>2, <2>1 DEF PinIInv
<1>3. ASSUME NEW k \in Sessions, DecidePlan(k) \/ \E c \in Callers : OpenSession(k, c)
      PROVE  Pinned(sess'[k])
  <2>1. sess'[k].kind \in {"plan", "canary"}
    BY <1>3 DEF DecidePlan, OpenSession, PinIInv, TypeOK
  <2>2. QED
    BY <2>1 DEF Pinned
<1>4. ASSUME NEW k \in Sessions, Session(k)
      PROVE  \A j \in Sessions : Pinned(sess'[j])
  BY <1>2, <1>3, <1>4, PinChosen, PinServed DEF Session
<1>5. ASSUME NEW a \in Admins,
             Publishing(a) \/ Stewardship(a) \/ Pointing(a) \/ Releasing(a) \/ Abandon(a)
      PROVE  UNCHANGED sess
  BY <1>5, AdminsLeaveSessions
<1>6. CASE \/ LoseBytes
           \/ \E v \in Versions, p \in Plans : RestoreBytes(v, p)
           \/ \E s \in Scopes : HaltCanary(s)
  BY <1>1, <1>6 DEF LoseBytes, RestoreBytes, HaltCanary
<1>7. CASE UNCHANGED vars
  BY <1>1, <1>7 DEF vars
<1>8. QED
  BY <1>1, <1>4, <1>5, <1>6, <1>7 DEF Next

\* A pinned caller gets its pin or nothing, and is never refused it, whatever
\* is promoted, retired, released or rolled back between the session's steps
\* (resolveForLicence, resolveVersion, session.service.ts).
THEOREM PinsAreKept == Spec => []PinIsAPromise
<1>1. PinIInv => PinIsAPromise
  BY DEF PinIInv, Pinned, PinIsAPromise, Answered
<1>2. QED
  BY <1>1, PinInit, PinNext, PTL DEF Spec

-----------------------------------------------------------------------------
(***************************************************************************)
(* What a default serves.  The plan is decided against a version read      *)
(* before the chain is resolved; when a default decides the chain, it is   *)
(* the same version, both of its rows are there, and they keep their       *)
(* bundles from the decision to the answer.                                *)
(***************************************************************************)

\* What an upload may make the build of a version and a plan.
OnOffer(v, p) == Offered[<<v, p>>] \cup (IF v = ShippedVersion THEN {Shipped[p]} ELSE {})

RowsOnOffer ==
    \A v \in Versions, p \in Plans : Published(v, p) => build[<<v, p>>].content \in OnOffer(v, p)

TasksOnOffer ==
    \A a \in Admins :
        task[a].kind = "publish" => task[a].row.content \in OnOffer(task[a].version, task[a].plan)

OfferIInv == RowsIInv /\ RowsOnOffer /\ TasksOnOffer

LEMMA OfferInit == Init => OfferIInv
<1> SUFFICES ASSUME Init PROVE OfferIInv
  OBVIOUS
<1>1. RowsOnOffer
  BY RegistryAssumption DEF Init, RowsOnOffer, OnOffer, Published, NoRow
<1>2. TasksOnOffer
  BY DEF Init, TasksOnOffer, Idle
<1>3. QED
  BY <1>1, <1>2, RowsInit DEF OfferIInv

\* A step that publishes nothing: the rows that are there were there.
LEMMA OfferQuiet ==
    ASSUME OfferIInv, Kept,
           \A v \in Versions, p \in Plans : Published(v, p)' => Published(v, p),
           \A a \in Admins : task'[a] = task[a] \/ task'[a].kind # "publish"
    PROVE  RowsOnOffer' /\ TasksOnOffer'
<1>1. RowsOnOffer'
  BY DEF OfferIInv, RowsOnOffer, OnOffer, Published, Kept
<1>2. TasksOnOffer'
  BY DEF OfferIInv, TasksOnOffer, OnOffer
<1>3. QED
  BY <1>1, <1>2

LEMMA OfferPublishing ==
    ASSUME OfferIInv, Kept, NEW a \in Admins, Publishing(a)
    PROVE  RowsOnOffer' /\ TasksOnOffer'
<1>0. TypeOK
  BY DEF OfferIInv, RowsIInv
<1>1. ASSUME NEW v \in Versions, NEW p \in Plans, NEW c \in Offered[<<v, p>>],
             BeginPublish(a, v, p, c)
      PROVE  RowsOnOffer' /\ TasksOnOffer'
  <2>1. PICK as \in PublishAs :
          Start(a, [kind |-> "publish", todo |-> PublishSteps(as.bytes), version |-> v, plan |-> p,
                    row |-> [published |-> TRUE, channel |-> as.channel, status |-> "published",
                             content |-> c, bytes |-> as.bytes]])
    BY <1>1 DEF BeginPublish
  <2>2. /\ task'[a].version = v /\ task'[a].plan = p /\ task'[a].row.content = c
        /\ \A b \in Admins : b # a => task'[b] = task[b]
    BY <1>0, <2>1, Holds, OthersWait
  <2>3. build' = build
    BY <1>1 DEF BeginPublish, registry
  <2>4. c \in OnOffer(v, p)
    BY DEF OnOffer
  <2>5. QED
    BY <2>2, <2>3, <2>4 DEF OfferIInv, RowsOnOffer, TasksOnOffer, OnOffer, Published
<1>2. CASE StoreBytes(a) \/ SaveRow(a)
  <2>1. /\ task[a] \in PublishTasks /\ task[a].kind = "publish"
        /\ task[a].version \in Versions /\ task[a].plan \in Plans
    BY <1>0, <1>2, PublishShape DEF StoreBytes, SaveRow, PublishStep
  <2>2. /\ \A b \in Admins : a # b => task'[b] = task[b]
        /\ \/ task'[a] = Idle
           \/ task'[a] = [task[a] EXCEPT !.todo = <<"save">>]
    BY <1>0, <1>2, <2>1, AfterStepHolds DEF StoreBytes, SaveRow
  <2>3. \/ task'[a].kind # "publish"
        \/ /\ task'[a].version = task[a].version /\ task'[a].plan = task[a].plan
           /\ task'[a].row = task[a].row
    BY <2>1, <2>2 DEF Idle, PublishTasks
  <2>4. TasksOnOffer'
    BY <2>1, <2>2, <2>3 DEF OfferIInv, TasksOnOffer, OnOffer
  <2>5. \A v \in Versions, p \in Plans :
            \/ build'[<<v, p>>] = build[<<v, p>>]
            \/ v = task[a].version /\ p = task[a].plan /\ build'[<<v, p>>] = task[a].row
    <3>1. CASE StoreBytes(a)
      BY <3>1 DEF StoreBytes
    <3>2. CASE SaveRow(a)
      <4>1. PICK u \in Versions, q \in Plans : u = task[a].version /\ q = task[a].plan
        BY <2>1
      <4>2. build' = [build EXCEPT ![<<u, q>>] = UniqueInsert(build[<<u, q>>], task[a].row)]
        BY <3>2, <4>1 DEF SaveRow
      <4>3. \A k \in Versions \X Plans :
                build'[k] = build[k] \/ (k = <<u, q>> /\ build'[k] = task[a].row)
        BY <1>0, <4>2 DEF UniqueInsert, TypeOK
      <4>4. QED
        BY <4>1, <4>3
    <3>3. QED
      BY <1>2, <3>1, <3>2
  <2>6. ASSUME NEW v \in Versions, NEW p \in Plans, build'[<<v, p>>].published
        PROVE  build'[<<v, p>>].content \in OnOffer(v, p)
    <3>1. CASE build'[<<v, p>>] = build[<<v, p>>]
      BY <2>6, <3>1 DEF OfferIInv, RowsOnOffer, Published
    <3>2. CASE v = task[a].version /\ p = task[a].plan /\ build'[<<v, p>>] = task[a].row
      BY <2>1, <3>2 DEF OfferIInv, TasksOnOffer
    <3>3. QED
      BY <2>5, <3>1, <3>2
  <2>7. QED
    BY <2>4, <2>6 DEF RowsOnOffer, OnOffer, Published
<1>3. QED
  BY <1>1, <1>2 DEF Publishing

\* The copies that promote and retire save were taken of rows that are there.
LEMMA OfferStewardship ==
    ASSUME OfferIInv, Kept, NEW a \in Admins, Stewardship(a)
    PROVE  RowsOnOffer' /\ TasksOnOffer'
<1>0. TypeOK /\ CopiesAgree
  BY DEF OfferIInv, RowsIInv
<1>1. \A b \in Admins : task'[b] = task[b] \/ task'[b].kind # "publish"
  BY <1>0, StewardshipHolds
<1>2. \A v \in Versions, p \in Plans : Published(v, p)' => Published(v, p)
  <2>1. CASE SaveRows(a)
    BY <1>0, <2>1 DEF SaveRows, CopiesAgree, Published
  <2>2. CASE build' = build
    BY <2>2 DEF Published
  <2>3. QED
    BY <2>1, <2>2 DEF Stewardship, BeginPromote, BeginRetire, registry
<1>3. QED
  BY <1>1, <1>2, OfferQuiet

LEMMA ElsewhereHolds ==
    ASSUME TypeOK, NEW a \in Admins, Pointing(a) \/ Releasing(a) \/ Abandon(a)
    PROVE  /\ build' = build
           /\ \A b \in Admins : task'[b] = task[b] \/ task'[b].kind # "publish"
<1>1. build' = build
  BY DEF Pointing, BeginSetDefault, BeginRollback, CheckRelease, CheckRollback, ReadPointer,
         WritePointer, Record, Releasing, BeginCanary, SaveCanary, Abandon, registry
<1>2. ASSUME NEW t, Start(a, t) \/ Continue(a, t) \/ Done(a), t.kind # "publish"
      PROVE  \A b \in Admins : task'[b] = task[b] \/ task'[b].kind # "publish"
  BY <1>2, Holds, OthersWait DEF Idle
<1>3. Idle.kind # "publish"
  BY DEF Idle
<1>4. ASSUME NEW s \in Scopes, NEW v \in Versions, BeginSetDefault(a, s, v)
      PROVE  \A b \in Admins : task'[b] = task[b] \/ task'[b].kind # "publish"
  BY <1>2, <1>4 DEF BeginSetDefault
<1>5. ASSUME NEW s \in Scopes, BeginRollback(a, s)
      PROVE  \A b \in Admins : task'[b] = task[b] \/ task'[b].kind # "publish"
  BY <1>2, <1>5 DEF BeginRollback
<1>6. ASSUME CheckRelease(a) \/ CheckRollback(a)
      PROVE  \A b \in Admins : task'[b] = task[b] \/ task'[b].kind # "publish"
  <2> DEFINE t == [task[a] EXCEPT !.kind = "readPointer"]
  <2>1. task[a] \in PointerTasks
    BY <1>6, TaskShape DEF CheckRelease, CheckRollback, TypeOK
  <2>2. t.kind = "readPointer"
    BY <2>1 DEF PointerTasks
  <2>3. Continue(a, t)
    BY <1>6 DEF CheckRelease, CheckRollback
  <2> HIDE DEF t
  <2>4. QED
    BY <1>2, <2>2, <2>3
<1>7. ASSUME ReadPointer(a)
      PROVE  \A b \in Admins : task'[b] = task[b] \/ task'[b].kind # "publish"
  <2> DEFINE t == [kind |-> "writePointer", scope |-> task[a].scope,
                   version |-> task[a].version, rollback |-> task[a].rollback,
                   from |-> default[task[a].scope]]
  <2>1. t.kind # "publish" /\ Continue(a, t)
    BY <1>7 DEF ReadPointer
  <2> HIDE DEF t
  <2>2. QED
    BY <1>2, <2>1
<1>8. ASSUME WritePointer(a)
      PROVE  \A b \in Admins : task'[b] = task[b] \/ task'[b].kind # "publish"
  <2> DEFINE t == [kind |-> "record", scope |-> task[a].scope, from |-> task[a].from]
  <2>1. t.kind # "publish" /\ (Continue(a, t) \/ Done(a))
    BY <1>8 DEF WritePointer
  <2> HIDE DEF t
  <2>2. QED
    BY <1>2, <2>1
<1>9. ASSUME Record(a) \/ SaveCanary(a) \/ Abandon(a)
      PROVE  \A b \in Admins : task'[b] = task[b] \/ task'[b].kind # "publish"
  <2>1. Done(a)
    BY <1>9 DEF Record, SaveCanary, Abandon
  <2>2. task'[a] = Idle /\ \A b \in Admins : b # a => task'[b] = task[b]
    BY <2>1, Holds, OthersWait
  <2>3. QED
    BY <1>3, <2>2
<1>10. ASSUME NEW s \in Scopes, NEW v \in Versions, NEW percent \in Percents,
              BeginCanary(a, s, v, percent)
       PROVE  \A b \in Admins : task'[b] = task[b] \/ task'[b].kind # "publish"
  BY <1>2, <1>10 DEF BeginCanary
<1>11. QED
  BY <1>1, <1>4, <1>5, <1>6, <1>7, <1>8, <1>9, <1>10 DEF Pointing, Releasing

LEMMA OfferNext == OfferIInv /\ [Next]_vars => OfferIInv'
<1> SUFFICES ASSUME OfferIInv, [Next]_vars PROVE RowsOnOffer' /\ TasksOnOffer'
  BY RowsNext DEF OfferIInv
<1>0. TypeOK /\ Kept
  BY RowsNext DEF OfferIInv, RowsIInv
<1>1. ASSUME build' = build, \A a \in Admins : task'[a] = task[a] \/ task'[a].kind # "publish"
      PROVE  RowsOnOffer' /\ TasksOnOffer'
  BY <1>0, <1>1, OfferQuiet DEF Published
<1>2. CASE LoseBytes \/ \E v \in Versions, p \in Plans : RestoreBytes(v, p)
  BY <1>1, <1>2 DEF LoseBytes, RestoreBytes
<1>3. ASSUME NEW s \in Scopes, HaltCanary(s)
      PROVE  RowsOnOffer' /\ TasksOnOffer'
  <2>1. \A b \in Admins : task'[b] = task[b] \/ task'[b].kind # "publish"
    BY <1>0, <1>3, HaltedTasks
  <2>2. QED
    BY <1>1, <1>3, <2>1 DEF HaltCanary
<1>4. ASSUME NEW k \in Sessions, Session(k)
      PROVE  RowsOnOffer' /\ TasksOnOffer'
  BY <1>1, <1>4 DEF Session, OpenSession, DecidePlan, ChooseVersion, Serve, registry
<1>5. ASSUME NEW a \in Admins, Pointing(a) \/ Releasing(a) \/ Abandon(a)
      PROVE  RowsOnOffer' /\ TasksOnOffer'
  BY <1>0, <1>1, <1>5, ElsewhereHolds
<1>6. CASE UNCHANGED vars
  BY <1>1, <1>6 DEF vars, registry
<1>7. QED
  BY <1>0, <1>2, <1>3, <1>4, <1>5, <1>6, OfferPublishing, OfferStewardship DEF Next

\* The default that decides when nothing else does: the version for the plan.
DefaultFor(t) == OrElse(t.channelDefault, t.globalDefault)

\* A caller whose chain only a default can decide.
OnDefault(c) == c.licensed /\ c.pin = NoVersion /\ c.override = NoVersion

FreeFits(k) ==
    /\ (/\ sess[k].kind = "canary" /\ sess[k].plan = "free" /\ OnDefault(sess[k].caller)
        /\ DefaultFor(sess[k]) # NoVersion)
       => Wanted(sess[k].caller.features) \subseteq SupportsOf(DefaultFor(sess[k]))["free"]
    /\ (/\ sess[k].kind \in {"build", "done"} /\ sess[k].caller.licensed
        /\ sess[k].source \in {"channel", "global"})
       => /\ sess[k].version \in Versions /\ Full(sess[k].version)
          /\ sess[k].plan = "free" =>
                Wanted(sess[k].caller.features) \subseteq SupportsOf(sess[k].version)["free"]

CoverIInv == MatrixIInv /\ \A k \in Sessions : FreeFits(k)

LEMMA CoverInit == Init => CoverIInv
  BY MatrixInit DEF Init, CoverIInv, FreeFits, Idle

\* What a version that has both builds supports does not change.
LEMMA SupportKept ==
    ASSUME TypeOK, Kept, NEW v \in Versions, Full(v), NEW p \in Plans
    PROVE  SupportsOf(v)[p]' = SupportsOf(v)[p] /\ Full(v)'
<1>1. /\ build[<<v, p>>].published /\ build'[<<v, p>>].published
      /\ build'[<<v, p>>].content = build[<<v, p>>].content
  BY DEF Full, Kept
<1>2. \A q \in Plans : build'[<<v, q>>].published
  BY DEF Full, Kept
<1>3. QED
  BY <1>1, <1>2 DEF SupportsOf, Published, Full

\* The free build is the plan only if it supports all that the package grants.
LEMMA FreeIsEnough ==
    ASSUME NEW t, NEW answered \in BOOLEAN, OnDefault(t.caller), DefaultFor(t) # NoVersion,
           PlanFor(t, answered) = "free"
    PROVE  Wanted(t.caller.features) \subseteq SupportsOf(DefaultFor(t))["free"]
<1>1. versionForPlan(t) = DefaultFor(t)
  BY DEF versionForPlan, OnDefault, DefaultFor, OrElse
<1>2. \/ Wanted(t.caller.features) = {}
      \/ covers(Wanted(t.caller.features), SupportsOf(DefaultFor(t))["free"])
  BY <1>1 DEF PlanFor, planForFeatures, OnDefault
<1>3. QED
  BY <1>2 DEF covers

\* A default decides only what the pin, the override and the canary left open,
\* and the channel's comes first.
LEMMA DefaultDecides ==
    ASSUME NEW chain \in Chain, resolveVersion(chain).source \in {"channel", "global"}
    PROVE  /\ chain.pin = NoVersion /\ chain.override = NoVersion
           /\ resolveVersion(chain).version = OrElse(chain.channel, chain.global)
<1> DEFINE found(k) == /\ chain[Steps[k]] # NoVersion
                       /\ \A j \in 1 .. (k - 1) : chain[Steps[j]] = NoVersion
           k == CHOOSE k \in 1 .. 5 : found(k)
<1>1. resolveVersion(chain).source = decidingStep(chain)
  BY DEF resolveVersion
<1>2. ~ \A i \in 1 .. 5 : chain[Steps[i]] = NoVersion
  BY <1>1 DEF decidingStep
<1>3. decidingStep(chain) = Steps[k]
  BY <1>2 DEF decidingStep
<1>4. /\ Steps[1] = "pin" /\ Steps[2] = "override" /\ Steps[3] = "canary"
      /\ Steps[4] = "channel" /\ Steps[5] = "global"
  BY DEF Steps
<1>5. \E i \in 1 .. 5 : found(i)
  BY <1>2, SomeStepDecides
<1>6. k \in 1 .. 5 /\ found(k)
  BY <1>5
<1> HIDE DEF k
<1>7. k \in {4, 5}
  BY <1>1, <1>3, <1>4, <1>6
<1>8. chain[Steps[1]] = NoVersion /\ chain[Steps[2]] = NoVersion
  BY <1>6, <1>7
<1>9. decidingStep(chain) # "none" /\ resolveVersion(chain).version = chain[Steps[k]]
  BY <1>1, <1>3 DEF resolveVersion
<1>10. CASE k = 4
  <2>1. chain["channel"] # NoVersion /\ resolveVersion(chain).version = chain["channel"]
    BY <1>4, <1>6, <1>9, <1>10
  <2>2. QED
    BY <1>4, <1>8, <2>1 DEF OrElse
<1>11. CASE k = 5
  <2>1. chain["channel"] = NoVersion /\ resolveVersion(chain).version = chain["global"]
    BY <1>4, <1>6, <1>9, <1>11
  <2>2. QED
    BY <1>4, <1>8, <2>1 DEF OrElse
<1>12. QED
  BY <1>7, <1>10, <1>11

LEMMA FitsKept ==
    ASSUME CoverIInv, Kept, NEW k \in Sessions, sess'[k] = sess[k]
    PROVE  FreeFits(k)'
<1>0. TypeOK /\ FreeFits(k) /\ SessionFull(k)
  BY DEF CoverIInv, MatrixIInv, RowsIInv, SessionsFull
<1>1. ASSUME sess[k].kind = "canary", sess[k].plan = "free", OnDefault(sess[k].caller),
             DefaultFor(sess[k]) # NoVersion
      PROVE  Wanted(sess[k].caller.features) \subseteq SupportsOf(DefaultFor(sess[k]))["free"]'
  <2>1. PICK v \in Versions : v = DefaultFor(sess[k]) /\ Full(v)
    BY <1>0, <1>1, HeldBySession DEF SessionFull, DefaultFor, OrElse, Maybe
  <2>2. SupportsOf(v)["free"]' = SupportsOf(v)["free"]
    BY <1>0, <2>1, SupportKept DEF Plans
  <2>3. Wanted(sess[k].caller.features) \subseteq SupportsOf(v)["free"]'
    BY <1>0, <1>1, <2>1, <2>2 DEF FreeFits
  <2>4. QED
    BY <2>1, <2>3 DEF DefaultFor
<1>2. ASSUME sess[k].kind \in {"build", "done"}, sess[k].caller.licensed,
             sess[k].source \in {"channel", "global"}
      PROVE  /\ sess[k].version \in Versions /\ Full(sess[k].version)'
             /\ sess[k].plan = "free" =>
                   Wanted(sess[k].caller.features) \subseteq SupportsOf(sess[k].version)["free"]'
  <2>1. PICK v \in Versions : v = sess[k].version /\ Full(v)
    BY <1>0, <1>2 DEF FreeFits
  <2>2. SupportsOf(v)["free"]' = SupportsOf(v)["free"] /\ Full(v)'
    BY <1>0, <2>1, SupportKept DEF Plans
  <2>3. sess[k].plan = "free" => Wanted(sess[k].caller.features) \subseteq SupportsOf(v)["free"]'
    BY <1>0, <1>2, <2>1, <2>2 DEF FreeFits
  <2>4. sess'[k].version = v /\ sess[k].version \in Versions
    BY <2>1
  <2>5. Full(sess[k].version)'
    BY <2>2, <2>4 DEF Full
  <2>6. QED
    BY <2>3, <2>4, <2>5
<1>3. QED
  BY <1>1, <1>2 DEF FreeFits, OnDefault, DefaultFor

\* The plan is decided.
LEMMA PlanFits ==
    ASSUME CoverIInv, NEW k \in Sessions, DecidePlan(k)
    PROVE  FreeFits(k)'
<1>0. TypeOK /\ build' = build
  BY DEF CoverIInv, MatrixIInv, RowsIInv, DecidePlan, registry
<1>1. PICK answered \in BOOLEAN :
         sess' = [sess EXCEPT ![k] =
            [kind |-> "canary", caller |-> sess[k].caller,
             plan |-> PlanFor(sess[k], answered),
             channelDefault |-> sess[k].channelDefault,
             globalDefault |-> sess[k].globalDefault]]
  BY DEF DecidePlan
<1>2. /\ sess'[k].kind = "canary" /\ sess'[k].caller = sess[k].caller
      /\ sess'[k].plan = PlanFor(sess[k], answered)
      /\ sess'[k].channelDefault = sess[k].channelDefault
      /\ sess'[k].globalDefault = sess[k].globalDefault
  BY <1>0, <1>1 DEF TypeOK
<1>3. ASSUME sess'[k].plan = "free", OnDefault(sess[k].caller), DefaultFor(sess[k]) # NoVersion
      PROVE  Wanted(sess[k].caller.features) \subseteq SupportsOf(DefaultFor(sess[k]))["free"]
  BY <1>2, <1>3, FreeIsEnough
<1>4. DefaultFor(sess[k])' = DefaultFor(sess[k])
  BY <1>2 DEF DefaultFor
<1>5. \A v : SupportsOf(v)' = SupportsOf(v)
  BY <1>0 DEF SupportsOf, Published
<1>6. QED
  BY <1>2, <1>3, <1>4, <1>5 DEF FreeFits

\* The version is chosen: by a default, only the one the plan was decided for.
LEMMA ChoiceFits ==
    ASSUME CoverIInv, NEW k \in Sessions, ChooseVersion(k)
    PROVE  FreeFits(k)'
<1>0. TypeOK /\ FreeFits(k) /\ SessionFull(k) /\ build' = build
  BY DEF CoverIInv, MatrixIInv, RowsIInv, SessionsFull, ChooseVersion, registry
<1>1. /\ sess[k].kind = "canary" /\ sess[k].caller \in Callers
      /\ sess[k].channelDefault \in Maybe /\ sess[k].globalDefault \in Maybe
  BY <1>0, HeldBySession DEF ChooseVersion
<1>2. PICK offered \in {canaryFor(sess[k].caller), NoVersion} :
         LET d == resolveVersion(ChainOf(sess[k], offered))
         IN sess' = [sess EXCEPT ![k] =
               [kind |-> IF d.version = NoVersion THEN "done" ELSE "build",
                caller |-> sess[k].caller, plan |-> sess[k].plan, result |-> "none",
                version |-> d.version, source |-> d.source]]
  BY DEF ChooseVersion
<1> DEFINE chain == ChainOf(sess[k], offered)
           d == resolveVersion(chain)
<1>3. /\ chain \in Chain /\ chain.channel = sess[k].channelDefault
      /\ chain.global = sess[k].globalDefault
  <2>1. offered \in Maybe
    BY <1>0, <1>1, CanaryOffered DEF Maybe
  <2>2. QED
    BY <1>0, <1>1, <2>1, ChainShape
<1>4. chain.pin = OrElse(sess[k].caller.pin, sess[k].caller.asks)
      /\ chain.override = sess[k].caller.override
  BY DEF ChainOf
<1> HIDE DEF chain
<1>5. /\ sess'[k].kind # "canary" /\ sess'[k].caller = sess[k].caller
      /\ sess'[k].plan = sess[k].plan
      /\ sess'[k].version = d.version /\ sess'[k].source = d.source
  BY <1>0, <1>2 DEF TypeOK, chain
<1>6. d.source # "none" => d.version # NoVersion
  BY <1>3, Resolution
<1>7. d.source \in {"channel", "global"} =>
         /\ sess[k].caller.pin = NoVersion /\ sess[k].caller.override = NoVersion
         /\ d.version = DefaultFor(sess[k]) /\ d.version # NoVersion
  BY <1>3, <1>4, <1>6, DefaultDecides DEF DefaultFor, OrElse
<1> HIDE DEF d
<1>8. ASSUME sess'[k].caller.licensed, sess'[k].source \in {"channel", "global"}
      PROVE  /\ d.version \in Versions /\ Full(d.version)
             /\ sess'[k].plan = "free" =>
                   Wanted(sess[k].caller.features) \subseteq SupportsOf(d.version)["free"]
  <2>1. OnDefault(sess[k].caller) /\ d.version = DefaultFor(sess[k]) /\ d.version # NoVersion
    BY <1>5, <1>7, <1>8 DEF OnDefault
  <2>2. d.version \in Versions /\ Full(d.version)
    BY <1>0, <1>1, <2>1 DEF SessionFull, DefaultFor, OrElse, Maybe
  <2>3. QED
    BY <1>0, <1>1, <1>5, <2>1, <2>2 DEF FreeFits
<1>9. \A v : SupportsOf(v)' = SupportsOf(v) /\ Full(v)' = Full(v)
  BY <1>0 DEF SupportsOf, Published, Full
<1>10. QED
  <2>1. PICK v : v = d.version
    OBVIOUS
  <2>2. ASSUME sess'[k].caller.licensed, sess'[k].source \in {"channel", "global"}
        PROVE  /\ sess'[k].version \in Versions /\ Full(v)'
               /\ sess'[k].plan = "free" =>
                     Wanted(sess[k].caller.features) \subseteq SupportsOf(v)["free"]'
    BY <1>5, <1>8, <1>9, <2>1, <2>2
  <2>3. QED
    BY <1>5, <2>1, <2>2 DEF FreeFits, SupportsOf, Full, Published

\* The build is read: the session keeps what it chose.
LEMMA ServiceFits ==
    ASSUME CoverIInv, NEW k \in Sessions, Serve(k)
    PROVE  FreeFits(k)'
<1>0. TypeOK /\ FreeFits(k) /\ build' = build
  BY DEF CoverIInv, MatrixIInv, RowsIInv, Serve, registry
<1>1. sess[k] \in ChosenSessions /\ sess[k].kind = "build"
  BY <1>0, HeldBySession DEF Serve
<1>2. PICK r : sess'[k] = [sess[k] EXCEPT !.kind = "done", !.result = r]
  BY <1>0 DEF Serve, TypeOK
<1>3. /\ sess'[k].kind = "done" /\ sess'[k].caller = sess[k].caller
      /\ sess'[k].plan = sess[k].plan /\ sess'[k].source = sess[k].source
      /\ sess'[k].version = sess[k].version
  BY <1>1, <1>2 DEF ChosenSessions
<1>4. QED
  BY <1>0, <1>1, <1>3 DEF FreeFits, SupportsOf, Published, Full

LEMMA CoverNext == CoverIInv /\ [Next]_vars => CoverIInv'
<1> SUFFICES ASSUME CoverIInv, [Next]_vars PROVE \A k \in Sessions : FreeFits(k)'
  BY MatrixNext DEF CoverIInv
<1>0. TypeOK /\ Kept
  BY RowsNext DEF CoverIInv, MatrixIInv, RowsIInv
<1>1. ASSUME UNCHANGED sess
      PROVE  \A k \in Sessions : FreeFits(k)'
  BY <1>0, <1>1, FitsKept
<1>2. ASSUME NEW k \in Sessions, Session(k)
      PROVE  \A j \in Sessions : FreeFits(j)'
  <2>1. \A j \in Sessions : j # k => sess'[j] = sess[j]
    BY <1>0, <1>2 DEF Session, OpenSession, DecidePlan, ChooseVersion, Serve, TypeOK
  <2>2. ASSUME NEW c \in Callers, OpenSession(k, c) PROVE FreeFits(k)'
    <3>1. sess'[k].kind = "plan"
      BY <1>0, <2>2 DEF OpenSession, TypeOK
    <3>2. QED
      BY <3>1 DEF FreeFits
  <2>3. FreeFits(k)'
    BY <1>2, <2>2, PlanFits, ChoiceFits, ServiceFits DEF Session
  <2>4. QED
    BY <1>0, <2>1, <2>3, FitsKept
<1>3. ASSUME NEW a \in Admins,
             Publishing(a) \/ Stewardship(a) \/ Pointing(a) \/ Releasing(a) \/ Abandon(a)
      PROVE  UNCHANGED sess
  BY <1>3, AdminsLeaveSessions
<1>4. CASE \/ LoseBytes
           \/ \E v \in Versions, p \in Plans : RestoreBytes(v, p)
           \/ \E s \in Scopes : HaltCanary(s)
  BY <1>1, <1>4 DEF LoseBytes, RestoreBytes, HaltCanary
<1>5. CASE UNCHANGED vars
  BY <1>1, <1>5 DEF vars
<1>6. QED
  BY <1>1, <1>2, <1>3, <1>4, <1>5 DEF Next

\* A licensed caller on a default is given the free build only when that build
\* has every feature of its package.
FreeBuildSuffices ==
    \A k \in Sessions :
        (/\ Answered(k) /\ sess[k].caller.licensed /\ sess[k].plan = "free"
         /\ sess[k].source \in {"channel", "global"})
        => Wanted(sess[k].caller.features) \subseteq ServedSupport(k)

\* Whatever is published, promoted, released or rolled back between the reads
\* of a session, and whatever bundles there are: the cheaper build never costs
\* a licensed caller on a default a feature (planForFeatures, openSession).
THEOREM FreeNeverUnderserves == Spec => []FreeBuildSuffices
<1>1. CoverIInv => FreeBuildSuffices
  BY DEF CoverIInv, FreeFits, FreeBuildSuffices, Answered, ServedSupport
<1>2. QED
  BY <1>1, CoverInit, CoverNext, PTL DEF Spec

\* What the code takes for granted when it falls back to "the RICHER plan".
PremiumIsRicher ==
    \A v \in Versions : \A f \in OnOffer(v, "free"), c \in OnOffer(v, "premium") :
        Supports[f] \subseteq Supports[c]

\* A licensed caller on a default gets every feature of its package, when the
\* version has a build with them and the premium build of a version is its
\* richer one: for every order of administrators' and sessions' steps, and
\* with the registry failing to answer.
THEOREM DefaultsServeThePackage ==
    ASSUME PremiumIsRicher
    PROVE  Spec => []DefaultBuildCovers
<1>1. CoverIInv /\ OfferIInv => DefaultBuildCovers
  <2> SUFFICES ASSUME CoverIInv, OfferIInv, NEW k \in Sessions, Answered(k),
                      sess[k].caller.licensed, sess[k].source \in {"channel", "global"},
                      CoveredBySome(k)
               PROVE  Wanted(sess[k].caller.features) \subseteq ServedSupport(k)
    BY DEF DefaultBuildCovers
  <2>1. TypeOK /\ FreeFits(k) /\ sess[k].plan \in Plans /\ sess[k].kind = "done"
    BY HeldBySession DEF CoverIInv, MatrixIInv, RowsIInv, Answered
  <2>2. PICK v \in Versions : v = sess[k].version /\ Full(v)
    BY <2>1 DEF FreeFits
  <2>3. Published(v, "free") /\ Published(v, "premium")
    BY <2>2 DEF Full, Published, Plans
  <2>4. /\ build[<<v, "free">>].content \in OnOffer(v, "free")
        /\ build[<<v, "premium">>].content \in OnOffer(v, "premium")
    BY <2>3 DEF OfferIInv, RowsOnOffer, Plans
  <2>5. SupportsOf(v)["free"] \subseteq SupportsOf(v)["premium"]
    BY <2>3, <2>4 DEF PremiumIsRicher, SupportsOf, Plans
  <2>6. CASE sess[k].plan = "free"
    BY <2>1, <2>2, <2>6 DEF FreeFits, ServedSupport
  <2>7. CASE sess[k].plan = "premium"
    BY <2>2, <2>5, <2>7 DEF CoveredBySome, ServedSupport, Plans
  <2>8. QED
    BY <2>1, <2>6, <2>7 DEF Plans
<1>2. QED
  BY <1>1, CoverInit, CoverNext, OfferInit, OfferNext, PTL DEF Spec
=============================================================================
