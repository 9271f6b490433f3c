--------------------------- MODULE EngineRegistry ---------------------------
(***************************************************************************)
(* The engine version registry of src/licensing/engine-version.service.ts: *)
(* builds published into a store of bytes and a table of rows, the default *)
(* pointers, their history and the gradual releases, moved by              *)
(* administrators, while sessions of src/delivery resolve against them.    *)
(*                                                                         *)
(* Every await is a step: an administrator's request checks, reads, then   *)
(* writes; a session reads the defaults, decides the plan, looks for a     *)
(* canary, then reads the build.  save(rows) writes the whole stale copy,  *)
(* as repo.save does outside a transaction.                                *)
(***************************************************************************)
EXTENDS VersionResolution, FiniteSets, Sequences

CONSTANTS
    Contents,       \* bundles, each known by its digest
    Supports,       \* the feature manifest of each bundle
    Offered,        \* what may be uploaded for a (version, plan)
    Scopes,         \* default scopes this instance uses
    PublishAs,      \* channels builds are published on, with or without bytes
    PromoteTo,      \* channels a version is promoted to
    Percents,       \* percentages a gradual release is ramped to
    Callers,        \* who opens sessions
    Admins, Sessions,
    Ops,            \* the handlers this instance lets run
    Shipped,        \* bundles out at the start: a version complete and default
    ShippedVersion

GLOBAL_SCOPE == "global"
channelScope == [ch \in Channels |->
    IF ch = "stable" THEN "channel:stable"
    ELSE IF ch = "beta" THEN "channel:beta" ELSE "channel:internal"]
AllScopes == {GLOBAL_SCOPE} \cup {channelScope[ch] : ch \in Channels}
REQUIRED_PLANS == {"free", "premium"}

AllOps == {"publish", "setDefault", "rollback", "promote", "retire",
           "canary", "halt", "restore", "loseBytes"}

\* A caller as resolveLicensed and resolveAnonymous see it: what its licence
\* row says, the version it asks for, the features of its package (of the
\* default package for an anonymous one), and its bucket in each release.
\* `derived` says an anonymous caller's plan follows its features.
Caller == [licensed: BOOLEAN, pin: Maybe, override: Maybe, asks: Maybe,
           channel: Channels, features: SUBSET (UNION {Supports[c] : c \in Contents} \cup {ALL_FEATURES}),
           derived: BOOLEAN, identified: BOOLEAN, bucket: [Versions -> 0 .. 99]]

ASSUME RegistryAssumption ==
    /\ \A c \in Contents : Supports[c] # {} /\ ALL_FEATURES \notin Supports[c]
    /\ Offered \in [Versions \X Plans -> SUBSET Contents]
    /\ Scopes \subseteq AllScopes /\ PromoteTo \subseteq Channels
    /\ PublishAs \subseteq [channel: Channels, bytes: BOOLEAN]
    /\ Percents \subseteq 0 .. 100
    /\ Callers \subseteq Caller
    /\ Ops \subseteq AllOps
    /\ ShippedVersion \in Versions
    /\ Shipped \in [Plans -> Contents]

VARIABLES
    build,     \* engine_versions: the row of each (version, plan)
    stored,    \* bundle storage: digests whose bytes are there
    default,   \* engine_defaults
    previous,  \* engine_default_history: fromVersion of a scope's newest record
    canary,    \* engine_canaries
    task,      \* what each administrator's request holds
    sess,      \* what each session request holds
    \* History, which no handler reads:
    lost,      \* digests a redeploy separated from their rows
    chosen     \* every version a release ever pointed a scope at

registry == <<build, stored, default, previous, canary, lost, chosen>>
vars == <<registry, task, sess>>

NoRow == [published |-> FALSE]
Row == [published: {TRUE}, channel: Channels, status: {"published", "retired"},
        content: Contents, bytes: BOOLEAN]   \* bytes: uploaded with the row
NoCanary == [version |-> NoVersion, percent |-> 0]
Idle == [kind |-> "idle"]

Published(v, p) == build[<<v, p>>].published
RowsOf(v) == [p \in Plans |-> build[<<v, p>>]]

\* The features each plan of v supports, {} where there is no row.
SupportsOf(v) ==
    [p \in Plans |-> IF Published(v, p) THEN Supports[build[<<v, p>>].content] ELSE {}]

\* (fault) counts one plan's build as a version
HasSomeBuild(v) ==
    \E p \in REQUIRED_PLANS : Published(v, p) /\ build[<<v, p>>].content \in stored

\* Every required plan has a row whose bytes are in storage.
isComplete(v) ==
    \A p \in REQUIRED_PLANS : Published(v, p) /\ build[<<v, p>>].content \in stored

Start(a, t) == task[a] = Idle /\ task' = [task EXCEPT ![a] = t]
Continue(a, t) == task' = [task EXCEPT ![a] = t]
Done(a) == task' = [task EXCEPT ![a] = Idle]

-----------------------------------------------------------------------------
(* Publishing *)

\* (fault) the row is committed before the bytes are stored
RowFirst(bytes) == IF bytes THEN <<"save", "store">> ELSE <<"save">>

\* Bytes before the row; a publish of metadata alone stores none.
PublishSteps(bytes) == IF bytes THEN <<"store", "save">> ELSE <<"save">>

\* publishBuild: refused when a row exists.
BeginPublish(a, v, p, c) ==
    /\ "publish" \in Ops
    /\ ~Published(v, p)
    /\ \E as \in PublishAs :
          Start(a, [kind |-> "publish", todo |-> PublishSteps(as.bytes), version |-> v, plan |-> p,
                    row |-> [published |-> TRUE, channel |-> as.channel, status |-> "published",
                             content |-> c, bytes |-> as.bytes]])
    /\ UNCHANGED <<registry, sess>>

PublishStep(a, step) == task[a].kind = "publish" /\ Head(task[a].todo) = step

AfterStep(a) ==
    IF Tail(task[a].todo) = <<>> THEN Done(a)
    ELSE Continue(a, [task[a] EXCEPT !.todo = Tail(@)])

StoreBytes(a) ==
    /\ PublishStep(a, "store")
    /\ stored' = stored \cup {task[a].row.content}
    /\ AfterStep(a)
    /\ UNCHANGED <<build, default, previous, canary, lost, chosen, sess>>

\* The unique (version, plan) index refuses a second insert.
UniqueInsert(current, row) == IF current.published THEN current ELSE row

SaveRow(a) ==
    /\ PublishStep(a, "save")
    /\ build' = [build EXCEPT ![<<task[a].version, task[a].plan>>] = UniqueInsert(@, task[a].row)]
    /\ AfterStep(a)
    /\ UNCHANGED <<stored, default, previous, canary, lost, chosen, sess>>

\* restoreBundleBytes takes only the bytes the row already names.
RestoreBytes(v, p) ==
    /\ "restore" \in Ops
    /\ Published(v, p)
    /\ stored' = stored \cup {build[<<v, p>>].content}
    /\ UNCHANGED <<build, default, previous, canary, lost, chosen, task, sess>>

\* A redeploy onto an ephemeral filesystem keeps the rows and loses the bytes.
LoseBytes ==
    /\ "loseBytes" \in Ops
    /\ stored' = {}
    /\ lost' = lost \cup stored
    /\ UNCHANGED <<build, default, previous, canary, chosen, task, sess>>

-----------------------------------------------------------------------------
(* Promotion and retirement: read the rows, change the copy, save it whole *)

BeginPromote(a, v, ch) ==
    /\ "promote" \in Ops
    /\ isComplete(v)
    /\ Start(a, [kind |-> "saveRows", version |-> v,
                 rows |-> [p \in Plans |-> IF Published(v, p)
                            THEN [build[<<v, p>>] EXCEPT !.channel = ch] ELSE NoRow]])
    /\ UNCHANGED <<registry, sess>>

BeginRetire(a, v) ==
    /\ "retire" \in Ops
    /\ \E p \in Plans : Published(v, p)
    /\ Start(a, [kind |-> "saveRows", version |-> v,
                 rows |-> [p \in Plans |-> IF Published(v, p)
                            THEN [build[<<v, p>>] EXCEPT !.status = "retired"] ELSE NoRow]])
    /\ UNCHANGED <<registry, sess>>

SaveRows(a) ==
    /\ task[a].kind = "saveRows"
    /\ build' = [k \in Versions \X Plans |->
                   IF k[1] = task[a].version /\ task[a].rows[k[2]].published
                   THEN task[a].rows[k[2]] ELSE build[k]]
    /\ Done(a)
    /\ UNCHANGED <<stored, default, previous, canary, lost, chosen, sess>>

-----------------------------------------------------------------------------
(* Default pointers *)

\* setDefault for a release: the version is complete, then no row of it retired.
BeginSetDefault(a, s, v) ==
    /\ "setDefault" \in Ops
    /\ isComplete(v)
    /\ Start(a, [kind |-> "checkRelease", scope |-> s, version |-> v, rollback |-> FALSE])
    /\ UNCHANGED <<registry, sess>>

CheckRelease(a) ==
    /\ task[a].kind = "checkRelease"
    /\ \A p \in Plans : Published(task[a].version, p) =>
                            eligibleAsDefault(build[<<task[a].version, p>>].status)
    /\ Continue(a, [task[a] EXCEPT !.kind = "readPointer"])
    /\ UNCHANGED <<registry, sess>>

\* (fault) the history is read without its scope
previousOfAnyScope(s) == previous[GLOBAL_SCOPE]

\* previousDefault: where the newest recorded move came from.
previousDefault(s) == previous[s]

\* rollback reads its target, then setDefault's completeness check; a retired
\* target is let through.
BeginRollback(a, s) ==
    /\ "rollback" \in Ops
    /\ previousDefault(s) # NoVersion
    /\ Start(a, [kind |-> "checkRollback", scope |-> s, version |-> previousDefault(s),
                 rollback |-> TRUE])
    /\ UNCHANGED <<registry, sess>>

CheckRollback(a) ==
    /\ task[a].kind = "checkRollback"
    /\ isComplete(task[a].version)
    /\ Continue(a, [task[a] EXCEPT !.kind = "readPointer"])
    /\ UNCHANGED <<registry, sess>>

ReadPointer(a) ==
    /\ task[a].kind = "readPointer"
    /\ Continue(a, [kind |-> "writePointer", scope |-> task[a].scope,
                    version |-> task[a].version, rollback |-> task[a].rollback,
                    from |-> default[task[a].scope]])
    /\ UNCHANGED <<registry, sess>>

WritePointer(a) ==
    /\ task[a].kind = "writePointer"
    /\ LET s == task[a].scope
           v == task[a].version
       IN  /\ default' = [default EXCEPT ![s] = v]
           /\ chosen' = [chosen EXCEPT ![s] = IF task[a].rollback THEN @ ELSE @ \cup {v}]
           /\ IF task[a].from = v THEN Done(a)
              ELSE Continue(a, [kind |-> "record", scope |-> s, from |-> task[a].from])
    /\ UNCHANGED <<build, stored, previous, canary, lost, sess>>

\* The history row is best-effort: Abandon is its failure.
Record(a) ==
    /\ task[a].kind = "record"
    /\ previous' = [previous EXCEPT ![task[a].scope] = task[a].from]
    /\ Done(a)
    /\ UNCHANGED <<build, stored, default, canary, lost, chosen, sess>>

-----------------------------------------------------------------------------
(* Gradual releases *)

\* startCanary: `current` while the row it read is the one in the table.
BeginCanary(a, s, v, percent) ==
    /\ "canary" \in Ops
    /\ isComplete(v)
    /\ Start(a, [kind |-> "saveCanary", scope |-> s, current |-> canary[s] # NoCanary,
                 row |-> [version |-> v, percent |-> ClampPercent(percent)]])
    /\ UNCHANGED <<registry, sess>>

\* save updates the row it read, and inserts when there was none or it is gone;
\* the unique scope refuses an insert beside another row.
SaveCanary(a) ==
    /\ task[a].kind = "saveCanary"
    /\ task[a].current \/ canary[task[a].scope] = NoCanary
    /\ canary' = [canary EXCEPT ![task[a].scope] = task[a].row]
    /\ Done(a)
    /\ UNCHANGED <<build, stored, default, previous, lost, chosen, sess>>

Ramping(a, s) == task[a].kind = "saveCanary" /\ task[a].scope = s

\* haltCanary deletes the row; a ramp that read it still holds its copy.
HaltCanary(s) ==
    /\ "halt" \in Ops
    /\ canary' = [canary EXCEPT ![s] = NoCanary]
    /\ task' = [a \in Admins |-> IF Ramping(a, s) THEN [task[a] EXCEPT !.current = FALSE]
                                ELSE task[a]]
    /\ UNCHANGED <<build, stored, default, previous, lost, chosen, sess>>

\* A request ends between two steps: refused, failed or killed.
Abandon(a) ==
    /\ task[a] # Idle
    /\ Done(a)
    /\ UNCHANGED <<registry, sess>>

-----------------------------------------------------------------------------
(* Sessions: POST /delivery/session *)

PointerOf(s) == IF s \in Scopes THEN default[s] ELSE NoVersion

\* openSession reads the stable channel's defaults, whatever the licence says.
OpenSession(k, c) ==
    /\ sess[k].kind \in {"idle", "done"}
    /\ sess' = [sess EXCEPT ![k] =
          [kind |-> "plan", caller |-> c, channelDefault |-> PointerOf(channelScope["stable"]),
           globalDefault |-> PointerOf(GLOBAL_SCOPE)]]
    /\ UNCHANGED <<registry, task>>

OrElse(a, b) == IF a # NoVersion THEN a ELSE b

\* The version the plan is decided against: the licence's own, or the defaults
\* that were threaded in.  A canary is not looked up yet.
versionForPlan(t) ==
    LET unpinned == OrElse(t.channelDefault, t.globalDefault)
    IN IF t.caller.licensed THEN OrElse(t.caller.pin, OrElse(t.caller.override, unpinned))
       ELSE unpinned

\* The richer plan when the registry does not answer.
PlanFor(t, answered) ==
    IF ~t.caller.licensed /\ ~t.caller.derived THEN "free"
    ELSE IF versionForPlan(t) = NoVersion
    THEN IF t.caller.licensed THEN "premium" ELSE "free"
    ELSE IF ~answered /\ Wanted(t.caller.features) # {} THEN "premium"
    ELSE planForFeatures(SupportsOf(versionForPlan(t)), t.caller.features)

DecidePlan(k) ==
    /\ sess[k].kind = "plan"
    /\ \E answered \in BOOLEAN :
          sess' = [sess EXCEPT ![k] =
             [kind |-> "canary", caller |-> sess[k].caller, plan |-> PlanFor(sess[k], answered),
              channelDefault |-> sess[k].channelDefault, globalDefault |-> sess[k].globalDefault]]
    /\ UNCHANGED <<registry, task>>

\* canaryFor: the caller's own channel first, then global.
CanaryRow(c) ==
    LET own == channelScope[c.channel]
    IN IF own \in Scopes /\ canary[own] # NoCanary THEN canary[own]
       ELSE IF GLOBAL_SCOPE \in Scopes THEN canary[GLOBAL_SCOPE] ELSE NoCanary

canaryFor(c) ==
    LET row == CanaryRow(c)
    IN IF c.identified /\ row.version # NoVersion /\ inCanary(c.bucket[row.version], row.percent)
       THEN row.version ELSE NoVersion

\* The chain resolveForLicence builds: a licence's pin, else what the client asks.
ChainOf(t, canaryVersion) ==
    [pin |-> OrElse(t.caller.pin, t.caller.asks), override |-> t.caller.override,
     canary |-> canaryVersion, channel |-> t.channelDefault, global |-> t.globalDefault]

ChooseVersion(k) ==
    /\ sess[k].kind = "canary"
    /\ \E offered \in {canaryFor(sess[k].caller), NoVersion} :   \* none when the lookup fails
       LET decision == resolveVersion(ChainOf(sess[k], offered))
       IN sess' = [sess EXCEPT ![k] =
             [kind |-> IF decision.version = NoVersion THEN "done" ELSE "build",
              caller |-> sess[k].caller, plan |-> sess[k].plan, result |-> "none",
              version |-> decision.version, source |-> decision.source]]
    /\ UNCHANGED <<registry, task>>

\* (fault) a pin to a retired version is refused too
RefusedWhateverChosen(c, source, row) ==
    ~eligibleAsDefault(row.status) \/ ~channelAllows(c.channel, row.channel)

\* A default or a canary never reaches a retired or off-channel build.
Refused(c, source, row) ==
    /\ source \notin {"pin", "override"}
    /\ ~eligibleAsDefault(row.status) \/ ~channelAllows(c.channel, row.channel)

Serve(k) ==
    /\ sess[k].kind = "build"
    /\ LET t == sess[k]
           row == build[<<t.version, t.plan>>]
           result == IF ~row.published THEN "noBuild"
                     ELSE IF Refused(t.caller, t.source, row) THEN "refused" ELSE "served"
       IN sess' = [sess EXCEPT ![k] = [t EXCEPT !.kind = "done", !.result = result]]
    /\ UNCHANGED <<registry, task>>

-----------------------------------------------------------------------------
Init ==
    /\ build = [k \in Versions \X Plans |->
                  IF k[1] = ShippedVersion
                  THEN [published |-> TRUE, channel |-> "stable", status |-> "published",
                        content |-> Shipped[k[2]], bytes |-> TRUE]
                  ELSE NoRow]
    /\ stored = {Shipped[p] : p \in Plans}
    /\ default = [s \in Scopes |-> IF s = GLOBAL_SCOPE THEN ShippedVersion ELSE NoVersion]
    /\ previous = [s \in Scopes |-> NoVersion]
    /\ canary = [s \in Scopes |-> NoCanary]
    /\ task = [a \in Admins |-> Idle]
    /\ sess = [k \in Sessions |-> Idle]
    /\ lost = {}
    /\ chosen = [s \in Scopes |-> IF s = GLOBAL_SCOPE THEN {ShippedVersion} ELSE {}]

Publishing(a) ==
    \/ \E v \in Versions, p \in Plans : \E c \in Offered[<<v, p>>] : BeginPublish(a, v, p, c)
    \/ StoreBytes(a)
    \/ SaveRow(a)

Stewardship(a) ==
    \/ \E v \in Versions, ch \in PromoteTo : BeginPromote(a, v, ch)
    \/ \E v \in Versions : BeginRetire(a, v)
    \/ SaveRows(a)

Pointing(a) ==
    \/ \E s \in Scopes, v \in Versions : BeginSetDefault(a, s, v)
    \/ \E s \in Scopes : BeginRollback(a, s)
    \/ CheckRelease(a)
    \/ CheckRollback(a)
    \/ ReadPointer(a)
    \/ WritePointer(a)
    \/ Record(a)

Releasing(a) ==
    \/ \E s \in Scopes, v \in Versions, percent \in Percents : BeginCanary(a, s, v, percent)
    \/ SaveCanary(a)

Session(k) ==
    \/ \E c \in Callers : OpenSession(k, c)
    \/ DecidePlan(k)
    \/ ChooseVersion(k)
    \/ Serve(k)

Next ==
    \/ LoseBytes
    \/ \E v \in Versions, p \in Plans : RestoreBytes(v, p)
    \/ \E s \in Scopes : HaltCanary(s)
    \/ \E a \in Admins :
        \/ Publishing(a)
        \/ Stewardship(a)
        \/ Pointing(a)
        \/ Releasing(a)
        \/ Abandon(a)
    \/ \E k \in Sessions : Session(k)

Spec == Init /\ [][Next]_vars
-----------------------------------------------------------------------------
(***************************************************************************)
(* Properties                                                              *)
(***************************************************************************)

PublishTasks == [kind: {"publish"}, todo: {<<"store", "save">>, <<"save">>},
                 version: Versions, plan: Plans, row: Row]
CopyTasks == [kind: {"saveRows"}, version: Versions, rows: [Plans -> Row \cup {NoRow}]]
PointerTasks ==
    [kind: {"checkRelease", "checkRollback", "readPointer"}, scope: Scopes, version: Versions,
     rollback: BOOLEAN]
WriteTasks == [kind: {"writePointer"}, scope: Scopes, version: Versions, rollback: BOOLEAN,
               from: Maybe]
RecordTasks == [kind: {"record"}, scope: Scopes, from: Maybe]
CanaryTasks == [kind: {"saveCanary"}, scope: Scopes, current: BOOLEAN,
                row: [version: Versions, percent: 0 .. 100]]
Tasks == {Idle} \cup PublishTasks \cup CopyTasks \cup PointerTasks \cup WriteTasks
         \cup RecordTasks \cup CanaryTasks

PlanSessions ==
    [kind: {"plan"}, caller: Callers, channelDefault: Maybe, globalDefault: Maybe]
CanarySessions ==
    [kind: {"canary"}, caller: Callers, plan: Plans, channelDefault: Maybe, globalDefault: Maybe]
ChosenSessions ==
    [kind: {"build", "done"}, caller: Callers, plan: Plans, version: Maybe,
     source: Sources, result: {"none", "noBuild", "refused", "served"}]
Opened == {Idle} \cup PlanSessions \cup CanarySessions \cup ChosenSessions

\* Rows, pointers and held requests are well typed.
TypeOK ==
    /\ build \in [Versions \X Plans -> Row \cup {NoRow}]
    /\ stored \subseteq Contents /\ lost \subseteq Contents
    /\ default \in [Scopes -> Maybe] /\ previous \in [Scopes -> Maybe]
    /\ canary \in [Scopes -> [version: Maybe, percent: 0 .. 100]]
    /\ chosen \in [Scopes -> SUBSET Versions]
    /\ task \in [Admins -> Tasks]
    /\ sess \in [Sessions -> Opened]

\* A published build is never replaced: rollback, integrity hashes and pins all
\* assume the bytes behind a version do not change, whoever else publishes it.
PublishedNeverChanges ==
    [][\A k \in Versions \X Plans :
          build[k].published => build'[k].published /\ build'[k].content = build[k].content]_vars

\* A build published with its bytes has them in storage, unless a redeploy
\* lost them: a failed upload leaves no row (risk R42).
BytesBehindRow ==
    \A k \in Versions \X Plans :
        (build[k].published /\ build[k].bytes) => build[k].content \in stored \cup lost

Answered(k) == sess[k].kind = "done" /\ sess[k].result # "none"
ByDefault(k) == sess[k].source \in {"canary", "channel", "global"}

\* A version we chose for a caller has a build for the caller's plan, whichever
\* plan that is and whatever moved while the session was being opened.
CompleteMatrix ==
    \A k \in Sessions : (Answered(k) /\ ByDefault(k)) => sess[k].result # "noBuild"

ServedSupport(k) == SupportsOf(sess[k].version)[sess[k].plan]
CoveredBySome(k) ==
    \E p \in Plans : Wanted(sess[k].caller.features) \subseteq SupportsOf(sess[k].version)[p]

\* A licensed caller on a default gets a build with every feature of its
\* package, when the version has one.
DefaultBuildCovers ==
    \A k \in Sessions :
        (/\ Answered(k) /\ sess[k].result = "served" /\ sess[k].caller.licensed
         /\ sess[k].source \in {"channel", "global"}
         /\ CoveredBySome(k))
        => Wanted(sess[k].caller.features) \subseteq ServedSupport(k)

\* Pinning is a promise: a pinned caller gets its version and is never refused
\* it for what happened to it since, whatever default, canary, promotion or
\* retirement came between.
PinIsAPromise ==
    \A k \in Sessions :
        (Answered(k) /\ sess[k].caller.pin # NoVersion)
        => sess[k].version = sess[k].caller.pin /\ sess[k].result # "refused"

\* A rollback never points a scope at a version no release chose for it.
RollbackTargetWasChosen ==
    \A s \in Scopes : default[s] # NoVersion => default[s] \in chosen[s]

\* A licensed caller gets a build with every feature of its package when the
\* version it was given has one (session.service.ts: "the PLAN is decided
\* against the very build the version chain is about to resolve").
ServedBuildCovers ==
    \A k \in Sessions :
        (/\ Answered(k) /\ sess[k].result = "served" /\ sess[k].caller.licensed
         /\ CoveredBySome(k))
        => Wanted(sess[k].caller.features) \subseteq ServedSupport(k)

\* The version a default points at is one its callers are served ("a default
\* must be something every plan can actually be served").
DefaultIsServed ==
    \A k \in Sessions :
        (Answered(k) /\ sess[k].source \in {"channel", "global"})
        => sess[k].result # "refused"

\* A retired version stays retired.
RetiredStaysRetired ==
    [][\A k \in Versions \X Plans :
          (build[k].published /\ build[k].status = "retired")
          => build'[k].status = "retired"]_vars
=============================================================================
