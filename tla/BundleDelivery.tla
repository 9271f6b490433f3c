--------------------------- MODULE BundleDelivery ---------------------------
(***************************************************************************)
(* The bytes behind a session: how a bundle enters the store               *)
(* (local-bundle-storage.ts, s3-bundle-storage.ts), how a session is given *)
(* the digest marked for its licence (watermark.service.ts) and a signed   *)
(* URL for it, and what GET /engine/:version/:plan/:digest.js answers      *)
(* (engine.controller.ts, bundle-url-signer.ts).                           *)
(*                                                                         *)
(* A bundle is known by its content, [base, lic] with lic the licence it   *)
(* is marked for: that is what its digest identifies.  Every await of a    *)
(* request is a step.  Which build a session resolves to, and the default  *)
(* pointers, are EngineRegistry's; here a build is a row and its bytes.    *)
(* The signing secret is configured, so URLs are signed and marks made.    *)
(***************************************************************************)
EXTENDS Integers, FiniteSets

CONSTANTS
    Bases,                 \* bundles as built
    NoDigest,              \* an absent entry of the memo
    Builds, NoBuild,       \* (version, plan) pairs
    PlanOf, BundleOf,      \*   the plan and the bundle of each
    Licences, NoLicence,
    Drivers,               \* storage drivers a deployment may configure
    Spellings,             \* how a manifest may spell a digest
    Requests,              \* requests in flight at once
    Faults,                \* what may go wrong here,
    MaxFaults,             \*   and how often (bound)
    MaxLinks               \* bound: URLs outstanding

ASSUME BundleAssumption ==
    /\ NoBuild \notin Builds /\ NoLicence \notin Licences /\ IsFiniteSet(Requests)
    /\ PlanOf \in [Builds -> {"free", "premium"}] /\ BundleOf \in [Builds -> Bases]
    /\ Drivers \subseteq {"local", "s3"} /\ Spellings \subseteq {"lower", "upper"}
    /\ Faults \subseteq {"mkdir", "disk", "redeploy", "wipe"}
    /\ NoDigest \notin [base: Bases, lic: Licences \cup {NoLicence}]
    /\ MaxFaults \in Nat /\ MaxLinks \in Nat

VARIABLES
    driver,   \* chosen at start-up
    row,      \* engine_versions: how the row of a build spells its digest
    file,     \* what is stored under each digest
    root,     \* LocalBundleStorage.ready, the one mkdir of this process
    memo,     \* WatermarkService.memo: the digest a base and a licence led to
    link,     \* URLs handed out whose signature has not expired
    task,     \* requests in flight
    faults

store == <<file, root>>
vars == <<driver, row, file, root, memo, link, task, faults>>

Contents == [base: Bases, lic: Licences \cup {NoLicence}]
Plain(b) == [base |-> BundleOf[b], lic |-> NoLicence]
applyWatermark(b, l) == [base |-> BundleOf[b], lic |-> l]
Marked(t) == applyWatermark(t.build, t.lic)

Request(kind, step, b, l, spelling) ==
    [kind |-> kind, step |-> step, build |-> b, lic |-> l, spelling |-> spelling]
Idle == Request("idle", "idle", NoBuild, NoLicence, "lower")
Registered(b) == row[b] # "none"

NothingMarked == [c \in Contents |-> NoDigest]

\* has and get: an error is a miss.
Found(c) == file[c] # "none"
MayFail(kind) == kind \in Faults /\ faults < MaxFaults

At(r, step) == task[r].step = step
Goto(r, step) == task' = [task EXCEPT ![r].step = step]
Leave(r) == task' = [task EXCEPT ![r] = Idle]

-----------------------------------------------------------------------------
(* Answers *)

\* bundleUrl: what the session t is told to fetch.
Link(t, c, spelling, failed) ==
    [build |-> t.build, content |-> c, spelling |-> spelling, lic |-> t.lic,
     failed |-> failed, backed |-> file[Plain(t.build)] = "whole"]

HandOut(t, c, spelling, failed) == link' = link \cup {Link(t, c, spelling, failed)}

\* (fault) the digest a failure fell back to is remembered
FallbackRemembered(t) == [memo EXCEPT ![Marked(t)] = Plain(t.build)]

\* A failure leaves the memo alone.
AfterFailure(t) == memo

\* digestForLicence fails open: the digest the row names.
FailOpen(r, failed) ==
    /\ HandOut(task[r], Plain(task[r].build), task[r].spelling, failed)
    /\ memo' = AfterFailure(task[r])
    /\ Leave(r)

-----------------------------------------------------------------------------
(* Storage: put, step by step *)

PutFirst == IF driver = "local" THEN "root" ELSE "look"

\* What put stores for a request.
Bytes(t) == IF t.kind = "session" THEN Marked(t) ELSE Plain(t.build)

\* put resolved: the row follows, or the memo and the answer.
Stored(r) ==
    LET t == task[r]
    IN \/ t.kind = "publish" /\ Goto(r, "row") /\ UNCHANGED <<memo, link>>
       \/ t.kind = "restore" /\ Leave(r) /\ UNCHANGED <<memo, link>>
       \/ /\ t.kind = "session"
          /\ memo' = [memo EXCEPT ![Marked(t)] = Marked(t)]
          /\ HandOut(t, Marked(t), "lower", FALSE)
          /\ Leave(r)

\* put threw: a 500 to an administrator, the unmarked bundle to a customer.
Threw(r) ==
    \/ task[r].kind # "session" /\ Leave(r) /\ UNCHANGED <<memo, link>>
    \/ task[r].kind = "session" /\ FailOpen(r, TRUE)

\* ensureRoot: the mkdir is attempted once and its promise kept, also rejected.
EnsureRoot(r) ==
    /\ At(r, "root")
    /\ \/ root # "rejected" /\ root' = "made" /\ Goto(r, "look")
          /\ UNCHANGED <<memo, link, faults>>
       \/ root = "unmade" /\ MayFail("mkdir") /\ root' = "rejected" /\ faults' = faults + 1
          /\ Threw(r)
       \/ root = "rejected" /\ Threw(r) /\ UNCHANGED <<root, faults>>
    /\ UNCHANGED <<driver, row, file>>

\* put's own has: identical bytes are stored already.
Look(r) ==
    /\ At(r, "look")
    /\ \/ Found(Bytes(task[r])) /\ Stored(r) /\ UNCHANGED faults
       \/ ~Found(Bytes(task[r])) /\ Goto(r, "write") /\ UNCHANGED <<memo, link, faults>>
       \/ MayFail("disk") /\ Goto(r, "write") /\ faults' = faults + 1 /\ UNCHANGED <<memo, link>>
    /\ UNCHANGED <<driver, row, store>>

\* (fault) the bytes are written at their final path
WrittenInPlace(c) == [file EXCEPT ![c] = IF @ = "none" THEN "torn" ELSE @]

\* The bytes go to a temporary file.
Written(c) == file

\* writeFile of the local driver.
Write(r) ==
    /\ driver = "local" /\ At(r, "write")
    /\ \/ Goto(r, "rename") /\ file' = Written(Bytes(task[r])) /\ UNCHANGED <<memo, link, faults>>
       \/ MayFail("disk") /\ Threw(r) /\ faults' = faults + 1 /\ UNCHANGED file
    /\ UNCHANGED <<driver, row, root>>

\* The rename, or PutObject with its checksum: all of the bytes or none.  An
\* upload may also be stored and its answer lost.
Place(r) ==
    /\ At(r, IF driver = "local" THEN "rename" ELSE "write")
    /\ \/ file' = [file EXCEPT ![Bytes(task[r])] = "whole"] /\ Stored(r) /\ UNCHANGED faults
       \/ /\ MayFail("disk") /\ faults' = faults + 1 /\ Threw(r)
          /\ \/ UNCHANGED file
             \/ driver = "s3" /\ file' = [file EXCEPT ![Bytes(task[r])] = "whole"]
    /\ UNCHANGED <<driver, row, root>>

-----------------------------------------------------------------------------
(* Administrators *)

\* publishBuild: the row comes after the bytes; a publish of metadata has none.
BeginPublish(r, b, spelling, bytes) ==
    /\ task[r] = Idle /\ ~Registered(b)
    /\ task' = [task EXCEPT ![r] =
          Request("publish", IF bytes THEN PutFirst ELSE "row", b, NoLicence, spelling)]
    /\ UNCHANGED <<driver, row, store, memo, link, faults>>

SaveRow(r) ==
    /\ At(r, "row")
    /\ row' = [row EXCEPT ![task[r].build] = IF @ = "none" THEN task[r].spelling ELSE @]
    /\ Leave(r)
    /\ UNCHANGED <<driver, store, memo, link, faults>>

\* restoreBundleBytes: the bytes the row names, unless they are there.
BeginRestore(r, b) ==
    /\ task[r] = Idle /\ Registered(b) /\ ~Found(Plain(b))
    /\ task' = [task EXCEPT ![r] = Request("restore", PutFirst, b, NoLicence, "lower")]
    /\ UNCHANGED <<driver, row, store, memo, link, faults>>

-----------------------------------------------------------------------------
(* Sessions *)

\* (fault) free bundles are marked too
MarkingAnyPlan(b, l) == l # NoLicence

Marking(b, l) == PlanOf[b] = "premium" /\ l # NoLicence
SessionsInFlight == Cardinality({r \in Requests : task[r].kind = "session"})

SessionFor(b, l) == Request("session", "base", b, l, row[b])

\* (fault) the memo is written before the marked bundle is stored
RememberedEarly(t) == [memo EXCEPT ![Marked(t)] = Marked(t)]

\* The memo is written when the bundle is stored.
RememberedAtStart(t) == memo

\* open, once the build is resolved: a premium session of a licence is marked.
BeginMarking(r, b, l) ==
    /\ task[r] = Idle /\ Registered(b)
    /\ Marking(b, l) /\ memo[applyWatermark(b, l)] = NoDigest
    /\ Cardinality(link) + SessionsInFlight < MaxLinks
    /\ task' = [task EXCEPT ![r] = SessionFor(b, l)]
    /\ memo' = RememberedAtStart(SessionFor(b, l))
    /\ UNCHANGED <<driver, row, store, link, faults>>

\* Any other is answered at once, as is one this process has marked before.
OpenSession(b, l) ==
    /\ Registered(b)
    /\ Cardinality(link) + SessionsInFlight < MaxLinks
    /\ \/ ~Marking(b, l) /\ HandOut(SessionFor(b, l), Plain(b), row[b], FALSE)
       \/ /\ Marking(b, l) /\ memo[applyWatermark(b, l)] # NoDigest
          /\ HandOut(SessionFor(b, l), memo[applyWatermark(b, l)], "lower", FALSE)
    /\ UNCHANGED <<driver, row, store, memo, task, faults>>

\* storage.get of the base bundle: without it there is nothing to mark.
ReadBase(r) ==
    LET t == task[r]
        readable == t.spelling = "lower" /\ Found(Plain(t.build))
    IN /\ At(r, "base")
       /\ \/ readable /\ Goto(r, "marked") /\ UNCHANGED <<memo, link, faults>>
          \/ ~readable /\ FailOpen(r, FALSE) /\ UNCHANGED faults
          \/ MayFail("disk") /\ FailOpen(r, TRUE) /\ faults' = faults + 1
       /\ UNCHANGED <<driver, row, store>>

\* The marked bundle is put unless it is there.
FindMark(r) ==
    /\ At(r, "marked")
    /\ \/ Found(Bytes(task[r])) /\ Stored(r) /\ UNCHANGED faults
       \/ ~Found(Bytes(task[r])) /\ Goto(r, PutFirst) /\ UNCHANGED <<memo, link, faults>>
       \/ MayFail("disk") /\ Goto(r, PutFirst) /\ faults' = faults + 1 /\ UNCHANGED <<memo, link>>
    /\ UNCHANGED <<driver, row, store>>

-----------------------------------------------------------------------------
(* GET /engine/:version/:plan/:digest.js changes nothing *)

\* verify: the digest is bound into the signature, the build is not.
Signed(c) == \E u \in link : u.content = c

\* The row decides which digest a build is; the store answers for it.
readBundle(b, c) == IF Registered(b) /\ c = Plain(b) THEN file[c] ELSE "none"

\* What serve answers: a digest that is not lower case hex is no bundle, premium
\* needs a signature, and a signed digest may be a mark, which has no row.
Serve(b, c, spelling) ==
    IF spelling # "lower" \/ (PlanOf[b] = "premium" /\ ~Signed(c)) THEN "none"
    ELSE IF readBundle(b, c) = "none" /\ PlanOf[b] = "premium" THEN file[c]
    ELSE readBundle(b, c)

-----------------------------------------------------------------------------
(* The deployment *)

\* DELIVERY_URL_TTL_SECONDS pass.
Lapse(u) ==
    /\ link' = link \ {u}
    /\ UNCHANGED <<driver, row, store, memo, task, faults>>

\* A deploy or a crash ends the process: its requests, its memo and its mkdir.
\* On an ephemeral filesystem the bundles of the local driver go too.
Redeploy(wipe) ==
    /\ MayFail(IF wipe THEN "wipe" ELSE "redeploy") /\ faults' = faults + 1
    /\ wipe => driver = "local"
    /\ root' = "unmade" /\ memo' = NothingMarked /\ task' = [r \in Requests |-> Idle]
    /\ file' = IF wipe THEN [c \in Contents |-> "none"] ELSE file
    /\ link' = IF wipe THEN {[u EXCEPT !.backed = FALSE] : u \in link} ELSE link
    /\ UNCHANGED <<driver, row>>

Init ==
    /\ driver \in Drivers
    /\ row = [b \in Builds |-> "none"]
    /\ file = [c \in Contents |-> "none"]
    /\ root = "unmade" /\ memo = NothingMarked /\ link = {} /\ faults = 0
    /\ task = [r \in Requests |-> Idle]

Arrive(r) ==
    \/ \E b \in Builds, s \in Spellings, bytes \in BOOLEAN : BeginPublish(r, b, s, bytes)
    \/ \E b \in Builds, l \in Licences : BeginMarking(r, b, l)
    \/ \E b \in Builds : BeginRestore(r, b)

Handle(r) ==
    EnsureRoot(r) \/ Look(r) \/ Write(r) \/ Place(r) \/ SaveRow(r) \/ ReadBase(r) \/ FindMark(r)

Next ==
    \/ \E r \in Requests : Arrive(r) \/ Handle(r)
    \/ \E b \in Builds, l \in Licences \cup {NoLicence} : OpenSession(b, l)
    \/ \E u \in link : Lapse(u)
    \/ \E wipe \in BOOLEAN : Redeploy(wipe)

Spec == Init /\ [][Next]_vars

\* The event loop ends every request it has taken; an administrator who sees
\* bytes missing uploads them again.
FairSpec ==
    /\ Spec
    /\ \A r \in Requests : WF_vars(Handle(r))
    /\ \A b \in Builds : SF_vars(\E r \in Requests : BeginRestore(r, b))
-----------------------------------------------------------------------------
(***************************************************************************)
(* Properties                                                              *)
(***************************************************************************)

Steps == {"idle", "base", "marked", "root", "look", "write", "rename", "row"}
LinkRow == [build: Builds, content: Contents, spelling: {"lower", "upper"},
            lic: Licences \cup {NoLicence}, failed: BOOLEAN, backed: BOOLEAN]
Task == [kind: {"idle", "publish", "restore", "session"}, step: Steps,
         build: Builds \cup {NoBuild}, lic: Licences \cup {NoLicence},
         spelling: {"lower", "upper"}]

\* Rows, files, links and requests are well typed; a request in flight names its
\* build, and a session that is marked its licence.
TypeOK ==
    /\ driver \in Drivers
    /\ row \in [Builds -> {"none"} \cup Spellings]
    /\ file \in [Contents -> {"none", "torn", "whole"}]
    /\ root \in {"unmade", "made", "rejected"}
    /\ memo \in [Contents -> Contents \cup {NoDigest}]
    /\ link \subseteq LinkRow
    /\ task \in [Requests -> Task]
    /\ \A r \in Requests :
          /\ task[r].kind = "idle" <=> task[r].step = "idle"
          /\ task[r].kind # "idle" => task[r].build \in Builds
          /\ task[r].kind = "session" => /\ PlanOf[task[r].build] = "premium"
                                         /\ task[r].lic \in Licences
                                         /\ task[r].step # "row"
          /\ task[r].step \in {"base", "marked"} => task[r].kind = "session"
    /\ faults \in Nat

\* What a session tells a browser to fetch can be fetched, whole, until the URL
\* expires: while the base bundle was there when it was handed out and the disk
\* has not been wiped since.  A marked bundle that failed to be stored, was
\* half written when the process died, or is only remembered, would be a blank
\* editor for a paying customer.
PromisedIsServed ==
    \A u \in link : u.backed => Serve(u.build, u.content, u.spelling) = "whole"

\* Failing open is for the session that failed: whenever the base bundle is there
\* and no storage operation of this session failed, a licence gets its own mark.
UnmarkedOnlyOnFailure ==
    \A u \in link :
        (u.backed /\ ~u.failed /\ Marking(u.build, u.lic)) => u.content.lic = u.lic

\* A published build is downloadable again in the end, however the disk fails or
\* is wiped, unless the one mkdir of the running process failed.
BytesComeBack ==
    \A b \in Builds : <>[](Registered(b) => file[Plain(b)] = "whole" \/ root = "rejected")

\* The bytes come back, also after a failed mkdir.
BytesComeBackAlways ==
    \A b \in Builds : <>[](Registered(b) => file[Plain(b)] = "whole")

\* A build whose bytes are in the store is downloadable at the URL a session is
\* given for it: what isComplete vouches for.
CompleteIsDownloadable ==
    \A u \in link : u.backed => Serve(u.build, u.content, u.spelling) # "none"
=============================================================================
