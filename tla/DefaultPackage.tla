--------------------------- MODULE DefaultPackage ---------------------------
(***************************************************************************)
(* What an unlicensed visitor receives: the one row of default_packages,   *)
(* the package it names, and the cache each server process keeps of it     *)
(* (default-package.service.ts), seeded at boot (default-package.seed.ts)  *)
(* and guarded by the package administration.                              *)
(*                                                                         *)
(* Each database access is a step.  A visitor is answered from the cache   *)
(* alone, and only starts or joins its refresh.                            *)
(***************************************************************************)
EXTENDS Integers

CONSTANTS
    Servers,             \* processes of the backend
    Admins,              \* requests of administrators in flight at once
    Packages, NoPackage,
    Lists, Empty, Gone,  \* feature lists; the list that grants nothing; no row
    Patches,             \* lists an administrator gives a package
    FirstContent, FirstDefault,
    SeedPackage, SeedList,
    Loads, NoLoad,       \* promises of load() one process may have
    Outages,             \* whether queries fail
    MaxAsked, MaxRestarts  \* bounds: administrators' requests, deploys

ASSUME DefaultAssumption ==
    /\ NoPackage \notin Packages /\ Gone \notin Lists /\ Empty \in Lists
    /\ Patches \subseteq Lists \ {Empty}      \* @ArrayNotEmpty
    /\ FirstContent \in [Packages -> Lists \cup {Gone}]
    /\ FirstDefault \in Packages \cup {NoPackage}
    /\ FirstDefault \in Packages => FirstContent[FirstDefault] # Gone
    /\ SeedPackage \in Packages /\ SeedList \in Lists
    /\ NoLoad \notin Loads
    /\ Outages \in BOOLEAN /\ MaxAsked \in Nat /\ MaxRestarts \in Nat

VARIABLES
    content,     \* packages: the features of each row
    designated,  \* default_packages: the package of the only row
    cache,       \* of each process
    load,        \* what each load() of each process has read
    inflight,    \* the promise a refresh joins
    boot,        \* where each process stands in onModuleInit
    task,        \* administrators' requests
    asked, restarts,
    \* History, which no handler reads:
    changes,     \* writes to either table
    chosen,      \* packages ever designated
    granted,     \* lists each package ever held
    newest       \* the latest state of the tables each process has cached

tables == <<content, designated, changes, chosen, granted>>
memory == <<cache, load, inflight, boot, newest>>
vars == <<tables, memory, task, asked, restarts>>

NoCache == [pkg |-> NoPackage, list |-> Gone, fresh |-> FALSE, asOf |-> 0]
NotLoading == [step |-> "idle", row |-> NoPackage, asOf |-> 0]
NoTask == [step |-> "idle", server |-> "none", pkg |-> NoPackage, list |-> Gone, joined |-> NoLoad]

Cold(s) == cache[s] = NoCache
Up(s) == boot[s] = "up"

-----------------------------------------------------------------------------
(* The cache *)

\* (fault) every caller queries for itself
NeverJoins(s) == FALSE

\* A refresh in flight is shared.
Joins(s) == inflight[s] # NoLoad

\* refresh(): k is the load the caller may await.
Refresh(s, k) ==
    IF Joins(s)
    THEN k = inflight[s] /\ UNCHANGED <<load, inflight>>
    ELSE /\ load[s][k] = NotLoading
         /\ load' = [load EXCEPT ![s][k].step = "row"]
         /\ inflight' = [inflight EXCEPT ![s] = k]

\* featuresForAnonymous on a cold or stale cache: answered from memory at once.
Visit(s, k) ==
    /\ Up(s) /\ ~cache[s].fresh /\ ~Joins(s)
    /\ Refresh(s, k)
    /\ UNCHANGED <<tables, cache, boot, newest, task, asked, restarts>>

\* CACHE_TTL_MS pass.
Age(s) ==
    /\ cache[s].fresh
    /\ cache' = [cache EXCEPT ![s].fresh = FALSE]
    /\ UNCHANGED <<tables, load, inflight, boot, newest, task, asked, restarts>>

\* (fault) only a load that resolved is forgotten
StuckInflight(s, resolved) == IF resolved THEN NoLoad ELSE inflight[s]

\* finally: whatever the outcome, the next refresh queries again.
InflightAfter(s, resolved) == NoLoad

\* A load ends, and with it the requests and the boot that await it.
EndLoad(s, k, resolved) ==
    /\ load' = [load EXCEPT ![s][k] = NotLoading]
    /\ inflight' = [inflight EXCEPT ![s] = InflightAfter(s, resolved)]
    /\ task' = [a \in Admins |->
          IF task[a].step = "wait" /\ task[a].server = s /\ task[a].joined = k
          THEN NoTask ELSE task[a]]
    /\ boot' = [boot EXCEPT ![s] = IF @ = "warming" THEN "up" ELSE @]
    /\ UNCHANGED <<tables, asked, restarts>>

ReadRow(s, k) ==
    /\ load[s][k].step = "row"
    /\ IF designated = NoPackage
       THEN EndLoad(s, k, FALSE)
       ELSE /\ load' = [load EXCEPT ![s][k] =
                  [step |-> "package", row |-> designated, asOf |-> changes]]
            /\ UNCHANGED <<tables, inflight, boot, task, asked, restarts>>
    /\ UNCHANGED <<cache, newest>>

\* (fault) an empty package is obeyed
ResolvesEmpty(list) == list # Gone

\* (fault) a package removed since the row was read is not noticed
ResolvesGone(list) == list # Empty

Resolves(list) == list \notin {Gone, Empty}

\* What cannot be resolved leaves the last known good value.
ReadPackage(s, k) ==
    LET got == load[s][k]
        list == content[got.row]
    IN /\ got.step = "package"
       /\ EndLoad(s, k, Resolves(list))
       /\ IF Resolves(list)
          THEN /\ cache' = [cache EXCEPT ![s] =
                     [pkg |-> got.row, list |-> list, fresh |-> TRUE, asOf |-> got.asOf]]
               /\ newest' = [newest EXCEPT ![s] = IF got.asOf > @ THEN got.asOf ELSE @]
          ELSE UNCHANGED <<cache, newest>>

FailLoad(s, k) ==
    /\ Outages /\ load[s][k] # NotLoading
    /\ EndLoad(s, k, FALSE)
    /\ UNCHANGED <<cache, newest>>

-----------------------------------------------------------------------------
(* Administration, by any process *)

Write(p, list) ==
    /\ content' = [content EXCEPT ![p] = list]
    /\ granted' = [granted EXCEPT ![p] = @ \cup ({list} \ {Gone})]
    /\ changes' = changes + 1
    /\ UNCHANGED <<designated, chosen>>

\* The row's foreign key needs a package.
Designate(p) ==
    /\ content[p] # Gone
    /\ designated' = p
    /\ chosen' = chosen \cup {p}
    /\ changes' = changes + 1
    /\ UNCHANGED <<content, granted>>

Ask(a, s, q) ==
    /\ task[a] = NoTask /\ Up(s) /\ asked < MaxAsked
    /\ task' = [task EXCEPT ![a] = [q EXCEPT !.server = s]]
    /\ asked' = asked + 1
    /\ UNCHANGED <<tables, memory, restarts>>

Answer(a) == task' = [task EXCEPT ![a] = NoTask]

\* designate refuses a package that is missing or grants nothing.
AskDesignate(a, s, p) ==
    /\ Resolves(content[p])
    /\ Ask(a, s, [NoTask EXCEPT !.step = "designate", !.pkg = p])

SaveDesignation(a) ==
    /\ task[a].step = "designate"
    /\ \/ /\ Designate(task[a].pkg)
          /\ task' = [task EXCEPT ![a].step = "reload"]
       \/ content[task[a].pkg] = Gone /\ Answer(a) /\ UNCHANGED tables
    /\ UNCHANGED <<memory, asked, restarts>>

\* The cache is dropped and the refresh awaited, or one already in flight.
Reload(a) ==
    LET s == task[a].server
    IN /\ task[a].step = "reload"
       /\ cache' = [cache EXCEPT ![s] = NoCache]
       /\ \E k \in Loads :
             /\ Refresh(s, k)
             /\ task' = [task EXCEPT ![a].step = "wait", ![a].joined = k]
       /\ UNCHANGED <<tables, boot, newest, asked, restarts>>

\* update holds a copy of the row, with the new list or the one it read.
AskEdit(a, s, p, list) ==
    /\ content[p] # Gone
    /\ list \in Patches \cup {content[p]}
    /\ Ask(a, s, [NoTask EXCEPT !.step = "edit", !.pkg = p, !.list = list])

\* The save writes the copy, a removed row included.
SaveEdit(a) ==
    /\ task[a].step = "edit"
    /\ Write(task[a].pkg, task[a].list)
    /\ task' = [task EXCEPT ![a].step = "edited"]
    /\ UNCHANGED <<memory, asked, restarts>>

\* An edit of the designated package warms the cache.
AfterEdit(a) ==
    LET s == task[a].server
    IN /\ task[a].step = "edited"
       /\ IF designated = task[a].pkg
          THEN \E k \in Loads :
                  /\ Refresh(s, k)
                  /\ task' = [task EXCEPT ![a].step = "wait", ![a].joined = k]
          ELSE Answer(a) /\ UNCHANGED <<load, inflight>>
       /\ UNCHANGED <<tables, cache, boot, newest, asked, restarts>>

AskRemove(a, s, p) ==
    /\ content[p] # Gone /\ designated # p
    /\ Ask(a, s, [NoTask EXCEPT !.step = "remove", !.pkg = p])

\* The foreign key restricts what isDesignated read too early.
MayDelete(p) == designated # p

Remove(a) ==
    /\ task[a].step = "remove"
    /\ IF MayDelete(task[a].pkg) THEN Write(task[a].pkg, Gone) ELSE UNCHANGED tables
    /\ Answer(a)
    /\ UNCHANGED <<memory, asked, restarts>>

-----------------------------------------------------------------------------
(* Boot *)

ToBoot(s, step) == boot' = [boot EXCEPT ![s] = step]

\* A designation is never overwritten.
SeedRead(s) ==
    /\ boot[s] = "seed"
    /\ ToBoot(s, IF designated = NoPackage THEN "create" ELSE "warm")
    /\ UNCHANGED <<tables, cache, load, inflight, newest, task, asked, restarts>>

\* Nothing is seeded from an empty feature table.
SeedSkip(s) ==
    /\ boot[s] = "create"
    /\ ToBoot(s, "warm")
    /\ UNCHANGED <<tables, cache, load, inflight, newest, task, asked, restarts>>

SeedCreate(s) ==
    /\ boot[s] = "create"
    /\ IF content[SeedPackage] = Gone THEN Write(SeedPackage, SeedList) ELSE UNCHANGED tables
    /\ ToBoot(s, "save")
    /\ UNCHANGED <<cache, load, inflight, newest, task, asked, restarts>>

SeedSave(s) ==
    /\ boot[s] = "save"
    /\ \/ Designate(SeedPackage) /\ ToBoot(s, "warm")
       \/ content[SeedPackage] = Gone /\ UNCHANGED tables /\ ToBoot(s, "up")
    /\ UNCHANGED <<cache, load, inflight, newest, task, asked, restarts>>

Warm(s, k) ==
    /\ boot[s] = "warm"
    /\ Refresh(s, k)
    /\ ToBoot(s, "warming")
    /\ UNCHANGED <<tables, cache, newest, task, asked, restarts>>

\* A failed seed never blocks the boot.
SeedFail(s) ==
    /\ Outages /\ boot[s] \in {"seed", "create", "save"}
    /\ ToBoot(s, "up")
    /\ UNCHANGED <<tables, cache, load, inflight, newest, task, asked, restarts>>

\* A deploy: the memory of the process and its requests are lost.
Restart(s) ==
    /\ restarts < MaxRestarts
    /\ restarts' = restarts + 1
    /\ ToBoot(s, "seed")
    /\ cache' = [cache EXCEPT ![s] = NoCache]
    /\ load' = [load EXCEPT ![s] = [k \in Loads |-> NotLoading]]
    /\ inflight' = [inflight EXCEPT ![s] = NoLoad]
    /\ newest' = [newest EXCEPT ![s] = 0]
    /\ task' = [a \in Admins |-> IF task[a].server = s THEN NoTask ELSE task[a]]
    /\ UNCHANGED <<tables, asked>>

-----------------------------------------------------------------------------
Init ==
    /\ content = FirstContent /\ designated = FirstDefault
    /\ changes = 0
    /\ chosen = {FirstDefault} \ {NoPackage}
    /\ granted = [p \in Packages |-> {FirstContent[p]} \ {Gone}]
    /\ cache = [s \in Servers |-> NoCache]
    /\ load = [s \in Servers |-> [k \in Loads |-> NotLoading]]
    /\ inflight = [s \in Servers |-> NoLoad]
    /\ boot = [s \in Servers |-> "seed"]
    /\ newest = [s \in Servers |-> 0]
    /\ task = [a \in Admins |-> NoTask]
    /\ asked = 0 /\ restarts = 0

Caching(s) ==
    \/ Age(s)
    \/ \E k \in Loads : Visit(s, k) \/ ReadRow(s, k) \/ ReadPackage(s, k) \/ FailLoad(s, k)

Booting(s) ==
    \/ SeedRead(s) \/ SeedSkip(s) \/ SeedCreate(s) \/ SeedSave(s) \/ SeedFail(s)
    \/ \E k \in Loads : Warm(s, k)
    \/ Restart(s)

Administration(a) ==
    \/ \E s \in Servers, p \in Packages :
          \/ AskDesignate(a, s, p) \/ AskRemove(a, s, p)
          \/ \E list \in Lists : AskEdit(a, s, p, list)
    \/ SaveDesignation(a) \/ Reload(a) \/ SaveEdit(a) \/ AfterEdit(a) \/ Remove(a)

Next ==
    \/ \E s \in Servers : Caching(s) \/ Booting(s)
    \/ \E a \in Admins : Administration(a)

\* Visitors keep coming, time passes, the event loop serves what it started,
\* and an outage ends.
Fairness ==
    \A s \in Servers :
        /\ WF_vars(\E k \in Loads : Visit(s, k)) /\ WF_vars(Age(s))
        /\ SF_vars(\E k \in Loads : ReadRow(s, k))
        /\ SF_vars(\E k \in Loads : ReadPackage(s, k))
        /\ WF_vars(SeedRead(s) \/ SeedSkip(s) \/ SeedCreate(s) \/ SeedSave(s)
                   \/ \E k \in Loads : Warm(s, k))

Spec == Init /\ [][Next]_vars
FairSpec == Spec /\ Fairness

-----------------------------------------------------------------------------
(***************************************************************************)
(* Properties                                                              *)
(***************************************************************************)

Cached == [pkg: Packages, list: Lists, fresh: BOOLEAN, asOf: Nat]
Load == [step: {"idle", "row", "package"}, row: Packages \cup {NoPackage}, asOf: Nat]
Task == [step: {"idle", "designate", "reload", "edit", "edited", "remove", "wait"},
         server: Servers \cup {"none"}, pkg: Packages \cup {NoPackage},
         list: Lists \cup {Gone}, joined: Loads \cup {NoLoad}]

\* Rows, caches, loads and requests are well typed; a load past its first query
\* and a request in flight name what they are about.
TypeOK ==
    /\ content \in [Packages -> Lists \cup {Gone}]
    /\ designated \in Packages \cup {NoPackage}
    /\ cache \in [Servers -> Cached \cup {NoCache}]
    /\ load \in [Servers -> [Loads -> Load]]
    /\ inflight \in [Servers -> Loads \cup {NoLoad}]
    /\ boot \in [Servers -> {"seed", "create", "save", "warm", "warming", "up"}]
    /\ task \in [Admins -> Task]
    /\ \A s \in Servers, k \in Loads : load[s][k].step = "package" => load[s][k].row \in Packages
    /\ \A a \in Admins :
          /\ task[a].step # "idle" => task[a].server \in Servers /\ task[a].pkg \in Packages
          /\ task[a].step = "edit" => task[a].list \in Lists
    /\ asked \in Nat /\ restarts \in Nat /\ changes \in Nat
    /\ chosen \subseteq Packages
    /\ granted \in [Packages -> SUBSET Lists]
    /\ newest \in [Servers -> Nat]

\* Visitors are served the features of a row that exists: no order of checks,
\* designations, removals and revivals leaves the designation dangling.
DefaultExists == designated # NoPackage => content[designated] # Gone

\* Degraded or not, a cache holds a list its package really granted, of a
\* package somebody designated, and never the list that disables the editor.
ServesChosen ==
    \A s \in Servers :
        ~Cold(s) => /\ cache[s].pkg \in chosen
                    /\ cache[s].list \in granted[cache[s].pkg]
                    /\ cache[s].list # Empty

\* Refreshes are applied in the order they read: a cache never goes back to an
\* older state of the tables than the process has already served.
NeverGoesBack == \A s \in Servers : ~Cold(s) => cache[s].asOf = newest[s]

\* Once administrators and deploys rest, every process comes to serve the
\* designated package as it is, and keeps serving it.
Current(s) ==
    (designated # NoPackage /\ Resolves(content[designated]))
    => cache[s].pkg = designated /\ cache[s].list = content[designated]

ComesToServe == <>[](\A s \in Servers : Current(s))

\* A designation is live when it is answered.
LiveWhenAnswered ==
    [][\A a \in Admins :
          (task[a].step = "wait" /\ task[a].list = Gone /\ task'[a] = NoTask)
          => cache'[task[a].server].pkg = task[a].pkg]_vars

\* Boot never overwrites a designation.
SeedNeverOverwrites ==
    [][\A s \in Servers :
          (boot[s] = "save" /\ boot'[s] = "warm") => designated = NoPackage]_vars

\* What a process has cached outlives an outage: between refreshes it is cold only
\* if it never cached a state of the tables that somebody wrote.
LastKnownGood ==
    \A s \in Servers : (newest[s] > 0 /\ inflight[s] = NoLoad) => ~Cold(s)
=============================================================================
