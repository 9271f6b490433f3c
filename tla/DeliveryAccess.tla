--------------------------- MODULE DeliveryAccess ---------------------------
(***************************************************************************)
(* Who is let into a paid session: the activation claims a purchase leaves *)
(* for the buyer's browser (license-activation.service.ts), the seat cap   *)
(* (license-install.service.ts) and the two endpoints of src/delivery that *)
(* use them, POST /delivery/session and POST /delivery/refresh.            *)
(*                                                                         *)
(* Every database call of a request is a step, so requests, purchases and  *)
(* administrators interleave between any two.  A licence stands for its    *)
(* licId and the token stored under it; which build it is served is        *)
(* EngineRegistry's, how its row changes is LicenseLifecycle's.            *)
(***************************************************************************)
EXTENDS Integers, FiniteSets

CONSTANTS
    Licences, NoLicence,
    Installs, NoInstall,   \* loader-minted install ids; none when storage is blocked
    Purchases,             \* fulfilled orders that carry an install id,
    BoughtFrom, Bought,    \*   the install and the licence of each
    Requests,              \* requests in flight at once
    Caps, FirstCap,        \* package.maxInstalls: values an administrator sets
    PlansFor,              \* plans the registry may decide for each licence,
    DefaultPlans,          \*   and for an anonymous or refused caller
    Presented, Refreshed,  \* keys this instance's callers send, and refresh
    Via, From              \* install ids they send; whether from an own domain

ASSUME AccessAssumption ==
    /\ NoLicence \notin Licences /\ NoInstall \notin Installs
    /\ BoughtFrom \in [Purchases -> Installs] /\ Bought \in [Purchases -> Licences]
    /\ Caps \subseteq Nat /\ FirstCap \in [Licences -> Caps]
    /\ PlansFor \in [Licences -> SUBSET {"free", "premium"}]
    /\ DefaultPlans \subseteq {"free", "premium"}
    /\ Presented \subseteq Licences \cup {NoLicence} /\ Refreshed \subseteq Licences
    /\ Via \subseteq Installs \cup {NoInstall} /\ From \subseteq BOOLEAN
    /\ IsFiniteSet(Requests) /\ Requests # {} /\ IsFiniteSet(Installs)

VARIABLES
    usable,      \* licIds with a row that is neither revoked nor expired
    cap,         \* maxInstalls of its package
    activation,  \* license_activations, one row for an install
    arming,      \* where each purchase stands in create()
    seat,        \* license_installs: the row of each (licence, install)
    req,         \* what each request holds
    \* History, which no handler reads:
    armed, won,  \* armings written and claims won for each install
    topCap,      \* the largest cap a licence had
    welcome,     \* (licence, install) pairs seen with a usable key on its own domain
    seen,        \* licences usable at some moment of each request
    steady       \* licences whose seat for the request's install stayed active
                 \*   until the cap was decided

rows == <<usable, cap, activation, arming, seat>>
history == <<armed, won, topCap, welcome, seen, steady>>
vars == <<rows, req, history>>

NoActivation == [lic |-> NoLicence, claimed |-> FALSE, expired |-> FALSE]
NoRequest ==
    [step |-> "idle", install |-> NoInstall, own |-> TRUE, lic |-> NoLicence,
     activated |-> FALSE, cap |-> 0, found |-> "none", current |-> FALSE,
     turned |-> FALSE, outcome |-> "none", handed |-> NoLicence]

At(r, step) == req[r].step = step
InFlight(r) == req[r].step \notin {"idle", "done"}
Go(r, q) == req' = [req EXCEPT ![r] = q]

-----------------------------------------------------------------------------
(* Arming: LicenseActivationService.create, after an order is fulfilled *)

FindActivation(p) ==
    /\ arming[p] = "idle"
    /\ arming' = [arming EXCEPT ![p] =
          IF activation[BoughtFrom[p]] = NoActivation THEN "insert" ELSE "update"]
    /\ UNCHANGED <<usable, cap, activation, seat, req, history>>

\* The row is re-armed for the newest licence; a second insert is refused by
\* the unique install id, and the refusal swallowed.
Arm(p) ==
    LET i == BoughtFrom[p]
        written == arming[p] = "update" \/ activation[i] = NoActivation
    IN /\ arming[p] \in {"insert", "update"}
       /\ arming' = [arming EXCEPT ![p] = "done"]
       /\ activation' = [activation EXCEPT ![i] =
             IF written THEN [NoActivation EXCEPT !.lic = Bought[p]] ELSE @]
       /\ armed' = [armed EXCEPT ![i] = IF written THEN @ + 1 ELSE @]
       /\ UNCHANGED <<usable, cap, seat, req, won, topCap, welcome, seen, steady>>

\* Best effort: an error or a deploy loses the arming, never the sale.
LoseArming(p) ==
    /\ arming[p] # "done"
    /\ arming' = [arming EXCEPT ![p] = "done"]
    /\ UNCHANGED <<usable, cap, activation, seat, req, history>>

\* ACTIVATION_TTL_HOURS pass.
Expire(i) ==
    /\ activation[i] # NoActivation /\ ~activation[i].expired
    /\ activation' = [activation EXCEPT ![i].expired = TRUE]
    /\ UNCHANGED <<usable, cap, arming, seat, req, history>>

-----------------------------------------------------------------------------
(* Around the requests *)

\* Revocation, renewal, reissue, expiry, refresh: the licence row changes.
ChangeStatus(l) ==
    /\ usable' = IF l \in usable THEN usable \ {l} ELSE usable \cup {l}
    /\ seen' = [r \in Requests |-> IF InFlight(r) THEN seen[r] \cup usable' ELSE seen[r]]
    /\ UNCHANGED <<cap, activation, arming, seat, req, armed, won, topCap, welcome, steady>>

EditCap(l, n) ==
    /\ cap[l] # n
    /\ cap' = [cap EXCEPT ![l] = n]
    /\ topCap' = [topCap EXCEPT ![l] = IF n > @ THEN n ELSE @]
    /\ UNCHANGED <<usable, activation, arming, seat, req, armed, won, welcome, seen, steady>>

Undecided(r) == InFlight(r) /\ req[r].step \notin {"write", "reply"}

\* A seat's row, and the requests for that install whose seat stopped being active.
WriteSeat(l, i, s) ==
    /\ seat' = [seat EXCEPT ![<<l, i>>] = s]
    /\ steady' = [r \in Requests |->
          IF Undecided(r) /\ req[r].install = i /\ s # "active" THEN steady[r] \ {l} ELSE steady[r]]

\* release deletes the row; a request that read it touches nothing.
Release(l, i) ==
    /\ seat[<<l, i>>] # "none"
    /\ WriteSeat(l, i, "none")
    /\ req' = [r \in Requests |->
          IF req[r].lic = l /\ req[r].install = i THEN [req[r] EXCEPT !.current = FALSE]
          ELSE req[r]]
    /\ UNCHANGED <<usable, cap, activation, arming, armed, won, topCap, welcome, seen>>

-----------------------------------------------------------------------------
(* The endpoints *)

Begin(r, q) ==
    /\ ~InFlight(r)
    /\ Go(r, q)
    /\ seen' = [seen EXCEPT ![r] = usable]
    /\ steady' = [steady EXCEPT ![r] =
          {l \in Licences : q.install # NoInstall /\ seat[<<l, q.install>>] = "active"}]
    /\ UNCHANGED <<rows, armed, won, topCap, welcome>>

\* POST /delivery/session.  Only a keyless caller redeems an activation.
OpenSession(r, key, i, own) ==
    Begin(r, [NoRequest EXCEPT !.install = i, !.own = own, !.lic = key,
                !.step = IF key = NoLicence /\ i # NoInstall THEN "find" ELSE "resolve"])

\* POST /delivery/refresh: the licence named by the token, without an install.
RefreshSession(r, l, own) == Begin(r, [NoRequest EXCEPT !.own = own, !.lic = l, !.step = "key"])

\* (fault) a missing row is taken for an unclaimed one
RedeemableUnchecked(row) == ~row.claimed /\ ~row.expired

Redeemable(row) == row # NoActivation /\ ~row.claimed /\ ~row.expired

\* claim reads the row; anything it cannot verify is no licence (fail closed).
FindClaim(r) ==
    /\ At(r, "find")
    /\ \E answered \in BOOLEAN :
          LET row == activation[req[r].install]
          IN Go(r, IF answered /\ Redeemable(row)
                   THEN [req[r] EXCEPT !.step = "claim", !.lic = row.lic]
                   ELSE [req[r] EXCEPT !.step = "resolve"])
    /\ UNCHANGED <<rows, history>>

\* (fault) the claim is taken on the strength of the earlier read
TakesAsRead(row) == TRUE

\* The conditional update: only an unclaimed row is taken.
Takes(row) == ~row.claimed

\* Whoever loses the race has no licence, nor has whoever's update throws, with or
\* without effect (fail closed).
TakeClaim(r) ==
    LET i == req[r].install
        taken == [activation EXCEPT ![i].claimed = TRUE]
    IN /\ At(r, "claim")
       /\ \/ /\ Takes(activation[i]) /\ activation' = taken
             /\ won' = [won EXCEPT ![i] = @ + 1]
             /\ Go(r, [req[r] EXCEPT !.step = "key", !.activated = TRUE])
          \/ /\ activation' \in {activation, taken}
             /\ Go(r, [req[r] EXCEPT !.step = "resolve", !.lic = NoLicence])
             /\ UNCHANGED won
       /\ UNCHANGED <<usable, cap, arming, seat, armed, topCap, welcome, seen, steady>>

\* keyForLicence: no key for a revoked, expired or missing licence.
KeyFor(r) ==
    /\ At(r, "key")
    /\ Go(r, IF req[r].lic \in usable THEN [req[r] EXCEPT !.step = "resolve"]
             ELSE [req[r] EXCEPT !.step = "resolve", !.lic = NoLicence, !.activated = FALSE])
    /\ UNCHANGED <<rows, history>>

\* (fault) a revoked or expired key passes
AdmitsAnyStatus(l, own) == own

\* (fault) the domain is not looked at before the seat
AdmitsAnyOrigin(l, own) == l \in usable

Admits(l, own) == l \in usable /\ own

Reply(q, outcome) == [q EXCEPT !.step = "reply", !.outcome = outcome]

\* resolveLicensed up to the seat cap.  The cap comes last, so that only a good
\* key on its own domain takes a seat.
Resolve(r) ==
    LET q == req[r]
        l == q.lic
    IN /\ At(r, "resolve")
       /\ Go(r, IF l = NoLicence THEN Reply(q, "anonymous")
                ELSE IF ~Admits(l, q.own) THEN Reply(q, "refused")
                ELSE IF cap[l] > 0 /\ q.install # NoInstall
                THEN [q EXCEPT !.step = "seat", !.cap = cap[l]]
                ELSE Reply(q, "granted"))
       /\ welcome' = IF l \in usable /\ q.own THEN welcome \cup {<<l, q.install>>} ELSE welcome
       /\ UNCHANGED <<rows, armed, won, topCap, seen, steady>>

\* check looks the seat up; it fails open.
FindSeat(r) ==
    LET q == req[r]
        row == seat[<<q.lic, q.install>>]
    IN /\ At(r, "seat")
       /\ \/ Go(r, [q EXCEPT !.step = "count", !.found = row, !.current = row # "none"])
          \/ Go(r, Reply(q, "granted"))
       /\ UNCHANGED <<rows, history>>

activeCount(l) == Cardinality({i \in Installs : seat[<<l, i>>] = "active"})

\* (fault) the cap applies to seats already held
TurnsAwayAny(found, count, max) == count >= max

\* (fault) one seat too many
TurnsAwayLate(found, count, max) == found # "active" /\ count > max

\* A known active seat always passes; a new or a blocked one while there is room.
TurnsAway(found, count, max) == found # "active" /\ count >= max

CountSeats(r) ==
    LET q == req[r]
    IN /\ At(r, "count")
       /\ \/ Go(r, [q EXCEPT !.step = "write",
                     !.turned = TurnsAway(q.found, activeCount(q.lic), q.cap)])
          \/ Go(r, Reply(q, "granted"))
       /\ UNCHANGED <<rows, history>>

\* record inserts unless the seat exists by now; touch updates the row it read
\* unless that is gone.  Either may fail; the decision stands.
RecordSeat(r) ==
    LET q == req[r]
        l == q.lic
        i == q.install
        lands == IF q.found = "none" THEN seat[<<l, i>>] = "none" ELSE q.current
    IN /\ At(r, "write")
       /\ Go(r, Reply(q, IF q.turned THEN "capped" ELSE "granted"))
       /\ \/ lands /\ WriteSeat(l, i, IF q.turned THEN "blocked" ELSE "active")
          \/ UNCHANGED <<seat, steady>>
       /\ UNCHANGED <<usable, cap, activation, arming, armed, won, topCap, welcome, seen>>

\* An answered request keeps, of its history, what concerns its licence.
Finish(r, q) ==
    /\ Go(r, q)
    /\ seen' = [seen EXCEPT ![r] = @ \cap {q.lic}]
    /\ steady' = [steady EXCEPT ![r] = @ \cap {q.lic}]
    /\ UNCHANGED <<rows, armed, won, topCap, welcome>>

PlansOf(q) == IF q.outcome = "granted" THEN PlansFor[q.lic] ELSE DefaultPlans

\* The plan is decided and the build resolved; a key redeemed on the way is
\* handed over unless the plan is the free one.
Respond(r) ==
    LET q == req[r]
    IN /\ At(r, "reply")
       /\ \E plan \in PlansOf(q) :
             Finish(r, [NoRequest EXCEPT !.step = "done", !.lic = q.lic,
                          !.activated = q.activated, !.outcome = q.outcome,
                          !.handed = IF q.activated /\ plan # "free" THEN q.lic ELSE NoLicence])

\* A query fails, the registry refuses the build, or a deploy kills the request.
Fail(r) ==
    /\ InFlight(r)
    /\ Finish(r, [NoRequest EXCEPT !.step = "done", !.outcome = "failed"])

-----------------------------------------------------------------------------
Init ==
    /\ usable = Licences
    /\ cap = FirstCap
    /\ activation = [i \in Installs |-> NoActivation]
    /\ arming = [p \in Purchases |-> "idle"]
    /\ seat = [k \in Licences \X Installs |-> "none"]
    /\ req = [r \in Requests |-> NoRequest]
    /\ armed = [i \in Installs |-> 0] /\ won = [i \in Installs |-> 0]
    /\ topCap = FirstCap
    /\ welcome = {}
    /\ seen = [r \in Requests |-> {}] /\ steady = [r \in Requests |-> {}]

Purchase(p) == FindActivation(p) \/ Arm(p) \/ LoseArming(p)

Administration ==
    \/ \E l \in Licences : ChangeStatus(l)
    \/ \E l \in Licences, n \in Caps : EditCap(l, n)
    \/ \E l \in Licences, i \in Installs : Release(l, i)

Request(r) ==
    \/ \E key \in Presented, i \in Via, own \in From : OpenSession(r, key, i, own)
    \/ \E l \in Refreshed, own \in From : RefreshSession(r, l, own)
    \/ FindClaim(r) \/ TakeClaim(r) \/ KeyFor(r) \/ Resolve(r)
    \/ FindSeat(r) \/ CountSeats(r) \/ RecordSeat(r)
    \/ Respond(r) \/ Fail(r)

Next ==
    \/ \E p \in Purchases : Purchase(p)
    \/ \E i \in Installs : Expire(i)
    \/ Administration
    \/ \E r \in Requests : Request(r)

Spec == Init /\ [][Next]_vars
-----------------------------------------------------------------------------
(***************************************************************************)
(* Properties                                                              *)
(***************************************************************************)

Steps == {"idle", "find", "claim", "key", "resolve", "seat", "count", "write", "reply", "done"}
Outcomes == {"none", "anonymous", "refused", "capped", "granted", "failed"}
SeatStates == {"none", "active", "blocked"}
MaybeLicence == Licences \cup {NoLicence}
Activation == [lic: Licences, claimed: BOOLEAN, expired: BOOLEAN]
RequestRow ==
    [step: Steps, install: Installs \cup {NoInstall}, own: BOOLEAN, lic: MaybeLicence,
     activated: BOOLEAN, cap: Nat, found: SeatStates, current: BOOLEAN,
     turned: BOOLEAN, outcome: Outcomes, handed: MaybeLicence]

\* Rows and requests are well typed; a request that claims, asks for a key or
\* takes a seat names the licence, and the install the seat is for.
TypeOK ==
    /\ usable \subseteq Licences
    /\ cap \in [Licences -> Caps] /\ topCap \in [Licences -> Nat]
    /\ activation \in [Installs -> Activation \cup {NoActivation}]
    /\ arming \in [Purchases -> {"idle", "insert", "update", "done"}]
    /\ seat \in [Licences \X Installs -> SeatStates]
    /\ req \in [Requests -> RequestRow]
    /\ \A r \in Requests :
          /\ req[r].step \in {"claim", "key", "seat", "count", "write"} => req[r].lic \in Licences
          /\ req[r].step \in {"find", "claim", "seat", "count", "write"} => req[r].install \in Installs
          /\ req[r].outcome = "granted" => req[r].lic \in Licences
          /\ req[r].step \notin {"reply", "done"} => req[r].outcome = "none"
          /\ At(r, "claim") => activation[req[r].install] # NoActivation
    /\ armed \in [Installs -> Nat] /\ won \in [Installs -> Nat]
    /\ welcome \subseteq Licences \X (Installs \cup {NoInstall})
    /\ seen \in [Requests -> SUBSET Licences] /\ steady \in [Requests -> SUBSET Licences]

\* A claim is single-use: however requests and re-armings race, an install id
\* redeems no more keys than purchases were armed for it.
ClaimsWithinArmings == \A i \in Installs : won[i] <= armed[i]

\* No session is granted, and no key handed over, for a licence that was not
\* usable at any moment of the request.
OnlyWhileUsable ==
    \A r \in Requests :
        At(r, "done") =>
            /\ req[r].outcome = "granted" => req[r].lic \in seen[r]
            /\ req[r].handed # NoLicence => req[r].handed \in seen[r]

\* A revoked, expired or wrong-domain key takes no seat, not even a blocked
\* one: a leaked key cannot exhaust its owner's installs.
OnlyWelcomeSeats ==
    \A l \in Licences, i \in Installs : seat[<<l, i>>] # "none" => <<l, i>> \in welcome

\* The count and the insert are separate: requests in flight together may each
\* take a seat beyond the cap, and nothing else does.
SeatsWithinRace ==
    \A l \in Licences : activeCount(l) <= topCap[l] + Cardinality(Requests) - 1

\* An install whose seat is active from its request's arrival until the cap is
\* decided is never turned away, even when the cap was lowered below the seats
\* taken or others race for them.
KnownSeatServed ==
    \A r \in Requests :
        (At(r, "done") /\ req[r].outcome = "capped") => req[r].lic \notin steady[r]

\* The key is handed over with the claim it spends, so the loader can store it
\* and stop depending on the activation row.
KeyHandedWithClaim ==
    \A r \in Requests :
        (At(r, "done") /\ req[r].activated /\ req[r].outcome = "granted")
        => req[r].handed = req[r].lic

\* No more seats than the cap.
SeatsWithinCap == \A l \in Licences : activeCount(l) <= topCap[l]

\* The key of a licence that was armed once is not on its way to two requests.
KeyToOneRequest ==
    \A r, q \in Requests :
        (r # q /\ InFlight(r) /\ InFlight(q) /\ req[r].activated /\ req[q].activated)
        => req[r].lic # req[q].lic

\* Once readmitted, a seat is not blocked by a request that read it before.
ReadmittedStays ==
    [][\A l \in Licences, i \in Installs :
          (seat[<<l, i>>] = "active" /\ activeCount(l) <= cap[l]) => seat'[<<l, i>>] # "blocked"]_vars
=============================================================================
