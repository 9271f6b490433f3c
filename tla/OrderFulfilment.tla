-------------------------- MODULE OrderFulfilment ---------------------------
(***************************************************************************)
(* The purchase lifecycle of src/billing: a pending order, Stripe's        *)
(* at-least-once webhook, the administrator's force-fulfil, both ending in *)
(* OrderService.fulfillFromEvent, and the single-use retrieval of the key  *)
(* by the success page.  Stripe itself is external.                        *)
(*                                                                         *)
(* Every await on the database is a step of its own, so requests           *)
(* interleave there.  An order's save writes the whole row the request     *)
(* read, except the license relation, which fulfillFromEvent never loads.  *)
(***************************************************************************)
EXTENDS Integers

CONSTANTS
    Orders,
    Workers,       \* requests in progress at once
    Forced,        \* the orders an administrator may force-fulfil
    MaxFaults      \* requests that die or fail, and deploys

ASSUME FulfilmentAssumption ==
    /\ Forced \subseteq Orders
    /\ MaxFaults \in Nat

Unpaid == "no"
PaidInFull == "full"
PaidShort == "short"     \* any amount or currency but the order's own

VARIABLES
    order,      \* the orders table
    ledger,     \* processed_stripe_events: <<order, source>> stands for the id
    work,       \* the request each worker is serving
    sellable,   \* whether the mint accepts the snapshotted features
    faults,
    \* Stripe:
    settled,    \* what the session of an order was paid
    owed,       \* sessions whose event is not yet answered with a 2xx
    \* History:
    minted,     \* licences minted for an order
    shown,      \* times the success page handed out a key
    mailed      \* keys sent by email

external == <<settled, owed>>
vars == <<order, ledger, work, sellable, faults, external, minted, shown, mailed>>

Unloaded == -1   \* a relation the query did not ask for: undefined

OrderRow == [status: {"none", "pending", "fulfilled", "failed"},
             session: {"none", "placeholder", "attached"},
             license: Nat,          \* which of the order's licences, 0 for null
             delivered: BOOLEAN]    \* licenseDelivered
Copy == [status: {"none", "pending", "fulfilled", "failed"},
         session: {"none", "placeholder", "attached"},
         license: Nat \cup {Unloaded},
         delivered: BOOLEAN]

Idle == [step |-> "idle"]
\* A fulfilment in progress, one past its commit, and a retrieval of the key.
Fulfilment == [step: {"find", "ledger", "refuse", "mint"}, id: Orders,
               source: {"stripe", "admin"}, copy: Copy]
Announcement == [step: {"notify"}, id: Orders, source: {"stripe", "admin"}, copy: OrderRow]
Retrieval == [step: {"claim"}, id: Orders, source: {"buyer"}, copy: OrderRow]
Request == Fulfilment \cup Announcement \cup Retrieval

Event(w) == <<work[w].id, work[w].source>>
Goto(w, step) == work' = [work EXCEPT ![w].step = step]
Leave(w) == work' = [work EXCEPT ![w] = Idle]

\* A 2xx: Stripe stops retrying.
Reply(w) ==
    /\ Leave(w)
    /\ owed' = IF work[w].source = "stripe" THEN owed \ {work[w].id} ELSE owed

-----------------------------------------------------------------------------
\* Checkout: the row under a placeholder session, then the real session's id.
PrepareOrder(o) ==
    /\ order[o].status = "none"
    /\ order' = [order EXCEPT ![o].status = "pending", ![o].session = "placeholder"]
    /\ UNCHANGED <<ledger, work, sellable, faults, external, minted, shown, mailed>>

AttachSession(o) ==
    /\ order[o].session = "placeholder"
    /\ order' = [order EXCEPT ![o].session = "attached"]
    /\ UNCHANGED <<ledger, work, sellable, faults, external, minted, shown, mailed>>

\* External: the buyer pays once the page holds the session's secret.
Pay(o) ==
    /\ order[o].session = "attached"
    /\ settled[o] = Unpaid
    /\ \E p \in {PaidInFull, PaidShort} : settled' = [settled EXCEPT ![o] = p]
    /\ owed' = owed \cup {o}
    /\ UNCHANGED <<order, ledger, work, sellable, faults, minted, shown, mailed>>

-----------------------------------------------------------------------------
\* fulfillFromEvent loads the order with its package only.
LoadedForFulfilment(o) == [order[o] EXCEPT !.license = Unloaded]

\* (2a) `order.status === 'fulfilled' && order.license`
AlreadyFulfilled(copy) == copy.status = "fulfilled" /\ copy.license \notin {0, Unloaded}

\* A delivery: the order is found by the id in the session's metadata.  Stripe
\* delivers while it is owed an answer, and may repeat an answered event.
Deliver(w, o) ==
    /\ work[w] = Idle
    /\ settled[o] # Unpaid
    /\ ~AlreadyFulfilled(LoadedForFulfilment(o))
    /\ work' = [work EXCEPT ![w] = [step |-> "ledger", id |-> o, source |-> "stripe",
                                    copy |-> LoadedForFulfilment(o)]]
    /\ UNCHANGED <<order, ledger, sellable, faults, external, minted, shown, mailed>>

\* forceFulfill reads the order with its license and asks Stripe for the
\* session; a placeholder session is unknown to Stripe.
BeginForce(w, o) ==
    /\ o \in Forced
    /\ work[w] = Idle
    /\ order[o].status \notin {"none", "fulfilled"}
    /\ settled[o] # Unpaid
    /\ work' = [work EXCEPT ![w] = [step |-> "find", id |-> o, source |-> "admin",
                                    copy |-> order[o]]]
    /\ UNCHANGED <<order, ledger, sellable, faults, external, minted, shown, mailed>>

Find(w) ==
    /\ work[w].step = "find"
    /\ LET copy == LoadedForFulfilment(work[w].id)
       IN  work' = [work EXCEPT ![w] =
                      IF AlreadyFulfilled(copy) THEN Idle
                      ELSE [@ EXCEPT !.step = "ledger", !.copy = copy]]
    /\ UNCHANGED <<order, ledger, sellable, faults, external, minted, shown, mailed>>

\* (3) What Stripe collected equals what was charged.
AmountMatches(o) == settled[o] = PaidInFull

\* (2b) the ledger's fast check, then the amount.
CheckLedger(w) ==
    /\ work[w].step = "ledger"
    /\ IF Event(w) \in ledger THEN Reply(w)
       ELSE /\ Goto(w, IF AmountMatches(work[w].id) THEN "mint" ELSE "refuse")
            /\ UNCHANGED owed
    /\ UNCHANGED <<order, ledger, sellable, faults, settled, minted, shown, mailed>>

\* (fault) the unloaded relation is written as a null
SavedUnloaded(current, copy) == copy

\* save(order): the copy over the row, its license column left out.
Saved(current, copy) == [copy EXCEPT !.license = current.license]

Refuse(w) ==
    /\ work[w].step = "refuse"
    /\ LET o == work[w].id
       IN  order' = [order EXCEPT ![o] =
                       Saved(@, [work[w].copy EXCEPT !.status = "failed"])]
    /\ Reply(w)
    /\ UNCHANGED <<ledger, sellable, faults, settled, minted, shown, mailed>>

\* The ledger after a mint that threw: rolled back with it.
RolledBackLedger(w) == ledger

\* (fault) the second insert of an event id does not conflict
NeverTaken(w) == FALSE

\* The unique key of the ledger: the insert of a processed event fails.
Taken(w) == Event(w) \in ledger

\* (4) One transaction: ledger insert, mint, order save.
MintRaced(w) ==
    /\ work[w].step = "mint"
    /\ Taken(w)
    /\ Reply(w)
    /\ UNCHANGED <<order, ledger, sellable, faults, settled, minted, shown, mailed>>

MintRefused(w) ==
    /\ work[w].step = "mint"
    /\ ~Taken(w) /\ ~sellable
    /\ ledger' = RolledBackLedger(w)
    /\ Goto(w, "refuse")
    /\ UNCHANGED <<order, sellable, faults, external, minted, shown, mailed>>

\* The order that was read, with the new licence.
Licensed(w) == [work[w].copy EXCEPT !.status = "fulfilled",
                                    !.license = minted[work[w].id] + 1]

Mint(w) ==
    /\ work[w].step = "mint"
    /\ ~Taken(w) /\ sellable
    /\ LET o == work[w].id
       IN  /\ ledger' = ledger \cup {Event(w)}
           /\ minted' = [minted EXCEPT ![o] = @ + 1]
           /\ order' = [order EXCEPT ![o] = Licensed(w)]
           /\ work' = [work EXCEPT ![w].step = "notify", ![w].copy = Licensed(w)]
    /\ UNCHANGED <<sellable, faults, external, shown, mailed>>

\* After the commit: activation, push and email, then the answer.
Notify(w) ==
    /\ work[w].step = "notify"
    /\ mailed' = mailed \cup {<<work[w].id, work[w].copy.license>>}
    /\ Reply(w)
    /\ UNCHANGED <<order, ledger, sellable, faults, settled, minted, shown>>

-----------------------------------------------------------------------------
\* retrieveLicenseOnce: read, then flip licenseDelivered with a conditional
\* update.
BeginRetrieve(w, o) ==
    /\ work[w] = Idle
    /\ order[o].session = "attached"
    /\ order[o].status = "fulfilled" /\ order[o].license # 0
    /\ work' = [work EXCEPT ![w] = [step |-> "claim", id |-> o, source |-> "buyer",
                                    copy |-> order[o]]]
    /\ UNCHANGED <<order, ledger, sellable, faults, external, minted, shown, mailed>>

\* (fault) the flag that was read decides, not the row's
ReadDelivered(w) == work[w].copy.delivered

\* The WHERE clause of the update looks at the row.
Delivered(w) == order[work[w].id].delivered

ClaimDelivery(w) ==
    /\ work[w].step = "claim"
    /\ LET o == work[w].id
       IN  IF Delivered(w) THEN UNCHANGED <<order, shown>>
           ELSE /\ order' = [order EXCEPT ![o].delivered = TRUE]
                /\ shown' = [shown EXCEPT ![o] = @ + 1]
    /\ Leave(w)
    /\ UNCHANGED <<ledger, sellable, faults, external, minted, mailed>>

-----------------------------------------------------------------------------
\* (fault) a failed request is answered 200
OwedAfterAnswer(w) == owed \ {work[w].id}

\* A request that fails answers a 5xx: Stripe still owes its event.
OwedAfterFailure(w) == owed

\* A transient error (the database, a lost customer upsert) or a crash: the
\* open transaction rolls back, nothing else is undone.
Fail(w) ==
    /\ work[w] # Idle
    /\ faults < MaxFaults
    /\ faults' = faults + 1
    /\ owed' = OwedAfterFailure(w)
    /\ Leave(w)
    /\ UNCHANGED <<order, ledger, sellable, settled, minted, shown, mailed>>

\* A deploy with another feature catalogue: every request in progress dies.
Deploy ==
    /\ faults < MaxFaults
    /\ faults' = faults + 1
    /\ sellable' = ~sellable
    /\ work' = [w \in Workers |-> Idle]
    /\ UNCHANGED <<order, ledger, external, minted, shown, mailed>>

Init ==
    /\ order = [o \in Orders |-> [status |-> "none", session |-> "none",
                                  license |-> 0, delivered |-> FALSE]]
    /\ ledger = {}
    /\ work = [w \in Workers |-> Idle]
    /\ sellable = TRUE
    /\ faults = 0
    /\ settled = [o \in Orders |-> Unpaid]
    /\ owed = {}
    /\ minted = [o \in Orders |-> 0]
    /\ shown = [o \in Orders |-> 0]
    /\ mailed = {}

Handle(w) ==
    \/ Find(w)
    \/ CheckLedger(w)
    \/ Refuse(w)
    \/ MintRaced(w)
    \/ MintRefused(w)
    \/ Mint(w)
    \/ Notify(w)
    \/ ClaimDelivery(w)

Next ==
    \/ \E o \in Orders : PrepareOrder(o) \/ AttachSession(o) \/ Pay(o)
    \/ \E w \in Workers, o \in Orders :
          Deliver(w, o) \/ BeginForce(w, o) \/ BeginRetrieve(w, o)
    \/ \E w \in Workers : Handle(w) \/ Fail(w)
    \/ Deploy

Spec == Init /\ [][Next]_vars

\* The event loop serves every request it has taken; Stripe retries what it
\* is owed.
FairSpec ==
    /\ Spec
    /\ \A w \in Workers : WF_vars(Handle(w))
    /\ \A o \in Orders : SF_vars(o \in owed /\ \E w \in Workers : Deliver(w, o))
-----------------------------------------------------------------------------
(***************************************************************************)
(* Properties                                                              *)
(***************************************************************************)

\* Rows, requests and counters are well typed.
TypeOK ==
    /\ order \in [Orders -> OrderRow]
    /\ ledger \subseteq Orders \X {"stripe", "admin"}
    /\ work \in [Workers -> {Idle} \cup Request]
    /\ sellable \in BOOLEAN
    /\ faults \in Nat
    /\ settled \in [Orders -> {Unpaid, PaidInFull, PaidShort}]
    /\ owed \subseteq Orders
    /\ minted \in [Orders -> Nat]
    /\ shown \in [Orders -> Nat]
    /\ mailed \subseteq Orders \X Nat

\* Orders that webhooks alone fulfil.
Unforced == Orders \ Forced

\* "Exactly one license per paid checkout, however many times Stripe
\* re-delivers the event" (order.service.ts, header).
OneLicencePerOrder == \A o \in Orders : minted[o] <= 1

\* An event in the ledger has left its order a licence: a retry that finds it
\* there may safely be answered (H2, "paid-but-lost").
LedgerMeansLicensed == \A e \in ledger : order[e[1]].license # 0

\* An event Stripe was told to stop retrying has left its order fulfilled with
\* a licence, or failed where an administrator sees it.
AnsweredIsSettled ==
    \A o \in Orders :
        (settled[o] # Unpaid /\ o \notin owed)
        => \/ order[o].status = "fulfilled" /\ order[o].license # 0
           \/ order[o].status = "failed"

\* The success page hands a key out once for a session, whatever tabs fetch it
\* at once and whatever saves of the order come late.
KeyShownOnce == \A o \in Unforced : shown[o] <= 1
\* ... which the code claims of every order.
AnyKeyShownOnce == \A o \in Orders : shown[o] <= 1

\* A fulfilled order stays fulfilled.
FulfilledStays ==
    [][\A o \in Unforced :
          order[o].status = "fulfilled" => order'[o].status = "fulfilled"]_vars

\* A paid order does not stay pending.
PaidIsSettled ==
    \A o \in Orders :
        settled[o] # Unpaid ~> order[o].status \in {"fulfilled", "failed"}

\* What the buyer was promised, with the licences minted as the keys issued: an
\* order no administrator forces gets its one licence, after payment in full.
Promise == INSTANCE PaidCheckout
    WITH Orders <- Unforced,
         payment <- [o \in Unforced |-> settled[o]],
         keys <- [o \in Unforced |-> minted[o]]
KeepsPromise == Promise!Spec
=============================================================================
