------------------------ MODULE OrderFulfilmentProofs -----------------------
(***************************************************************************)
(* Theorems about OrderFulfilment, for any number of orders and of         *)
(* requests in progress, and any number of faults.                         *)
(***************************************************************************)
EXTENDS OrderFulfilment, TLAPS

-----------------------------------------------------------------------------
(* Type correctness. *)

Statuses == {"none", "pending", "fulfilled", "failed"}

LEMMA RequestType ==
    ASSUME TypeOK, NEW w \in Workers, work[w].step # "idle"
    PROVE  work[w] \in Request /\ work[w].id \in Orders
BY DEF TypeOK, Idle, Request, Fulfilment, Announcement, Retrieval

LEMMA FulfilmentType ==
    ASSUME TypeOK, NEW w \in Workers,
           work[w].step \in {"find", "ledger", "refuse", "mint"}
    PROVE  work[w] \in Fulfilment /\ Event(w) \in Orders \X {"stripe", "admin"}
BY DEF TypeOK, Idle, Request, Fulfilment, Announcement, Retrieval, Event

LEMMA LeaveType ==
    ASSUME TypeOK, NEW w \in Workers, Leave(w)
    PROVE  work' \in [Workers -> {Idle} \cup Request]
BY DEF Leave, TypeOK

LEMMA GotoType ==
    ASSUME TypeOK, NEW w \in Workers, NEW s \in {"ledger", "refuse", "mint"},
           work[w].step \in {"find", "ledger", "refuse", "mint"}, Goto(w, s)
    PROVE  work' \in [Workers -> {Idle} \cup Request]
<1>1. work[w] \in Fulfilment
  BY FulfilmentType
<1>2. [work[w] EXCEPT !.step = s] \in Fulfilment
  BY <1>1 DEF Fulfilment
<1>3. QED
  BY <1>2 DEF Goto, TypeOK, Request

LEMMA ReplyType ==
    ASSUME TypeOK, NEW w \in Workers, Reply(w)
    PROVE  work' \in [Workers -> {Idle} \cup Request] /\ owed' \subseteq Orders
BY LeaveType DEF Reply, TypeOK

LEMMA LoadedType ==
    ASSUME TypeOK, NEW o \in Orders
    PROVE  LoadedForFulfilment(o) \in Copy /\ order[o] \in Copy
BY DEF LoadedForFulfilment, TypeOK, OrderRow, Copy, Unloaded

LEMMA CheckoutType ==
    ASSUME TypeOK, NEW o \in Orders, PrepareOrder(o) \/ AttachSession(o) \/ Pay(o)
    PROVE  TypeOK'
<1>1. CASE PrepareOrder(o) \/ AttachSession(o)
  <2>1. order' \in [Orders -> OrderRow]
    BY <1>1 DEF PrepareOrder, AttachSession, TypeOK, OrderRow
  <2>2. QED
    BY <1>1, <2>1 DEF PrepareOrder, AttachSession, TypeOK, external
<1>2. CASE Pay(o)
  BY <1>2 DEF Pay, TypeOK
<1>3. QED
  BY <1>1, <1>2

LEMMA TakeType ==
    ASSUME TypeOK, NEW w \in Workers, NEW o \in Orders,
           Deliver(w, o) \/ BeginForce(w, o) \/ BeginRetrieve(w, o)
    PROVE  TypeOK'
<1>1. order[o] \in OrderRow
  BY DEF TypeOK
<1>2. PICK request \in Request : work' = [work EXCEPT ![w] = request]
  BY <1>1, LoadedType DEF Deliver, BeginForce, BeginRetrieve, Request, Fulfilment, Retrieval
<1>3. work' \in [Workers -> {Idle} \cup Request]
  BY <1>2 DEF TypeOK
<1>4. UNCHANGED <<order, ledger, sellable, faults, external, minted, shown, mailed>>
  BY DEF Deliver, BeginForce, BeginRetrieve
<1>5. QED
  BY <1>3, <1>4 DEF TypeOK, external

LEMMA FindType == ASSUME TypeOK, NEW w \in Workers, Find(w) PROVE TypeOK'
<1>1. work[w] \in Fulfilment /\ work[w].id \in Orders
  BY FulfilmentType DEF Find, Fulfilment
<1> DEFINE copy == LoadedForFulfilment(work[w].id)
<1>2. copy \in Copy
  BY <1>1, LoadedType
<1>3. work' = [work EXCEPT ![w] = IF AlreadyFulfilled(copy) THEN Idle
                                  ELSE [@ EXCEPT !.step = "ledger", !.copy = copy]]
  BY DEF Find
<1> HIDE DEF copy
<1>4. [work[w] EXCEPT !.step = "ledger", !.copy = copy] \in Fulfilment
  BY <1>1, <1>2 DEF Fulfilment
<1>5. work' \in [Workers -> {Idle} \cup Request]
  BY <1>3, <1>4 DEF TypeOK, Request
<1>6. QED
  BY <1>5 DEF Find, TypeOK, external

LEMMA SavedType ==
    ASSUME NEW row \in OrderRow, NEW copy \in Copy, NEW s \in Statuses
    PROVE  Saved(row, [copy EXCEPT !.status = s]) \in OrderRow
BY DEF Saved, OrderRow, Copy, Statuses

LEMMA LicensedType ==
    ASSUME TypeOK, NEW w \in Workers, work[w].step = "mint"
    PROVE  /\ Licensed(w) \in OrderRow /\ Licensed(w).license # 0
           /\ Licensed(w).status = "fulfilled"
           /\ Licensed(w).delivered = work[w].copy.delivered
<1>1. work[w].copy \in Copy /\ work[w].id \in Orders
  BY FulfilmentType DEF Fulfilment
<1> DEFINE n == minted[work[w].id] + 1
<1>2. n \in Nat /\ n # 0
  BY <1>1 DEF TypeOK
<1> HIDE DEF n
<1>3. Licensed(w) = [work[w].copy EXCEPT !.status = "fulfilled", !.license = n]
  BY DEF Licensed, n
<1>4. QED
  BY <1>1, <1>2, <1>3 DEF Copy, OrderRow

LEMMA DeliveredType ==
    ASSUME NEW row \in OrderRow
    PROVE  [row EXCEPT !.delivered = TRUE] \in OrderRow
BY DEF OrderRow

LEMMA HandleType == ASSUME TypeOK, NEW w \in Workers, Handle(w) PROVE TypeOK'
<1>1. CASE Find(w)
  BY <1>1, FindType
<1>2. CASE CheckLedger(w)
  <2>1. work' \in [Workers -> {Idle} \cup Request] /\ owed' \subseteq Orders
    BY <1>2, ReplyType, GotoType DEF CheckLedger, TypeOK
  <2>2. QED
    BY <1>2, <2>1 DEF CheckLedger, TypeOK
<1>3. CASE Refuse(w)
  <2>1. work[w].id \in Orders /\ work[w].copy \in Copy
    BY <1>3, FulfilmentType DEF Refuse, Fulfilment
  <2>2. order' \in [Orders -> OrderRow]
    <3> DEFINE row == Saved(order[work[w].id], [work[w].copy EXCEPT !.status = "failed"])
    <3>1. row \in OrderRow
      BY <2>1, SavedType DEF TypeOK, Statuses
    <3>2. order' = [order EXCEPT ![work[w].id] = row]
      BY <1>3 DEF Refuse
    <3> HIDE DEF row
    <3>3. QED
      BY <2>1, <3>1, <3>2 DEF TypeOK
  <2>3. QED
    BY <1>3, <2>2, ReplyType DEF Refuse, TypeOK
<1>4. CASE MintRaced(w)
  BY <1>4, ReplyType DEF MintRaced, TypeOK
<1>5. CASE MintRefused(w)
  <2>1. work' \in [Workers -> {Idle} \cup Request]
    BY <1>5, GotoType DEF MintRefused
  <2>2. QED
    BY <1>5, <2>1 DEF MintRefused, TypeOK, external, RolledBackLedger
<1>6. CASE Mint(w)
  <2>1. work[w] \in Fulfilment /\ Event(w) \in Orders \X {"stripe", "admin"}
    BY <1>6, FulfilmentType DEF Mint
  <2>2. Licensed(w) \in OrderRow
    BY <1>6, LicensedType DEF Mint
  <2>3. /\ order' = [order EXCEPT ![work[w].id] = Licensed(w)]
        /\ work' = [work EXCEPT ![w].step = "notify", ![w].copy = Licensed(w)]
        /\ ledger' = ledger \cup {Event(w)}
        /\ minted' = [minted EXCEPT ![work[w].id] = @ + 1]
        /\ UNCHANGED <<sellable, faults, external, shown, mailed>>
    BY <1>6 DEF Mint
  <2> DEFINE row == Licensed(w)
  <2> HIDE DEF row
  <2>4. order' \in [Orders -> OrderRow]
    BY <2>2, <2>3 DEF TypeOK
  <2>5. work' \in [Workers -> {Idle} \cup Request]
    <3>1. [work[w] EXCEPT !.step = "notify", !.copy = row] \in Announcement
      BY <2>1, <2>2 DEF Fulfilment, Announcement, row
    <3>2. work' = [work EXCEPT ![w] = [work[w] EXCEPT !.step = "notify", !.copy = row]]
      BY <2>3 DEF TypeOK, row
    <3>3. QED
      BY <3>1, <3>2 DEF TypeOK, Request
  <2>6. minted' \in [Orders -> Nat]
    BY <2>1, <2>3 DEF TypeOK, Fulfilment
  <2>7. ledger' \subseteq Orders \X {"stripe", "admin"}
    BY <2>1, <2>3 DEF TypeOK
  <2>8. QED
    BY <2>3, <2>4, <2>5, <2>6, <2>7 DEF TypeOK, external
<1>7. CASE Notify(w)
  <2>1. work[w] \in Announcement
    BY <1>7, RequestType DEF Notify, Request, Fulfilment, Announcement, Retrieval
  <2>2. work[w].id \in Orders /\ work[w].copy.license \in Nat
    BY <2>1 DEF Announcement, OrderRow
  <2>3. QED
    BY <1>7, <2>2, ReplyType DEF Notify, TypeOK
<1>8. CASE ClaimDelivery(w)
  <2>1. work[w].id \in Orders
    BY <1>8, RequestType DEF ClaimDelivery
  <2>2. order' \in [Orders -> OrderRow]
    <3> DEFINE row == [order[work[w].id] EXCEPT !.delivered = TRUE]
    <3>1. row \in OrderRow
      BY <2>1, DeliveredType DEF TypeOK
    <3>2. order' = order \/ order' = [order EXCEPT ![work[w].id] = row]
      BY <1>8 DEF ClaimDelivery
    <3> HIDE DEF row
    <3>3. QED
      BY <2>1, <3>1, <3>2 DEF TypeOK
  <2>3. shown' \in [Orders -> Nat]
    <3>1. shown[work[w].id] + 1 \in Nat
      BY <2>1 DEF TypeOK
    <3>2. shown' = shown \/ shown' = [shown EXCEPT ![work[w].id] = @ + 1]
      BY <1>8 DEF ClaimDelivery
    <3>3. QED
      BY <2>1, <3>1, <3>2 DEF TypeOK
  <2>4. QED
    BY <1>8, <2>2, <2>3, LeaveType DEF ClaimDelivery, TypeOK, external
<1>9. QED
  BY <1>1, <1>2, <1>3, <1>4, <1>5, <1>6, <1>7, <1>8 DEF Handle

LEMMA InitType == Init => TypeOK
BY FulfilmentAssumption DEF Init, TypeOK, OrderRow, Idle, Unpaid

LEMMA NextType == TypeOK /\ [Next]_vars => TypeOK'
<1> SUFFICES ASSUME TypeOK, [Next]_vars PROVE TypeOK'
  OBVIOUS
<1>1. CASE \E o \in Orders : PrepareOrder(o) \/ AttachSession(o) \/ Pay(o)
  BY <1>1, CheckoutType
<1>2. CASE \E w \in Workers, o \in Orders :
             Deliver(w, o) \/ BeginForce(w, o) \/ BeginRetrieve(w, o)
  BY <1>2, TakeType
<1>3. CASE \E w \in Workers : Handle(w)
  BY <1>3, HandleType
<1>4. CASE \E w \in Workers : Fail(w)
  BY <1>4, LeaveType DEF Fail, TypeOK, OwedAfterFailure
<1>5. CASE Deploy
  BY <1>5 DEF Deploy, TypeOK, external
<1>6. CASE UNCHANGED vars
  BY <1>6 DEF vars, TypeOK, external
<1>7. QED
  BY <1>1, <1>2, <1>3, <1>4, <1>5, <1>6 DEF Next

\* Rows, requests and counters keep their types, whatever interleaves.
THEOREM TypeCorrect == Spec => []TypeOK
<1>1. QED
  BY InitType, NextType, PTL DEF Spec

-----------------------------------------------------------------------------
(* What is answered is settled, whoever fulfils. *)

Fulfilling == {"find", "ledger", "refuse", "mint"}

\* The parts that are not goals themselves say that a reply is only sent once
\* the order's own row records the outcome.
SettlementIInv ==
    /\ \A e \in ledger : /\ order[e[1]].license # 0
                         /\ order[e[1]].status \in {"fulfilled", "failed"}
    /\ \A w \in Workers : work[w].step = "notify" => Event(w) \in ledger
    /\ \A o \in Orders :
          /\ order[o].status = "fulfilled" => order[o].license # 0
          /\ order[o].session # "none" => order[o].status # "none"
          /\ settled[o] # Unpaid => order[o].status # "none"
    /\ AnsweredIsSettled

\* A request of an order nobody forces: a webhook's, or the success page's.
WebhookRequest(w) ==
    /\ work[w].step \in Fulfilling \cup {"notify"} => work[w].source = "stripe"
    /\ work[w].step = "mint" => settled[work[w].id] = PaidInFull
    /\ work[w].step = "refuse" =>
          /\ Event(w) \notin ledger
          /\ ~sellable \/ settled[work[w].id] = PaidShort
    /\ work[w].step \in Fulfilling =>
          /\ settled[work[w].id] # Unpaid
          /\ work[w].copy.delivered => order[work[w].id].delivered
    /\ work[w].step = "claim" => <<work[w].id, "stripe">> \in ledger

OnUnforced(w) == work[w].step # "idle" /\ work[w].id \notin Forced

WebhookIInv ==
    /\ \A w \in Workers : OnUnforced(w) => WebhookRequest(w)
    /\ \A o \in Unforced :
          /\ minted[o] = IF <<o, "stripe">> \in ledger THEN 1 ELSE 0
          /\ shown[o] = IF order[o].delivered THEN 1 ELSE 0
          /\ (\/ order[o].license # 0
              \/ order[o].status = "fulfilled"
              \/ order[o].delivered) => <<o, "stripe">> \in ledger

\* A step that leaves the orders alone, lengthens no ledger and answers nothing.
LEMMA SettlementKept ==
    ASSUME SettlementIInv,
           UNCHANGED <<order, ledger, settled, owed>>,
           \A w \in Workers : work'[w] = work[w] \/ work'[w].step # "notify"
    PROVE  SettlementIInv'
BY DEF SettlementIInv, AnsweredIsSettled, Event

LEMMA SettlementCheckout ==
    ASSUME TypeOK, SettlementIInv, NEW o \in Orders,
           PrepareOrder(o) \/ AttachSession(o) \/ Pay(o)
    PROVE  SettlementIInv'
<1>1. CASE PrepareOrder(o)
  BY <1>1 DEF PrepareOrder, SettlementIInv, AnsweredIsSettled, TypeOK, OrderRow, Event, external
<1>2. CASE AttachSession(o)
  BY <1>2 DEF AttachSession, SettlementIInv, AnsweredIsSettled, TypeOK, OrderRow, Event, external
<1>3. CASE Pay(o)
  BY <1>3 DEF Pay, SettlementIInv, AnsweredIsSettled, TypeOK, OrderRow, Event
<1>4. QED
  BY <1>1, <1>2, <1>3

LEMMA SettlementTake ==
    ASSUME TypeOK, SettlementIInv, NEW w \in Workers, NEW o \in Orders,
           Deliver(w, o) \/ BeginForce(w, o) \/ BeginRetrieve(w, o)
    PROVE  SettlementIInv'
<1>1. \A v \in Workers : work'[v] = work[v] \/ work'[v].step # "notify"
  BY DEF Deliver, BeginForce, BeginRetrieve, TypeOK
<1>2. UNCHANGED <<order, ledger, settled, owed>>
  BY DEF Deliver, BeginForce, BeginRetrieve, external
<1>3. QED
  BY <1>1, <1>2, SettlementKept

\* A reply is safe once the row of its order records the outcome.
LEMMA SettlementReply ==
    ASSUME TypeOK, SettlementIInv, NEW w \in Workers, Reply(w),
           UNCHANGED <<order, ledger, settled>>, Event(w) \in ledger, work[w].id \in Orders
    PROVE  SettlementIInv'
<1>1. \A v \in Workers : work'[v] = work[v] \/ work'[v] = Idle
  BY DEF Reply, Leave, TypeOK
<1>2. AnsweredIsSettled'
  BY DEF Reply, SettlementIInv, AnsweredIsSettled, Event
<1>3. QED
  BY <1>1, <1>2 DEF SettlementIInv, Event, Idle

LEMMA GotoKeeps ==
    ASSUME TypeOK, NEW w \in Workers, NEW s \in {"ledger", "refuse", "mint"},
           work[w].step \in {"find", "ledger", "refuse", "mint"}, Goto(w, s)
    PROVE  /\ \A v \in Workers : v # w => work'[v] = work[v]
           /\ work'[w].step = s /\ work'[w].id = work[w].id
           /\ work'[w].source = work[w].source /\ work'[w].copy = work[w].copy
<1>1. work[w] \in Fulfilment
  BY FulfilmentType
<1>2. QED
  BY <1>1 DEF Goto, TypeOK, Fulfilment

LEMMA SettlementHandle ==
    ASSUME TypeOK, SettlementIInv, NEW w \in Workers, Handle(w)
    PROVE  SettlementIInv'
<1>0. work[w].step # "idle" => work[w].id \in Orders
  BY RequestType
<1>1. CASE Find(w)
  <2>1. \A v \in Workers : work'[v] = work[v] \/ work'[v].step # "notify"
    <3> DEFINE copy == LoadedForFulfilment(work[w].id)
    <3>1. work' = [work EXCEPT ![w] = IF AlreadyFulfilled(copy) THEN Idle
                                      ELSE [@ EXCEPT !.step = "ledger", !.copy = copy]]
      BY <1>1 DEF Find
    <3>2. work[w] \in Fulfilment
      BY <1>1, FulfilmentType DEF Find
    <3> HIDE DEF copy
    <3>3. [work[w] EXCEPT !.step = "ledger", !.copy = copy].step = "ledger"
      BY <3>2 DEF Fulfilment
    <3>4. QED
      BY <3>1, <3>3 DEF TypeOK, Idle
  <2>2. QED
    BY <1>1, <2>1, SettlementKept DEF Find, external
<1>2. CASE CheckLedger(w)
  <2>1. CASE Event(w) \in ledger
    BY <1>0, <1>2, <2>1, SettlementReply DEF CheckLedger
  <2>2. CASE Event(w) \notin ledger
    <3>1. \A v \in Workers : work'[v] = work[v] \/ work'[v].step # "notify"
      BY <1>2, <2>2, GotoKeeps DEF CheckLedger
    <3>2. QED
      BY <1>2, <2>2, <3>1, SettlementKept DEF CheckLedger
  <2>3. QED
    BY <2>1, <2>2
<1>3. CASE Refuse(w)
  <2>1. work[w].id \in Orders
    BY <1>0, <1>3 DEF Refuse
  <2>2. /\ \A o \in Orders : o # work[w].id => order'[o] = order[o]
        /\ order'[work[w].id].status = "failed"
        /\ order'[work[w].id].license = order[work[w].id].license
    BY <1>3, <2>1 DEF Refuse, Saved, TypeOK
  <2>3. \A v \in Workers : work'[v] = work[v] \/ work'[v] = Idle
    BY <1>3 DEF Refuse, Reply, Leave, TypeOK
  <2>4. AnsweredIsSettled'
    BY <1>3, <2>1, <2>2 DEF Refuse, Reply, SettlementIInv, AnsweredIsSettled
  <2>5. QED
    BY <1>3, <2>1, <2>2, <2>3, <2>4 DEF Refuse, SettlementIInv, Event, Idle, TypeOK
<1>4. CASE MintRaced(w)
  BY <1>0, <1>4, SettlementReply DEF MintRaced, Taken
<1>5. CASE MintRefused(w)
  <2>1. \A v \in Workers : work'[v] = work[v] \/ work'[v].step # "notify"
    BY <1>5, GotoKeeps DEF MintRefused
  <2>2. QED
    BY <1>5, <2>1, SettlementKept DEF MintRefused, RolledBackLedger, external
<1>6. CASE Mint(w)
  <2>1. work[w].id \in Orders
    BY <1>0, <1>6 DEF Mint
  <2>2. Licensed(w).status = "fulfilled" /\ Licensed(w).license # 0
    BY <1>6, LicensedType DEF Mint
  <2>3. /\ \A o \in Orders : o # work[w].id => order'[o] = order[o]
        /\ order'[work[w].id].status = "fulfilled"
        /\ order'[work[w].id].license # 0
    BY <1>6, <2>1, <2>2 DEF Mint, TypeOK
  <2>4. ledger' = ledger \cup {Event(w)} /\ settled' = settled /\ owed' = owed
    BY <1>6 DEF Mint, external
  <2>5. \A v \in Workers : work'[v] = work[v] \/ Event(v)' = Event(w)
    BY <1>6 DEF Mint, TypeOK, Event
  <2>6. AnsweredIsSettled'
    BY <2>1, <2>3, <2>4 DEF SettlementIInv, AnsweredIsSettled
  <2>7. QED
    BY <2>1, <2>3, <2>4, <2>5, <2>6 DEF SettlementIInv, Event, TypeOK
<1>7. CASE Notify(w)
  BY <1>0, <1>7, SettlementReply DEF Notify, SettlementIInv
<1>8. CASE ClaimDelivery(w)
  <2>1. work[w].id \in Orders
    BY <1>0, <1>8 DEF ClaimDelivery
  <2>2. \A o \in Orders : /\ order'[o].status = order[o].status
                          /\ order'[o].session = order[o].session
                          /\ order'[o].license = order[o].license
    BY <1>8, <2>1 DEF ClaimDelivery, TypeOK, OrderRow
  <2>3. \A v \in Workers : work'[v] = work[v] \/ work'[v] = Idle
    BY <1>8 DEF ClaimDelivery, Leave, TypeOK
  <2>4. QED
    BY <1>8, <2>2, <2>3 DEF ClaimDelivery, SettlementIInv, AnsweredIsSettled,
                            Event, Idle, external, TypeOK
<1>9. QED
  BY <1>1, <1>2, <1>3, <1>4, <1>5, <1>6, <1>7, <1>8 DEF Handle

LEMMA SettlementNext ==
    TypeOK /\ SettlementIInv /\ [Next]_vars => SettlementIInv'
<1> SUFFICES ASSUME TypeOK, SettlementIInv, [Next]_vars PROVE SettlementIInv'
  OBVIOUS
<1>1. CASE \E o \in Orders : PrepareOrder(o) \/ AttachSession(o) \/ Pay(o)
  BY <1>1, SettlementCheckout
<1>2. CASE \E w \in Workers, o \in Orders :
             Deliver(w, o) \/ BeginForce(w, o) \/ BeginRetrieve(w, o)
  BY <1>2, SettlementTake
<1>3. CASE \E w \in Workers : Handle(w)
  BY <1>3, SettlementHandle
<1>4. CASE \E w \in Workers : Fail(w)
  <2>1. \A v \in Workers : work'[v] = work[v] \/ work'[v].step # "notify"
    BY <1>4 DEF Fail, Leave, TypeOK, Idle
  <2>2. QED
    BY <1>4, <2>1, SettlementKept DEF Fail, OwedAfterFailure
<1>5. CASE Deploy
  <2>1. \A v \in Workers : work'[v] = work[v] \/ work'[v].step # "notify"
    BY <1>5 DEF Deploy, Idle
  <2>2. QED
    BY <1>5, <2>1, SettlementKept DEF Deploy, external
<1>6. CASE UNCHANGED vars
  BY <1>6, SettlementKept DEF vars, external
<1>7. QED
  BY <1>1, <1>2, <1>3, <1>4, <1>5, <1>6 DEF Next

LEMMA SettlementInit == Init => SettlementIInv
BY DEF Init, SettlementIInv, AnsweredIsSettled, Idle

LEMMA SettlementInductive == Spec => []SettlementIInv
<1>1. QED
  BY InitType, NextType, SettlementInit, SettlementNext, PTL DEF Spec

\* However webhooks, force-fulfils, failures and deploys interleave, an event
\* recorded in the ledger has left its order a licence ...
THEOREM LedgerNeverBurned == Spec => []LedgerMeansLicensed
<1>1. SettlementIInv => LedgerMeansLicensed
  BY DEF SettlementIInv, LedgerMeansLicensed
<1>2. QED
  BY <1>1, SettlementInductive, PTL

\* ... and Stripe is told to stop only when the order is fulfilled or failed.
THEOREM AnswersAreSettled == Spec => []AnsweredIsSettled
<1>1. SettlementIInv => AnsweredIsSettled
  BY DEF SettlementIInv
<1>2. QED
  BY <1>1, SettlementInductive, PTL

-----------------------------------------------------------------------------
(* An order nobody forces: one licence, one showing, no way back. *)

LEMMA WebhookInit == Init => WebhookIInv
BY DEF Init, WebhookIInv, OnUnforced, Unforced, Idle

\* A step that only ends requests.
LEMMA WebhookEnds ==
    ASSUME WebhookIInv,
           UNCHANGED <<order, ledger, settled, minted, shown>>,
           \A v \in Workers : work'[v] = Idle \/ (work'[v] = work[v] /\ sellable' = sellable)
    PROVE  WebhookIInv'
<1>1. \A v \in Workers : work'[v].step = "idle" \/ (work'[v] = work[v] /\ sellable' = sellable)
  BY DEF Idle
<1>2. QED
  BY <1>1 DEF WebhookIInv, WebhookRequest, OnUnforced, Unforced, Event, Fulfilling

LEMMA WebhookCheckout ==
    ASSUME TypeOK, WebhookIInv, NEW o \in Orders,
           PrepareOrder(o) \/ AttachSession(o) \/ Pay(o)
    PROVE  WebhookIInv'
<1>0. \A w \in Workers : work[w].step # "idle" => work[w].id \in Orders
  BY RequestType
<1>1. CASE PrepareOrder(o) \/ AttachSession(o)
  <2>1. \A p \in Orders : /\ order'[p].delivered = order[p].delivered
                          /\ order'[p].license = order[p].license
                          /\ order'[p].status = "fulfilled" => order[p].status = "fulfilled"
    BY <1>1 DEF PrepareOrder, AttachSession, TypeOK, OrderRow
  <2>2. UNCHANGED <<ledger, work, sellable, settled, minted, shown>>
    BY <1>1 DEF PrepareOrder, AttachSession, external
  <2>3. QED
    BY <1>0, <2>1, <2>2 DEF WebhookIInv, WebhookRequest, OnUnforced, Unforced, Event, Fulfilling
<1>2. CASE Pay(o)
  <2>1. \A p \in Orders : settled[p] # Unpaid => settled'[p] = settled[p]
    BY <1>2 DEF Pay, TypeOK
  <2>2. UNCHANGED <<order, ledger, work, sellable, minted, shown>>
    BY <1>2 DEF Pay
  <2>3. QED
    BY <1>0, <2>1, <2>2 DEF WebhookIInv, WebhookRequest, OnUnforced, Unforced, Event, Fulfilling, Unpaid, PaidInFull, PaidShort
<1>3. QED
  BY <1>1, <1>2

LEMMA WebhookTake ==
    ASSUME TypeOK, WebhookIInv, NEW w \in Workers, NEW o \in Orders,
           Deliver(w, o) \/ BeginForce(w, o) \/ BeginRetrieve(w, o)
    PROVE  WebhookIInv'
<1>1. CASE Deliver(w, o)
  <2>1. /\ work'[w].step = "ledger" /\ work'[w].id = o /\ work'[w].source = "stripe"
        /\ work'[w].copy.delivered = order[o].delivered
        /\ settled[o] # Unpaid
    BY <1>1 DEF Deliver, TypeOK, LoadedForFulfilment, OrderRow
  <2>2. \A v \in Workers : v # w => work'[v] = work[v]
    BY <1>1 DEF Deliver, TypeOK
  <2>3. UNCHANGED <<order, ledger, sellable, settled, minted, shown>>
    BY <1>1 DEF Deliver, external
  <2>4. QED
    BY <2>1, <2>2, <2>3 DEF WebhookIInv, WebhookRequest, OnUnforced, Unforced, Event, Fulfilling
<1>2. CASE BeginRetrieve(w, o)
  <2>1. /\ work'[w].step = "claim" /\ work'[w].id = o
        /\ o \notin Forced => <<o, "stripe">> \in ledger
    BY <1>2 DEF BeginRetrieve, TypeOK, WebhookIInv, OnUnforced, Unforced
  <2>2. \A v \in Workers : v # w => work'[v] = work[v]
    BY <1>2 DEF BeginRetrieve, TypeOK
  <2>3. UNCHANGED <<order, ledger, sellable, settled, minted, shown>>
    BY <1>2 DEF BeginRetrieve, external
  <2>4. QED
    BY <2>1, <2>2, <2>3 DEF WebhookIInv, WebhookRequest, OnUnforced, Unforced, Event, Fulfilling
<1>3. CASE BeginForce(w, o)
  <2>1. work'[w].id = o /\ o \in Forced
    BY <1>3 DEF BeginForce, TypeOK
  <2>2. \A v \in Workers : v # w => work'[v] = work[v]
    BY <1>3 DEF BeginForce, TypeOK
  <2>3. UNCHANGED <<order, ledger, sellable, settled, minted, shown>>
    BY <1>3 DEF BeginForce, external
  <2>4. QED
    BY <2>1, <2>2, <2>3 DEF WebhookIInv, WebhookRequest, OnUnforced, Unforced, Event, Fulfilling
<1>4. QED
  BY <1>1, <1>2, <1>3

\* A request that moves on to the ledger's verdict, nothing else changing.
LEMMA WebhookMoves ==
    ASSUME TypeOK, WebhookIInv, NEW w \in Workers, NEW s \in {"ledger", "refuse", "mint"},
           work[w].step \in Fulfilling, work[w].id \notin Forced, Goto(w, s),
           s = "mint" => settled[work[w].id] = PaidInFull,
           s = "refuse" => /\ Event(w) \notin ledger
                           /\ ~sellable \/ settled[work[w].id] = PaidShort,
           UNCHANGED <<order, ledger, sellable, settled, minted, shown>>
    PROVE  WebhookIInv'
<1>1. /\ \A v \in Workers : v # w => work'[v] = work[v]
      /\ work'[w].step = s /\ work'[w].id = work[w].id
      /\ work'[w].source = work[w].source /\ work'[w].copy = work[w].copy
  BY GotoKeeps DEF Fulfilling
<1>2. \A v \in Workers : Event(v)' = Event(v) \/ v # w
  BY <1>1 DEF Event
<1>3. Event(w)' = Event(w)
  BY <1>1 DEF Event
<1>4. QED
  BY <1>1, <1>3 DEF WebhookIInv, WebhookRequest, OnUnforced, Unforced, Event, Fulfilling

\* What a request of a forced order does leaves the other orders alone.
LEMMA ForcedHandle ==
    ASSUME TypeOK, WebhookIInv, NEW w \in Workers, Handle(w), work[w].id \in Forced
    PROVE  WebhookIInv'
<1>1. work[w].step # "idle" /\ work[w].id \in Orders /\ Event(w)[1] = work[w].id
  <2>1. work[w].step # "idle"
    BY DEF Handle, Find, CheckLedger, Refuse, MintRaced, MintRefused, Mint, Notify, ClaimDelivery
  <2>2. QED
    BY <2>1, RequestType DEF Event
<1>2. \A v \in Workers : v # w => work'[v] = work[v]
  BY DEF Handle, Find, CheckLedger, Refuse, MintRaced, MintRefused, Mint, Notify, ClaimDelivery,
     Reply, Leave, Goto, TypeOK
<1>3. work'[w].step = "idle" \/ work'[w].id = work[w].id
  <2>1. CASE Refuse(w) \/ MintRaced(w) \/ Notify(w) \/ ClaimDelivery(w)
    BY <2>1 DEF Refuse, MintRaced, Notify, ClaimDelivery, Reply, Leave, TypeOK, Idle
  <2>2. CASE MintRefused(w)
    BY <2>2, GotoKeeps DEF MintRefused
  <2>3. CASE CheckLedger(w)
    <3>1. CASE Reply(w)
      BY <3>1 DEF Reply, Leave, TypeOK, Idle
    <3>2. CASE \E s \in {"mint", "refuse"} : Goto(w, s)
      BY <2>3, <3>2, GotoKeeps DEF CheckLedger
    <3>3. QED
      BY <2>3, <3>1, <3>2 DEF CheckLedger
  <2>4. CASE Mint(w) \/ Find(w)
    <3>1. work[w] \in Fulfilment
      BY <2>4, FulfilmentType DEF Mint, Find
    <3>2. CASE Mint(w)
      BY <3>1, <3>2 DEF Mint, TypeOK, Fulfilment
    <3>3. CASE Find(w)
      <4> DEFINE copy == LoadedForFulfilment(work[w].id)
      <4>1. work' = [work EXCEPT ![w] = IF AlreadyFulfilled(copy) THEN Idle
                                        ELSE [@ EXCEPT !.step = "ledger", !.copy = copy]]
        BY <3>3 DEF Find
      <4> HIDE DEF copy
      <4>2. QED
        BY <3>1, <4>1 DEF TypeOK, Fulfilment, Idle
    <3>4. QED
      BY <2>4, <3>2, <3>3
  <2>5. QED
    BY <2>1, <2>2, <2>3, <2>4 DEF Handle
<1>4. \A p \in Orders : p # work[w].id =>
         /\ order'[p] = order[p] /\ minted'[p] = minted[p] /\ shown'[p] = shown[p]
  BY DEF Handle, Find, CheckLedger, Refuse, MintRaced, MintRefused, Mint, Notify, ClaimDelivery,
     TypeOK
<1>5. ledger' = ledger \/ ledger' = ledger \cup {Event(w)}
  BY DEF Handle, Find, CheckLedger, Refuse, MintRaced, MintRefused, RolledBackLedger, Mint, Notify,
     ClaimDelivery
<1>6. \A p \in Unforced : p # work[w].id /\ (<<p, "stripe">> \in ledger' <=> <<p, "stripe">> \in ledger)
  BY <1>5 DEF Unforced, Event
<1>7. UNCHANGED <<sellable, settled>>
  BY DEF Handle, Find, CheckLedger, Refuse, MintRaced, MintRefused, Mint, Notify, ClaimDelivery,
     external
<1>8. \A p \in Unforced : order'[p] = order[p] /\ minted'[p] = minted[p] /\ shown'[p] = shown[p]
  BY <1>4, <1>6 DEF Unforced
<1>9. ASSUME NEW v \in Workers, OnUnforced(v)' PROVE WebhookRequest(v)'
  <2>1. v # w /\ work'[v] = work[v] /\ OnUnforced(v)
    BY <1>2, <1>3, <1>9 DEF OnUnforced
  <2>2. work[v].id \in Unforced
    BY <2>1, RequestType DEF OnUnforced, Unforced
  <2>3. WebhookRequest(v) /\ Event(v)' = Event(v)
    BY <2>1 DEF WebhookIInv, Event
  <2>4. Event(v) \in ledger' <=> Event(v) \in ledger
    BY <1>5, <2>2, <1>6 DEF Event
  <2>5. order'[work[v].id] = order[work[v].id]
    BY <1>8, <2>2
  <2>6. <<work[v].id, "stripe">> \in ledger' <=> <<work[v].id, "stripe">> \in ledger
    BY <1>6, <2>2
  <2>7. QED
    BY <1>7, <2>1, <2>3, <2>4, <2>5, <2>6 DEF WebhookRequest
<1>10. QED
  BY <1>6, <1>8, <1>9 DEF WebhookIInv

LEMMA UnforcedHandle ==
    ASSUME TypeOK, WebhookIInv, NEW w \in Workers, Handle(w), work[w].id \notin Forced
    PROVE  WebhookIInv'
<1>0. \A v \in Workers : work[v].step # "idle" => work[v].id \in Orders
  BY RequestType
<1>1. CASE Find(w)
  <2>1. work[w] \in Fulfilment /\ work[w].id \in Orders
    BY <1>1, FulfilmentType DEF Find, Fulfilment
  <2> DEFINE copy == LoadedForFulfilment(work[w].id)
  <2>2. work' = [work EXCEPT ![w] = IF AlreadyFulfilled(copy) THEN Idle
                                    ELSE [@ EXCEPT !.step = "ledger", !.copy = copy]]
    BY <1>1 DEF Find
  <2>3. copy.delivered = order[work[w].id].delivered
    BY <2>1 DEF LoadedForFulfilment, TypeOK, OrderRow
  <2> HIDE DEF copy
  <2>4. \/ work'[w].step = "idle"
        \/ /\ work'[w].step = "ledger" /\ work'[w].id = work[w].id
           /\ work'[w].source = work[w].source /\ work'[w].copy = copy
    BY <2>1, <2>2 DEF Fulfilment, TypeOK, Idle
  <2>5. \A v \in Workers : v # w => work'[v] = work[v]
    BY <2>2 DEF TypeOK
  <2>6. UNCHANGED <<order, ledger, sellable, settled, minted, shown>>
    BY <1>1 DEF Find, external
  <2>7. work[w].step \in Fulfilling
    BY <1>1 DEF Find, Fulfilling
  <2>8. QED
    BY <2>3, <2>4, <2>5, <2>6, <2>7 DEF WebhookIInv, WebhookRequest, OnUnforced, Unforced, Event, Fulfilling
<1>2. CASE CheckLedger(w)
  <2>1. CASE Event(w) \in ledger
    <3>1. \A v \in Workers : work'[v] = Idle \/ work'[v] = work[v]
      BY <1>2, <2>1 DEF CheckLedger, Reply, Leave, TypeOK
    <3>2. QED
      BY <1>2, <3>1, WebhookEnds DEF CheckLedger
  <2>2. CASE Event(w) \notin ledger /\ AmountMatches(work[w].id)
    BY <1>2, <2>2, WebhookMoves DEF CheckLedger, AmountMatches, Fulfilling
  <2>3. CASE Event(w) \notin ledger /\ ~AmountMatches(work[w].id)
    <3>1. settled[work[w].id] = PaidShort
      <4>1. work[w].id \in Orders /\ settled[work[w].id] # Unpaid
        BY <1>0, <1>2 DEF CheckLedger, WebhookIInv, WebhookRequest, OnUnforced, Unforced, Fulfilling
      <4>2. settled[work[w].id] \in {Unpaid, PaidInFull, PaidShort}
        BY <4>1 DEF TypeOK
      <4>3. QED
        BY <2>3, <4>1, <4>2 DEF AmountMatches
    <3>2. QED
      BY <1>2, <2>3, <3>1, WebhookMoves DEF CheckLedger, Fulfilling
  <2>4. QED
    BY <2>1, <2>2, <2>3
<1>3. CASE Refuse(w)
  <2> DEFINE o == work[w].id
  <2>1. o \in Orders /\ Event(w) = <<o, "stripe">> /\ Event(w) \notin ledger
    BY <1>0, <1>3 DEF Refuse, WebhookIInv, WebhookRequest, OnUnforced, Unforced, Event, Fulfilling
  <2>2. ~order[o].delivered /\ ~work[w].copy.delivered /\ order[o].license = 0
    BY <1>3, <2>1 DEF Refuse, WebhookIInv, WebhookRequest, OnUnforced, Unforced, Fulfilling
  <2>3. work[w].copy \in Copy
    BY <1>3, FulfilmentType DEF Refuse, Fulfilment
  <2>4. /\ order'[o].delivered = work[w].copy.delivered
        /\ order'[o].license = order[o].license
        /\ order'[o].status = "failed"
    BY <1>3, <2>1, <2>3 DEF Refuse, Saved, Copy, TypeOK
  <2>5. \A p \in Orders : p # o => order'[p] = order[p]
    BY <1>3 DEF Refuse, TypeOK
  <2>6. \A v \in Workers : work'[v].step = "idle" \/ work'[v] = work[v]
    BY <1>3 DEF Refuse, Reply, Leave, TypeOK, Idle
  <2>7. UNCHANGED <<ledger, sellable, settled, minted, shown>>
    BY <1>3 DEF Refuse
  <2>8. \A p \in Orders : order'[p].delivered <=> order[p].delivered
    BY <2>2, <2>4, <2>5
  <2> HIDE DEF o
  <2>9. QED
    BY <1>0, <2>2, <2>4, <2>5, <2>6, <2>7, <2>8 DEF WebhookIInv, WebhookRequest, OnUnforced, Unforced, Event, Fulfilling
<1>4. CASE MintRaced(w)
  <2>1. \A v \in Workers : work'[v] = Idle \/ work'[v] = work[v]
    BY <1>4 DEF MintRaced, Reply, Leave, TypeOK
  <2>2. QED
    BY <1>4, <2>1, WebhookEnds DEF MintRaced
<1>5. CASE MintRefused(w)
  BY <1>5, WebhookMoves DEF MintRefused, Taken, RolledBackLedger, Fulfilling, external
<1>6. CASE Mint(w)
  <2> DEFINE o == work[w].id
  <2>1. /\ o \in Orders /\ Event(w) = <<o, "stripe">> /\ <<o, "stripe">> \notin ledger
        /\ settled[o] = PaidInFull /\ sellable
    BY <1>0, <1>6 DEF Mint, Taken, WebhookIInv, WebhookRequest, OnUnforced, Unforced, Event, Fulfilling
  <2>2. ~order[o].delivered /\ ~work[w].copy.delivered /\ minted[o] = 0
    BY <1>6, <2>1 DEF Mint, WebhookIInv, WebhookRequest, OnUnforced, Unforced, Fulfilling
  <2>3. ~Licensed(w).delivered
    BY <1>6, <2>2, LicensedType DEF Mint
  <2>4. /\ order'[o] = Licensed(w) /\ minted'[o] = 1
        /\ \A p \in Orders : p # o => order'[p] = order[p] /\ minted'[p] = minted[p]
    BY <1>6, <2>1, <2>2 DEF Mint, TypeOK
  <2>5. /\ \A v \in Workers : v # w => work'[v] = work[v]
        /\ work'[w].step = "notify" /\ work'[w].id = o /\ work'[w].source = work[w].source
    BY <1>6, FulfilmentType DEF Mint, Fulfilment, TypeOK
  <2>6. ledger' = ledger \cup {<<o, "stripe">>} /\ UNCHANGED <<sellable, settled, shown>>
    BY <1>6, <2>1 DEF Mint, external
  <2>7. work[w].source = "stripe"
    BY <1>6 DEF Mint, WebhookIInv, WebhookRequest, OnUnforced, Unforced, Fulfilling
  <2>8. \A p \in Orders : order'[p].delivered <=> order[p].delivered
    BY <2>2, <2>3, <2>4
  <2> HIDE DEF o
  <2>9. \A p \in Unforced :
          /\ minted'[p] = IF <<p, "stripe">> \in ledger' THEN 1 ELSE 0
          /\ shown'[p] = IF order'[p].delivered THEN 1 ELSE 0
          /\ (\/ order'[p].license # 0
              \/ order'[p].status = "fulfilled"
              \/ order'[p].delivered) => <<p, "stripe">> \in ledger'
    <3>1. TAKE p \in Unforced
    <3>2. CASE p = o
      BY <2>1, <2>2, <2>4, <2>6, <2>8, <3>2 DEF WebhookIInv, WebhookRequest, OnUnforced, Unforced
    <3>3. CASE p # o
      <4>1. <<p, "stripe">> \in ledger' <=> <<p, "stripe">> \in ledger
        BY <2>6, <3>3
      <4>2. minted'[p] = minted[p] /\ shown'[p] = shown[p] /\ order'[p] = order[p]
        BY <2>4, <2>6, <3>3 DEF Unforced
      <4>3. QED
        BY <4>1, <4>2 DEF WebhookIInv, WebhookRequest, OnUnforced, Unforced
    <3>4. QED
      BY <3>2, <3>3
  <2>10. \A v \in Workers : (v # w /\ OnUnforced(v)') =>
          /\ work'[v].step \in Fulfilling \cup {"notify"} => work'[v].source = "stripe"
          /\ work'[v].step = "mint" => settled'[work'[v].id] = PaidInFull
          /\ work'[v].step = "refuse" =>
                /\ Event(v)' \notin ledger'
                /\ ~sellable' \/ settled'[work'[v].id] = PaidShort
          /\ work'[v].step \in Fulfilling =>
                /\ settled'[work'[v].id] # Unpaid
                /\ work'[v].copy.delivered => order'[work'[v].id].delivered
          /\ work'[v].step = "claim" => <<work'[v].id, "stripe">> \in ledger'
    BY <1>0, <2>1, <2>5, <2>6, <2>8
       DEF WebhookIInv, WebhookRequest, OnUnforced, Unforced, Event, Fulfilling, PaidInFull, PaidShort
  <2>11. QED
    BY <2>5, <2>7, <2>9, <2>10 DEF WebhookIInv, WebhookRequest, OnUnforced, Unforced, Fulfilling
<1>7. CASE Notify(w)
  <2>1. \A v \in Workers : work'[v] = Idle \/ work'[v] = work[v]
    BY <1>7 DEF Notify, Reply, Leave, TypeOK
  <2>2. QED
    BY <1>7, <2>1, WebhookEnds DEF Notify
<1>8. CASE ClaimDelivery(w)
  <2>1. \A v \in Workers : work'[v] = Idle \/ work'[v] = work[v]
    BY <1>8 DEF ClaimDelivery, Leave, TypeOK
  <2>2. CASE order[work[w].id].delivered
    BY <1>8, <2>1, <2>2, WebhookEnds DEF ClaimDelivery, Delivered, external
  <2>3. CASE ~order[work[w].id].delivered
    <3> DEFINE o == work[w].id
    <3>1. o \in Orders /\ <<o, "stripe">> \in ledger /\ shown[o] = 0
      BY <1>0, <1>8, <2>3 DEF ClaimDelivery, WebhookIInv, WebhookRequest, OnUnforced, Unforced
    <3>2. /\ order'[o].delivered /\ shown'[o] = 1
          /\ \A p \in Orders : p # o => order'[p] = order[p] /\ shown'[p] = shown[p]
      BY <1>8, <2>3, <3>1 DEF ClaimDelivery, Delivered, TypeOK, OrderRow
    <3>3. UNCHANGED <<ledger, sellable, settled, minted>>
      BY <1>8 DEF ClaimDelivery, external
    <3>4. \A v \in Workers : work'[v].step = "idle" \/ work'[v] = work[v]
      BY <2>1 DEF Idle
    <3>5. \A p \in Orders : order[p].delivered => order'[p].delivered
      BY <3>2
    <3> HIDE DEF o
    <3>6. QED
      BY <1>0, <3>1, <3>2, <3>3, <3>4, <3>5 DEF WebhookIInv, WebhookRequest, OnUnforced, Unforced, Event, Fulfilling
  <2>4. QED
    BY <2>2, <2>3
<1>9. QED
  BY <1>1, <1>2, <1>3, <1>4, <1>5, <1>6, <1>7, <1>8 DEF Handle

LEMMA WebhookHandle ==
    ASSUME TypeOK, WebhookIInv, NEW w \in Workers, Handle(w)
    PROVE  WebhookIInv'
BY ForcedHandle, UnforcedHandle

LEMMA WebhookNext == TypeOK /\ WebhookIInv /\ [Next]_vars => WebhookIInv'
<1> SUFFICES ASSUME TypeOK, WebhookIInv, [Next]_vars PROVE WebhookIInv'
  OBVIOUS
<1>1. CASE \E o \in Orders : PrepareOrder(o) \/ AttachSession(o) \/ Pay(o)
  BY <1>1, WebhookCheckout
<1>2. CASE \E w \in Workers, o \in Orders :
             Deliver(w, o) \/ BeginForce(w, o) \/ BeginRetrieve(w, o)
  BY <1>2, WebhookTake
<1>3. CASE \E w \in Workers : Handle(w)
  BY <1>3, WebhookHandle
<1>4. CASE \E w \in Workers : Fail(w)
  <2>1. \A v \in Workers : work'[v] = Idle \/ work'[v] = work[v]
    BY <1>4 DEF Fail, Leave, TypeOK
  <2>2. QED
    BY <1>4, <2>1, WebhookEnds DEF Fail
<1>5. CASE Deploy
  BY <1>5, WebhookEnds DEF Deploy, external
<1>6. CASE UNCHANGED vars
  BY <1>6, WebhookEnds DEF vars, external
<1>7. QED
  BY <1>1, <1>2, <1>3, <1>4, <1>5, <1>6 DEF Next

LEMMA WebhookInductive == Spec => [](TypeOK /\ WebhookIInv)
<1>1. TypeOK /\ WebhookIInv /\ [Next]_vars => (TypeOK /\ WebhookIInv)'
  BY NextType, WebhookNext
<1>2. QED
  BY <1>1, InitType, WebhookInit, PTL DEF Spec

\* Redeliveries, races, failures and deploys never mint a second licence of an
\* order no administrator forces, whatever is forced beside it.
THEOREM OnceByWebhook == Spec => [](\A o \in Unforced : minted[o] <= 1)
<1>1. ASSUME TypeOK, WebhookIInv PROVE \A o \in Unforced : minted[o] <= 1
  <2>1. SUFFICES ASSUME NEW o \in Unforced PROVE minted[o] <= 1
    OBVIOUS
  <2>2. minted[o] \in Nat
    BY <1>1 DEF TypeOK, Unforced
  <2>3. minted[o] = 0 \/ minted[o] = 1
    BY <1>1 DEF WebhookIInv, WebhookRequest, OnUnforced, Unforced
  <2>4. QED
    BY <2>2, <2>3
<1>2. QED
  BY <1>1, WebhookInductive, PTL

\* Nor is the key shown twice: no save resets the flag the retrieval set.
THEOREM ShownOnceByWebhook == Spec => []KeyShownOnce
<1>1. ASSUME TypeOK, WebhookIInv PROVE KeyShownOnce
  <2>1. SUFFICES ASSUME NEW o \in Unforced PROVE shown[o] <= 1
    BY DEF KeyShownOnce
  <2>2. shown[o] \in Nat
    BY <1>1 DEF TypeOK, Unforced
  <2>3. shown[o] = 0 \/ shown[o] = 1
    BY <1>1 DEF WebhookIInv, WebhookRequest, OnUnforced, Unforced
  <2>4. QED
    BY <2>2, <2>3
<1>2. QED
  BY <1>1, WebhookInductive, PTL

LEMMA FulfilledStep ==
    TypeOK /\ WebhookIInv /\ [Next]_vars
    => [\A o \in Unforced :
          order[o].status = "fulfilled" => order'[o].status = "fulfilled"]_vars
<1> SUFFICES ASSUME TypeOK, WebhookIInv, Next,
                    NEW o \in Unforced, order[o].status = "fulfilled"
             PROVE  order'[o].status = "fulfilled"
  OBVIOUS
<1>0. o \in Orders
  BY DEF Unforced
<1>1. <<o, "stripe">> \in ledger
  BY DEF WebhookIInv, WebhookRequest, OnUnforced, Unforced
<1>2. CASE \E p \in Orders : PrepareOrder(p) \/ AttachSession(p) \/ Pay(p)
  <2>1. PICK p \in Orders : PrepareOrder(p) \/ AttachSession(p) \/ Pay(p)
    BY <1>2
  <2>2. CASE PrepareOrder(p)
    BY <1>0, <2>2 DEF PrepareOrder, TypeOK
  <2>3. CASE AttachSession(p)
    BY <1>0, <2>3 DEF AttachSession, TypeOK, OrderRow
  <2>4. CASE Pay(p)
    BY <2>4 DEF Pay
  <2>5. QED
    BY <2>1, <2>2, <2>3, <2>4
<1>3. CASE \E w \in Workers : Refuse(w)
  <2>1. PICK w \in Workers : Refuse(w)
    BY <1>3
  <2>2. work[w].id # o
    BY <1>1, <2>1 DEF Refuse, WebhookIInv, WebhookRequest, OnUnforced, Unforced, Event, Fulfilling
  <2>3. QED
    BY <2>1, <2>2 DEF Refuse, TypeOK
<1>4. CASE \E w \in Workers : Mint(w)
  <2>1. PICK w \in Workers : Mint(w)
    BY <1>4
  <2>2. Licensed(w).status = "fulfilled"
    BY <2>1, LicensedType DEF Mint
  <2>3. order'[o] = order[o] \/ order'[o] = Licensed(w)
    BY <2>1 DEF Mint, TypeOK
  <2>4. QED
    BY <2>2, <2>3
<1>5. CASE \E w \in Workers : ClaimDelivery(w)
  <2>1. PICK w \in Workers : ClaimDelivery(w)
    BY <1>5
  <2>2. work[w].id \in Orders
    BY <2>1, RequestType DEF ClaimDelivery
  <2>3. order'[o].status = order[o].status
    BY <1>0, <2>1, <2>2 DEF ClaimDelivery, TypeOK, OrderRow
  <2>4. QED
    BY <2>3
<1>6. CASE UNCHANGED order
  BY <1>6
<1>7. QED
  BY <1>2, <1>3, <1>4, <1>5, <1>6 DEF Next, Handle, Deliver, BeginForce, BeginRetrieve,
     Find, CheckLedger, MintRaced, MintRefused, Notify, Fail, Deploy

\* A fulfilled order is never taken back unless an administrator forces it.
THEOREM FulfilledForGood == Spec => FulfilledStays
<1>1. QED
  BY FulfilledStep, WebhookInductive, PTL DEF Spec, FulfilledStays

LEMMA PromiseStep ==
    ASSUME TypeOK, WebhookIInv, [Next]_vars
    PROVE  [Promise!Next]_<<[o \in Unforced |-> settled[o]], [o \in Unforced |-> minted[o]]>>
<1> DEFINE payment == [o \in Unforced |-> settled[o]]
           keys == [o \in Unforced |-> minted[o]]
<1>1. CASE \E o \in Orders : Pay(o)
  <2>1. PICK o \in Orders : Pay(o)
    BY <1>1
  <2>2. PICK p \in {PaidInFull, PaidShort} : settled' = [settled EXCEPT ![o] = p]
    BY <2>1 DEF Pay
  <2>3. keys' = keys
    BY <2>1 DEF Pay
  <2>4. CASE o \in Unforced
    <3>1. payment' = [payment EXCEPT ![o] = p]
      BY <2>2, <2>4 DEF TypeOK, Unforced
    <3>2. payment[o] = Unpaid
      BY <2>1, <2>4 DEF Pay
    <3>3. QED
      BY <2>2, <2>3, <2>4, <3>1, <3>2 DEF Promise!Next, Promise!Settle
  <2>5. CASE o \notin Unforced
    <3>1. payment' = payment
      BY <2>2, <2>5 DEF TypeOK, Unforced
    <3>2. QED
      BY <2>3, <3>1
  <2>6. QED
    BY <2>4, <2>5
<1>2. CASE \E w \in Workers : Mint(w)
  <2>1. PICK w \in Workers : Mint(w)
    BY <1>2
  <2> DEFINE o == work[w].id
  <2>2. o \in Orders /\ minted' = [minted EXCEPT ![o] = @ + 1] /\ settled' = settled
    BY <2>1, RequestType DEF Mint, external
  <2>3. payment' = payment
    BY <2>2
  <2>4. CASE o \in Unforced
    <3>1. settled[o] = PaidInFull /\ <<o, "stripe">> \notin ledger
      BY <2>1, <2>2, <2>4
         DEF Mint, Taken, WebhookIInv, WebhookRequest, OnUnforced, Unforced, Event, Fulfilling
    <3>2. minted[o] = 0
      BY <2>4, <3>1 DEF WebhookIInv
    <3>3. keys[o] = 0 /\ payment[o] = PaidInFull
      BY <2>4, <3>1, <3>2
    <3> HIDE DEF o
    <3>4. keys' = [keys EXCEPT ![o] = 1]
      <4>1. \A p \in Unforced : minted'[p] = IF p = o THEN 1 ELSE minted[p]
        BY <2>2, <3>2 DEF TypeOK, Unforced
      <4>2. QED
        BY <2>4, <4>1
    <3>5. QED
      BY <2>3, <2>4, <3>3, <3>4 DEF Promise!Next, Promise!Issue
  <2>5. CASE o \notin Unforced
    <3>1. keys' = keys
      BY <2>2, <2>5 DEF TypeOK, Unforced
    <3>2. QED
      BY <2>3, <3>1
  <2>6. QED
    BY <2>4, <2>5
<1>3. CASE UNCHANGED <<settled, minted>>
  BY <1>3
<1>4. QED
  BY <1>1, <1>2, <1>3 DEF Next, Handle, PrepareOrder, AttachSession, Deliver, BeginForce,
     BeginRetrieve, Find, CheckLedger, Refuse, MintRaced, MintRefused, Notify, ClaimDelivery,
     Fail, Deploy, external, vars

\* Fulfilment implements the promise made to the buyer: a checkout paid in full
\* gets at most one licence and any other none, unless an administrator forces
\* it, and however many others are forced.
THEOREM WebhookKeepsPromise == Spec => KeepsPromise
<1>1. Init => Promise!Init
  BY DEF Init, Promise!Init, Unforced
<1>2. TypeOK /\ WebhookIInv /\ [Next]_vars
      => [Promise!Next]_<<[o \in Unforced |-> settled[o]], [o \in Unforced |-> minted[o]]>>
  BY PromiseStep
<1>3. QED
  BY <1>1, <1>2, WebhookInductive, PTL DEF Spec, KeepsPromise, Promise!Spec
=============================================================================
