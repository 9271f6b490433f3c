---------------------------- MODULE PaidCheckout ----------------------------
(***************************************************************************)
(* What the billing half promises a buyer (src/billing/order.service.ts,   *)
(* header): "exactly one license per paid checkout, however many times     *)
(* Stripe re-delivers the event", and none without the full amount.        *)
(***************************************************************************)
EXTENDS Naturals

CONSTANTS Orders, Unpaid, PaidInFull, PaidShort

VARIABLES payment, keys

Init ==
    /\ payment = [o \in Orders |-> Unpaid]
    /\ keys = [o \in Orders |-> 0]

Settle(o) ==
    /\ payment[o] = Unpaid
    /\ \E p \in {PaidInFull, PaidShort} : payment' = [payment EXCEPT ![o] = p]
    /\ UNCHANGED keys

Issue(o) ==
    /\ payment[o] = PaidInFull
    /\ keys[o] = 0
    /\ keys' = [keys EXCEPT ![o] = 1]
    /\ UNCHANGED payment

Next == \E o \in Orders : Settle(o) \/ Issue(o)

Spec == Init /\ [][Next]_<<payment, keys>>
=============================================================================
