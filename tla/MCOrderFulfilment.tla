-------------------------- MODULE MCOrderFulfilment -------------------------
(***************************************************************************)
(* Instances of OrderFulfilment for TLC: one order is fulfilled by         *)
(* webhooks alone, the other is forced by an administrator as well.        *)
(***************************************************************************)
EXTENDS OrderFulfilment, TLC

CONSTANTS o1, o2

Symmetry == Permutations(Workers)
=============================================================================
