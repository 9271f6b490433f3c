---------------------------- MODULE MCPortalLogin ----------------------------
(***************************************************************************)
(* Instances of PortalLogin for TLC.                                       *)
(***************************************************************************)
EXTENDS PortalLogin, TLC

Symmetry == Permutations(Requests)
==============================================================================
