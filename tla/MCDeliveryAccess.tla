-------------------------- MODULE MCDeliveryAccess --------------------------
(***************************************************************************)
(* Instances of DeliveryAccess for TLC.                                    *)
(***************************************************************************)
EXTENDS DeliveryAccess, TLC

BothPlans == {"free", "premium"}
AllFromOneInstall == [p \in Purchases |-> CHOOSE i \in Installs : TRUE]
OneCap == [l \in Licences |-> 1]
NoCap == [l \in Licences |-> 0]
EitherPlan == [l \in Licences |-> BothPlans]

\* A purchase per licence: model values of equal number.
Pairing == CHOOSE f \in [Purchases -> Licences] : \A p, q \in Purchases : f[p] = f[q] => p = q
SeatSymmetry == Permutations(Installs) \cup Permutations(Requests)
ClaimSymmetry == Permutations(Requests)
=============================================================================
