-------------------------- MODULE MCBundleDelivery --------------------------
(***************************************************************************)
(* Instances of BundleDelivery for TLC: a free build and a premium one.    *)
(***************************************************************************)
EXTENDS BundleDelivery, TLC

CONSTANTS free, premium, smaller, larger

FreeAndPremium == {free, premium}
TheirPlans == [b \in Builds |-> IF b = premium THEN "premium" ELSE "free"]
TheirBundles == [b \in Builds |-> IF b = premium THEN larger ELSE smaller]
BothBundles == {smaller, larger}

Symmetry == Permutations(Requests)
=============================================================================
