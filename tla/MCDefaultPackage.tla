-------------------------- MODULE MCDefaultPackage --------------------------
(***************************************************************************)
(* Instances of DefaultPackage for TLC.                                    *)
(***************************************************************************)
EXTENDS DefaultPackage

CONSTANTS f, o, A, B    \* the seeded package, another, and two lists

\* A first boot: nothing designated, the seeded package to be created; the other
\* package is a legacy row without features.
FirstBoot == [p \in Packages |-> IF p = f THEN Gone ELSE Empty]

\* A running deployment.
Running == [p \in Packages |-> IF p = f THEN A ELSE B]
=============================================================================
