SPECIFICATION Spec
CONSTANTS
    Licences = {l1, l2}
    NoLicence = NoLicence
    Installs = {i1}
    NoInstall = NoInstall
    Purchases = {p1, p2}
    BoughtFrom <- AllFromOneInstall
    Bought <- Pairing
    Requests = {r1, r2}
    Caps = {0}
    FirstCap <- NoCap
    PlansFor <- EitherPlan
    DefaultPlans <- BothPlans
    Presented = {l1, NoLicence}
    Refreshed = {l1}
    Via = {i1, NoInstall}
    From = {TRUE}
SYMMETRY ClaimSymmetry
CHECK_DEADLOCK FALSE
INVARIANTS
    TypeOK
    ClaimsWithinArmings
    OnlyWhileUsable
