SPECIFICATION Spec
CONSTANTS
    Licences = {l1}
    NoLicence = NoLicence
    Installs = {i1, i2, i3}
    NoInstall = NoInstall
    Purchases = {}
    BoughtFrom <- AllFromOneInstall
    Bought <- Pairing
    Requests = {r1, r2}
    Caps = {0, 1}
    FirstCap <- OneCap
    PlansFor <- EitherPlan
    DefaultPlans <- BothPlans
    Presented = {l1}
    Refreshed = {}
    Via = {i1, i2, i3, NoInstall}
    From = {TRUE, FALSE}
SYMMETRY SeatSymmetry
CHECK_DEADLOCK FALSE
INVARIANTS
    OnlyWelcomeSeats
    SeatsWithinRace
    KnownSeatServed
