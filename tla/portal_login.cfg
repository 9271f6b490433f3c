SPECIFICATION Spec
CONSTANTS
    Customers = {ada}
    NoCustomer = NoCustomer
    NotYet = NotYet
    Gone = Gone
    Requests = {r1, r2, r3}
    MaxLinks = 3
    MaxLogouts = 2
SYMMETRY Symmetry
INVARIANTS
    TypeOK
    LinkOpensWithinRace
    LogoutReachesSignIns
CHECK_DEADLOCK FALSE
