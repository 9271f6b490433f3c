SPECIFICATION Spec
CONSTANTS
    Versions = {1, 2}
    NoVersion = 0
    Contents <- BundleNames
    Supports <- BundleSupports
    Offered <- Upload
    Scopes = {"global"}
    PublishAs <- Internally
    PromoteTo = {"stable"}
    Percents = {60}
    Callers <- CustomerOnly
    Admins = {a1}
    Sessions = {k1}
    Ops <- DefaultOps
    Shipped <- Out
    ShippedVersion = 1
CHECK_DEADLOCK FALSE
INVARIANTS
    DefaultIsServed
