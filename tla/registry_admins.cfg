SPECIFICATION Spec
CONSTANTS
    Versions = {1, 2}
    NoVersion = 0
    Contents <- BundleNames
    Supports <- BundleSupports
    Offered <- RivalUpload
    Scopes = {"global", "channel:stable"}
    PublishAs <- AnyBytes
    PromoteTo = {"stable"}
    Percents = {60}
    Callers <- Nobody
    Admins = {a1, a2}
    Sessions = {}
    Ops <- PublishOps
    Shipped <- Out
    ShippedVersion = 1
SYMMETRY Symmetry
CHECK_DEADLOCK FALSE
INVARIANTS
    RollbackTargetWasChosen
    BytesBehindRow
