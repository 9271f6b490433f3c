SPECIFICATION Spec
CONSTANTS
    Versions = {1, 2}
    NoVersion = 0
    Contents <- BundleNames
    Supports <- BundleSupports
    Offered <- Upload
    Scopes = {"global"}
    PublishAs <- Internally
    PromoteTo = {"stable"}
    Percents = {60}
    Callers <- Nobody
    Admins = {a1, a2}
    Sessions = {}
    Ops <- StewardOps
    Shipped <- Out
    ShippedVersion = 1
CHECK_DEADLOCK FALSE
PROPERTIES
    RetiredStaysRetired
