SPECIFICATION Spec
CONSTANTS
    DEFAULT_TTL_SECONDS = 2
    defaultTtlSeconds = 3
    MonthlySeconds = 2
    YearlySeconds = 3
    SAFE_MAX_TTL = 4
    ReminderWindow = 1
    Workers = {w1}
    LicenceIds = {l1, l2}
    LegacyIds = {}
    Ops <- PinAndReissue
    Packages <- MonthlyOnly
    Pins = {TRUE}
    RequestedTtls = {}
    SigningDelay = 0
    MaxTime = 2
    MaxLicIds = 2
CHECK_DEADLOCK FALSE
PROPERTIES
    PinSurvivesReissue
