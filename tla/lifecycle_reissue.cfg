SPECIFICATION Spec
CONSTANTS
    DEFAULT_TTL_SECONDS = 2
    defaultTtlSeconds = 3
    MonthlySeconds = 2
    YearlySeconds = 3
    SAFE_MAX_TTL = 4
    ReminderWindow = 1
    Workers = {w1, w2}
    LicenceIds = {l1, l2}
    LegacyIds = {}
    Ops <- ReissueOps
    Packages <- MonthlyOrLifetime
    Pins = {FALSE}
    RequestedTtls = {}
    SigningDelay = 0
    MaxTime = 2
    MaxLicIds = 2
SYMMETRY Symmetry
CHECK_DEADLOCK FALSE
INVARIANTS
    TermCarriedExactly
    HandedBackTokenResolves
PROPERTIES
    OnlyStaleSaveRevives
    OnlyLateReissueOutlives
