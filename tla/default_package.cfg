SPECIFICATION FairSpec
CONSTANTS
    Servers = {s1}
    Admins = {a1, a2}
    Packages = {f, o}
    f = f
    o = o
    A = A
    B = B
    NoPackage = NoPackage
    Lists = {A, B, Empty}
    Empty = Empty
    Gone = Gone
    Patches = {A, B}
    FirstContent <- FirstBoot
    FirstDefault = NoPackage
    SeedPackage = f
    SeedList = A
    Loads = {l1, l2}
    NoLoad = NoLoad
    Outages = TRUE
    MaxAsked = 3
    MaxRestarts = 1
INVARIANTS
    TypeOK
    ServesChosen
    NeverGoesBack
PROPERTIES
    ComesToServe
CHECK_DEADLOCK FALSE
