SPECIFICATION Spec
CONSTANTS
    Servers = {s1}
    Admins = {a1}
    Packages = {f, o}
    f = f
    o = o
    A = A
    B = B
    NoPackage = NoPackage
    Lists = {A, B, Empty}
    Empty = Empty
    Gone = Gone
    Patches = {A, B}
    FirstContent <- Running
    FirstDefault = f
    SeedPackage = f
    SeedList = A
    Loads = {l1, l2}
    NoLoad = NoLoad
    Outages = FALSE
    MaxAsked = 1
    MaxRestarts = 0
PROPERTIES
    LiveWhenAnswered
CHECK_DEADLOCK FALSE
