SPECIFICATION Spec
CONSTANTS
    Servers = {s1, s2}
    Admins = {a1}
    Packages = {f, o}
    f = f
    o = o
    A = A
    B = B
    NoPackage = NoPackage
    Lists = {A, B, Empty}
    Empty = Empty
    Gone = Gone
    Patches = {A, B}
    FirstContent <- FirstBoot
    FirstDefault = NoPackage
    SeedPackage = f
    SeedList = A
    Loads = {l1, l2}
    NoLoad = NoLoad
    Outages = FALSE
    MaxAsked = 2
    MaxRestarts = 0
PROPERTIES
    SeedNeverOverwrites
CHECK_DEADLOCK FALSE
