\* An order fulfilled by webhooks and one an administrator forces as well.
SPECIFICATION FairSpec
CONSTANTS
    o1 = o1
    o2 = o2
    Orders = {o1, o2}
    Forced = {o2}
    Workers = {w1, w2}
    MaxFaults = 2
CHECK_DEADLOCK FALSE
INVARIANTS
    TypeOK
    AnsweredIsSettled
    KeyShownOnce
PROPERTIES
    KeepsPromise
    PaidIsSettled
