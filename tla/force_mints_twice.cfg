\* Force-fulfil and the webhook of one session mint a licence each.
SPECIFICATION Spec
CONSTANTS
    o1 = o1
    o2 = o2
    Orders = {o1, o2}
    Forced = {o2}
    Workers = {w1, w2}
    MaxFaults = 1
CHECK_DEADLOCK FALSE
INVARIANT
    OneLicencePerOrder
