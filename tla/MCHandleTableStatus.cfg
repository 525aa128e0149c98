\* A status read while the link is lost: expected to be violated.
SPECIFICATION Spec
CONSTANTS
    t1 = t1
    t2 = t2
    t3 = t3
    Threads = {t1, t2, t3}
    Setups <- StatusSetups
    RingCap = 1
    MaxOpens = 1
INVARIANT PendingBesideBusOff
