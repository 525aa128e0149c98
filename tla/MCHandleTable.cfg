\* Calls through the table, from threads and from callbacks.
SPECIFICATION Spec
CONSTANTS
    t1 = t1
    t2 = t2
    t3 = t3
    Threads = {t1, t2, t3}
    Setups <- MCSetups
    RingCap = 1
    MaxOpens = 2
INVARIANTS
    HandleNamesOneChannel
    NoOrphan
    RepliesFit
PROPERTIES
    LookupsProceed
    CallbackCallsReturn
    ClosedSocketReleased
