\* A flush racing a full ring: expected to be violated.
SPECIFICATION Spec
CONSTANTS
    r1 = r1
    r2 = r2
    c = c
    RING_CAP = 2
    Threads <- MCThreads
    CallTables <- FlushTable
    Timeouts = {}
    Bits = {0}
    CanIds <- OneCanId
    Envelopes = {}
    MaxFrames = 4
INVARIANT GapReported
CHECK_DEADLOCK FALSE
