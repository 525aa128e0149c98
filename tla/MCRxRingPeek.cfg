\* canReadSync beside canReadWait: expected to be violated.
SPECIFICATION FairSpec
CONSTANTS
    r1 = r1
    r2 = r2
    c = c
    RING_CAP = 2
    Threads <- MCThreads
    CallTables <- PeekTable
    Timeouts = {"infinite"}
    Bits = {0}
    CanIds <- OneCanId
    Envelopes = {}
    MaxFrames = 2
PROPERTY QueuedFrameWakesReader
CHECK_DEADLOCK FALSE
