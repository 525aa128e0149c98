\* Every operation of Shared by three threads, two id classes, every timeout.
SPECIFICATION FairSpec
CONSTANTS
    r1 = r1
    r2 = r2
    c = c
    RING_CAP = 2
    Threads <- MCThreads
    CallTables <- MCCallTables
    Timeouts = {"zero", "finite", "infinite"}
    Bits = {0}
    CanIds <- MCCanIds
    Envelopes = {{0}}
    MaxFrames = 4
INVARIANTS
    TypeOK Fifo OneFate CloseWakesAll NoStrandedReader
    GapReportedUnlessFlushing
PROPERTIES ImplementsLossyQueue CloseReleasesReaders QueuedFrameEndsWait
CHECK_DEADLOCK FALSE
