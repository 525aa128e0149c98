\* TCP: a writer meets the loss first; expected to be violated.
SPECIFICATION FairSpec
CONSTANTS
    w1 = w1
    w2 = w2
    r = r
    c = c
    Protos = {"tcp"}
    Threads <- MCThreads
    Calls <- DuplexCalls
    SeqMod = 3
    MaxSends = 2
    MaxFrames = 2
PROPERTY DroppedLinkReported
CHECK_DEADLOCK FALSE
