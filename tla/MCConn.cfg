\* Two writers, a reader and a closing thread, on either transport.
SPECIFICATION FairSpec
CONSTANTS
    w1 = w1
    w2 = w2
    r = r
    c = c
    Protos = {"tcp", "udp"}
    Threads <- MCThreads
    Calls <- AllCalls
    SeqMod = 2
    MaxSends = 3
    MaxFrames = 1
INVARIANTS TypeOK StreamInFrame DatagramsNumbered LossIsUnsolicited DeadLinkNotReady
PROPERTIES QuietAfterClose CallsReturn ReceiveLossReported ReadersReleased
CHECK_DEADLOCK FALSE
