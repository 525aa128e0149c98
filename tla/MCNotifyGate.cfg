\* A callback that closes its own channel, or closes another channel while a
\* thread closes its own.
SPECIFICATION FairSpec
CONSTANTS
    a = a
    b = b
    c1 = c1
    c2 = c2
    Channels <- TwoChannels
    Apps <- TwoApps
    Contexts = {x1, x2}
    Batch = 1
    CallTables <- SelfOrChain
INVARIANTS ContextOutlivesCallback
PROPERTIES NoCallbackAfterClose CallsReturn ClosedThreadEnds
CHECK_DEADLOCK FALSE
