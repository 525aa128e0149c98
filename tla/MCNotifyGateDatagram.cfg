\* A callback that closes its channel in the middle of a datagram: expected to be violated.
SPECIFICATION Spec
CONSTANTS
    a = a
    b = b
    c1 = c1
    c2 = c2
    Channels <- OneChannel
    Apps <- TwoApps
    Contexts = {x1, x2}
    Batch = 2
    CallTables <- SelfClose
PROPERTY NoCallbackAfterClose
CHECK_DEADLOCK FALSE
