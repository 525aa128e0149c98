\* A callback that disarms another channel: expected to be violated.
SPECIFICATION Spec
CONSTANTS
    a = a
    b = b
    c1 = c1
    c2 = c2
    Channels <- TwoChannels
    Apps <- TwoApps
    Contexts = {x1, x2}
    Batch = 1
    CallTables <- Disarm
INVARIANT ContextOutlivesCallback
CHECK_DEADLOCK FALSE
