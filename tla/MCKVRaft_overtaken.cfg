CONSTANTS
    a = a
    b = b
    Clerk = {a, b}
    Script <- PutAndAppend
    NServers = 2
    MaxTerm = 1
    MaxLog = 2
    MaxTroubles = 0
SPECIFICATION Spec
CHECK_DEADLOCK FALSE
INVARIANT LoopGoesOn
