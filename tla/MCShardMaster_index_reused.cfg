CONSTANTS
    a = a
    b = b
    Clerk = {a, b}
    NoClerk = NoClerk
    Script <- TwoJoins
    NServers = 2
    NShards = 3
    GIDs = {1, 2}
    MaxTerm = 3
    MaxLog = 2
    MaxTroubles = 0
SPECIFICATION Spec
CHECK_DEADLOCK FALSE
INVARIANTS EveryAckKept
