CONSTANTS
    a = a
    b = b
    Clerk = {a, b}
    NoClerk = NoClerk
    Script <- JoinAndRead
    NServers = 2
    NShards = 3
    GIDs = {1, 2}
    MaxTerm = 2
    MaxLog = 2
    MaxTroubles = 1
SPECIFICATION Spec
CHECK_DEADLOCK FALSE
INVARIANTS CommittedAgree AckedKept QueriesFresh AtMostOnce ConfigsAgree
