CONSTANTS
    a = a
    b = b
    Clerk = {a, b}
    NoClerk = NoClerk
    Script <- OneAfterAnother
    NServers = 2
    NShards = 3
    GIDs = {1, 2}
    MaxTerm = 2
    MaxLog = 6
    MaxTroubles = 1
SPECIFICATION FairSpec
CHECK_DEADLOCK FALSE
PROPERTIES AllServed
