CONSTANTS
    a = a
    Clerk = {a}
    Script <- WriteAddRead
    Config <- There
    Group = {1, 2}
    NServers <- OneAndTwo
    NShards = 2
    MaxTroubles = 1
SPECIFICATION FairSpec
CHECK_DEADLOCK FALSE
INVARIANTS OneOwner DataKept GetsExact
PROPERTY Settles
