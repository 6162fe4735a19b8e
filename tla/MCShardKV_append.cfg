CONSTANTS
    a = a
    Clerk = {a}
    Script <- AppendFirst
    Config <- There
    Group = {1, 2}
    NServers <- OneEach
    NShards = 2
    MaxTroubles = 0
SPECIFICATION FairSpec
CHECK_DEADLOCK FALSE
PROPERTY Settles
