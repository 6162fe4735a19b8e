CONSTANTS
    a = a
    Clerk = {a}
    Script <- WriteAddRead
    Config <- ThereAndBack
    Group = {1, 2}
    NServers <- OneEach
    NShards = 2
    MaxTroubles = 1
SPECIFICATION Spec
CHECK_DEADLOCK FALSE
PROPERTY OneChangeAtATime
