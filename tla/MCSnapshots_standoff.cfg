CONSTANTS
    n1 = n1
    n2 = n2
    Server = {n1, n2}
    Leader = n1
    Kind <- TwoOps
    MaxTail = 0
    Windows = {}
    MaxRounds = 2
    MaxRestarts = 0
SPECIFICATION Spec
CHECK_DEADLOCK FALSE
INVARIANT NoStandOff
