CONSTANTS
    n1 = n1
    n2 = n2
    Server = {n1, n2}
    Leader = n1
    Kind <- TwoOps
    MaxTail = 1
    Windows = {}
    MaxRounds = 3
    MaxRestarts = 1
SPECIFICATION Spec
CHECK_DEADLOCK FALSE
INVARIANTS StateExact LogPositions HandedOver
