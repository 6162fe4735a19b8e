CONSTANTS
    n1 = n1
    n2 = n2
    Server = {n1, n2}
    Leader = n1
    Kind <- OpForeignOp
    MaxTail = 0
    Windows = {}
    MaxRounds = 0
    MaxRestarts = 1
SPECIFICATION Spec
CHECK_DEADLOCK FALSE
INVARIANT HandedOver
