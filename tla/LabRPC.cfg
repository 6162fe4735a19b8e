CONSTANTS
    Server = {1, 2}
    Calls = {a}
    MaxOps = 5
    MaxCrashes = 2
SPECIFICATION Spec
CHECK_DEADLOCK FALSE
INVARIANTS PositiveRepliesKept DeadCannotSend
PROPERTY CallsReturn
