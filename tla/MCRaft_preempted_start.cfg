CONSTANTS
    Server = {s1, s2, s3}
    None = None
    Command = {a}
    Windows = {"Start"}
    MaxTerm = 2
    MaxElections = 2
    MaxRounds = 1
    MaxLog = 1
    MaxCrashes = 0
    MaxEvents = 9
SPECIFICATION Spec
SYMMETRY Symmetry
CHECK_DEADLOCK FALSE
PROPERTY StartOnlyOnLeader
