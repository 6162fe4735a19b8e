CONSTANTS
    Server = {s1, s2, s3}
    None = None
    Command = {a}
    Windows = {"Convert2Leader"}
    MaxTerm = 2
    MaxElections = 2
    MaxRounds = 0
    MaxLog = 0
    MaxCrashes = 0
    MaxEvents = 9
SPECIFICATION Spec
SYMMETRY Symmetry
CHECK_DEADLOCK FALSE
INVARIANT OneLeaderPerTerm
