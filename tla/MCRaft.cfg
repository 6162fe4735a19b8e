CONSTANTS
    Server = {s1, s2, s3}
    None = None
    Command = {a}
    Windows = {}
    MaxTerm = 3
    MaxElections = 3
    MaxRounds = 2
    MaxLog = 2
    MaxCrashes = 1
    MaxEvents = 5
SPECIFICATION Spec
SYMMETRY Symmetry
CHECK_DEADLOCK FALSE
INVARIANTS LogMatching StateMachineSafety LeaderIndexesInLog MatchIndexSound OneLeaderPerTerm ElectableHoldsCommitted
PROPERTY CommittedKept
