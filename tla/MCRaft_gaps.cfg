CONSTANTS
    Server = {s1, s2, s3}
    None = None
    Command = {a}
    Windows = {"HandleTimeout", "RunForElection", "Convert2Leader", "Start", "LeaderAppendEntries"}
    MaxTerm = 2
    MaxElections = 2
    MaxRounds = 1
    MaxLog = 1
    MaxCrashes = 1
    MaxEvents = 6
SPECIFICATION Spec
SYMMETRY Symmetry
CHECK_DEADLOCK FALSE
INVARIANTS VoteOnce OneTallyPerTerm
