CONSTANTS
    s1 = s1
    s2 = s2
    s3 = s3
    Nobody = Nobody
    Server = {s1, s2, s3}
    Candidates = {s1, s2}
    MaxTerm = 2
    MaxCmds = 2
    MaxNet = 2
    MaxRounds = 2
SPECIFICATION Spec
CONSTRAINT InStep
VIEW View
SYMMETRY Exchange
CHECK_DEADLOCK FALSE
INVARIANTS OneLeaderPerTerm StateMachineSafety CommittedOnDisk PositionsInRange
