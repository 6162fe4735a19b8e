CONSTANTS
    s1 = s1
    s2 = s2
    s3 = s3
    Nobody = Nobody
    Server = {s1, s2, s3}
    Candidates = {s1, s2, s3}
    MaxTerm = 2
    MaxCmds = 0
    MaxNet = 2
    MaxRounds = 1
SPECIFICATION Spec
CHECK_DEADLOCK FALSE
INVARIANTS NoSecondLeader
