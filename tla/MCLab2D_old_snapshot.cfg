CONSTANTS
    s1 = s1
    s2 = s2
    s3 = s3
    Nobody = Nobody
    Server = {s1, s2, s3}
    Candidates = {s1}
    MaxTerm = 1
    MaxCmds = 2
    MaxNet = 2
    MaxRounds = 5
SPECIFICATION Spec
CONSTRAINT InStep
VIEW View
CHECK_DEADLOCK FALSE
INVARIANTS NoPanic
