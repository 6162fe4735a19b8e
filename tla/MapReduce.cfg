CONSTANTS
    Worker = {w1, w2, w3}
    NMap = 2
    NReduce = 2
    MaxCrashes = 1
SPECIFICATION FairSpec
CHECK_DEADLOCK FALSE
INVARIANTS InputsPresent DoneMeansOutput
PROPERTIES Refinement JobFinishes WorkersLeave
