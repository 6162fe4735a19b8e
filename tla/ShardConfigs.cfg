CONSTANTS
    NShards = 3
    GIDs = {1, 2, 3, 4}
SPECIFICATION Spec
INVARIANTS FewestMoves OrderIrrelevant
