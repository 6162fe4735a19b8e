CONSTANTS
    Peer = {p1}
    MaxTerm = 3
    MaxHeard = 1
SPECIFICATION ElectionSpec
CHECK_DEADLOCK FALSE
INVARIANT NoLostWakeUp
PROPERTY CampaignsAgain
