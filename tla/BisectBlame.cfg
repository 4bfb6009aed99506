\* Timeouts in the proportions of the script's defaults (30 : 30 : 300).
SPECIFICATION FairSpec
CONSTANTS
    MaxPasses = 13
    PerOpt = 1
    PerAlive = 1
    Deadline = 10
INVARIANTS BlamedIsBoundary Halved EndsNearDeadline
PROPERTY Terminates
CHECK_DEADLOCK FALSE
