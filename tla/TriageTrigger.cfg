\* Two shards, triages triggered and started by hand, triages killed.
SPECIFICATION FairSpec
CONSTANTS
    Shards = {s1, s2}
    TriageEvery = 2
    MaxFindings = 4
    MaxManual = 1
    MaxKills = 1
INVARIANTS NothingUncounted TriggersDoNotOverlap RegisteredOnce TriageSeesItsFindings
PROPERTY WaitingShardsProceed
CHECK_DEADLOCK FALSE
