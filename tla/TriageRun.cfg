\* Two orchestrators over one database, buckets larger than the sample; a cap of 1 fails.
SPECIFICATION TriageSpec
CONSTANTS
    Clients = {c1, c2}
    Blames = {}
    Asan = asan
    BisectFailed = bisect_failed
    Hashes = {h}
    Paths = {p}
    MaxFindings = 3
    MaxSubClusters = 12
    MaxClusters = 1
    Caps = {1, 2}
    MaxSampled = 8
    Triggered = {c1}
    MaxTrouble = 2
INVARIANTS SampleSpansBucket
PROPERTIES SuccessMeansTriaged
CHECK_DEADLOCK FALSE
