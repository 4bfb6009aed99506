\* Two dedup.py processes against one database.
SPECIFICATION Spec
CONSTANTS
    Clients = {c1, c2}
    Blames = {blame}
    Asan = asan
    BisectFailed = bisect_failed
    Hashes = {h1, h2}
    Paths = {p}
    MaxFindings = 3
    MaxSubClusters = 2
    MaxClusters = 2
SYMMETRY Symmetry
INVARIANTS BucketedByBlame CountsAgree InstancesAgree NoDanglingReference RepresentativeIsMember CoveredIsStamped
PROPERTIES OnlyReplaceReassigns
CHECK_DEADLOCK FALSE
