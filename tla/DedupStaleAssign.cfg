\* assign-existing against --replace: the docstring of cmd_assign_existing.
SPECIFICATION Spec
CONSTANTS
    Clients = {c1, c2}
    Blames = {blame}
    Asan = asan
    BisectFailed = bisect_failed
    Hashes = {h}
    Paths = {p}
    MaxFindings = 2
    MaxSubClusters = 3
    MaxClusters = 1
SYMMETRY Symmetry
INVARIANT AssignedInBucket
CHECK_DEADLOCK FALSE
