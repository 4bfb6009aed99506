\* Two rows and one dying pass or failing query; three processes upgrade the database; a graph
\* of five nodes, every choice of calls and root; bodies nested six deep;
\* a harness process, with later ones of its PID, and five calls.
SPECIFICATION ToolSpec
CONSTANTS
    PageBuckets = {asan, b1}
    AsanBucket = asan
    Readable = {1}
    MaxRows = 2
    MaxFaults = 1
    Openers = {p1, p2, p3}
    Passes = {"pass"}
    OldDatabases <- SmallDatabases
    Nodes <- SourceNodes
    Tracked = {"A", "B"}
    PassClass = "B"
    ChainLengths = {2, 3}
    Conds = {c1, c2, c3}
    MaxNest = 6
    Mutators = {m1, m2}
    Pids = {1}
    FlushEvery = 2
    MaxCalls = 5
INVARIANTS SnapshotIsFinal LinksResolve UpgradedIsSound RestrictionLosesNothing ConditionEncloses RatesAreShares TablesAgree
PROPERTIES PagesAppear OnlyNullsAreFolded
CONSTRAINT OneFault
CHECK_DEADLOCK FALSE
