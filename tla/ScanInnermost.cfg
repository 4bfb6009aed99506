\* Bodies nested four deep, two conditions open at once.
SPECIFICATION ScanSpec
CONSTANTS
    Conds = {c1, c2}
    MaxNest = 4
INVARIANT InnermostCondition
CHECK_DEADLOCK FALSE
