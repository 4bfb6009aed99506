SPECIFICATION Spec
CONSTANTS
    Starts = {a1, a2}
    Stops = {z1}
INVARIANT OwnDirectory
CHECK_DEADLOCK FALSE
