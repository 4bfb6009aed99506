\* Commands given at any time, or only when no run is being set up; in both
\* cases stop.sh may meet the trap of start.sh, and two runs may be alive.
SPECIFICATION Spec
CONSTANTS
    Starts = {a1, a2}
    Stops = {z1, z2}
INVARIANTS CurrentHasManifest CurrentIsNotOver
PROPERTIES EndedRunsAreOver ManifestGrows
SYMMETRY Symmetry
CONSTRAINT SmallOverlaps
CHECK_DEADLOCK FALSE
