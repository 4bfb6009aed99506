\* A log of five bytes, three launches of the parser.
SPECIFICATION Spec
CONSTANTS
    Kinds = {batch, event}
    NL = nl
    MaxLog = 5
    MaxLaunches = 3
INVARIANTS OffsetIsCovered
PROPERTIES FeedsEveryLine NothingBeforeOffsetRepeats CatchesUp
CHECK_DEADLOCK FALSE
