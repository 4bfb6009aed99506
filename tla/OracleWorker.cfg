\* A worker of either oracle, killed and restarted at any point, with and
\* without inotifywait.
SPECIFICATION FairSpec
CONSTANTS
    Entries = {e1, e2, seed}
    Skipped = {seed}
    Seeds = {seed}
    Hashes = {h1, h2}
    Callbacks = {"alive_tv", "asan_opt"}
    Inotify = {TRUE, FALSE}
    MaxCrashes = 1
    MaxMissed = 1
INVARIANTS MarkerHasWitness LoggedWasHandled
PROPERTIES NeverRechecked DeliveredIsChecked PollingChecksAll
CHECK_DEADLOCK FALSE
