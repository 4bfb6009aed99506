\* inotifywait is started only after the first pass over the corpus.
SPECIFICATION FairSpec
CONSTANTS
    Entries = {e1, e2, seed}
    Skipped = {seed}
    Seeds = {seed}
    Hashes = {h1, h2}
    Callbacks = {"alive_tv"}
    Inotify = {TRUE}
    MaxCrashes = 0
    MaxMissed = 0
PROPERTY EveryEntryChecked
CHECK_DEADLOCK FALSE
