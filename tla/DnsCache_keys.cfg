\* Both keys of a name in a cache of one entry, an upstream that fails once.
SPECIFICATION Spec
CONSTANTS
    Names = {n1}
    DnssecFlags = {FALSE, TRUE}
    Queries = {q1, q2}
    Updater = updater_task
    Capacity = 1
    MaxVersion = 1
    MaxFlushes = 0
    MaxFrames = 1
    MaxFaults = 1
SYMMETRY Symmetry
INVARIANTS TypeOK MarkerHasFetcher
PROPERTIES ServFailOnlyByEarlierMiss
