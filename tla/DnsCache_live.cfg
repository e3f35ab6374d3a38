\* A query and the updater on one key, a change, a flush and two faults.
SPECIFICATION FairSpec
CONSTANTS
    Names = {n1}
    DnssecFlags = {FALSE}
    Queries = {q1}
    Updater = updater_task
    Capacity = 1
    MaxVersion = 2
    MaxFlushes = 1
    MaxFrames = 1
    MaxFaults = 2
INVARIANTS StaleOnlyIfOvertaken
PROPERTIES EveryQueryAnswered CacheConverges
