\* Two zones in one job, two primaries, two workers, two changes (in views or at
\* a primary) and a fault.
SPECIFICATION FairSpec
CONSTANTS
    Zones = {z1, z2}
    Primaries = {p1, p2}
    Broken = {}
    Handlers = {h1}
    Workers = {w1, w2}
    NumRecords = 1
    MaxChanges = 2
    MaxFaults = 1
INVARIANTS TypeOK IdenticalSerialIsCurrent FileStaleOnlyIfLost
PROPERTIES TransfersConverge
