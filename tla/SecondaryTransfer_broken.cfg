\* Two zones; the primary of the first closes every connection.
SPECIFICATION FairSpec
CONSTANTS
    Zones = {z1, z2}
    Primaries = {p1}
    Broken = {z1}
    Handlers = {h1}
    Workers = {w1}
    NumRecords = 1
    MaxChanges = 1
    MaxFaults = 0
PROPERTIES TransfersConverge
