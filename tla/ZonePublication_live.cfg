\* Liveness: no symmetry; a zone and a reverse zone its addresses lie in, one
\* request, one worker, two faults.
SPECIFICATION MCFairSpec
CONSTANTS
    Zones = {z1, r1}
    ForwardZones = {z1}
    Existing = {{z1, r1}, {r1}}
    Reverse <- MCReverse
    Handlers = {h1}
    Workers = {w1}
    NumTables = 2
    Addresses = 1
    InitialRecords = 1
    MaxRequests = 1
    MaxFaults = 2
PROPERTIES FilesConverge ServedConverges
