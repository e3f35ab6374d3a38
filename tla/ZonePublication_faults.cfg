\* Two requests on a zone that exists or is created, two workers and a fault:
\* a retry, a killed worker or request, a sidecar crash.
SPECIFICATION Spec
CONSTANTS
    Zones = {z1}
    ForwardZones = {z1}
    Existing = {{}, {z1}}
    Reverse <- MCReverse
    Handlers = {h1, h2}
    Workers = {w1, w2}
    NumTables = 2
    Addresses = 1
    InitialRecords = 0
    MaxRequests = 2
    MaxFaults = 1
SYMMETRY Symmetry
INVARIANTS TypeOK StaleOnlyIfRaced ServedTracksFile
PROPERTY ImplementsPublication
