\* A settled zone, or one that is created, whose owner may disable CDS.
SPECIFICATION FairSpec
CONSTANTS
    Zones = {z1}
    Handlers = {h1}
    Workers = {w1}
    MaxEvents = 1
PROPERTIES ShownCdsIsPublished
