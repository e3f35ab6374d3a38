\* Two messages against each other and against a view, the API or an import.
SPECIFICATION Spec
CONSTANTS
    Hosts = {"_acme-challenge"}
    Data = {1, 2}
    Updaters = {u1, u2}
    Writers = {w1}
    Entries <- MCEntries
    Messages <- MCMessages
    Initial <- MCInitial
    FirstId = 4
    MaxMessages = 2
    MaxChanges = 1
SYMMETRY Symmetry
CHECK_DEADLOCK FALSE
INVARIANTS TypeOK PrereqsHoldWhenApplied CnameAloneUnlessBypassed RrApplied
PROPERTIES ChangesInScope
