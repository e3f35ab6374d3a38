\* A secondary, signed or not, a channel of two messages for transfers of three,
\* two updates, edits or faults.  Without a change the chain rests.
SPECIFICATION FairSpec
CONSTANTS
    Targets = {t1}
    Handlers = {h1}
    NumRecords = 1
    Capacity = 2
    MaxEvents = 2
INVARIANTS TypeOK SignedAnswersVerify InstalledWhole RowsAsSubmitted KnotStaleOnlyIfLost StaleOnlyIfMissed
PROPERTIES QueryEnds SecondariesConverge
CHECK_DEADLOCK FALSE
