\* One thread and two messages that add a CNAME to the same name.
SPECIFICATION Spec
CONSTANTS
    Hosts = {"_acme-challenge"}
    Data = {1, 2}
    Updaters = {u1}
    Writers = {}
    Entries = {}
    Messages <- MCCnames
    Initial <- MCInitial
    FirstId = 4
    MaxMessages = 2
    MaxChanges = 0
CHECK_DEADLOCK FALSE
INVARIANTS OneCnamePerLabel
