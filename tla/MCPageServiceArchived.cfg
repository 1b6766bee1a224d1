CONSTANTS
    Procs = {p1, p2}
    Docs = {d1}
    NoDoc = NoDoc
    Keys = {k1}
    NoKey = NoKey
    Store = "postgres"
    LookupMayFail = FALSE
    ReplayStore = "redis"
    ReplayLimit = 2
    MaxRevisions = 2
SPECIFICATION Spec
INVARIANTS ArchivedIsReadOnly
CHECK_DEADLOCK FALSE
