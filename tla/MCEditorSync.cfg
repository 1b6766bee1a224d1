CONSTANTS
    Procs = {p1, p2}
    Docs = {d1}
    NoDoc = NoDoc
    Keys = {k1}
    NoKey = NoKey
    Store = "memory"
    LookupMayFail = FALSE
    ReplayStore = "memory"
    ReplayLimit = 2
    MaxRevisions = 2
SPECIFICATION SyncSpec
INVARIANTS
    ReplayedIsCommitted
    MissingIsNotInHead
    KeptDocumentIsOwn
SYMMETRY Symmetry
CHECK_DEADLOCK FALSE
