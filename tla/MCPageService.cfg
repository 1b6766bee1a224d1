CONSTANTS
    Procs = {p1, p2}
    Docs = {d1, d2}
    NoDoc = NoDoc
    Keys = {k1}
    NoKey = NoKey
    Store = "postgres"
    LookupMayFail = FALSE
    ReplayStore = "redis"
    ReplayLimit = 2
    MaxRevisions = 3
SPECIFICATION Spec
INVARIANTS
    TypeOK
    NumbersFollowAcceptance
    HeadsAreLatest
    BasedOnLatestDraft
    KeyUsedOnce
    RebaseIsProgress
    AckedIsCommitted
SYMMETRY Symmetry
PROPERTIES ImplementsLedger
CHECK_DEADLOCK FALSE
