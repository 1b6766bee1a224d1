CONSTANTS
    Sessions = {s1, s2}
    NoSession = NoSession
    Patches = {p1, p2}
    NoPatch = NoPatch
    Refreshers = {f1}
    MaxRevisions = 3
    MaxEdits = 2
SPECIFICATION FairSpec
INVARIANTS
    TypeOK
    RoomIsARevision
    RevisionsAddOneEdit
    AcceptedOnce
PROPERTIES
    EveryPatchIsAnswered
CHECK_DEADLOCK FALSE
