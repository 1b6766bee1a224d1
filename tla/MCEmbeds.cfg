CONSTANTS
    Requests = {r1, r2}
    x = x
    y = y
    t = t
    u = u
    Ids = {x, y}
    Tables = {t, u}
    NoTable = NoTable
    Documents <- MCDocuments
    Patches <- MCPatches
    MaxChanges = 1
SPECIFICATION Spec
INVARIANTS
    SavedEmbedsWereReadable
    AnswersShowOwnTables
PROPERTY
    PatchKeepsOthers
SYMMETRY Symmetry
CHECK_DEADLOCK FALSE
