CONSTANTS
    Files = {f1, f2}
    NoFile = NoFile
    Procs = {h1, h2}
    FileStore = "postgres"
    MaxRevisions = 3
SPECIFICATION Spec
INVARIANTS
    TypeOK
    SavedPagesOpen
PROPERTIES
    DeletedIsFinal
    CompletionIsAtomic
SYMMETRY Symmetry
CHECK_DEADLOCK FALSE
