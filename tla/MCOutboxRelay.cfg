CONSTANTS
    BatchSize = 4
    MaxRevisions = 2
    MaxStops = 1
    Faults = {"relay", "publish", "flush", "search", "project"}
SPECIFICATION FairSpec
INVARIANTS
    OldestFirst
PROPERTIES
    IndexNeverRegresses
    CatchesUp
CHECK_DEADLOCK FALSE
