CONSTANTS
    BatchSize = 4
    MaxRevisions = 1
    MaxStops = 0
    Faults = {"publish"}
SPECIFICATION FairSpec
PROPERTIES
    AtLeastOnce
CHECK_DEADLOCK FALSE
