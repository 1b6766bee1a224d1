CONSTANTS
    Sessions = {s1, s2}
SPECIFICATION FairPresenceSpec
INVARIANTS
    UnlistedWasRevived
    PresentAreListed
PROPERTIES
    UnlistedIsTemporary
CHECK_DEADLOCK FALSE
