CONSTANTS
    Conns = {c1, c2}
    Rooms = {r1}
    NoRoom = NoRoom
    MaxSessions = 2
    MaxPatches = 2
SPECIFICATION FairSpec
INVARIANTS
    NoClosedClients
    NothingLostSilently
PROPERTIES
    AuthorIsAnswered
CHECK_DEADLOCK FALSE
