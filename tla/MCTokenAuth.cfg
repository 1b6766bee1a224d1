CONSTANTS
    Procs = {h1, h2}
    TTL = 1
    Timeout = 1
    MaxTokens = 3
    MaxKeys = 2
SPECIFICATION Spec
INVARIANTS
    TypeOK
    ReuseIsRefused
    RevokedWasReplaced
    CurrentTokensPass
PROPERTIES
    RetiredKeysExpire
SYMMETRY Symmetry
CHECK_DEADLOCK FALSE
