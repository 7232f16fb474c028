CONSTANTS
    Watches = {w1, w2}
    MAX_CHANGES = 3
    SESSIONS = 2
    OTHERS = 2
    SEPARATE = TRUE
    ICON_STAYS = TRUE
SPECIFICATION FairSpec
CHECK_DEADLOCK FALSE
INVARIANTS
    TypeOK
PROPERTIES
    Persists
