CONSTANTS
    WATCH_MAX = 2
    Pids = {p1, p2, p3}
    Threads = {t1, t2}
    CONFIGS_STAY = TRUE
SPECIFICATION FairSpec
INVARIANTS
    UniqueWatch
    TableHasRoom
    ChildInv
PROPERTIES
    EntryOutlivesProgram
    ImplementsLauncher
    MainReturns
    SlotReleased
