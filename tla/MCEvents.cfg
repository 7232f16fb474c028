CONSTANTS
    WATCH_MAX = 2
    Active <- BothSlots
    Environments <- AllEnvironments
SPECIFICATION FairSpec
INVARIANTS
    TypeOK
    EventsReachTheirWatch
    FlagsReset
PROPERTIES
    OnlyTapsLaunch
    TapsLaunch
    LostWatchNoticed
