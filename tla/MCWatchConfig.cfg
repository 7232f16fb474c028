CONSTANTS
    WATCH_MAX = 2
    FILES = 3
    Paths <- MCPaths
    Basename <- MCBasename
    NoFile = NoFile
    Settings = {quiet, blocking}
    NoSettings = NoSettings
    WATCH_ERRORS = TRUE
SPECIFICATION Spec
INVARIANTS
    TypeOK
    UniqueBasenames
    NoStaleWatch
    WatchesUpToDate
    ChangesAnnounced
PROPERTIES
    RunningWatchKept
    SlotStepsAsInProcessTable
