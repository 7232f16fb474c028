CONSTANTS
    WATCH_MAX = 2
    FILES = 3
    CFG_SZ_MAX = 8
    DB_SZ_MAX = 8
    SHRT_MAX = 32767
    ULONG_MAX = 65535
    Numeral <- MCNumeral
    Basename <- MCBasename
    Texts <- MCTexts
    Starts <- MCStarts
SPECIFICATION Spec
INVARIANTS
    TypeOK
    SettingsAsWritten
    DaemonAsWritten
PROPERTIES
    ImplementsWatchConfig
