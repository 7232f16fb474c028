CONSTANTS
    LEN = 6
    SIZE = 4
    CAPACITY = 3
    MAX_IO_BUFSIZ = 5
    SIGNALS = 2
SPECIFICATION FairSpec
INVARIANTS
    InFullMeansAll
PROPERTIES
    SendReturns
    SentIsReceived
    ImplementsStream
