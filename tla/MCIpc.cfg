CONSTANTS
    Clients = {c1}
    WATCH_MAX = 3
    Active <- ThreeWatches
    Blockers <- TwoWatches
    Ids <- SomeIds
    CMDS = 2
    RETRIES = 2
    Nobody = Nobody
SPECIFICATION FairSpec
CHECK_DEADLOCK FALSE
INVARIANTS
    TypeOK
    HungUpLaunchesNothing
    AnswersAreTrue
    OneBlockerRuns
PROPERTIES
    MainLoopResumes
