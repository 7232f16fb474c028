CONSTANTS
    WATCH_MAX = 2
    Pids = {p1, p2, p3}
    Threads = {t1, t2, t3}
    CONFIGS_STAY = FALSE
SPECIFICATION Spec
PROPERTIES
    BlockerExcludes
