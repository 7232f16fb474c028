CONSTANTS
    Clients = {c1}
    WATCH_MAX = 1
    Active <- OneWatch
    Blockers <- OneWatch
    Ids <- FirstId
    CMDS = 1
    RETRIES = 2
    Nobody = Nobody
SPECIFICATION Spec
INVARIANTS
    PipelineAnswered
