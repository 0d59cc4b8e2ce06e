CONSTANTS
    Workers = {w1, w2}
    Profiles <- TwoProfiles
    Adapters = {"global", "eth0"}
    Global = "global"
    SessionKnown = TRUE
    Requests <- FaultyRequests
    InitDsm <- FaultyNas
    ForeignWrites = {}
    Faults = {"read", "save", "ignored", "lost", "switch", "apply", "stale"}
    MaxRetries = 1
    MaxRestarts = 1
    MaxForeign = 0
SPECIFICATION FairSpec
INVARIANTS TypeOK
PROPERTIES NothingLost OneChangeAtATime EveryOperationEnds
