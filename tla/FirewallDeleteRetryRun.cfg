CONSTANTS
    Workers = {w1}
    Profiles <- OneProfile
    Adapters = {"global", "eth0"}
    Global = "global"
    SessionKnown = TRUE
    Requests <- LastDeleteRequests
    InitDsm <- LastDeleteNas
    ForeignWrites = {}
    Faults = {"apply"}
    MaxRetries = 1
    MaxRestarts = 0
    MaxForeign = 0
SPECIFICATION Spec
PROPERTIES DeletedIsOutOfForce
