CONSTANTS
    Workers = {w1, w2}
    Profiles <- TwoProfiles
    Adapters = {"global", "eth0", "eth1"}
    Global = "global"
    SessionKnown = TRUE
    Requests <- ScenarioRequests
    InitDsm <- ScenarioNas
    ForeignWrites <- InterfaceWrites
    Faults = {"save", "switch"}
    MaxRetries = 1
    MaxRestarts = 0
    MaxForeign = 1
SPECIFICATION ScenarioSpec
INVARIANTS LaidOutAsConfigured
PROPERTIES GuardsHold ReportedIsInForce
