SPECIFICATION FairSpec
CONSTANTS
    Configs <- AllConfigs
    InitConfig <- Plain
    OneShot <- OneShotDocs
    Faults <- AllFaults
    MaxFaults = 2
    MaxEdits = 2
    MaxForeign = 2
INVARIANTS TypeOK
PROPERTIES WrittenIsBuilt PlansAreTrue Converges
