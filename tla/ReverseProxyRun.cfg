CONSTANTS
    Resources <- TwoResources
    Config <- TwoConfigs
    Plans <- TwoPlans
    HandMade <- HandEntries
    StoresHTTP2 = TRUE
    Faults = {"read", "refused", "lost", "timeout", "restart"}
    MaxFaults = 2
    MaxHand = 1
    MaxUUID = 6
SPECIFICATION FairSpec
INVARIANTS TypeOK NothingLeftBehind HandsOff
PROPERTIES Converges
