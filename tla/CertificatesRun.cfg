CONSTANTS
    Resources <- ThreeResources
    Kind <- ThreeKinds
    Subject <- Subjects
    NASName = "cloud"
    Service <- Web
    Target <- WebTarget
    Scenarios <- BothScenarios
    Faults = {"read", "refused", "lost", "timeout", "unsettled", "absent", "restart"}
    MaxFaults = 1
    MaxHand = 1
    MaxAstray = 1
    MaxId = 9
SPECIFICATION FairSpec
INVARIANTS TypeOK NothingLeftBehind
PROPERTIES ServedStays BoundAsReported Converges
CHECK_DEADLOCK FALSE
