CONSTANTS
    Resources <- TwoTasks
    Kind <- TwoKinds
    Session = "admin"
    Scenarios <- AllScenarios
    Faults = {"read", "refused", "lost", "timeout", "noId", "restart"}
    MaxFaults = 2
    MaxHand = 1
    MaxId = 6
SPECIFICATION FairSpec
INVARIANTS TypeOK NothingRunsUntracked
PROPERTIES DeletedIsGone Converges
CHECK_DEADLOCK FALSE
