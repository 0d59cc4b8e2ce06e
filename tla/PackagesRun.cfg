CONSTANTS
    Packages <- TwoPackages
    Resources <- TwoPackages
    Needs <- TwoNeeds
    Plans <- TwoPlans
    CanUninstall = {"docker"}
    InitInstalled = {}
    Faults = {"read", "fallback", "refused", "lost", "deadline", "task", "restart"}
    MaxFaults = 2
    MaxHand = 1
SPECIFICATION FairSpec
INVARIANTS TypeOK NoCollision RecordedIsTrue
PROPERTIES Converges
