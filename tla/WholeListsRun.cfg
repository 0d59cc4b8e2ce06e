CONSTANTS
    Workers = {w1, w2}
    Requests <- MixedRequests
    InitLists <- TheLists
    Recorded <- Managed
    Faults = {"read", "rejected", "lost", "verb"}
    MaxFailures = 1
    MaxRestarts = 1
    MaxForeign = 1
SPECIFICATION FairSpec
INVARIANTS TypeOK StateIsTrue
PROPERTIES DoneAsAsked EveryOperationEnds
