CONSTANTS
    Workers = {w1, w2}
    Config <- MixedConfig
    InitShares <- MixedShares
    InitKnown <- MixedKnown
    Faults = {"refused", "lost", "read", "restart"}
    MaxFaults = 1
    MaxForeign = 1
SPECIFICATION FairSpec
INVARIANTS TypeOK
PROPERTIES NeverForgotten HandMadeIsSafe Converges
