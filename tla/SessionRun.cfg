CONSTANTS
    Calls = {c1, c2}
    Kinds = {"get", "post", "file", "refused"}
    MaxRetries = 3
SPECIFICATION FairSessionSpec
INVARIANTS SessionTypeOK LatestSession AnswersAreTrue
PROPERTIES EveryCallReturns
