CONSTANTS
    Blocks = {1, 2, 3, 4}
    Chains <- SomeChains
    Txs = {1, 2}
    Filter <- Hits
    Queries <- Reads
    ProviderCap = 3
    MaxRange = 4
    MaxCap = 3
    RetryCount = 1
    MaxRetries = 1
    MaxRequests = 7
    MaxBisections = 2
    MaxBatch = 3
    OtherAttempts = 1
SPECIFICATION Spec
INVARIANTS
    AnswerIsComplete
PROPERTIES
    CallEnds
