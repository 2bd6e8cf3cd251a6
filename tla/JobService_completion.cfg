CONSTANTS
    w1 = w1
    w2 = w2
    l1 = l1
    l2 = l2
    NoWork = NoWork
    Works = {w1}
    Lambdas = {l1, l2}
    Lag <- InSync
    RetryDelay = 1
    LaunchDelay = 1
    JobTtl = 2
    Window = 1
    Fence = 0
    MaxActive = 0
    MaxStarts = 1
    Ambiguity = 0
    Lifetime = 0
    AcceptDelay = 0
    Outcomes = {"valid", "invalid", "failed"}
    Polls = TRUE
    Terminations = TRUE
    StartTime = 1
    MaxTime = 4
    MaxGeneration = 1
SPECIFICATION LiveSpec
INVARIANTS
    PublishedIsSealed
    SealedHasEvidence
PROPERTIES
    SealedIsPublished
