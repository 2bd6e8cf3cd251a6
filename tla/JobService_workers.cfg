CONSTANTS
    w1 = w1
    w2 = w2
    l1 = l1
    l2 = l2
    NoWork = NoWork
    Works = {w1, w2}
    Lambdas = {l1, l2}
    Lag <- InSync
    RetryDelay = 1
    LaunchDelay = 2
    JobTtl = 6
    Window = 2
    Fence = 1
    MaxActive = 1
    MaxStarts = 1
    Ambiguity = 1
    Lifetime = 1
    AcceptDelay = 1
    Outcomes = {}
    Polls = FALSE
    Terminations = TRUE
    StartTime = 1
    MaxTime = 6
    MaxGeneration = 0
SPECIFICATION Spec
SYMMETRY SymmBoth
INVARIANTS
    ActiveWorkersBounded
