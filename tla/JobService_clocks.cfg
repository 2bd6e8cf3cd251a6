CONSTANTS
    w1 = w1
    w2 = w2
    l1 = l1
    l2 = l2
    NoWork = NoWork
    Works = {w1, w2}
    Lambdas = {l1, l2}
    Lag <- FarBehind
    RetryDelay = 1
    LaunchDelay = 2
    JobTtl = 6
    Window = 2
    Fence = 1
    MaxActive = 0
    MaxStarts = 1
    Ambiguity = 0
    Lifetime = 1
    AcceptDelay = 0
    Outcomes = {}
    Polls = FALSE
    Terminations = FALSE
    StartTime = 4
    MaxTime = 8
    MaxGeneration = 0
SPECIFICATION Spec
SYMMETRY SymmWorks
INVARIANTS
    DeniedNeverLaunched
    BudgetNeverExceeded
