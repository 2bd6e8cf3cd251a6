CONSTANTS
    a = a
    b = b
    l1 = l1
    l2 = l2
    None = None
    Histories <- Shapes
    Ratios = {1, 4}
    Policies = {a, b}
    Policy0 = a
    Drop <- DropOf
    Bps = 10
    Twap = 4
    Step = 2
    MaxAge = 8
    MaxPoints = 7
    PhaseWindow = 1
    Invocations = {l1, l2}
    Hold = 3
    Keep = 4
    CacheBudget = 2
    Deadline = 2
    ForkBlocks = {12}
    MaxBlock = 14
    MaxPolicies = 1
    MaxSigned = 1
    MaxJobs = 1
    MaxTime = 4
SPECIFICATION Spec
SYMMETRY Symm
INVARIANTS
    AttestedDropIsReal
    OneScanAtATime
    JobsAreFresh
CHECK_DEADLOCK FALSE
