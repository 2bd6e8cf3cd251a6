CONSTANTS
    p1 = p1
    p2 = p2
    t1 = t1
    t2 = t2
    u = u
    v = v
    k1 = k1
    k2 = k2
    zero = zero
    Zero = zero
    Base = 2
    Digits = 1
    ScoreScale = 2
    Runs = {p1, p2}
    Tokens = {t1, t2}
    Accounts = {u, v}
    Histories <- SomeHistories
    RebaseAt <- Rebases
    Decimals <- Surplus
    FirstRates <- Rates1
    NewRates = {1}
    Keys = {k1, k2}
    ForkBlock = 3
    QueryRange = 2
    FirstHead = 2
    MaxHead = 4
    MaxPoints = 2
SPECIFICATION Spec
INVARIANTS
    IncrementalScoreIsExact
    CheckpointSurvivesCrashes
    SourcesAgree
PROPERTIES
    CursorNeverRegresses
