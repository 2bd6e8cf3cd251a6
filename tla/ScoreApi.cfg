CONSTANTS
    p1 = p1
    p2 = p2
    t1 = t1
    t2 = t2
    u1 = u1
    zero = zero
    Zero = zero
    Base = 2
    Digits = 1
    ScoreScale = 2
    Lambdas = {p1, p2}
    Accounts = {u1}
    Tokens <- TwoTokens
    Transfers <- Moves
    Rates <- RateSteps
    Decimals <- Digits2
    Margin = 2
    Spent <- OneSpent
    Deployed = 5
    ForkBlock = 7
    Lag <- Skew
    Refreshers = {p1}
    Day = 4
    RefreshCooldown = 1
    Timeout = 1
    LeaseTime = 2
    Cooldown = 1
    Window = 3
    MaxAttempts = 1
    StartTime = 7
    MaxTime = 9
    Stale = Stale
SPECIFICATION Spec
INVARIANTS
    SavedScoreIsExact
    ServedWasSaved
    OneReplayAtATime
PROPERTIES
    RowNeverRegresses
