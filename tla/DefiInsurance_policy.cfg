CONSTANTS
    u1 = u1
    u2 = u2
    usd8 = usd8
    ins = ins
    p1 = p1
    p2 = p2
    NoRow = NoRow
    Users = {u1}
    Tokens = {usd8}
    Usd8 = usd8
    Pools = {p1}
    Bps = 10
    BoostBps = 5
    EarnedScore = 1
    Amounts = {1}
    Boosters = {1}
    BudgetChoices = {}
    PoolLevels = {4, 10}
    Fees = {2}
    Windows = {1, 2}
    Bonds = {0, 1}
    CapChoices = {4, 5}
    PauseChoices = {}
    SignerChoices = {TRUE, FALSE}
    TokenEdits = {usd8}
    PoolEdits = {p1}
    OtherClaimants = {}
    Donations = {1}
    StartTime = 3
    OpenUntil = 3
    MaxTime = 8
    MaxIncidents = 1
    MaxClaims = 1
    MaxHeld = 1
    RowChoices <- BoosterRowChoices
SPECIFICATION Spec
INVARIANTS
    BudgetBacked
    SignedStaysRelayable
    CustodyBacked
CHECK_DEADLOCK FALSE
