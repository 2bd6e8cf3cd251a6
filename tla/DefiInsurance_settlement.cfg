CONSTANTS
    u1 = u1
    u2 = u2
    usd8 = usd8
    ins = ins
    p1 = p1
    p2 = p2
    NoRow = NoRow
    Users = {u1, u2}
    Tokens = {usd8}
    Usd8 = usd8
    Pools = {p1}
    Bps = 10
    BoostBps = 5
    EarnedScore = 1
    Amounts = {1}
    Boosters = {0}
    BudgetChoices = {6}
    PoolLevels = {20}
    Fees = {0, 2}
    Windows = {1}
    Bonds = {0}
    CapChoices = {5}
    PauseChoices = {}
    SignerChoices = {}
    TokenEdits = {}
    PoolEdits = {}
    OtherClaimants = {}
    Donations = {}
    StartTime = 2
    OpenUntil = 2
    MaxTime = 8
    MaxIncidents = 1
    MaxClaims = 2
    MaxHeld = 0
    RowChoices <- MCRowChoices
SPECIFICATION UnendingSpec
INVARIANTS
    UnresolvedMatchesClaims
    TeeRootPaysEveryone
PROPERTIES
    RootFixedOnceUsed
    PoolsThaw
    ClaimsResolve
CHECK_DEADLOCK FALSE
