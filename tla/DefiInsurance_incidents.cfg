CONSTANTS
    u1 = u1
    u2 = u2
    usd8 = usd8
    ins = ins
    p1 = p1
    p2 = p2
    NoRow = NoRow
    Users = {u1}
    Tokens = {usd8}
    Usd8 = usd8
    Pools = {p1}
    Bps = 10
    BoostBps = 5
    EarnedScore = 1
    Amounts = {1}
    Boosters = {0}
    BudgetChoices = {}
    PoolLevels = {20}
    Fees = {2}
    Windows = {1}
    Bonds = {0}
    CapChoices = {5}
    PauseChoices = {TRUE, FALSE}
    SignerChoices = {}
    TokenEdits = {}
    PoolEdits = {}
    OtherClaimants = {u1}
    Donations = {}
    StartTime = 2
    OpenUntil = 6
    MaxTime = 9
    MaxIncidents = 2
    MaxClaims = 3
    MaxHeld = 0
    RowChoices <- MCRowChoices
SPECIFICATION Spec
INVARIANTS
    EarlierIncidentsClosed
    SpentSnapshotFresh
PROPERTIES
    ScoreNeverOverspent
CHECK_DEADLOCK FALSE
