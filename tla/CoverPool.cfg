CONSTANTS
    u1 = u1
    u2 = u2
    asset = asset
    usd8 = usd8
    Users = {u1, u2}
    Asset = usd8
    Usd8 = usd8
    VirtualShares = 1
    ShareLimit = 12
    RewardScale = 4
    AssetAmounts = {2}
    ShareAmounts = {1}
    Payouts = {1}
    Profits = {2}
    Donations = {1}
    Caps = {2}
    Durations = {2}
    Timings <- TwoTimings
    PauseChoices = {TRUE, FALSE}
    SettleLimits = {1}
    RequestUntil = 1
    MaxEpoch = 4
    MaxTime = 4
    MaxIncidents = 1
    MaxHeld = 2
SPECIFICATION LiveSpec
INVARIANTS
    ExitQueueOrdered
    ReserveMatchesReceipts
    RewardsFunded
    PoolBacked
PROPERTIES
    NoDilution
    CapitalContract
    ExitCompletes
CHECK_DEADLOCK FALSE
