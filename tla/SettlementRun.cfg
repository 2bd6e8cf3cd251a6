CONSTANTS
    k1 = k1
    k2 = k2
    u1 = u1
    u2 = u2
    u3 = u3
    Bps = 10
    Invalid = Invalid
    HashRank <- Ranks
    Claims = {1, 2, 3}
    ClaimUser <- Users3
    Amount <- Amounts3
    Score <- Scores3
    Held <- HeldOf
    Earned <- EarnedOf
    Keys = {k1, k2}
    Stranger = Stranger
    Time <- Stamps
    ReferenceBlock = 1
    OpenBlock = 2
    PhaseWindow = 3
    Staleness = 3
    Policies <- Caps2
    Prices <- Prices2
    Balance = 9
    Fee = 2
    ForkBlocks = {3}
    MaxBlock = 7
    MaxSigned = 2
    MaxPromoted = 1
    Limit <- Limits
SPECIFICATION Spec
INVARIANTS
    SettlesTheChain
    RowsProvable
    PromotedIsAuthorized
CHECK_DEADLOCK FALSE
