SPECIFICATION ForfeitSpec
CONSTANTS
    BPS = 4
    DIVIDEND_PRECISION = 2
    MAX_U128 = 4
    PRICE_UNIT = 1
    MAX_MINT_PREMIUM_YEARS = 2
    MINT_PREMIUM_YEAR_SECONDS = 2
    PremiumRates <- MCPremiumRates
    MintPrice <- MCMintPrice
    Users = {u1, u2}
    Assets = {a1}
    Configs <- MCPlain
    GenesisConfig <- MCConfig
    ShareSplits <- MCSplits
    GenesisShares <- MCSplit
    MaxClaimTipBps = 1
    MaxUnlockPenaltyBps = 2
    MaxPoachFeeBps = 1
    GrindingPeriod = 1
    DepositAmounts = {2}
    GraiAmounts = {1}
    YieldAmounts = {2}
    ClaimAmounts = {9}
    SweepAmounts = {}
    SendAmounts = {1}
    BurnAmounts = {}
    PauseFlags = {TRUE, FALSE}
    BribeFlags = {}
    Prices = {1}
    MaxSupply = 2
    MaxVault = 3
    MaxTime = 1
    MaxRaises = 3
    u1 = u1
    u2 = u2
    a1 = a1
SYMMETRY Symmetry
INVARIANTS
    OverhangBounded
    NoLockerTrapped
    ForfeitBounded
