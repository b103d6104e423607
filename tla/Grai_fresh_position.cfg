SPECIFICATION Spec
CONSTANTS
    BPS = 4
    DIVIDEND_PRECISION = 3
    MAX_U128 = 40
    PRICE_UNIT = 1
    MAX_MINT_PREMIUM_YEARS = 2
    MINT_PREMIUM_YEAR_SECONDS = 2
    PremiumRates <- MCPremiumRates
    MintPrice <- MCMintPrice
    Users = {u1, u2}
    Assets = {a1, a2}
    Configs <- MCPlain
    GenesisConfig <- MCConfig
    ShareSplits <- MCSplits
    GenesisShares <- MCSplit
    MaxClaimTipBps = 1
    MaxUnlockPenaltyBps = 2
    MaxPoachFeeBps = 1
    GrindingPeriod = 1
    DepositAmounts = {2}
    GraiAmounts = {}
    YieldAmounts = {4}
    ClaimAmounts = {}
    SweepAmounts = {}
    SendAmounts = {}
    BurnAmounts = {}
    PauseFlags = {FALSE}
    BribeFlags = {}
    Prices = {1}
    MaxSupply = 2
    MaxVault = 8
    MaxTime = 1
    u1 = u1
    u2 = u2
    a1 = a1
    a2 = a2
SYMMETRY Symmetry
PROPERTIES
    FreshPositionStartsEmpty
