SPECIFICATION LiveSpec
CONSTANTS
    BPS = 4
    DIVIDEND_PRECISION = 3
    MAX_U128 = 40
    PRICE_UNIT = 1
    MAX_MINT_PREMIUM_YEARS = 2
    MINT_PREMIUM_YEAR_SECONDS = 1
    PremiumRates <- MCPremiumRates
    MintPrice <- MCMintPrice
    Users = {u1, u2}
    Assets = {a1}
    Configs <- MCPremium
    GenesisConfig <- MCPremiumConfig
    ShareSplits <- MCSplits
    GenesisShares <- MCSplit
    MaxClaimTipBps = 1
    MaxUnlockPenaltyBps = 2
    MaxPoachFeeBps = 1
    GrindingPeriod = 1
    DepositAmounts = {2, 3}
    GraiAmounts = {1}
    YieldAmounts = {}
    ClaimAmounts = {}
    SweepAmounts = {}
    SendAmounts = {}
    BurnAmounts = {1}
    PauseFlags = {TRUE, FALSE}
    BribeFlags = {}
    Prices = {1}
    MaxSupply = 3
    MaxVault = 6
    MaxTime = 5
    u1 = u1
    u2 = u2
    a1 = a1
INVARIANTS
    SharesBacked
    NoRoundTripGain
PROPERTIES
    BookPerShareNeverFalls
    LiquidationEnds
