SPECIFICATION Spec
CONSTANTS
    BPS = 4
    DIVIDEND_PRECISION = 3
    MAX_U128 = 12
    PRICE_UNIT = 4
    MAX_MINT_PREMIUM_YEARS = 2
    MINT_PREMIUM_YEAR_SECONDS = 2
    PremiumRates <- MCPremiumRates
    MintPrice <- MCMintPrice
    Users = {u1, u2}
    Assets = {a1}
    Configs <- MCPenalty
    GenesisConfig <- MCPenaltyConfig
    ShareSplits <- MCSplits
    GenesisShares <- MCSplit
    MaxClaimTipBps = 1
    MaxUnlockPenaltyBps = 2
    MaxPoachFeeBps = 1
    GrindingPeriod = 1
    DepositAmounts = {8}
    GraiAmounts = {1, 2}
    YieldAmounts = {}
    ClaimAmounts = {}
    SweepAmounts = {}
    SendAmounts = {1}
    BurnAmounts = {}
    PauseFlags = {FALSE}
    BribeFlags = {TRUE, FALSE}
    Prices = {1}
    MaxSupply = 4
    MaxVault = 4
    MaxTime = 1
    u1 = u1
    u2 = u2
    a1 = a1
SYMMETRY Symmetry
INVARIANTS
    EscrowsAccounted
    RegistriesExact
    SupplyConserved
    ReserveBacked
PROPERTIES
    DividendsNeverLost
