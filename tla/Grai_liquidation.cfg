SPECIFICATION Spec
CONSTANTS
    BPS = 4
    DIVIDEND_PRECISION = 3
    MAX_U128 = 6
    PRICE_UNIT = 1
    MAX_MINT_PREMIUM_YEARS = 2
    MINT_PREMIUM_YEAR_SECONDS = 2
    PremiumRates <- MCPremiumRates
    MintPrice <- MCMintPrice
    Users = {u1, u2}
    Assets = {a1}
    Configs <- MCOwned
    GenesisConfig <- MCConfig
    ShareSplits <- MCSplits
    GenesisShares <- MCSplit
    MaxClaimTipBps = 1
    MaxUnlockPenaltyBps = 2
    MaxPoachFeeBps = 1
    GrindingPeriod = 0
    DepositAmounts = {3}
    GraiAmounts = {1}
    YieldAmounts = {2}
    ClaimAmounts = {9}
    SweepAmounts = {2}
    SendAmounts = {1}
    BurnAmounts = {}
    PauseFlags = {FALSE}
    BribeFlags = {}
    Prices = {0, 1}
    MaxSupply = 3
    MaxVault = 2
    MaxTime = 4
    u1 = u1
    u2 = u2
    a1 = a1
SYMMETRY Symmetry
INVARIANTS
    VaultCoversLocks
    ExitsNeverBlocked
PROPERTIES
    BasketPerShareNeverFalls
    WindowHonoured
