SPECIFICATION SweepSpec
CONSTANTS
    People = {own, tor}
    own = own
    tor = tor
    a1 = a1
    a2 = a2
    a3 = a3
    Owner = own
    Assets = {a1, a2, a3}
    Listed = {a1, a2}
    MinPeriod = 1
    MaxPeriod = 2
    GenesisPeriod = 1
    PRICE_DECIMALS = 1
    Periods = {0, 1, 2, 3}
    Amounts = {1}
    Limits = {1, 2}
    MaxCustodians = 1
    MaxInventory = 1
    MaxTime = 4
INVARIANTS
    IdleFundCanBeLiquidated
PROPERTIES
    CustodyKept
    SweepsComplete
