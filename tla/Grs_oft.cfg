SPECIFICATION LiveSpec
CONSTANTS
    Home = home
    Spokes = {s1, s2}
    Trader = s1
    MAX_SUPPLY = 11
    LD2SD_RATE = 2
    ONE_IN_BASIS_POINTS = 4
    MAX_PEERS = 1
    Genesis = 11
    TransferFee <- MCTransferFee
    Amounts <- MCAmounts
    SideAmounts = {5}
    Fees = {2}
    Routes <- MCRoutes
    Wirings <- MCWirings
    LimitParams <- MCLimitParams
    Charged <- MCCharged
    Administered <- MCAdministered
    Keep = Keep
    Pausable = {home}
    MaxMessages = 3
    MaxIdle = 1
    home = home
    s1 = s1
    s2 = s2
INVARIANTS
    LockedBacksSpokes
    OnlyThrottled
PROPERTIES
    RateLimited
    QueueMoves
