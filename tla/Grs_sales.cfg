SPECIFICATION HistorySpec
CONSTANTS
    Home = home
    home = home
    s1 = s1
    Spokes = {s1}
    MAX_SUPPLY = 4
    LD2SD_RATE = 2
    ONE_IN_BASIS_POINTS = 2
    FeeBps = 1
    LotSizes = {2, 3}
    Quotes = {0, 2}
    Amounts = {1, 4}
    Rewirable <- MCRewirable
    Crowded <- MCCrowded
    Exposed <- MCExposed
    MaxSales = 2
    MaxMessages = 2
INVARIANTS
    EarmarksBacked
    SupplyConserved
    OnlyGatesRefuse
    SoldAtListPrice
PROPERTIES
    RevokedLotsStayClosed
