SPECIFICATION MCSpec
CONSTANTS
    Keys = {k1, k2}
    NoKey = NoKey
    Programs = {grai, feed}
    CUSTOM = feed
    Mints = {m1, m2}
    PushFeeds = {push}
    RoundFeeds = {round}
    Pairs = {x, y}
    NoPair = NoPair
    RoundPair <- MCRoundPair
    MAX_STALENESS = 1
    Listable = {m1}
    Prices = {0, 1}
    Delays = {0, 1}
    MaxTime = 2
    k1 = k1
    k2 = k2
    grai = grai
    feed = feed
    m1 = m1
    m2 = m2
    push = push
    round = round
    x = x
    y = y
SYMMETRY Symmetry
INVARIANTS
    PricesAsApproved
PROPERTIES
    HandoverConsented
