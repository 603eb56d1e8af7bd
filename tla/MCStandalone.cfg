SPECIFICATION Spec
CONSTANTS
    w1 = w1
    w2 = w2
    w3 = w3
    w4 = w4
    x1 = x1
    x2 = x2
    x3 = x3
    Halves <- McHalves
    Slices = {1, 2, 3, 4}
    Durations = {0, 5}
    SizeCaps = {1, 2, 9}
    Scores = {1, 2, 3}
    Returns = {0, 1}
    Samples = {3, 5}
    Group <- McGroup
    Pairs <- McPairs
    Contracts <- McContracts
    Prices = {0, 1, NoPrice}
    Liquidities = {1, 2}
    Listings = 3
    MaxReported = 2
    MinForRank = 4
    MinForVerdict = 4
    NoPrice = NoPrice
    NoCluster = NoCluster
    LiquidationPrices = {0, 97, 98, 100, 102}
    Values <- McValues
    Dexs <- McDexs
    MaxDexs = 2
    MaxItems = 7
    NoOffset = NoOffset
    NoFilter = NoFilter
    NoAnswer = NoAnswer
    PageLimit = 2
    MaxPages = 3
    Times <- McTimes
    MaxRecorded = 5
    OpenEnd = OpenEnd
    FlowWallets = {w1, w2}
    FlowCoins = {x1}
    Sizes = {0, 1}
    FlowCalls = {w1}
    Lookback = 2
    MarkPrices = {1, 2}
    Threshold = 2
    Retention = 2
    MaxPerKey = 1
    MaxFlowTime = 5
    MaxSnapshots = 2
    NoView = NoView
    MarketCoins = {x1, x2, x3}
    FundingCoins = 2
    WhaleFlipCoins = {x1}
    MaxMoves = 2
    MaxHouseCrashes = 1
    NoRefresh = NoRefresh
    MaxTimers = 2
INVARIANTS
    AnswersAreRight
    PagesComplete
    FlowAlertsAreRight
PROPERTIES
    HouseFollowsTheMarket
    FeedReconnects
CHECK_DEADLOCK FALSE
