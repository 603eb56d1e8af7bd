SPECIFICATION FairSignalSpec
CONSTANTS
    w1 = w1  w2 = w2  t1 = t1  t2 = t2
    None = None
    Wallets = {w1, w2}
    Ticks = {t1, t2}
    Horizon = 1
    Tolerance = 0
    MarketAge = 1
    MaxRead = 1
    CandleReach = 1
    MaxLag = 1
    Batch = 1
    Cooldown = 1
    MaxSignals = 2
    LastSignal = 1
    MaxTime = 4
INVARIANT ReturnsAreAtTheHorizon
PROPERTIES
    ScoredOnce
    FlipIsGenuine
    EverySignalCloses
CHECK_DEADLOCK FALSE
