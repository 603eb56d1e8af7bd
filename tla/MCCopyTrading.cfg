SPECIFICATION Spec
CONSTANTS
    c1 = c1  c2 = c2  btc = btc  eth = eth
    None = None  Done = Done
    Coins = {btc, eth}
    Calls = {c1, c2}
    Targets <- TargetsDef
    Holdings <- HoldingsDef
    MyEquity = 1
    TargetEquity = 1
    Scale = 1
    Price <- PriceDef
    Lot = 2
    OrderCap = 6
    RiskCap = 13
    TTL = 1
    MaxTime = 1
    MaxPos = 4
    MaxMoves = 1
INVARIANT EndsInSync
PROPERTIES
    ShrinkNeverTurns
    NoncesIncrease
SYMMETRY CallSymmetry
CHECK_DEADLOCK FALSE
