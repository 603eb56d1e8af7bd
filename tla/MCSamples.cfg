SPECIFICATION FairSpec
CONSTANTS
    w1 = w1  w2 = w2  w3 = w3
    None = None
    Wallets = {w1, w2, w3}
    Boards <- MCBoards
    EnvCohort <- MCEnvCohort
    TopN = 2
    MinEquity = 2
    LastRefresh = 1
    FreshAge = 0
    StaleAge = 1
    Chunk = 1
    Window = 2
    MaxAttempts = 1
    Limit = 1
    LastSample = 2
    MaxTime = 4
    Broken = {w1}
INVARIANTS
    OneCohortADay
    OutcomesIndependent
PROPERTY EverySampleCloses
CHECK_DEADLOCK FALSE
