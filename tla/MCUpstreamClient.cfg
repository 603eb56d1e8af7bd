SPECIFICATION FairSpec
CONSTANTS
    c1 = c1  c2 = c2  c3 = c3  light = light  heavy = heavy
    None = None  Failed = Failed
    Callers = {c1, c2, c3}
    Keys = {light, heavy}
    Weight <- WeightDef
    Extras <- ExtrasDef
    Capacity = 2
    Rate = 1
    MaxWait = 1
    MaxRetries = 1
    TTL = 1
    MaxEntries = 1
    MaxTime = 1
INVARIANTS
    WithinBudget
    AnswersAreFresh
PROPERTY EveryCallAnswered
CHECK_DEADLOCK FALSE
