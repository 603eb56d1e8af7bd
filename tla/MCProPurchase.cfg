SPECIFICATION ProSpec
CONSTANTS
    k1 = k1  k2 = k2  o1 = o1
    f1 = f1
    c1 = c1
    b1 = b1  b2 = b2
    None = None
    Keys = {k1, k2, o1}
    Fingerprints = {f1}
    Calls = {c1}
    Purchases = {b1, b2}
    OperatorKeys = {o1}
    EnvLists <- OperatorLists
    Quota = 1
    Cooldown = 1
    MaxSelfServe = 1
    Month = 4
    MaxTime = 3
    MaxUse = 1
    Term = 2
INVARIANTS
    PaidTimeOnly
    BoughtKeyWorks
SYMMETRY Symmetry
CHECK_DEADLOCK FALSE
