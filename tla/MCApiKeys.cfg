SPECIFICATION Spec
CONSTANTS
    k1 = k1  k2 = k2  k3 = k3  o1 = o1  o2 = o2
    f1 = f1  f2 = f2
    c1 = c1  c2 = c2
    None = None
    Keys = {k1, k2, o1, o2}
    Fingerprints = {f1}
    Calls = {c1, c2}
    Quota = 2
    Cooldown = 1
    MaxSelfServe = 1
    Month = 2
    MaxTime = 2
    MaxUse = 2
    OperatorKeys = {o1, o2}
    EnvLists <- MCEnvLists
INVARIANTS
    QuotaPerRequester
    OneActiveFreeKey
    EnvironmentRules
SYMMETRY Symmetry
CHECK_DEADLOCK FALSE
