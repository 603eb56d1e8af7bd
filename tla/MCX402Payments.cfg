SPECIFICATION FairSpec
CONSTANTS
    c1 = c1  c2 = c2  c3 = c3
    s1 = s1  s2 = s2
    h1 = h1  h2 = h2  h3 = h3
    a1 = a1  a2 = a2
    p1 = p1
    Calls = {c1, c2, c3}
    Servers = {s1, s2}
    Headers = {h1, h2, h3}
    Auths = {a1, a2}
    Payers = {p1}
    MaxPending = 1
    None = None
    ServerOf <- MCServerOf
    AuthOf <- MCAuthOf
    PayerOf <- MCPayerOf
INVARIANTS
    OneSettlementPerAuthorization
    NotChargedIsTrue
    NoReservationLeak
    PendingIsExact
PROPERTIES
    ContractKept
    EveryCallAnswered
CHECK_DEADLOCK FALSE
