SPECIFICATION Spec
CONSTANTS
    a1 = a1  a2 = a2  s1 = s1  s2 = s2
    p1 = p1  p2 = p2  t1 = t1  t2 = t2  r1 = r1  r2 = r2
    None = None
    AlertIds = {a1, a2}
    Subjects = {s1, s2}
    Reliable = {s1}
    Processes = {p1}
    Ticks = {t1, t2}
    ProcessOf <- OneProcess
    Requests = {r1}
    Cooldown = 2
    Retention = 1
    MaxAlerts = 2
    Limit = 1
    MaxTime = 3
    MaxEvents = 2
INVARIANTS
    CooldownKept
    ReliableAtLeastOnce
    DefaultAtMostOnce
PROPERTY FiresOnRisingEdge
SYMMETRY Symmetry
CHECK_DEADLOCK FALSE
