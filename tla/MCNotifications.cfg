SPECIFICATION FairSpec
CONSTANTS
    s1 = s1  h1 = h1  h2 = h2  k1 = k1  u1 = u1
    None = None  Stop = Stop
    Subjects = {s1}
    Chats = {h1, h2}
    Codes = {k1}
    Urls = {u1}
    Cap = 1
    Window = 2
    MaxLookup = 1
    Ttl = 1
    MaxTime = 2
    MaxUpdates = 2
    MaxCrashes = 1
INVARIANTS
    CodeLinksOnce
    CapKept
PROPERTY EveryUpdateHandled
CHECK_DEADLOCK FALSE
