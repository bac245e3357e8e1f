SPECIFICATION FairSpec
CONSTANTS
    k1 = k1
    s1 = s1
    s2 = s2
    a = a
    b = b
    j1 = j1
    Keys = {k1}
    Slots = {s1, s2}
    Bounds <- MCBounds
    blockhashRefreshInterval = 1
    cacheTtl = 2
    prefetchTimeout = 2
    maxAge = 1
    clockAhead = 1
    Clients = {a, b}
    Jobs = {j1}
    maxRetries = 2
INVARIANTS ServedIsRecent HonestAnswer
PROPERTIES BlockhashOnlyForward NothingAfterSignature HotPathAnswers
