SPECIFICATION Spec
CONSTANTS
    c1 = c1
    c2 = c2
    p1 = p1
    p2 = p2
    Calls = {c1, c2}
    Providers = {p1, p2}
    Setups <- MCSetups
    Batches <- MCBatches
    MaxDials = 2
INVARIANTS HonestSuccess FailoverAsksAll ConnectionsOwned
CHECK_DEADLOCK FALSE
