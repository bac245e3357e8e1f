SPECIFICATION FairSpec
CONSTANTS
    p1 = p1
    p2 = p2
    p3 = p3
    s1 = s1
    s2 = s2
    Providers = {p1, p2, p3}
    Sigs = {s1, s2}
    SigOf <- MCSigOf
    NoSig = NoSig
    NoProvider = NoProvider
    Orders <- MCOrders
    MaxRetries = 2
INVARIANTS TypeOK ReceiptPaired AnswerIsHonest
PROPERTIES KeepsReceipts NothingAfterAnswer EventuallyAnswered
\* An execution ends.
CHECK_DEADLOCK FALSE
