SPECIFICATION FairSpec
CONSTANTS
    s1 = s1
    Sigs = {s1}
    MaxEntries = 2
    Asked = {"Confirmed"}
    MaxPolls = 2
    MaxRetries = 2
PROPERTY WaitIsBounded
\* All monitorings may have ended.
CHECK_DEADLOCK FALSE
