SPECIFICATION FairSpec
CONSTANTS
    Requests <- MCRequests
    RelayTypes = {"Jito"}
    Tips = {1, 2}
    MaxEdits = 2
    PollsBeforeTx = 2
    MaxPolls = 3
    MaxRoutes = 2
INVARIANTS LandsOnce SubmissionIsHonest
PROPERTY EventuallyAnswered
\* A trade ends.
CHECK_DEADLOCK FALSE
