\* wait_for of Python 3.10 and 3.11 loses a cancellation.
SPECIFICATION FairSpec
CONSTANTS
    MaxRequests = 2
    MaxSends = 0
    QueueSize = 1
    MaxPending = 1
    Versions = {2, 3}
    Plans <- MCPlans
    OldWait = TRUE
PROPERTY StopCompletes
CHECK_DEADLOCK FALSE
