\* The drain of a ResponsePending raises.
SPECIFICATION FairSpec
CONSTANTS
    MaxRequests = 2
    MaxSends = 0
    QueueSize = 1
    MaxPending = 1
    Versions = {2, 3}
    Plans <- MCPlans
    OldWait = FALSE
PROPERTY HandlerContained
