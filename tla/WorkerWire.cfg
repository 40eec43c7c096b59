\* Two requests in two protocol versions, a queue of one, one ResponsePending.
SPECIFICATION Spec
CONSTANTS
    MaxRequests = 2
    MaxSends = 1
    QueueSize = 1
    MaxPending = 1
    Versions = {2, 3}
    Plans <- MCPlans
    OldWait = TRUE
INVARIANTS WireInv HandlerOwned Bounded
PROPERTIES AnswersInOrder PumpResponsive RequestServed
\* wait_for of Python 3.10 and 3.11 may lose the cancellation of the worker,
\* and run() then waits for a worker that waits for a request.
CHECK_DEADLOCK FALSE
