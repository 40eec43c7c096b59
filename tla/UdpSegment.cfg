\* An EdgeNode, a virtual ECU and a tester that sends two datagrams of any
\* kind; the system stops when the entities do.
SPECIFICATION FairSpec
CONSTANTS
    g1 = g1
    e1 = e1
    t1 = t1
    Edges = {g1}
    Ecus = {e1}
    Testers = {t1}
    Types = {"request", "announce", "status", "other"}
    Flaws = {"none", "version", "cut"}
    MaxSent = 2
    AnnounceCount = 1
    MaxPendingResponses = 1
INVARIANTS TimersInv Inert
PROPERTY Quiet
CHECK_DEADLOCK FALSE
