\* Two connections and one place, on a server that starts, fails, is cancelled
\* and is stopped.  The testers read only where a property assumes it.
SPECIFICATION ServerSpec
CONSTANTS
    s1 = s1
    s2 = s2
    a1 = a1
    a2 = a2
    Sessions = {s1, s2}
    Addr = {a1, a2}
    NoSession = NoSession
    NoAddr = NoAddr
    MaxConnections = 1
    Late = {s2}
INVARIANT StoppedClean
PROPERTIES StopEnds ContenderDecided ClosingFinishes UnactivatedDropped
