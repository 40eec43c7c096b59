\* Three connections contend for three addresses and two places.
SPECIFICATION Spec
CONSTANTS
    s1 = s1
    s2 = s2
    s3 = s3
    a1 = a1
    a2 = a2
    a3 = a3
    Sessions = {s1, s2, s3}
    Addr = {a1, a2, a3}
    NoSession = NoSession
    NoAddr = NoAddr
    MaxConnections = 2
SYMMETRY Symmetry
INVARIANTS ActivationInv RegistryExact CapacityBound SocketAccounting TimerArmed
PROPERTIES ImplementsOwnership
