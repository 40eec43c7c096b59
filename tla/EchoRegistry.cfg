\* Three connections and two addresses: of three peers, of a tester that loses
\* its connections, or of a tester and one rival; and two attempts behind an
\* EdgeNode.
SPECIFICATION EchoSpec
CONSTANTS
    s1 = s1
    s2 = s2
    s3 = s3
    a1 = a1
    a2 = a2
    Sessions = {s1, s2, s3}
    Own = {s1, s2}
    Casts <- MCCasts
    Addr = {a1, a2}
    None = None
    Home = a1
    Attempts = 3
    MaxTyped = 2
    MaxPending = 1
INVARIANTS RegistryInv InStep
PROPERTIES ActivationDecided CommandEnds
