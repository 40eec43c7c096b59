\* Two connections, two addresses and one place; ECUReset in place or with the
\* drop of the connection.
SPECIFICATION Spec
CONSTANTS
    s1 = s1
    s2 = s2
    a1 = a1
    a2 = a2
    o1 = o1
    o2 = o2
    o3 = o3
    Sessions = {s1, s2}
    Addr = {a1, a2}
    Objects = {o1, o2, o3}
    None = None
    MaxSessions = 1
    Requests = {"session", "security", "reset"}
SYMMETRY Symmetry
INVARIANTS RegistryInv S3Armed
PROPERTIES OnlyOwnerUnregisters 
