\* Two contenders probe the same dead owner.
SPECIFICATION Spec
CONSTANTS
    s1 = s1
    s2 = s2
    s3 = s3
    a1 = a1
    o1 = o1
    o2 = o2
    o3 = o3
    o4 = o4
    Sessions = {s1, s2, s3}
    Addr = {a1}
    Objects = {o1, o2, o3, o4}
    None = None
    MaxSessions = 2
    Requests = {"session", "security", "reset"}
SYMMETRY Symmetry
INVARIANT OneSocketPerTester
