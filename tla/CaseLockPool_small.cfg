SPECIFICATION Spec
CONSTANTS
    a1 = a1
    s1 = s1
    s2 = s2
    s3 = s3
    g1 = g1
    c1 = c1
    c2 = c2
    Requests = {a1, s1, s2, s3, g1}
    Locked = {s1, s2, s3}
    Reanalyses = {a1}
    Cases = {c1, c2}
    CaseOf <- Targets
    NoOne = NoOne
    Threads = 2
INVARIANTS NobodyIsStuck
CHECK_DEADLOCK FALSE
