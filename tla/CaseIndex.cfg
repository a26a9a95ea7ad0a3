SPECIFICATION Spec
CONSTANTS
    c1 = c1
    c2 = c2
    k1 = k1
    k2 = k2
    p1 = p1
    p2 = p2
    o1 = o1
    Cases = {c1, c2}
    Orgs = {o1}
    Statuses = {"new", "triage"}
    Callers = {k1, k2}
    Procs = {p1, p2}
    ProcOf <- TwoProcesses
    OrgOf <- OneOrg
    Requests <- AllRequests
    NoCase = NoCase
    NoRow = NoRow
    NoCaller = NoCaller
    Absent = Absent
    NoDamage = NoDamage
    Damages = {d1, d2}
    Faults = {"lock", "fs", "io", "crash"}
    MaxTime = 1
SYMMETRY Symmetry
INVARIANTS IndexInv DamageIsKept
PROPERTIES ImplementsRegistry FilesGoFirst PruneKeepsNewest
