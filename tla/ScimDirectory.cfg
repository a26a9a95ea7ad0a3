SPECIFICATION FairSpec
CONSTANTS
    u1 = u1
    u2 = u2
    u3 = u3
    u4 = u4
    u5 = u5
    g1 = g1
    g2 = g2
    g3 = g3
    g4 = g4
    s1 = s1
    A = A
    B = B
    UserIds = {u1, u2, u3, u4, u5}
    GroupIds = {g1, g2, g3, g4}
    Subjects = {s1}
    NoSubject = NoSubject
    Names <- Spellings
    Fold <- Lower
    Assignments = {A, B}
    NoAssignment = NoAssignment
    None = None
    Clients = {"c1", "c2"}
    NoClient = "none"
    Backends = {"json", "database"}
    Initial <- Stores
    Requests <- Lists
    MaxRequests = 2
    MaxFaults = 1
INVARIANTS DirectoryInv IdentityIsUnambiguous BulkAnswers
PROPERTIES SessionsFollowTheDirectory NoLostUpdates RequestsEnd
CHECK_DEADLOCK FALSE
