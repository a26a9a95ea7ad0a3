SPECIFICATION Spec
CONSTANTS
    f1 = f1
    f2 = f2
    r1 = r1
    r2 = r2
    Files = {f1, f2}
    Reqs = {r1, r2}
    NoReq = NoReq
    NoFile = NoFile
    NoReplica = NoReplica
    Requests = {"replicate", "archive", "restore", "overwrite", "delete", "forget", "delete_case"}
    Faults = {"s3", "fs", "index", "restart", "key"}
    MaxClock = 1
SYMMETRY Symmetry
INVARIANTS ArchiveInv
PROPERTIES KeepsACopy SuccessIsTrue
