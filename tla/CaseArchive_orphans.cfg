SPECIFICATION FairSpec
CONSTANTS
    f1 = f1
    f2 = f2
    r1 = r1
    r2 = r2
    Files = {f1, f2}
    Reqs = {r1, r2}
    NoReq = NoReq
    NoFile = NoFile
    NoReplica = NoReplica
    Requests = {"replicate", "verify", "archive", "restore", "overwrite", "delete", "delete_case", "delete_row"}
    Faults = {"fs", "index"}
    MaxClock = 0
INVARIANTS NoOrphans
PROPERTIES LockIsReleased
