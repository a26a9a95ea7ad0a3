SPECIFICATION Spec
CONSTANTS
    f1 = f1
    f2 = f2
    r1 = r1
    Files = {f1, f2}
    Reqs = {r1}
    NoReq = NoReq
    NoFile = NoFile
    NoReplica = NoReplica
    Requests = {"replicate", "overwrite"}
    Faults = {"restart"}
    MaxClock = 1
SYMMETRY Symmetry
PROPERTIES OverwriteIsHonoured
