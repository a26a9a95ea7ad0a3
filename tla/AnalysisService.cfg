SPECIFICATION Spec
CONSTANTS
    r1 = r1
    r2 = r2
    Requests = {r1, r2}
    NoReq = NoReq
    Workloads <- TheWorkloads
    MaxFaults = 2
    Rules <- TheRules
    CorrelationRules <- TheCorrelations
    Templates <- TheTemplates
    SubTechniques <- SubsOf
    MethodTechniques <- Methods
    ShortName <- Short
    RemoteWindow = 2
    RemoteSkew = 1
    Lookback = 2
    EpisodeGap = 1
    ParentWindow = 1
    ActivityWindow = 2
    ChunkSize = 2
    ParallelAbove = 2
    MaxEvents = 0
INVARIANTS FindingsAreSequential ChainsAreComplete ScenariosStayInScope EvidenceIsKept 
CHECK_DEADLOCK FALSE
