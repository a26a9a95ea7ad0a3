SPECIFICATION FairSpec
CONSTANTS
  Jobs <- MCJobs
  NoWindow = "none"
  Absent = Absent
  Garbage = "garbage"
  Workers = 2
  MaxRows = 2
  MaxCrashes = 2
  MaxFaults = 1
INVARIANTS MergeIsSound OutputIsExact
PROPERTY MergeCompletes
