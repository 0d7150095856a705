SPECIFICATION FairSpec
CONSTANTS
  j1 = j1
  p1 = p1
  p2 = p2
  Nobody = nobody
  Job <- OneJob
  Replica <- OneReplica
  Catalogs <- RollingDeployment
  MaxConcurrentJobs = 2
  MaxAttempts = 2
  FinalizeTries = 2
  RunsPerJob = 1
  MaxManual = 1
  MaxFaults = 2
  MaxStalls = 0
PROPERTIES
  RunsEnd
  DueJobsAreClaimed
