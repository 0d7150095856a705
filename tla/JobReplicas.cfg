SPECIFICATION Spec
CONSTANTS
  j1 = j1
  p1 = p1
  p2 = p2
  Nobody = nobody
  Job <- OneJob
  Replica <- TwoReplicas
  Catalogs <- RollingDeployment
  MaxConcurrentJobs = 1
  MaxAttempts = 2
  FinalizeTries = 2
  RunsPerJob = 2
  MaxManual = 1
  MaxFaults = 2
  MaxStalls = 1
SYMMETRY Symmetry
INVARIANTS
  OneRunningPerJob
  LastStatusIsLatest
  AlertsMatchLastStatus
  SingleExecution
  SlotsConserved
  DrainedIsQuiet
