SPECIFICATION FairSpec
CONSTANTS
  r1 = r1
  r2 = r2
  p1 = p1
  p2 = p2
  s1 = s1
  s2 = s2
  s3 = s3
  accrual = accrual
  balances = balances
  custom = custom
  Run = {r1, r2}
  Process = {p1, p2}
  ProcessOf <- TwoProcesses
  Session = {s1, s2, s3}
  SessionsOf <- TwoPools
  NoSession = NoSession
  NumTenants = 2
  Step = {accrual, balances, custom}
  StepsOf <- MCStepsOf
  DependsOn <- MCDependsOn
  Sequence <- MCSequence
  Mandatory <- Catalog
  StopOnFail <- Catalog
  Retryable <- Catalog
  LastDate = 1
  MaxFaults = 2
INVARIANTS
  ExclusiveRun
  NoRepeatUnderDependent
  SucceededDatesAreLeft
PROPERTIES
  DayIsClosed
  ClosesBusinessDays
