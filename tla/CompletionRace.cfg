SPECIFICATION Spec
CONSTANTS
  assigned = assigned
  reassigned = reassigned
  completed = completed
  nobody = nobody
  t1 = t1
  t2 = t2
  u1 = u1
  Event = {assigned, completed}
  Task = {t1, t2}
  User = {u1}
  Replica = {r1, r2}
  Kind <- MCKind
  TaskOf <- MCTaskOf
  Recipients <- MCRecipients
  MaxDeliver = 3
  MaxFaults = 0
INVARIANTS
  CompletedTaskIsQuiet
