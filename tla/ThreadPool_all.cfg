SPECIFICATION FairSpec
CONSTANTS
  Workers = {w1, w2, w3}
  Callers = {c1, c2}
  Owner = c1
  Tasks = {t1, t2, t3, t4}
  Endless = {t1}
  TasksMax = 2
  None = None
INVARIANTS TypeOK TasksAccountedFor NoLostWakeup ShutdownDrains
PROPERTIES KeepsLifecycle AcceptedTasksRun DestructorReturns
\* the pool is destroyed and its threads have returned: nothing is left to do
CHECK_DEADLOCK FALSE
