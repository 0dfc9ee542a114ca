SPECIFICATION FairSpec
CONSTANTS
  Workers = {w1, w2, w3}
  Callers = {c1, c2}
  Owner = c1
  Tasks = {t1, t2, t3, t4}
  Endless = {t1}
  TasksMax = 2
  None = None
PROPERTIES OldestIsDiscarded
CHECK_DEADLOCK FALSE
