CONSTANTS
  Copies = {1, 2, 3, 4}
  Workers = 2
  TasksMax = 2
SPECIFICATION FairSpec
CHECK_DEADLOCK FALSE
INVARIANTS TypeOK OneCopy ReportedWasSeen 
PROPERTIES ShutdownLeaves
