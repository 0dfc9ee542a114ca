CONSTANTS
  Cells <- MCCells
  Limit <- MCLimit
  Detections <- MCDetections
  Confs <- MCConfs
  Kinds <- MCKinds
  BoxNum = 2
  CountInfer = TRUE
SPECIFICATION FairSpec
CHECK_DEADLOCK FALSE
INVARIANTS TypeOK PlacesTheBest ServedInOrder LeftOutOnlyWhenTaken
PROPERTIES KeepsLabelling DecisionEnds
