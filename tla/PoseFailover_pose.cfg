CONSTANTS
  MaxQueue = 2
  CountMod = 3
  MaxEvents = 2
SPECIFICATION FairSpec
CHECK_DEADLOCK FALSE
INVARIANTS TypeOK
PROPERTIES RestartIsServed CalibrationReachesPose ThreadsEnd
