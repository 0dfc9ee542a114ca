SPECIFICATION Spec
CONSTANTS
  Commands = {"restart_lidar"}
  Devices = {}
  Modes = {3}
  SubQueue = 2
  AnswerQueue = 2
  LinkMax = 1
  MaxCommands = 1
  MaxRestarts = 0
  None = None
PROPERTIES AnswersDoNotConflict
\* every command has ended and the bound is reached: nothing is left to do
CHECK_DEADLOCK FALSE
