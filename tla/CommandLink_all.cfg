SPECIFICATION FairSpec
CONSTANTS
  Commands = {"send_path", "restart_lidar", "send_param", "global_check_off", "side_cam"}
  Devices = {"side_cam"}
  Modes = {1, 2, 3}
  SubQueue = 1
  AnswerQueue = 1
  LinkMax = 1
  MaxCommands = 2
  MaxRestarts = 1
  None = None
INVARIANTS TypeOK AppliedOnce NextValueIsNew
PROPERTIES AnsweredMeansApplied AnsweredValueIsSpent DeliveredWhenAnswered CommandsEnd
\* every command has ended and the bound is reached: nothing is left to do
CHECK_DEADLOCK FALSE
