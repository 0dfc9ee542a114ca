SPECIFICATION FairSpec
CONSTANTS
  MaxSize = 2
  CountMod = 4
  MaxPush = 3
INVARIANTS TypeOK InOrderUntilFull LatestIsFresh
PROPERTIES PushedIsPopped
\* every element was pushed and popped
CHECK_DEADLOCK FALSE
