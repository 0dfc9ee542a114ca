SPECIFICATION Spec
CONSTANTS
  MaxSize = 2
  CountMod = 4
  MaxPush = 4
INVARIANTS ClearExcludesWriters
\* every element was pushed and popped
CHECK_DEADLOCK FALSE
