SPECIFICATION Spec
CONSTANTS
  MaxDir = 3
INVARIANT OnlyEmptyRemoved
CHECK_DEADLOCK FALSE
