SPECIFICATION Spec
CONSTANTS
  Presses = 2
  MaxDrops = 0
INVARIANT SuccessScreenIsTrue
CHECK_DEADLOCK FALSE
