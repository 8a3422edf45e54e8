CONSTANTS
  MAX_UTHREADS = 2
  Priority = {0, 5}
SPECIFICATION Spec
INVARIANTS
  HighestRight
CHECK_DEADLOCK FALSE
