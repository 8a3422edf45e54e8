CONSTANTS
  MAX_UTHREADS = 3
  Priority = {0, 5}
SPECIFICATION Spec
INVARIANTS
  SlotFound
CHECK_DEADLOCK FALSE
