CONSTANTS
  MAX_UTHREADS = 3
  Priority = {0, 5, 9}
SPECIFICATION FairSpec
INVARIANTS
  NoFault
  UInv
PROPERTIES
  TopPriorityNext
  EligibleRuns
CHECK_DEADLOCK FALSE
