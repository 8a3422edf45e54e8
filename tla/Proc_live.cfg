CONSTANTS
  NPROC = 3
  CPU = {c0}
  BootCpu = c0
  NoCpu = NoCpu
  Calls = {"fork", "wait", "kill"}
  MaxPid = 3
  MaxSleep = 0
SPECIFICATION FairSpec
PROPERTIES
  RunnableRuns
  OrphanReaped
  KilledExits
