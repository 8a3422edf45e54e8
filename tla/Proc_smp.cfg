CONSTANTS
  NPROC = 3
  CPU = {c0, c1}
  BootCpu = c0
  NoCpu = NoCpu
  Calls = {"fork", "exit", "wait", "sleep"}
  MaxPid = 3
  MaxSleep = 1
SPECIFICATION Spec
INVARIANTS
  OneCpuPerProc
  KstackSafe
  WaiterWoken
  FamilyRight
  TableInv
