CONSTANTS
  NPROC = 2
  CPU = {c0, c1}
  BootCpu = c0
  NoCpu = NoCpu
  Calls = {"fork", "kill", "sleep"}
  MaxPid = 2
  MaxSleep = 1
SPECIFICATION Spec
INVARIANTS
  KillWakesSleeper
