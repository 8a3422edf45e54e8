CONSTANTS
  NPROC = 2
  CPU = {c0}
  BootCpu = c0
  NoCpu = NoCpu
  Calls = {"fork", "kill"}
  MaxPid = 2
  MaxSleep = 0
SPECIFICATION Spec
PROPERTIES
  BornAlive
