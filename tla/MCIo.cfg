CONSTANTS
  w = w
  r = r
  Reader = {r1}
  Writer = {w1, w2}
  Byte = {0, 1}
  PIPESIZE = 2
  Wrap = 4
  Writes <- MCWrites
  MaxCalls <- MCCalls
  None = None
SPECIFICATION MCSpec
INVARIANTS
  PipeInv
  OwnStack
PROPERTIES
  ImplementsStore
  SleeperWoken
  ImplementsFifo
  CallReturns
  BootFinishes
