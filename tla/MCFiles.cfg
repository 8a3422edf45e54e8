CONSTANTS
  Proc = {p1, p2}
  v1 = v1
  Block = {b1, b2, b3}
  Val = {v1, v2}
  NoVal = NoVal
  NoBlock = NoBlock
  LogCap = 2
SPECIFICATION MCSpec
SYMMETRY Symmetry
INVARIANTS
  LogInv
  InodesRight
  
  ContentRight
  TransactionFits
  ImageRight
  ShellRight
PROPERTIES
  ImplementsAtomicDisk
