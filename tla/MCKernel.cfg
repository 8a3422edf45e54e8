CONSTANTS
  c0 = c0
  p1 = p1
  Cpu = {c0, c1}
  Proc = {p1, p2}
  NoCpu = NoCpu
SPECIFICATION MCSpec
INVARIANTS
  SpinInv
  SleepRight
  SyscallRight
  MemoryRight
  FilesRight
  ConsoleInv
  KeyboardRight
  ScreenRight
  HeapRight
  StringsRight
  ParsesGrammar
  MatchesMeaning
PROPERTIES
  ImplementsLineInput
