CONSTANTS
  Proc = {p1, p2}
  Name = {"a", "b"}
  NInode = 4
  Trees <- MCTrees
  Paths <- MCPaths
  Ops = {"chdir", "unlink", "exit"}
  MaxCalls = 3
SPECIFICATION Spec
INVARIANTS
  TransOwned
