SPECIFICATION Spec
CONSTANTS
  a = a
  b = b
  c = c
  d = d
  Node <- MCNode
  Deps <- MCDeps
INVARIANTS NoLostWakeup WaitsForPossible
PROPERTIES StartsAfterDependencies 
