SPECIFICATION Spec
CONSTANTS
  a = a
  b = b
  Node <- Two
  Deps <- ChainDeps
  Configured <- AB
  Daemon <- OnlyA
  StartTimed <- AllTrue
  Heartbeat <- AllFalse
  FailureAction <- RestartReboot
  SpawnOutcomes = {"ok", "early"}
  Suppresses = TRUE
  Forks = {b}
  Ops = {"stop", "start", "restart", "quit", "reload"}
  MaxLaunch <- TwiceOnce
 
PROPERTIES QuitCompletes 
