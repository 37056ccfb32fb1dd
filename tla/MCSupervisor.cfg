SPECIFICATION Spec
CONSTANTS
  a = a
  b = b
  Node <- Two
  Deps <- ChainDeps
  Configured <- AB
  Daemon <- AllTrue
  StartTimed <- AllTrue
  Heartbeat <- AllFalse
  FailureAction <- RestartSkip
  SpawnOutcomes = {"ok"}
  Suppresses = TRUE
  Forks = {}
  Ops = {"stop", "start", "restart", "delete", "start_new", "quit", "reload", "save"}
  MaxLaunch <- TwiceOnce
INVARIANTS RootIsTracked StoppedStaysStopped
PROPERTY NoLaunchWhileExiting
