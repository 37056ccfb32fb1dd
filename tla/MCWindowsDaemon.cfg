SPECIFICATION Spec
CONSTANTS
  a = a
  b = b
  Node <- One
  Deps <- ChainDeps
  Configured <- JustA
  Daemon <- AllTrue
  StartTimeout <- AllTimed
  Heartbeat <- AllTrue
  FailureAction <- AllRestart
  Ops = {"stop", "remove", "restart", "start", "create", "reload", "quit"}
  MaxLaunch = 2
  MaxPending = 1
INVARIANTS NothingCutShort AnswersAreTrue
PROPERTIES TerminationEnds
