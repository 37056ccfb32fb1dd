SPECIFICATION Spec
CONSTANTS
  a = a
  b = b
  Node <- One
  Deps <- ChainDeps
  Configured <- JustA
  Daemon <- AllTrue
  StartTimed <- AllTrue
  Heartbeat <- AllFalse
  FailureAction <- AllSkip
  SpawnOutcomes = {"ok"}
  Suppresses = FALSE
  Forks = {a}
  Ops = {"delete"}
  MaxLaunch <- Once
PROPERTY DeleteCompletes
