SPECIFICATION Spec
CONSTANTS
  Backends = {"cgroup", "process_group"}
  ReadFails = TRUE
  Timeout = 2
  MaxProc = 3
  MaxTime = 3
INVARIANTS ReleasedMeansGone GracePeriod
PROPERTY StopTerminates
