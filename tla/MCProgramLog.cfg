SPECIFICATION Spec
CONSTANTS
  Streams = {0, 1}
  Archives = 3
  MaxSize = 1
  MaxText = 2
  MaxBytes = 6
  MaxMishaps = 2
  MaxEnds = 1
INVARIANTS HealthIsTruthful NothingLostSilently FilesKeepTheNewest
CHECK_DEADLOCK FALSE
