SPECIFICATION Spec
CONSTANTS
  Kinds = {"ready", "tick"}
  Flushers = {"f"}
  Parts = 2
  Capacity = 3
  Limit = 1
  MaxCalls = 2
  MaxConns = 2
  MaxDrops = 1
INVARIANTS SlotsTrackCalls FlushMeansWritten HandledWhole ClosedIsClean
PROPERTIES CloseReturns EventIsWritten BacklogIsHandled
CHECK_DEADLOCK FALSE
