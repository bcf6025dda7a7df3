SPECIFICATION TelemetrySpec
CONSTANTS
  w1 = w1
  w2 = w2
  Workload = {w1, w2}
  MaxLevel = 2
  Epsilon = 1
  AtStart <- BothRun
  MaxQueueSize = 2
  FlushSize = 1
  Sessions <- Held
  MaxChanges = 1
  MaxFaults = 1
INVARIANTS
  ViewIsCurrent
  ReportsKeepOrder
  PendingIsOpen
PROPERTY EverythingSettles
CHECK_DEADLOCK FALSE
