SPECIFICATION FairSpec
CONSTANTS
  QueueSize = 1
  BatchSize = 2
  MaxBytes = 2
  MaxEvents = 4
  MaxCrashes = 1
  IoErrors = TRUE
INVARIANT Accounting
INVARIANT GapNeverOverstated
INVARIANT TrailInOrder
PROPERTY ReadableStays
PROPERTY CloseReturns
CHECK_DEADLOCK FALSE
