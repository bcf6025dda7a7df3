SPECIFICATION Spec
CONSTANTS
  NumCerts = 2
  MaxStatusAge = 1
  Fallback = 2
  Timeout = 1
  Latency = 2
  MaxChanges = 1
  MaxFaults = 1
INVARIANTS
  DecisionsAreFresh
  CutOffHolds
CHECK_DEADLOCK FALSE
PROPERTY RightsReturn
