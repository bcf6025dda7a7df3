SPECIFICATION FairSpec
CONSTANTS
  NSock = 2
  MaxRegs = 2
  MaxGrants = 1
  MaxCrashes = 1
  Adversity = {}
PROPERTY GrantCollected
CHECK_DEADLOCK FALSE
