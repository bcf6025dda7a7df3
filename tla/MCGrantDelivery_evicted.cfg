SPECIFICATION FairSpec
CONSTANTS
  NSock = 2
  MaxRegs = 2
  MaxGrants = 1
  MaxCrashes = 0
  Adversity = {"lateclose"}
PROPERTY GrantCollected
CHECK_DEADLOCK FALSE
