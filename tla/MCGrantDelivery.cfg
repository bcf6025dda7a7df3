SPECIFICATION Spec
CONSTANTS
  NSock = 2
  MaxRegs = 1
  MaxGrants = 1
  MaxCrashes = 1
  Adversity = {"midauth", "lateclose", "dbfail", "deny"}
INVARIANT ClosedIsForgotten
INVARIANT CertificatesAreApproved
PROPERTY ExchangeNotRestarted
CHECK_DEADLOCK FALSE
