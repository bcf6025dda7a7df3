SPECIFICATION Spec
CONSTANTS
  Templates <- SomeTemplates
  Custom = {"x"}
  RuleSets <- SomeRuleSets
  Resources <- SomeResources
  NoResource = NoResource
  Floor <- SomeFloor
  Actions <- SomeActions
  Callers <- SomeCallers
  Nobody = Nobody
  Home = "w1"
  MaxStatusAge = 1
  FailClosed = TRUE
  MaxCerts = 2
  MaxEdits = 2
  MaxTime = 2
INVARIANTS AttributionIsSound FloorHolds HostWithinLedger
  SilenceWithdraws
PROPERTY AuthorityIsMonotone
CHECK_DEADLOCK FALSE
