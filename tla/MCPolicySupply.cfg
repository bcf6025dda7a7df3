SPECIFICATION Spec
CONSTANTS
  KindConfigs <- Stored
  Unusable <- MCUnusable
  Local <- OwnConfig
  MaxCerts = 1
  MaxEdits = 1
  MaxPushes = 2
  MaxDrops = 1
  MaxCrashes = 1
  MaxTicks = 1
  MaxFailures = 1
INVARIANTS
  LastPushInForce
  SupervisorPairWasOnDisk
  LaunchSeesFirstPush
PROPERTIES
  UnsignedNeverLoosens
  PolicyNeverDropped
CHECK_DEADLOCK FALSE
