CONSTANTS
  Job = {j1}
  Calib = {c1}
  NoUser = NoUser
  MaxPlates = 2
  MaxTicks = 1
SPECIFICATION FairSpec
INVARIANTS TypeOK OneOutcome WorkerIsHonest
PROPERTIES RegistryDrains ImplementsLifecycle
CHECK_DEADLOCK FALSE
