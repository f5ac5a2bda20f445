CONSTANTS
  Job = {j1}
  Calib = {}
  NoUser = NoUser
  MaxPlates = 1
  MaxTicks = 1
  MaxReloads = 1
SPECIFICATION UiFairSpec
PROPERTIES PageRecovers
CHECK_DEADLOCK FALSE
