\* Two jobs and a calibration at the engine, or two jobs of a page
SPECIFICATION MCSpec
CONSTANTS
  Job = {j1, j2}
  Calib = {c1}
  NoUser = NoUser
  MaxPlates = 1
  MaxTicks = 0
  MaxReloads = 0
SYMMETRY Symmetry
INVARIANTS EngineIsOwned PanelIsTrue
CHECK_DEADLOCK FALSE
