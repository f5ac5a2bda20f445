\* The project document, saved, autosaved, crashed and recovered
SPECIFICATION MCSpec
CONSTANTS
  Uuid = {A, B}
  None = None
  Torn = Torn
  AsyncEdits = TRUE
  MaxEdits = 2
  MaxTroubles = 2
  TowerPlates = {1, 2}
  BedSize <- MCBeds
  Configs <- MCConfigs
  Spots = {1, 3}
  InFlight = 1
  EditsLeft = 2
  Layouts <- MCLayouts
  Corners <- MCCorners
  Answers <- MCAnswers
  Clouds <- MCClouds
  Bed = 3
  MaxSegments = 6
SYMMETRY Symmetry
INVARIANTS EditsAreKept CrashCostsOnlyTheTorn TowerIsTrue PlacedIsSound
CHECK_DEADLOCK FALSE
