\* The scene: its edits, their history and what outlives them
SPECIFICATION Spec
CONSTANTS
  Instances = {"ams", "single"}
  Unbound = "none"
  Rotation <- MCRotation
  AllSlots <- MCAllSlots
  ObjectKeys = {"obj"}
  RegionKeys = {"reg"}
  Workloads <- MCWorkloads
  Starts <- MCStarts
  Documents <- MCDocuments
  Geometries <- MCGeometries
  Cuts <- MCCuts
  MaxPlates = 2
  MaxDepth = 3
  Materials = {1, 2}
  Kinds = {"cube"}
  FirstFresh = 10
INVARIANTS ReferencesHold BindingsHold HistoryOK RestoreIsWhole
PROPERTIES CutTakesItsSources
CHECK_DEADLOCK FALSE
