CONSTANTS
  Keys <- MCKeys
  Constituents <- MCConstituents
  Schema <- MCSchema
  PluginKeys <- MCPluginKeys
  BedTempKeys <- MCBedTempKeys
  MaxTemp = 235
  Files <- MCFiles
  Starts <- MCStarts
  CustomFilament = "custom-1"
  CustomProcess = "custom-process-1"
  FilamentEdits <- MCFilamentEdits
  PlateEdits <- MCPlateEdits
  MachineEdits <- MCMachineEdits
  Colors = {"red"}
  Ks <- MCKs
  Budget = 2
SPECIFICATION Spec
INVARIANTS SettingIsAuthored EngineGetsItsOwn NothingUnsafePasses LibraryKeeps
