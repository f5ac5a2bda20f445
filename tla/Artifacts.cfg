SPECIFICATION Spec
CONSTANTS
    SourceLines <- MCLines
    Preambles <- MCPreambles
    Room = 3
    Plugins = {1, 2}
    Texts <- MCTexts
    Edits = 2
    Switches = 1
    Manifests <- MCManifests
    Documents <- MCDocuments
    Stanzas <- MCStanzas
    Settings <- MCSettings
    Instances <- MCInstances
    Options <- MCOptions
    MaxItems = 3
    Grids = {1, 3}
    Jobs <- MCJobs
    Dialects = {"bambu", "orca", "cura"}
    Slots <- MCSlots
    Facets = {f}
    Trees <- MCTrees
    MaxTriangles = 2
    MaxPaintUndo = 2
    MaxCalls = 2
    PaintBudget = 4
INVARIANTS PreviewIsTrue PluginsAreContained FileIsRead OverridesAreFaithful BundleIsWhole PaintIsTrue
CHECK_DEADLOCK FALSE
