SPECIFICATION Spec
CONSTANTS
    Toolheads = 1
    MaxToolheads = 2
    KlipperStates = {"standby", "printing"}
    Filaments <- MCFilaments
    Changes = 5
    Workers = 3
    LinkChanges = 1
    Frames = 1
    Attempts = 2
    Others = 2
    PerUnit = 2
    MaxUnits = 2
    MaxTools = 2
    Fragments <- MCFragments
    Customs <- MCCustoms
    Generic <- MCGeneric
    Tagged = {"basic"}
    Default = "pla"
    Colors = {"blue"}
    None = None
    Omit = Omit
    Ids = {"p1"}
    Conns = {"hostA", "hostB"}
    AmsUnits <- MCAmsUnits
    AmsMax = 2
    Counts = {1, 3}
    MaxDrivers = 3
    Budget = 2
    FirstConns = {"absent", "hostB"}
INVARIANTS TokenIsApproved SlotsAreTrue RegistryIsTrue
PROPERTIES SessionFollows CameraIsServed ConnectionsConverge LoadoutArrives
CHECK_DEADLOCK FALSE
