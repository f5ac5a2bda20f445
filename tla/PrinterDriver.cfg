SPECIFICATION MCSpec
CONSTANTS
    Kinds = {"bambu", "moonraker", "u1"}
    Purposes = {"live", "test"}
    Sends = {"s1", "s2"}
    Commands = {"pause", "cali"}
    ReqCap = 1
    RawCap = 1
    MaxDrops = 1
    Budget = 2
INVARIANTS SendIsExact DriverIsTrue
PROPERTIES PageSettles TeardownFinishes
CHECK_DEADLOCK FALSE
