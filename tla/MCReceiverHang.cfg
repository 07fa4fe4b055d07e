SPECIFICATION FairSpec
CONSTANTS
    Sources = {"rtl"}
    WindowUnits = 2
    GapUnits = 1
    BufferUnits = 3
    MinUnits = 2
    STALL = 2
    RTL_MAX_RESTART = 3
    Maxloop = 0
    MaxAge = 3
    MaxRaces = 1
    MaxSpurious = 0
PROPERTY ShutdownCompletes
