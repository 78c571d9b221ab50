SPECIFICATION FairSpec
CONSTANTS
    Streams = {s1}
    GapTolerance = 0
    SleepLength = 2
    MaxClock = 1
    MaxRows = 2
    MaxInFlight = 2
    MaxFaults = 1
    MaxRejects = 1
    MaxClears = 1
PROPERTIES SessionOpens ShutdownReturns
