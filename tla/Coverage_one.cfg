SPECIFICATION Spec
CONSTANTS
    Streams = {s1}
    GapTolerance = 1
    SleepLength = 3
    MaxClock = 5
    MaxRows = 3
    MaxInFlight = 1
    MaxFaults = 1
    MaxRejects = 1
    MaxClears = 0
INVARIANTS CoverageTrue
 
