SPECIFICATION Spec
CONSTANTS
    EventTTL = 2
    GapTolerance = 1
    Ages = {3, 4}
    MaxClock = 7
    MaxRows = 3
INVARIANTS AnswerExact CoverageHonest
CHECK_DEADLOCK FALSE
