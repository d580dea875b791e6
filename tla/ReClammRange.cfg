CONSTANTS
    Edge = 3
    MinRatio = 2
    MaxRatio = 3
    MaxMargin = 1
    MaxShift = 2
    MaxDuration = 2
    Day = 2
    MaxDailyRate = 2
    MaxDrift = 1
    Horizon = 4
SPECIFICATION Spec
INVARIANTS TypeOK UpdateArrives
PROPERTIES ManagingMovesNothing   
\* The clock ends at Horizon.
CHECK_DEADLOCK FALSE
