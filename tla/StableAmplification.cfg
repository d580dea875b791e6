CONSTANTS
    Day = 2
    Precision = 3
    MinAmp = 1
    MaxAmp = 6
    MaxDailyRate = 2
    Horizon = 9
SPECIFICATION Spec
INVARIANTS TypeOK AmpWithinLimits DailyFactorBounded
PROPERTIES NoJump EveryUpdateEnds IsRamp
\* The clock ends at Horizon.
CHECK_DEADLOCK FALSE
