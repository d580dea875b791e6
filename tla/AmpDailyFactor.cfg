\* Two days are enough for an update that doubles its first value twice over.
CONSTANTS
    Day = 2
    Precision = 3
    MinAmp = 1
    MaxAmp = 6
    MaxDailyRate = 2
    Horizon = 9
SPECIFICATION Spec
INVARIANT DailyFactorDocumented
CHECK_DEADLOCK FALSE
