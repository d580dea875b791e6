CONSTANTS
    Accounts = {alice}
    NoOne = none
    InitializationPeriod = 1
    MinSupply = 1
    MaxFunds = 3
    Horizon = 4
    One = 4
    MinWeight = 1
    MinBalance = 1
    VirtualBalances = {0, 2}
    MaxTrade = 2
    MaxBalance = 4
SPECIFICATION Spec
INVARIANTS TypeOK WeightsStayValid
PROPERTIES CurveNeverFalls IsRamp
\* The clock ends at Horizon.
CHECK_DEADLOCK FALSE
