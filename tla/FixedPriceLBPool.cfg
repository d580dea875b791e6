CONSTANTS
    Accounts = {alice, bob}
    NoOne = none
    InitializationPeriod = 1
    MinSupply = 1
    MaxFunds = 3
    Horizon = 3
    One = 2
    Rates = {1, 3}
    MaxTrade = 3
SPECIFICATION Spec
PROPERTIES SoldAtRate NoLiquidityChangeInSale ProceedsKeptUntilEnd
\* The clock ends at Horizon.
CHECK_DEADLOCK FALSE
