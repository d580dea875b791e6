\* A thousand units to the one; amounts of a tenth to a third of a balance.
CONSTANTS
    Wad = 1000
    PowError = 1
    Thrown = Thrown
    MaxBalance = 600
    AbsoluteMinBalance = 5
    MinimumWrap = 2
    MaxShiftDuration = 3
    MinimumTrade = 2
    MaxUint = 2000000000
    Pools <- EveryPool
    SwapAmounts = {3, 20, 60}
    TokenAmounts = {7, 90}
    ShareAmounts = {11, 100}
    MinimumSupply = 50
    MaxSteps = 2
    Horizon = 3
SPECIFICATION Spec
INVARIANTS NoFreeLunch MaxSwapAccepted VirtualBalancesPositive BooksKept
PROPERTIES SharesNeverDiluted LiquidityNeverFeedsSurge
CHECK_DEADLOCK FALSE
