\* A pool with a token of fewer decimals and a hook that looks at balances.
CONSTANTS
    Wad = 1000
    PowError = 1
    Thrown = Thrown
    MaxBalance = 600
    AbsoluteMinBalance = 5
    MinimumWrap = 2
    MaxShiftDuration = 3
    MinimumTrade = 2
    MaxUint = 2000000000
    Pools <- FewerDecimals
    SwapAmounts = {3, 20, 60}
    TokenAmounts = {7, 90}
    ShareAmounts = {11, 100}
    MinimumSupply = 50
    MaxSteps = 1
    Horizon = 3
SPECIFICATION Spec
INVARIANT AfterHookSeesSettled
CHECK_DEADLOCK FALSE
