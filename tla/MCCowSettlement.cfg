\* Two tokens, half of a donation for fees, two routers and two sweepers.
CONSTANTS
    NumTokens = 2
    FeeOne = 2
    Routers = {cow, other}
    ThisRouter = cow
    Sweepers = {s1, s2}
    MaxSwap = 1
    MaxDonation = 2
    MaxHint = 2
    LpParts = 2
    MaxPool = 2
    SolverFunds = 1
    PoolFunds = 2
SPECIFICATION Spec
SYMMETRY Symmetry
INVARIANTS TypeOK RouterSolvent FundedOrdersSettle
PROPERTIES OrderSettledExactly
