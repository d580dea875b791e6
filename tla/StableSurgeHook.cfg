CONSTANTS
    TokenCounts = {2, 3}
    One = 6
    StaticFees = {1, 3}
    DefaultMaxSurgeFee = 5
    DefaultThresholdPercentage = 2
    MaxBalance = 4
    MaxShares = 4
SPECIFICATION Spec
INVARIANTS TypeOK ImbalanceIsLeastDeviation FeeBetweenStaticAndMax FeeFollowsImbalance
PROPERTIES LiquidityNeverFeedsSurge
