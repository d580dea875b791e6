CONSTANTS
    Nobody = Nobody
    Ask = Ask
    Rejects = Rejects
    Broken = Broken
    NoData = NoData
    Requests <- Deployable
    Installed <- Deployable
    PoolTypes <- Offered
    Langs = {"ts", "rs"}
    Variants = {v1, v2}
    Template <- Answers
    Behaviours <- OffByOne
    Examples = {}
    Listings <- ReClammListings
    OnChain <- ReClammChain
    Initials <- OneCapital
    MaxCommands = 1
    MaxEdits = 0
    Edited <- StableOnly
SPECIFICATION LiveSpec
PROPERTY EveryLiveFactoryAgrees
CHECK_DEADLOCK FALSE
