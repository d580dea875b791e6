CONSTANTS
    Nobody = Nobody
    Ask = Ask
    Rejects = Rejects
    Broken = Broken
    NoData = NoData
    Requests <- AllRequests
    Installed <- StartingPools
    PoolTypes <- Offered
    Langs = {"ts", "rs"}
    Variants = {v1, v2}
    Template <- Answers
    Behaviours <- OffByOne
    Examples <- TemplateOnly
    Listings <- TheListings
    OnChain <- TheChain
    Initials <- OneCapital
    MaxCommands = 2
    MaxEdits = 2
    Edited <- StableOnly
SPECIFICATION LiveSpec
INVARIANTS RegisteredHasFiles KeysUnique CurrentCheckDecides
PROPERTIES NothingOverwritten PassedLiveAgrees
CHECK_DEADLOCK FALSE
SYMMETRY AnyOrder
