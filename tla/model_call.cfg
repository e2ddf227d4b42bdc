SPECIFICATION FairSpec
CONSTANTS
    Configs <- SomeConfigs
    DefaultRates <- ListPrices
    PricingFiles <- Files
    LowerCase <- LowerSegments
    Models <- SomeModels
    Snapshots <- SomeSnapshots
    Words <- SomeWords
    Roles = {"user", "assistant"}
    Bodies <- SomeBodies
    MaxOutput = 2
    PromptSizes = {1, 3}
    MaxCalls = 1
CHECK_DEADLOCK FALSE
INVARIANTS
    PromptPreserved
    MeteredAsServed
    LongestPrefixPrice
PROPERTIES
    CallsEnd
