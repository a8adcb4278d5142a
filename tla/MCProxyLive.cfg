SPECIFICATION FairSpec
CONSTANTS
    pGpt = pGpt
    pAny = pAny
    gpt = gpt
    gptPattern = gptPattern
    star = star
    c1 = c1
    c2 = c2
    NoProvider = NoProvider
    NoModel = NoModel
    NoClient = NoClient
    Wildcard <- star
    Providers <- MCProviders
    Models <- MCModels
    Patterns <- MCPatterns
    PatternsOf <- MCPatternsOf
    Fits <- MCFits
    Calls <- MCCalls
    UpstreamCodes = {200}
    Configs <- MCLiveConfigs
    Fallbacks <- MCLiveFallbacks
    PoolSize = 1
    MaxLines = 2
    MaxCrashes = 0
INVARIANT
    CaptureFaithful
PROPERTIES
    CallsSettle
    LeftCallsSettle
