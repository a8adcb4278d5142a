SPECIFICATION Spec
CONSTANTS
    pGpt = pGpt
    pAny = pAny
    gpt = gpt
    gptPattern = gptPattern
    star = star
    c1 = c1
    c2 = c2
    NoProvider = NoProvider
    NoModel = NoModel
    NoClient = NoClient
    Wildcard <- star
    Providers <- MCProviders
    Models <- MCModels
    Patterns <- MCPatterns
    PatternsOf <- MCPatternsOf
    Fits <- MCFits
    Calls <- MCOneCall
    UpstreamCodes = {200, 429}
    Configs <- MCConfigs
    Fallbacks <- MCFallbacks
    PoolSize = 1
    MaxLines = 1
    MaxCrashes = 1
INVARIANT
    RecordingNeverBreaksCall
