SPECIFICATION Spec
CONSTANTS
    cheap = cheap
    other = other
    NoModel = NoModel
    s1 = s1
    DefaultPrices <- MCDefaultPrices
    Contents <- MCContents
    Models <- MCModels
    Fits <- MCFits
    Short = Short
    NoNumber = NoNumber
    Mistyped = Mistyped
    Texts <- MCTexts
    Usages <- MCUsages
    NoUsage = NoUsage
    Streams <- MCStreams
    NoBlock = NoBlock
    Sessions <- MCSessions
    NoSession = NoSession
    MaxClock = 2
    MaxCalls = 2
INVARIANTS
    TypeOK
    CacheCurrent
    SessionTotals
    NoZeros
CHECK_DEADLOCK FALSE
