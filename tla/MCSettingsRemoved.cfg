SPECIFICATION Spec
CONSTANTS
    p = p
    q = q
    secret = secret
    tabA = tabA
    tabB = tabB
    Providers <- MCProviders
    Tokens <- MCTokens
    Blank = Blank
    Absent = Absent
    Tabs <- MCOneTab
    NoForm = NoForm
    Envs <- MCBareEnv
    MaxProviders = 2
INVARIANT
    SavedUpstreamsInForce
