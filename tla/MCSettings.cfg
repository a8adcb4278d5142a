SPECIFICATION Spec
CONSTANTS
    p = p
    q = q
    secret = secret
    tabA = tabA
    tabB = tabB
    Providers <- MCProviders
    Tokens <- MCTokens
    Blank = Blank
    Absent = Absent
    Tabs <- MCTabs
    NoForm = NoForm
    Envs <- MCEnvs
    MaxProviders = 2
SYMMETRY MCSymmetric
INVARIANTS
    TypeOK
    SavedInForce
    PairAgrees
