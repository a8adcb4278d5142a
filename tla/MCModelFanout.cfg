SPECIFICATION Spec
CONSTANTS
    p = p
    q = q
    r = r
    shared = shared
    own = own
    m = m
    n = n
    Providers <- MCProviders
    Labels <- MCLabels
    LabelOf <- MCLabelOf
    Ids <- MCIds
    NoId = NoId
    Configs <- MCConfigs
    MaxItems = 2
INVARIANTS
    TypeOK
    MergeComplete
    OrderKept
