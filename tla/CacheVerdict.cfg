SPECIFICATION Spec
CONSTANTS
    kMinRefreshGap = 1
    kRequestTimeout = 1
    kRefreshInterval = 1
    kStaleLimit = 1
    AgeCap = 1
    Limit = 1
    kClientListMax = 1
    EntrySize <- SecondTooBig
    MaxIds = 2
    SellerOf <- TwoSellers
    MaxQuantity = 2
    SeqModulus = 2
INVARIANTS
    RefusalsAreRight
    AbsentMeansGone
    ShownIsThere
