SPECIFICATION FairSpec
CONSTANTS
    kMinRefreshGap = 1
    kRequestTimeout = 2
    kRefreshInterval = 3
    kStaleLimit = 4
    AgeCap = 5
    Limit = 1
    kClientListMax = 1
    EntrySize <- SecondTooBig
    MaxIds = 0
    SellerOf <- TwoSellers
    MaxQuantity = 1
    SeqModulus = 3
INVARIANTS
    LoopAlive
PROPERTIES
    GapKept
    OnlyItsOwn
    KeepsRefreshing
