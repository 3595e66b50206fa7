SPECIFICATION FairSpec
CONSTANTS
    hero = hero
    mage = mage
    seller = seller
    WriterCount = 2
    Players = {1, 2}
    Characters <- MCTraders
    AccountOf <- OneHero
    InitGold <- OnePurse
    Opening <- OneListing
    MaxListings = 2
    Counts = {1}
    Prices <- AnyPrices
    MaxRequests = 2
    kMaxTxAttempts = 2
INVARIANTS
    SuccessIsReal
    SameListingInOrder
PROPERTIES
    PurchasesAnswered
    TasksEnd
CHECK_DEADLOCK FALSE
