SPECIFICATION Spec
CONSTANTS
    hero = hero
    mage = mage
    seller = seller
    WriterCount = 2
    Players = {1, 2}
    Characters <- MCCharacters
    AccountOf <- TwoHeroes
    InitGold <- TwoPurses
    Opening <- ThreeListings
    MaxListings = 3
    Counts = {0, 2}
    Prices = {1}
    MaxRequests = 2
    kMaxTxAttempts = 2
INVARIANTS
    TypeOK
    ReadsStayTrue
    StockConserved
    GoldNeverCreated
    FailureIsHarmless
    NoLockLeft
PROPERTY
    MarketSpec
CHECK_DEADLOCK FALSE
