SPECIFICATION FairSpec
CONSTANTS
    hero = hero
    mage = mage
    seller = seller
    WriterCount = 2
    Players = {1, 2}
    Characters <- MCCharacters
    AccountOf <- TwoHeroes
    InitGold <- TwoPurses
    Opening <- OneListing
    MaxListings = 2
    Counts = {1}
    Prices = {1}
    MaxRequests = 2
    kMaxTxAttempts = 2
PROPERTY
    GoldMoves
CHECK_DEADLOCK FALSE
