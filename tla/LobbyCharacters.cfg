SPECIFICATION Spec
CONSTANTS
    Accounts = {alice, bob}
    MaxIds = 3
    PoolSize = 2
INVARIANTS
    TypeOK
    CharactersWhole
    AnswersAreTrue
    PooledConnsClean
PROPERTY
    OthersUntouched
