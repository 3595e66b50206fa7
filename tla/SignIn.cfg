SPECIFICATION Spec
CONSTANTS
    Users = {alice, bob}
    Tokens = {t1, t2, t3}
    MaxAccounts = 2
INVARIANTS
    IssuedTokensWork
