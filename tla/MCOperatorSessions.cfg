SPECIFICATION SessionSpec
CONSTANTS
    alice = alice
    bob = bob
    Accounts <- MCAccounts
    NoAccount = NoAccount
    MaxAttempts = 3
    MaxCopies = 2
    MaxDisturbances = 3
SYMMETRY Symmetry
INVARIANTS
    TokenIsTheSessions
    SessionIsTheAccounts
    OneSessionPerNonce
CHECK_DEADLOCK FALSE
