SPECIFICATION Spec
CONSTANTS
    k1 = k1
    k2 = k2
    Wallets <- MCWallets
    Considered <- MCFeeds
    Known <- MCKnown
    NoKey = nokey
    MaxOpen = 2
    MaxReads = 2
    MaxChanges = 2
    MaxVersion = 3
    MaxWrites = 1
INVARIANTS
    ClearanceRestsOnOneRead
    NameIsOfTheIdentity
PROPERTIES
    ShownIsCurrent
    ShownNeverGoesBack
    FeedsCatchUp
CHECK_DEADLOCK FALSE
