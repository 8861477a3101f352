CONSTANTS
    Accounts = {alice, bob}
    NoAccount = nobody
    Admin = carol
    HookNames = {"checkPassage", "createGate", "vouch"}
    Flows = {f1, f2}
    NoFlow = nothing
    Bundles <- MCBundles
    MaxGasVersion = 2
SPECIFICATION WalletSpec
INVARIANTS
    DoneIsOnChain
    SponsoredFlowsAreCounted
    HeldIsTheAccounts
SYMMETRY MCSymmetry
CHECK_DEADLOCK FALSE
