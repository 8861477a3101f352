CONSTANTS
    alice = alice
    Accounts = {alice, bob}
    NoAccount = nobody
    Policies = {p1, p2}
    Gates = {g1}
    Characters = {alice}
    FirstOwnership <- MCFirstOwnership
    MaxSwitches = 2
    Panels = {"preflight", "bind", "extend"}
    Configured = p1
    NoGate = nogate
    Attempts = 2
    MaxChanges = 1
SPECIFICATION Spec
INVARIANTS
    AuthorityIsTheAccounts
    TargetsAreOwn
PROPERTIES
    WaitEnds
CHECK_DEADLOCK FALSE
