\* The decisions of the API against the gate, with a fault and a replay.
CONSTANTS
  Accounts = {a1, a2}
  Admin = a1
  SchemaIds = {standing}
  None = None
  NoSchema = NoSchema
  AttestationIds = {t1, t2}
  t1 = t1
  t2 = t2
  Values = {0, 1}
  Terms = {1}
  NoAttestation = NoAttestation
  Shared = Shared
  MaxEpoch = 1
  Gates = {g1}
  WorldGates = {}
  NoGate = NoGate
  Thresholds = {1, 2}
  TollAmounts = {1}
  InitialWallet <- MCInitialWallet
  ProfileIds = {p1}
  NoProfile = NoProfile
  MaxLog = 4
  MaxFaults = 1
  MaxRewinds = 1
SYMMETRY MCAttestations
VIEW MCView
SPECIFICATION TrustSpec
INVARIANT CaughtUpDecisionIsTheGates
INVARIANT AllowedNeedsAttestation
INVARIANT RevocationReachesDecisions
