\* One gate and one attestation over two epochs.
CONSTANTS
  a1 = a1
  a2 = a2
  Accounts = {a1, a2}
  Admin = a1
  SchemaIds = {standing}
  None = None
  NoSchema = NoSchema
  AttestationIds = {t1}
  Values = {1, 2}
  Terms = {1}
  NoAttestation = NoAttestation
  Shared = Shared
  MaxEpoch = 1
  Gates = {g1}
  WorldGates = {w1}
  NoGate = NoGate
  Thresholds = {0, 2}
  TollAmounts = {1}
  InitialWallet <- MCInitialWallet
SPECIFICATION Spec
INVARIANT AttestationsHaveAuthority
PROPERTY PassageRestsOnOwnStanding
PROPERTY TollsReachTheOwner
