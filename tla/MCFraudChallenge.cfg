\* Oracles, council and fraud challenges; MIN_STAKE is 10 units and a slash of
\* 10% of it is 1, which makes the reward of 50% round down to 0.
CONSTANTS
  adm = adm
  a1 = a1
  a2 = a2
  Accounts = {adm, a1, a2}
  Admin = adm
  SchemaIds = {s1}
  Amounts = {5, 10}
  NoOracle = NoOracle
  MinStake = 10
  InitialWallet <- MCInitialWallet
  Challenges = {c1, c2}
  NoChallenge = NoChallenge
  DeletedChallenge = DeletedChallenge
  Window = 0
  SlashPct = 10
  RewardPct = 50
  MaxEpoch = 1
SYMMETRY MCSymmetry
SPECIFICATION Spec
INVARIANT CoinsConserved
INVARIANT StakeFigureMatchesBalance
INVARIANT CapabilityMatchesRegistry
INVARIANT StakeHeldUntilVerdict
PROPERTY SlashedOnlyByTheCouncil
PROPERTY NoVerdictWithoutVote
