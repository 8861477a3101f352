------------------------ MODULE FraudChallengeProofs ------------------------
(***************************************************************************)
(* Proofs about FraudChallenge and the OracleRegistry it drives, for any   *)
(* set of accounts, any stakes and percentages and any council.            *)
(*                                                                         *)
(* The ledger invariant comes first: that balances stay natural numbers    *)
(* (balance::split never runs short) depends on total_stake being the      *)
(* balance.  The tally invariant follows, then the two action properties.  *)
(***************************************************************************)
EXTENDS FraudChallenge, FiniteSums, TLAPS

\* Oracles are never removed, so a challenge always finds the one it is about.
ChallengedOracleRegistered ==
  \A c \in Challenges : Exists(c) => Registered(challenges[c].oracle)

LedgerInv == TypeOK /\ StakeFigureMatchesBalance /\ ChallengedOracleRegistered

-----------------------------------------------------------------------------
\* A percentage of an amount, rounded down, is at most the amount.
LEMMA PercentageBound ==
  ASSUME NEW x \in Nat, NEW p \in 0..100
  PROVE  (x * p) \div 100 \in Nat /\ (x * p) \div 100 <= x
<1>1. x * p \in Nat /\ x * p <= x * 100
  <2>1. x * p \in Nat
    OBVIOUS
  <2>2. x * (100 - p) >= 0
    OBVIOUS
  <2>3. x * (100 - p) = x * 100 - x * p
    OBVIOUS
  <2> QED BY <2>1, <2>2, <2>3
<1>2. ASSUME NEW y \in Nat, y <= x * 100
      PROVE  y \div 100 \in Nat /\ y \div 100 <= x
  BY <1>2
<1> QED BY <1>1, <1>2

\* A slash takes no more than the oracle has and splits into two amounts.
LEMMA SlashBounds ==
  ASSUME NEW info \in OracleInfo
  PROVE  LET slash == SlashAmount(info, SlashPct)
             reward == SlashReward(info, SlashPct, RewardPct)
         IN  /\ slash \in Nat /\ slash <= info.total
             /\ reward \in Nat /\ reward <= slash
<1>1. info.total \in Nat
  BY DEF OracleInfo
<1>2. SlashAmount(info, SlashPct) \in Nat /\ SlashAmount(info, SlashPct) <= info.total
  BY <1>1, PercentageBound, ChallengeConstants DEF SlashAmount
<1> QED
  BY <1>2, PercentageBound, ChallengeConstants DEF SlashReward

\* Slashing keeps an OracleInfo well formed and its two stake figures equal.
LEMMA SlashKeepsInfo ==
  ASSUME NEW info \in OracleInfo, info.total = info.staked
  PROVE  /\ SlashOracle(info, SlashPct) \in OracleInfo
         /\ SlashOracle(info, SlashPct).total = SlashOracle(info, SlashPct).staked
         /\ SlashOracle(info, SlashPct).schemas = info.schemas
         /\ SlashOracle(info, SlashPct).system = info.system
<1> DEFINE s == SlashAmount(info, SlashPct)
           r == (info.reputation * (100 - SlashPct)) \div 100
<1>1. s \in Nat /\ s <= info.total
  BY SlashBounds
<1>2. r \in Nat
  <2>1. info.reputation \in Nat /\ 100 - SlashPct \in 0..100
    BY ChallengeConstants DEF OracleInfo
  <2> QED BY <2>1, PercentageBound
<1>3. CASE s = 0
  BY <1>3 DEF SlashOracle
<1>4. CASE s # 0
  <2>1. SlashOracle(info, SlashPct) =
          [info EXCEPT !.staked = info.staked - s, !.total = info.total - s,
                       !.slashes = info.slashes + 1, !.reputation = r]
    BY <1>4 DEF SlashOracle, OracleInfo
  <2>2. /\ info.staked - s \in Nat /\ info.total - s \in Nat
        /\ info.slashes + 1 \in Nat
    BY <1>1 DEF OracleInfo
  <2> HIDE DEF s, r
  <2>3. SlashOracle(info, SlashPct) \in OracleInfo
    BY <1>2, <2>1, <2>2 DEF OracleInfo
  <2>4. /\ SlashOracle(info, SlashPct).total = info.total - s
        /\ SlashOracle(info, SlashPct).staked = info.staked - s
        /\ SlashOracle(info, SlashPct).schemas = info.schemas
        /\ SlashOracle(info, SlashPct).system = info.system
    BY <2>1 DEF OracleInfo
  <2> QED BY <2>3, <2>4
<1> QED BY <1>3, <1>4

\* A delegation keeps an OracleInfo well formed and raises both figures.
LEMMA DelegationKeepsInfo ==
  ASSUME NEW info \in OracleInfo, NEW x \in Nat
  PROVE  LET new == [info EXCEPT !.staked = info.staked + x,
                                 !.total = info.total + x]
         IN  /\ new \in OracleInfo
             /\ new.staked = info.staked + x /\ new.total = info.total + x
             /\ new.schemas = info.schemas /\ new.system = info.system
<1>1. info.staked + x \in Nat /\ info.total + x \in Nat
  BY DEF OracleInfo
<1> QED BY <1>1 DEF OracleInfo

\* Coins move between accounts without leaving the natural numbers.
LEMMA WalletMoves ==
  ASSUME NEW w \in [Accounts -> Nat], NEW a \in Accounts, NEW x \in Nat
  PROVE  /\ Receive(w, a, x) \in [Accounts -> Nat]
         /\ x <= w[a] => Pay(w, a, x) \in [Accounts -> Nat]
BY DEF Receive, Pay

-----------------------------------------------------------------------------
\* One registry operation.
LEMMA RegistryKeepsLedger ==
  ASSUME LedgerInv, RegistryNext, UNCHANGED <<epoch, challenges>>
  PROVE  LedgerInv'
<1> DEFINE RegistryLedger == /\ RegistryTypeOK'
                             /\ StakeFigureMatchesBalance'
                             /\ \A o \in Accounts : Registered(o) => Registered(o)'
<1> USE RegistryConstants, OracleSentinel
    DEF LedgerInv, TypeOK, RegistryTypeOK, StakeFigureMatchesBalance, Registered
<1>1. ASSUME NEW o \in Accounts, NEW schemas \in SUBSET SchemaIds,
             NEW stake \in Amounts, NEW system \in BOOLEAN,
             RegisterOracle(o, schemas, stake, system)
      PROVE  RegistryLedger
  <2>1. wallet' \in [Accounts -> Nat]
    BY <1>1, WalletMoves DEF RegisterOracle, Owns
  <2>2. oracles' \in [Accounts -> OracleInfo \cup {NoOracle}]
    BY <1>1 DEF RegisterOracle, OracleInfo
  <2>3. caps' \subseteq Capability
    BY <1>1 DEF RegisterOracle, Capability
  <2>4. StakeFigureMatchesBalance'
    BY <1>1 DEF RegisterOracle
  <2> QED BY <1>1, <2>1, <2>2, <2>3, <2>4 DEF RegisterOracle
<1>2. ASSUME NEW cap \in caps, NEW s \in SchemaIds, AddSchema(cap, s)
      PROVE  RegistryLedger
  <2> DEFINE o == cap.oracle
             new == [oracles[o] EXCEPT !.schemas = oracles[o].schemas \cup {s}]
  <2>1. cap \in Capability /\ o \in Accounts
    BY DEF Capability
  <2>2. oracles[o] \in OracleInfo
    BY <1>2, <2>1 DEF AddSchema
  <2>3. new \in OracleInfo /\ new.total = new.staked
    BY <1>2, <2>1, <2>2 DEF OracleInfo
  <2>4. oracles' = [oracles EXCEPT ![o] = new]
    BY <1>2 DEF AddSchema
  <2>5. caps' \subseteq Capability
    BY <1>2, <2>1, <2>2 DEF AddSchema, Reissue, Capability, OracleInfo
  <2>6. UNCHANGED <<wallet, council, councilSize>>
    BY <1>2 DEF AddSchema
  <2> HIDE DEF new
  <2>7. /\ oracles' \in [Accounts -> OracleInfo \cup {NoOracle}]
        /\ StakeFigureMatchesBalance'
        /\ \A a \in Accounts : Registered(a) => Registered(a)'
    BY <2>1, <2>3, <2>4
  <2> QED BY <2>5, <2>6, <2>7
<1>3. ASSUME NEW d \in Accounts, NEW o \in Accounts, NEW amount \in Amounts,
             Delegate(d, o, amount)
      PROVE  RegistryLedger
  <2> DEFINE new == [oracles[o] EXCEPT !.staked = oracles[o].staked + amount,
                                       !.total = oracles[o].total + amount]
  <2>1. wallet' \in [Accounts -> Nat]
    BY <1>3, WalletMoves DEF Delegate, Owns
  <2>2. /\ oracles[o] \in OracleInfo /\ amount \in Nat
        /\ oracles[o].total = oracles[o].staked
    BY <1>3 DEF Delegate
  <2>3. new \in OracleInfo /\ new.total = new.staked
    <3>1. /\ new \in OracleInfo
          /\ new.staked = oracles[o].staked + amount
          /\ new.total = oracles[o].total + amount
      BY <2>2, DelegationKeepsInfo
    <3> HIDE DEF new
    <3> QED BY <2>2, <3>1
  <2>4. oracles' = [oracles EXCEPT ![o] = new]
    BY <1>3 DEF Delegate
  <2>5. UNCHANGED <<caps, council, councilSize>>
    BY <1>3 DEF Delegate
  <2> HIDE DEF new
  <2>6. /\ oracles' \in [Accounts -> OracleInfo \cup {NoOracle}]
        /\ StakeFigureMatchesBalance'
        /\ \A a \in Accounts : Registered(a) => Registered(a)'
    BY <2>3, <2>4
  <2> QED BY <2>1, <2>5, <2>6
<1>4. ASSUME NEW m \in Accounts, AddCouncilMember(m)
      PROVE  RegistryLedger
  BY <1>4 DEF AddCouncilMember
<1>5. RegistryLedger
  BY <1>1, <1>2, <1>3, <1>4 DEF RegistryNext
<1>6. ChallengedOracleRegistered'
  BY <1>5 DEF ChallengedOracleRegistered, Exists, ChallengeRec
<1> QED BY <1>5, <1>6

\* A verdict of guilty.
LEMMA GuiltyKeepsLedger ==
  ASSUME LedgerInv, NEW c \in Challenges, ResolveGuilty(c)
  PROVE  LedgerInv'
<1> DEFINE ch == challenges[c]
           info == oracles[ch.oracle]
           slash == SlashAmount(info, SlashPct)
           reward == SlashReward(info, SlashPct, RewardPct)
<1> USE RegistryConstants, OracleSentinel, ChallengeSentinels
<1>1. /\ ch \in ChallengeRec /\ ch.oracle \in Accounts /\ ch.challenger \in Accounts
      /\ ch.stake \in Nat
  BY DEF ResolveGuilty, Judgeable, Exists, LedgerInv, TypeOK, ChallengeRec
<1>2. info \in OracleInfo /\ info.total = info.staked
  BY <1>1 DEF ResolveGuilty, Judgeable, LedgerInv, TypeOK, RegistryTypeOK,
     StakeFigureMatchesBalance, ChallengedOracleRegistered, Registered
<1>3. slash \in Nat /\ reward \in Nat /\ reward <= slash
  BY <1>2, SlashBounds
<1>4. SlashOracle(info, SlashPct) \in OracleInfo
      /\ SlashOracle(info, SlashPct).total = SlashOracle(info, SlashPct).staked
  BY <1>2, SlashKeepsInfo
<1>5. /\ wallet' = Receive(Receive(wallet, ch.challenger, reward + ch.stake),
                           Admin, slash - reward)
      /\ oracles' = [oracles EXCEPT ![ch.oracle] = SlashOracle(info, SlashPct)]
      /\ challenges' = [challenges EXCEPT ![c].resolved = TRUE,
                          ![c].stake = 0, ![c].slashed = slash]
      /\ UNCHANGED <<caps, council, councilSize, epoch>>
  BY DEF ResolveGuilty
<1> HIDE DEF slash, reward
<1>6. wallet' \in [Accounts -> Nat]
  <2>1. reward + ch.stake \in Nat /\ slash - reward \in Nat
    BY <1>1, <1>3
  <2>2. Receive(wallet, ch.challenger, reward + ch.stake) \in [Accounts -> Nat]
    BY <1>1, <2>1, WalletMoves DEF LedgerInv, TypeOK, RegistryTypeOK
  <2> QED BY <1>5, <2>1, <2>2, WalletMoves
<1>7. challenges'[c] \in ChallengeRec /\ challenges'[c].oracle = ch.oracle
  BY <1>1, <1>3, <1>5 DEF ChallengeRec, LedgerInv, TypeOK
<1>8. /\ challenges' \in
           [Challenges -> ChallengeRec \cup {NoChallenge, DeletedChallenge}]
      /\ \A d \in Challenges \ {c} : challenges'[d] = challenges[d]
  <2>1. challenges' = [challenges EXCEPT ![c] = challenges'[c]]
    BY <1>5 DEF LedgerInv, TypeOK
  <2> QED BY <1>7, <2>1 DEF LedgerInv, TypeOK
<1>9. /\ oracles' \in [Accounts -> OracleInfo \cup {NoOracle}]
      /\ \A o \in Accounts : Registered(o)' <=> Registered(o)
      /\ StakeFigureMatchesBalance'
  BY <1>1, <1>2, <1>4, <1>5 DEF LedgerInv, TypeOK, RegistryTypeOK, Registered,
     StakeFigureMatchesBalance
<1>10. ChallengedOracleRegistered'
  BY <1>1, <1>7, <1>8, <1>9 DEF LedgerInv, TypeOK, ChallengedOracleRegistered,
     Exists, ChallengeRec, ResolveGuilty, Judgeable
<1> QED BY <1>5, <1>6, <1>8, <1>9, <1>10 DEF LedgerInv, TypeOK, RegistryTypeOK

\* Every variable keeps its type and every registered oracle its two equal
\* stake figures: no slash ever runs short of balance.
THEOREM LedgerCorrect == Spec => []LedgerInv
<1> USE RegistryConstants, OracleSentinel, ChallengeConstants, ChallengeSentinels
<1>1. Init => LedgerInv
  BY DEF Init, RegistryInit, LedgerInv, TypeOK, RegistryTypeOK, Registered, Exists,
     StakeFigureMatchesBalance, ChallengedOracleRegistered
<1>2. LedgerInv /\ [Next]_vars => LedgerInv'
  <2> SUFFICES ASSUME LedgerInv, [Next]_vars PROVE LedgerInv'
    OBVIOUS
  <2>1. CASE AdvanceEpoch
    BY <2>1 DEF AdvanceEpoch, registryVars, LedgerInv, TypeOK, RegistryTypeOK,
       Registered, Exists, StakeFigureMatchesBalance, ChallengedOracleRegistered
  <2>2. CASE RegistryNext /\ UNCHANGED <<epoch, challenges>>
    BY <2>2, RegistryKeepsLedger
  <2>3. ASSUME NEW c \in Challenges, NEW a \in Accounts, NEW o \in Accounts,
               NEW stake \in Amounts, CreateFraudChallenge(c, a, o, stake)
        PROVE  LedgerInv'
    <3>1. wallet' \in [Accounts -> Nat]
      BY <2>3, WalletMoves DEF CreateFraudChallenge, Owns, LedgerInv, TypeOK, RegistryTypeOK
    <3>2. /\ challenges'[c] \in ChallengeRec /\ challenges'[c].oracle = o
          /\ challenges' = [challenges EXCEPT ![c] = challenges'[c]]
      BY <2>3 DEF CreateFraudChallenge, LedgerInv, TypeOK, ChallengeRec
    <3> QED
      BY <2>3, <3>1, <3>2 DEF CreateFraudChallenge, registryVars, LedgerInv, TypeOK,
         RegistryTypeOK, Registered, Exists, StakeFigureMatchesBalance,
         ChallengedOracleRegistered
  <2>4. ASSUME NEW c \in Challenges, NEW voter \in Accounts,
               NEW guilty \in BOOLEAN, VoteOnChallenge(c, voter, guilty)
        PROVE  LedgerInv'
    <3>1. challenges[c] \in ChallengeRec
      BY <2>4 DEF VoteOnChallenge, Exists, LedgerInv, TypeOK
    <3>2. /\ challenges'[c] \in ChallengeRec
          /\ challenges'[c].oracle = challenges[c].oracle
          /\ challenges' = [challenges EXCEPT ![c] = challenges'[c]]
      BY <2>4, <3>1 DEF VoteOnChallenge, LedgerInv, TypeOK, ChallengeRec
    <3> QED
      BY <2>4, <3>1, <3>2 DEF VoteOnChallenge, registryVars, LedgerInv, TypeOK,
         RegistryTypeOK, Registered, Exists, StakeFigureMatchesBalance,
         ChallengedOracleRegistered
  <2>5. ASSUME NEW c \in Challenges, ResolveInnocent(c)
        PROVE  LedgerInv'
    <3> DEFINE ch == challenges[c]
    <3>1. /\ ch \in ChallengeRec /\ ch.challenger \in Accounts /\ ch.stake \in Nat
      BY <2>5 DEF ResolveInnocent, Judgeable, Exists, LedgerInv, TypeOK, ChallengeRec
    <3>2. ch.stake \div 2 \in Nat /\ ch.stake - (ch.stake \div 2) \in Nat
      BY <3>1
    <3>3. wallet' \in [Accounts -> Nat]
      BY <2>5, <3>1, <3>2, WalletMoves
         DEF ResolveInnocent, LedgerInv, TypeOK, RegistryTypeOK
    <3>4. /\ challenges'[c] \in ChallengeRec /\ challenges'[c].oracle = ch.oracle
          /\ challenges' = [challenges EXCEPT ![c] = challenges'[c]]
      BY <2>5, <3>1 DEF ResolveInnocent, StakeAfterInnocent, LedgerInv, TypeOK,
         ChallengeRec
    <3> QED
      BY <2>5, <3>1, <3>3, <3>4 DEF ResolveInnocent, Judgeable, registryVars,
         LedgerInv, TypeOK, RegistryTypeOK, Registered, Exists,
         StakeFigureMatchesBalance, ChallengedOracleRegistered
  <2>6. ASSUME NEW c \in Challenges, DeleteResolvedChallenge(c)
        PROVE  LedgerInv'
    BY <2>6 DEF DeleteResolvedChallenge, registryVars, LedgerInv, TypeOK,
       RegistryTypeOK, Registered, Exists, StakeFigureMatchesBalance,
       ChallengedOracleRegistered
  <2>7. CASE UNCHANGED vars
    BY <2>7 DEF vars, registryVars, LedgerInv, TypeOK, RegistryTypeOK,
       Registered, Exists, StakeFigureMatchesBalance, ChallengedOracleRegistered
  <2> QED
    BY <2>1, <2>2, <2>3, <2>4, <2>5, <2>6, <2>7, GuiltyKeepsLedger DEF Next
<1> QED BY <1>1, <1>2, PTL DEF Spec

\* Total stake and staked balance of an oracle never diverge.
THEOREM StakeFiguresAgree == Spec => []StakeFigureMatchesBalance
BY LedgerCorrect, PTL DEF LedgerInv

\* Every variable keeps its type.
THEOREM TypeCorrect == Spec => []TypeOK
BY LedgerCorrect, PTL DEF LedgerInv

-----------------------------------------------------------------------------
(***************************************************************************)
(* The tally.  The council only grows, a vote is cast by a member who is   *)
(* not among the voters, and it adds one to both sides of the equation.    *)
(***************************************************************************)
TallyInv ==
  /\ IsFiniteSet(council)
  /\ councilSize = Cardinality(council)
  /\ \A c \in Challenges : Exists(c) =>
       /\ challenges[c].voters \subseteq council
       /\ Votes(challenges[c]) = Cardinality(challenges[c].voters)

\* Adding a member keeps the council finite and counts it once.
LEMMA CouncilGrows ==
  ASSUME TallyInv, NEW m \in Accounts, AddCouncilMember(m)
  PROVE  /\ IsFiniteSet(council')
         /\ councilSize' = Cardinality(council')
         /\ council \subseteq council'
<1>1. CASE m \in council
  <2>1. council' = council
    BY <1>1 DEF AddCouncilMember
  <2> QED BY <1>1, <2>1 DEF AddCouncilMember, TallyInv
<1>2. CASE m \notin council
  <2>1. /\ IsFiniteSet(council \cup {m})
        /\ Cardinality(council \cup {m}) = Cardinality(council) + 1
    BY <1>2, FS_AddElement DEF TallyInv
  <2> QED BY <1>2, <2>1 DEF AddCouncilMember, TallyInv
<1> QED BY <1>1, <1>2

\* A vote.
LEMMA VoteKeepsTally ==
  ASSUME LedgerInv, TallyInv, NEW c \in Challenges, NEW voter \in Accounts,
         NEW guilty \in BOOLEAN, VoteOnChallenge(c, voter, guilty)
  PROVE  /\ challenges'[c].voters \subseteq council
         /\ Votes(challenges'[c]) = Cardinality(challenges'[c].voters)
<1> DEFINE ch == challenges[c]
<1>1. ch \in ChallengeRec /\ ch.guilty \in Nat /\ ch.innocent \in Nat
  BY ChallengeSentinels DEF VoteOnChallenge, Exists, LedgerInv, TypeOK, ChallengeRec
<1>2. /\ challenges'[c].voters = ch.voters \cup {voter}
      /\ challenges'[c].guilty = IF guilty THEN ch.guilty + 1 ELSE ch.guilty
      /\ challenges'[c].innocent = IF guilty THEN ch.innocent ELSE ch.innocent + 1
  BY <1>1 DEF VoteOnChallenge, LedgerInv, TypeOK, ChallengeRec
<1>3. /\ voter \in council /\ voter \notin ch.voters
      /\ ch.voters \subseteq council
      /\ ch.guilty + ch.innocent = Cardinality(ch.voters)
      /\ IsFiniteSet(council)
  BY DEF VoteOnChallenge, MayVote, TallyInv, Votes
<1>4. IsFiniteSet(ch.voters)
  BY <1>3, FS_Subset
<1>5. Cardinality(ch.voters \cup {voter}) = Cardinality(ch.voters) + 1
  BY <1>3, <1>4, FS_AddElement
<1> QED BY <1>1, <1>2, <1>3, <1>5 DEF Votes

\* Every reachable tally counts each voting member of the council once.
THEOREM TallyCorrect == Spec => []TallyInv
<1>1. Init => TallyInv
  BY FS_EmptySet, ChallengeSentinels DEF Init, RegistryInit, TallyInv, Exists
<1>2. LedgerInv /\ TallyInv /\ [Next]_vars => TallyInv'
  <2> SUFFICES ASSUME LedgerInv, TallyInv, [Next]_vars PROVE TallyInv'
    OBVIOUS
  <2>1. ASSUME UNCHANGED <<council, councilSize, challenges>> PROVE TallyInv'
    BY <2>1 DEF TallyInv, Exists, Votes
  <2>2. CASE RegistryNext /\ UNCHANGED <<epoch, challenges>>
    <3>1. ASSUME NEW m \in Accounts, AddCouncilMember(m) PROVE TallyInv'
      BY <2>2, <3>1, CouncilGrows DEF TallyInv, Exists, Votes
    <3> QED
      BY <2>1, <2>2, <3>1 DEF RegistryNext, RegisterOracle, AddSchema, Delegate
  <2>3. ASSUME NEW c \in Challenges, UNCHANGED <<council, councilSize>>,
               \A d \in Challenges \ {c} : challenges'[d] = challenges[d],
               \/ ~Exists(c)'
               \/ /\ challenges'[c].voters \subseteq council
                  /\ Votes(challenges'[c]) = Cardinality(challenges'[c].voters)
        PROVE  TallyInv'
    BY <2>3 DEF TallyInv, Exists, Votes
  <2>4. ASSUME NEW c \in Challenges, NEW a \in Accounts, NEW o \in Accounts,
               NEW stake \in Amounts, CreateFraudChallenge(c, a, o, stake)
        PROVE  TallyInv'
    <3>1. /\ challenges'[c].voters = {}
          /\ challenges'[c].guilty = 0 /\ challenges'[c].innocent = 0
      BY <2>4 DEF CreateFraudChallenge, LedgerInv, TypeOK
    <3>2. Votes(challenges'[c]) = Cardinality(challenges'[c].voters)
      BY <3>1, FS_EmptySet DEF Votes
    <3> QED
      BY <2>3, <2>4, <3>1, <3>2 DEF CreateFraudChallenge, registryVars, LedgerInv, TypeOK
  <2>5. ASSUME NEW c \in Challenges, NEW voter \in Accounts,
               NEW guilty \in BOOLEAN, VoteOnChallenge(c, voter, guilty)
        PROVE  TallyInv'
    BY <2>3, <2>5, VoteKeepsTally DEF VoteOnChallenge, registryVars, LedgerInv, TypeOK
  <2>6. ASSUME NEW c \in Challenges, ResolveGuilty(c) \/ ResolveInnocent(c)
        PROVE  TallyInv'
    <3>1. challenges[c] \in ChallengeRec /\ Exists(c)
      BY <2>6 DEF ResolveGuilty, ResolveInnocent, Judgeable, Exists, LedgerInv, TypeOK
    <3>2. /\ challenges'[c].voters = challenges[c].voters
          /\ challenges'[c].guilty = challenges[c].guilty
          /\ challenges'[c].innocent = challenges[c].innocent
      BY <2>6, <3>1 DEF ResolveGuilty, ResolveInnocent, LedgerInv, TypeOK, ChallengeRec
    <3>3. /\ challenges'[c].voters \subseteq council
          /\ Votes(challenges'[c]) = Cardinality(challenges'[c].voters)
      BY <3>1, <3>2 DEF TallyInv, Votes
    <3>4. /\ UNCHANGED <<council, councilSize>>
          /\ \A d \in Challenges \ {c} : challenges'[d] = challenges[d]
      BY <2>6 DEF ResolveGuilty, ResolveInnocent, registryVars, LedgerInv, TypeOK
    <3> QED BY <2>3, <3>3, <3>4
  <2>7. ASSUME NEW c \in Challenges, DeleteResolvedChallenge(c)
        PROVE  TallyInv'
    BY <2>3, <2>7 DEF DeleteResolvedChallenge, registryVars, Exists, LedgerInv, TypeOK
  <2>8. CASE AdvanceEpoch
    BY <2>1, <2>8 DEF AdvanceEpoch, registryVars
  <2>9. CASE UNCHANGED vars
    BY <2>1, <2>9 DEF vars, registryVars
  <2> QED BY <2>2, <2>4, <2>5, <2>6, <2>7, <2>8, <2>9 DEF Next
<1> QED BY <1>1, <1>2, LedgerCorrect, PTL DEF Spec

\* Each voting council member is counted once.
THEOREM TallyCountsCouncilOnce == Spec => []TallyIsTheCouncils
<1>1. TallyInv => TallyIsTheCouncils
  BY DEF TallyInv, TallyIsTheCouncils
<1> QED BY <1>1, TallyCorrect, PTL

-----------------------------------------------------------------------------
(***************************************************************************)
(* The verdict.  Two thirds of the council, rounded down but at least one, *)
(* is at least half of it; with one vote per member, the votes for the     *)
(* other side are then no more.                                            *)
(***************************************************************************)
LEMMA QuorumIsHalf ==
  ASSUME councilSize \in Nat, NEW g \in Nat, NEW i \in Nat,
         g >= Quorum, g + i <= councilSize
  PROVE  2 * g >= councilSize /\ g >= i
<1>1. CASE (councilSize * 2) \div 3 = 0
  <2>1. councilSize <= 1
    BY <1>1
  <2>2. Quorum = 1
    BY <1>1 DEF Quorum
  <2> QED BY <2>1, <2>2
<1>2. CASE (councilSize * 2) \div 3 # 0
  <2>1. Quorum = (councilSize * 2) \div 3
    BY <1>2 DEF Quorum
  <2>2. 2 * ((councilSize * 2) \div 3) >= councilSize
    BY <1>2
  <2> QED BY <2>1, <2>2
<1> QED BY <1>1, <1>2

\* No more votes were cast than the council has members.
LEMMA VotesWithinCouncil ==
  ASSUME TallyInv, NEW c \in Challenges, Exists(c)
  PROVE  Votes(challenges[c]) <= councilSize
<1>1. Cardinality(challenges[c].voters) <= Cardinality(council)
  BY FS_Subset DEF TallyInv
<1> QED BY <1>1 DEF TallyInv

\* An oracle's stake shrinks only when a majority-backed verdict is resolved.
THEOREM OnlyTheCouncilSlashes == Spec => SlashedOnlyByTheCouncil
<1> DEFINE Backed(o, c) ==
      /\ Exists(c) /\ challenges[c].oracle = o
      /\ ~challenges[c].resolved /\ challenges'[c].resolved
      /\ epoch > challenges[c].deadline
      /\ 2 * challenges[c].guilty >= councilSize
      /\ challenges[c].guilty >= challenges[c].innocent
<1>1. ASSUME LedgerInv, TallyInv, [Next]_vars, NEW o \in Accounts, Registered(o),
             oracles'[o].staked < oracles[o].staked
      PROVE  \E c \in Challenges : Backed(o, c)
  <2>1. oracles[o] \in OracleInfo /\ oracles[o].staked \in Nat
    BY <1>1 DEF Registered, LedgerInv, TypeOK, RegistryTypeOK, OracleInfo
  <2>2. oracles'[o] # oracles[o]
    BY <1>1, <2>1
  <2>3. ASSUME RegistryNext PROVE FALSE
    <3>1. CASE \E a \in Accounts, schemas \in SUBSET SchemaIds, stake \in Amounts,
                  system \in BOOLEAN : RegisterOracle(a, schemas, stake, system)
      BY <1>1, <2>2, <3>1 DEF RegisterOracle, Registered, LedgerInv, TypeOK, RegistryTypeOK
    <3>2. ASSUME NEW cap \in caps, NEW s \in SchemaIds, AddSchema(cap, s)
          PROVE  FALSE
      <4>1. oracles'[o].staked = oracles[o].staked
        BY <2>1, <3>2, <1>1 DEF AddSchema, LedgerInv, TypeOK, RegistryTypeOK, OracleInfo
      <4> QED BY <1>1, <2>1, <4>1
    <3>3. ASSUME NEW d \in Accounts, NEW a \in Accounts, NEW amount \in Amounts,
                 Delegate(d, a, amount)
          PROVE  FALSE
      <4>1. a = o /\ amount \in Nat
        BY <1>1, <2>2, <3>3, RegistryConstants
           DEF Delegate, LedgerInv, TypeOK, RegistryTypeOK
      <4>2. oracles'[o].staked = oracles[o].staked + amount
        BY <1>1, <2>1, <3>3, <4>1
           DEF Delegate, LedgerInv, TypeOK, RegistryTypeOK, OracleInfo
      <4> QED BY <1>1, <2>1, <4>1, <4>2
    <3>4. ASSUME NEW m \in Accounts, AddCouncilMember(m) PROVE FALSE
      BY <2>2, <3>4 DEF AddCouncilMember
    <3> QED BY <2>3, <3>1, <3>2, <3>3, <3>4 DEF RegistryNext
  <2>4. PICK c \in Challenges : ResolveGuilty(c)
    BY <1>1, <2>2, <2>3 DEF Next, AdvanceEpoch, CreateFraudChallenge,
       VoteOnChallenge, ResolveInnocent, DeleteResolvedChallenge, vars, registryVars
  <2>5. /\ Exists(c) /\ challenges[c] \in ChallengeRec
        /\ ~challenges[c].resolved
        /\ epoch > challenges[c].deadline
    BY <1>1, <2>4 DEF ResolveGuilty, Judgeable, Exists, LedgerInv, TypeOK
  <2>6. challenges[c].oracle = o
    BY <1>1, <2>2, <2>4 DEF ResolveGuilty, LedgerInv, TypeOK, RegistryTypeOK
  <2>7. challenges'[c].resolved
    BY <1>1, <2>4, <2>5 DEF ResolveGuilty, LedgerInv, TypeOK, ChallengeRec
  <2>8. /\ challenges[c].guilty \in Nat /\ challenges[c].innocent \in Nat
        /\ councilSize \in Nat
        /\ challenges[c].guilty + challenges[c].innocent <= councilSize
        /\ challenges[c].guilty >= Quorum
    BY <1>1, <2>4, <2>5, VotesWithinCouncil
       DEF ResolveGuilty, IsGuilty, Votes, LedgerInv, TypeOK, RegistryTypeOK, ChallengeRec
  <2>9. /\ 2 * challenges[c].guilty >= councilSize
        /\ challenges[c].guilty >= challenges[c].innocent
    BY <2>8, QuorumIsHalf
  <2> QED BY <2>5, <2>6, <2>7, <2>9
<1>2. LedgerInv /\ TallyInv /\ [Next]_vars =>
        [\A o \in Accounts :
           Registered(o) /\ oracles'[o].staked < oracles[o].staked =>
             \E c \in Challenges : Backed(o, c)]_vars
  BY <1>1
<1> QED
  BY <1>2, LedgerCorrect, TallyCorrect, PTL DEF Spec, SlashedOnlyByTheCouncil

-----------------------------------------------------------------------------
(***************************************************************************)
(* A verdict needs a vote and empties the challenge; before the verdict    *)
(* the stake is untouched.                                                 *)
(***************************************************************************)
VerdictInv ==
  \A c \in Challenges : Exists(c) =>
    IF challenges[c].resolved
    THEN challenges[c].stake = 0 /\ Votes(challenges[c]) > 0
    ELSE challenges[c].stake >= MinStake \div 2

\* Every reachable challenge is either unjudged with its stake, or judged on
\* at least one vote and empty.
THEOREM VerdictCorrect == Spec => []VerdictInv
<1>1. Init => VerdictInv
  BY ChallengeSentinels DEF Init, VerdictInv, Exists
<1>2. LedgerInv /\ VerdictInv /\ [Next]_vars => VerdictInv'
  <2> SUFFICES ASSUME LedgerInv, VerdictInv, [Next]_vars PROVE VerdictInv'
    OBVIOUS
  <2>1. ASSUME UNCHANGED challenges PROVE VerdictInv'
    BY <2>1 DEF VerdictInv, Exists, Votes
  <2>2. ASSUME NEW c \in Challenges,
               \A d \in Challenges \ {c} : challenges'[d] = challenges[d],
               \/ ~Exists(c)'
               \/ IF challenges'[c].resolved
                  THEN challenges'[c].stake = 0 /\ Votes(challenges'[c]) > 0
                  ELSE challenges'[c].stake >= MinStake \div 2
        PROVE  VerdictInv'
    BY <2>2 DEF VerdictInv, Exists, Votes
  <2>3. ASSUME NEW c \in Challenges, NEW a \in Accounts, NEW o \in Accounts,
               NEW stake \in Amounts, CreateFraudChallenge(c, a, o, stake)
        PROVE  VerdictInv'
    BY <2>2, <2>3 DEF CreateFraudChallenge, LedgerInv, TypeOK
  <2>4. ASSUME NEW c \in Challenges, NEW voter \in Accounts,
               NEW guilty \in BOOLEAN, VoteOnChallenge(c, voter, guilty)
        PROVE  VerdictInv'
    <3>1. challenges[c] \in ChallengeRec /\ Exists(c) /\ ~challenges[c].resolved
      BY <2>4 DEF VoteOnChallenge, Exists, LedgerInv, TypeOK
    <3>2. /\ ~challenges'[c].resolved
          /\ challenges'[c].stake = challenges[c].stake
          /\ \A d \in Challenges \ {c} : challenges'[d] = challenges[d]
      BY <2>4, <3>1 DEF VoteOnChallenge, LedgerInv, TypeOK, ChallengeRec
    <3> QED BY <2>2, <3>1, <3>2 DEF VerdictInv
  <2>5. ASSUME NEW c \in Challenges, ResolveGuilty(c) \/ ResolveInnocent(c)
        PROVE  VerdictInv'
    <3>1. challenges[c] \in ChallengeRec /\ Votes(challenges[c]) > 0
      BY <2>5 DEF ResolveGuilty, ResolveInnocent, Judgeable, HasVotes, Exists,
         LedgerInv, TypeOK
    <3>2. /\ challenges'[c].resolved /\ challenges'[c].stake = 0
          /\ challenges'[c].guilty = challenges[c].guilty
          /\ challenges'[c].innocent = challenges[c].innocent
          /\ \A d \in Challenges \ {c} : challenges'[d] = challenges[d]
      BY <2>5, <3>1 DEF ResolveGuilty, ResolveInnocent, StakeAfterInnocent,
         LedgerInv, TypeOK, ChallengeRec
    <3> QED BY <2>2, <3>1, <3>2 DEF Votes
  <2>6. ASSUME NEW c \in Challenges, DeleteResolvedChallenge(c)
        PROVE  VerdictInv'
    BY <2>2, <2>6 DEF DeleteResolvedChallenge, Exists, LedgerInv, TypeOK
  <2> QED
    BY <2>1, <2>3, <2>4, <2>5, <2>6 DEF Next, AdvanceEpoch, vars
<1> QED BY <1>1, <1>2, LedgerCorrect, PTL DEF Spec

\* The challenger's stake is held until the verdict and then gone entirely.
THEOREM ChallengerStakeHeld == Spec => []StakeHeldUntilVerdict
<1>1. VerdictInv => StakeHeldUntilVerdict
  BY DEF VerdictInv, StakeHeldUntilVerdict
<1> QED BY <1>1, VerdictCorrect, PTL

\* Once the window is over, a challenge without a vote is never touched again.
THEOREM UnvotedChallengesAreFrozen == Spec => NoVerdictWithoutVote
<1>1. ASSUME LedgerInv, [Next]_vars, NEW c \in Challenges, Exists(c),
             epoch > challenges[c].deadline, Votes(challenges[c]) = 0,
             VerdictInv
      PROVE  challenges'[c] = challenges[c]
  <2>1. challenges[c] \in ChallengeRec /\ epoch \in Nat
        /\ challenges[c].deadline \in Nat
    BY <1>1 DEF Exists, LedgerInv, TypeOK, ChallengeRec
  <2>2. ASSUME NEW d \in Challenges, NEW a \in Accounts, NEW o \in Accounts,
               NEW stake \in Amounts, CreateFraudChallenge(d, a, o, stake)
        PROVE  challenges'[c] = challenges[c]
    BY <1>1, <2>2 DEF CreateFraudChallenge, Exists, LedgerInv, TypeOK
  <2>3. ASSUME NEW d \in Challenges, NEW voter \in Accounts,
               NEW guilty \in BOOLEAN, VoteOnChallenge(d, voter, guilty)
        PROVE  challenges'[c] = challenges[c]
    <3>1. d # c
      BY <1>1, <2>1, <2>3 DEF VoteOnChallenge
    <3> QED BY <2>3, <3>1, <1>1 DEF VoteOnChallenge, LedgerInv, TypeOK
  <2>4. ASSUME NEW d \in Challenges, ResolveGuilty(d) \/ ResolveInnocent(d)
        PROVE  challenges'[c] = challenges[c]
    <3>1. d # c
      BY <1>1, <2>4 DEF ResolveGuilty, ResolveInnocent, Judgeable, HasVotes
    <3> QED BY <2>4, <3>1, <1>1 DEF ResolveGuilty, ResolveInnocent, LedgerInv, TypeOK
  <2>5. ASSUME NEW d \in Challenges, DeleteResolvedChallenge(d)
        PROVE  challenges'[c] = challenges[c]
    BY <1>1, <2>5 DEF DeleteResolvedChallenge, VerdictInv, LedgerInv, TypeOK
  <2> QED
    BY <1>1, <2>2, <2>3, <2>4, <2>5 DEF Next, AdvanceEpoch, vars, registryVars
<1>2. LedgerInv /\ VerdictInv /\ [Next]_vars =>
        [\A c \in Challenges :
           Exists(c) /\ epoch > challenges[c].deadline /\ Votes(challenges[c]) = 0 =>
             challenges'[c] = challenges[c]]_vars
  BY <1>1
<1> QED
  BY <1>2, LedgerCorrect, VerdictCorrect, PTL DEF Spec, NoVerdictWithoutVote

-----------------------------------------------------------------------------
\* What a registry operation or a slash leaves of CapabilityMatchesRegistry is
\* decided by the schemas and the kind of each oracle.
LEMMA CapabilitiesFollowOracles ==
  ASSUME CapabilityMatchesRegistry, UNCHANGED caps,
         \A o \in Accounts :
           /\ Registered(o)' <=> Registered(o)
           /\ oracles'[o].schemas = oracles[o].schemas
           /\ oracles'[o].system = oracles[o].system
  PROVE  CapabilityMatchesRegistry'
BY DEF CapabilityMatchesRegistry, Registered

\* Every oracle holds exactly one capability, for the registry's schema list.
THEOREM OneCapabilityPerOracle == Spec => []CapabilityMatchesRegistry
<1>1. Init => CapabilityMatchesRegistry
  BY DEF Init, RegistryInit, CapabilityMatchesRegistry, Registered
<1>2. LedgerInv /\ CapabilityMatchesRegistry /\ [Next]_vars =>
        CapabilityMatchesRegistry'
  <2> SUFFICES ASSUME LedgerInv, CapabilityMatchesRegistry, [Next]_vars
               PROVE  CapabilityMatchesRegistry'
    OBVIOUS
  <2>1. ASSUME NEW o \in Accounts, NEW schemas \in SUBSET SchemaIds,
               NEW stake \in Amounts, NEW system \in BOOLEAN,
               RegisterOracle(o, schemas, stake, system)
        PROVE  CapabilityMatchesRegistry'
    <3> DEFINE new == [oracle |-> o, system |-> system, schemas |-> schemas]
    <3>1. /\ caps' = caps \cup {new}
          /\ Registered(o)' /\ oracles'[o].schemas = schemas
          /\ oracles'[o].system = system
          /\ \A a \in Accounts \ {o} : oracles'[a] = oracles[a]
      BY <2>1, OracleSentinel, RegistryConstants
         DEF RegisterOracle, Registered, LedgerInv, TypeOK, RegistryTypeOK, OracleInfo
    <3>2. {k \in caps : k.oracle = o} = {}
      BY <2>1 DEF RegisterOracle, CapabilityMatchesRegistry
    <3> QED BY <3>1, <3>2 DEF CapabilityMatchesRegistry, Registered
  <2>2. ASSUME NEW cap \in caps, NEW s \in SchemaIds, AddSchema(cap, s)
        PROVE  CapabilityMatchesRegistry'
    <3> DEFINE o == cap.oracle
               list == oracles[o].schemas \cup {s}
               new == [cap EXCEPT !.schemas = list]
    <3>1. /\ o \in Accounts /\ oracles[o] \in OracleInfo /\ cap \in Capability
          /\ Registered(o)
      BY <2>2 DEF AddSchema, Registered, Capability, LedgerInv, TypeOK, RegistryTypeOK
    <3>2. {k \in caps : k.oracle = o} = {cap}
      BY <2>2, <3>1 DEF CapabilityMatchesRegistry
    <3>3. /\ cap.system = oracles[o].system
          /\ new = [oracle |-> o, system |-> oracles[o].system, schemas |-> list]
      BY <2>2, <3>1, <3>2 DEF CapabilityMatchesRegistry, Capability
    <3>4. /\ caps' = (caps \ {cap}) \cup {new}
          /\ Registered(o)' /\ oracles'[o].schemas = list
          /\ oracles'[o].system = oracles[o].system
          /\ \A a \in Accounts \ {o} : oracles'[a] = oracles[a]
      BY <2>2, <3>1, OracleSentinel DEF AddSchema, Reissue, Registered, LedgerInv, TypeOK,
         RegistryTypeOK, OracleInfo
    <3>5. {k \in caps' : k.oracle = o} = {new}
      BY <3>2, <3>3, <3>4
    <3>6. \A a \in Accounts \ {o} :
            {k \in caps' : k.oracle = a} = {k \in caps : k.oracle = a}
      BY <3>2, <3>3, <3>4
    <3> SUFFICES ASSUME NEW a \in Accounts
                 PROVE  {k \in caps' : k.oracle = a} =
                          IF oracles'[a] # NoOracle
                          THEN {[oracle |-> a, system |-> oracles'[a].system,
                                 schemas |-> oracles'[a].schemas]}
                          ELSE {}
      BY DEF CapabilityMatchesRegistry, Registered
    <3>7. CASE a = o
      BY <3>3, <3>4, <3>5, <3>7 DEF Registered
    <3>8. CASE a # o
      BY <3>4, <3>6, <3>8 DEF CapabilityMatchesRegistry, Registered
    <3> QED BY <3>7, <3>8
  <2>3. ASSUME NEW d \in Accounts, NEW o \in Accounts, NEW amount \in Amounts,
               Delegate(d, o, amount)
        PROVE  CapabilityMatchesRegistry'
    <3> DEFINE new == [oracles[o] EXCEPT !.staked = oracles[o].staked + amount,
                                         !.total = oracles[o].total + amount]
    <3>1. oracles[o] \in OracleInfo /\ amount \in Nat
      BY <2>3, RegistryConstants
         DEF Delegate, Registered, LedgerInv, TypeOK, RegistryTypeOK
    <3>2. /\ new \in OracleInfo
          /\ new.schemas = oracles[o].schemas /\ new.system = oracles[o].system
      BY <3>1, DelegationKeepsInfo
    <3>3. /\ oracles' = [oracles EXCEPT ![o] = new]
          /\ UNCHANGED caps
      BY <2>3 DEF Delegate
    <3> HIDE DEF new
    <3>4. \A a \in Accounts :
            /\ Registered(a)' <=> Registered(a)
            /\ oracles'[a].schemas = oracles[a].schemas
            /\ oracles'[a].system = oracles[a].system
      BY <3>1, <3>2, <3>3, OracleSentinel DEF Registered, LedgerInv, TypeOK, RegistryTypeOK
    <3> QED BY <3>3, <3>4, CapabilitiesFollowOracles
  <2>4. ASSUME NEW c \in Challenges, ResolveGuilty(c)
        PROVE  CapabilityMatchesRegistry'
    <3> DEFINE o == challenges[c].oracle
    <3>1. o \in Accounts /\ oracles[o] \in OracleInfo
          /\ oracles[o].total = oracles[o].staked
      BY <2>4, ChallengeSentinels DEF ResolveGuilty, Judgeable, Exists, LedgerInv,
         TypeOK, RegistryTypeOK, ChallengeRec, StakeFigureMatchesBalance,
         ChallengedOracleRegistered, Registered
    <3>2. /\ SlashOracle(oracles[o], SlashPct) \in OracleInfo
          /\ SlashOracle(oracles[o], SlashPct).schemas = oracles[o].schemas
          /\ SlashOracle(oracles[o], SlashPct).system = oracles[o].system
      BY <3>1, SlashKeepsInfo
    <3>3. /\ oracles' = [oracles EXCEPT ![o] = SlashOracle(oracles[o], SlashPct)]
          /\ UNCHANGED caps
      BY <2>4 DEF ResolveGuilty
    <3>4. \A a \in Accounts :
            /\ Registered(a)' <=> Registered(a)
            /\ oracles'[a].schemas = oracles[a].schemas
            /\ oracles'[a].system = oracles[a].system
      BY <3>1, <3>2, <3>3, OracleSentinel DEF Registered, LedgerInv, TypeOK, RegistryTypeOK
    <3> QED BY <3>3, <3>4, CapabilitiesFollowOracles
  <2>5. ASSUME UNCHANGED <<oracles, caps>> PROVE CapabilityMatchesRegistry'
    BY <2>5 DEF CapabilityMatchesRegistry, Registered
  <2> QED
    BY <2>1, <2>2, <2>3, <2>4, <2>5 DEF Next, RegistryNext, AddCouncilMember,
       AdvanceEpoch, CreateFraudChallenge, VoteOnChallenge, ResolveInnocent,
       DeleteResolvedChallenge, vars, registryVars
<1> QED BY <1>1, <1>2, LedgerCorrect, PTL DEF Spec
-----------------------------------------------------------------------------
(* The coins                                                               *)

LEMMA ReceiveAdds ==
  ASSUME NEW w \in [Accounts -> Nat], NEW a \in Accounts, NEW x \in Nat
  PROVE  SumFunction(Receive(w, a, x)) = SumFunction(w) + x
<1>1. w \in [Accounts -> Int] /\ x \in Int
  OBVIOUS
<1> QED BY <1>1, FiniteIds, SumAfterAdding DEF Receive

LEMMA PaySubtracts ==
  ASSUME NEW w \in [Accounts -> Nat], NEW a \in Accounts, NEW x \in Nat
  PROVE  SumFunction(Pay(w, a, x)) = SumFunction(w) - x
<1> DEFINE y == -x
<1>1. Pay(w, a, x) = [w EXCEPT ![a] = @ + y]
  <2>1. w[a] - x = w[a] + y
    OBVIOUS
  <2> QED BY <2>1 DEF Pay
<1>2. w \in [Accounts -> Int] /\ y \in Int
  OBVIOUS
<1>3. SumFunction(w) \in Int
  BY <1>2, FiniteIds, SumType
<1>4. SumFunction(w) + y = SumFunction(w) - x
  BY <1>3
<1> HIDE DEF y
<1>5. SumFunction([w EXCEPT ![a] = @ + y]) = SumFunction(w) + y
  BY <1>2, FiniteIds, SumAfterAdding
<1> QED BY <1>1, <1>4, <1>5

\* A verdict pays two accounts, which may be one.
LEMMA PaymentsAdd ==
  ASSUME NEW w \in [Accounts -> Nat], NEW a \in Accounts, NEW b \in Accounts,
         NEW x \in Nat, NEW y \in Nat
  PROVE  SumFunction(Receive(Receive(w, a, x), b, y)) = SumFunction(w) + x + y
<1> DEFINE v == Receive(w, a, x)
<1>1. v \in [Accounts -> Nat] /\ SumFunction(v) = SumFunction(w) + x
  BY WalletMoves, ReceiveAdds
<1> HIDE DEF v
<1>2. SumFunction(Receive(v, b, y)) = SumFunction(v) + y
  BY <1>1, ReceiveAdds
<1> QED BY <1>1, <1>2 DEF v

LEMMA CoinTypes ==
  ASSUME TypeOK
  PROVE  /\ SUIHeld \in [Accounts -> Int] /\ SUIStaked \in [Challenges -> Int]
         /\ SumFunction(wallet) \in Int
         /\ SumFunction(SUIHeld) \in Int /\ SumFunction(SUIStaked) \in Int
<1>1. SUIHeld \in [Accounts -> Int]
  BY DEF TypeOK, RegistryTypeOK, SUIHeld, Registered, OracleInfo
<1>2. SUIStaked \in [Challenges -> Int]
  BY DEF TypeOK, SUIStaked, Exists, ChallengeRec
<1>3. wallet \in [Accounts -> Int]
  BY DEF TypeOK, RegistryTypeOK
<1> QED BY <1>1, <1>2, <1>3, FiniteIds, SumType

\* The same of the next state.
LEMMA CoinTypesNext ==
  ASSUME TypeOK'
  PROVE  /\ SUIHeld' \in [Accounts -> Int] /\ SUIStaked' \in [Challenges -> Int]
         /\ SumFunction(wallet)' \in Int
         /\ SumFunction(SUIHeld)' \in Int /\ SumFunction(SUIStaked)' \in Int
<1>1. SUIHeld' \in [Accounts -> Int]
  BY DEF TypeOK, RegistryTypeOK, SUIHeld, Registered, OracleInfo
<1>2. SUIStaked' \in [Challenges -> Int]
  BY DEF TypeOK, SUIStaked, Exists, ChallengeRec
<1>3. wallet' \in [Accounts -> Int]
  BY DEF TypeOK, RegistryTypeOK
<1> QED BY <1>1, <1>2, <1>3, FiniteIds, SumType

\* What an oracle that alone is written has staked afterwards.
LEMMA HeldChange ==
  ASSUME TypeOK, TypeOK', NEW o \in Accounts, NEW new,
         oracles' = [oracles EXCEPT ![o] = new]
  PROVE  SumFunction(SUIHeld)' = SumFunction(SUIHeld) + SUIHeld'[o] - SUIHeld[o]
<1>1. SUIHeld \in [Accounts -> Int] /\ SUIHeld' \in [Accounts -> Int]
  BY CoinTypes, CoinTypesNext
<1>2. \A a \in Accounts \ {o} : SUIHeld[a] = SUIHeld'[a]
  BY DEF TypeOK, RegistryTypeOK, SUIHeld, Registered
<1> QED BY <1>1, <1>2, FiniteIds, SumAfterChange

LEMMA StakedChange ==
  ASSUME TypeOK, TypeOK', NEW c \in Challenges, NEW new,
         challenges' = [challenges EXCEPT ![c] = new]
  PROVE  SumFunction(SUIStaked)' = SumFunction(SUIStaked) + SUIStaked'[c] - SUIStaked[c]
<1>1. SUIStaked \in [Challenges -> Int] /\ SUIStaked' \in [Challenges -> Int]
  BY CoinTypes, CoinTypesNext
<1>2. \A d \in Challenges \ {c} : SUIStaked[d] = SUIStaked'[d]
  BY DEF TypeOK, SUIStaked, Exists
<1> QED BY <1>1, <1>2, FiniteIds, SumAfterChange

Coins == SumFunction(wallet) + SumFunction(SUIHeld) + SumFunction(SUIStaked)

\* A registry operation: registering and delegating move coins of a wallet into
\* the stake of one oracle.
LEMMA RegistryKeepsCoins ==
  ASSUME LedgerInv, TypeOK', RegistryNext, UNCHANGED <<epoch, challenges>>
  PROVE  Coins' = Coins
<1>0. /\ SumFunction(wallet) \in Int /\ SumFunction(wallet)' \in Int
      /\ SumFunction(SUIHeld) \in Int /\ SumFunction(SUIHeld)' \in Int
      /\ SumFunction(SUIStaked) \in Int
      /\ wallet \in [Accounts -> Nat] /\ TypeOK
  BY CoinTypes, CoinTypesNext DEF LedgerInv, TypeOK, RegistryTypeOK
<1>1. SumFunction(SUIStaked)' = SumFunction(SUIStaked)
  BY DEF SUIStaked, Exists
<1>2. ASSUME NEW o \in Accounts, NEW d \in Accounts, NEW x \in Nat, NEW new,
             wallet' = Pay(wallet, d, x),
             oracles' = [oracles EXCEPT ![o] = new],
             SUIHeld'[o] = SUIHeld[o] + x
      PROVE  Coins' = Coins
  <2>1. SumFunction(SUIHeld)' = SumFunction(SUIHeld) + SUIHeld'[o] - SUIHeld[o]
    BY <1>0, <1>2, HeldChange
  <2>2. SumFunction(wallet)' = SumFunction(wallet) - x
    BY <1>0, <1>2, PaySubtracts
  <2>3. SUIHeld[o] \in Int
    BY <1>0, CoinTypes
  <2> QED BY <1>0, <1>1, <1>2, <2>1, <2>2, <2>3 DEF Coins
<1>3. ASSUME NEW o \in Accounts, NEW schemas \in SUBSET SchemaIds,
             NEW stake \in Amounts, NEW system \in BOOLEAN,
             RegisterOracle(o, schemas, stake, system)
      PROVE  Coins' = Coins
  <2>1. stake \in Nat /\ SUIHeld[o] = 0
    BY <1>3, RegistryConstants DEF RegisterOracle, SUIHeld
  <2>2. oracles'[o] \in OracleInfo /\ oracles'[o].staked = stake
    BY <1>0, <1>3, <2>1, RegistryConstants
       DEF RegisterOracle, TypeOK, RegistryTypeOK, OracleInfo
  <2>3. SUIHeld'[o] = SUIHeld[o] + stake
    BY <2>1, <2>2, OracleSentinel DEF SUIHeld, Registered
  <2>4. /\ wallet' = Pay(wallet, o, stake)
        /\ oracles' = [oracles EXCEPT ![o] = oracles'[o]]
    BY <1>0, <1>3 DEF RegisterOracle, TypeOK, RegistryTypeOK
  <2> QED BY <1>2, <2>1, <2>3, <2>4
<1>4. ASSUME NEW cap \in caps, NEW s \in SchemaIds, AddSchema(cap, s)
      PROVE  Coins' = Coins
  <2> DEFINE o == cap.oracle
             new == [oracles[o] EXCEPT !.schemas = oracles[o].schemas \cup {s}]
  <2>1. o \in Accounts
    BY <1>0 DEF TypeOK, RegistryTypeOK, Capability
  <2>2. oracles[o] \in OracleInfo
    BY <1>0, <1>4, <2>1 DEF AddSchema, Registered, TypeOK, RegistryTypeOK
  <2>3. new \in OracleInfo /\ new.staked = oracles[o].staked
    BY <2>2 DEF OracleInfo
  <2>4. oracles' = [oracles EXCEPT ![o] = new] /\ wallet' = wallet
    BY <1>4 DEF AddSchema
  <2> HIDE DEF new
  <2>5. SUIHeld'[o] = SUIHeld[o]
    BY <1>0, <2>1, <2>2, <2>3, <2>4, OracleSentinel
       DEF SUIHeld, Registered, TypeOK, RegistryTypeOK
  <2>6. SumFunction(SUIHeld)' = SumFunction(SUIHeld) + SUIHeld'[o] - SUIHeld[o]
    BY <1>0, <2>1, <2>4, HeldChange
  <2>7. SUIHeld[o] \in Int
    BY <1>0, <2>1, CoinTypes
  <2> HIDE DEF o
  <2> QED BY <1>0, <1>1, <2>4, <2>5, <2>6, <2>7 DEF Coins
<1>5. ASSUME NEW d \in Accounts, NEW o \in Accounts, NEW amount \in Amounts,
             Delegate(d, o, amount)
      PROVE  Coins' = Coins
  <2> DEFINE new == [oracles[o] EXCEPT !.staked = oracles[o].staked + amount,
                                       !.total = oracles[o].total + amount]
  <2>1. oracles[o] \in OracleInfo /\ amount \in Nat
    BY <1>0, <1>5, RegistryConstants DEF Delegate, Registered, TypeOK, RegistryTypeOK
  <2>2. new \in OracleInfo /\ new.staked = oracles[o].staked + amount
    <3>1. /\ [oracles[o] EXCEPT !.staked = oracles[o].staked + amount,
                               !.total = oracles[o].total + amount] \in OracleInfo
          /\ [oracles[o] EXCEPT !.staked = oracles[o].staked + amount,
                               !.total = oracles[o].total + amount].staked
               = oracles[o].staked + amount
      BY <2>1, DelegationKeepsInfo
    <3> QED BY <3>1
  <2>3. oracles' = [oracles EXCEPT ![o] = new] /\ wallet' = Pay(wallet, d, amount)
    BY <1>5 DEF Delegate
  <2> HIDE DEF new
  <2>4. SUIHeld'[o] = SUIHeld[o] + amount
    BY <1>0, <2>1, <2>2, <2>3, OracleSentinel
       DEF SUIHeld, Registered, TypeOK, RegistryTypeOK
  <2> QED BY <1>2, <2>1, <2>3, <2>4
<1>6. ASSUME NEW m \in Accounts, AddCouncilMember(m) PROVE Coins' = Coins
  BY <1>1, <1>6 DEF AddCouncilMember, Coins, SUIHeld, Registered
<1> QED BY <1>3, <1>4, <1>5, <1>6 DEF RegistryNext

\* A verdict of guilty: the slash leaves the oracle's stake and the challenger's
\* stake leaves the challenge; the two payments are their sum.
LEMMA GuiltyKeepsCoins ==
  ASSUME LedgerInv, TypeOK', NEW c \in Challenges, ResolveGuilty(c)
  PROVE  Coins' = Coins
<1> DEFINE ch == challenges[c]
           o == ch.oracle
           info == oracles[o]
           slash == SlashAmount(info, SlashPct)
           reward == SlashReward(info, SlashPct, RewardPct)
           left == SlashOracle(info, SlashPct)
<1>0. /\ SumFunction(wallet) \in Int /\ SumFunction(wallet)' \in Int
      /\ SumFunction(SUIHeld) \in Int /\ SumFunction(SUIHeld)' \in Int
      /\ SumFunction(SUIStaked) \in Int /\ SumFunction(SUIStaked)' \in Int
      /\ wallet \in [Accounts -> Nat] /\ TypeOK
  BY CoinTypes, CoinTypesNext DEF LedgerInv, TypeOK, RegistryTypeOK
<1>1. /\ ch \in ChallengeRec /\ o \in Accounts /\ ch.challenger \in Accounts
      /\ ch.stake \in Nat
  BY ChallengeSentinels
     DEF ResolveGuilty, Judgeable, Exists, LedgerInv, TypeOK, ChallengeRec
<1>2. info \in OracleInfo /\ info.total = info.staked
  BY <1>1 DEF ResolveGuilty, Judgeable, LedgerInv, TypeOK, RegistryTypeOK,
     StakeFigureMatchesBalance, ChallengedOracleRegistered, Registered
<1>3. slash \in Nat /\ reward \in Nat /\ reward <= slash
  BY <1>2, SlashBounds
<1>4. left \in OracleInfo /\ left.staked = info.staked - slash
  <2>1. left \in OracleInfo
    BY <1>2, SlashKeepsInfo
  <2>2. info.staked \in Nat
    BY <1>2 DEF OracleInfo
  <2>3. ASSUME slash = 0 PROVE left.staked = info.staked - slash
    <3>1. left = info
      BY <2>3 DEF SlashOracle
    <3> HIDE DEF left, slash, info
    <3> QED BY <2>2, <2>3, <3>1
  <2>4. ASSUME slash # 0 PROVE left.staked = info.staked - slash
    <3> DEFINE r == (info.reputation * (100 - SlashPct)) \div 100
    <3>1. left = [info EXCEPT !.staked = info.staked - slash,
                              !.total = info.total - slash,
                              !.slashes = info.slashes + 1, !.reputation = r]
      BY <1>2, <2>4 DEF SlashOracle, OracleInfo
    <3> HIDE DEF left, slash, info, r
    <3> QED BY <1>2, <3>1 DEF OracleInfo
  <2> QED BY <2>1, <2>3, <2>4
<1>5. /\ wallet' = Receive(Receive(wallet, ch.challenger, reward + ch.stake),
                           Admin, slash - reward)
      /\ oracles' = [oracles EXCEPT ![o] = left]
      /\ challenges' = [challenges EXCEPT ![c] =
           [challenges[c] EXCEPT !.resolved = TRUE, !.stake = 0, !.slashed = slash]]
  BY DEF ResolveGuilty
<1> HIDE DEF slash, reward, left
<1>6. SumFunction(wallet)' = SumFunction(wallet) + ch.stake + slash
  <2>1. reward + ch.stake \in Nat /\ slash - reward \in Nat /\ Admin \in Accounts
    BY <1>1, <1>3, RegistryConstants
  <2>2. SumFunction(wallet)' = SumFunction(wallet) + (reward + ch.stake) + (slash - reward)
    BY <1>0, <1>1, <1>5, <2>1, PaymentsAdd
  <2> QED BY <1>0, <1>1, <1>3, <2>2
<1>7. SUIHeld'[o] = SUIHeld[o] - slash
  BY <1>0, <1>1, <1>2, <1>4, <1>5, OracleSentinel
     DEF SUIHeld, Registered, TypeOK, RegistryTypeOK
<1>8. SUIStaked[c] = ch.stake /\ SUIStaked'[c] = 0
  <2>1. SUIStaked[c] = ch.stake
    BY DEF SUIStaked, ResolveGuilty, Judgeable
  <2>2. challenges'[c].stake = 0
    BY <1>1, <1>5 DEF ChallengeRec, LedgerInv, TypeOK
  <2> QED BY <2>1, <2>2 DEF SUIStaked
<1>9. SumFunction(SUIHeld)' = SumFunction(SUIHeld) + SUIHeld'[o] - SUIHeld[o]
  BY <1>0, <1>1, <1>5, HeldChange
<1>10. SumFunction(SUIStaked)' = SumFunction(SUIStaked) + SUIStaked'[c] - SUIStaked[c]
  BY <1>0, <1>1, <1>5, StakedChange
<1>11. SUIHeld[o] \in Int
  BY <1>0, <1>1, CoinTypes
<1> HIDE DEF ch, o, info
<1> QED BY <1>0, <1>1, <1>3, <1>6, <1>7, <1>8, <1>9, <1>10, <1>11 DEF Coins

\* The other verdict: both payments are of the challenger's stake.
LEMMA InnocentKeepsCoins ==
  ASSUME LedgerInv, TypeOK', NEW c \in Challenges, ResolveInnocent(c)
  PROVE  Coins' = Coins
<1> DEFINE ch == challenges[c]
           penalty == ch.stake \div 2
<1>0. /\ SumFunction(wallet) \in Int /\ SumFunction(SUIHeld) \in Int
      /\ SumFunction(SUIStaked) \in Int /\ SumFunction(SUIStaked)' \in Int
      /\ wallet \in [Accounts -> Nat] /\ TypeOK
  BY CoinTypes, CoinTypesNext DEF LedgerInv, TypeOK, RegistryTypeOK
<1>1. ch \in ChallengeRec /\ ch.challenger \in Accounts /\ ch.stake \in Nat
  BY ChallengeSentinels
     DEF ResolveInnocent, Judgeable, Exists, LedgerInv, TypeOK, ChallengeRec
<1>2. penalty \in Nat /\ ch.stake - penalty \in Nat
  BY <1>1
<1>3. /\ wallet' = Receive(Receive(wallet, Admin, penalty),
                           ch.challenger, ch.stake - penalty)
      /\ challenges' = [challenges EXCEPT ![c] =
           [challenges[c] EXCEPT !.resolved = TRUE, !.stake = 0]]
      /\ oracles' = oracles
  BY DEF ResolveInnocent, StakeAfterInnocent, registryVars
<1> HIDE DEF penalty
<1>4. SumFunction(wallet)' = SumFunction(wallet) + ch.stake
  <2>1. Admin \in Accounts
    BY RegistryConstants
  <2>2. SumFunction(wallet)' = SumFunction(wallet) + penalty + (ch.stake - penalty)
    BY <1>0, <1>1, <1>2, <1>3, <2>1, PaymentsAdd
  <2> QED BY <1>0, <1>1, <1>2, <2>2
<1>5. SUIStaked[c] = ch.stake /\ SUIStaked'[c] = 0
  <2>1. SUIStaked[c] = ch.stake
    BY DEF SUIStaked, ResolveInnocent, Judgeable
  <2>2. challenges'[c].stake = 0
    BY <1>1, <1>3 DEF ChallengeRec, LedgerInv, TypeOK
  <2> QED BY <2>1, <2>2 DEF SUIStaked
<1>6. SumFunction(SUIStaked)' = SumFunction(SUIStaked) + SUIStaked'[c] - SUIStaked[c]
  BY <1>0, <1>3, StakedChange
<1>7. SumFunction(SUIHeld)' = SumFunction(SUIHeld)
  BY <1>3 DEF SUIHeld, Registered
<1> HIDE DEF ch
<1> QED BY <1>0, <1>1, <1>4, <1>5, <1>6, <1>7 DEF Coins

\* Opening a challenge moves its stake out of a wallet; a vote and the removal
\* of an empty object move nothing.
LEMMA ChallengesKeepCoins ==
  ASSUME LedgerInv, TypeOK', NEW c \in Challenges,
         \/ \E a, o \in Accounts, stake \in Amounts :
               CreateFraudChallenge(c, a, o, stake)
         \/ \E voter \in Accounts, guilty \in BOOLEAN :
               VoteOnChallenge(c, voter, guilty)
         \/ DeleteResolvedChallenge(c)
  PROVE  Coins' = Coins
<1>0. /\ SumFunction(wallet) \in Int /\ SumFunction(SUIHeld) \in Int
      /\ SumFunction(SUIStaked) \in Int /\ SumFunction(SUIStaked)' \in Int
      /\ SUIStaked[c] \in Int
      /\ wallet \in [Accounts -> Nat] /\ TypeOK
  BY CoinTypes, CoinTypesNext DEF LedgerInv, TypeOK, RegistryTypeOK
<1>1. ASSUME UNCHANGED oracles PROVE SumFunction(SUIHeld)' = SumFunction(SUIHeld)
  BY <1>1 DEF SUIHeld, Registered
<1>2. ASSUME NEW a \in Accounts, NEW o \in Accounts, NEW stake \in Amounts,
             CreateFraudChallenge(c, a, o, stake)
      PROVE  Coins' = Coins
  <2>1. stake \in Nat
    BY RegistryConstants
  <2>2. challenges'[c] \in ChallengeRec /\ challenges'[c].stake = stake
    BY <1>2, <2>1, ChallengeConstants DEF CreateFraudChallenge, LedgerInv, TypeOK, ChallengeRec
  <2>3. SUIStaked[c] = 0
    BY <1>2 DEF CreateFraudChallenge, SUIStaked, Exists
  <2>4. SUIStaked'[c] = stake
    BY <2>2, ChallengeSentinels DEF SUIStaked, Exists
  <2>5. SumFunction(SUIStaked)' = SumFunction(SUIStaked) + SUIStaked'[c] - SUIStaked[c]
    BY <1>0, <1>2, StakedChange DEF CreateFraudChallenge
  <2>6. SumFunction(wallet)' = SumFunction(wallet) - stake
    BY <1>0, <1>2, <2>1, PaySubtracts DEF CreateFraudChallenge
  <2>7. SumFunction(SUIHeld)' = SumFunction(SUIHeld)
    BY <1>1, <1>2 DEF CreateFraudChallenge, registryVars
  <2> QED BY <1>0, <2>1, <2>3, <2>4, <2>5, <2>6, <2>7 DEF Coins
<1>3. ASSUME NEW voter \in Accounts, NEW guilty \in BOOLEAN,
             VoteOnChallenge(c, voter, guilty)
      PROVE  Coins' = Coins
  <2>1. challenges[c] \in ChallengeRec
    BY <1>3 DEF VoteOnChallenge, Exists, LedgerInv, TypeOK
  <2>2. /\ challenges'[c] \in ChallengeRec
        /\ challenges'[c].stake = challenges[c].stake
        /\ challenges' = [challenges EXCEPT ![c] = challenges'[c]]
    <3>1. challenges' = [challenges EXCEPT ![c] = challenges'[c]]
      BY <1>3 DEF VoteOnChallenge, LedgerInv, TypeOK
    <3>2. challenges'[c] \in ChallengeRec
      <4> DEFINE ch == challenges[c]
                 g == IF guilty THEN ch.guilty + 1 ELSE ch.guilty
                 i == IF guilty THEN ch.innocent ELSE ch.innocent + 1
                 v == ch.voters \cup {voter}
      <4>1. challenges'[c] = [ch EXCEPT !.voters = v, !.guilty = g, !.innocent = i]
        BY <1>3 DEF VoteOnChallenge, LedgerInv, TypeOK
      <4>2. g \in Nat /\ i \in Nat /\ v \in SUBSET Accounts
        BY <2>1 DEF ChallengeRec
      <4> HIDE DEF g, i, v
      <4> QED BY <2>1, <4>1, <4>2 DEF ChallengeRec
    <3>3. challenges'[c].stake = challenges[c].stake
      BY <1>3, <2>1 DEF VoteOnChallenge, LedgerInv, TypeOK, ChallengeRec
    <3> QED BY <3>1, <3>2, <3>3
  <2>3. SUIStaked'[c] = SUIStaked[c]
    BY <1>3, <2>2, ChallengeSentinels DEF VoteOnChallenge, SUIStaked, Exists
  <2>4. SumFunction(SUIStaked)' = SumFunction(SUIStaked) + SUIStaked'[c] - SUIStaked[c]
    BY <1>0, <2>2, StakedChange
  <2>5. SumFunction(SUIHeld)' = SumFunction(SUIHeld) /\ wallet' = wallet
    BY <1>1, <1>3 DEF VoteOnChallenge, registryVars
  <2> QED BY <1>0, <2>3, <2>4, <2>5 DEF Coins
<1>4. ASSUME DeleteResolvedChallenge(c) PROVE Coins' = Coins
  <2>1. SUIStaked[c] = 0 /\ SUIStaked'[c] = 0
    BY <1>4 DEF DeleteResolvedChallenge, SUIStaked, Exists, LedgerInv, TypeOK
  <2>2. SumFunction(SUIStaked)' = SumFunction(SUIStaked) + SUIStaked'[c] - SUIStaked[c]
    BY <1>0, <1>4, StakedChange DEF DeleteResolvedChallenge
  <2>3. SumFunction(SUIHeld)' = SumFunction(SUIHeld) /\ wallet' = wallet
    BY <1>1, <1>4 DEF DeleteResolvedChallenge, registryVars
  <2> QED BY <1>0, <2>1, <2>2, <2>3 DEF Coins
<1> QED BY <1>2, <1>3, <1>4

\* Wallets, stakes of oracles and stakes of challenges hold together the coins
\* there were at the start: no slash, split or rounding makes or loses one.
THEOREM CoinConservation == Spec => []CoinsConserved
<1>1. Init => CoinsConserved
  <2> SUFFICES ASSUME Init PROVE CoinsConserved
    OBVIOUS
  <2>1. SumFunction(SUIHeld) = 0
    <3>1. SUIHeld = [o \in Accounts |-> 0]
      BY DEF Init, RegistryInit, SUIHeld, Registered
    <3> QED BY <3>1, FiniteIds, SumOfZeros
  <2>2. SumFunction(SUIStaked) = 0
    <3>1. SUIStaked = [c \in Challenges |-> 0]
      BY DEF Init, SUIStaked, Exists
    <3> QED BY <3>1, FiniteIds, SumOfZeros
  <2>3. SumFunction(InitialWallet) \in Int
    <3>1. InitialWallet \in [Accounts -> Int]
      BY RegistryConstants
    <3> QED BY <3>1, FiniteIds, SumType
  <2> QED BY <2>1, <2>2, <2>3 DEF Init, RegistryInit, CoinsConserved
<1>2. ASSUME LedgerInv, TypeOK', [Next]_vars PROVE Coins' = Coins
  <2>1. CASE UNCHANGED <<wallet, oracles, challenges>>
    BY <2>1 DEF Coins, SUIHeld, Registered, SUIStaked, Exists
  <2>2. CASE RegistryNext /\ UNCHANGED <<epoch, challenges>>
    BY <1>2, <2>2, RegistryKeepsCoins
  <2>3. ASSUME NEW c \in Challenges, ResolveGuilty(c) PROVE Coins' = Coins
    BY <1>2, <2>3, GuiltyKeepsCoins
  <2>4. ASSUME NEW c \in Challenges, ResolveInnocent(c) PROVE Coins' = Coins
    BY <1>2, <2>4, InnocentKeepsCoins
  <2>5. ASSUME NEW c \in Challenges,
               \/ \E a, o \in Accounts, stake \in Amounts :
                     CreateFraudChallenge(c, a, o, stake)
               \/ \E voter \in Accounts, guilty \in BOOLEAN :
                     VoteOnChallenge(c, voter, guilty)
               \/ DeleteResolvedChallenge(c)
        PROVE  Coins' = Coins
    BY <1>2, <2>5, ChallengesKeepCoins
  <2> QED
    BY <1>2, <2>1, <2>2, <2>3, <2>4, <2>5
       DEF Next, vars, registryVars, AdvanceEpoch
<1>3. LedgerInv /\ LedgerInv' /\ CoinsConserved /\ [Next]_vars => CoinsConserved'
  BY <1>2 DEF Coins, CoinsConserved, LedgerInv
<1> QED BY <1>1, <1>3, LedgerCorrect, PTL DEF Spec
=============================================================================
