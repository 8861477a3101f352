--------------------------- MODULE FraudChallenge ---------------------------
(***************************************************************************)
(* Fraud challenges against oracles, judged by the council:                *)
(* sources/fraud_challenge.move over the registry of OracleRegistry.       *)
(*                                                                         *)
(* A FraudChallenge is a shared object: any account may call the functions *)
(* on it in any order.  The attestation it cites and the evidence hash are *)
(* stored but never read, and are left out.                                *)
(***************************************************************************)
EXTENDS OracleRegistry, Functions

CONSTANTS
  Challenges,     \* object ids
  NoChallenge,    \* an id not in use
  DeletedChallenge, \* an id whose object was deleted
  Window,         \* CHALLENGE_WINDOW_EPOCHS (7)
  SlashPct,       \* SLASH_PERCENTAGE (10)
  RewardPct,      \* CHALLENGER_REWARD_PERCENTAGE (50)
  MaxEpoch        \* bound on the epochs explored

ASSUME ChallengeConstants ==
  /\ Window \in Nat /\ MaxEpoch \in Nat
  /\ SlashPct \in 0..100 /\ RewardPct \in 0..100
  /\ MinStake >= 2     \* 1 SUI in the code: half of it is not zero

\* The chain holds finitely many objects.
ASSUME FiniteIds == IsFiniteSet(Accounts) /\ IsFiniteSet(Challenges)

VARIABLES
  epoch,       \* tx_context::epoch
  challenges   \* FraudChallenge objects

vars == <<wallet, registryVars, epoch, challenges>>

ChallengeRec ==
  [oracle : Accounts, challenger : Accounts, stake : Nat,
   guilty : Nat, innocent : Nat, voters : SUBSET Accounts,
   deadline : Nat, resolved : BOOLEAN, slashed : Nat]

ASSUME ChallengeSentinels ==
  /\ NoChallenge \notin ChallengeRec /\ DeletedChallenge \notin ChallengeRec
  /\ NoChallenge # DeletedChallenge

Exists(c) == challenges[c] \notin {NoChallenge, DeletedChallenge}
Votes(ch) == ch.guilty + ch.innocent

MayVote(ch, a) == a \in council /\ a \notin ch.voters

\* Mistaken: an empty tally is a verdict as well.
HasTally(ch) == Votes(ch) >= 0
HasVotes(ch) == Votes(ch) > 0

\* Mistaken: a third of the council is enough.
QuorumOfAThird == LET raw == councilSize \div 3 IN IF raw = 0 THEN 1 ELSE raw

\* Two thirds of the council as it is now, not as it was when votes were cast.
Quorum == LET raw == (councilSize * 2) \div 3 IN IF raw = 0 THEN 1 ELSE raw

IsGuilty(ch) == Votes(ch) >= Quorum /\ ch.guilty >= Quorum

-----------------------------------------------------------------------------
Init ==
  /\ RegistryInit
  /\ epoch = 0
  /\ challenges = [c \in Challenges |-> NoChallenge]

AdvanceEpoch ==
  /\ epoch < MaxEpoch
  /\ epoch' = epoch + 1
  /\ UNCHANGED <<wallet, registryVars, challenges>>

CreateFraudChallenge(c, challenger, o, stake) ==
  /\ challenges[c] = NoChallenge
  /\ Registered(o)
  /\ stake >= MinStake \div 2 /\ Owns(challenger, stake)
  /\ wallet' = Pay(wallet, challenger, stake)
  /\ challenges' = [challenges EXCEPT ![c] =
       [oracle |-> o, challenger |-> challenger, stake |-> stake,
        guilty |-> 0, innocent |-> 0, voters |-> {},
        deadline |-> epoch + Window, resolved |-> FALSE, slashed |-> 0]]
  /\ UNCHANGED <<registryVars, epoch>>

VoteOnChallenge(c, voter, guilty) ==
  /\ Exists(c)
  /\ MayVote(challenges[c], voter)
  /\ epoch <= challenges[c].deadline
  /\ ~challenges[c].resolved
  /\ challenges' = [challenges EXCEPT
       ![c].voters = @ \cup {voter},
       ![c].guilty = IF guilty THEN @ + 1 ELSE @,
       ![c].innocent = IF guilty THEN @ ELSE @ + 1]
  /\ UNCHANGED <<wallet, registryVars, epoch>>

Judgeable(c) ==
  /\ Exists(c)
  /\ epoch > challenges[c].deadline
  /\ ~challenges[c].resolved
  /\ HasVotes(challenges[c])

\* The slash is split between challenger and treasury and the challenger gets
\* the stake back.
ResolveGuilty(c) ==
  LET ch == challenges[c]
      info == oracles[ch.oracle]
      slash == SlashAmount(info, SlashPct)
      reward == SlashReward(info, SlashPct, RewardPct)
  IN  /\ Judgeable(c)
      /\ IsGuilty(ch)
      /\ wallet' = Receive(Receive(wallet, ch.challenger, reward + ch.stake),
                           Admin, slash - reward)
      /\ oracles' = [oracles EXCEPT ![ch.oracle] = SlashOracle(info, SlashPct)]
      /\ challenges' = [challenges EXCEPT ![c].resolved = TRUE,
                          ![c].stake = 0, ![c].slashed = slash]
      /\ UNCHANGED <<caps, council, councilSize, epoch>>

\* Mistaken: what remains of the stake is left in the object.
StakeLeftBehind(ch) == ch.stake - (ch.stake \div 2)
StakeAfterInnocent(ch) == 0

\* Half of the challenger's stake, rounded down, goes to the treasury.
ResolveInnocent(c) ==
  LET ch == challenges[c]
      penalty == ch.stake \div 2
  IN  /\ Judgeable(c)
      /\ ~IsGuilty(ch)
      /\ wallet' = Receive(Receive(wallet, Admin, penalty),
                           ch.challenger, ch.stake - penalty)
      /\ challenges' = [challenges EXCEPT ![c].resolved = TRUE,
                          ![c].stake = StakeAfterInnocent(ch)]
      /\ UNCHANGED <<registryVars, epoch>>

\* destroy_zero aborts when the stake was not drained.
DeleteResolvedChallenge(c) ==
  /\ Exists(c)
  /\ challenges[c].resolved
  /\ challenges[c].stake = 0
  /\ challenges' = [challenges EXCEPT ![c] = DeletedChallenge]
  /\ UNCHANGED <<wallet, registryVars, epoch>>

Next ==
  \/ AdvanceEpoch
  \/ RegistryNext /\ UNCHANGED <<epoch, challenges>>
  \/ \E c \in Challenges, a, o \in Accounts, stake \in Amounts :
        CreateFraudChallenge(c, a, o, stake)
  \/ \E c \in Challenges, voter \in Accounts, guilty \in BOOLEAN :
        VoteOnChallenge(c, voter, guilty)
  \/ \E c \in Challenges : ResolveGuilty(c)
  \/ \E c \in Challenges : ResolveInnocent(c)
  \/ \E c \in Challenges : DeleteResolvedChallenge(c)

Spec == Init /\ [][Next]_vars

-----------------------------------------------------------------------------
\* Every variable has its type.
TypeOK ==
  /\ RegistryTypeOK
  /\ epoch \in Nat
  /\ challenges \in
       [Challenges -> ChallengeRec \cup {NoChallenge, DeletedChallenge}]

\* The tally is exactly one vote per council member who voted, however votes,
\* additions to the council and epochs interleave.
TallyIsTheCouncils ==
  /\ councilSize = Cardinality(council)
  /\ \A c \in Challenges : Exists(c) =>
       /\ challenges[c].voters \subseteq council
       /\ Votes(challenges[c]) = Cardinality(challenges[c].voters)

\* The challenger's stake is in the object until the verdict and has left it
\* entirely afterwards, so that delete_resolved_challenge (destroy_zero) always
\* succeeds on a resolved challenge.
StakeHeldUntilVerdict ==
  \A c \in Challenges : Exists(c) =>
    IF challenges[c].resolved THEN challenges[c].stake = 0
                              ELSE challenges[c].stake >= MinStake \div 2

\* An oracle loses stake only by the verdict on a challenge against it, after
\* the voting window, when at least half of today's council found it guilty and
\* no fewer members voted guilty than innocent.
SlashedOnlyByTheCouncil ==
  [][\A o \in Accounts :
       Registered(o) /\ oracles'[o].staked < oracles[o].staked =>
         \E c \in Challenges :
            /\ Exists(c) /\ challenges[c].oracle = o
            /\ ~challenges[c].resolved /\ challenges'[c].resolved
            /\ epoch > challenges[c].deadline
            /\ 2 * challenges[c].guilty >= councilSize
            /\ challenges[c].guilty >= challenges[c].innocent]_vars

\* Without a vote there is no verdict (the comment at
\* fraud_challenge.move:140-142).  The other side of it: once the window is
\* over, a challenge nobody voted on never changes again, and its stake stays.
NoVerdictWithoutVote ==
  [][\A c \in Challenges :
       Exists(c) /\ epoch > challenges[c].deadline /\ Votes(challenges[c]) = 0 =>
         challenges'[c] = challenges[c]]_vars

\* SUI staked by each oracle, and by the challenger of each challenge.
SUIHeld == [o \in Accounts |-> IF Registered(o) THEN oracles[o].staked ELSE 0]
SUIStaked == [c \in Challenges |-> IF Exists(c) THEN challenges[c].stake ELSE 0]

\* Registration, delegation, challenges and verdicts move coins and neither
\* create nor destroy any.
CoinsConserved ==
  SumFunction(wallet) + SumFunction(SUIHeld) + SumFunction(SUIStaked)
    = SumFunction(InitialWallet)
=============================================================================
