--------------------------- MODULE OracleRegistry ---------------------------
(***************************************************************************)
(* The shared OracleRegistry object: sources/oracle_registry.move, with    *)
(* the capabilities it mints in sources/profile.move.                      *)
(*                                                                         *)
(* Every action is one Move transaction; an assert! is a conjunct of the   *)
(* guard.  Names, TEE hashes, the registration epoch and the Delegation    *)
(* receipts, which no function reads, are left out.  A schema list is a    *)
(* set: the code only asks whether it contains an id.                      *)
(***************************************************************************)
EXTENDS Integers, FiniteSets

CONSTANTS
  Accounts,        \* addresses
  Admin,           \* the deployer: registry.admin and registry.treasury
  SchemaIds,       \* schema ids
  Amounts,         \* coin amounts a transaction may carry
  NoOracle,        \* an address that is not in registry.oracles
  MinStake,        \* MIN_STAKE (1 SUI)
  InitialWallet    \* coins of each account before the first transaction

ASSUME RegistryConstants ==
  /\ Admin \in Accounts
  /\ Amounts \subseteq Nat
  /\ MinStake \in Nat
  /\ InitialWallet \in [Accounts -> Nat]

VARIABLES
  wallet,       \* SUI owned by each account
  oracles,      \* registry.oracles
  caps,         \* OracleCapability and SystemCapability objects
  council,      \* registry.council
  councilSize   \* registry.council_size

registryVars == <<oracles, caps, council, councilSize>>

OracleInfo == [schemas : SUBSET SchemaIds,
               staked : Nat,       \* staked_sui
               total : Nat,        \* total_stake
               reputation : Nat, slashes : Nat, system : BOOLEAN]

Capability == [oracle : Accounts, system : BOOLEAN, schemas : SUBSET SchemaIds]

ASSUME OracleSentinel == NoOracle \notin OracleInfo

Registered(o) == oracles[o] # NoOracle

Pay(w, a, x) == [w EXCEPT ![a] = @ - x]
Receive(w, a, x) == [w EXCEPT ![a] = @ + x]

Owns(a, x) == x <= wallet[a]

\* A system oracle gets by with a tenth of the stake.
MinRequired(system) == IF system THEN MinStake \div 10 ELSE MinStake

-----------------------------------------------------------------------------
RegistryInit ==
  /\ wallet = InitialWallet
  /\ oracles = [a \in Accounts |-> NoOracle]
  /\ caps = {}
  /\ council = {}
  /\ councilSize = 0

RegisterOracle(o, schemas, stake, system) ==
  /\ ~Registered(o)
  /\ system => o = Admin
  /\ stake >= MinRequired(system) /\ Owns(o, stake)
  /\ wallet' = Pay(wallet, o, stake)
  /\ oracles' = [oracles EXCEPT ![o] =
       [schemas |-> schemas, staked |-> stake, total |-> stake,
        reputation |-> 500, slashes |-> 0, system |-> system]]
  /\ caps' = caps \cup {[oracle |-> o, system |-> system, schemas |-> schemas]}
  /\ UNCHANGED <<council, councilSize>>

\* Mistaken: the old capability survives the issue of the new one.
ReissueKeepingOld(cap, new) == caps \cup {new}
Reissue(cap, new) == (caps \ {cap}) \cup {new}

\* add_schema_to_oracle and add_schema_to_system_oracle: the capability passed
\* in says which; it is consumed and one with the whole new list is minted.
AddSchema(cap, s) ==
  LET o == cap.oracle
      schemas == oracles[o].schemas \cup {s}
  IN  /\ cap \in caps
      /\ Registered(o)
      /\ oracles' = [oracles EXCEPT ![o].schemas = schemas]
      /\ caps' = Reissue(cap, [cap EXCEPT !.schemas = schemas])
      /\ UNCHANGED <<wallet, council, councilSize>>

Delegate(d, o, amount) ==
  /\ Registered(o)
  /\ Owns(d, amount)
  /\ wallet' = Pay(wallet, d, amount)
  /\ oracles' = [oracles EXCEPT ![o] =
       [oracles[o] EXCEPT !.staked = @ + amount, !.total = @ + amount]]
  /\ UNCHANGED <<caps, council, councilSize>>

\* By the admin; adding a member twice changes nothing.
AddCouncilMember(m) ==
  /\ council' = council \cup {m}
  /\ councilSize' = IF m \in council THEN councilSize ELSE councilSize + 1
  /\ UNCHANGED <<wallet, oracles, caps>>

RegistryNext ==
  \/ \E o \in Accounts, schemas \in SUBSET SchemaIds, stake \in Amounts,
        system \in BOOLEAN : RegisterOracle(o, schemas, stake, system)
  \/ \E cap \in caps, s \in SchemaIds : AddSchema(cap, s)
  \/ \E d, o \in Accounts, amount \in Amounts : Delegate(d, o, amount)
  \/ \E m \in Accounts : AddCouncilMember(m)

-----------------------------------------------------------------------------
(***************************************************************************)
(* slash_oracle_stake, called by fraud_challenge: the amount taken off an  *)
(* OracleInfo, the share of it for the challenger, and the OracleInfo that *)
(* remains.  Below one unit it does nothing.                               *)
(***************************************************************************)
SlashAmount(info, pct) == (info.total * pct) \div 100

SlashReward(info, pct, rewardPct) == (SlashAmount(info, pct) * rewardPct) \div 100

\* Mistaken: total_stake is not reduced with the balance.
SlashKeepingTotal(info, pct) ==
  [info EXCEPT !.staked = @ - SlashAmount(info, pct),
               !.slashes = @ + 1,
               !.reputation = (@ * (100 - pct)) \div 100]

SlashOracle(info, pct) ==
  IF SlashAmount(info, pct) = 0
  THEN info
  ELSE [info EXCEPT !.staked = @ - SlashAmount(info, pct),
                    !.total = @ - SlashAmount(info, pct),
                    !.slashes = @ + 1,
                    !.reputation = (@ * (100 - pct)) \div 100]

-----------------------------------------------------------------------------
\* The registry's variables have their types.
RegistryTypeOK ==
  /\ wallet \in [Accounts -> Nat]
  /\ oracles \in [Accounts -> OracleInfo \cup {NoOracle}]
  /\ caps \subseteq Capability
  /\ council \subseteq Accounts
  /\ councilSize \in Nat

\* The figure slashes are computed from is the coin balance they are taken
\* from, through any mix of delegations and slashes: balance::split in
\* slash_oracle_stake can never run short, which would block every later
\* verdict against the oracle.
StakeFigureMatchesBalance ==
  \A o \in Accounts : Registered(o) => oracles[o].total = oracles[o].staked

\* An oracle holds exactly one capability, and it lists exactly the schemas the
\* registry lists: score writes (checked against the capability) and
\* attestations (checked against the registry) agree on what an oracle may do.
CapabilityMatchesRegistry ==
  \A o \in Accounts :
    {c \in caps : c.oracle = o} =
      IF Registered(o)
      THEN {[oracle |-> o, system |-> oracles[o].system,
             schemas |-> oracles[o].schemas]}
      ELSE {}

=============================================================================
