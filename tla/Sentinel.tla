-------------------------------- MODULE Sentinel -------------------------------
(***************************************************************************)
(* What the dashboard's Node Sentinel says of the operator's gates and of  *)
(* the operator.  Each section derives its claim on its own, from the data *)
(* of the dashboard's read, from the identity of the connected wallet, or  *)
(* from both: risks, access and enforcement of both, the recommendation to *)
(* prove a character of the name the data carry.                           *)
(***************************************************************************)
EXTENDS Naturals, FiniteSets

CONSTANTS
    Wallets,       \* the wallets that may be connected
    MaxOpen        \* bound on open challenges

ASSUME SentinelAssumption == MaxOpen \in Nat

Bindings == {"unbound", "bound", "verified"}

\* What the indexer knows, as far as a claim depends on it.
AllFacts == [policy : BOOLEAN,          \* the first gate has a policy
             binding : Bindings,        \* the best binding status of a gate
             guilty : BOOLEAN,          \* a challenge resolved guilty
             open : 0..MaxOpen,         \* open challenges
             stale : BOOLEAN,           \* revoked proofs or unmapped vouchers
             profile : BOOLEAN,         \* there is a profile to show
             mapped : SUBSET Wallets,   \* wallets with a character
             named : SUBSET Wallets]    \* wallets whose character has a name

\* FW_DATA: what the page shows before the first read and after a failed one.
FW_DATA == [policy |-> FALSE, binding |-> "unbound", guilty |-> FALSE, open |-> 0,
            stale |-> FALSE, profile |-> FALSE, mapped |-> {}, named |-> {}]

HasConfirmedWorldGateBinding(d) == d.binding = "verified"

\* deriveRisks: challenges, then the identity, proofs and vouches, the topology.
Risk(severity, category, n) == [severity |-> severity, category |-> category, n |-> n]

\* n tells findings of one kind apart.  Every alert of an open challenge speaks of
\* fraud, so none is of category counterparty.
Risks(d, character) ==
    (IF d.guilty THEN {Risk("critical", "fraud", 1)} ELSE {})
    \cup {Risk("high", "fraud", n) : n \in 1..d.open}
    \cup (IF character THEN {} ELSE {Risk("high", "mapping", 1)})
    \cup (IF d.stale THEN {Risk("medium", "attestation", 1)} ELSE {})
    \cup (IF HasConfirmedWorldGateBinding(d) THEN {}
          ELSE {Risk("medium", "policy", 1), Risk("medium", "policy", 2)})

Severe(risks, severity) == {r \in risks : r.severity = severity}

\* trustFabricStatus.
FabricStatus(d, character) ==
    IF Severe(Risks(d, character), "critical") # {} THEN "critical"
    ELSE IF Risks(d, character) # {} THEN "degraded" ELSE "healthy"

\* deriveAccessRisk.
OverallRisk(d, character) ==
    LET risks == Risks(d, character) IN
    IF Severe(risks, "critical") # {} \/ Cardinality(Severe(risks, "high")) > 1 THEN "high"
    ELSE IF risks # {} THEN "medium" ELSE "low"

\* mapPilot: the profile carries the name of the wallet's character, which the
\* data keep without the identity it came with.
PilotNamed(d, wallet) == d.profile /\ wallet \in d.named

\* deriveRecommendations: a character has to be proved.
RecommendsProof(d, wallet) == ~PilotNamed(d, wallet)

\* deriveEnforcement.
Blockers(d, character) ==
    (IF d.policy THEN {} ELSE {"no_policy_set"})
    \cup (IF character THEN {} ELSE {"missing_character_mapping"})
    \cup (IF HasConfirmedWorldGateBinding(d) THEN {} ELSE {"missing_world_gate_link"})

CanEnforce(d, character) == Blockers(d, character) = {}

===============================================================================
