---------------------------- MODULE ReputationGate ----------------------------
(***************************************************************************)
(* GatePolicy and GateAdminCap objects: sources/reputation_gate.move, over *)
(* the attestations travelers present.  An attempt that aborts leaves no   *)
(* trace on the chain, the PassageDenied event it emitted included, and is *)
(* not a step.                                                             *)
(***************************************************************************)
EXTENDS Attestations

CONSTANTS
  Gates,           \* ids of GatePolicy objects
  WorldGates,      \* ids of world Gate objects
  NoGate,          \* an id that is not used yet
  Thresholds,      \* ally thresholds an owner may ask for
  TollAmounts,     \* base tolls an owner may ask for
  InitialWallet    \* coins of each account before the first transaction

ASSUME GateConstants ==
  /\ Thresholds \subseteq Nat /\ TollAmounts \subseteq Nat
  /\ None \notin WorldGates
  /\ InitialWallet \in [Accounts -> Nat]

VARIABLES
  gates,       \* the GatePolicy objects, shared
  capHolder,   \* who holds the GateAdminCap of each gate
  wallet       \* SUI owned by each account

gateVars == <<gates, capHolder, wallet>>
vars == <<schemaVars, attestationVars, gateVars, emitted>>

GatePolicy == [owner : Accounts, schema : SchemaIds, ally : Nat \ {0}, toll : Nat,
               treasury : Nat, paused : BOOLEAN, boundTo : WorldGates \cup {None}]

ASSUME GateSentinel == NoGate \notin GatePolicy

Deployed(g) == gates[g] # NoGate

\* The caller presents the cap of this gate; whoever holds it now.
IsGateAdmin(sender, g) == Deployed(g) /\ capHolder[g] = sender

Init ==
  /\ SchemaRegistryInit
  /\ AttestationsInit
  /\ gates = [g \in Gates |-> NoGate]
  /\ capHolder = [g \in Gates |-> None]
  /\ wallet = InitialWallet
  /\ emitted = <<>>

-----------------------------------------------------------------------------
CreateGate(sender, g, s, ally, toll) ==
  /\ ~Deployed(g)
  /\ ally > 0
  /\ gates' = [gates EXCEPT ![g] =
       [owner |-> sender, schema |-> s, ally |-> ally, toll |-> toll,
        treasury |-> 0, paused |-> FALSE, boundTo |-> None]]
  /\ capHolder' = [capHolder EXCEPT ![g] = sender]
  /\ emitted' = <<>>
  /\ UNCHANGED wallet

\* The cap has the ability store: it can be given away or sold.
TransferCap(sender, g, to) ==
  /\ IsGateAdmin(sender, g)
  /\ capHolder' = [capHolder EXCEPT ![g] = to]
  /\ emitted' = <<>>
  /\ UNCHANGED <<gates, wallet>>

\* Mistaken: any attestation the sender can use will do.
AnyoneMayPresent(sender, g, a) ==
  attestations[a].schema = gates[g].schema /\ IsValid(a) /\ attestations[a].value > 0

\* The checks of check_passage on the attestation.
MayPresent(sender, g, a) ==
  /\ attestations[a].schema = gates[g].schema
  /\ attestations[a].subject = sender
  /\ IsValid(a)
  /\ attestations[a].value > 0

CoversToll(sender, toll) == wallet[sender] >= toll

IsAlly(g, score) == score >= gates[g].ally
TollFor(g, score) == IF IsAlly(g, score) THEN 0 ELSE gates[g].toll

CheckPassage(sender, g, a) ==
  LET score == attestations[a].value
      toll == TollFor(g, score)
  IN  /\ Deployed(g) /\ ~gates[g].paused
      /\ Exists(a) /\ Usable(sender, a)
      /\ MayPresent(sender, g, a)
      /\ CoversToll(sender, toll)
      /\ wallet' = [wallet EXCEPT ![sender] = @ - toll]
      /\ gates' = [gates EXCEPT ![g] = [gates[g] EXCEPT !.treasury = @ + toll]]
      /\ emitted' = <<[type |-> "PassageGranted", gate |-> g, traveler |-> sender,
                       score |-> score, toll |-> toll]>>
      /\ UNCHANGED capHolder

UpdateThresholds(sender, g, ally, toll) ==
  /\ IsGateAdmin(sender, g)
  /\ ally > 0
  /\ gates' = [gates EXCEPT ![g] = [gates[g] EXCEPT !.ally = ally, !.toll = toll]]
  /\ emitted' = <<[type |-> "GateConfigUpdated", gate |-> g, ally |-> ally,
                   toll |-> toll]>>
  /\ UNCHANGED <<capHolder, wallet>>

\* pause and unpause.
SetPaused(sender, g, paused) ==
  /\ IsGateAdmin(sender, g)
  /\ gates' = [gates EXCEPT ![g] = [gates[g] EXCEPT !.paused = paused]]
  /\ emitted' = <<>>
  /\ UNCHANGED <<capHolder, wallet>>

\* Mistaken: the treasury is paid to the holder of the cap.
PayeeIsCapHolder(g) == capHolder[g]
Payee(g) == gates[g].owner

WithdrawTolls(sender, g) ==
  LET amount == gates[g].treasury IN
  /\ IsGateAdmin(sender, g)
  /\ gates' = [gates EXCEPT ![g] = [gates[g] EXCEPT !.treasury = @ - amount]]
  /\ wallet' = [wallet EXCEPT ![Payee(g)] = @ + amount]
  /\ emitted' = <<[type |-> "TollsWithdrawn", gate |-> g, amount |-> amount]>>
  /\ UNCHANGED capHolder

BindWorldGate(sender, g, w) ==
  /\ IsGateAdmin(sender, g)
  /\ gates[g].boundTo = None
  /\ gates' = [gates EXCEPT ![g] = [gates[g] EXCEPT !.boundTo = w]]
  /\ emitted' = <<[type |-> "GatePolicyBoundToWorldGate", gate |-> g, world |-> w]>>
  /\ UNCHANGED <<capHolder, wallet>>

UnbindWorldGate(sender, g) ==
  /\ IsGateAdmin(sender, g)
  /\ gates[g].boundTo # None
  /\ gates' = [gates EXCEPT ![g] = [gates[g] EXCEPT !.boundTo = None]]
  /\ emitted' = <<[type |-> "GatePolicyUnboundFromWorldGate", gate |-> g,
                   world |-> gates[g].boundTo]>>
  /\ UNCHANGED <<capHolder, wallet>>

GateNext ==
  \E sender \in Accounts, g \in Gates :
    \/ \E s \in SchemaIds, ally \in Thresholds, toll \in TollAmounts :
         CreateGate(sender, g, s, ally, toll)
    \/ \E to \in Accounts : TransferCap(sender, g, to)
    \/ \E a \in AttestationIds : CheckPassage(sender, g, a)
    \/ \E ally \in Thresholds, toll \in TollAmounts : UpdateThresholds(sender, g, ally, toll)
    \/ \E paused \in BOOLEAN : SetPaused(sender, g, paused)
    \/ WithdrawTolls(sender, g)
    \/ \E w \in WorldGates : BindWorldGate(sender, g, w)
    \/ UnbindWorldGate(sender, g)

Next ==
  \/ SchemaRegistryNext /\ UNCHANGED <<attestationVars, gateVars>>
  \/ AttestationsNext /\ UNCHANGED <<schemaVars, gateVars>>
  \/ GateNext /\ UNCHANGED <<schemaVars, attestationVars>>

Spec == Init /\ [][Next]_vars

-----------------------------------------------------------------------------
TypeOK ==
  /\ SchemaRegistryTypeOK
  /\ AttestationsTypeOK
  /\ gates \in [Gates -> GatePolicy \cup {NoGate}]
  /\ capHolder \in [Gates -> Accounts \cup {None}]
  /\ wallet \in [Accounts -> Nat]

\* Nobody passes on another's standing: whoever a gate lets through holds a
\* valid attestation about itself, of the schema the gate asks for and from an
\* issuer that answers for that schema, and pays what its score costs under
\* the thresholds in force.
PassageRestsOnOwnStanding ==
  [][\A k \in DOMAIN emitted' : emitted'[k].type = "PassageGranted" =>
       LET p == emitted'[k] IN
       \E a \in AttestationIds :
         /\ Exists(a) /\ IsValid(a)
         /\ attestations[a].subject = p.traveler /\ p.score = attestations[a].value
         /\ attestations[a].schema = gates[p.gate].schema
         /\ <<attestations[a].issuer, gates[p.gate].schema>> \in issuers
         /\ p.score < gates[p.gate].ally =>
              wallet[p.traveler] - wallet'[p.traveler] = gates[p.gate].toll
    ]_vars

\* Tolls leave a gate whole and to its owner, also after the cap was sold.
TollsReachTheOwner ==
  [][\A g \in Gates : Deployed(g) /\ gates'[g].treasury < gates[g].treasury =>
       wallet'[gates[g].owner] = wallet[gates[g].owner] + gates[g].treasury]_vars

\* An attestation that no longer opens gates never opens one again.
InvalidForGood ==
  [][\A a \in AttestationIds : Exists(a) /\ ~IsValid(a) => ~IsValid(a)']_vars
=============================================================================
