-------------------------- MODULE ReputationGateProofs --------------------------
(***************************************************************************)
(* Proofs about the gates, the attestations and the schema registry, for   *)
(* any accounts, schemas, attestations, gates, thresholds and tolls.       *)
(***************************************************************************)
EXTENDS TrustGate, WellFoundedInduction, TLAPS

USE DEF schemaVars, attestationVars, gateVars

-----------------------------------------------------------------------------
(* One lemma for each module whose variables move: the others stay typed.  *)

LEMMA SchemaStepTyped ==
  ASSUME TypeOK, SchemaRegistryNext, UNCHANGED <<attestationVars, gateVars>>
  PROVE  TypeOK'
<1>1. SchemaRegistryTypeOK'
  <2> USE DEF TypeOK, SchemaRegistryTypeOK
  <2>1. PICK sender \in Accounts :
          \/ \E s \in SchemaIds, resolver \in Accounts \cup {None}, revocable \in BOOLEAN :
               RegisterSchema(sender, s, resolver, revocable)
          \/ \E old, new \in SchemaIds : DeprecateSchema(sender, old, new)
          \/ \E g \in Accounts : TransferToGovernance(sender, g)
    BY DEF SchemaRegistryNext
  <2>2. ASSUME NEW s \in SchemaIds, NEW resolver \in Accounts \cup {None},
               NEW revocable \in BOOLEAN, RegisterSchema(sender, s, resolver, revocable)
        PROVE  SchemaRegistryTypeOK'
    <3>1. [supersededBy |-> None, resolver |-> resolver, revocable |-> revocable] \in Schema
      BY DEF Schema
    <3> QED BY <2>2, <3>1 DEF RegisterSchema
  <2>3. ASSUME NEW old \in SchemaIds, NEW new \in SchemaIds, DeprecateSchema(sender, old, new)
        PROVE  SchemaRegistryTypeOK'
    <3>1. schemas[old] \in Schema
      BY <2>3 DEF DeprecateSchema, Known
    <3>2. [schemas[old] EXCEPT !.supersededBy = new] \in Schema
      BY <3>1 DEF Schema
    <3>3. schemas' = [schemas EXCEPT ![old] = [schemas[old] EXCEPT !.supersededBy = new]]
      BY <2>3 DEF DeprecateSchema
    <3> QED BY <2>3, <3>2, <3>3 DEF DeprecateSchema
  <2>4. ASSUME NEW g \in Accounts, TransferToGovernance(sender, g)
        PROVE  SchemaRegistryTypeOK'
    BY <2>4 DEF TransferToGovernance, AdminAfterTransfer
  <2> QED BY <2>1, <2>2, <2>3, <2>4
<1> QED BY <1>1 DEF TypeOK, AttestationsTypeOK

LEMMA AttestationStepTyped ==
  ASSUME TypeOK, AttestationsNext, UNCHANGED <<schemaVars, gateVars>>
  PROVE  TypeOK'
<1> USE AttestationConstants
<1>1. AttestationsTypeOK'
  <2> USE DEF TypeOK, AttestationsTypeOK
  <2>1. ASSUME AdvanceEpoch PROVE AttestationsTypeOK'
    BY <2>1 DEF AdvanceEpoch
  <2>2. ASSUME NEW o \in Accounts, NEW s \in SchemaIds, Authorize(o, s)
        PROVE  AttestationsTypeOK'
    BY <2>2 DEF Authorize
  <2>3. ASSUME NEW sender \in Accounts, NEW subject \in Accounts, NEW a \in AttestationIds,
               NEW s \in SchemaIds, NEW value \in Values, NEW term \in Terms,
               NEW holder \in Accounts \cup {Shared},
               Issue(sender, a, s, subject, value, term, holder)
        PROVE  AttestationsTypeOK'
    <3>1. [schema |-> s, issuer |-> sender, subject |-> subject, value |-> value,
           expires |-> epoch + term, revoked |-> FALSE, holder |-> holder] \in Attestation
      BY DEF Attestation
    <3> QED BY <2>3, <3>1 DEF Issue
  <2>4. ASSUME NEW sender \in Accounts, NEW a \in AttestationIds, Revoke(sender, a)
        PROVE  AttestationsTypeOK'
    <3>1. attestations[a] \in Attestation
      BY <2>4 DEF Revoke, Exists
    <3>2. Revoked(a) \in Attestation
      BY <3>1 DEF Revoked, Attestation
    <3> QED BY <2>4, <3>2 DEF Revoke
  <2>5. ASSUME NEW sender \in Accounts, NEW a \in AttestationIds,
               NEW to \in Accounts \cup {Shared}, TransferAttestation(sender, a, to)
        PROVE  AttestationsTypeOK'
    <3>1. attestations[a] \in Attestation
      BY <2>5 DEF TransferAttestation, Exists
    <3>2. [attestations[a] EXCEPT !.holder = to] \in Attestation
      BY <3>1 DEF Attestation
    <3>3. attestations' = [attestations EXCEPT ![a] = [attestations[a] EXCEPT !.holder = to]]
      BY <2>5 DEF TransferAttestation
    <3> QED BY <2>5, <3>2, <3>3 DEF TransferAttestation
  <2> QED BY <2>1, <2>2, <2>3, <2>4, <2>5 DEF AttestationsNext
<1> QED BY <1>1 DEF TypeOK, SchemaRegistryTypeOK

\* A gate whose fields are overwritten with values of their types is a gate.
LEMMA GateFields ==
  ASSUME NEW gate \in GatePolicy
  PROVE  /\ \A x \in Nat : [gate EXCEPT !.treasury = x] \in GatePolicy
         /\ \A x \in Nat \ {0}, y \in Nat : [gate EXCEPT !.ally = x, !.toll = y] \in GatePolicy
         /\ \A x \in BOOLEAN : [gate EXCEPT !.paused = x] \in GatePolicy
         /\ \A x \in WorldGates \cup {None} : [gate EXCEPT !.boundTo = x] \in GatePolicy
BY DEF GatePolicy

LEMMA DeployedIsGate ==
  ASSUME TypeOK, NEW g \in Gates, Deployed(g)
  PROVE  /\ gates[g] \in GatePolicy
         /\ gates[g].owner \in Accounts /\ gates[g].treasury \in Nat
         /\ gates[g].toll \in Nat /\ gates[g].ally \in Nat \ {0}
<1>1. gates[g] \in GatePolicy
  BY DEF TypeOK, Deployed
<1> QED BY <1>1 DEF GatePolicy

LEMMA ExistingIsAttestation ==
  ASSUME TypeOK, NEW a \in AttestationIds, Exists(a)
  PROVE  /\ attestations[a] \in Attestation
         /\ attestations[a].value \in Nat /\ attestations[a].expires \in Nat
<1>1. attestations[a] \in Attestation
  BY DEF TypeOK, AttestationsTypeOK, Exists
<1> QED BY <1>1 DEF Attestation

LEMMA GateStepTyped ==
  ASSUME TypeOK, GateNext, UNCHANGED <<schemaVars, attestationVars>>
  PROVE  TypeOK'
<1> DEFINE GateTypeOK == /\ gates \in [Gates -> GatePolicy \cup {NoGate}]
                         /\ capHolder \in [Gates -> Accounts \cup {None}]
                         /\ wallet \in [Accounts -> Nat]
<1> USE GateConstants
<1>1. PICK sender \in Accounts, g \in Gates :
        \/ \E s \in SchemaIds, ally \in Thresholds, toll \in TollAmounts :
             CreateGate(sender, g, s, ally, toll)
        \/ \E to \in Accounts : TransferCap(sender, g, to)
        \/ \E a \in AttestationIds : CheckPassage(sender, g, a)
        \/ \E ally \in Thresholds, toll \in TollAmounts : UpdateThresholds(sender, g, ally, toll)
        \/ \E paused \in BOOLEAN : SetPaused(sender, g, paused)
        \/ WithdrawTolls(sender, g)
        \/ \E w \in WorldGates : BindWorldGate(sender, g, w)
        \/ UnbindWorldGate(sender, g)
  BY DEF GateNext
<1>2. ASSUME NEW s \in SchemaIds, NEW ally \in Thresholds, NEW toll \in TollAmounts,
             CreateGate(sender, g, s, ally, toll)
      PROVE  GateTypeOK'
  <2>1. [owner |-> sender, schema |-> s, ally |-> ally, toll |-> toll,
         treasury |-> 0, paused |-> FALSE, boundTo |-> None] \in GatePolicy
    BY <1>2 DEF CreateGate, GatePolicy
  <2> QED BY <1>2, <2>1 DEF CreateGate, TypeOK
<1>3. ASSUME NEW to \in Accounts, TransferCap(sender, g, to)
      PROVE  GateTypeOK'
  BY <1>3 DEF TransferCap, TypeOK
<1>4. ASSUME NEW a \in AttestationIds, CheckPassage(sender, g, a)
      PROVE  GateTypeOK'
  <2> DEFINE toll == TollFor(g, attestations[a].value)
  <2>1. gates[g] \in GatePolicy /\ gates[g].treasury \in Nat /\ gates[g].toll \in Nat
    BY <1>4, DeployedIsGate DEF CheckPassage
  <2>2. toll \in Nat
    BY <2>1 DEF TollFor
  <2> HIDE DEF toll
  <2>3. /\ toll <= wallet[sender]
        /\ wallet' = [wallet EXCEPT ![sender] = @ - toll]
        /\ gates' = [gates EXCEPT ![g] = [gates[g] EXCEPT !.treasury = @ + toll]]
        /\ capHolder' = capHolder
    BY <1>4 DEF CheckPassage, CoversToll, toll
  <2>4. wallet' \in [Accounts -> Nat]
    BY <2>2, <2>3 DEF TypeOK
  <2>5. [gates[g] EXCEPT !.treasury = gates[g].treasury + toll] \in GatePolicy
    <3>1. gates[g].treasury + toll \in Nat
      BY <2>1, <2>2
    <3> QED BY <2>1, <3>1, GateFields
  <2>6. gates' \in [Gates -> GatePolicy \cup {NoGate}]
    BY <2>3, <2>5 DEF TypeOK
  <2> QED BY <2>3, <2>4, <2>6 DEF TypeOK
<1>5. ASSUME NEW ally \in Thresholds, NEW toll \in TollAmounts,
             UpdateThresholds(sender, g, ally, toll)
      PROVE  GateTypeOK'
  <2>1. gates[g] \in GatePolicy /\ ally \in Nat \ {0} /\ toll \in Nat
    BY <1>5, DeployedIsGate DEF UpdateThresholds, IsGateAdmin
  <2>2. [gates[g] EXCEPT !.ally = ally, !.toll = toll] \in GatePolicy
    BY <2>1, GateFields
  <2> QED BY <1>5, <2>2 DEF UpdateThresholds, TypeOK
<1>6. ASSUME NEW paused \in BOOLEAN, SetPaused(sender, g, paused)
      PROVE  GateTypeOK'
  <2>1. [gates[g] EXCEPT !.paused = paused] \in GatePolicy
    BY <1>6, DeployedIsGate, GateFields DEF SetPaused, IsGateAdmin
  <2> QED BY <1>6, <2>1 DEF SetPaused, TypeOK
<1>7. ASSUME WithdrawTolls(sender, g)
      PROVE  GateTypeOK'
  <2>1. /\ gates[g] \in GatePolicy /\ gates[g].treasury \in Nat
        /\ gates[g].owner \in Accounts
    BY <1>7, DeployedIsGate DEF WithdrawTolls, IsGateAdmin
  <2>2. [gates[g] EXCEPT !.treasury = gates[g].treasury - gates[g].treasury] \in GatePolicy
    <3>1. gates[g].treasury - gates[g].treasury \in Nat
      BY <2>1
    <3> QED BY <2>1, <3>1, GateFields
  <2>3. gates' \in [Gates -> GatePolicy \cup {NoGate}]
    BY <1>7, <2>2 DEF WithdrawTolls, TypeOK
  <2>4. wallet' \in [Accounts -> Nat]
    BY <1>7, <2>1 DEF WithdrawTolls, Payee, TypeOK
  <2> QED BY <1>7, <2>3, <2>4 DEF WithdrawTolls, TypeOK
<1>8. ASSUME NEW w \in WorldGates, BindWorldGate(sender, g, w)
      PROVE  GateTypeOK'
  <2>1. [gates[g] EXCEPT !.boundTo = w] \in GatePolicy
    BY <1>8, DeployedIsGate, GateFields DEF BindWorldGate, IsGateAdmin
  <2> QED BY <1>8, <2>1 DEF BindWorldGate, TypeOK
<1>9. ASSUME UnbindWorldGate(sender, g)
      PROVE  GateTypeOK'
  <2>1. [gates[g] EXCEPT !.boundTo = None] \in GatePolicy
    BY <1>9, DeployedIsGate, GateFields DEF UnbindWorldGate, IsGateAdmin
  <2> QED BY <1>9, <2>1 DEF UnbindWorldGate, TypeOK
<1>10. GateTypeOK'
  BY <1>1, <1>2, <1>3, <1>4, <1>5, <1>6, <1>7, <1>8, <1>9
<1> QED BY <1>10 DEF TypeOK, SchemaRegistryTypeOK, AttestationsTypeOK

LEMMA StepTyped ==
  ASSUME TypeOK, Next
  PROVE  TypeOK'
BY SchemaStepTyped, AttestationStepTyped, GateStepTyped DEF Next

-----------------------------------------------------------------------------
\* Every variable keeps its type; wallets and treasuries never go negative.
THEOREM TypeCorrect == Spec => []TypeOK
<1> USE SchemaConstants, AttestationConstants, GateConstants
<1>1. Init => TypeOK
  BY DEF Init, SchemaRegistryInit, AttestationsInit, TypeOK, SchemaRegistryTypeOK,
         AttestationsTypeOK
<1>2. TypeOK /\ [Next]_vars => TypeOK'
  <2>1. CASE UNCHANGED vars
    BY <2>1 DEF vars, TypeOK, SchemaRegistryTypeOK, AttestationsTypeOK
  <2>2. CASE Next
    BY <2>2, StepTyped
  <2> QED BY <2>1, <2>2
<1> QED BY <1>1, <1>2, PTL DEF Spec

\* One address registers and deprecates schemas, and after the hand-over it is
\* not the deployer's by default.
THEOREM OneAuthority == Spec => []OneSchemaAuthority
<1>1. Init => OneSchemaAuthority
  BY SchemaConstants DEF Init, SchemaRegistryInit, OneSchemaAuthority
<1>2. OneSchemaAuthority /\ [Next]_vars => OneSchemaAuthority'
  <2> SUFFICES ASSUME OneSchemaAuthority, [Next]_vars PROVE OneSchemaAuthority'
    OBVIOUS
  <2>1. CASE UNCHANGED <<admin, governance>>
    BY <2>1 DEF OneSchemaAuthority
  <2>2. ASSUME NEW sender \in Accounts, NEW g \in Accounts, TransferToGovernance(sender, g)
        PROVE  OneSchemaAuthority'
    BY <2>2, SchemaConstants DEF TransferToGovernance, AdminAfterTransfer, OneSchemaAuthority
  <2>3. CASE SchemaRegistryNext
    BY <2>1, <2>2, <2>3 DEF SchemaRegistryNext, RegisterSchema, DeprecateSchema
  <2> QED BY <2>1, <2>3 DEF Next, vars
<1> QED BY <1>1, <1>2, PTL DEF Spec

\* Neither schemas nor authorizations are ever withdrawn, nor is the schema or
\* the issuer of an attestation ever changed.
LEMMA StepKeepsAuthority ==
  ASSUME TypeOK, AttestationsHaveAuthority,
         Next \/ UNCHANGED <<issuers, attestations, schemas>>
  PROVE  AttestationsHaveAuthority'
<1> USE DEF AttestationsHaveAuthority, Exists, Known, TypeOK, AttestationsTypeOK,
            SchemaRegistryTypeOK
<1>1. CASE UNCHANGED <<issuers, attestations, schemas>>
  BY <1>1
<1>2. CASE SchemaRegistryNext /\ UNCHANGED <<attestationVars, gateVars>>
  <2>1. \A s \in SchemaIds : Known(s) => Known(s)'
    <3>1. ASSUME NEW s \in SchemaIds, NEW resolver \in Accounts \cup {None},
                 NEW revocable \in BOOLEAN, NEW sender \in Accounts,
                 RegisterSchema(sender, s, resolver, revocable)
          PROVE  \A x \in SchemaIds : Known(x) => Known(x)'
      BY <3>1 DEF RegisterSchema
    <3>2. ASSUME NEW old \in SchemaIds, NEW new \in SchemaIds, NEW sender \in Accounts,
                 DeprecateSchema(sender, old, new)
          PROVE  \A x \in SchemaIds : Known(x) => Known(x)'
      <4>1. [schemas[old] EXCEPT !.supersededBy = new] \in Schema
        BY <3>2 DEF DeprecateSchema, Schema
      <4>2. schemas' = [schemas EXCEPT ![old] = [schemas[old] EXCEPT !.supersededBy = new]]
        BY <3>2 DEF DeprecateSchema
      <4> QED BY <4>1, <4>2, SchemaSentinel
    <3>3. CASE UNCHANGED schemas
      BY <3>3
    <3> QED BY <1>2, <3>1, <3>2, <3>3 DEF SchemaRegistryNext, TransferToGovernance
  <2>2. \A a \in AttestationIds : Exists(a) => attestations[a].schema \in SchemaIds
    BY DEF Attestation
  <2> QED BY <1>2, <2>1, <2>2
<1>3. ASSUME NEW o \in Accounts, NEW s \in SchemaIds, Authorize(o, s), UNCHANGED schemaVars
      PROVE  AttestationsHaveAuthority'
  BY <1>3 DEF Authorize
<1>4. ASSUME NEW sender \in Accounts, NEW subject \in Accounts, NEW a \in AttestationIds,
             NEW s \in SchemaIds, NEW value \in Values, NEW term \in Terms,
             NEW holder \in Accounts \cup {Shared},
             Issue(sender, a, s, subject, value, term, holder), UNCHANGED schemaVars
      PROVE  AttestationsHaveAuthority'
  BY <1>4 DEF Issue, MayIssue
<1>5. ASSUME NEW a \in AttestationIds, NEW new,
             Exists(a), attestations' = [attestations EXCEPT ![a] = new],
             new.schema = attestations[a].schema, new.issuer = attestations[a].issuer,
             UNCHANGED <<issuers, schemas>>
      PROVE  AttestationsHaveAuthority'
  BY <1>5
<1>6. ASSUME NEW sender \in Accounts, NEW a \in AttestationIds, Revoke(sender, a),
             UNCHANGED schemaVars
      PROVE  AttestationsHaveAuthority'
  <2>1. /\ Revoked(a).schema = attestations[a].schema
        /\ Revoked(a).issuer = attestations[a].issuer
    BY <1>6 DEF Revoke, Revoked, Attestation
  <2> QED BY <1>5, <1>6, <2>1 DEF Revoke
<1>7. ASSUME NEW sender \in Accounts, NEW a \in AttestationIds,
             NEW to \in Accounts \cup {Shared}, TransferAttestation(sender, a, to),
             UNCHANGED schemaVars
      PROVE  AttestationsHaveAuthority'
  <2> DEFINE new == [attestations[a] EXCEPT !.holder = to]
  <2>1. new.schema = attestations[a].schema /\ new.issuer = attestations[a].issuer
    BY <1>7 DEF TransferAttestation, Attestation
  <2>2. attestations' = [attestations EXCEPT ![a] = new]
    BY <1>7 DEF TransferAttestation
  <2> HIDE DEF new
  <2> QED BY <1>5, <1>7, <2>1, <2>2 DEF TransferAttestation
<1>8. CASE AttestationsNext /\ UNCHANGED <<schemaVars, gateVars>>
  BY <1>1, <1>3, <1>4, <1>6, <1>7, <1>8 DEF AttestationsNext, AdvanceEpoch
<1> QED BY <1>1, <1>2, <1>8 DEF Next

\* Every attestation is of a registered schema and from an issuer that answers
\* for it.
THEOREM Authority == Spec => []AttestationsHaveAuthority
<1>1. Init => AttestationsHaveAuthority
  BY DEF Init, AttestationsInit, AttestationsHaveAuthority, Exists
<1>2. TypeOK /\ AttestationsHaveAuthority /\ [Next]_vars => AttestationsHaveAuthority'
  BY StepKeepsAuthority DEF vars
<1> QED BY <1>1, <1>2, TypeCorrect, PTL DEF Spec

-----------------------------------------------------------------------------
\* Only check_passage tells of a passage.
LEMMA GrantsComeFromCheckPassage ==
  ASSUME Next, NEW k \in DOMAIN emitted', emitted'[k].type = "PassageGranted"
  PROVE  /\ UNCHANGED <<schemaVars, attestationVars>>
         /\ \E sender \in Accounts, g \in Gates, a \in AttestationIds :
              CheckPassage(sender, g, a)
<1>1. CASE SchemaRegistryNext
  BY <1>1 DEF SchemaRegistryNext, RegisterSchema, DeprecateSchema, TransferToGovernance
<1>2. CASE AttestationsNext
  BY <1>2 DEF AttestationsNext, AdvanceEpoch, Authorize, Issue, Revoke, TransferAttestation
<1>3. CASE GateNext /\ UNCHANGED <<schemaVars, attestationVars>>
  <2>1. ASSUME NEW sender \in Accounts, NEW g \in Gates
        PROVE  /\ \A s \in SchemaIds, ally \in Thresholds, toll \in TollAmounts :
                    ~CreateGate(sender, g, s, ally, toll)
               /\ \A to \in Accounts : ~TransferCap(sender, g, to)
               /\ \A paused \in BOOLEAN : ~SetPaused(sender, g, paused)
    BY DEF CreateGate, TransferCap, SetPaused
  <2>2. ASSUME NEW sender \in Accounts, NEW g \in Gates
        PROVE  \A ally \in Thresholds, toll \in TollAmounts :
                 ~UpdateThresholds(sender, g, ally, toll)
    BY DEF UpdateThresholds
  <2>3. ASSUME NEW sender \in Accounts, NEW g \in Gates
        PROVE  ~WithdrawTolls(sender, g)
    BY DEF WithdrawTolls
  <2>4. ASSUME NEW sender \in Accounts, NEW g \in Gates
        PROVE  \A w \in WorldGates : ~BindWorldGate(sender, g, w)
    BY DEF BindWorldGate
  <2>5. ASSUME NEW sender \in Accounts, NEW g \in Gates
        PROVE  ~UnbindWorldGate(sender, g)
    BY DEF UnbindWorldGate
  <2> QED BY <1>3, <2>1, <2>2, <2>3, <2>4, <2>5 DEF GateNext
<1> QED BY <1>1, <1>2, <1>3 DEF Next

\* Nobody passes a gate on another's standing, or below the toll of its score.
THEOREM OwnStanding == Spec => PassageRestsOnOwnStanding
<1> DEFINE Rests(k) ==
      LET p == emitted'[k] IN
      \E a \in AttestationIds :
         /\ Exists(a) /\ IsValid(a)
         /\ attestations[a].subject = p.traveler /\ p.score = attestations[a].value
         /\ attestations[a].schema = gates[p.gate].schema
         /\ <<attestations[a].issuer, gates[p.gate].schema>> \in issuers
         /\ p.score < gates[p.gate].ally =>
              wallet[p.traveler] - wallet'[p.traveler] = gates[p.gate].toll
<1>1. ASSUME TypeOK, AttestationsHaveAuthority, Next,
             NEW k \in DOMAIN emitted', emitted'[k].type = "PassageGranted"
      PROVE  Rests(k)
  <2>1. PICK sender \in Accounts, g \in Gates, a \in AttestationIds : CheckPassage(sender, g, a)
    BY <1>1, GrantsComeFromCheckPassage
  <2> DEFINE score == attestations[a].value
             toll == TollFor(g, score)
             p == [type |-> "PassageGranted", gate |-> g, traveler |-> sender,
                   score |-> score, toll |-> toll]
  <2>2. emitted'[k] = p
    BY <2>1 DEF CheckPassage
  <2>3. /\ Exists(a) /\ IsValid(a) /\ attestations[a].subject = sender
        /\ attestations[a].schema = gates[g].schema
    BY <2>1 DEF CheckPassage, MayPresent
  <2>4. <<attestations[a].issuer, gates[g].schema>> \in issuers
    BY <1>1, <2>3 DEF AttestationsHaveAuthority
  <2>5. score < gates[g].ally => wallet[sender] - wallet'[sender] = gates[g].toll
    <3>1. gates[g].toll \in Nat /\ gates[g].ally \in Nat /\ score \in Nat
      BY <1>1, <2>1, <2>3, DeployedIsGate, ExistingIsAttestation DEF CheckPassage
    <3>2. score < gates[g].ally => toll = gates[g].toll
      BY <3>1 DEF TollFor, IsAlly
    <3>3. wallet'[sender] = wallet[sender] - toll /\ wallet[sender] \in Nat
      BY <1>1, <2>1 DEF CheckPassage, TypeOK
    <3> HIDE DEF score, toll
    <3> QED BY <3>1, <3>2, <3>3
  <2>6. p.gate = g /\ p.traveler = sender /\ p.score = score
    OBVIOUS
  <2> HIDE DEF p
  <2> QED BY <2>2, <2>3, <2>4, <2>5, <2>6
<1>2. TypeOK /\ AttestationsHaveAuthority /\ [Next]_vars =>
        [\A k \in DOMAIN emitted' : emitted'[k].type = "PassageGranted" => Rests(k)]_vars
  BY <1>1
<1> QED BY <1>2, TypeCorrect, Authority, PTL DEF Spec, PassageRestsOnOwnStanding

\* Whoever calls withdraw_tolls, the whole treasury goes to the owner.
THEOREM TollsToOwner == Spec => TollsReachTheOwner
<1> DEFINE Reach(g) == Deployed(g) /\ gates'[g].treasury < gates[g].treasury =>
             wallet'[gates[g].owner] = wallet[gates[g].owner] + gates[g].treasury
<1>1. ASSUME TypeOK, Next, NEW g \in Gates PROVE Reach(g)
  <2> SUFFICES ASSUME Deployed(g), gates'[g].treasury < gates[g].treasury
               PROVE  wallet'[gates[g].owner] = wallet[gates[g].owner] + gates[g].treasury
    OBVIOUS
  <2>0. /\ gates[g] \in GatePolicy /\ gates[g].owner \in Accounts
        /\ gates[g].treasury \in Nat /\ gates[g].toll \in Nat
    BY <1>1, DeployedIsGate
  <2>1. gates'[g].treasury # gates[g].treasury
    BY <2>0
  <2>2. PICK sender \in Accounts, h \in Gates :
          \/ \E a \in AttestationIds : CheckPassage(sender, h, a)
          \/ WithdrawTolls(sender, h)
    <3>1. GateNext
      BY <1>1, <2>1 DEF Next
    <3>2. PICK sender \in Accounts, h \in Gates :
            \/ \E s \in SchemaIds, ally \in Thresholds, toll \in TollAmounts :
                 CreateGate(sender, h, s, ally, toll)
            \/ \E to \in Accounts : TransferCap(sender, h, to)
            \/ \E a \in AttestationIds : CheckPassage(sender, h, a)
            \/ \E ally \in Thresholds, toll \in TollAmounts : UpdateThresholds(sender, h, ally, toll)
            \/ \E paused \in BOOLEAN : SetPaused(sender, h, paused)
            \/ WithdrawTolls(sender, h)
            \/ \E w \in WorldGates : BindWorldGate(sender, h, w)
            \/ UnbindWorldGate(sender, h)
      BY <3>1 DEF GateNext
    <3>3. ASSUME NEW new, gates' = [gates EXCEPT ![h] = new],
                 ~Deployed(h) \/ new.treasury = gates[h].treasury
          PROVE  FALSE
      BY <1>1, <2>1, <3>3 DEF TypeOK
    <3>4. \A s \in SchemaIds, ally \in Thresholds, toll \in TollAmounts :
            ~CreateGate(sender, h, s, ally, toll)
      BY <3>3 DEF CreateGate
    <3>5. Deployed(h) => gates[h] \in GatePolicy
      BY <1>1, DeployedIsGate
    <3>6. \A ally \in Thresholds, toll \in TollAmounts : ~UpdateThresholds(sender, h, ally, toll)
      BY <3>3, <3>5 DEF UpdateThresholds, IsGateAdmin, GatePolicy
    <3>7. \A paused \in BOOLEAN : ~SetPaused(sender, h, paused)
      BY <3>3, <3>5 DEF SetPaused, IsGateAdmin, GatePolicy
    <3>8. \A w \in WorldGates : ~BindWorldGate(sender, h, w)
      BY <3>3, <3>5 DEF BindWorldGate, IsGateAdmin, GatePolicy
    <3>9. ~UnbindWorldGate(sender, h)
      BY <3>3, <3>5 DEF UnbindWorldGate, IsGateAdmin, GatePolicy
    <3>10. \A to \in Accounts : ~TransferCap(sender, h, to)
      BY <2>1 DEF TransferCap
    <3> QED BY <3>2, <3>4, <3>6, <3>7, <3>8, <3>9, <3>10
  <2>3. CASE WithdrawTolls(sender, h)
    <3>1. gates' = [gates EXCEPT ![h] = [gates[h] EXCEPT !.treasury = @ - gates[h].treasury]]
      BY <2>3 DEF WithdrawTolls
    <3>2. h = g
      BY <1>1, <2>1, <3>1 DEF TypeOK
    <3> QED BY <1>1, <2>0, <2>3, <3>2 DEF WithdrawTolls, Payee, TypeOK
  <2>4. ASSUME NEW a \in AttestationIds, CheckPassage(sender, h, a)
        PROVE  FALSE
    <3> DEFINE toll == TollFor(h, attestations[a].value)
    <3>1. gates[h].toll \in Nat /\ gates[h] \in GatePolicy
      BY <1>1, <2>4, DeployedIsGate DEF CheckPassage
    <3>2. toll \in Nat
      BY <3>1 DEF TollFor
    <3>3. gates' = [gates EXCEPT ![h] = [gates[h] EXCEPT !.treasury = @ + toll]]
      BY <2>4 DEF CheckPassage
    <3> HIDE DEF toll
    <3>4. h = g
      BY <1>1, <2>1, <3>3 DEF TypeOK
    <3>5. gates'[g].treasury = gates[g].treasury + toll
      BY <1>1, <3>1, <3>3, <3>4 DEF TypeOK, GatePolicy
    <3> QED BY <2>0, <3>2, <3>5
  <2> QED BY <2>2, <2>3, <2>4
<1>2. TypeOK /\ [Next]_vars => [\A g \in Gates : Reach(g)]_vars
  BY <1>1
<1> QED BY <1>2, TypeCorrect, PTL DEF Spec, TollsReachTheOwner

\* Epochs never go back and revoke never lowers the flag.
THEOREM InvalidStaysInvalid == Spec => InvalidForGood
<1>1. ASSUME TypeOK, Next, NEW a \in AttestationIds, Exists(a), ~IsValid(a)
      PROVE  ~IsValid(a)'
  <2> USE <1>1 DEF IsValid, Exists
  <2>0. /\ attestations[a] \in Attestation /\ attestations[a].expires \in Nat
        /\ epoch \in Nat
    BY ExistingIsAttestation DEF TypeOK, AttestationsTypeOK
  <2>1. CASE UNCHANGED <<attestations, epoch>>
    BY <2>1
  <2>2. CASE AdvanceEpoch
    BY <2>0, <2>2 DEF AdvanceEpoch
  <2>3. ASSUME NEW sender \in Accounts, NEW subject \in Accounts, NEW b \in AttestationIds,
               NEW s \in SchemaIds, NEW value \in Values, NEW term \in Terms,
               NEW holder \in Accounts \cup {Shared},
               Issue(sender, b, s, subject, value, term, holder)
        PROVE  ~IsValid(a)'
    <3>1. attestations'[a] = attestations[a] /\ epoch' = epoch
      BY <2>3 DEF Issue, TypeOK, AttestationsTypeOK
    <3> QED BY <3>1
  <2>4. ASSUME NEW sender \in Accounts, NEW b \in AttestationIds, Revoke(sender, b)
        PROVE  ~IsValid(a)'
    <3>1. attestations' = [attestations EXCEPT ![b] = Revoked(b)] /\ epoch' = epoch
      BY <2>4 DEF Revoke
    <3>2. CASE b = a
      <4>1. attestations'[a] = [attestations[a] EXCEPT !.revoked = TRUE]
        BY <3>1, <3>2 DEF Revoked, TypeOK, AttestationsTypeOK
      <4>2. attestations'[a].revoked
        BY <2>0, <4>1 DEF Attestation
      <4> QED BY <4>2
    <3>3. CASE b # a
      BY <3>1, <3>3 DEF TypeOK, AttestationsTypeOK
    <3> QED BY <3>2, <3>3
  <2>5. ASSUME NEW sender \in Accounts, NEW b \in AttestationIds,
               NEW to \in Accounts \cup {Shared}, TransferAttestation(sender, b, to)
        PROVE  ~IsValid(a)'
    <3>1. /\ attestations' = [attestations EXCEPT ![b] = [attestations[b] EXCEPT !.holder = to]]
          /\ epoch' = epoch
      BY <2>5 DEF TransferAttestation
    <3>2. /\ attestations'[a].revoked = attestations[a].revoked
          /\ attestations'[a].expires = attestations[a].expires
      BY <2>0, <3>1 DEF TypeOK, AttestationsTypeOK, Attestation
    <3> QED BY <3>1, <3>2
  <2>6. CASE AttestationsNext
    BY <2>1, <2>2, <2>3, <2>4, <2>5, <2>6 DEF AttestationsNext, Authorize
  <2> QED BY <2>1, <2>6 DEF Next
<1>2. TypeOK /\ [Next]_vars =>
        [\A a \in AttestationIds : Exists(a) /\ ~IsValid(a) => ~IsValid(a)']_vars
  BY <1>1
<1> QED BY <1>2, TypeCorrect, PTL DEF Spec, InvalidForGood
-----------------------------------------------------------------------------
(***************************************************************************)
(* The decisions of the Trust API.  Three relations between the chain, the *)
(* log and the tables carry them: what the log tells of is so on the       *)
(* chain, what a table says was told by the log, and what a cursor is past *)
(* is in the tables unless its handling failed.                            *)
(***************************************************************************)
IssueEvent == [type : {"AttestationIssued"}, attestation : AttestationIds,
               schema : SchemaIds, subject : Accounts, value : Nat]
RevokeEvent == [type : {"AttestationRevoked"}, attestation : AttestationIds]
ConfigEvent == [type : {"GateConfigUpdated"}, gate : Gates, ally : Nat, toll : Nat]
OtherEvent ==
  [type : {"SchemaRegistered"}, schema : SchemaIds]
  \cup [type : {"ProfileCreated"}, profile : ProfileIds, owner : Accounts]
  \cup [type : {"ScoreUpdated"}, profile : ProfileIds, schema : SchemaIds, value : Nat]

Event == IssueEvent \cup RevokeEvent \cup ConfigEvent \cup OtherEvent

Index == [schemas : SUBSET SchemaIds, standing : Seq(AttestationIds),
          revoked : SUBSET AttestationIds,
          owners : [Accounts -> ProfileIds \cup {NoProfile}],
          scores : [ProfileIds -> [SchemaIds -> Int]],
          configs : Seq([at : Nat, checkpoint : Nat])]

IsIssue(i) == i \in DOMAIN log /\ log[i].type = "AttestationIssued"
IsRevocation(i) == i \in DOMAIN log /\ log[i].type = "AttestationRevoked"
IsConfig(i) == i \in DOMAIN log /\ log[i].type = "GateConfigUpdated"

LogTyped == log \in Seq(Event)

\* Each attestation is told of once it exists, and its revocation later.
LogTellsAttestations ==
  /\ \A i \in DOMAIN log : IsIssue(i) => Exists(log[i].attestation)
  /\ \A i \in DOMAIN log : IsRevocation(i) =>
       Exists(log[i].attestation) /\ attestations[log[i].attestation].revoked
  /\ \A i, j \in DOMAIN log :
       IsIssue(i) /\ IsRevocation(j) /\ log[i].attestation = log[j].attestation => i < j
  /\ \A a \in AttestationIds : Exists(a) =>
       \E i \in DOMAIN log : IsIssue(i) /\ log[i].attestation = a

\* The thresholds of a gate are those of the last update the log tells of.
LogTellsThresholds ==
  \A i \in DOMAIN log : IsConfig(i) =>
    \/ \E j \in DOMAIN log : j > i /\ IsConfig(j) /\ log[j].gate = log[i].gate
    \/ /\ Deployed(log[i].gate)
       /\ gates[log[i].gate].ally = log[i].ally
       /\ gates[log[i].gate].toll = log[i].toll

LogInv == LogTyped /\ LogTellsAttestations /\ LogTellsThresholds

CursorsInLog ==
  cursor \in [Streams -> Nat] /\ \A t \in Streams : cursor[t] <= Len(log)

\* The rows of attestations are of attestations, revoked ones of revoked ones.
RowsAreTrue ==
  /\ \A k \in DOMAIN index.standing : Exists(index.standing[k])
  /\ \A a \in index.revoked : Exists(a) /\ attestations[a].revoked

IssuesIndexed ==
  \A i \in DOMAIN log : IsIssue(i) /\ i <= cursor["attestation"] /\ i \notin faults =>
    \E k \in DOMAIN index.standing : index.standing[k] = log[i].attestation

RevocationsIndexed ==
  \A i \in DOMAIN log : IsRevocation(i) /\ i <= cursor["attestation"] /\ i \notin faults =>
    \/ log[i].attestation \in index.revoked
    \/ \A k \in DOMAIN index.standing : index.standing[k] # log[i].attestation

\* The flag that a revocation set is never taken back.
LandedIndexed == \A i \in landed : log[i].attestation \in index.revoked

\* A row of thresholds is of one update, filed under its checkpoint.
ConfigRowsAreTrue ==
  /\ \A k \in DOMAIN index.configs :
       /\ IsConfig(index.configs[k].at)
       /\ \/ index.configs[k].checkpoint = index.configs[k].at
          \/ index.configs[k].at \in faults
  /\ \A j, k \in DOMAIN index.configs : index.configs[j].at = index.configs[k].at => j = k

ConfigsIndexed ==
  \A i \in DOMAIN log : IsConfig(i) /\ i <= cursor["reputation_gate"] /\ i \notin faults =>
    \E k \in DOMAIN index.configs : index.configs[k].at = i

IndexInv ==
  /\ index \in Index /\ CursorsInLog /\ RowsAreTrue /\ IssuesIndexed
  /\ RevocationsIndexed /\ ConfigRowsAreTrue /\ ConfigsIndexed
  /\ landed \subseteq DOMAIN log /\ LandedIndexed

TrustInv == TypeOK /\ AttestationsHaveAuthority /\ LogInv /\ IndexInv

-----------------------------------------------------------------------------
(* The log grows at its end                                                *)

Grown(e) ==
  /\ log' \in Seq(Event) /\ Len(log') = Len(log) + 1
  /\ log'[Len(log) + 1] = e
  /\ \A i \in 1..Len(log) : log'[i] = log[i]

LEMMA Logged ==
  ASSUME LogTyped, NEW e \in Event, log' = log \o <<e>>
  PROVE  Grown(e)
BY DEF LogTyped, Grown

LEMMA NothingLogged ==
  ASSUME LogTyped, emitted' = <<>>, log' = log \o emitted'
  PROVE  log' = log
BY DEF LogTyped

\* What a transaction never undoes.
ChainPersists ==
  /\ Len(log') >= Len(log) /\ \A i \in 1..Len(log) : log'[i] = log[i]
  /\ \A a \in AttestationIds : Exists(a) =>
       Exists(a)' /\ (attestations[a].revoked => attestations'[a].revoked)

LEMMA EventFields ==
  ASSUME NEW e \in Event
  PROVE  /\ e.type = "AttestationIssued" => e.attestation \in AttestationIds
         /\ e.type = "AttestationRevoked" => e.attestation \in AttestationIds
         /\ e.type = "GateConfigUpdated" => e.gate \in Gates
BY DEF Event, IssueEvent, RevokeEvent, ConfigEvent, OtherEvent

LEMMA OtherEventTypes ==
  ASSUME NEW e \in OtherEvent
  PROVE  e \in Event /\ e.type \notin {"AttestationIssued", "AttestationRevoked", "GateConfigUpdated"}
BY DEF Event, OtherEvent

LEMMA LoggedFields ==
  ASSUME LogTyped, NEW i \in DOMAIN log
  PROVE  /\ log[i] \in Event /\ i \in 1..Len(log)
         /\ IsIssue(i) \/ IsRevocation(i) => log[i].attestation \in AttestationIds
         /\ IsConfig(i) => log[i].gate \in Gates
<1>1. log[i] \in Event /\ i \in 1..Len(log)
  BY DEF LogTyped
<1> QED BY <1>1, EventFields DEF IsIssue, IsRevocation, IsConfig

\* A transaction that tells of nothing, or of neither attestations nor
\* thresholds, and writes neither.
LEMMA OthersKeepLog ==
  ASSUME LogInv, UNCHANGED attestations,
         \A g \in Gates : Deployed(g) =>
           /\ Deployed(g)'
           /\ gates'[g].ally = gates[g].ally /\ gates'[g].toll = gates[g].toll,
         \/ log' = log
         \/ \E e \in OtherEvent : Grown(e)
  PROVE  LogInv' /\ ChainPersists
<1>1. CASE log' = log
  <2>1. LogTyped' /\ ChainPersists
    BY <1>1 DEF LogInv, LogTyped, ChainPersists, Exists
  <2>2. LogTellsAttestations'
    BY <1>1 DEF LogInv, LogTellsAttestations, Exists, IsIssue, IsRevocation
  <2>3. LogTellsThresholds'
    <3>1. \A i \in DOMAIN log : IsConfig(i) => log[i].gate \in Gates
      BY LoggedFields DEF LogInv
    <3>2. ASSUME NEW i \in DOMAIN log, IsConfig(i)
          PROVE  \/ \E j \in DOMAIN log : j > i /\ IsConfig(j) /\ log[j].gate = log[i].gate
                 \/ /\ gates'[log[i].gate] # NoGate
                    /\ gates'[log[i].gate].ally = log[i].ally
                    /\ gates'[log[i].gate].toll = log[i].toll
      BY <3>1, <3>2 DEF LogInv, LogTellsThresholds, Deployed
    <3>3. ASSUME NEW i PROVE IsConfig(i)' <=> IsConfig(i)
      BY <1>1 DEF IsConfig
    <3>4. ASSUME NEW i \in DOMAIN log, IsConfig(i)'
          PROVE  \/ \E j \in DOMAIN log : j > i /\ IsConfig(j)' /\ log'[j].gate = log'[i].gate
                 \/ /\ gates'[log'[i].gate] # NoGate
                    /\ gates'[log'[i].gate].ally = log'[i].ally
                    /\ gates'[log'[i].gate].toll = log'[i].toll
      <4>1. IsConfig(i)
        BY <3>3, <3>4
      <4>2. CASE \E j \in DOMAIN log : j > i /\ IsConfig(j) /\ log[j].gate = log[i].gate
        BY <1>1, <3>3, <4>2
      <4>3. CASE /\ gates'[log[i].gate] # NoGate
                 /\ gates'[log[i].gate].ally = log[i].ally
                 /\ gates'[log[i].gate].toll = log[i].toll
        BY <1>1, <4>3 DEF Deployed
      <4> QED BY <3>2, <4>1, <4>2, <4>3
    <3> QED BY <1>1, <3>4 DEF LogTellsThresholds, Deployed
  <2> QED BY <2>1, <2>2, <2>3 DEF LogInv
<1>2. ASSUME NEW e \in OtherEvent, Grown(e) PROVE LogInv' /\ ChainPersists
  <2>n. PICK n \in Nat : n = Len(log)
    BY DEF LogInv, LogTyped
  <2>0. /\ log \in Seq(Event) /\ log' \in Seq(Event) /\ Len(log') = n + 1 /\ n \in Nat
        /\ log'[n + 1] = e /\ \A i \in 1..n : log'[i] = log[i]
        /\ DOMAIN log = 1..n /\ DOMAIN log' = 1..(n + 1)
    BY <1>2, <2>n DEF Grown, LogInv, LogTyped
  <2>1. \A i \in 1..n : /\ IsIssue(i)' <=> IsIssue(i)
                        /\ IsRevocation(i)' <=> IsRevocation(i)
                        /\ IsConfig(i)' <=> IsConfig(i)
    BY <2>0 DEF IsIssue, IsRevocation, IsConfig
  <2>2. ~IsIssue(n + 1)' /\ ~IsRevocation(n + 1)' /\ ~IsConfig(n + 1)'
    BY <2>0, OtherEventTypes DEF IsIssue, IsRevocation, IsConfig
  <2>3. LogTyped' /\ ChainPersists
    BY <2>0, <2>n DEF LogTyped, ChainPersists, Exists
  <2>4. LogTellsAttestations'
    BY <2>0, <2>1, <2>2 DEF LogInv, LogTellsAttestations, Exists
  <2>5. LogTellsThresholds'
    <3>1. \A i \in 1..n : IsConfig(i) => log[i].gate \in Gates
      BY <2>0, LoggedFields DEF LogInv
    <3>2. ASSUME NEW i \in 1..n, IsConfig(i)
          PROVE  \/ \E j \in 1..n : j > i /\ IsConfig(j) /\ log[j].gate = log[i].gate
                 \/ /\ gates'[log[i].gate] # NoGate
                    /\ gates'[log[i].gate].ally = log[i].ally
                    /\ gates'[log[i].gate].toll = log[i].toll
      BY <2>0, <3>1, <3>2 DEF LogInv, LogTellsThresholds, Deployed
    <3>3. ASSUME NEW i \in 1..n, IsConfig(i)'
          PROVE  \/ \E j \in 1..(n + 1) : j > i /\ IsConfig(j)' /\ log'[j].gate = log'[i].gate
                 \/ /\ gates'[log'[i].gate] # NoGate
                    /\ gates'[log'[i].gate].ally = log'[i].ally
                    /\ gates'[log'[i].gate].toll = log'[i].toll
      <4>1. IsConfig(i) /\ log'[i] = log[i]
        BY <2>0, <2>1, <3>3
      <4>2. ASSUME NEW j \in 1..n PROVE j \in 1..(n + 1) /\ log'[j] = log[j] /\ (IsConfig(j)' <=> IsConfig(j))
        BY <2>0, <2>1
      <4> QED BY <3>2, <4>1, <4>2
    <3>4. ASSUME NEW i \in 1..(n + 1), IsConfig(i)' PROVE i \in 1..n
      BY <2>0, <2>2, <3>4
    <3>5. \A i \in 1..(n + 1) : IsConfig(i)' =>
            \/ \E j \in 1..(n + 1) : j > i /\ IsConfig(j)' /\ log'[j].gate = log'[i].gate
            \/ /\ gates'[log'[i].gate] # NoGate
               /\ gates'[log'[i].gate].ally = log'[i].ally
               /\ gates'[log'[i].gate].toll = log'[i].toll
      BY <3>3, <3>4
    <3> QED BY <2>0, <3>5 DEF LogTellsThresholds, Deployed
  <2> QED BY <2>3, <2>4, <2>5 DEF LogInv
<1> QED BY <1>1, <1>2

\* An issue or a revocation: one attestation is written and told of.
LEMMA AttestationsKeepLog ==
  ASSUME LogInv, TypeOK, NEW e \in IssueEvent \cup RevokeEvent, Grown(e),
         NEW a \in AttestationIds, e.attestation = a,
         NEW new \in Attestation, attestations' = [attestations EXCEPT ![a] = new],
         UNCHANGED gates,
         \/ e.type = "AttestationIssued" /\ ~Exists(a)
         \/ e.type = "AttestationRevoked" /\ Exists(a) /\ new.revoked
  PROVE  LogInv' /\ ChainPersists
<1>n. PICK n \in Nat : n = Len(log)
  BY DEF LogInv, LogTyped
<1>0. /\ log \in Seq(Event) /\ log' \in Seq(Event) /\ Len(log') = n + 1 /\ n \in Nat
      /\ log'[n + 1] = e /\ \A i \in 1..n : log'[i] = log[i]
      /\ DOMAIN log = 1..n /\ DOMAIN log' = 1..(n + 1)
  BY <1>n DEF Grown, LogInv, LogTyped
<1>1. \A i \in 1..n : /\ IsIssue(i)' <=> IsIssue(i)
                      /\ IsRevocation(i)' <=> IsRevocation(i)
                      /\ IsConfig(i)' <=> IsConfig(i)
                      /\ (IsIssue(i) \/ IsRevocation(i)) => log[i].attestation \in AttestationIds
  BY <1>0, LoggedFields DEF IsIssue, IsRevocation, IsConfig, LogInv
<1>2. ~IsConfig(n + 1)'
  BY <1>0 DEF IsConfig, IssueEvent, RevokeEvent
<1>3. /\ Exists(a)' /\ attestations'[a] = new
      /\ \A b \in AttestationIds \ {a} : attestations'[b] = attestations[b]
  BY AttestationSentinel DEF Exists, TypeOK, AttestationsTypeOK
<1>4. \A b \in AttestationIds : Exists(b) =>
        Exists(b)' /\ (attestations[b].revoked => attestations'[b].revoked)
  <2>1. ASSUME NEW b \in AttestationIds \ {a}, Exists(b)
        PROVE  Exists(b)' /\ (attestations[b].revoked => attestations'[b].revoked)
    BY <1>3, <2>1 DEF Exists
  <2>2. Exists(a) => (attestations[a].revoked => attestations'[a].revoked)
    BY <1>3
  <2> QED BY <1>3, <2>1, <2>2
<1>5. LogTyped' /\ ChainPersists
  BY <1>0, <1>4, <1>n DEF LogTyped, ChainPersists
<1>6. LogTellsThresholds'
  <2>1. ASSUME NEW i \in 1..n, IsConfig(i)'
        PROVE  \/ \E j \in 1..(n + 1) : j > i /\ IsConfig(j)' /\ log'[j].gate = log'[i].gate
               \/ /\ gates'[log'[i].gate] # NoGate
                  /\ gates'[log'[i].gate].ally = log'[i].ally
                  /\ gates'[log'[i].gate].toll = log'[i].toll
    <3>1. IsConfig(i) /\ log'[i] = log[i]
      BY <1>0, <1>1, <2>1
    <3>2. ASSUME NEW j \in 1..n PROVE j \in 1..(n + 1) /\ log'[j] = log[j] /\ (IsConfig(j)' <=> IsConfig(j))
      BY <1>0, <1>1
    <3>3. \/ \E j \in 1..n : j > i /\ IsConfig(j) /\ log[j].gate = log[i].gate
          \/ /\ Deployed(log[i].gate)
             /\ gates[log[i].gate].ally = log[i].ally
             /\ gates[log[i].gate].toll = log[i].toll
      BY <1>0, <3>1 DEF LogInv, LogTellsThresholds
    <3> QED BY <3>1, <3>2, <3>3 DEF Deployed
  <2>2. ASSUME NEW i \in 1..(n + 1), IsConfig(i)' PROVE i \in 1..n
    BY <1>2, <2>2
  <2> QED BY <1>0, <2>1, <2>2 DEF LogTellsThresholds, Deployed
<1>7. \A i \in 1..(n + 1) : IsIssue(i)' => attestations'[log'[i].attestation] # NoAttestation
  BY <1>0, <1>1, <1>3, <1>4 DEF LogInv, LogTellsAttestations, Exists
<1>8. \A i \in 1..(n + 1) : IsRevocation(i)' =>
        attestations'[log'[i].attestation] # NoAttestation /\ attestations'[log'[i].attestation].revoked
  <2>1. ASSUME NEW i \in 1..n, IsRevocation(i)'
        PROVE  attestations'[log'[i].attestation] # NoAttestation /\ attestations'[log'[i].attestation].revoked
    BY <1>0, <1>1, <1>4, <2>1 DEF LogInv, LogTellsAttestations, Exists
  <2>2. IsRevocation(n + 1)' => e.type = "AttestationRevoked"
    BY <1>0 DEF IsRevocation
  <2> QED BY <1>0, <1>3, <2>1, <2>2 DEF Exists
<1>9. \A i, j \in 1..(n + 1) :
        (IsIssue(i) /\ IsRevocation(j))' /\ log'[i].attestation = log'[j].attestation => i < j
  <2> SUFFICES ASSUME NEW i \in 1..(n + 1), NEW j \in 1..(n + 1), IsIssue(i)', IsRevocation(j)',
                      log'[i].attestation = log'[j].attestation
               PROVE  i < j
    OBVIOUS
  <2>1. CASE i \in 1..n /\ j \in 1..n
    BY <1>0, <1>1, <2>1 DEF LogInv, LogTellsAttestations
  <2>2. CASE i \in 1..n /\ j = n + 1
    BY <1>0, <2>2
  <2>3. CASE i = n + 1
    <3>1. e.type = "AttestationIssued" /\ ~Exists(a)
      BY <1>0, <2>3 DEF IsIssue
    <3>2. j # n + 1
      BY <1>0, <3>1 DEF IsRevocation
    <3>3. j \in 1..n
      BY <1>0, <3>2
    <3>4. IsRevocation(j) /\ log[j].attestation = a
      BY <1>0, <1>1, <2>3, <3>3
    <3> QED BY <1>0, <3>1, <3>3, <3>4 DEF LogInv, LogTellsAttestations
  <2> QED BY <1>0, <2>1, <2>2, <2>3
<1>10. \A b \in AttestationIds : Exists(b)' =>
         \E i \in 1..(n + 1) : IsIssue(i)' /\ log'[i].attestation = b
  <2> SUFFICES ASSUME NEW b \in AttestationIds, Exists(b)'
               PROVE  \E i \in 1..(n + 1) : IsIssue(i)' /\ log'[i].attestation = b
    OBVIOUS
  <2>1. CASE Exists(b)
    <3>1. PICK i \in 1..n : IsIssue(i) /\ log[i].attestation = b
      BY <1>0, <2>1 DEF LogInv, LogTellsAttestations
    <3>2. IsIssue(i)' /\ log'[i].attestation = b /\ i \in 1..(n + 1)
      BY <1>0, <1>1, <3>1
    <3> QED BY <3>2
  <2>2. CASE ~Exists(b)
    <3>1. b = a
      BY <1>3, <2>2 DEF Exists
    <3>2. IsIssue(n + 1)' /\ log'[n + 1].attestation = b /\ n + 1 \in 1..(n + 1)
      BY <1>0, <2>2, <3>1 DEF IsIssue
    <3> QED BY <3>2
  <2> QED BY <2>1, <2>2
<1>11. LogTellsAttestations'
  BY <1>0, <1>7, <1>8, <1>9, <1>10 DEF LogTellsAttestations, Exists
<1> QED BY <1>5, <1>6, <1>11 DEF LogInv

\* An update of thresholds, told of by the event it emits.
LEMMA ThresholdsKeepLog ==
  ASSUME LogInv, TypeOK, NEW e \in ConfigEvent, Grown(e), UNCHANGED attestations,
         NEW new \in GatePolicy, new.ally = e.ally, new.toll = e.toll,
         Deployed(e.gate), gates' = [gates EXCEPT ![e.gate] = new]
  PROVE  LogInv' /\ ChainPersists
<1>n. PICK n \in Nat : n = Len(log)
  BY DEF LogInv, LogTyped
<1> DEFINE g == e.gate
<1>0. /\ log \in Seq(Event) /\ log' \in Seq(Event) /\ Len(log') = n + 1 /\ n \in Nat
      /\ log'[n + 1] = e /\ \A i \in 1..n : log'[i] = log[i]
      /\ DOMAIN log = 1..n /\ DOMAIN log' = 1..(n + 1)
  BY <1>n DEF Grown, LogInv, LogTyped
<1>1. \A i \in 1..n : /\ IsIssue(i)' <=> IsIssue(i)
                      /\ IsRevocation(i)' <=> IsRevocation(i)
                      /\ IsConfig(i)' <=> IsConfig(i)
                      /\ IsConfig(i) => log[i].gate \in Gates
  BY <1>0, LoggedFields DEF IsIssue, IsRevocation, IsConfig, LogInv
<1>2. e.type = "GateConfigUpdated" /\ g \in Gates
  BY DEF ConfigEvent
<1>3. ~IsIssue(n + 1)' /\ ~IsRevocation(n + 1)' /\ IsConfig(n + 1)'
  BY <1>0, <1>2 DEF IsIssue, IsRevocation, IsConfig
<1>4. LogTyped' /\ ChainPersists
  BY <1>0, <1>n DEF LogTyped, ChainPersists, Exists
<1>5. LogTellsAttestations'
  BY <1>0, <1>1, <1>3 DEF LogInv, LogTellsAttestations, Exists
<1>6. /\ Deployed(g)' /\ gates'[g] = new
      /\ \A h \in Gates \ {g} : gates'[h] = gates[h]
  BY <1>2, GateSentinel DEF Deployed, TypeOK
<1>7. LogTellsThresholds'
  <2> SUFFICES ASSUME NEW i \in 1..(n + 1), IsConfig(i)'
               PROVE  \/ \E j \in 1..(n + 1) : j > i /\ IsConfig(j)' /\ log'[j].gate = log'[i].gate
                      \/ /\ gates'[log'[i].gate] # NoGate
                         /\ gates'[log'[i].gate].ally = log'[i].ally
                         /\ gates'[log'[i].gate].toll = log'[i].toll
    BY <1>0 DEF LogTellsThresholds, Deployed
  <2>1. CASE i = n + 1
    BY <1>0, <1>6, <2>1 DEF Deployed
  <2>2. CASE i \in 1..n
    <3>1. IsConfig(i) /\ log'[i] = log[i] /\ log[i].gate \in Gates
      BY <1>0, <1>1, <2>2
    <3>2. CASE log[i].gate = g
      <4>1. n + 1 \in 1..(n + 1) /\ n + 1 > i /\ IsConfig(n + 1)' /\ log'[n + 1].gate = log'[i].gate
        BY <1>0, <1>3, <2>2, <3>1, <3>2
      <4> QED BY <4>1
    <3>3. CASE log[i].gate # g
      <4>1. gates'[log[i].gate] = gates[log[i].gate]
        BY <1>6, <3>1, <3>3
      <4>2. ASSUME NEW j \in 1..n PROVE j \in 1..(n + 1) /\ log'[j] = log[j] /\ (IsConfig(j)' <=> IsConfig(j))
        BY <1>0, <1>1
      <4>3. \/ \E j \in 1..n : j > i /\ IsConfig(j) /\ log[j].gate = log[i].gate
            \/ /\ Deployed(log[i].gate)
               /\ gates[log[i].gate].ally = log[i].ally
               /\ gates[log[i].gate].toll = log[i].toll
        BY <1>0, <2>2, <3>1 DEF LogInv, LogTellsThresholds
      <4> QED BY <3>1, <4>1, <4>2, <4>3 DEF Deployed
    <3> QED BY <3>2, <3>3
  <2> QED BY <1>0, <2>1, <2>2
<1> QED BY <1>4, <1>5, <1>7 DEF LogInv

-----------------------------------------------------------------------------
(* Transactions                                                            *)

LEMMA TransactionsAreSteps ==
  ASSUME Transaction
  PROVE  Next \/ UNCHANGED <<schemaVars, attestationVars, gateVars>>
<1> USE SchemaConstants
<1>1. ASSUME NEW s \in SchemaIds, RegisterSchema(Admin, s, None, TRUE)
      PROVE  SchemaRegistryNext
  BY <1>1 DEF SchemaRegistryNext
<1>2. ASSUME NEW a \in AttestationIds, NEW s \in SchemaIds, NEW subject \in Accounts,
             NEW value \in Values, NEW term \in Terms,
             Issue(Admin, a, s, subject, value, term, Shared)
      PROVE  AttestationsNext
  BY <1>2 DEF AttestationsNext
<1>3. ASSUME NEW a \in AttestationIds, Revoke(Admin, a) PROVE AttestationsNext
  BY <1>3 DEF AttestationsNext
<1>4. AdvanceEpoch => AttestationsNext
  BY DEF AttestationsNext
<1>5. ASSUME NEW g \in Gates, NEW ally \in Thresholds, NEW toll \in TollAmounts,
             UpdateThresholds(Admin, g, ally, toll)
      PROVE  GateNext
  BY <1>5 DEF GateNext
<1>6. ASSUME NEW g \in Gates, NEW paused \in BOOLEAN, SetPaused(Admin, g, paused)
      PROVE  GateNext
  BY <1>6 DEF GateNext
<1> QED BY <1>1, <1>2, <1>3, <1>4, <1>5, <1>6 DEF Transaction, Next

\* What a transaction tells of is what it did.
LEMMA ChainKeepsLog ==
  ASSUME TypeOK, LogInv, ChainStep
  PROVE  LogInv' /\ ChainPersists
<1> DEFINE Same == /\ UNCHANGED attestations
                   /\ \A g \in Gates : Deployed(g) =>
                        /\ Deployed(g)'
                        /\ gates'[g].ally = gates[g].ally /\ gates'[g].toll = gates[g].toll
<1>0. Transaction /\ log' = log \o emitted' /\ LogTyped
  BY DEF ChainStep, LogInv
<1>1. ASSUME Same, emitted' = <<>> PROVE LogInv' /\ ChainPersists
  BY <1>0, <1>1, NothingLogged, OthersKeepLog
<1>2. ASSUME Same, NEW e \in OtherEvent, emitted' = <<e>> PROVE LogInv' /\ ChainPersists
  <2>1. Grown(e)
    BY <1>0, <1>2, Logged, OtherEventTypes
  <2> QED BY <1>2, <2>1, OthersKeepLog
<1>3. UNCHANGED <<attestations, gates>> => Same
  BY DEF Deployed
<1>4. ASSUME NEW p \in ProfileIds, CreateProfile(Admin, p),
             UNCHANGED <<schemaVars, attestationVars, gateVars>>
      PROVE  LogInv' /\ ChainPersists
  <2>1. /\ [type |-> "ProfileCreated", profile |-> p, owner |-> Admin] \in OtherEvent
        /\ emitted' = <<[type |-> "ProfileCreated", profile |-> p, owner |-> Admin]>>
    BY <1>4, SchemaConstants DEF CreateProfile, OtherEvent
  <2> HIDE DEF Same
  <2> QED BY <1>2, <1>3, <1>4, <2>1
<1>5. ASSUME NEW p \in ProfileIds, NEW s \in SchemaIds, NEW value \in Values,
             UpdateScore(Admin, p, s, value), UNCHANGED <<schemaVars, attestationVars, gateVars>>
      PROVE  LogInv' /\ ChainPersists
  <2>1. /\ [type |-> "ScoreUpdated", profile |-> p, schema |-> s, value |-> value] \in OtherEvent
        /\ emitted' = <<[type |-> "ScoreUpdated", profile |-> p, schema |-> s, value |-> value]>>
    BY <1>5, AttestationConstants DEF UpdateScore, OtherEvent
  <2> HIDE DEF Same
  <2> QED BY <1>2, <1>3, <1>5, <2>1
<1>6. ASSUME NEW s \in SchemaIds, RegisterSchema(Admin, s, None, TRUE),
             UNCHANGED <<attestationVars, gateVars>>
      PROVE  LogInv' /\ ChainPersists
  <2>1. /\ [type |-> "SchemaRegistered", schema |-> s] \in OtherEvent
        /\ emitted' = <<[type |-> "SchemaRegistered", schema |-> s]>>
    BY <1>6 DEF RegisterSchema, OtherEvent
  <2> HIDE DEF Same
  <2> QED BY <1>2, <1>3, <1>6, <2>1
<1>7. ASSUME AdvanceEpoch, UNCHANGED gateVars
      PROVE  LogInv' /\ ChainPersists
  <2>1. emitted' = <<>> /\ UNCHANGED <<attestations, gates>>
    BY <1>7 DEF AdvanceEpoch
  <2> HIDE DEF Same
  <2> QED BY <1>1, <1>3, <2>1
<1>8. ASSUME NEW a \in AttestationIds, NEW s \in SchemaIds, NEW subject \in Accounts,
             NEW value \in Values, NEW term \in Terms,
             Issue(Admin, a, s, subject, value, term, Shared), UNCHANGED gateVars
      PROVE  LogInv' /\ ChainPersists
  <2> DEFINE e == [type |-> "AttestationIssued", attestation |-> a, schema |-> s,
                   subject |-> subject, value |-> value]
             new == [schema |-> s, issuer |-> Admin, subject |-> subject, value |-> value,
                     expires |-> epoch + term, revoked |-> FALSE, holder |-> Shared]
  <2>1. /\ emitted' = <<e>> /\ attestations' = [attestations EXCEPT ![a] = new]
        /\ ~Exists(a) /\ UNCHANGED gates
    BY <1>8 DEF Issue
  <2>2. e \in IssueEvent /\ e.attestation = a /\ e.type = "AttestationIssued"
    BY AttestationConstants DEF IssueEvent
  <2>3. new \in Attestation
    BY AttestationConstants, SchemaConstants DEF TypeOK, AttestationsTypeOK, Attestation
  <2> HIDE DEF e, new
  <2>4. Grown(e)
    BY <1>0, <2>1, <2>2, Logged DEF Event
  <2> QED BY <2>1, <2>2, <2>3, <2>4, AttestationsKeepLog
<1>9. ASSUME NEW a \in AttestationIds, Revoke(Admin, a), UNCHANGED gateVars
      PROVE  LogInv' /\ ChainPersists
  <2> DEFINE e == [type |-> "AttestationRevoked", attestation |-> a]
  <2>1. /\ emitted' = <<e>> /\ attestations' = [attestations EXCEPT ![a] = Revoked(a)]
        /\ Exists(a) /\ UNCHANGED gates
    BY <1>9 DEF Revoke
  <2>2. e \in RevokeEvent /\ e.attestation = a /\ e.type = "AttestationRevoked"
    BY DEF RevokeEvent
  <2>3. Revoked(a) \in Attestation /\ Revoked(a).revoked
    <3>1. attestations[a] \in Attestation
      BY <2>1, ExistingIsAttestation
    <3> QED BY <3>1 DEF Revoked, Attestation
  <2> HIDE DEF e
  <2>4. Grown(e)
    BY <1>0, <2>1, <2>2, Logged DEF Event
  <2> QED BY <2>1, <2>2, <2>3, <2>4, AttestationsKeepLog
<1>10. ASSUME NEW g \in Gates, NEW ally \in Thresholds, NEW toll \in TollAmounts,
              UpdateThresholds(Admin, g, ally, toll), UNCHANGED attestationVars
       PROVE  LogInv' /\ ChainPersists
  <2> DEFINE e == [type |-> "GateConfigUpdated", gate |-> g, ally |-> ally, toll |-> toll]
             new == [gates[g] EXCEPT !.ally = ally, !.toll = toll]
  <2>1. /\ emitted' = <<e>> /\ gates' = [gates EXCEPT ![g] = new]
        /\ Deployed(g) /\ ally \in Nat \ {0} /\ toll \in Nat
    BY <1>10, GateConstants DEF UpdateThresholds, IsGateAdmin
  <2>2. e \in ConfigEvent /\ e.gate = g /\ e.ally = ally /\ e.toll = toll
    BY <2>1 DEF ConfigEvent
  <2>3. gates[g] \in GatePolicy
    BY <2>1, DeployedIsGate
  <2>4. new \in GatePolicy
    BY <2>1, <2>3, GateFields
  <2>5. new.ally = ally /\ new.toll = toll
    BY <2>3 DEF GatePolicy
  <2> HIDE DEF e, new
  <2>6. Grown(e)
    BY <1>0, <2>1, <2>2, Logged DEF Event
  <2>7. UNCHANGED attestations
    BY <1>10
  <2> QED BY <2>1, <2>2, <2>4, <2>5, <2>6, <2>7, ThresholdsKeepLog
<1>11. ASSUME NEW g \in Gates, NEW paused \in BOOLEAN, SetPaused(Admin, g, paused),
              UNCHANGED attestationVars
       PROVE  LogInv' /\ ChainPersists
  <2> DEFINE new == [gates[g] EXCEPT !.paused = paused]
  <2>1. gates[g] \in GatePolicy
    BY <1>11, DeployedIsGate DEF SetPaused, IsGateAdmin
  <2>2. new \in GatePolicy /\ new.ally = gates[g].ally /\ new.toll = gates[g].toll
    BY <2>1 DEF GatePolicy
  <2>3. emitted' = <<>> /\ gates' = [gates EXCEPT ![g] = new] /\ UNCHANGED attestations
    BY <1>11 DEF SetPaused
  <2> HIDE DEF new
  <2>4. Same
    BY <2>2, <2>3, GateSentinel DEF Deployed, TypeOK
  <2> HIDE DEF Same
  <2> QED BY <1>1, <2>3, <2>4
<1> HIDE DEF Same
<1> QED
  BY <1>0, <1>4, <1>5, <1>6, <1>7, <1>8, <1>9, <1>10, <1>11 DEF Transaction

\* The tables do not change when the chain moves on.
LEMMA ChainKeepsIndex ==
  ASSUME LogTyped, LogTyped', IndexInv, ChainPersists, UNCHANGED indexVars
  PROVE  IndexInv'
<1>n. PICK n \in Nat, m \in Nat : n = Len(log) /\ m = Len(log')
  BY DEF LogTyped
<1>0. /\ DOMAIN log = 1..n /\ DOMAIN log' = 1..m /\ n <= m
      /\ \A i \in 1..n : log'[i] = log[i]
      /\ UNCHANGED <<index, cursor, faults, landed>>
  BY <1>n DEF LogTyped, ChainPersists, indexVars
<1>1. \A i \in 1..n : /\ IsIssue(i)' <=> IsIssue(i)
                      /\ IsRevocation(i)' <=> IsRevocation(i)
                      /\ IsConfig(i)' <=> IsConfig(i)
  BY <1>0 DEF IsIssue, IsRevocation, IsConfig
<1>2. \A t \in Streams, i \in 1..m : i <= cursor[t] => i \in 1..n
  BY <1>0, <1>n DEF IndexInv, CursorsInLog
<1>3. index' \in Index /\ CursorsInLog'
  BY <1>0, <1>n DEF IndexInv, CursorsInLog
<1>4. RowsAreTrue'
  <2>1. /\ \A k \in DOMAIN index.standing : index.standing[k] \in AttestationIds
        /\ index.revoked \subseteq AttestationIds
    BY DEF IndexInv, Index
  <2> QED BY <1>0, <2>1 DEF IndexInv, RowsAreTrue, ChainPersists, Exists
<1>5. IssuesIndexed'
  BY <1>0, <1>1, <1>2 DEF IndexInv, IssuesIndexed, Streams
<1>6. RevocationsIndexed'
  BY <1>0, <1>1, <1>2 DEF IndexInv, RevocationsIndexed, Streams
<1>7. ConfigRowsAreTrue'
  <2>1. \A k \in DOMAIN index.configs : index.configs[k].at \in 1..n
    BY <1>0 DEF IndexInv, ConfigRowsAreTrue, IsConfig
  <2> QED BY <1>0, <1>1, <2>1 DEF IndexInv, ConfigRowsAreTrue
<1>8. ConfigsIndexed'
  BY <1>0, <1>1, <1>2 DEF IndexInv, ConfigsIndexed, Streams
<1>9. landed' \subseteq DOMAIN log' /\ LandedIndexed'
  BY <1>0 DEF IndexInv, LandedIndexed
<1> QED BY <1>3, <1>4, <1>5, <1>6, <1>7, <1>8, <1>9 DEF IndexInv

-----------------------------------------------------------------------------
(* The handlers of the index                                               *)

LEMMA StreamsOfEvents ==
  ASSUME NEW i \in DOMAIN log
  PROVE  /\ IsIssue(i) \/ IsRevocation(i) => StreamOf(log[i]) = "attestation"
         /\ IsConfig(i) => StreamOf(log[i]) = "reputation_gate"
BY DEF IsIssue, IsRevocation, IsConfig, StreamOf

\* The events a cursor is past are those it was past before and the one handled.
LEMMA Passed ==
  ASSUME CursorsInLog, LogTyped, NEW t \in Streams, NEW i \in DOMAIN log, IsNext(t, i),
         cursor' = [cursor EXCEPT ![t] = i]
  PROVE  /\ CursorsInLog' \/ log' # log
         /\ StreamOf(log[i]) = t /\ i > cursor[t]
         /\ \A j \in DOMAIN log : j <= cursor'[StreamOf(log[j])] /\ StreamOf(log[j]) \in Streams =>
              j <= cursor[StreamOf(log[j])] \/ j = i
<1>n. PICK n \in Nat : n = Len(log) /\ DOMAIN log = 1..n
  BY DEF LogTyped
<1>1. StreamOf(log[i]) = t /\ i > cursor[t] /\ i \in Nat
  BY <1>n DEF IsNext
<1>2. CursorsInLog' \/ log' # log
  BY <1>n, <1>1 DEF CursorsInLog
<1>3. ASSUME NEW j \in DOMAIN log, StreamOf(log[j]) = t, j <= i PROVE j <= cursor[t] \/ j = i
  BY <1>n, <1>1, <1>3 DEF IsNext, CursorsInLog
<1>4. cursor'[t] = i /\ \A u \in Streams \ {t} : cursor'[u] = cursor[u]
  BY DEF CursorsInLog
<1>5. ASSUME NEW j \in DOMAIN log, StreamOf(log[j]) \in Streams, j <= cursor'[StreamOf(log[j])]
      PROVE  j <= cursor[StreamOf(log[j])] \/ j = i
  BY <1>3, <1>4, <1>5
<1> QED BY <1>1, <1>2, <1>5

HasRow(i) == \E k \in DOMAIN index.configs : index.configs[k].at = i

LEMMA IndexedIsARow ==
  ASSUME index \in Index, NEW a
  PROVE  Indexed(a) <=> \E k \in DOMAIN index.standing : index.standing[k] = a
BY DEF Indexed, Range

\* Index without its tables of schemas, owners and scores: what the three
\* properties are about.
LEMMA SchemaRowFields ==
  ASSUME index \in Index, NEW e \in Event, e.type \in {"SchemaRegistered", "ScoreUpdated"}
  PROVE  /\ SchemaRow(e) \in Index
         /\ SchemaRow(e).standing = index.standing
         /\ SchemaRow(e).revoked = index.revoked
         /\ SchemaRow(e).configs = index.configs
<1>1. e.schema \in SchemaIds
  BY DEF Event, IssueEvent, RevokeEvent, ConfigEvent, OtherEvent
<1> QED BY <1>1 DEF SchemaRow, Index

LEMMA ScoreRowFields ==
  ASSUME index \in Index, NEW e \in Event, e.type = "ScoreUpdated"
  PROVE  /\ ScoreRow(e) \in Index
         /\ ScoreRow(e).standing = index.standing
         /\ ScoreRow(e).revoked = index.revoked
         /\ ScoreRow(e).configs = index.configs
<1> DEFINE row == SchemaRow(e)
           new == [row.scores EXCEPT ![e.profile] = [row.scores[e.profile] EXCEPT ![e.schema] = e.value]]
<1>1. /\ row \in Index /\ row.standing = index.standing
      /\ row.revoked = index.revoked /\ row.configs = index.configs
  BY SchemaRowFields
<1>2. e.profile \in ProfileIds /\ e.schema \in SchemaIds /\ e.value \in Int
  BY DEF Event, IssueEvent, RevokeEvent, ConfigEvent, OtherEvent
<1>3. ScoreRow(e) = [row EXCEPT !.scores = new]
  BY <1>1 DEF ScoreRow, Index
<1> HIDE DEF row
<1>4. row.scores \in [ProfileIds -> [SchemaIds -> Int]]
  BY <1>1 DEF Index
<1>5. new \in [ProfileIds -> [SchemaIds -> Int]]
  BY <1>2, <1>4
<1> HIDE DEF new
<1> QED BY <1>1, <1>3, <1>5 DEF Index

LEMMA ConfigRowFields ==
  ASSUME index \in Index, NEW i \in Nat, NEW c \in Nat
  PROVE  /\ ConfigRow(i, c) \in Index
         /\ ConfigRow(i, c).standing = index.standing
         /\ ConfigRow(i, c).revoked = index.revoked
         /\ HasRow(i) => ConfigRow(i, c) = index
         /\ ~HasRow(i) =>
              ConfigRow(i, c).configs = Append(index.configs, [at |-> i, checkpoint |-> c])
<1> DEFINE new == Append(index.configs, [at |-> i, checkpoint |-> c])
<1>1. CASE HasRow(i)
  BY <1>1 DEF ConfigRow, HasRow
<1>2. CASE ~HasRow(i)
  <2>1. ConfigRow(i, c) = [index EXCEPT !.configs = new]
    BY <1>2 DEF ConfigRow, HasRow, Index
  <2>2. index.configs \in Seq([at : Nat, checkpoint : Nat])
    BY DEF Index
  <2>3. new \in Seq([at : Nat, checkpoint : Nat])
    BY <2>2
  <2> HIDE DEF new
  <2>4. /\ [index EXCEPT !.configs = new] \in Index
        /\ [index EXCEPT !.configs = new].configs = new
        /\ [index EXCEPT !.configs = new].standing = index.standing
        /\ [index EXCEPT !.configs = new].revoked = index.revoked
    BY <2>3 DEF Index
  <2> QED BY <1>2, <2>1, <2>4 DEF new
<1> QED BY <1>1, <1>2

\* What a handler leaves in the tables of attestations and of thresholds.
LEMMA ProjectedFields ==
  ASSUME index \in Index, LogTyped, NEW i \in DOMAIN log
  PROVE  /\ Projected(i) \in Index
         /\ Projected(i).standing =
              IF IsIssue(i) /\ ~Indexed(log[i].attestation)
              THEN Append(index.standing, log[i].attestation) ELSE index.standing
         /\ Projected(i).revoked =
              IF IsRevocation(i) /\ Indexed(log[i].attestation)
              THEN index.revoked \cup {log[i].attestation} ELSE index.revoked
         /\ Projected(i).configs =
              IF IsConfig(i) /\ ~HasRow(i)
              THEN Append(index.configs, [at |-> i, checkpoint |-> i]) ELSE index.configs
<1> DEFINE e == log[i]
           a == e.attestation
<1>0. /\ e \in Event /\ i \in Nat
      /\ (IsIssue(i) <=> e.type = "AttestationIssued")
      /\ (IsRevocation(i) <=> e.type = "AttestationRevoked")
      /\ (IsConfig(i) <=> e.type = "GateConfigUpdated")
  BY DEF LogTyped, IsIssue, IsRevocation, IsConfig
<1>1. e.type \in {"SchemaRegistered", "AttestationIssued", "AttestationRevoked",
                  "ProfileCreated", "ScoreUpdated", "GateConfigUpdated"}
  BY <1>0 DEF Event, IssueEvent, RevokeEvent, ConfigEvent, OtherEvent
<1>2. CASE e.type = "SchemaRegistered"
  <2>1. Projected(i) = SchemaRow(e)
    BY <1>2 DEF Projected
  <2> QED BY <1>0, <1>2, <2>1, SchemaRowFields
<1>3. CASE e.type = "AttestationIssued"
  <2>1. Projected(i) = IssuedRow(e)
    BY <1>3 DEF Projected
  <2>2. a \in AttestationIds /\ index.standing \in Seq(AttestationIds)
    BY <1>0, <1>3, EventFields DEF Index
  <2>3. CASE Indexed(a)
    BY <1>0, <1>3, <2>1, <2>3 DEF IssuedRow
  <2>4. CASE ~Indexed(a)
    <3> DEFINE new == Append(index.standing, a)
    <3>1. Projected(i) = [index EXCEPT !.standing = new]
      BY <2>1, <2>4 DEF IssuedRow, Index
    <3>2. new \in Seq(AttestationIds)
      BY <2>2
    <3> HIDE DEF new
    <3>3. /\ Projected(i) \in Index /\ Projected(i).standing = new
          /\ Projected(i).revoked = index.revoked /\ Projected(i).configs = index.configs
      BY <3>1, <3>2 DEF Index
    <3> QED BY <1>0, <1>3, <2>4, <3>3 DEF new
  <2> QED BY <2>3, <2>4
<1>4. CASE e.type = "AttestationRevoked"
  <2>1. Projected(i) = RevokedRow(e)
    BY <1>4 DEF Projected
  <2>2. a \in AttestationIds
    BY <1>0, <1>4, EventFields
  <2>3. CASE Indexed(a)
    <3> DEFINE new == index.revoked \cup {a}
    <3>1. Projected(i) = [index EXCEPT !.revoked = new]
      BY <2>1, <2>3 DEF RevokedRow, Index
    <3>2. new \in SUBSET AttestationIds
      BY <2>2 DEF Index
    <3> HIDE DEF new
    <3>3. /\ Projected(i) \in Index /\ Projected(i).revoked = new
          /\ Projected(i).standing = index.standing /\ Projected(i).configs = index.configs
      BY <3>1, <3>2 DEF Index
    <3> QED BY <1>0, <1>4, <2>3, <3>3 DEF new
  <2>4. CASE ~Indexed(a)
    BY <1>0, <1>4, <2>1, <2>4 DEF RevokedRow
  <2> QED BY <2>3, <2>4
<1>5. CASE e.type = "ProfileCreated"
  <2> DEFINE new == [index.owners EXCEPT ![e.owner] = e.profile]
  <2>1. Projected(i) = [index EXCEPT !.owners = new]
    BY <1>5 DEF Projected, Index
  <2>2. e.owner \in Accounts /\ e.profile \in ProfileIds
    BY <1>0, <1>5 DEF Event, IssueEvent, RevokeEvent, ConfigEvent, OtherEvent
  <2>3. new \in [Accounts -> ProfileIds \cup {NoProfile}]
    BY <2>2 DEF Index
  <2> HIDE DEF new
  <2>4. /\ Projected(i) \in Index /\ Projected(i).revoked = index.revoked
        /\ Projected(i).standing = index.standing /\ Projected(i).configs = index.configs
    BY <2>1, <2>3 DEF Index
  <2> QED BY <1>0, <1>5, <2>4
<1>6. CASE e.type = "ScoreUpdated"
  <2>1. Projected(i) = ScoreRow(e)
    BY <1>6 DEF Projected
  <2> QED BY <1>0, <1>6, <2>1, ScoreRowFields
<1>7. CASE e.type = "GateConfigUpdated"
  <2>1. Projected(i) = ConfigRow(i, i)
    BY <1>7 DEF Projected
  <2> QED BY <1>0, <1>7, <2>1, ConfigRowFields
<1> QED BY <1>1, <1>2, <1>3, <1>4, <1>5, <1>6, <1>7

\* What an error may leave: at most a row of thresholds without its checkpoint.
LEMMA BotchedFields ==
  ASSUME index \in Index, LogTyped, NEW i \in DOMAIN log, NEW new \in Botched(i)
  PROVE  /\ new \in Index
         /\ new.standing = index.standing /\ new.revoked = index.revoked
         /\ \/ new.configs = index.configs
            \/ /\ IsConfig(i) /\ ~HasRow(i)
               /\ new.configs = Append(index.configs, [at |-> i, checkpoint |-> 0])
<1>0. log[i] \in Event /\ i \in Nat
  BY DEF LogTyped
<1>1. CASE new = index
  BY <1>1
<1>2. CASE log[i].type = "ScoreUpdated" /\ new = SchemaRow(log[i])
  BY <1>0, <1>2, SchemaRowFields
<1>3. CASE log[i].type = "GateConfigUpdated" /\ new = ConfigRow(i, 0)
  BY <1>0, <1>3, ConfigRowFields DEF IsConfig
<1> QED BY <1>1, <1>2, <1>3 DEF Botched

\* The chain stands still while the index moves.
LEMMA ChainStands ==
  ASSUME UNCHANGED chainVars
  PROVE  /\ UNCHANGED <<log, attestations, gates>>
         /\ \A i \in DOMAIN log : /\ IsIssue(i)' <=> IsIssue(i)
                                  /\ IsRevocation(i)' <=> IsRevocation(i)
                                  /\ IsConfig(i)' <=> IsConfig(i)
<1>1. UNCHANGED <<log, attestations, gates>>
  BY DEF chainVars, attestationVars, gateVars
<1> QED BY <1>1 DEF IsIssue, IsRevocation, IsConfig

\* The event handled is the next of its stream.
LEMMA NextOfStream ==
  ASSUME LogTyped, CursorsInLog, NEW t \in Streams, NEW i \in DOMAIN log, IsNext(t, i),
         cursor' = [cursor EXCEPT ![t] = i], UNCHANGED chainVars
  PROVE  /\ CursorsInLog' /\ i \in Nat
         /\ \A j \in DOMAIN log : IsIssue(j) \/ IsRevocation(j) =>
              /\ j <= cursor'["attestation"] => j <= cursor["attestation"] \/ j = i
              /\ j = i => i > cursor["attestation"]
         /\ \A j \in DOMAIN log : IsConfig(j) =>
              (j <= cursor'["reputation_gate"] => j <= cursor["reputation_gate"] \/ j = i)
<1>1. CursorsInLog' /\ StreamOf(log[i]) = t /\ i > cursor[t]
  BY Passed, ChainStands
<1>2. "attestation" \in Streams /\ "reputation_gate" \in Streams
  BY DEF Streams
<1>3. \A j \in DOMAIN log : j <= cursor'[StreamOf(log[j])] /\ StreamOf(log[j]) \in Streams =>
        j <= cursor[StreamOf(log[j])] \/ j = i
  BY Passed
<1>4. ASSUME NEW j \in DOMAIN log, IsIssue(j) \/ IsRevocation(j)
      PROVE  /\ j <= cursor'["attestation"] => j <= cursor["attestation"] \/ j = i
             /\ j = i => i > cursor["attestation"]
  BY <1>1, <1>2, <1>3, <1>4, StreamsOfEvents
<1>5. ASSUME NEW j \in DOMAIN log, IsConfig(j), j <= cursor'["reputation_gate"]
      PROVE  j <= cursor["reputation_gate"] \/ j = i
  BY <1>2, <1>3, <1>5, StreamsOfEvents
<1>6. i \in Nat
  BY DEF LogTyped
<1> QED BY <1>1, <1>4, <1>5, <1>6

\* A row added at the end of a table: the others keep their places.
LEMMA RowAppended ==
  ASSUME NEW S, NEW old \in Seq(S), NEW row \in S, NEW new, new = Append(old, row)
  PROVE  /\ \A k \in DOMAIN old : k \in DOMAIN new /\ new[k] = old[k]
         /\ \A k \in DOMAIN new : (k \in DOMAIN old /\ new[k] = old[k]) \/ new[k] = row
         /\ \E k \in DOMAIN new : new[k] = row
<1>n. PICK n \in Nat : n = Len(old) /\ DOMAIN old = 1..n
  OBVIOUS
<1>1. DOMAIN new = 1..(n + 1) /\ new[n + 1] = row
  BY <1>n
<1>2. \A k \in 1..n : new[k] = old[k]
  BY <1>n
<1> QED BY <1>n, <1>1, <1>2

\* A row of thresholds that is added: of an update of which there was none.
LEMMA NewConfigRow ==
  ASSUME IndexInv, NEW i \in Nat, NEW c \in Nat, UNCHANGED log, faults \subseteq faults',
         c = i \/ i \in faults',
         \/ index'.configs = index.configs
         \/ /\ IsConfig(i) /\ ~HasRow(i)
            /\ index'.configs = Append(index.configs, [at |-> i, checkpoint |-> c])
  PROVE  ConfigRowsAreTrue'
<1> DEFINE old == index.configs
           new == index'.configs
           row == [at |-> i, checkpoint |-> c]
<1>0. /\ old \in Seq([at : Nat, checkpoint : Nat])
      /\ row.at = i /\ row.checkpoint = c /\ row \in [at : Nat, checkpoint : Nat]
  BY DEF IndexInv, Index
<1>1. /\ \A k \in DOMAIN old : /\ IsConfig(old[k].at)
                               /\ old[k].checkpoint = old[k].at \/ old[k].at \in faults'
      /\ \A j, k \in DOMAIN old : old[j].at = old[k].at => j = k
  BY DEF IndexInv, ConfigRowsAreTrue
<1>3. CASE new = old
  BY <1>1, <1>3 DEF ConfigRowsAreTrue, IsConfig
<1>4. CASE IsConfig(i) /\ ~HasRow(i) /\ new = Append(old, row)
  <2>n. PICK n \in Nat : n = Len(old) /\ DOMAIN old = 1..n
    BY <1>0
  <2> HIDE DEF row, old, new
  <2>1. /\ DOMAIN new = 1..(n + 1) /\ new[n + 1] = row
        /\ \A k \in 1..n : new[k] = old[k]
    BY <1>0, <1>4, <2>n
  <2>2. \A k \in 1..n : old[k].at # i
    BY <1>4, <2>n DEF HasRow, old
  <2>3. \A k \in 1..(n + 1) : /\ IsConfig(new[k].at)
                              /\ new[k].checkpoint = new[k].at \/ new[k].at \in faults'
    BY <1>0, <1>1, <1>4, <2>n, <2>1
  <2>4. \A j, k \in 1..(n + 1) : new[j].at = new[k].at => j = k
    <3>1. new[n + 1].at = i /\ \A k \in 1..n : new[k].at # i
      BY <1>0, <2>1, <2>2
    <3>2. \A j, k \in 1..n : new[j].at = new[k].at => j = k
      BY <1>1, <2>n, <2>1
    <3> QED BY <2>n, <3>1, <3>2
  <2> QED BY <2>1, <2>3, <2>4 DEF ConfigRowsAreTrue, IsConfig, new
<1> QED BY <1>3, <1>4

LEMMA DeliverKeepsIndex ==
  ASSUME LogInv, IndexInv, NEW t \in Streams, NEW i \in DOMAIN log, Deliver(t, i)
  PROVE  IndexInv'
<1>0. /\ index \in Index /\ LogTyped /\ CursorsInLog /\ IsNext(t, i)
      /\ index' = Projected(i) /\ cursor' = [cursor EXCEPT ![t] = i]
      /\ UNCHANGED <<chainVars, faults>>
  BY DEF Deliver, CursorAfter, IndexInv, LogInv
<1> DEFINE a == log[i].attestation
<1>1. /\ index' \in Index
      /\ index'.standing = IF IsIssue(i) /\ ~Indexed(a)
                           THEN Append(index.standing, a) ELSE index.standing
      /\ index'.revoked = IF IsRevocation(i) /\ Indexed(a)
                          THEN index.revoked \cup {a} ELSE index.revoked
      /\ index'.configs = IF IsConfig(i) /\ ~HasRow(i)
                          THEN Append(index.configs, [at |-> i, checkpoint |-> i])
                          ELSE index.configs
  BY <1>0, ProjectedFields
<1>2. /\ UNCHANGED <<log, attestations, faults>>
      /\ \A j \in DOMAIN log : /\ IsIssue(j)' <=> IsIssue(j)
                               /\ IsRevocation(j)' <=> IsRevocation(j)
                               /\ IsConfig(j)' <=> IsConfig(j)
  BY <1>0, ChainStands
<1>3. /\ CursorsInLog' /\ i \in Nat
      /\ \A j \in DOMAIN log : IsIssue(j) \/ IsRevocation(j) =>
           /\ j <= cursor'["attestation"] => j <= cursor["attestation"] \/ j = i
           /\ j = i => i > cursor["attestation"]
      /\ \A j \in DOMAIN log : IsConfig(j) =>
           (j <= cursor'["reputation_gate"] => j <= cursor["reputation_gate"] \/ j = i)
  BY <1>0, NextOfStream
<1>4. /\ IsIssue(i) => a \in AttestationIds /\ Exists(a)
      /\ IsRevocation(i) => a \in AttestationIds /\ Exists(a) /\ attestations[a].revoked
  BY <1>0, LoggedFields DEF LogInv, LogTellsAttestations
<1>5. Indexed(a) <=> \E k \in DOMAIN index.standing : index.standing[k] = a
  BY <1>0, IndexedIsARow
\* the rows of attestations: those of before, and perhaps a
<1>6. /\ \A k \in DOMAIN index.standing :
           k \in DOMAIN index'.standing /\ index'.standing[k] = index.standing[k]
      /\ \A k \in DOMAIN index'.standing :
           \/ k \in DOMAIN index.standing /\ index'.standing[k] = index.standing[k]
           \/ IsIssue(i) /\ index'.standing[k] = a
      /\ IsIssue(i) => \E k \in DOMAIN index'.standing : index'.standing[k] = a
  <2>1. index.standing \in Seq(AttestationIds)
    BY <1>0 DEF Index
  <2>2. CASE IsIssue(i) /\ ~Indexed(a)
    <3>1. index'.standing = Append(index.standing, a)
      BY <1>1, <2>2
    <3>2. a \in AttestationIds
      BY <1>4, <2>2
    <3> QED BY <2>1, <2>2, <3>1, <3>2, RowAppended
  <2>3. CASE ~(IsIssue(i) /\ ~Indexed(a))
    BY <1>1, <1>5, <2>3
  <2> QED BY <2>2, <2>3
<1>7. RowsAreTrue'
  <2>1. \A k \in DOMAIN index'.standing : Exists(index'.standing[k])
    BY <1>4, <1>6 DEF IndexInv, RowsAreTrue
  <2>2. \A b \in index'.revoked : Exists(b) /\ attestations[b].revoked
    BY <1>1, <1>4 DEF IndexInv, RowsAreTrue
  <2> QED BY <1>2, <2>1, <2>2 DEF RowsAreTrue, Exists
<1>8. IssuesIndexed'
  <2>1. ASSUME NEW j \in DOMAIN log, IsIssue(j), j <= cursor'["attestation"], j \notin faults
        PROVE  \E k \in DOMAIN index'.standing : index'.standing[k] = log[j].attestation
    <3>1. CASE j = i
      BY <1>6, <2>1, <3>1
    <3>2. CASE j <= cursor["attestation"]
      <4>1. \E k \in DOMAIN index.standing : index.standing[k] = log[j].attestation
        BY <2>1, <3>2 DEF IndexInv, IssuesIndexed
      <4> QED BY <1>6, <4>1
    <3> QED BY <1>3, <2>1, <3>1, <3>2
  <2> QED BY <1>2, <2>1 DEF IssuesIndexed, IsIssue
<1>9. RevocationsIndexed'
  <2>1. ASSUME NEW j \in DOMAIN log, IsRevocation(j), j <= cursor'["attestation"], j \notin faults
        PROVE  \/ log[j].attestation \in index'.revoked
               \/ \A k \in DOMAIN index'.standing : index'.standing[k] # log[j].attestation
    <3>1. CASE j = i
      <4>1. ~IsIssue(i)
        BY <2>1, <3>1 DEF IsIssue, IsRevocation
      <4> QED BY <1>1, <1>5, <2>1, <3>1, <4>1
    <3>2. CASE j <= cursor["attestation"]
      <4>1. \/ log[j].attestation \in index.revoked
            \/ \A k \in DOMAIN index.standing : index.standing[k] # log[j].attestation
        BY <2>1, <3>2 DEF IndexInv, RevocationsIndexed
      <4>2. ASSUME IsIssue(i), a = log[j].attestation PROVE FALSE
        <5>1. i < j
          BY <2>1, <4>2 DEF LogInv, LogTellsAttestations
        <5>2. i > cursor["attestation"]
          BY <1>3, <4>2
        <5>3. j \in Nat /\ cursor["attestation"] \in Nat
          BY <1>0 DEF LogTyped, CursorsInLog, Streams
        <5> QED BY <1>3, <3>2, <5>1, <5>2, <5>3
      <4>3. index.revoked \subseteq index'.revoked
        BY <1>1
      <4> QED BY <1>6, <4>1, <4>2, <4>3
    <3> QED BY <1>3, <2>1, <3>1, <3>2
  <2> QED BY <1>2, <2>1 DEF RevocationsIndexed, IsRevocation
\* the rows of thresholds: those of before, and perhaps that of the update
<1>10. /\ \A k \in DOMAIN index.configs :
            k \in DOMAIN index'.configs /\ index'.configs[k] = index.configs[k]
       /\ IsConfig(i) => \E k \in DOMAIN index'.configs : index'.configs[k].at = i
  <2>1. index.configs \in Seq([at : Nat, checkpoint : Nat])
    BY <1>0 DEF Index
  <2>2. CASE IsConfig(i) /\ ~HasRow(i)
    <3> DEFINE c == [at |-> i, checkpoint |-> i]
               S == [at : Nat, checkpoint : Nat]
               old == index.configs
               new == index'.configs
    <3>1. old \in Seq(S) /\ c \in S /\ c.at = i /\ new = Append(old, c)
      BY <1>1, <1>3, <2>1, <2>2
    <3>2. /\ \A k \in DOMAIN old : k \in DOMAIN new /\ new[k] = old[k]
          /\ \E k \in DOMAIN new : new[k] = c
      <4> HIDE DEF c, S, old, new
      <4> QED BY <3>1, RowAppended
    <3> QED BY <3>1, <3>2
  <2>3. CASE ~(IsConfig(i) /\ ~HasRow(i))
    BY <1>1, <2>3 DEF HasRow
  <2> QED BY <2>2, <2>3
<1>11. ConfigRowsAreTrue'
  <2>1. i \in Nat /\ UNCHANGED log /\ faults \subseteq faults'
    BY <1>0, <1>2, <1>3
  <2>2. \/ index'.configs = index.configs
        \/ /\ IsConfig(i) /\ ~HasRow(i)
           /\ index'.configs = Append(index.configs, [at |-> i, checkpoint |-> i])
    BY <1>1
  <2> QED BY <2>1, <2>2, NewConfigRow
<1>12. ConfigsIndexed'
  <2>1. ASSUME NEW j \in DOMAIN log, IsConfig(j), j <= cursor'["reputation_gate"], j \notin faults
        PROVE  \E k \in DOMAIN index'.configs : index'.configs[k].at = j
    <3>1. CASE j = i
      BY <1>10, <2>1, <3>1
    <3>2. CASE j <= cursor["reputation_gate"]
      <4>1. \E k \in DOMAIN index.configs : index.configs[k].at = j
        BY <2>1, <3>2 DEF IndexInv, ConfigsIndexed
      <4> QED BY <1>10, <4>1
    <3> QED BY <1>3, <2>1, <3>1, <3>2
  <2> QED BY <1>2, <2>1 DEF ConfigsIndexed, IsConfig
<1>13. landed' \subseteq DOMAIN log' /\ LandedIndexed'
  <2>1. landed' = IF IsRevocation(i) /\ Indexed(a) THEN landed \cup {i} ELSE landed
    BY DEF Deliver, Lands, IsRevocation
  <2>2. landed \subseteq DOMAIN log /\ \A j \in landed : log[j].attestation \in index.revoked
    BY DEF IndexInv, LandedIndexed
  <2> QED BY <1>1, <1>2, <2>1, <2>2 DEF LandedIndexed
<1> QED BY <1>1, <1>3, <1>7, <1>8, <1>9, <1>11, <1>12, <1>13 DEF IndexInv

LEMMA DeliverBadlyKeepsIndex ==
  ASSUME LogInv, IndexInv, NEW t \in Streams, NEW i \in DOMAIN log, DeliverBadly(t, i)
  PROVE  IndexInv'
<1>0. /\ index \in Index /\ LogTyped /\ CursorsInLog /\ IsNext(t, i)
      /\ index' \in Botched(i) /\ cursor' = [cursor EXCEPT ![t] = i]
      /\ faults' = faults \cup {i} /\ UNCHANGED chainVars
  BY DEF DeliverBadly, CursorAfter, IndexInv, LogInv
<1>1. /\ index' \in Index
      /\ index'.standing = index.standing /\ index'.revoked = index.revoked
      /\ \/ index'.configs = index.configs
         \/ /\ IsConfig(i) /\ ~HasRow(i)
            /\ index'.configs = Append(index.configs, [at |-> i, checkpoint |-> 0])
  BY <1>0, BotchedFields
<1>2. /\ UNCHANGED <<log, attestations>>
      /\ \A j \in DOMAIN log : /\ IsIssue(j)' <=> IsIssue(j)
                               /\ IsRevocation(j)' <=> IsRevocation(j)
                               /\ IsConfig(j)' <=> IsConfig(j)
  BY <1>0, ChainStands
<1>3. /\ CursorsInLog' /\ i \in Nat
      /\ \A j \in DOMAIN log : IsIssue(j) \/ IsRevocation(j) =>
           /\ j <= cursor'["attestation"] => j <= cursor["attestation"] \/ j = i
           /\ j = i => i > cursor["attestation"]
      /\ \A j \in DOMAIN log : IsConfig(j) =>
           (j <= cursor'["reputation_gate"] => j <= cursor["reputation_gate"] \/ j = i)
  BY <1>0, NextOfStream
<1>4. RowsAreTrue'
  BY <1>1, <1>2 DEF IndexInv, RowsAreTrue, Exists
<1>5. IssuesIndexed'
  <2>1. ASSUME NEW j \in DOMAIN log, IsIssue(j), j <= cursor'["attestation"], j \notin faults'
        PROVE  j <= cursor["attestation"] /\ j \notin faults
    BY <1>0, <1>3, <2>1
  <2> QED BY <1>1, <1>2, <2>1 DEF IndexInv, IssuesIndexed, IsIssue
<1>6. RevocationsIndexed'
  <2>1. ASSUME NEW j \in DOMAIN log, IsRevocation(j), j <= cursor'["attestation"], j \notin faults'
        PROVE  j <= cursor["attestation"] /\ j \notin faults
    BY <1>0, <1>3, <2>1
  <2> QED BY <1>1, <1>2, <2>1 DEF IndexInv, RevocationsIndexed, IsRevocation
<1>7. ConfigRowsAreTrue'
  <2>1. UNCHANGED log /\ faults \subseteq faults' /\ i \in faults' /\ i \in Nat /\ 0 \in Nat
    BY <1>0, <1>2, <1>3
  <2> QED BY <1>1, <2>1, NewConfigRow
<1>8. ConfigsIndexed'
  <2>1. ASSUME NEW j \in DOMAIN log, IsConfig(j), j <= cursor'["reputation_gate"], j \notin faults'
        PROVE  \E k \in DOMAIN index'.configs : index'.configs[k].at = j
    <3>1. \E k \in DOMAIN index.configs : index.configs[k].at = j
      BY <1>0, <1>3, <2>1 DEF IndexInv, ConfigsIndexed
    <3>2. \A k \in DOMAIN index.configs :
            k \in DOMAIN index'.configs /\ index'.configs[k] = index.configs[k]
      <4>1. index.configs \in Seq([at : Nat, checkpoint : Nat])
        BY <1>0 DEF Index
      <4>2. CASE index'.configs = index.configs
        BY <4>2
      <4>3. CASE index'.configs = Append(index.configs, [at |-> i, checkpoint |-> 0])
        <5> DEFINE c == [at |-> i, checkpoint |-> 0]
                   S == [at : Nat, checkpoint : Nat]
                   old == index.configs
                   new == index'.configs
        <5>1. old \in Seq(S) /\ c \in S /\ new = Append(old, c)
          BY <1>3, <4>1, <4>3
        <5>2. \A k \in DOMAIN old : k \in DOMAIN new /\ new[k] = old[k]
          <6> HIDE DEF c, S, old, new
          <6> QED BY <5>1, RowAppended
        <5> QED BY <5>2
      <4> QED BY <1>1, <4>2, <4>3
    <3> QED BY <3>1, <3>2
  <2> QED BY <1>2, <2>1 DEF ConfigsIndexed, IsConfig
<1>9. landed' \subseteq DOMAIN log' /\ LandedIndexed'
  BY <1>1, <1>2 DEF DeliverBadly, IndexInv, LandedIndexed
<1> QED BY <1>1, <1>3, <1>4, <1>5, <1>6, <1>7, <1>8, <1>9 DEF IndexInv

LEMMA RewindKeepsIndex ==
  ASSUME LogInv, IndexInv, NEW t \in Streams,
         NEW c \in {0} \cup {i \in DOMAIN log : StreamOf(log[i]) = t}, Rewind(t, c)
  PROVE  IndexInv'
<1>n. PICK n \in Nat : n = Len(log) /\ DOMAIN log = 1..n
  BY DEF LogInv, LogTyped
<1>0. /\ UNCHANGED <<chainVars, index, faults, landed>> /\ cursor' = [cursor EXCEPT ![t] = c]
      /\ c < cursor[t] /\ c \in Nat
  BY <1>n DEF Rewind
<1>1. UNCHANGED <<log, attestations>>
  BY <1>0, ChainStands
<1>2. /\ CursorsInLog' /\ \A u \in Streams : cursor'[u] <= cursor[u]
      /\ \A u \in Streams : cursor[u] \in Nat /\ cursor'[u] \in Nat
  BY <1>0, <1>1, <1>n DEF IndexInv, CursorsInLog
<1>3. \A j \in DOMAIN log :
        /\ j <= cursor'["attestation"] => j <= cursor["attestation"]
        /\ j <= cursor'["reputation_gate"] => j <= cursor["reputation_gate"]
  BY <1>2, <1>n DEF Streams
<1>4. RowsAreTrue' /\ ConfigRowsAreTrue' /\ index' \in Index
  BY <1>0, <1>1 DEF IndexInv, RowsAreTrue, ConfigRowsAreTrue, Exists, IsConfig
<1>5. IssuesIndexed'
  BY <1>0, <1>1, <1>3 DEF IndexInv, IssuesIndexed, IsIssue
<1>6. RevocationsIndexed'
  BY <1>0, <1>1, <1>3 DEF IndexInv, RevocationsIndexed, IsRevocation
<1>7. ConfigsIndexed'
  BY <1>0, <1>1, <1>3 DEF IndexInv, ConfigsIndexed, IsConfig
<1>8. landed' \subseteq DOMAIN log' /\ LandedIndexed'
  BY <1>0, <1>1 DEF IndexInv, LandedIndexed
<1> QED BY <1>2, <1>4, <1>5, <1>6, <1>7, <1>8 DEF IndexInv

\* What the decisions rest on: the invariant of the chain and the index.
THEOREM TrustInvariant == TrustSpec => []TrustInv
<1>1. TrustInit => TrustInv
  <2> SUFFICES ASSUME TrustInit PROVE TrustInv
    OBVIOUS
  <2>1. TypeOK
    <3>1. gates \in [Gates -> GatePolicy \cup {NoGate}]
      <4>1. PICK s \in SchemaIds, ally \in Thresholds \ {0}, toll \in TollAmounts :
              gates = [g \in Gates |->
                [owner |-> Admin, schema |-> s, ally |-> ally, toll |-> toll,
                 treasury |-> 0, paused |-> FALSE, boundTo |-> None]]
        BY DEF TrustInit
      <4> DEFINE gate == [owner |-> Admin, schema |-> s, ally |-> ally, toll |-> toll,
                          treasury |-> 0, paused |-> FALSE, boundTo |-> None]
      <4>2. ally \in Nat \ {0} /\ toll \in Nat
        BY GateConstants
      <4>3. gate \in GatePolicy
        BY <4>2, SchemaConstants DEF GatePolicy
      <4> HIDE DEF gate
      <4>4. gates = [g \in Gates |-> gate]
        BY <4>1 DEF gate
      <4> QED BY <4>3, <4>4
    <3>2. SchemaRegistryTypeOK
      BY SchemaConstants DEF TrustInit, SchemaRegistryInit, SchemaRegistryTypeOK
    <3>3. AttestationsTypeOK
      <4>1. epoch = 0 /\ attestations = [a \in AttestationIds |-> NoAttestation]
        BY DEF TrustInit
      <4>2. issuers \subseteq Accounts \X SchemaIds
        BY SchemaConstants DEF TrustInit
      <4> QED BY <4>1, <4>2, AttestationConstants DEF AttestationsTypeOK
    <3>4. capHolder \in [Gates -> Accounts \cup {None}] /\ wallet \in [Accounts -> Nat]
      BY SchemaConstants, GateConstants DEF TrustInit
    <3> QED BY <3>1, <3>2, <3>3, <3>4 DEF TypeOK
  <2>2. AttestationsHaveAuthority
    BY DEF TrustInit, AttestationsHaveAuthority, Exists
  <2>3. log = <<>> /\ DOMAIN log = {} /\ Len(log) = 0
    BY DEF TrustInit
  <2>4. LogInv
    BY <2>3 DEF TrustInit, LogInv, LogTyped, LogTellsAttestations, LogTellsThresholds, Exists
  <2>5. index \in Index
    BY DEF TrustInit, EmptyIndex, Index, Absent
  <2>6. CursorsInLog
    BY <2>3 DEF TrustInit, CursorsInLog
  <2>7. DOMAIN index.standing = {} /\ index.revoked = {} /\ DOMAIN index.configs = {}
    BY DEF TrustInit, EmptyIndex
  <2>8. RowsAreTrue /\ ConfigRowsAreTrue
    BY <2>7 DEF RowsAreTrue, ConfigRowsAreTrue
  <2>9. IssuesIndexed /\ RevocationsIndexed /\ ConfigsIndexed
    BY <2>3 DEF IssuesIndexed, RevocationsIndexed, ConfigsIndexed
  <2>10. landed \subseteq DOMAIN log /\ LandedIndexed
    BY DEF TrustInit, LandedIndexed
  <2> QED BY <2>1, <2>2, <2>4, <2>5, <2>6, <2>8, <2>9, <2>10 DEF TrustInv, IndexInv
<1>2. ASSUME TrustInv, ChainStep PROVE TrustInv'
  <2>1. LogInv' /\ ChainPersists
    BY <1>2, ChainKeepsLog DEF TrustInv
  <2>2. IndexInv'
    BY <1>2, <2>1, ChainKeepsIndex DEF TrustInv, LogInv, ChainStep
  <2>3. \/ Next
        \/ UNCHANGED <<issuers, attestations, schemas>> /\ UNCHANGED <<schemaVars, attestationVars, gateVars>>
    BY <1>2, TransactionsAreSteps DEF ChainStep, schemaVars, attestationVars
  <2>4. CASE Next
    BY <1>2, <2>1, <2>2, <2>4, StepTyped, StepKeepsAuthority DEF TrustInv
  <2>5. CASE UNCHANGED <<issuers, attestations, schemas>> /\ UNCHANGED <<schemaVars, attestationVars, gateVars>>
    <3>1. TypeOK'
      BY <1>2, <2>5 DEF TrustInv, TypeOK, SchemaRegistryTypeOK, AttestationsTypeOK,
                        schemaVars, attestationVars, gateVars
    <3>2. AttestationsHaveAuthority'
      BY <1>2, <2>5, StepKeepsAuthority DEF TrustInv
    <3> QED BY <2>1, <2>2, <3>1, <3>2 DEF TrustInv
  <2> QED BY <2>3, <2>4, <2>5
<1>3. ASSUME TrustInv, UNCHANGED chainVars, IndexInv' PROVE TrustInv'
  <2>1. UNCHANGED <<schemaVars, attestationVars, gateVars, log>>
    BY <1>3 DEF chainVars
  <2>2. TypeOK'
    BY <1>3, <2>1 DEF TrustInv, TypeOK, SchemaRegistryTypeOK, AttestationsTypeOK,
                      schemaVars, attestationVars, gateVars
  <2>3. AttestationsHaveAuthority'
    BY <1>3, <2>1, StepKeepsAuthority DEF TrustInv, schemaVars, attestationVars
  <2>4. LogInv'
    BY <1>3, <2>1 DEF TrustInv, LogInv, LogTyped, LogTellsAttestations, LogTellsThresholds,
                      IsIssue, IsRevocation, IsConfig, Exists, Deployed, attestationVars, gateVars
  <2> QED BY <1>3, <2>2, <2>3, <2>4 DEF TrustInv
<1>4. ASSUME TrustInv, IndexerStep PROVE TrustInv'
  <2>1. UNCHANGED chainVars
    BY <1>4 DEF IndexerStep, Deliver, DeliverBadly, Rewind
  <2>2. IndexInv'
    BY <1>4, DeliverKeepsIndex, DeliverBadlyKeepsIndex, RewindKeepsIndex DEF IndexerStep, TrustInv
  <2> QED BY <1>3, <1>4, <2>1, <2>2
<1>5. ASSUME TrustInv, UNCHANGED trustVars PROVE TrustInv'
  <2>1. UNCHANGED chainVars /\ UNCHANGED <<cursor, index, faults, landed>>
    BY <1>5 DEF trustVars, indexVars
  <2>2. UNCHANGED <<log, attestations>>
    BY <2>1, ChainStands
  <2>3. IndexInv'
    BY <1>5, <2>1, <2>2 DEF TrustInv, IndexInv, CursorsInLog, RowsAreTrue, IssuesIndexed,
                      RevocationsIndexed, ConfigRowsAreTrue, ConfigsIndexed, LandedIndexed,
                      IsIssue, IsRevocation, IsConfig, Exists
  <2> QED BY <1>3, <1>5, <2>1, <2>3
<1>6. TrustInv /\ [TrustNext]_trustVars => TrustInv'
  BY <1>2, <1>4, <1>5 DEF TrustNext
<1> QED BY <1>1, <1>6, PTL DEF TrustSpec

-----------------------------------------------------------------------------
(* The decisions                                                           *)

LEMMA Greatest ==
  ASSUME NEW n \in Nat, NEW S \in SUBSET (1..n), S # {}
  PROVE  \E x \in S : \A y \in S : x >= y
<1> DEFINE T == {n - x : x \in S}
<1>1. T \subseteq Nat /\ T # {}
  <2>1. \A x \in S : n - x \in Nat
    OBVIOUS
  <2>2. PICK x \in S : TRUE
    OBVIOUS
  <2>3. n - x \in T
    OBVIOUS
  <2> QED BY <2>1, <2>3
<1>2. PICK m \in T : \A y \in T : ~(<<y, m>> \in OpToRel(<, Nat))
  <2> HIDE DEF T
  <2> QED BY <1>1, NatLessThanWellFounded, WFMin, Zenon
<1>3. PICK x \in S : m = n - x
  BY <1>2
<1>4. ASSUME NEW y \in S PROVE x >= y
  <2>1. n - y \in T /\ n - y \in Nat /\ m \in Nat
    BY <1>1
  <2>2. ~(n - y < m)
    BY <1>2, <2>1 DEF OpToRel
  <2> QED BY <1>3, <2>2
<1> QED BY <1>4

LEMMA MaxOfRows ==
  ASSUME NEW n \in Nat, NEW S \in SUBSET (1..n), S # {}
  PROVE  Max(S) \in S
BY Greatest DEF Max

\* The attestation a decision rests on.
LEMMA LatestIsStanding ==
  ASSUME index \in Index, NEW subject, NEW s
  PROVE  /\ LatestStanding(subject, s) = None <=> StandingRows(subject, s) = {}
         /\ LatestStanding(subject, s) # None =>
              \E k \in StandingRows(subject, s) :
                LatestStanding(subject, s) = index.standing[k]
<1>1. index.standing \in Seq(AttestationIds)
  BY DEF Index
<1>2. PICK n \in Nat : DOMAIN index.standing = 1..n
  BY <1>1
<1>3. StandingRows(subject, s) \in SUBSET (1..n)
  BY <1>2 DEF StandingRows
<1>4. CASE StandingRows(subject, s) = {}
  BY <1>4 DEF LatestStanding
<1>5. CASE StandingRows(subject, s) # {}
  <2>1. Max(StandingRows(subject, s)) \in StandingRows(subject, s)
    BY <1>3, <1>5, MaxOfRows
  <2>2. LatestStanding(subject, s) = index.standing[Max(StandingRows(subject, s))]
    BY <1>5 DEF LatestStanding
  <2>3. index.standing[Max(StandingRows(subject, s))] \in AttestationIds
    BY <1>1, <1>2, <1>3, <2>1
  <2> QED BY <1>5, <2>1, <2>2, <2>3, TrustConstants
<1> QED BY <1>4, <1>5

LEMMA StandingFields ==
  ASSUME index \in Index, RowsAreTrue, NEW subject, NEW s, NEW k \in StandingRows(subject, s)
  PROVE  /\ index.standing[k] \in AttestationIds /\ Exists(index.standing[k])
         /\ index.standing[k] \notin index.revoked
         /\ attestations[index.standing[k]].subject = subject
         /\ attestations[index.standing[k]].schema = s
<1>1. k \in DOMAIN index.standing
  BY DEF StandingRows
<1>2. index.standing[k] \in AttestationIds
  BY <1>1 DEF Index
<1> QED BY <1>1, <1>2 DEF StandingRows, RowsAreTrue

LEMMA NobodyWithoutAttestation ==
  ASSUME TrustInv
  PROVE  AllowedNeedsAttestation
<1> SUFFICES ASSUME NEW subject \in Accounts, NEW g \in Gates, NEW s \in SchemaIds,
                    Allowed(EvaluateGateAccess(subject, g, s))
             PROVE  \E a \in AttestationIds :
                      /\ Exists(a) /\ attestations[a].subject = subject /\ attestations[a].schema = s
                      /\ <<attestations[a].issuer, s>> \in issuers
  BY DEF AllowedNeedsAttestation
<1>1. LatestStanding(subject, s) # None
  BY DEF EvaluateGateAccess, Allowed
<1>2. PICK k \in StandingRows(subject, s) : LatestStanding(subject, s) = index.standing[k]
  BY <1>1, LatestIsStanding DEF TrustInv, IndexInv
<1>3. /\ index.standing[k] \in AttestationIds /\ Exists(index.standing[k])
      /\ attestations[index.standing[k]].subject = subject
      /\ attestations[index.standing[k]].schema = s
  BY StandingFields DEF TrustInv, IndexInv
<1>4. <<attestations[index.standing[k]].issuer, s>> \in issuers
  BY <1>3 DEF TrustInv, AttestationsHaveAuthority
<1> QED BY <1>3, <1>4

LEMMA RevocationsAreSeen ==
  ASSUME TrustInv
  PROVE  RevocationReachesDecisions
<1> SUFFICES ASSUME NEW i \in DOMAIN log, IsRevocation(i),
                    i \in landed \/ (i <= cursor["attestation"] /\ i \notin faults),
                    NEW subject \in Accounts, NEW s \in SchemaIds,
                    LatestStanding(subject, s) = log[i].attestation
             PROVE  FALSE
  BY DEF RevocationReachesDecisions, IsRevocation
<1>1. log[i].attestation \in AttestationIds
  BY LoggedFields DEF TrustInv, LogInv
<1>2. PICK k \in StandingRows(subject, s) : LatestStanding(subject, s) = index.standing[k]
  BY <1>1, LatestIsStanding, TrustConstants DEF TrustInv, IndexInv
<1>3. k \in DOMAIN index.standing /\ index.standing[k] \notin index.revoked
  BY DEF StandingRows
<1>4. \/ log[i].attestation \in index.revoked
      \/ \A j \in DOMAIN index.standing : index.standing[j] # log[i].attestation
  BY DEF TrustInv, IndexInv, RevocationsIndexed, LandedIndexed
<1> QED BY <1>2, <1>3, <1>4

\* Of the rows of a gate the one read is the last update of its thresholds.
LEMMA NewestIsLast ==
  ASSUME TrustInv, CaughtUp, faults = {}, NEW g \in Gates, GateConfigs(g) # {}
  PROVE  LatestConfig(g).ally = gates[g].ally /\ LatestConfig(g).toll = gates[g].toll
<1>1. PICK n \in Nat : n = Len(log) /\ DOMAIN log = 1..n
  BY DEF TrustInv, LogInv, LogTyped
<1>2. \A k \in DOMAIN index.configs :
        /\ IsConfig(index.configs[k].at)
        /\ index.configs[k].checkpoint = index.configs[k].at
  BY DEF TrustInv, IndexInv, ConfigRowsAreTrue
<1>3. \A j, k \in DOMAIN index.configs : index.configs[j].at = index.configs[k].at => j = k
  BY DEF TrustInv, IndexInv, ConfigRowsAreTrue
<1>4. GateConfigs(g) \subseteq DOMAIN index.configs
  BY DEF GateConfigs
<1> DEFINE At(k) == index.configs[k].at
           ats == {At(k) : k \in GateConfigs(g)}
<1>5. \A k \in DOMAIN index.configs : At(k) \in 1..n
  BY <1>1, <1>2 DEF IsConfig
<1>6. ats \in SUBSET (1..n) /\ ats # {}
  BY <1>4, <1>5
<1>7. PICK m \in ats : \A y \in ats : m >= y
  <2> HIDE DEF ats
  <2> QED BY <1>6, Greatest
<1>8. PICK last \in GateConfigs(g) : At(last) = m
  BY <1>7
<1>9. DOMAIN index.configs \subseteq Nat
  BY DEF TrustInv, IndexInv, Index
<1>10. \A j \in GateConfigs(g) :
         \/ index.configs[j].checkpoint < index.configs[last].checkpoint
         \/ index.configs[j].checkpoint = index.configs[last].checkpoint /\ j <= last
  <2> SUFFICES ASSUME NEW j \in GateConfigs(g)
               PROVE  \/ index.configs[j].checkpoint < index.configs[last].checkpoint
                      \/ index.configs[j].checkpoint = index.configs[last].checkpoint /\ j <= last
    OBVIOUS
  <2>1. /\ At(j) \in 1..n /\ At(last) \in 1..n /\ At(j) <= At(last)
        /\ j \in Nat /\ last \in Nat
        /\ index.configs[j].checkpoint = At(j) /\ index.configs[last].checkpoint = At(last)
    BY <1>2, <1>4, <1>5, <1>7, <1>8, <1>9
  <2>2. At(j) = At(last) => j = last
    BY <1>3, <1>4
  <2> HIDE DEF At
  <2> QED BY <2>1, <2>2
<1> DEFINE k == NewestConfig(g)
<1>11. /\ k \in GateConfigs(g)
       /\ \A j \in GateConfigs(g) :
            \/ index.configs[j].checkpoint < index.configs[k].checkpoint
            \/ index.configs[j].checkpoint = index.configs[k].checkpoint /\ j <= k
  BY <1>10 DEF NewestConfig
<1> HIDE DEF k
<1>12. /\ IsConfig(At(k)) /\ At(k) \in 1..n /\ log[At(k)].gate = g
       /\ \A j \in GateConfigs(g) : At(j) <= At(k)
  BY <1>2, <1>4, <1>5, <1>11 DEF GateConfigs
<1>13. ASSUME NEW j \in DOMAIN log, j > At(k), IsConfig(j), log[j].gate = g PROVE FALSE
  <2>1. j <= cursor["reputation_gate"]
    BY <1>13, StreamsOfEvents DEF CaughtUp, Streams
  <2>2. PICK r \in DOMAIN index.configs : index.configs[r].at = j
    BY <1>13, <2>1 DEF TrustInv, IndexInv, ConfigsIndexed
  <2>3. r \in GateConfigs(g) /\ At(r) = j
    BY <1>13, <2>2 DEF GateConfigs
  <2>4. j <= At(k)
    BY <1>12, <2>3
  <2> HIDE DEF At
  <2> QED BY <1>1, <1>12, <1>13, <2>4
<1>14. gates[g].ally = log[At(k)].ally /\ gates[g].toll = log[At(k)].toll
  BY <1>1, <1>12, <1>13 DEF TrustInv, LogInv, LogTellsThresholds
<1> QED BY <1>14 DEF LatestConfig, k

LEMMA DecisionsAgree ==
  ASSUME TrustInv
  PROVE  CaughtUpDecisionIsTheGates
<1> SUFFICES ASSUME CaughtUp, faults = {}, NEW subject \in Accounts, NEW g \in Gates,
                    Deployed(g), GateConfigs(g) # {}
             PROVE  LET s == gates[g].schema
                        a == LatestStanding(subject, s)
                        d == EvaluateGateAccess(subject, g, s)
                    IN  /\ a = None => ~\E b \in AttestationIds : Exists(b) /\ MayPresent(subject, g, b)
                        /\ a # None /\ IsValid(a) /\ CachedScore(subject, s) = Absent =>
                             /\ Allowed(d) <=> MayPresent(subject, g, a)
                             /\ Allowed(d) => d.toll = TollFor(g, attestations[a].value)
  BY DEF CaughtUpDecisionIsTheGates
<1> DEFINE s == gates[g].schema
           a == LatestStanding(subject, s)
           d == EvaluateGateAccess(subject, g, s)
<1>1. ASSUME a = None, NEW b \in AttestationIds, Exists(b), MayPresent(subject, g, b)
      PROVE  FALSE
  <2>1. PICK i \in DOMAIN log : IsIssue(i) /\ log[i].attestation = b
    BY <1>1 DEF TrustInv, LogInv, LogTellsAttestations
  <2>2. i <= cursor["attestation"]
    BY <2>1, StreamsOfEvents DEF CaughtUp, Streams
  <2>3. PICK k \in DOMAIN index.standing : index.standing[k] = b
    BY <2>1, <2>2 DEF TrustInv, IndexInv, IssuesIndexed
  <2>4. k \notin StandingRows(subject, s)
    BY <1>1, LatestIsStanding DEF TrustInv, IndexInv
  <2>5. b \in index.revoked
    BY <1>1, <2>3, <2>4 DEF StandingRows, MayPresent
  <2>6. attestations[b].revoked
    BY <2>5 DEF TrustInv, IndexInv, RowsAreTrue
  <2> QED BY <1>1, <2>6 DEF MayPresent, IsValid
<1>2. ASSUME a # None, IsValid(a), CachedScore(subject, s) = Absent
      PROVE  /\ Allowed(d) <=> MayPresent(subject, g, a)
             /\ Allowed(d) => d.toll = TollFor(g, attestations[a].value)
  <2>1. PICK k \in StandingRows(subject, s) : a = index.standing[k]
    BY <1>2, LatestIsStanding DEF TrustInv, IndexInv
  <2>2. a \in AttestationIds /\ Exists(a) /\ attestations[a].subject = subject /\ attestations[a].schema = s
    BY <2>1, StandingFields DEF TrustInv, IndexInv
  <2>3. attestations[a].value \in Nat /\ gates[g].ally \in Nat
    BY <2>2, ExistingIsAttestation, DeployedIsGate DEF TrustInv, Attestation, GatePolicy
  <2> DEFINE value == attestations[a].value
             policy == LatestConfig(g)
  <2>4. policy.ally = gates[g].ally /\ policy.toll = gates[g].toll
    BY NewestIsLast
  <2>5. d = ClassifyScore(value, policy)
    BY <1>2 DEF EvaluateGateAccess
  <2>6. MayPresent(subject, g, a) <=> value > 0
    BY <1>2, <2>2 DEF MayPresent
  <2> HIDE DEF value, policy, d
  <2>7. /\ Allowed(d) <=> value > 0
        /\ Allowed(d) => d.toll = IF value >= gates[g].ally THEN 0 ELSE gates[g].toll
    BY <2>3, <2>4, <2>5 DEF ClassifyScore, Allowed, value
  <2> QED BY <2>6, <2>7 DEF TollFor, IsAlly, value
<1> QED BY <1>1, <1>2

\* Whatever has been lost, delayed or replayed: nobody is allowed who has no
\* attestation of the schema about himself from an issuer that answers for it.
THEOREM StandingNeeded == TrustSpec => []AllowedNeedsAttestation
BY TrustInvariant, NobodyWithoutAttestation, PTL

\* A revocation that found its row is in every later decision, and one that was
\* handled without an error is while its stream is past it.
THEOREM RevocationSeen == TrustSpec => []RevocationReachesDecisions
BY TrustInvariant, RevocationsAreSeen, PTL

\* An index that has caught up without an error decides as check_passage does.
THEOREM CaughtUpDecides == TrustSpec => []CaughtUpDecisionIsTheGates
BY TrustInvariant, DecisionsAgree, PTL
=============================================================================
