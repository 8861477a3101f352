------------------------------- MODULE TrustGate -------------------------------
(***************************************************************************)
(* The gate_access decision of the Trust API beside the gate it predicts:  *)
(* trust_eval_gate.rs and trust_db.rs over the tables the processor keeps, *)
(* the chain being that of ReputationGate.                                 *)
(*                                                                         *)
(* The indexer is reduced to what Ingester says of it: each stream is      *)
(* handled in order from its cursor, a handler may fail, the source may    *)
(* leave an event out, and a restart may move a cursor back.  The four     *)
(* queries of one decision, which run concurrently, are taken to see one   *)
(* state of the tables.                                                    *)
(***************************************************************************)
EXTENDS ReputationGate, Functions, FiniteSetsExt

CONSTANTS
  ProfileIds,   \* ids of ReputationProfile objects
  NoProfile,    \* an id that is not used yet
  MaxLog,       \* bound: events emitted
  MaxFaults,    \* bound: events left out, or whose projection failed
  MaxRewinds    \* bound: cursors moved back

ASSUME TrustConstants ==
  /\ None \notin AttestationIds
  /\ MaxLog \in Nat /\ MaxFaults \in Nat /\ MaxRewinds \in Nat

VARIABLES
  profiles,   \* the ReputationProfile objects: owner and score of each schema
  log,        \* every event emitted so far, oldest first
  cursor,     \* position in the log of the last handled event of each stream
  index,      \* the projection tables
  faults,     \* history: positions left out, or handled with an error
  landed,     \* history: positions of revocations that found their row
  rewinds     \* how often a cursor has been moved back

chainVars == <<schemaVars, attestationVars, gateVars, emitted, profiles, log>>
indexVars == <<cursor, index, faults, landed, rewinds>>
trustVars == <<chainVars, indexVars>>

Streams == {"schema_registry", "attestation", "profile", "reputation_gate"}

StreamOf(e) ==
  CASE e.type = "SchemaRegistered" -> "schema_registry"
    [] e.type \in {"AttestationIssued", "AttestationRevoked"} -> "attestation"
    [] e.type \in {"ProfileCreated", "ScoreUpdated"} -> "profile"
    [] e.type = "GateConfigUpdated" -> "reputation_gate"

Absent == -1

EmptyIndex ==
  [schemas   |-> {},      \* schemas
   standing  |-> <<>>,    \* attestations, in the order of issued_at
   revoked   |-> {},      \* those with the flag revoked
   owners    |-> [x \in Accounts |-> NoProfile],
   scores    |-> [p \in ProfileIds |-> [s \in SchemaIds |-> Absent]],
   configs   |-> <<>>]    \* gate_config_updates, in the order of indexed_at

\* The deployer has been registered as an oracle and has deployed the gates.
TrustInit ==
  /\ SchemaRegistryInit
  /\ epoch = 0
  /\ issuers = {<<Admin, s>> : s \in SchemaIds}
  /\ attestations = [a \in AttestationIds |-> NoAttestation]
  /\ \E s \in SchemaIds, ally \in Thresholds \ {0}, toll \in TollAmounts :
       gates = [g \in Gates |->
         [owner |-> Admin, schema |-> s, ally |-> ally, toll |-> toll,
          treasury |-> 0, paused |-> FALSE, boundTo |-> None]]
  /\ capHolder = [g \in Gates |-> Admin]
  /\ wallet = InitialWallet
  /\ emitted = <<>>
  /\ profiles = [p \in ProfileIds |-> NoProfile]
  /\ log = <<>>
  /\ cursor = [t \in Streams |-> 0]
  /\ index = EmptyIndex
  /\ faults = {} /\ landed = {} /\ rewinds = 0

-----------------------------------------------------------------------------
(* Transactions                                                            *)

CreateProfile(sender, p) ==
  /\ profiles[p] = NoProfile
  /\ profiles' = [profiles EXCEPT ![p] =
       [owner |-> sender, score |-> [s \in SchemaIds |-> Absent]]]
  /\ emitted' = <<[type |-> "ProfileCreated", profile |-> p, owner |-> sender]>>

\* The capability of an oracle names the schemas it was registered for; the
\* schema need not be in the registry.
UpdateScore(o, p, s, value) ==
  /\ profiles[p] # NoProfile
  /\ <<o, s>> \in issuers
  /\ profiles' = [profiles EXCEPT ![p].score[s] = value]
  /\ emitted' = <<[type |-> "ScoreUpdated", profile |-> p, schema |-> s,
                   value |-> value]>>

\* The transactions a decision can depend on.  Attestations are shared, so that
\* their issuer can revoke them: the index does not know who holds one.
Transaction ==
  \/ /\ \/ \E p \in ProfileIds : CreateProfile(Admin, p)
        \/ \E p \in ProfileIds, s \in SchemaIds, value \in Values :
             UpdateScore(Admin, p, s, value)
     /\ UNCHANGED <<schemaVars, attestationVars, gateVars>>
  \/ /\ \E s \in SchemaIds : RegisterSchema(Admin, s, None, TRUE)
     /\ UNCHANGED <<profiles, attestationVars, gateVars>>
  \/ /\ \/ AdvanceEpoch
        \/ \E a \in AttestationIds, s \in SchemaIds, subject \in Accounts,
              value \in Values, term \in Terms :
             Issue(Admin, a, s, subject, value, term, Shared)
        \/ \E a \in AttestationIds : Revoke(Admin, a)
     /\ UNCHANGED <<profiles, schemaVars, gateVars>>
  \/ /\ \E g \in Gates :
          \/ \E ally \in Thresholds, toll \in TollAmounts :
               UpdateThresholds(Admin, g, ally, toll)
          \/ \E paused \in BOOLEAN : SetPaused(Admin, g, paused)
     /\ UNCHANGED <<profiles, schemaVars, attestationVars>>

ChainStep ==
  /\ Transaction
  /\ log' = log \o emitted'
  /\ Len(log') <= MaxLog
  /\ UNCHANGED indexVars

-----------------------------------------------------------------------------
(* Projections                                                             *)

Indexed(a) == a \in Range(index.standing)

\* Mistaken: an upsert, which writes revoked = FALSE again.
IssuedRowAnew(e) ==
  [index EXCEPT !.standing = IF Indexed(e.attestation) THEN @ ELSE Append(@, e.attestation),
                !.revoked  = @ \ {e.attestation}]

IssuedRow(e) ==
  IF Indexed(e.attestation) THEN index
  ELSE [index EXCEPT !.standing = Append(@, e.attestation)]

\* An UPDATE: a revocation whose attestation has no row changes nothing.
RevokedRow(e) ==
  IF Indexed(e.attestation)
  THEN [index EXCEPT !.revoked = @ \cup {e.attestation}]
  ELSE index

SchemaRow(e) == [index EXCEPT !.schemas = @ \cup {e.schema}]

ScoreRow(e) == [SchemaRow(e) EXCEPT !.scores[e.profile][e.schema] = e.value]

\* A row whose checkpoint the node did not tell is filed under checkpoint 0.
ConfigRow(i, checkpoint) ==
  IF \E k \in DOMAIN index.configs : index.configs[k].at = i THEN index
  ELSE [index EXCEPT !.configs = Append(@, [at |-> i, checkpoint |-> checkpoint])]

\* attestations.schema_id references schemas: a row of a schema that has not
\* been indexed is refused.
Projected(i) ==
  LET e == log[i] IN
  CASE e.type = "SchemaRegistered"   -> SchemaRow(e)
    [] e.type = "AttestationIssued"  -> IssuedRow(e)
    [] e.type = "AttestationRevoked" -> RevokedRow(e)
    [] e.type = "ProfileCreated"     -> [index EXCEPT !.owners[e.owner] = e.profile]
    [] e.type = "ScoreUpdated"       -> ScoreRow(e)
    [] e.type = "GateConfigUpdated"  -> ConfigRow(i, i)

Refused(i) == log[i].type = "AttestationIssued" /\ log[i].schema \notin index.schemas

\* The UPDATE of a revocation finds the row of its attestation.
Lands(i) == log[i].type = "AttestationRevoked" /\ Indexed(log[i].attestation)

\* The tables after an error of the database or of the node, or where the
\* event source left the event out.
Botched(i) ==
  {index}
  \cup {SchemaRow(e) : e \in {e \in {log[i]} : e.type = "ScoreUpdated"}}
  \cup {ConfigRow(i, 0) : e \in {e \in {log[i]} : e.type = "GateConfigUpdated"}}

IsNext(t, i) ==
  /\ i \in DOMAIN log /\ StreamOf(log[i]) = t /\ i > cursor[t]
  /\ \A j \in DOMAIN log : StreamOf(log[j]) = t /\ j > cursor[t] => i <= j

CursorAfter(i) == i

Deliver(t, i) ==
  /\ IsNext(t, i)
  /\ ~Refused(i)
  /\ index' = Projected(i)
  /\ landed' = IF Lands(i) THEN landed \cup {i} ELSE landed
  /\ cursor' = [cursor EXCEPT ![t] = CursorAfter(i)]
  /\ UNCHANGED <<chainVars, faults, rewinds>>

DeliverBadly(t, i) ==
  /\ IsNext(t, i)
  /\ Cardinality(faults \cup {i}) <= MaxFaults
  /\ index' \in Botched(i)
  /\ cursor' = [cursor EXCEPT ![t] = CursorAfter(i)]
  /\ faults' = faults \cup {i}
  /\ UNCHANGED <<chainVars, landed, rewinds>>

\* The process restarted from an older cursor of the stream.
Rewind(t, c) ==
  /\ rewinds < MaxRewinds
  /\ c < cursor[t]
  /\ cursor' = [cursor EXCEPT ![t] = c]
  /\ rewinds' = rewinds + 1
  /\ UNCHANGED <<chainVars, index, faults, landed>>

IndexerStep ==
  \E t \in Streams :
    \/ \E i \in DOMAIN log : Deliver(t, i) \/ DeliverBadly(t, i)
    \/ \E c \in {0} \cup {i \in DOMAIN log : StreamOf(log[i]) = t} : Rewind(t, c)

TrustNext == ChainStep \/ IndexerStep

TrustSpec == TrustInit /\ [][TrustNext]_trustVars

-----------------------------------------------------------------------------
(* The decision                                                            *)

\* Mistaken: the newest attestation, revoked or not.
NewestRows(subject, s) ==
  {k \in DOMAIN index.standing :
     /\ attestations[index.standing[k]].subject = subject
     /\ attestations[index.standing[k]].schema = s}

\* Mistaken: whoever the attestation is about.
AnyonesRows(subject, s) ==
  {k \in DOMAIN index.standing :
     /\ attestations[index.standing[k]].schema = s
     /\ index.standing[k] \notin index.revoked}

\* The fields of a row are those of the attestation, which never change.
StandingRows(subject, s) ==
  {k \in DOMAIN index.standing :
     /\ attestations[index.standing[k]].subject = subject
     /\ attestations[index.standing[k]].schema = s
     /\ index.standing[k] \notin index.revoked}

\* ORDER BY issued_at DESC LIMIT 1
LatestStanding(subject, s) ==
  LET rows == StandingRows(subject, s)
  IN  IF rows = {} THEN None ELSE index.standing[Max(rows)]

GateConfigs(g) == {k \in DOMAIN index.configs : log[index.configs[k].at].gate = g}

\* ORDER BY checkpoint_seq DESC, indexed_at DESC LIMIT 1
NewestConfig(g) ==
  CHOOSE k \in GateConfigs(g) : \A j \in GateConfigs(g) :
    \/ index.configs[j].checkpoint < index.configs[k].checkpoint
    \/ index.configs[j].checkpoint = index.configs[k].checkpoint /\ j <= k

LatestConfig(g) == log[index.configs[NewestConfig(g)].at]

CachedScore(subject, s) ==
  IF index.owners[subject] = NoProfile THEN Absent
  ELSE index.scores[index.owners[subject]][s]

\* Mistaken: the toll of a subject that reaches the threshold exactly.
ClassifyAbove(score, policy) ==
  IF score <= 0 THEN [code |-> "DENY", toll |-> None]
  ELSE IF score > policy.ally THEN [code |-> "ALLOW_FREE", toll |-> 0]
  ELSE [code |-> "ALLOW_TAXED", toll |-> policy.toll]

ClassifyScore(score, policy) ==
  IF score <= 0 THEN [code |-> "DENY", toll |-> None]
  ELSE IF score >= policy.ally THEN [code |-> "ALLOW_FREE", toll |-> 0]
  ELSE [code |-> "ALLOW_TAXED", toll |-> policy.toll]

EvaluateGateAccess(subject, g, s) ==
  LET a == LatestStanding(subject, s)
      cached == CachedScore(subject, s)
      score == IF cached # Absent THEN cached ELSE attestations[a].value
  IN  IF GateConfigs(g) = {} THEN [code |-> "INSUFFICIENT_DATA", toll |-> None]
      ELSE IF a = None THEN [code |-> "DENY", toll |-> None]
      ELSE ClassifyScore(score, LatestConfig(g))

Allowed(d) == d.code \in {"ALLOW_FREE", "ALLOW_TAXED"}

CaughtUp == \A t \in Streams : \A i \in DOMAIN log : StreamOf(log[i]) = t => i <= cursor[t]

-----------------------------------------------------------------------------

\* Once the index has caught up without an error, what it decides on the
\* attestation alone is what check_passage would do with that attestation while
\* the gate is open and the attestation runs, and it denies a subject without
\* standing only if no attestation would open the gate.  A gate is known to the
\* index from its first update of thresholds on.
CaughtUpDecisionIsTheGates ==
  CaughtUp /\ faults = {} =>
    \A subject \in Accounts, g \in Gates :
      Deployed(g) /\ ~gates[g].paused /\ GateConfigs(g) # {} =>
        LET s == gates[g].schema
            a == LatestStanding(subject, s)
            d == EvaluateGateAccess(subject, g, s)
        IN  /\ a = None => ~\E b \in AttestationIds : Exists(b) /\ MayPresent(subject, g, b)
            /\ a # None /\ IsValid(a) /\ CachedScore(subject, s) = Absent =>
                 /\ Allowed(d) <=> MayPresent(subject, g, a)
                 /\ Allowed(d) => d.toll = TollFor(g, attestations[a].value)

\* Whatever has been lost, delayed or replayed: nobody is allowed who has no
\* attestation of the schema on the chain, about himself and from an issuer
\* that answers for the schema.
AllowedNeedsAttestation ==
  \A subject \in Accounts, g \in Gates, s \in SchemaIds :
    Allowed(EvaluateGateAccess(subject, g, s)) =>
      \E a \in AttestationIds :
        /\ Exists(a) /\ attestations[a].subject = subject /\ attestations[a].schema = s
        /\ <<attestations[a].issuer, s>> \in issuers

\* No decision rests on a revoked attestation once its revocation has found the
\* row, whatever is lost, rewound and replayed after that; nor while the
\* attestation stream is past a revocation that was handled without an error.
\* Between the two lies what the code leaves open: a revocation handled before
\* its attestation had a row is lost, and if a restart from an older cursor
\* brings the row, decisions rest on it until the revocation is handled again.
RevocationReachesDecisions ==
  \A i \in DOMAIN log :
    /\ log[i].type = "AttestationRevoked"
    /\ i \in landed \/ (i <= cursor["attestation"] /\ i \notin faults)
    => \A subject \in Accounts, s \in SchemaIds :
         LatestStanding(subject, s) # log[i].attestation

=============================================================================
