----------------------------- MODULE Attestations -----------------------------
(***************************************************************************)
(* Attestation objects: sources/attestation.move, over the schema          *)
(* registry.  sources/oracle_registry.move is present as the set of pairs  *)
(* it answers is_valid_oracle_for_schema for, which only grows.            *)
(*                                                                         *)
(* An Attestation is an owned object with the ability store: its holder    *)
(* can transfer or share it, and only transactions of the holder can use   *)
(* it.  issue returns it to the transaction, which decides where it goes.  *)
(***************************************************************************)
EXTENDS SchemaRegistry

CONSTANTS
  AttestationIds,   \* ids of Attestation objects
  Values,           \* values an issuer may attest
  Terms,            \* expiration_epochs an issuer may choose
  NoAttestation,    \* an id that is not used yet
  Shared,           \* the holder of a shared object
  MaxEpoch          \* bound: epochs

ASSUME AttestationConstants ==
  /\ Values \subseteq Nat /\ Terms \subseteq Nat /\ MaxEpoch \in Nat
  /\ Shared \notin Accounts

VARIABLES
  epoch,          \* tx_context::epoch
  issuers,        \* <<oracle, schema>> pairs the oracle registry accepts
  attestations    \* the Attestation objects

attestationVars == <<epoch, issuers, attestations>>

Attestation == [schema : SchemaIds, issuer : Accounts, subject : Accounts,
                value : Nat, expires : Nat, revoked : BOOLEAN,
                holder : Accounts \cup {Shared}]

ASSUME AttestationSentinel == NoAttestation \notin Attestation

Exists(a) == attestations[a] # NoAttestation

\* The transactions of an account can take the object as an argument.
Usable(sender, a) == attestations[a].holder \in {sender, Shared}

IsValid(a) == ~attestations[a].revoked /\ attestations[a].expires > epoch

AttestationsInit ==
  /\ epoch = 0
  /\ issuers = {}
  /\ attestations = [a \in AttestationIds |-> NoAttestation]

\* register_oracle or add_schema_to_oracle.
Authorize(o, s) ==
  /\ issuers' = issuers \cup {<<o, s>>}
  /\ emitted' = <<>>
  /\ UNCHANGED <<epoch, attestations>>

AdvanceEpoch ==
  /\ epoch < MaxEpoch
  /\ epoch' = epoch + 1
  /\ emitted' = <<>>
  /\ UNCHANGED <<issuers, attestations>>

\* Mistaken: the schema decides alone, whoever the sender is.
SchemaDecides(sender, s) == Known(s) /\ ~IsDeprecated(s)

\* What issue asks of its sender and of the schema.
MayIssue(sender, s) == <<sender, s>> \in issuers /\ Known(s) /\ ~IsDeprecated(s)

Issue(sender, a, s, subject, value, term, holder) ==
  /\ ~Exists(a)
  /\ MayIssue(sender, s)
  /\ attestations' = [attestations EXCEPT ![a] =
       [schema |-> s, issuer |-> sender, subject |-> subject, value |-> value,
        expires |-> epoch + term, revoked |-> FALSE, holder |-> holder]]
  /\ emitted' = <<[type |-> "AttestationIssued", attestation |-> a, schema |-> s,
                   subject |-> subject, value |-> value]>>
  /\ UNCHANGED <<epoch, issuers>>

\* What revoke asks of its sender and of the schema.
MayRevoke(sender, a) ==
  /\ sender \in {attestations[a].issuer, schemas[attestations[a].schema].resolver}
  /\ schemas[attestations[a].schema].revocable

Revoked(a) == [attestations[a] EXCEPT !.revoked = TRUE]

Revoke(sender, a) ==
  /\ Exists(a) /\ Usable(sender, a)
  /\ MayRevoke(sender, a)
  /\ attestations' = [attestations EXCEPT ![a] = Revoked(a)]
  /\ emitted' = <<[type |-> "AttestationRevoked", attestation |-> a]>>
  /\ UNCHANGED <<epoch, issuers>>

\* public_transfer or public_share_object, by the holder.
TransferAttestation(sender, a, to) ==
  /\ Exists(a) /\ attestations[a].holder = sender
  /\ attestations' = [attestations EXCEPT ![a].holder = to]
  /\ emitted' = <<>>
  /\ UNCHANGED <<epoch, issuers>>

AttestationsNext ==
  \/ AdvanceEpoch
  \/ \E o \in Accounts, s \in SchemaIds : Authorize(o, s)
  \/ \E sender, subject \in Accounts, a \in AttestationIds, s \in SchemaIds,
        value \in Values, term \in Terms, holder \in Accounts \cup {Shared} :
       Issue(sender, a, s, subject, value, term, holder)
  \/ \E sender \in Accounts, a \in AttestationIds : Revoke(sender, a)
  \/ \E sender \in Accounts, a \in AttestationIds, to \in Accounts \cup {Shared} :
       TransferAttestation(sender, a, to)

-----------------------------------------------------------------------------
AttestationsTypeOK ==
  /\ epoch \in 0..MaxEpoch
  /\ issuers \subseteq Accounts \X SchemaIds
  /\ attestations \in [AttestationIds -> Attestation \cup {NoAttestation}]

\* Every attestation is about a registered schema that its issuer answers for.
AttestationsHaveAuthority ==
  \A a \in AttestationIds : Exists(a) =>
    /\ Known(attestations[a].schema)
    /\ <<attestations[a].issuer, attestations[a].schema>> \in issuers

=============================================================================
