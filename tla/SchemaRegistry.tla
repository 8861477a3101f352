---------------------------- MODULE SchemaRegistry ----------------------------
(***************************************************************************)
(* The shared SchemaRegistry object: sources/schema_registry.move.  Every  *)
(* action is one transaction and sets emitted to the events it emits.      *)
(* Versions and creation epochs are left out.                              *)
(***************************************************************************)
EXTENDS Integers, Sequences, FiniteSets

CONSTANTS
  Accounts,    \* addresses
  Admin,       \* the deployer
  SchemaIds,   \* schema ids
  None,        \* an absent Option value
  NoSchema     \* a schema id that is not in registry.schemas

ASSUME SchemaConstants ==
  /\ Admin \in Accounts
  /\ None \notin Accounts /\ None \notin SchemaIds

VARIABLES
  admin,        \* registry.admin
  governance,   \* registry.governance
  schemas,      \* registry.schemas
  emitted       \* the events of the last transaction

schemaVars == <<admin, governance, schemas>>

Schema == [supersededBy : SchemaIds \cup {None},
           resolver : Accounts \cup {None},
           revocable : BOOLEAN]

ASSUME SchemaSentinel == NoSchema \notin Schema

IsAuthorized(sender) == sender \in {admin, governance}

Known(s) == schemas[s] # NoSchema
IsDeprecated(s) == schemas[s].supersededBy # None

SchemaRegistryInit ==
  /\ admin = Admin
  /\ governance = None
  /\ schemas = [s \in SchemaIds |-> NoSchema]

RegisterSchema(sender, s, resolver, revocable) ==
  /\ IsAuthorized(sender)
  /\ ~Known(s)
  /\ schemas' = [schemas EXCEPT ![s] =
       [supersededBy |-> None, resolver |-> resolver, revocable |-> revocable]]
  /\ emitted' = <<[type |-> "SchemaRegistered", schema |-> s]>>
  /\ UNCHANGED <<admin, governance>>

\* The successor may be the schema itself, and may be changed by doing it again.
DeprecateSchema(sender, old, new) ==
  /\ IsAuthorized(sender)
  /\ Known(old) /\ Known(new)
  /\ schemas' = [schemas EXCEPT ![old].supersededBy = new]
  /\ emitted' = <<[type |-> "SchemaDeprecated", schema |-> old]>>
  /\ UNCHANGED <<admin, governance>>

AdminAfterTransfer(x) == None

TransferToGovernance(sender, g) ==
  /\ sender = admin
  /\ governance' = g
  /\ admin' = AdminAfterTransfer(admin)
  /\ emitted' = <<[type |-> "GovernanceTransferred", to |-> g]>>
  /\ UNCHANGED schemas

SchemaRegistryNext ==
  \E sender \in Accounts :
    \/ \E s \in SchemaIds, resolver \in Accounts \cup {None}, revocable \in BOOLEAN :
         RegisterSchema(sender, s, resolver, revocable)
    \/ \E old, new \in SchemaIds : DeprecateSchema(sender, old, new)
    \/ \E g \in Accounts : TransferToGovernance(sender, g)

-----------------------------------------------------------------------------
SchemaRegistryTypeOK ==
  /\ admin \in Accounts \cup {None}
  /\ governance \in Accounts \cup {None}
  /\ schemas \in [SchemaIds -> Schema \cup {NoSchema}]

\* SECURITY.md, Schema Registry: there is always exactly one address that can
\* register and deprecate schemas; after the hand-over the deployer cannot.
OneSchemaAuthority == (admin = None) # (governance = None)
=============================================================================
