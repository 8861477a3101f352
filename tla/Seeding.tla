-------------------------------- MODULE Seeding --------------------------------
(***************************************************************************)
(* The scripts an operator runs against a deployment: scripts/*.ts and     *)
(* scripts/lib.  A run sends its transactions one after the other, each of *)
(* them atomic on the chain, and may then record what they made in         *)
(* testnet-addresses.json, which it reads whole and writes whole.  A run   *)
(* that is refused, or stops, leaves what its earlier transactions did.    *)
(*                                                                         *)
(* An object has the name of the run that made it.  "EVE" stands for the   *)
(* nine schemas of register-schemas.ts, which are always used together.    *)
(* Stakes, tolls, thresholds, epochs and payloads are left out.            *)
(***************************************************************************)
EXTENDS Naturals, Sequences, FiniteSets

CONSTANTS
  N,            \* bound: how many runs there are
  Keys,         \* accounts whose secret key the operator holds
  Admin,        \* the deployer, admin of the SchemaRegistry
  Owners,       \* other accounts a gate or a standing may be given to
  FirstOwner,   \* owner of the gate the file names at first
  NoOne,        \* no account
  MaxAtOnce     \* bound: runs under way at one time

Runs == 1..N
NoId == 0       \* an object of an earlier deployment, or none
Accounts == Keys \cup Owners

ASSUME SeedingConstants ==
  /\ N \in Nat /\ MaxAtOnce \in Nat
  /\ Admin \in Keys /\ FirstOwner \in Accounts
  /\ NoOne \notin Accounts

VARIABLES
  registered,   \* SchemaRegistry.schemas
  authorized,   \* OracleRegistry.oracles: the schemas of each oracle
  caps,         \* the OracleCapability objects
  profiles,     \* the ReputationProfile objects
  credit,       \* the CREDIT score of each profile
  vouched,      \* profiles a vouch was made from
  gateCaps,     \* who owns the GateAdminCap of each gate
  proofs,       \* who owns each TRIBE_STANDING attestation
  file,         \* testnet-addresses.json
  runs,         \* the processes
  torn          \* history: a write has undone another's

chain == <<registered, authorized, caps, profiles, credit, vouched, gateCaps, proofs>>
vars == <<chain, file, runs, torn>>

SchemaIds == {"EVE", "CREDIT", "TRIBE"}
Ids == Runs \cup {NoId}

\* ORACLE_SCHEMAS and the schemas of GATE_ATTESTATIONS and SHIP_KILLS.
ORACLE_SCHEMAS == {"CREDIT", "EVE"}
SeededSchemas == {"EVE"}

Cap == [id : Runs, oracle : Keys, schemas : SUBSET SchemaIds]
Profile == [id : Runs, owner : Keys]
Entry == [id : Ids, owner : Accounts]
File == [cap : Ids, gatePolicy : Ids, gateAdminCap : Entry, standing : Entry,
         standingEve : Entry]

Transactions ==
  [seedTestnet        |-> <<"bootstrap", "selfScore", "seedVouch", "attest">>,
   registerSchemas    |-> <<"registerSchemas">>,
   fixCredit          |-> <<"registerCredit", "rewriteScore">>,
   updateCredit       |-> <<"updateScore">>,
   createVouch        |-> <<"createVouch">>,
   createGate         |-> <<"createGate", "transferCap">>,
   seedTribeStanding  |-> <<"expand">>,
   issueTribeStanding |-> <<"issueStanding">>,
   issueAttestation   |-> <<"issueAttestation">>]

Scripts == DOMAIN Transactions
Recording == {"createGate", "seedTribeStanding", "issueTribeStanding"}
Stages == {"idle", "sending", "reading", "saving", "done", "dead"}

Run == [script : Scripts, signer : Keys, stage : Stages, step : 1..5,
        cap : Ids, profile : Ids, owner : Accounts, raw : File]

NoEntry == [id |-> NoId, owner |-> FirstOwner]
OldFile == [cap |-> NoId, gatePolicy |-> NoId, gateAdminCap |-> NoEntry,
            standing |-> NoEntry, standingEve |-> NoEntry]
Idle == [script |-> "seedTestnet", signer |-> Admin, stage |-> "idle", step |-> 1,
         cap |-> NoId, profile |-> NoId, owner |-> FirstOwner, raw |-> OldFile]

Init ==
  /\ registered = {}
  /\ authorized = [k \in Keys |-> {}]
  /\ caps = {} /\ profiles = {} /\ vouched = {}
  /\ credit = [p \in Runs |-> "none"]
  /\ gateCaps = [g \in Runs |-> NoOne]
  /\ proofs = [a \in Runs |-> NoOne]
  /\ file = OldFile
  /\ runs = [r \in Runs |-> Idle]
  /\ torn = FALSE

-----------------------------------------------------------------------------
\* Starting: the key, the arguments and what is read before the first call.

Under == {r \in Runs : runs[r].stage \in {"sending", "reading", "saving"}}

\* loadKeypair: the key of the environment, or that of the active address, or
\* the first of the keystore.
LoadKeypair(env, active, keystore) ==
  IF env # NoOne THEN {env}
  ELSE IF active # NoOne THEN {active} \cap keystore
  ELSE keystore

\* The ids a run begins with: arguments of the command line or, for two of the
\* scripts, the capability the file names.
CapsFor(s) ==
  CASE s \in {"updateCredit", "seedTribeStanding"} -> {file.cap}
    [] s = "fixCredit" -> {c.id : c \in caps} \cup {NoId}
    [] OTHER -> {NoId}
ProfilesFor(s) ==
  CASE s = "fixCredit" -> {p.id : p \in profiles} \cup {NoId}
    [] s \in {"updateCredit", "createVouch"} -> {p.id : p \in profiles}
    [] OTHER -> {NoId}
OwnersFor(s) ==
  CASE s \in {"createGate", "issueTribeStanding", "issueAttestation"} -> Accounts
    [] s = "seedTribeStanding" -> {file.gateAdminCap.owner}
    [] OTHER -> {FirstOwner}

Start(r, s) ==
  /\ runs[r].stage = "idle"
  /\ \A q \in Runs : q < r => runs[q].stage # "idle"
  /\ Cardinality(Under) < MaxAtOnce
  /\ \E env, active \in Keys \cup {NoOne} :
     \E key \in LoadKeypair(env, active, Keys) :
     \E c \in CapsFor(s), p \in ProfilesFor(s), o \in OwnersFor(s) :
       runs' = [runs EXCEPT ![r] =
         [@ EXCEPT !.script = s, !.signer = key, !.stage = "sending",
                   !.cap = c, !.profile = p, !.owner = o]]
  /\ UNCHANGED <<chain, file, torn>>
-----------------------------------------------------------------------------
\* Sending: each action is one transaction, executed to its end.

\* create-gate.ts transfers the capability only to somebody else.
Plan(run) ==
  IF run.script = "createGate" /\ run.owner = run.signer
    THEN <<"createGate">> ELSE Transactions[run.script]

Sends(r, t) ==
  /\ runs[r].stage = "sending"
  /\ Plan(runs[r])[runs[r].step] = t

\* fix-credit-schema.ts looks at its arguments after its first transaction.
Rest(run) ==
  IF run.step < Len(Plan(run))
    THEN IF run.script = "fixCredit" /\ run.profile = NoId THEN "dead" ELSE "sending"
    ELSE IF run.script \in Recording THEN "reading" ELSE "done"

Sent(run) == [run EXCEPT !.stage = Rest(run), !.step = @ + 1]

\* A transaction that changes the chain and, of the run, only how far it is.
Goes(r) ==
  /\ runs' = [runs EXCEPT ![r] = Sent(@)]
  /\ UNCHANGED <<file, torn>>

Signer(r) == runs[r].signer
Held(r, s) ==
  \E c \in caps : c.id = runs[r].cap /\ c.oracle = Signer(r) /\ s \in c.schemas
OwnProfile(r) == \E p \in profiles : p.id = runs[r].profile /\ p.owner = Signer(r)
MayIssue(r, s) == s \in authorized[Signer(r)] /\ s \in registered

\* What the chain asks of each transaction.
Accepts(r, t) ==
  CASE t = "bootstrap" -> authorized[Signer(r)] = {}
    [] t \in {"selfScore", "updateScore", "rewriteScore"} ->
         Held(r, "CREDIT") /\ \E p \in profiles : p.id = runs[r].profile
    [] t \in {"seedVouch", "createVouch"} ->
         OwnProfile(r) /\ credit[runs[r].profile] = "high"
    [] t = "attest" -> \A s \in SeededSchemas : MayIssue(r, s)
    [] t = "registerSchemas" -> Signer(r) = Admin /\ "EVE" \notin registered
    [] t = "registerCredit" -> Signer(r) = Admin /\ "CREDIT" \notin registered
    [] t = "expand" -> /\ Signer(r) = Admin /\ "TRIBE" \notin registered
                       /\ \E c \in caps : c.id = runs[r].cap /\ c.oracle = Signer(r)
    [] t \in {"issueStanding", "issueAttestation"} -> MayIssue(r, "TRIBE")
    [] OTHER -> TRUE

\* One transaction makes the profile and registers the oracle.  The ids it
\* made are what the later transactions of the run use.
Bootstrap(r) ==
  LET k == Signer(r) IN
  /\ Sends(r, "bootstrap") /\ Accepts(r, "bootstrap")
  /\ profiles' = profiles \cup {[id |-> r, owner |-> k]}
  /\ authorized' = [authorized EXCEPT ![k] = ORACLE_SCHEMAS]
  /\ caps' = caps \cup {[id |-> r, oracle |-> k, schemas |-> ORACLE_SCHEMAS]}
  /\ runs' = [runs EXCEPT ![r] = [Sent(@) EXCEPT !.cap = r, !.profile = r]]
  /\ UNCHANGED <<registered, credit, vouched, gateCaps, proofs, file, torn>>

\* profile::update_score: the capability is the signer's, the profile anybody's.
WriteScore(r, t, value) ==
  /\ Sends(r, t) /\ Accepts(r, t)
  /\ credit' = [credit EXCEPT ![runs[r].profile] = value]
  /\ Goes(r)
  /\ UNCHANGED <<registered, authorized, caps, profiles, vouched, gateCaps, proofs>>

SelfScore(r) == WriteScore(r, "selfScore", "high")
RewriteScore(r) == WriteScore(r, "rewriteScore", "high")
UpdateScore(r) == \E value \in {"low", "high"} : WriteScore(r, "updateScore", value)

\* vouch::create_vouch: the vouch goes to the vouchee and its id to nobody.
MakeVouch(r, t) ==
  /\ Sends(r, t) /\ Accepts(r, t)
  /\ vouched' = vouched \cup {runs[r].profile}
  /\ Goes(r)
  /\ UNCHANGED <<registered, authorized, caps, profiles, credit, gateCaps, proofs>>

SeedVouch(r) == MakeVouch(r, "seedVouch")
CreateVouch(r) == MakeVouch(r, "createVouch")

\* The fifteen attestations go to the signer and no script looks at them.
Attest(r) ==
  /\ Sends(r, "attest") /\ Accepts(r, "attest")
  /\ Goes(r)
  /\ UNCHANGED chain

RegisterSchemas(r) ==
  /\ Sends(r, "registerSchemas") /\ Accepts(r, "registerSchemas")
  /\ registered' = registered \cup {"EVE"}
  /\ Goes(r)
  /\ UNCHANGED <<authorized, caps, profiles, credit, vouched, gateCaps, proofs>>

RegisterCredit(r) ==
  /\ Sends(r, "registerCredit") /\ Accepts(r, "registerCredit")
  /\ registered' = registered \cup {"CREDIT"}
  /\ Goes(r)
  /\ UNCHANGED <<authorized, caps, profiles, credit, vouched, gateCaps, proofs>>

CreateGate(r) ==
  /\ Sends(r, "createGate")
  /\ gateCaps' = [gateCaps EXCEPT ![r] = Signer(r)]
  /\ Goes(r)
  /\ UNCHANGED <<registered, authorized, caps, profiles, credit, vouched, proofs>>

TransferCap(r) ==
  /\ Sends(r, "transferCap")
  /\ gateCaps' = [gateCaps EXCEPT ![r] = runs[r].owner]
  /\ Goes(r)
  /\ UNCHANGED <<registered, authorized, caps, profiles, credit, vouched, proofs>>

\* add_schema_to_oracle takes the capability and gives another in its place.
\* Mistaken: the capability is borrowed and stays.
KeptBeside(old, new) == {old, new}
Replaced(old, new) == {new}

ExpandOracle(r) ==
  LET k == Signer(r)
      all == authorized[k] \cup {"TRIBE"} IN
  /\ Sends(r, "expand") /\ Accepts(r, "expand")
  /\ registered' = registered \cup {"TRIBE"}
  /\ authorized' = [authorized EXCEPT ![k] = all]
  /\ \E old \in caps :
       /\ old.id = runs[r].cap /\ old.oracle = k
       /\ caps' = (caps \ {old}) \cup
            Replaced(old, [id |-> r, oracle |-> k, schemas |-> all])
  /\ proofs' = [proofs EXCEPT ![r] = runs[r].owner]
  /\ Goes(r)
  /\ UNCHANGED <<profiles, credit, vouched, gateCaps>>

\* attestation::issue, and the attestation handed to its subject.
IssueTo(r, t) ==
  /\ Sends(r, t) /\ Accepts(r, t)
  /\ proofs' = [proofs EXCEPT ![r] = runs[r].owner]
  /\ Goes(r)
  /\ UNCHANGED <<registered, authorized, caps, profiles, credit, vouched, gateCaps>>

IssueStanding(r) == IssueTo(r, "issueStanding")
IssueAttestation(r) == IssueTo(r, "issueAttestation")

\* execute throws: the chain refused the transaction.
Refused(r) ==
  /\ runs[r].stage = "sending"
  /\ ~Accepts(r, Plan(runs[r])[runs[r].step])
  /\ runs' = [runs EXCEPT ![r].stage = "dead"]
  /\ UNCHANGED <<chain, file, torn>>

\* The process stops, or the answer to an executed transaction is lost.
Stop(r) ==
  /\ runs[r].stage \in {"sending", "reading", "saving"}
  /\ runs' = [runs EXCEPT ![r].stage = "dead"]
  /\ UNCHANGED <<chain, file, torn>>

-----------------------------------------------------------------------------
\* Recording: the file is read again, patched and written whole.

Reread(r) ==
  /\ runs[r].stage = "reading"
  /\ runs' = [runs EXCEPT ![r] = [@ EXCEPT !.stage = "saving", !.raw = file]]
  /\ UNCHANGED <<chain, file, torn>>

\* Mistaken: the id of the new capability is printed and not recorded.
OnlyPrinted(r, raw) == [raw EXCEPT !.standing = [id |-> r, owner |-> runs[r].owner]]

RecordExpansion(r, raw) ==
  [raw EXCEPT !.cap = r, !.standing = [id |-> r, owner |-> runs[r].owner]]

\* Mistaken: the capability is still recorded as its maker's.
RecordMaker(r, raw) ==
  [raw EXCEPT !.gatePolicy = r, !.gateAdminCap = [id |-> r, owner |-> Signer(r)]]

RecordGate(r, raw) ==
  [raw EXCEPT !.gatePolicy = r, !.gateAdminCap = [id |-> r, owner |-> runs[r].owner]]

Patched(r) ==
  LET raw == runs[r].raw IN
  CASE runs[r].script = "createGate" -> RecordGate(r, raw)
    [] runs[r].script = "seedTribeStanding" -> RecordExpansion(r, raw)
    [] OTHER -> [raw EXCEPT !.standingEve = [id |-> r, owner |-> runs[r].owner]]

Save(r) ==
  /\ runs[r].stage = "saving"
  /\ file' = Patched(r)
  /\ torn' = (torn \/ file # runs[r].raw)
  /\ runs' = [runs EXCEPT ![r].stage = "done"]
  /\ UNCHANGED chain

\* The operator enters the id of a capability, as seed-testnet.ts prints it.
EnterCap(c) ==
  /\ c \in caps
  /\ file.cap # c.id
  /\ file' = [file EXCEPT !.cap = c.id]
  /\ UNCHANGED <<chain, runs, torn>>

RunStep(r) ==
  \/ \E s \in Scripts : Start(r, s)
  \/ Bootstrap(r) \/ SelfScore(r) \/ SeedVouch(r) \/ Attest(r)
  \/ RegisterSchemas(r) \/ RegisterCredit(r) \/ RewriteScore(r)
  \/ UpdateScore(r) \/ CreateVouch(r)
  \/ CreateGate(r) \/ TransferCap(r) \/ ExpandOracle(r)
  \/ IssueStanding(r) \/ IssueAttestation(r)
  \/ Refused(r) \/ Stop(r)
  \/ Reread(r) \/ Save(r)

Next == (\E r \in Runs : RunStep(r)) \/ (\E c \in caps : EnterCap(c))

Spec == Init /\ [][Next]_vars

-----------------------------------------------------------------------------
SeedingTypeOK ==
  /\ registered \subseteq SchemaIds
  /\ authorized \in [Keys -> SUBSET SchemaIds]
  /\ caps \subseteq Cap /\ profiles \subseteq Profile
  /\ credit \in [Runs -> {"none", "low", "high"}]
  /\ vouched \subseteq Ids
  /\ gateCaps \in [Runs -> Accounts \cup {NoOne}]
  /\ proofs \in [Runs -> Accounts \cup {NoOne}]
  /\ file \in File
  /\ runs \in [Runs -> Run]
  /\ torn \in BOOLEAN

\* An account is an oracle exactly if it has one profile and one capability,
\* and the capability lists the schemas the registry lists for the oracle,
\* however often and in whatever order the scripts are run, refused, stopped
\* and run again.
OneCapPerOracle ==
  \A k \in Keys :
    IF authorized[k] = {}
      THEN (\A c \in caps : c.oracle # k) /\ (\A p \in profiles : p.owner # k)
      ELSE /\ \E c \in caps :
                c.schemas = authorized[k] /\ \A d \in caps : d.oracle = k <=> d = c
           /\ \E p \in profiles : \A q \in profiles : q.owner = k <=> q = p

\* The capability of the file is spent only while the run that spent it has
\* not recorded the next one, because it is still about to or has stopped, or
\* after two runs have written the file over each other.
Spending(r) ==
  /\ runs[r].script = "seedTribeStanding" /\ runs[r].cap = file.cap
  /\ runs[r].stage \in {"reading", "saving", "dead"}

RecordedCapIsLive ==
  \/ file.cap = NoId \/ torn
  \/ \E c \in caps : c.id = file.cap
  \/ \E r \in Runs : Spending(r)

\* The policy and the capability the file names were made by one run, and the
\* capability and the standings belong to the owner the file gives them, also
\* where writes of the file have overlapped.
RecordedOwnersAreReal ==
  /\ file.gatePolicy = file.gateAdminCap.id
  /\ file.gatePolicy # NoId => gateCaps[file.gatePolicy] = file.gateAdminCap.owner
  /\ \A e \in {file.standing, file.standingEve} :
       e.id # NoId => proofs[e.id] = e.owner
=============================================================================
