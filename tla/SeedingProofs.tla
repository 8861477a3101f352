----------------------------- MODULE SeedingProofs -----------------------------
(***************************************************************************)
(* Proofs about Seeding, for any accounts, any number of runs and any      *)
(* number of them under way at one time.                                   *)
(***************************************************************************)
EXTENDS Seeding, TLAPS

\* A run that is sending has a transaction to send, one not begun its first.
HasNext(run) ==
  /\ run.stage = "sending" => run.step \in 1..Len(Plan(run))
  /\ run.stage = "idle" => run.step = 1

Types == SeedingTypeOK /\ \A r \in Runs : HasNext(runs[r])

LEMMA ScriptNames ==
  Scripts = {"seedTestnet", "registerSchemas", "fixCredit", "updateCredit", "createVouch",
             "createGate", "seedTribeStanding", "issueTribeStanding", "issueAttestation"}
BY DEF Scripts, Transactions

\* The lengths of the plans, and which script sends what the invariants are about.
LEMMA Plans ==
  ASSUME NEW run \in Run
  PROVE  /\ Len(Plan(run)) \in 1..4
         /\ \A i \in 1..Len(Plan(run)) :
              /\ Plan(run)[i] = "expand" <=> run.script = "seedTribeStanding"
              /\ Plan(run)[i] = "issueStanding" <=> run.script = "issueTribeStanding"
              /\ Plan(run)[i] \in {"createGate", "transferCap"} <=> run.script = "createGate"
              /\ Plan(run)[i] = "createGate" /\ i = Len(Plan(run)) => run.owner = run.signer
              /\ run.script = "seedTribeStanding" => i = Len(Plan(run))
<1>1. run.script \in Scripts
  BY DEF Run
<1>2. CASE run.script # "createGate"
  <2>1. Plan(run) = Transactions[run.script]
    BY <1>2 DEF Plan
  <2>2. CASE run.script = "seedTestnet"
    <3>1. Plan(run) = <<"bootstrap", "selfScore", "seedVouch", "attest">>
      BY <2>1, <2>2 DEF Transactions
    <3>2. QED
      BY <2>2, <3>1
  <2>3. CASE run.script = "registerSchemas"
    <3>1. Plan(run) = <<"registerSchemas">>
      BY <2>1, <2>3 DEF Transactions
    <3>2. QED
      BY <2>3, <3>1
  <2>4. CASE run.script = "fixCredit"
    <3>1. Plan(run) = <<"registerCredit", "rewriteScore">>
      BY <2>1, <2>4 DEF Transactions
    <3>2. QED
      BY <2>4, <3>1
  <2>5. CASE run.script = "updateCredit"
    <3>1. Plan(run) = <<"updateScore">>
      BY <2>1, <2>5 DEF Transactions
    <3>2. QED
      BY <2>5, <3>1
  <2>6. CASE run.script = "createVouch"
    <3>1. Plan(run) = <<"createVouch">>
      BY <2>1, <2>6 DEF Transactions
    <3>2. QED
      BY <2>6, <3>1
  <2>7. CASE run.script = "seedTribeStanding"
    <3>1. Plan(run) = <<"expand">>
      BY <2>1, <2>7 DEF Transactions
    <3>2. QED
      BY <2>7, <3>1
  <2>8. CASE run.script = "issueTribeStanding"
    <3>1. Plan(run) = <<"issueStanding">>
      BY <2>1, <2>8 DEF Transactions
    <3>2. QED
      BY <2>8, <3>1
  <2>9. CASE run.script = "issueAttestation"
    <3>1. Plan(run) = <<"issueAttestation">>
      BY <2>1, <2>9 DEF Transactions
    <3>2. QED
      BY <2>9, <3>1
  <2>10. QED
    BY <1>1, <1>2, <2>2, <2>3, <2>4, <2>5, <2>6, <2>7, <2>8, <2>9, ScriptNames
<1>3. CASE run.script = "createGate"
  <2>1. CASE run.owner = run.signer
    <3>1. Plan(run) = <<"createGate">>
      BY <1>3, <2>1 DEF Plan
    <3>2. QED
      BY <1>3, <2>1, <3>1
  <2>2. CASE run.owner # run.signer
    <3>1. Plan(run) = <<"createGate", "transferCap">>
      BY <1>3, <2>2 DEF Plan, Transactions
    <3>2. QED
      BY <1>3, <3>1
  <2>3. QED
    BY <2>1, <2>2
<1>4. QED
  BY <1>2, <1>3

\* A run that has sent a transaction: what of it moves and what does not.
Moved(run, new) ==
  /\ new \in Run /\ HasNext(new)
  /\ new.script = run.script /\ new.signer = run.signer
  /\ new.owner = run.owner /\ new.raw = run.raw
  /\ new.stage \in {"sending", "reading", "done", "dead"}
  /\ new.stage \in {"reading", "done"} => run.step = Len(Plan(run))
  /\ new.stage = "sending" => run.step # Len(Plan(run))
  /\ run.script \in Recording => new.stage # "done"
  /\ new.stage = "reading" => run.script \in Recording

LEMMA SentMoves ==
  ASSUME NEW run \in Run, run.stage = "sending", HasNext(run), NEW r \in Runs
  PROVE  /\ Moved(run, Sent(run)) /\ Sent(run).cap = run.cap
         /\ Moved(run, [Sent(run) EXCEPT !.cap = r, !.profile = r])
<1>1. /\ run.step \in 1..Len(Plan(run)) /\ Len(Plan(run)) \in 1..4
  BY Plans DEF HasNext
<1>2. /\ Rest(run) \in {"sending", "reading", "done", "dead"}
      /\ Rest(run) = "sending" => run.step < Len(Plan(run))
      /\ Rest(run) \in {"reading", "done"} => ~(run.step < Len(Plan(run)))
      /\ run.script \in Recording => Rest(run) # "done"
      /\ Rest(run) = "reading" => run.script \in Recording
  BY DEF Rest
<1>3. Rest(run) \in Stages /\ run.step + 1 \in 1..5
  <2>1. Rest(run) \in Stages
    BY <1>2 DEF Stages
  <2>2. PICK n \in 1..4 : n = Len(Plan(run))
    BY <1>1
  <2>3. run.step \in 1..n
    BY <1>1, <2>2
  <2>4. run.step + 1 \in 1..5
    BY <2>3
  <2>5. QED
    BY <2>1, <2>4
<1> DEFINE new == Sent(run)
           boot == [Sent(run) EXCEPT !.cap = r, !.profile = r]
<1>4. /\ new \in Run
      /\ new.script = run.script /\ new.signer = run.signer
      /\ new.owner = run.owner /\ new.raw = run.raw /\ new.cap = run.cap
      /\ new.stage = Rest(run) /\ new.step = run.step + 1
  <2>1. new = [[run EXCEPT !.stage = Rest(run)] EXCEPT !.step = run.step + 1]
    BY DEF Sent, Run
  <2> HIDE DEF new
  <2>2. [run EXCEPT !.stage = Rest(run)] \in Run
    BY <1>3 DEF Run
  <2>3. QED
    BY <1>3, <2>1, <2>2 DEF Run
<1> HIDE DEF new
<1>40. /\ boot \in Run
       /\ boot.script = run.script /\ boot.signer = run.signer
       /\ boot.owner = run.owner /\ boot.raw = run.raw
       /\ boot.stage = Rest(run) /\ boot.step = run.step + 1
  <2>1. boot = [new EXCEPT !.cap = r, !.profile = r]
    BY DEF new
  <2>2. QED
    BY <1>4, <2>1 DEF Run, Ids
<1>5. Plan(new) = Plan(run) /\ Plan(boot) = Plan(run)
  BY <1>4, <1>40 DEF Plan
<1> HIDE DEF boot
<1>6. HasNext(new) /\ HasNext(boot)
  BY <1>1, <1>2, <1>4, <1>40, <1>5 DEF HasNext
<1>7. /\ Rest(run) \in {"reading", "done"} => run.step = Len(Plan(run))
      /\ Rest(run) = "sending" => run.step # Len(Plan(run))
  BY <1>1, <1>2
<1>8. Moved(run, new) /\ Moved(run, boot) /\ new.cap = run.cap
  BY <1>2, <1>4, <1>40, <1>6, <1>7 DEF Moved
<1>9. QED
  BY <1>8 DEF new, boot

\* What every transaction does to the runs.
Transacts(r, t) ==
  /\ runs[r].stage = "sending" /\ Plan(runs[r])[runs[r].step] = t
  /\ file' = file /\ torn' = torn
  /\ Moved(runs[r], runs'[r]) /\ (t # "bootstrap" => runs'[r].cap = runs[r].cap)
  /\ runs' = [runs EXCEPT ![r] = runs'[r]]

LEMMA GoesTransacts ==
  ASSUME Types, NEW r \in Runs, NEW t, Sends(r, t),
         Goes(r) \/ (t = "bootstrap" /\ Bootstrap(r))
  PROVE  Transacts(r, t)
<1>1. runs \in [Runs -> Run] /\ HasNext(runs[r]) /\ runs[r].stage = "sending"
  BY DEF Types, SeedingTypeOK, Sends
<1>2. /\ Moved(runs[r], Sent(runs[r])) /\ Sent(runs[r]).cap = runs[r].cap
      /\ Moved(runs[r], [Sent(runs[r]) EXCEPT !.cap = r, !.profile = r])
  BY <1>1, SentMoves
<1>3. CASE Goes(r)
  <2>1. runs' = [runs EXCEPT ![r] = Sent(runs[r])] /\ file' = file /\ torn' = torn
    BY <1>3 DEF Goes
  <2>2. runs'[r] = Sent(runs[r])
    BY <1>1, <2>1
  <2>3. QED
    BY <1>1, <1>2, <2>1, <2>2 DEF Transacts, Sends
<1>4. CASE t = "bootstrap" /\ Bootstrap(r)
  <2> DEFINE new == [Sent(runs[r]) EXCEPT !.cap = r, !.profile = r]
  <2>1. runs' = [runs EXCEPT ![r] = new] /\ file' = file /\ torn' = torn
    BY <1>4 DEF Bootstrap
  <2>2. Moved(runs[r], new)
    BY <1>2
  <2> HIDE DEF new
  <2>3. runs'[r] = new
    BY <1>1, <2>1
  <2>4. QED
    BY <1>1, <1>4, <2>1, <2>2, <2>3 DEF Transacts, Sends
<1>5. QED
  BY <1>3, <1>4

\* Every transaction action transacts, and no other changes the chain.
Sending(r) ==
  \/ Bootstrap(r) \/ SelfScore(r) \/ SeedVouch(r) \/ Attest(r)
  \/ RegisterSchemas(r) \/ RegisterCredit(r) \/ RewriteScore(r)
  \/ UpdateScore(r) \/ CreateVouch(r)
  \/ CreateGate(r) \/ TransferCap(r) \/ ExpandOracle(r)
  \/ IssueStanding(r) \/ IssueAttestation(r)

Names == {"bootstrap", "selfScore", "seedVouch", "attest", "registerSchemas",
          "registerCredit", "rewriteScore", "updateScore", "createVouch", "createGate",
          "transferCap", "expand", "issueStanding", "issueAttestation"}

LEMMA SendingTransacts ==
  ASSUME Types, NEW r \in Runs, Sending(r)
  PROVE  \E t \in Names : Transacts(r, t)
<1>1. ASSUME NEW t \in Names, Sends(r, t), Goes(r) \/ (t = "bootstrap" /\ Bootstrap(r))
      PROVE  \E u \in Names : Transacts(r, u)
  BY <1>1, GoesTransacts
<1>2. CASE Bootstrap(r)
  BY <1>1, <1>2 DEF Bootstrap, Names
<1>3. CASE SelfScore(r) \/ RewriteScore(r) \/ UpdateScore(r)
  BY <1>1, <1>3 DEF SelfScore, RewriteScore, UpdateScore, WriteScore, Names
<1>4. CASE SeedVouch(r) \/ CreateVouch(r)
  BY <1>1, <1>4 DEF SeedVouch, CreateVouch, MakeVouch, Names
<1>5. CASE Attest(r) \/ RegisterSchemas(r) \/ RegisterCredit(r)
  BY <1>1, <1>5 DEF Attest, RegisterSchemas, RegisterCredit, Names
<1>6. CASE CreateGate(r) \/ TransferCap(r) \/ ExpandOracle(r)
  BY <1>1, <1>6 DEF CreateGate, TransferCap, ExpandOracle, Names
<1>7. CASE IssueStanding(r) \/ IssueAttestation(r)
  BY <1>1, <1>7 DEF IssueStanding, IssueAttestation, IssueTo, Names
<1>8. QED
  BY <1>2, <1>3, <1>4, <1>5, <1>6, <1>7 DEF Sending

\* The type of the chain's variables.
ChainTypes ==
  /\ registered \subseteq SchemaIds
  /\ authorized \in [Keys -> SUBSET SchemaIds]
  /\ caps \subseteq Cap /\ profiles \subseteq Profile
  /\ credit \in [Runs -> {"none", "low", "high"}]
  /\ vouched \subseteq Ids
  /\ gateCaps \in [Runs -> Accounts \cup {NoOne}]
  /\ proofs \in [Runs -> Accounts \cup {NoOne}]

LEMMA ChainTyped ==
  ASSUME Types, NEW r \in Runs, Sending(r)
  PROVE  ChainTypes'
<1>1. ChainTypes /\ runs[r] \in Run
  BY DEF Types, SeedingTypeOK, ChainTypes
<1>2. /\ runs[r].signer \in Keys /\ runs[r].owner \in Accounts /\ Keys \subseteq Accounts
      /\ runs[r].cap \in Ids /\ runs[r].profile \in Ids
  BY <1>1 DEF Run, Accounts
<1> USE <1>1 DEF ChainTypes
<1>3. CASE Bootstrap(r)
  <2>1. [id |-> r, owner |-> runs[r].signer] \in Profile
    BY <1>2 DEF Profile
  <2>2. ORACLE_SCHEMAS \in SUBSET SchemaIds
    BY DEF ORACLE_SCHEMAS, SchemaIds
  <2>3. [id |-> r, oracle |-> runs[r].signer, schemas |-> ORACLE_SCHEMAS] \in Cap
    BY <1>2, <2>2 DEF Cap
  <2>4. QED
    BY <1>3, <2>1, <2>2, <2>3 DEF Bootstrap, Signer
<1>4. CASE SelfScore(r) \/ RewriteScore(r) \/ UpdateScore(r)
  BY <1>4 DEF SelfScore, RewriteScore, UpdateScore, WriteScore
<1>5. CASE SeedVouch(r) \/ CreateVouch(r)
  BY <1>2, <1>5 DEF SeedVouch, CreateVouch, MakeVouch
<1>6. CASE Attest(r) \/ RegisterSchemas(r) \/ RegisterCredit(r)
  BY <1>6 DEF Attest, RegisterSchemas, RegisterCredit, chain, SchemaIds
<1>7. CASE CreateGate(r) \/ TransferCap(r)
  BY <1>2, <1>7 DEF CreateGate, TransferCap, Signer
<1>8. CASE ExpandOracle(r)
  <2> DEFINE all == authorized[runs[r].signer] \cup {"TRIBE"}
             new == [id |-> r, oracle |-> runs[r].signer, schemas |-> all]
  <2>1. all \in SUBSET SchemaIds
    BY <1>2 DEF SchemaIds
  <2>2. new \in Cap
    BY <1>2, <2>1 DEF Cap
  <2>3. caps' \subseteq caps \cup {new}
    BY <1>8 DEF ExpandOracle, Replaced, Signer
  <2>4. /\ registered' = registered \cup {"TRIBE"}
        /\ authorized' = [authorized EXCEPT ![runs[r].signer] = all]
        /\ proofs' = [proofs EXCEPT ![r] = runs[r].owner]
        /\ UNCHANGED <<profiles, credit, vouched, gateCaps>>
    BY <1>8 DEF ExpandOracle, Signer
  <2> HIDE DEF all, new
  <2>5. caps' \subseteq Cap
    BY <2>2, <2>3
  <2>6. registered' \subseteq SchemaIds
    BY <2>4 DEF SchemaIds
  <2>7. QED
    BY <1>2, <2>1, <2>4, <2>5, <2>6
<1>9. CASE IssueStanding(r) \/ IssueAttestation(r)
  BY <1>2, <1>9 DEF IssueStanding, IssueAttestation, IssueTo
<1>10. QED
  BY <1>3, <1>4, <1>5, <1>6, <1>7, <1>8, <1>9 DEF Sending

LEMMA TypeInit == Init => Types
<1> SUFFICES ASSUME Init PROVE Types
  OBVIOUS
<1>1. FirstOwner \in Accounts /\ Admin \in Keys
  BY SeedingConstants
<1>2. OldFile \in File
  BY <1>1 DEF OldFile, NoEntry, File, Entry, Ids
<1>3. Idle \in Run /\ Idle.stage = "idle" /\ Idle.step = 1
  <2>1. "seedTestnet" \in Scripts
    BY ScriptNames
  <2> HIDE DEF OldFile
  <2>2. QED
    BY <1>1, <1>2, <2>1 DEF Idle, Run, Stages, Ids
<1> HIDE DEF Idle, OldFile
<1>4. runs \in [Runs -> Run] /\ \A r \in Runs : HasNext(runs[r])
  BY <1>3 DEF Init, HasNext
<1>5. /\ registered \subseteq SchemaIds /\ authorized \in [Keys -> SUBSET SchemaIds]
      /\ caps \subseteq Cap /\ profiles \subseteq Profile /\ vouched \subseteq Ids
      /\ credit \in [Runs -> {"none", "low", "high"}]
      /\ gateCaps \in [Runs -> Accounts \cup {NoOne}]
      /\ proofs \in [Runs -> Accounts \cup {NoOne}]
      /\ file \in File /\ torn \in BOOLEAN
  BY <1>2 DEF Init
<1>6. QED
  BY <1>4, <1>5 DEF Types, SeedingTypeOK

\* The runs and the file, where a step changes one run.
LEMMA OneRunTyped ==
  ASSUME Types, NEW r \in Runs, NEW new \in Run, HasNext(new),
         runs' = [runs EXCEPT ![r] = new], file' \in File, torn' \in BOOLEAN, ChainTypes'
  PROVE  Types'
<1>1. runs \in [Runs -> Run] /\ \A q \in Runs : HasNext(runs[q])
  BY DEF Types, SeedingTypeOK
<1>2. runs' \in [Runs -> Run] /\ \A q \in Runs : HasNext(runs'[q])
  BY <1>1
<1>3. QED
  BY <1>2 DEF Types, SeedingTypeOK, ChainTypes, HasNext, Plan

LEMMA PatchedTyped ==
  ASSUME Types, NEW r \in Runs
  PROVE  Patched(r) \in File
<1>1. runs[r] \in Run
  BY DEF Types, SeedingTypeOK
<1>2. runs[r].raw \in File /\ runs[r].owner \in Accounts
  BY <1>1 DEF Run
<1> DEFINE raw == runs[r].raw
           e == [id |-> r, owner |-> runs[r].owner]
<1>3. e \in Entry /\ r \in Ids
  BY <1>2 DEF Entry, Ids
<1> HIDE DEF e
<1>4. /\ [[raw EXCEPT !.cap = r] EXCEPT !.standing = e] \in File
      /\ [[raw EXCEPT !.gatePolicy = r] EXCEPT !.gateAdminCap = e] \in File
      /\ [raw EXCEPT !.standingEve = e] \in File
  BY <1>2, <1>3 DEF File
<1>5. Patched(r) \in {[[raw EXCEPT !.cap = r] EXCEPT !.standing = e],
                      [[raw EXCEPT !.gatePolicy = r] EXCEPT !.gateAdminCap = e],
                      [raw EXCEPT !.standingEve = e]}
  BY <1>2 DEF Patched, RecordGate, RecordExpansion, File, e
<1>6. QED
  BY <1>4, <1>5

LEMMA TypeStep == Types /\ [Next]_vars => Types'
<1> SUFFICES ASSUME Types, [Next]_vars PROVE Types'
  OBVIOUS
<1>1. /\ runs \in [Runs -> Run] /\ file \in File /\ torn \in BOOLEAN /\ ChainTypes
  BY DEF Types, SeedingTypeOK, ChainTypes
<1>2. UNCHANGED chain => ChainTypes'
  BY <1>1 DEF chain, ChainTypes
<1>3. ASSUME NEW r \in Runs, Sending(r)
      PROVE  Types'
  <2>1. PICK t \in Names : Transacts(r, t)
    BY <1>3, SendingTransacts
  <2>2. ChainTypes'
    BY <1>3, ChainTyped
  <2>3. /\ runs'[r] \in Run /\ HasNext(runs'[r]) /\ file' = file /\ torn' = torn
        /\ runs' = [runs EXCEPT ![r] = runs'[r]]
    BY <2>1 DEF Transacts, Moved
  <2>4. QED
    BY <1>1, <2>2, <2>3, OneRunTyped
<1>4. ASSUME NEW r \in Runs, NEW s \in Scripts, Start(r, s)
      PROVE  Types'
  <2>1. PICK key \in Keys, c \in CapsFor(s), p \in ProfilesFor(s), o \in OwnersFor(s) :
           runs' = [runs EXCEPT ![r] =
             [@ EXCEPT !.script = s, !.signer = key, !.stage = "sending",
                       !.cap = c, !.profile = p, !.owner = o]]
    BY <1>4 DEF Start, LoadKeypair
  <2>2. c \in Ids
    BY <1>1 DEF CapsFor, File, ChainTypes, Cap, Ids
  <2>3. p \in Ids
    BY <1>1 DEF ProfilesFor, ChainTypes, Profile, Ids
  <2>4. o \in Accounts
    BY <1>1, SeedingConstants DEF OwnersFor, File, Entry
  <2>5. runs[r] \in Run /\ runs[r].step = 1
    BY <1>1, <1>4 DEF Start, Types, HasNext
  <2> DEFINE e1 == [[runs[r] EXCEPT !.script = s] EXCEPT !.signer = key]
             e2 == [[e1 EXCEPT !.stage = "sending"] EXCEPT !.cap = c]
             new == [[e2 EXCEPT !.profile = p] EXCEPT !.owner = o]
  <2>6. e1 \in Run /\ e1.step = 1
    BY <2>5 DEF Run
  <2>7. e2 \in Run /\ e2.step = 1 /\ e2.stage = "sending"
    <3> HIDE DEF e1
    <3>1. QED
      BY <2>2, <2>6 DEF Run, Stages
  <2>8. new \in Run /\ new.step = 1 /\ new.stage = "sending"
    <3> HIDE DEF e2
    <3>1. QED
      BY <2>3, <2>4, <2>7 DEF Run
  <2>9. runs' = [runs EXCEPT ![r] = new]
    BY <2>1
  <2> HIDE DEF new
  <2>10. HasNext(new)
    <3>1. Len(Plan(new)) \in 1..4
      BY <2>8, Plans
    <3>2. PICK n \in 1..4 : n = Len(Plan(new))
      BY <3>1
    <3>3. 1 \in 1..n
      BY <3>2
    <3>4. QED
      BY <2>8, <3>2, <3>3 DEF HasNext
  <2>11. file' = file /\ torn' = torn /\ UNCHANGED chain
    BY <1>4 DEF Start
  <2>12. QED
    BY <1>1, <1>2, <2>8, <2>9, <2>10, <2>11, OneRunTyped
<1>5. ASSUME NEW r \in Runs, Refused(r) \/ Stop(r) \/ Reread(r) \/ Save(r)
      PROVE  Types'
  <2>1. runs[r] \in Run /\ Patched(r) \in File
    BY <1>1, PatchedTyped
  <2>2. PICK stage \in {"dead", "saving", "done"}, raw \in File :
           runs' = [runs EXCEPT ![r] = [[@ EXCEPT !.stage = stage] EXCEPT !.raw = raw]]
    <3>1. runs[r].raw \in File
      BY <2>1 DEF Run
    <3>2. \A stage \in {"dead", "done"} :
             [runs[r] EXCEPT !.stage = stage] =
               [[runs[r] EXCEPT !.stage = stage] EXCEPT !.raw = runs[r].raw]
      BY <2>1 DEF Run
    <3>3. CASE Reread(r)
      <4>1. runs' = [runs EXCEPT ![r] = [@ EXCEPT !.stage = "saving", !.raw = file]]
        BY <3>3 DEF Reread
      <4>2. [runs[r] EXCEPT !.stage = "saving", !.raw = file] =
              [[runs[r] EXCEPT !.stage = "saving"] EXCEPT !.raw = file]
        BY <2>1 DEF Run
      <4>3. QED
        BY <1>1, <4>1, <4>2
    <3>4. CASE Refused(r) \/ Stop(r) \/ Save(r)
      BY <1>1, <3>1, <3>2, <3>4 DEF Refused, Stop, Save
    <3>5. QED
      BY <1>5, <3>3, <3>4
  <2> DEFINE new == [[runs[r] EXCEPT !.stage = stage] EXCEPT !.raw = raw]
  <2>3. new \in Run /\ new.stage = stage
    BY <2>1, <2>2 DEF Run, Stages
  <2>4. runs' = [runs EXCEPT ![r] = new]
    BY <2>2
  <2> HIDE DEF new
  <2>5. HasNext(new)
    BY <2>2, <2>3 DEF HasNext
  <2>6. file' \in File /\ torn' \in BOOLEAN /\ UNCHANGED chain
    BY <1>1, <1>5, <2>1 DEF Refused, Stop, Reread, Save
  <2>7. QED
    BY <1>2, <2>3, <2>4, <2>5, <2>6, OneRunTyped
<1>6. ASSUME NEW c \in caps, EnterCap(c)
      PROVE  Types'
  <2>1. [file EXCEPT !.cap = c.id] \in File
    BY <1>1 DEF ChainTypes, Cap, File, Ids
  <2>2. QED
    BY <1>6, <2>1 DEF EnterCap, Types, SeedingTypeOK, chain, HasNext, Plan
<1>7. CASE UNCHANGED vars
  BY <1>7 DEF vars, chain, Types, SeedingTypeOK, HasNext, Plan
<1>8. QED
  BY <1>3, <1>4, <1>5, <1>6, <1>7 DEF Next, RunStep, Sending

\* The chain, the file and the runs keep their types, for any number of runs.
THEOREM TypeCorrect == Spec => []SeedingTypeOK
<1>1. Types => SeedingTypeOK
  BY DEF Types
<1>2. QED
  BY <1>1, TypeInit, TypeStep, PTL DEF Spec

-----------------------------------------------------------------------------
LEMMA OthersLeaveChain ==
  ASSUME [Next]_vars
  PROVE  (\E r \in Runs : Sending(r)) \/ UNCHANGED chain
<1>1. ASSUME NEW r \in Runs, RunStep(r)
      PROVE  Sending(r) \/ UNCHANGED chain
  BY <1>1 DEF RunStep, Sending, Start, Refused, Stop, Reread, Save
<1>2. QED
  BY <1>1 DEF Next, EnterCap, vars

\* What OneCapPerOracle says of one account.
OneCap(k) ==
  IF authorized[k] = {}
    THEN (\A c \in caps : c.oracle # k) /\ (\A p \in profiles : p.owner # k)
    ELSE /\ \E c \in caps :
              c.schemas = authorized[k] /\ \A d \in caps : d.oracle = k <=> d = c
         /\ \E p \in profiles : \A q \in profiles : q.owner = k <=> q = p

LEMMA BootstrapKeepsOneCap ==
  ASSUME Types, OneCapPerOracle, NEW r \in Runs, Bootstrap(r), NEW k \in Keys
  PROVE  OneCap(k)'
<1> DEFINE me == runs[r].signer
           cap == [id |-> r, oracle |-> me, schemas |-> ORACLE_SCHEMAS]
           profile == [id |-> r, owner |-> me]
<1>1. OneCap(k) /\ OneCap(me) /\ me \in Keys
  BY DEF OneCapPerOracle, OneCap, Types, SeedingTypeOK, Run
<1>2. /\ authorized[me] = {}
      /\ authorized' = [authorized EXCEPT ![me] = ORACLE_SCHEMAS]
      /\ caps' = caps \cup {cap} /\ profiles' = profiles \cup {profile}
  <2>1. Accepts(r, "bootstrap") <=> authorized[me] = {}
    BY DEF Accepts, Signer
  <2>2. QED
    BY <2>1 DEF Bootstrap, Signer
<1>3. authorized \in [Keys -> SUBSET SchemaIds]
  BY DEF Types, SeedingTypeOK
<1>4. /\ cap.oracle = me /\ cap.schemas = ORACLE_SCHEMAS /\ profile.owner = me
      /\ ORACLE_SCHEMAS # {}
  BY DEF ORACLE_SCHEMAS
<1> HIDE DEF cap, profile, me
<1>5. CASE k = me
  <2>1. authorized'[k] = ORACLE_SCHEMAS
    BY <1>1, <1>2, <1>3, <1>5
  <2>2. (\A c \in caps : c.oracle # k) /\ (\A p \in profiles : p.owner # k)
    BY <1>1, <1>2, <1>5 DEF OneCap
  <2>3. \A d \in caps' : d.oracle = k <=> d = cap
    BY <1>2, <1>4, <1>5, <2>2
  <2>4. \A q \in profiles' : q.owner = k <=> q = profile
    BY <1>2, <1>4, <1>5, <2>2
  <2>5. QED
    BY <1>2, <1>4, <2>1, <2>3, <2>4 DEF OneCap
<1>6. CASE k # me
  <2>1. authorized'[k] = authorized[k]
    BY <1>2, <1>3, <1>6
  <2>2. /\ \A c \in caps' : c \in caps \/ c.oracle # k
        /\ \A p \in profiles' : p \in profiles \/ p.owner # k
        /\ caps \subseteq caps' /\ profiles \subseteq profiles'
    BY <1>2, <1>4, <1>6
  <2>3. CASE authorized[k] = {}
    BY <1>1, <2>1, <2>2, <2>3 DEF OneCap
  <2>4. CASE authorized[k] # {}
    <3>1. PICK c \in caps :
            c.schemas = authorized[k] /\ \A d \in caps : d.oracle = k <=> d = c
      BY <1>1, <2>4 DEF OneCap
    <3>2. PICK p \in profiles : \A q \in profiles : q.owner = k <=> q = p
      BY <1>1, <2>4 DEF OneCap
    <3>3. \A d \in caps' : d.oracle = k <=> d = c
      BY <2>2, <3>1
    <3>4. \A q \in profiles' : q.owner = k <=> q = p
      BY <2>2, <3>2
    <3>5. QED
      BY <2>1, <2>2, <2>4, <3>1, <3>3, <3>4 DEF OneCap
  <2>5. QED
    BY <2>3, <2>4
<1>7. QED
  BY <1>5, <1>6

LEMMA ExpandKeepsOneCap ==
  ASSUME Types, OneCapPerOracle, NEW r \in Runs, ExpandOracle(r), NEW k \in Keys
  PROVE  OneCap(k)'
<1> DEFINE me == runs[r].signer
           all == authorized[me] \cup {"TRIBE"}
           cap == [id |-> r, oracle |-> me, schemas |-> all]
<1>1. OneCap(k) /\ OneCap(me) /\ me \in Keys
  BY DEF OneCapPerOracle, OneCap, Types, SeedingTypeOK, Run
<1>2. PICK old \in caps : old.oracle = me /\ caps' = (caps \ {old}) \cup {cap}
  BY DEF ExpandOracle, Replaced, Signer
<1>3. authorized' = [authorized EXCEPT ![me] = all] /\ profiles' = profiles
  BY DEF ExpandOracle, Signer
<1>4. authorized \in [Keys -> SUBSET SchemaIds]
  BY DEF Types, SeedingTypeOK
<1>5. cap.oracle = me /\ cap.schemas = all /\ all # {}
  OBVIOUS
<1>6. authorized[me] # {} /\ \A d \in caps : d.oracle = me <=> d = old
  BY <1>1, <1>2 DEF OneCap
<1> HIDE DEF cap, all, me
<1>7. CASE k = me
  <2>1. authorized'[k] = all
    BY <1>1, <1>3, <1>4, <1>7
  <2>2. \A d \in caps' : d.oracle = k <=> d = cap
    BY <1>2, <1>5, <1>6, <1>7
  <2>3. \E p \in profiles' : \A q \in profiles' : q.owner = k <=> q = p
    BY <1>1, <1>3, <1>6, <1>7 DEF OneCap
  <2>4. QED
    BY <1>2, <1>5, <2>1, <2>2, <2>3 DEF OneCap
<1>8. CASE k # me
  <2>1. authorized'[k] = authorized[k]
    BY <1>3, <1>4, <1>8
  <2>2. \A d : d.oracle = k => (d \in caps' <=> d \in caps)
    BY <1>2, <1>5, <1>8
  <2>3. CASE authorized[k] = {}
    BY <1>1, <1>3, <2>1, <2>2, <2>3 DEF OneCap
  <2>4. CASE authorized[k] # {}
    <3>1. PICK c \in caps :
            c.schemas = authorized[k] /\ \A d \in caps : d.oracle = k <=> d = c
      BY <1>1, <2>4 DEF OneCap
    <3>2. c \in caps' /\ \A d \in caps' : d.oracle = k <=> d = c
      BY <2>2, <3>1
    <3>3. \E p \in profiles' : \A q \in profiles' : q.owner = k <=> q = p
      BY <1>1, <1>3, <2>4 DEF OneCap
    <3>4. QED
      BY <2>1, <2>4, <3>1, <3>2, <3>3 DEF OneCap
  <2>5. QED
    BY <2>3, <2>4
<1>9. QED
  BY <1>7, <1>8

LEMMA OneCapStep == Types /\ OneCapPerOracle /\ [Next]_vars => OneCapPerOracle'
<1> SUFFICES ASSUME Types, OneCapPerOracle, [Next]_vars, NEW k \in Keys
             PROVE  OneCap(k)'
  BY DEF OneCapPerOracle, OneCap
<1>1. ASSUME UNCHANGED <<authorized, caps, profiles>>
      PROVE  OneCap(k)'
  BY <1>1 DEF OneCapPerOracle, OneCap
<1>2. ASSUME NEW r \in Runs, Sending(r)
      PROVE  OneCap(k)'
  <2>1. CASE Bootstrap(r)
    BY <2>1, BootstrapKeepsOneCap
  <2>2. CASE ExpandOracle(r)
    BY <2>2, ExpandKeepsOneCap
  <2>3. CASE SelfScore(r) \/ RewriteScore(r) \/ UpdateScore(r) \/ SeedVouch(r) \/ CreateVouch(r)
    BY <1>1, <2>3 DEF SelfScore, RewriteScore, UpdateScore, WriteScore, SeedVouch,
                      CreateVouch, MakeVouch
  <2>4. CASE Attest(r) \/ RegisterSchemas(r) \/ RegisterCredit(r)
    BY <1>1, <2>4 DEF Attest, RegisterSchemas, RegisterCredit, chain
  <2>5. CASE CreateGate(r) \/ TransferCap(r) \/ IssueStanding(r) \/ IssueAttestation(r)
    BY <1>1, <2>5 DEF CreateGate, TransferCap, IssueStanding, IssueAttestation, IssueTo
  <2>6. QED
    BY <1>2, <2>1, <2>2, <2>3, <2>4, <2>5 DEF Sending
<1>3. QED
  BY <1>1, <1>2, OthersLeaveChain DEF chain

\* An account is an oracle exactly if it has one profile and one capability,
\* however often and in whatever order the scripts run, are refused and stop.
THEOREM OracleHasOneCap == Spec => []OneCapPerOracle
<1>1. Init => OneCapPerOracle
  BY DEF Init, OneCapPerOracle
<1>2. QED
  BY <1>1, TypeInit, TypeStep, OneCapStep, PTL DEF Spec

-----------------------------------------------------------------------------
LEMMA ExpansionOrNot ==
  ASSUME Types, NEW r \in Runs, Sending(r)
  PROVE  \/ /\ ExpandOracle(r) /\ Transacts(r, "expand")
            /\ runs[r].script = "seedTribeStanding"
         \/ /\ runs[r].script # "seedTribeStanding"
            /\ caps \subseteq caps' /\ registered \subseteq registered'
            /\ \E t \in Names : Transacts(r, t)
<1>1. PICK t \in Names : Transacts(r, t)
  BY SendingTransacts
<1>2. runs[r] \in Run /\ runs[r].step \in 1..Len(Plan(runs[r]))
  BY <1>1 DEF Types, SeedingTypeOK, HasNext, Transacts
<1>3. t = "expand" <=> runs[r].script = "seedTribeStanding"
  BY <1>1, <1>2, Plans DEF Transacts
<1>4. CASE ExpandOracle(r)
  BY <1>1, <1>3, <1>4 DEF ExpandOracle, Sends, Transacts
<1>5. ASSUME NEW u, u # "expand", Sends(r, u), caps \subseteq caps', registered \subseteq registered'
      PROVE  /\ runs[r].script # "seedTribeStanding"
             /\ caps \subseteq caps' /\ registered \subseteq registered'
  BY <1>1, <1>3, <1>5 DEF Sends, Transacts
<1>6. CASE Bootstrap(r)
  BY <1>1, <1>5, <1>6 DEF Bootstrap
<1>7. CASE SelfScore(r) \/ RewriteScore(r) \/ UpdateScore(r) \/ SeedVouch(r) \/ CreateVouch(r)
  BY <1>1, <1>5, <1>7 DEF SelfScore, RewriteScore, UpdateScore, WriteScore, SeedVouch,
                          CreateVouch, MakeVouch
<1>8. CASE Attest(r) \/ RegisterSchemas(r) \/ RegisterCredit(r)
  BY <1>1, <1>5, <1>8 DEF Attest, RegisterSchemas, RegisterCredit, chain
<1>9. CASE CreateGate(r) \/ TransferCap(r) \/ IssueStanding(r) \/ IssueAttestation(r)
  BY <1>1, <1>5, <1>9 DEF CreateGate, TransferCap, IssueStanding, IssueAttestation, IssueTo
<1>10. QED
  BY <1>4, <1>6, <1>7, <1>8, <1>9 DEF Sending

\* A run that expanded an oracle has made a capability that is still there, for
\* the schema it registered can be registered once only.
Expanded ==
  \A r \in Runs :
    /\ runs[r].script = "seedTribeStanding"
    /\ runs[r].stage \in {"reading", "saving", "done"}
    => "TRIBE" \in registered /\ \E c \in caps : c.id = r

LEMMA CapStepSending ==
  ASSUME Types, Expanded, RecordedCapIsLive, NEW r \in Runs, Sending(r)
  PROVE  Expanded' /\ RecordedCapIsLive'
<1>1. runs \in [Runs -> Run]
  BY DEF Types, SeedingTypeOK
<1>2. CASE /\ ExpandOracle(r) /\ Transacts(r, "expand")
           /\ runs[r].script = "seedTribeStanding"
  <2>1. PICK old \in caps, new \in caps' :
          /\ old.id = runs[r].cap /\ new.id = r /\ caps' = (caps \ {old}) \cup {new}
    BY <1>2 DEF ExpandOracle, Replaced
  <2>2. "TRIBE" \notin registered /\ registered' = registered \cup {"TRIBE"}
    <3>1. Accepts(r, "expand") => "TRIBE" \notin registered
      BY DEF Accepts
    <3>2. QED
      BY <1>2, <3>1 DEF ExpandOracle
  <2>3. /\ file' = file /\ torn' = torn
        /\ runs' = [runs EXCEPT ![r] = runs'[r]]
        /\ runs'[r].script = "seedTribeStanding" /\ runs'[r].cap = runs[r].cap
        /\ runs[r].stage = "sending"
    BY <1>2 DEF Transacts, Moved
  <2>4. runs'[r].stage \in {"reading", "dead"}
    <3>1. runs[r].step = Len(Plan(runs[r]))
      BY <1>1, <1>2, Plans DEF Transacts, Types, HasNext
    <3>2. QED
      BY <1>2, <3>1 DEF Transacts, Moved, Recording
  <2>5. Expanded'
    BY <1>1, <2>1, <2>2, <2>3 DEF Expanded
  <2>6. RecordedCapIsLive'
    <3>1. CASE file.cap = NoId \/ torn
      BY <2>3, <3>1 DEF RecordedCapIsLive
    <3>2. ASSUME NEW c \in caps, c.id = file.cap
          PROVE  RecordedCapIsLive'
      <4>1. CASE c = old
        BY <2>1, <2>3, <2>4, <3>2, <4>1 DEF RecordedCapIsLive, Spending
      <4>2. CASE c # old
        BY <2>1, <2>3, <3>2, <4>2 DEF RecordedCapIsLive
      <4>3. QED
        BY <4>1, <4>2
    <3>3. ASSUME NEW q \in Runs, Spending(q)
          PROVE  RecordedCapIsLive'
      <4>1. q # r
        BY <2>3, <3>3 DEF Spending
      <4>2. runs'[q] = runs[q]
        BY <1>1, <2>3, <4>1
      <4>3. QED
        BY <2>3, <3>3, <4>2 DEF RecordedCapIsLive, Spending
    <3>4. QED
      BY <3>1, <3>2, <3>3 DEF RecordedCapIsLive
  <2>7. QED
    BY <2>5, <2>6
<1>3. CASE /\ runs[r].script # "seedTribeStanding"
           /\ caps \subseteq caps' /\ registered \subseteq registered'
           /\ \E t \in Names : Transacts(r, t)
  <2>1. /\ file' = file /\ torn' = torn
        /\ runs' = [runs EXCEPT ![r] = runs'[r]]
        /\ runs'[r].script # "seedTribeStanding"
    BY <1>3 DEF Transacts, Moved
  <2>2. \A q \in Runs : q # r => runs'[q] = runs[q]
    BY <1>1, <2>1
  <2>3. Expanded'
    BY <1>3, <2>1, <2>2 DEF Expanded
  <2>4. \A q \in Runs : Spending(q) => Spending(q)'
    BY <1>3, <2>1, <2>2 DEF Spending
  <2>5. RecordedCapIsLive'
    BY <1>3, <2>1, <2>4 DEF RecordedCapIsLive
  <2>6. QED
    BY <2>3, <2>5
<1>4. QED
  BY <1>2, <1>3, ExpansionOrNot

LEMMA CapStep ==
  Types /\ Expanded /\ RecordedCapIsLive /\ [Next]_vars => Expanded' /\ RecordedCapIsLive'
<1> SUFFICES ASSUME Types, Expanded, RecordedCapIsLive, [Next]_vars
             PROVE  Expanded' /\ RecordedCapIsLive'
  OBVIOUS
<1>1. runs \in [Runs -> Run]
  BY DEF Types, SeedingTypeOK
<1>2. ASSUME NEW r \in Runs, UNCHANGED chain, file'.cap = file.cap, torn => torn',
             runs' = [runs EXCEPT ![r] = runs'[r]],
             \/ runs[r].stage = "idle" /\ runs'[r].stage = "sending"
             \/ /\ runs'[r].script = runs[r].script /\ runs'[r].cap = runs[r].cap
                /\ \/ runs'[r].stage = "dead"
                   \/ runs[r].stage = "reading" /\ runs'[r].stage = "saving"
                   \/ /\ runs[r].script # "seedTribeStanding"
                      /\ runs'[r].stage = "done"
      PROVE  Expanded' /\ RecordedCapIsLive'
  <2>1. \A q \in Runs : q # r => runs'[q] = runs[q]
    BY <1>1, <1>2
  <2>2. Expanded'
    BY <1>2, <2>1 DEF Expanded, chain
  <2>3. \A q \in Runs : Spending(q) => Spending(q)'
    BY <1>2, <2>1 DEF Spending
  <2>4. RecordedCapIsLive'
    BY <1>2, <2>3 DEF RecordedCapIsLive, chain
  <2>5. QED
    BY <2>2, <2>4
<1>3. ASSUME NEW r \in Runs, NEW s \in Scripts, Start(r, s)
      PROVE  Expanded' /\ RecordedCapIsLive'
  <2>1. /\ UNCHANGED chain /\ file' = file /\ torn' = torn
        /\ runs[r].stage = "idle" /\ runs'[r].stage = "sending"
    BY <1>1, <1>3 DEF Start, Run
  <2>2. runs' = [runs EXCEPT ![r] = runs'[r]]
    BY <1>1, <1>3 DEF Start
  <2>3. QED
    BY <1>2, <2>1, <2>2
<1>4. ASSUME NEW r \in Runs, Refused(r) \/ Stop(r) \/ Reread(r)
      PROVE  Expanded' /\ RecordedCapIsLive'
  <2>1. /\ UNCHANGED chain /\ file' = file /\ torn' = torn
        /\ runs' = [runs EXCEPT ![r] = runs'[r]]
    BY <1>1, <1>4 DEF Refused, Stop, Reread
  <2>2. /\ runs'[r].script = runs[r].script /\ runs'[r].cap = runs[r].cap
        /\ \/ runs'[r].stage = "dead"
           \/ runs[r].stage = "reading" /\ runs'[r].stage = "saving"
    BY <1>1, <1>4 DEF Refused, Stop, Reread, Run
  <2>3. QED
    BY <1>2, <2>1, <2>2
<1>5. ASSUME NEW r \in Runs, Save(r)
      PROVE  Expanded' /\ RecordedCapIsLive'
  <2>1. /\ runs[r].stage = "saving" /\ UNCHANGED chain
        /\ file' = Patched(r) /\ torn' = (torn \/ file # runs[r].raw)
        /\ runs' = [runs EXCEPT ![r] = runs'[r]]
        /\ runs'[r].script = runs[r].script /\ runs'[r].cap = runs[r].cap
        /\ runs'[r].stage = "done"
    BY <1>1, <1>5 DEF Save, Run
  <2>2. runs[r].raw \in File
    BY <1>1 DEF Run
  <2>3. CASE runs[r].script = "seedTribeStanding"
    <3>1. file'.cap = r
      BY <2>1, <2>2, <2>3 DEF Patched, RecordExpansion, File
    <3>2. \E c \in caps' : c.id = r
      BY <2>1, <2>3 DEF Expanded, chain
    <3>3. Expanded'
      BY <1>1, <2>1 DEF Expanded, chain
    <3>4. QED
      BY <3>1, <3>2, <3>3 DEF RecordedCapIsLive
  <2>4. CASE runs[r].script # "seedTribeStanding" /\ file = runs[r].raw
    <3>1. file'.cap = file.cap
      BY <2>1, <2>2, <2>4 DEF Patched, RecordGate, File
    <3>2. QED
      BY <1>2, <2>1, <2>4, <3>1
  <2>5. CASE runs[r].script # "seedTribeStanding" /\ file # runs[r].raw
    <3>1. Expanded'
      BY <1>1, <2>1, <2>5 DEF Expanded, chain
    <3>2. QED
      BY <2>1, <2>5, <3>1 DEF RecordedCapIsLive
  <2>6. QED
    BY <2>3, <2>4, <2>5
<1>6. ASSUME NEW c \in caps, EnterCap(c)
      PROVE  Expanded' /\ RecordedCapIsLive'
  <2>1. file'.cap = c.id
    BY <1>6 DEF EnterCap, Types, SeedingTypeOK, File
  <2>2. QED
    BY <1>6, <2>1 DEF EnterCap, chain, Expanded, RecordedCapIsLive
<1>7. CASE UNCHANGED vars
  BY <1>7 DEF vars, chain, Expanded, RecordedCapIsLive, Spending
<1>8. QED
  BY <1>3, <1>4, <1>5, <1>6, <1>7, CapStepSending DEF Next, RunStep, Sending

\* The capability the file names is there, or a run that spent it has not
\* recorded the next one, or two runs have written the file over each other.
THEOREM CapOfTheFile == Spec => []RecordedCapIsLive
<1>1. Init => Expanded /\ RecordedCapIsLive
  BY DEF Init, Expanded, RecordedCapIsLive, Idle, OldFile
<1>2. QED
  BY <1>1, TypeInit, TypeStep, CapStep, PTL DEF Spec

-----------------------------------------------------------------------------
\* The entries of a file are of runs that are done, and give the owners there are.
Real(f, rs, gates, standings) ==
  /\ f.gatePolicy = f.gateAdminCap.id
  /\ f.gatePolicy # NoId => /\ rs[f.gatePolicy].stage = "done"
                            /\ gates[f.gatePolicy] = f.gateAdminCap.owner
  /\ \A e \in {f.standing, f.standingEve} :
       e.id # NoId => rs[e.id].stage = "done" /\ standings[e.id] = e.owner

\* What a run is about to record is so.
Recordable(r) ==
  runs[r].stage \in {"reading", "saving"} =>
    /\ runs[r].script \in Recording
    /\ runs[r].script = "createGate" => gateCaps[r] = runs[r].owner
    /\ runs[r].script \in {"seedTribeStanding", "issueTribeStanding"} =>
         proofs[r] = runs[r].owner

CopiesAreReal ==
  /\ Real(file, runs, gateCaps, proofs)
  /\ \A r \in Runs : /\ Recordable(r)
                     /\ runs[r].stage = "saving" =>
                          Real(runs[r].raw, runs, gateCaps, proofs)

\* A step of a run that is not done disturbs no entry.
LEMMA RealStays ==
  ASSUME Types, NEW r \in Runs, runs[r].stage # "done",
         runs' = [runs EXCEPT ![r] = runs'[r]],
         \A q \in Runs \ {r} : gateCaps'[q] = gateCaps[q] /\ proofs'[q] = proofs[q]
  PROVE  \A f \in File : Real(f, runs, gateCaps, proofs) => Real(f, runs', gateCaps', proofs')
<1>1. runs \in [Runs -> Run]
  BY DEF Types, SeedingTypeOK
<1>2. \A q \in Runs : q # r => /\ runs'[q] = runs[q] /\ gateCaps'[q] = gateCaps[q]
                               /\ proofs'[q] = proofs[q]
  BY <1>1
<1>3. \A f \in File : /\ f.gatePolicy \in Runs \cup {NoId}
                      /\ f.standing.id \in Runs \cup {NoId}
                      /\ f.standingEve.id \in Runs \cup {NoId}
  BY DEF File, Entry, Ids
<1>4. QED
  BY <1>2, <1>3 DEF Real

\* A transaction changes an owner only for the run that sends it, and what a
\* run is about to record after its last one is so.
LEMMA SendingOwners ==
  ASSUME Types, NEW r \in Runs, Sending(r)
  PROVE  /\ \A q \in Runs \ {r} : gateCaps'[q] = gateCaps[q] /\ proofs'[q] = proofs[q]
         /\ Recordable(r)'
<1>1. PICK t \in Names : Transacts(r, t)
  BY SendingTransacts
<1>2. /\ runs[r] \in Run /\ runs[r].step \in 1..Len(Plan(runs[r]))
      /\ gateCaps \in [Runs -> Accounts \cup {NoOne}]
      /\ proofs \in [Runs -> Accounts \cup {NoOne}]
  BY <1>1 DEF Types, SeedingTypeOK, HasNext, Transacts
<1>3. /\ t = "expand" <=> runs[r].script = "seedTribeStanding"
      /\ t = "issueStanding" <=> runs[r].script = "issueTribeStanding"
      /\ t \in {"createGate", "transferCap"} <=> runs[r].script = "createGate"
      /\ t = "createGate" /\ runs[r].step = Len(Plan(runs[r])) => runs[r].owner = runs[r].signer
  BY <1>1, <1>2, Plans DEF Transacts
<1>4. /\ runs'[r].script = runs[r].script /\ runs'[r].owner = runs[r].owner
      /\ runs'[r].stage \in {"reading", "saving"} =>
           runs[r].step = Len(Plan(runs[r])) /\ runs[r].script \in Recording
  BY <1>1 DEF Transacts, Moved
<1>5. ASSUME NEW u, Sends(r, u)
      PROVE  u = t
  BY <1>1, <1>5 DEF Sends, Transacts
<1>6. CASE CreateGate(r)
  <2>1. t = "createGate" /\ proofs' = proofs
        /\ gateCaps' = [gateCaps EXCEPT ![r] = runs[r].signer]
    BY <1>5, <1>6 DEF CreateGate, Signer
  <2>2. QED
    BY <1>2, <1>3, <1>4, <2>1 DEF Recordable
<1>7. CASE TransferCap(r)
  <2>1. t = "transferCap" /\ proofs' = proofs
        /\ gateCaps' = [gateCaps EXCEPT ![r] = runs[r].owner]
    BY <1>5, <1>7 DEF TransferCap
  <2>2. QED
    BY <1>2, <1>3, <1>4, <2>1 DEF Recordable
<1>8. CASE ExpandOracle(r) \/ IssueStanding(r) \/ IssueAttestation(r)
  <2>1. /\ t \in {"expand", "issueStanding", "issueAttestation"} /\ gateCaps' = gateCaps
        /\ proofs' = [proofs EXCEPT ![r] = runs[r].owner]
    BY <1>5, <1>8 DEF ExpandOracle, IssueStanding, IssueAttestation, IssueTo
  <2>2. QED
    BY <1>2, <1>3, <1>4, <2>1 DEF Recordable
<1>9. ASSUME UNCHANGED <<gateCaps, proofs>>,
             t \notin {"expand", "issueStanding", "createGate", "transferCap"}
      PROVE  /\ \A q \in Runs \ {r} : gateCaps'[q] = gateCaps[q] /\ proofs'[q] = proofs[q]
             /\ Recordable(r)'
  BY <1>3, <1>4, <1>9 DEF Recordable
<1>10. CASE SelfScore(r) \/ RewriteScore(r) \/ UpdateScore(r)
  BY <1>5, <1>9, <1>10 DEF SelfScore, RewriteScore, UpdateScore, WriteScore
<1>11. CASE Bootstrap(r) \/ SeedVouch(r) \/ CreateVouch(r)
  BY <1>5, <1>9, <1>11 DEF Bootstrap, SeedVouch, CreateVouch, MakeVouch
<1>12. CASE Attest(r) \/ RegisterSchemas(r) \/ RegisterCredit(r)
  BY <1>5, <1>9, <1>12 DEF Attest, RegisterSchemas, RegisterCredit, chain
<1>13. QED
  BY <1>6, <1>7, <1>8, <1>10, <1>11, <1>12 DEF Sending

\* A step of a run that leaves the file alone.
LEMMA CopiesStay ==
  ASSUME Types, CopiesAreReal, NEW r \in Runs, file' = file, runs[r].stage # "done",
         runs' = [runs EXCEPT ![r] = runs'[r]],
         \A q \in Runs \ {r} : gateCaps'[q] = gateCaps[q] /\ proofs'[q] = proofs[q],
         Recordable(r)', runs'[r].stage = "saving" => runs'[r].raw = file
  PROVE  CopiesAreReal'
<1>1. runs \in [Runs -> Run] /\ file \in File
  BY DEF Types, SeedingTypeOK
<1>2. \A f \in File : Real(f, runs, gateCaps, proofs) => Real(f, runs', gateCaps', proofs')
  BY RealStays
<1>3. Real(file', runs', gateCaps', proofs')
  BY <1>1, <1>2 DEF CopiesAreReal
<1>4. ASSUME NEW q \in Runs, q # r
      PROVE  /\ Recordable(q)'
             /\ runs'[q].stage = "saving" => Real(runs'[q].raw, runs', gateCaps', proofs')
  <2>1. runs'[q] = runs[q] /\ runs[q].raw \in File
    BY <1>1, <1>4 DEF Run
  <2>2. Recordable(q)'
    BY <1>4, <2>1 DEF CopiesAreReal, Recordable
  <2>3. QED
    BY <1>2, <2>1, <2>2 DEF CopiesAreReal
<1>5. runs'[r].stage = "saving" => Real(runs'[r].raw, runs', gateCaps', proofs')
  BY <1>3
<1>6. QED
  BY <1>3, <1>4, <1>5 DEF CopiesAreReal

LEMMA CopiesSave ==
  ASSUME Types, CopiesAreReal, NEW r \in Runs, Save(r)
  PROVE  CopiesAreReal'
<1>1. /\ runs \in [Runs -> Run] /\ file \in File
      /\ runs[r].raw \in File /\ runs[r].owner \in Accounts
  BY DEF Types, SeedingTypeOK, Run
<1>2. /\ runs[r].stage = "saving" /\ file' = Patched(r)
      /\ gateCaps' = gateCaps /\ proofs' = proofs
      /\ runs' = [runs EXCEPT ![r] = runs'[r]] /\ runs'[r].stage = "done"
  BY <1>1 DEF Save, Run, chain
<1>3. \A f \in File : Real(f, runs, gateCaps, proofs) => Real(f, runs', gateCaps', proofs')
  BY <1>2, RealStays
<1>4. Real(runs[r].raw, runs', gateCaps', proofs') /\ Recordable(r)
  BY <1>1, <1>2, <1>3 DEF CopiesAreReal
<1> DEFINE raw == runs[r].raw
           entry == [id |-> r, owner |-> runs[r].owner]
<1>r. Real(raw, runs', gateCaps', proofs')
  BY <1>4
<1>e. entry.id = r /\ entry.owner = runs[r].owner /\ runs'[r].stage = "done"
  BY <1>2
<1>5. ASSUME runs[r].script = "createGate"
      PROVE  Real(file', runs', gateCaps', proofs')
  <2>1. file' = [[raw EXCEPT !.gatePolicy = r] EXCEPT !.gateAdminCap = entry]
    BY <1>1, <1>2, <1>5 DEF Patched, RecordGate, File
  <2>2. /\ file'.gatePolicy = r /\ file'.gateAdminCap = entry
        /\ file'.standing = raw.standing /\ file'.standingEve = raw.standingEve
    BY <1>1, <2>1 DEF File
  <2>3. gateCaps'[r] = runs[r].owner
    BY <1>2, <1>4, <1>5 DEF Recordable
  <2> HIDE DEF raw, entry
  <2>4. QED
    BY <1>r, <1>e, <2>2, <2>3 DEF Real
<1>6. ASSUME runs[r].script = "seedTribeStanding"
      PROVE  Real(file', runs', gateCaps', proofs')
  <2>1. file' = [[raw EXCEPT !.cap = r] EXCEPT !.standing = entry]
    BY <1>1, <1>2, <1>6 DEF Patched, RecordExpansion, File
  <2>2. /\ file'.gatePolicy = raw.gatePolicy /\ file'.gateAdminCap = raw.gateAdminCap
        /\ file'.standing = entry /\ file'.standingEve = raw.standingEve
    BY <1>1, <2>1 DEF File
  <2>3. proofs'[r] = runs[r].owner
    BY <1>2, <1>4, <1>6 DEF Recordable
  <2> HIDE DEF raw, entry
  <2>4. QED
    BY <1>r, <1>e, <2>2, <2>3 DEF Real
<1>7. ASSUME runs[r].script = "issueTribeStanding"
      PROVE  Real(file', runs', gateCaps', proofs')
  <2>1. file' = [raw EXCEPT !.standingEve = entry]
    BY <1>1, <1>2, <1>7 DEF Patched
  <2>2. /\ file'.gatePolicy = raw.gatePolicy /\ file'.gateAdminCap = raw.gateAdminCap
        /\ file'.standing = raw.standing /\ file'.standingEve = entry
    BY <1>1, <2>1 DEF File
  <2>3. proofs'[r] = runs[r].owner
    BY <1>2, <1>4, <1>7 DEF Recordable
  <2> HIDE DEF raw, entry
  <2>4. QED
    BY <1>r, <1>e, <2>2, <2>3 DEF Real
<1>8. Real(file', runs', gateCaps', proofs')
  BY <1>2, <1>4, <1>5, <1>6, <1>7 DEF Recordable, Recording
<1>9. ASSUME NEW q \in Runs, q # r
      PROVE  /\ Recordable(q)'
             /\ runs'[q].stage = "saving" => Real(runs'[q].raw, runs', gateCaps', proofs')
  <2>1. runs'[q] = runs[q] /\ runs[q].raw \in File
    BY <1>1, <1>2, <1>9 DEF Run
  <2>2. Recordable(q)'
    BY <1>2, <2>1 DEF CopiesAreReal, Recordable
  <2>3. QED
    BY <1>3, <2>1, <2>2 DEF CopiesAreReal
<1>10. Recordable(r)'
  BY <1>2 DEF Recordable
<1>11. QED
  BY <1>2, <1>8, <1>9, <1>10 DEF CopiesAreReal

LEMMA CopiesStep == Types /\ CopiesAreReal /\ [Next]_vars => CopiesAreReal'
<1> SUFFICES ASSUME Types, CopiesAreReal, [Next]_vars PROVE CopiesAreReal'
  OBVIOUS
<1>1. runs \in [Runs -> Run] /\ file \in File
  BY DEF Types, SeedingTypeOK
<1>2. ASSUME NEW r \in Runs, Sending(r)
      PROVE  CopiesAreReal'
  <2>1. PICK t \in Names : Transacts(r, t)
    BY <1>2, SendingTransacts
  <2>2. /\ file' = file /\ runs[r].stage # "done" /\ runs'[r].stage # "saving"
        /\ runs' = [runs EXCEPT ![r] = runs'[r]]
    BY <2>1 DEF Transacts, Moved
  <2>3. /\ \A q \in Runs \ {r} : gateCaps'[q] = gateCaps[q] /\ proofs'[q] = proofs[q]
        /\ Recordable(r)'
    BY <1>2, SendingOwners
  <2>4. QED
    BY <2>2, <2>3, CopiesStay
<1>3. ASSUME NEW r \in Runs, UNCHANGED <<chain, file>>, runs[r].stage # "done",
             runs' = [runs EXCEPT ![r] = runs'[r]], runs'[r].stage \in {"sending", "dead"}
      PROVE  CopiesAreReal'
  <2>1. Recordable(r)'
    BY <1>3 DEF Recordable
  <2>2. QED
    BY <1>3, <2>1, CopiesStay DEF chain
<1>4. ASSUME NEW r \in Runs, NEW s \in Scripts, Start(r, s)
      PROVE  CopiesAreReal'
  <2>1. /\ UNCHANGED <<chain, file>> /\ runs[r].stage = "idle"
        /\ runs'[r].stage = "sending"
    BY <1>1, <1>4 DEF Start, Run
  <2>2. runs' = [runs EXCEPT ![r] = runs'[r]]
    BY <1>1, <1>4 DEF Start
  <2>3. QED
    BY <1>3, <2>1, <2>2
<1>5. ASSUME NEW r \in Runs, Refused(r) \/ Stop(r)
      PROVE  CopiesAreReal'
  <2>1. /\ UNCHANGED <<chain, file>> /\ runs[r].stage # "done"
        /\ runs'[r].stage = "dead"
    BY <1>1, <1>5 DEF Refused, Stop, Run
  <2>2. runs' = [runs EXCEPT ![r] = runs'[r]]
    BY <1>1, <1>5 DEF Refused, Stop
  <2>3. QED
    BY <1>3, <2>1, <2>2
<1>6. ASSUME NEW r \in Runs, Reread(r)
      PROVE  CopiesAreReal'
  <2>1. /\ UNCHANGED <<chain, file>> /\ runs[r].stage = "reading"
        /\ runs' = [runs EXCEPT ![r] = runs'[r]]
    BY <1>1, <1>6 DEF Reread
  <2>2. /\ runs'[r].raw = file /\ runs'[r].script = runs[r].script
        /\ runs'[r].owner = runs[r].owner
    BY <1>1, <1>6 DEF Reread, Run
  <2>3. Recordable(r)'
    BY <2>1, <2>2 DEF CopiesAreReal, Recordable, chain
  <2>4. QED
    BY <2>1, <2>2, <2>3, CopiesStay DEF chain
<1>7. ASSUME NEW c \in caps, EnterCap(c)
      PROVE  CopiesAreReal'
  <2>1. /\ runs' = runs /\ gateCaps' = gateCaps /\ proofs' = proofs
        /\ file'.gatePolicy = file.gatePolicy /\ file'.gateAdminCap = file.gateAdminCap
        /\ file'.standing = file.standing /\ file'.standingEve = file.standingEve
    BY <1>1, <1>7 DEF EnterCap, File, chain
  <2>2. Real(file', runs', gateCaps', proofs')
    <3>1. Real(file, runs', gateCaps', proofs')
      BY <2>1 DEF CopiesAreReal
    <3>2. QED
      BY <2>1, <3>1 DEF Real
  <2>3. ASSUME NEW q \in Runs
        PROVE  /\ Recordable(q)'
               /\ runs'[q].stage = "saving" => Real(runs'[q].raw, runs', gateCaps', proofs')
    BY <2>1 DEF CopiesAreReal, Recordable
  <2>4. QED
    BY <2>2, <2>3 DEF CopiesAreReal
<1>8. CASE UNCHANGED vars
  BY <1>8 DEF vars, chain, CopiesAreReal, Real, Recordable
<1>9. QED
  BY <1>2, <1>4, <1>5, <1>6, <1>7, <1>8, CopiesSave DEF Next, RunStep, Sending

\* The gate and the standings the file names belong to the owners it gives.
THEOREM OwnersOfTheFile == Spec => []RecordedOwnersAreReal
<1>1. Init => CopiesAreReal
  <2>1. ASSUME Init
        PROVE  /\ file.gatePolicy = NoId /\ file.gateAdminCap.id = NoId
               /\ file.standing.id = NoId /\ file.standingEve.id = NoId
               /\ \A r \in Runs : runs[r].stage = "idle"
    BY <2>1 DEF Init, OldFile, NoEntry, Idle
  <2>2. QED
    BY <2>1 DEF CopiesAreReal, Real, Recordable
<1>2. CopiesAreReal => RecordedOwnersAreReal
  BY DEF CopiesAreReal, Real, RecordedOwnersAreReal
<1>3. QED
  BY <1>1, <1>2, TypeInit, TypeStep, CopiesStep, PTL DEF Spec
=============================================================================
