------------------------------ MODULE PageProofs ------------------------------
(***************************************************************************)
(* Proofs about what the pages show: of PolledViews, for any keys, any     *)
(* states of the indexer and any number of reads on their way, and of      *)
(* RoutePlanner, for any network of gates.                                 *)
(***************************************************************************)
EXTENDS PolledViews, RoutePlanner, FiniteSums

-------------------------------------------------------------------------------
\* A read with a guard runs alone, or begins only when the one before it ended.
Exclusive(f) == f.guard => f.alone \/ (f.again \in {"never", "rerun"} /\ ~f.pauses)

LEMMA GuardedAreExclusive == \A n \in DOMAIN Feeds : Exclusive(Feeds[n])
<1>1. /\ Exclusive(useFrontierWardenData) /\ Exclusive(useHealth)
  BY DEF Exclusive, useFrontierWardenData, useHealth, Polling, Ticking, Opening
<1>2. /\ Exclusive(useEveWorldStatus) /\ Exclusive(useEveSystemNames)
  BY DEF Exclusive, useEveWorldStatus, useEveSystemNames, Cancelled, Opening
<1>3. Exclusive(withdrawals) /\ Exclusive(traffic) /\ Exclusive(passages)
  BY DEF Exclusive, withdrawals, traffic, passages, Cancelled, OfKey, Opening
<1>4. /\ Exclusive(useAttestations) /\ Exclusive(useLeaderboard)
      /\ Exclusive(useTribeStandings) /\ Exclusive(useScores)
  BY DEF Exclusive, useAttestations, useLeaderboard, useTribeStandings, useScores,
         TickingOfKey, Ticking, Opening
<1>5. /\ Exclusive(useIntel) /\ Exclusive(socialIdentity) /\ Exclusive(lookupProfile)
      /\ Exclusive(profileCreated) /\ Exclusive(oracleCheck) /\ Exclusive(loadVouches)
  BY DEF Exclusive, useIntel, socialIdentity, lookupProfile, profileCreated, oracleCheck,
         loadVouches, OfKey, Opening
<1>6. /\ Exclusive(loadSchemas) /\ Exclusive(loadOracles) /\ Exclusive(loadFeed)
      /\ Exclusive(loadRows)
  BY DEF Exclusive, loadSchemas, loadOracles, loadFeed, loadRows, Opening
<1>7. /\ Exclusive(runLookup) /\ Exclusive(runEvaluation) /\ Exclusive(consoleIdentity)
      /\ Exclusive(dossierIdentity) /\ Exclusive(combatEvidence)
  BY DEF Exclusive, runLookup, runEvaluation, consoleIdentity, dossierIdentity,
         combatEvidence, Asking, OfKey, Opening
<1>8. QED
  BY <1>1, <1>2, <1>3, <1>4, <1>5, <1>6, <1>7 DEF Feeds

LEMMA DashboardFeed ==
  feed = "dashboard" => Feed.fails = "clear"
<1>1. useFrontierWardenData.fails = "clear"
  BY DEF useFrontierWardenData, Polling, Ticking, Opening
<1>2. QED
  BY <1>1 DEF Feed, Feeds

-------------------------------------------------------------------------------
LEMMA NothingTyped == Nothing \in Shown /\ FW_DATA \in AllFacts
<1>1. FW_DATA \in AllFacts
  BY SentinelAssumption DEF FW_DATA, AllFacts, Bindings
<1>2. 0 \in 0..MaxVersion /\ NoKey \in Keys
  BY ViewsAssumption DEF Keys
<1>3. QED
  BY <1>1, <1>2 DEF Nothing, Shown

\* A read that begins is typed if there is room for it, and the others stay.
LEMMA BeganTyped ==
  ASSUME NEW rs \in SUBSET Read, HasRoom(rs), NEW k \in Keys, NEW h \in BOOLEAN
  PROVE  Began(rs, k, h) \in SUBSET Read
<1>1. NewRead(rs, k).id \in Ids
  BY DEF NewRead, HasRoom
<1>2. NewRead(rs, k) \in Read
  BY <1>1, NothingTyped DEF NewRead, Read
<1>3. QED
  BY <1>2 DEF Began

LEMMA EndedTyped ==
  ASSUME NEW rs \in SUBSET Read
  PROVE  /\ Ended(rs) \in SUBSET Read /\ \A r \in Ended(rs) : ~r.live
         /\ HasRoom(rs) => HasRoom(Ended(rs))
<1>1. \A r \in rs : /\ [r EXCEPT !.live = FALSE] \in Read
                    /\ [r EXCEPT !.live = FALSE].live = FALSE
                    /\ [r EXCEPT !.live = FALSE].id = r.id
  BY DEF Read
<1>2. /\ \A r \in Ended(rs) : r \in Read /\ ~r.live
      /\ \A i : (\A r \in rs : r.id # i) => (\A r \in Ended(rs) : r.id # i)
  BY <1>1 DEF Ended
<1>3. QED
  BY <1>2 DEF HasRoom

\* What an answer becomes when it is shown is of the same key and state.
LEMMA MergedKeeps ==
  ASSUME NEW answer \in Shown, NEW who
  PROVE  /\ Merged(answer, who) \in Shown
         /\ Merged(answer, who).key = answer.key /\ Merged(answer, who).ver = answer.ver
         /\ who = Nothing => Merged(answer, who).facts.named = {}
<1>1. answer.facts \in AllFacts
  BY DEF Shown
<1> DEFINE bare == [answer.facts EXCEPT !.named = {}]
<1>2. bare \in AllFacts /\ bare.named = {}
  BY <1>1 DEF AllFacts
<1>3. Merged(answer, who) = IF who = Nothing THEN [answer EXCEPT !.facts = bare] ELSE answer
  BY DEF Merged
<1> HIDE DEF bare
<1>4. QED
  BY <1>2, <1>3 DEF Shown

LEMMA TypeInit == Init => TypeOK
<1> SUFFICES ASSUME Init PROVE TypeOK
  OBVIOUS
<1>1. key \in Keys
  BY DEF Init, Keys
<1>2. HasRoom({})
  BY ViewsAssumption DEF HasRoom, Ids
<1>3. {} \in SUBSET Read
  OBVIOUS
<1>4. Began({}, key, FALSE) \in SUBSET Read
  BY <1>1, <1>2, <1>3, BeganTyped
<1>5. facts \in AllFacts
  BY ViewsAssumption, NothingTyped DEF Init
<1>6. /\ changes = 0 /\ version = 1 /\ writes = 0 /\ due = 0
      /\ feed \in Considered /\ hidden = FALSE /\ fault = FALSE
      /\ shown = Nothing /\ identity = Nothing
      /\ reads = IF Feed.opens THEN Began({}, key, FALSE) ELSE {}
  BY DEF Init
<1>7. 1 \in 1..MaxVersion /\ 0 \in 0..MaxWrites
  BY ViewsAssumption
<1>8. QED
  BY <1>1, <1>4, <1>5, <1>6, <1>7, NothingTyped DEF TypeOK

LEMMA TypeStep == TypeOK /\ [Next]_vars => TypeOK'
<1> SUFFICES ASSUME TypeOK, [Next]_vars PROVE TypeOK'
  OBVIOUS
<1>1. reads \in SUBSET Read /\ hidden \in BOOLEAN /\ key \in Keys
  BY DEF TypeOK
<1>2. ASSUME NEW k \in Keys, ChangeKey(k)
      PROVE  TypeOK'
  <2>1. Ended(reads) \in SUBSET Read /\ HasRoom(Ended(reads))
    BY <1>1, <1>2, EndedTyped DEF ChangeKey
  <2>2. reads' \in SUBSET Read
    BY <1>1, <1>2, <2>1, BeganTyped DEF ChangeKey
  <2>3. shown' \in {shown, Nothing} /\ fault' \in {fault, FALSE}
    BY <1>2 DEF ChangeKey
  <2>4. due' \in 0..MaxWrites /\ changes' \in Nat
    BY <1>2, ViewsAssumption DEF ChangeKey, TypeOK
  <2>5. key' \in Keys
    BY <1>2 DEF ChangeKey
  <2>6. QED
    BY <1>2, <2>2, <2>3, <2>4, <2>5, NothingTyped DEF ChangeKey, TypeOK
<1>3. CASE Hide
  <2>1. reads' \in SUBSET Read
    BY <1>1, <1>3, BeganTyped DEF Hide
  <2>2. changes' \in Nat /\ hidden' \in BOOLEAN
    BY <1>3 DEF Hide, TypeOK
  <2>3. QED
    BY <1>3, <2>1, <2>2 DEF Hide, pageVars, TypeOK
<1>4. CASE Tick
  BY <1>1, <1>4, BeganTyped DEF Tick, pageVars, TypeOK
<1>5. CASE Later
  <2>1. reads' \in SUBSET Read
    BY <1>1, <1>5, BeganTyped DEF Later
  <2>2. due' \in 0..MaxWrites
    BY <1>5, ViewsAssumption DEF Later, TypeOK
  <2>3. QED
    BY <1>5, <2>1, <2>2 DEF Later, pageVars, TypeOK
<1>6. ASSUME NEW n \in 1..MaxWrites, Written(n)
      PROVE  TypeOK'
  <2>1. reads' \in SUBSET Read
    <3>1. HasRoom(reads) => Ended(reads) \in SUBSET Read /\ HasRoom(Ended(reads))
      BY <1>1, EndedTyped
    <3>2. QED
      BY <1>1, <1>6, <3>1, BeganTyped DEF Written
  <2>2. writes' \in 0..MaxWrites /\ due' \in 0..MaxWrites
    BY <1>6, ViewsAssumption DEF Written, TypeOK
  <2>3. QED
    BY <1>6, <2>1, <2>2 DEF Written, pageVars, TypeOK
<1>7. ASSUME NEW f \in Known \cup {FW_DATA}, IndexMoves(f)
      PROVE  TypeOK'
  <2>1. facts' \in AllFacts
    BY <1>7, ViewsAssumption, NothingTyped DEF IndexMoves
  <2>2. version' \in 1..MaxVersion
    BY <1>7, ViewsAssumption DEF IndexMoves, TypeOK
  <2>3. QED
    BY <1>7, <2>1, <2>2 DEF IndexMoves, pageVars, TypeOK
<1>8. ASSUME NEW r \in reads, Serve(r)
      PROVE  TypeOK'
  <2> DEFINE answer == [key |-> r.key, ver |-> version, facts |-> facts]
  <2>1. r \in Read
    BY <1>1
  <2>2. answer \in Shown
    <3>1. version \in 0..MaxVersion
      BY ViewsAssumption DEF TypeOK
    <3>2. QED
      BY <2>1, <3>1 DEF Shown, Read, TypeOK
  <2> HIDE DEF answer
  <2>3. [r EXCEPT !.answer = answer] \in Read
    BY <2>1, <2>2 DEF Read
  <2>4. reads' \in SUBSET Read
    BY <1>1, <1>8, <2>3 DEF Serve, answer
  <2>5. QED
    BY <1>8, <2>4 DEF Serve, pageVars, TypeOK
<1>9. ASSUME NEW r \in reads, NEW ok \in BOOLEAN, Answer(r, ok)
      PROVE  TypeOK'
  <2>1. r.answer \in Shown
    BY <1>1 DEF Read
  <2>2. /\ shown' \in {Merged(r.answer, identity'), Nothing, shown}
        /\ identity' \in {r.answer, Nothing, identity}
    BY <1>9 DEF Answer, Identify
  <2>3. fault' \in BOOLEAN /\ reads' \in SUBSET Read
    BY <1>1, <1>9 DEF Answer, Finished, TypeOK
  <2>4. shown' \in Shown /\ identity' \in Shown
    BY <2>1, <2>2, MergedKeeps, NothingTyped DEF TypeOK
  <2>5. QED
    BY <1>9, <2>3, <2>4 DEF Answer, TypeOK
<1>10. CASE UNCHANGED vars
  BY <1>10 DEF vars, pageVars, TypeOK
<1>11. QED
  BY <1>2, <1>3, <1>4, <1>5, <1>6, <1>7, <1>8, <1>9, <1>10 DEF Next, AnswerOf

\* The page, the reads on their way and what is shown keep their types.
THEOREM TypeCorrect == Spec => []TypeOK
BY TypeInit, TypeStep, PTL DEF Spec

-------------------------------------------------------------------------------
\* At most one read of a guarded view is live, and it is for the key of the
\* moment; when it is answered, with a state no older than what is shown.
LiveIsCurrent ==
    \A r \in reads : r.live =>
        /\ r.key = key /\ \A q \in reads : q.live => q = r
        /\ r.answer.ver # 0 => /\ r.answer.key = key
                               /\ r.answer.ver >= shown.ver /\ r.answer.ver <= version

GuardInv == Feed.guard => LiveIsCurrent /\ shown.ver <= version

\* A read begins where no other is live.
LEMMA BeganAlone ==
  ASSUME NEW rs \in SUBSET Read, \A r \in rs : ~r.live, NEW k \in Keys, NEW h \in BOOLEAN
  PROVE  \A r \in Began(rs, k, h) : r.live =>
            /\ r.key = k /\ r.answer.ver = 0
            /\ \A q \in Began(rs, k, h) : q.live => q = r
<1>1. NewRead(rs, k).key = k /\ NewRead(rs, k).answer.ver = 0
  BY DEF NewRead, Nothing
<1>2. QED
  BY <1>1 DEF Began

LEMMA GuardInit == Init => GuardInv
<1> SUFFICES ASSUME Init PROVE GuardInv
  OBVIOUS
<1>1. key \in Keys /\ {} \in SUBSET Read
  BY DEF Init, Keys
<1>2. \A r \in Began({}, key, FALSE) : r.live =>
         r.key = key /\ r.answer.ver = 0 /\ \A q \in Began({}, key, FALSE) : q.live => q = r
  BY <1>1, BeganAlone
<1>3. shown.ver <= version
  BY DEF Init, Nothing
<1>4. reads = {} \/ reads = Began({}, key, FALSE)
  BY DEF Init
<1>5. QED
  BY <1>2, <1>3, <1>4 DEF GuardInv, LiveIsCurrent

\* The reads after a step, where at most a new one is live.
LEMMA FreshReads ==
  ASSUME TypeOK, GuardInv, NEW rs \in SUBSET Read, \A r \in rs : ~r.live,
         NEW k \in Keys, NEW h \in BOOLEAN, UNCHANGED <<feed, version>>,
         key' = k, reads' = rs \/ reads' = Began(rs, k, h), shown' \in {shown, Nothing}
  PROVE  GuardInv'
<1>1. \A r \in Began(rs, k, h) : r.live =>
         r.key = k /\ r.answer.ver = 0 /\ \A q \in Began(rs, k, h) : q.live => q = r
  BY BeganAlone
<1>2. Feed' = Feed
  BY DEF Feed
<1>3. Feed.guard => shown'.ver <= version'
  <2>1. Nothing.ver = 0 /\ version \in Nat
    BY ViewsAssumption DEF Nothing, TypeOK
  <2>2. QED
    BY <2>1 DEF GuardInv
<1>4. LiveIsCurrent'
  BY <1>1 DEF LiveIsCurrent
<1>5. QED
  BY <1>2, <1>3, <1>4 DEF GuardInv

\* A read that begins beside those there are.
LEMMA AnotherRead ==
  ASSUME TypeOK, GuardInv, NEW h \in BOOLEAN, UNCHANGED <<feed, version, key, shown>>,
         reads' = reads \/ reads' = Began(reads, key, h),
         Feed.guard => Feed.alone
  PROVE  GuardInv'
<1>1. Feed' = Feed
  BY DEF Feed
<1>2. CASE reads' = reads
  BY <1>1, <1>2 DEF GuardInv, LiveIsCurrent
<1>3. CASE Feed.guard /\ reads = {} /\ reads' = Began(reads, key, h)
  <2>1. \A r \in reads : ~r.live
    BY <1>3
  <2>2. key \in Keys /\ reads \in SUBSET Read
    BY DEF TypeOK
  <2>3. QED
    BY <1>3, <2>1, <2>2, FreshReads
<1>4. QED
  BY <1>1, <1>2, <1>3 DEF GuardInv, Began, MayBegin

\* Only a view that reads later has reads that are due.
DueInv == due > 0 => Feed.again = "later"

LEMMA DueInit == Init => DueInv
BY DEF Init, DueInv

LEMMA DueStep == TypeOK /\ DueInv /\ [Next]_vars => DueInv'
<1> SUFFICES ASSUME TypeOK, DueInv, [Next]_vars PROVE DueInv'
  OBVIOUS
<1>1. Feed' = Feed /\ (due' > 0 => due > 0 \/ Feed.again = "later")
  <2>1. due \in Nat
    BY ViewsAssumption DEF TypeOK
  <2>2. CASE \E k \in Keys : ChangeKey(k)
    BY <2>2 DEF ChangeKey, Feed
  <2>3. CASE Hide \/ Tick
    BY <2>3 DEF Hide, Tick, Feed
  <2>4. CASE Later
    BY <2>1, <2>4 DEF Later, Feed
  <2>5. CASE \E n \in 1..MaxWrites : Written(n)
    BY <2>5 DEF Written, Feed
  <2>6. CASE \E f \in Known \cup {FW_DATA} : IndexMoves(f)
    BY <2>6 DEF IndexMoves, Feed
  <2>7. CASE \E r \in reads : Serve(r)
    BY <2>7 DEF Serve, Feed
  <2>8. CASE \E i \in Ids : AnswerOf(i)
    BY <2>8 DEF AnswerOf, Answer, Feed
  <2>9. CASE UNCHANGED vars
    BY <2>9 DEF vars, Feed
  <2>10. QED
    BY <2>2, <2>3, <2>4, <2>5, <2>6, <2>7, <2>8, <2>9 DEF Next
<1>2. QED
  BY <1>1 DEF DueInv

LEMMA GuardStep == TypeOK /\ DueInv /\ GuardInv /\ [Next]_vars => GuardInv'
<1> SUFFICES ASSUME TypeOK, DueInv, GuardInv, [Next]_vars PROVE GuardInv'
  OBVIOUS
<1>1. /\ reads \in SUBSET Read /\ hidden \in BOOLEAN /\ key \in Keys
      /\ version \in Nat /\ version # 0 /\ shown \in Shown /\ shown.ver \in Nat
  BY ViewsAssumption DEF TypeOK, Shown
<1>2. Exclusive(Feed)
  BY ViewsAssumption, GuardedAreExclusive DEF Feed, TypeOK
<1>3. /\ Ended(reads) \in SUBSET Read /\ \A r \in Ended(reads) : ~r.live
  BY <1>1, EndedTyped
<1>4. ASSUME NEW k \in Keys, ChangeKey(k)
      PROVE  GuardInv'
  <2>1. /\ UNCHANGED <<feed, version>> /\ key' = k /\ shown' \in {shown, Nothing}
        /\ reads' = Ended(reads) \/ reads' = Began(Ended(reads), k, hidden)
    BY <1>4 DEF ChangeKey
  <2>2. QED
    BY <1>1, <1>3, <2>1, FreshReads
<1>5. CASE Hide
  <2>1. Feed.guard => Feed.alone
    BY <1>2, <1>5 DEF Exclusive, Hide
  <2>2. QED
    BY <1>5, <2>1, AnotherRead DEF Hide, pageVars
<1>6. CASE Tick \/ Later
  <2>1. Feed.guard => Feed.alone
    BY <1>2, <1>6 DEF Exclusive, Tick, Later, DueInv
  <2>2. QED
    BY <1>1, <1>6, <2>1, AnotherRead DEF Tick, Later, pageVars
<1>7. ASSUME NEW n \in 1..MaxWrites, Written(n)
      PROVE  GuardInv'
  <2>1. UNCHANGED <<feed, version, key, shown>>
    BY <1>7 DEF Written, pageVars
  <2>2. CASE reads' = reads
    BY <2>1, <2>2 DEF GuardInv, LiveIsCurrent, Feed
  <2>3. CASE reads' = Began(Ended(reads), key, hidden)
    BY <1>1, <1>3, <2>1, <2>3, FreshReads
  <2>4. QED
    BY <1>7, <2>2, <2>3 DEF Written
<1>8. ASSUME NEW f \in Known \cup {FW_DATA}, IndexMoves(f)
      PROVE  GuardInv'
  <2>1. UNCHANGED <<feed, key, reads, shown>> /\ version' = version + 1
    BY <1>8 DEF IndexMoves, pageVars
  <2>2. \A r \in reads : r.answer.ver \in Nat
    BY <1>1 DEF Read, Shown
  <2>3. QED
    BY <1>1, <2>1, <2>2 DEF GuardInv, LiveIsCurrent, Feed
<1>9. ASSUME NEW r \in reads, Serve(r)
      PROVE  GuardInv'
  <2> DEFINE new == [r EXCEPT !.answer = [key |-> r.key, ver |-> version, facts |-> facts]]
  <2>1. UNCHANGED <<feed, version, key, shown>> /\ reads' = (reads \ {r}) \cup {new}
    BY <1>9 DEF Serve, pageVars
  <2>2. new.live = r.live /\ new.key = r.key /\ new.answer.key = r.key /\ new.answer.ver = version
    BY <1>1 DEF Read
  <2> HIDE DEF new
  <2>3. CASE Feed.guard
    <3>1. shown.ver <= version /\ LiveIsCurrent
      BY <2>3 DEF GuardInv
    <3>2. LiveIsCurrent'
      BY <1>1, <2>1, <2>2, <3>1 DEF LiveIsCurrent
    <3>3. QED
      BY <2>1, <3>1, <3>2 DEF GuardInv
  <2>4. QED
    BY <2>1, <2>3 DEF GuardInv, Feed
<1>10. ASSUME NEW r \in reads, NEW ok \in BOOLEAN, Answer(r, ok)
      PROVE  GuardInv'
  <2>1. UNCHANGED <<feed, version, key>> /\ reads' = reads \ {r}
    BY <1>10 DEF Answer, Finished
  <2>2. CASE Feed.guard /\ r.live
    <3>1. shown' \in {shown, Nothing} \/ (shown'.ver = r.answer.ver /\ r.answer.ver # 0)
      <4>1. r.answer \in Shown
        BY <1>1 DEF Read
      <4>2. \/ shown' \in {shown, Nothing}
            \/ shown' = Merged(r.answer, identity') /\ r.answer.ver # 0
        BY <1>10, <2>2 DEF Answer, Counts
      <4>3. QED
        BY <4>1, <4>2, MergedKeeps
    <3>2. \A q \in reads' : ~q.live
      BY <2>1, <2>2 DEF GuardInv, LiveIsCurrent
    <3>3. shown'.ver <= version'
      BY <1>1, <2>1, <2>2, <3>1 DEF GuardInv, LiveIsCurrent, Nothing
    <3>4. QED
      BY <3>2, <3>3 DEF GuardInv, LiveIsCurrent
  <2>3. CASE Feed.guard /\ ~r.live
    <3>1. shown' = shown
      BY <1>10, <2>3 DEF Answer, Counts
    <3>2. QED
      BY <2>1, <2>3, <3>1 DEF GuardInv, LiveIsCurrent
  <2>4. QED
    BY <2>1, <2>2, <2>3 DEF GuardInv, Feed
<1>11. CASE UNCHANGED vars
  BY <1>11 DEF vars, pageVars, GuardInv, LiveIsCurrent, Feed
<1>12. QED
  BY <1>4, <1>5, <1>6, <1>7, <1>8, <1>9, <1>10, <1>11 DEF Next, AnswerOf

ViewInv == TypeOK /\ DueInv /\ GuardInv

LEMMA ViewInvariant == Spec => []ViewInv
<1>1. Init => ViewInv
  BY TypeInit, DueInit, GuardInit DEF ViewInv
<1>2. ViewInv /\ [Next]_vars => ViewInv'
  BY TypeStep, DueStep, GuardStep DEF ViewInv
<1>3. QED
  BY <1>1, <1>2, PTL DEF Spec

\* What is shown changes with an answer that counts, or is cleared.
LEMMA ShownChanges ==
  ASSUME ViewInv, [Next]_vars, Feed.guard
  PROVE  \/ shown' \in {shown, Nothing}
         \/ \E r \in reads : /\ r.live /\ r.answer.ver # 0 /\ key' = key
                             /\ shown'.key = r.answer.key /\ shown'.ver = r.answer.ver
<1>1. CASE \E k \in Keys : ChangeKey(k)
  BY <1>1 DEF ChangeKey
<1>2. CASE \/ Hide \/ Tick \/ Later \/ \E n \in 1..MaxWrites : Written(n)
           \/ \E r \in reads : Serve(r)
  BY <1>2 DEF Hide, Tick, Later, Written, Serve, pageVars
<1>3. CASE \E f \in Known \cup {FW_DATA} : IndexMoves(f)
  BY <1>3 DEF IndexMoves, pageVars
<1>4. ASSUME NEW r \in reads, NEW ok \in BOOLEAN, Answer(r, ok)
      PROVE  \/ shown' \in {shown, Nothing}
             \/ /\ r.live /\ r.answer.ver # 0 /\ key' = key
                /\ shown'.key = r.answer.key /\ shown'.ver = r.answer.ver
  <2>1. r.answer \in Shown
    BY DEF ViewInv, TypeOK, Read
  <2>2. \/ shown' \in {shown, Nothing}
        \/ /\ r.live /\ r.answer.ver # 0 /\ key' = key
           /\ shown' = Merged(r.answer, identity')
    BY <1>4 DEF Answer, Counts
  <2>3. QED
    BY <2>1, <2>2, MergedKeeps
<1>5. CASE UNCHANGED vars
  BY <1>5 DEF vars, pageVars
<1>6. QED
  BY <1>1, <1>2, <1>3, <1>4, <1>5 DEF Next, AnswerOf

\* A guarded view begins to show only data of the key of the moment.
THEOREM ShowsOnlyCurrent == Spec => ShownIsCurrent
<1> DEFINE A == Feed.guard /\ shown' # shown /\ shown' # Nothing => shown'.key = key'
<1>1. ViewInv /\ [Next]_vars => A
  <2> SUFFICES ASSUME ViewInv, [Next]_vars, Feed.guard, shown' # shown, shown' # Nothing
               PROVE  shown'.key = key'
    OBVIOUS
  <2>1. PICK r \in reads : r.live /\ r.answer.ver # 0 /\ key' = key /\ shown'.key = r.answer.key
    BY ShownChanges
  <2>2. QED
    BY <2>1 DEF ViewInv, GuardInv, LiveIsCurrent
<1> HIDE DEF A
<1>2. ViewInv /\ [Next]_vars => [A]_vars
  BY <1>1
<1>3. Spec => [][A]_vars
  BY <1>2, ViewInvariant, PTL DEF Spec
<1>4. QED
  BY <1>3 DEF A, ShownIsCurrent

\* A guarded view never goes back to an older state of the indexer.
THEOREM ShowsNothingOlder == Spec => ShownNeverGoesBack
<1> DEFINE A == Feed.guard /\ shown.key = shown'.key /\ shown' # Nothing
                  => shown'.ver >= shown.ver
<1>1. ViewInv /\ [Next]_vars => A
  <2> SUFFICES ASSUME ViewInv, [Next]_vars, Feed.guard, shown' # Nothing
               PROVE  shown'.ver >= shown.ver
    OBVIOUS
  <2>1. CASE shown' = shown
    <3>1. shown.ver \in Nat
      BY DEF ViewInv, TypeOK, Shown
    <3>2. QED
      BY <2>1, <3>1
  <2>2. CASE \E r \in reads : r.live /\ r.answer.ver # 0 /\ shown'.ver = r.answer.ver
    BY <2>2 DEF ViewInv, GuardInv, LiveIsCurrent
  <2>3. QED
    BY <2>1, <2>2, ShownChanges
<1> HIDE DEF A
<1>2. ViewInv /\ [Next]_vars => [A]_vars
  BY <1>1
<1>3. Spec => [][A]_vars
  BY <1>2, ViewInvariant, PTL DEF Spec
<1>4. QED
  BY <1>3 DEF A, ShownNeverGoesBack

-------------------------------------------------------------------------------
\* The data and the identity of the dashboard came with one read, unless one of
\* them is nothing.
OneRead ==
    IF feed = "dashboard"
    THEN \/ shown = Nothing \/ identity = Nothing
         \/ identity.key = shown.key /\ identity.ver = shown.ver
    ELSE identity = Nothing

LEMMA OneReadInit == Init => OneRead
BY DEF Init, OneRead

LEMMA OneReadStep == OneRead /\ [Next]_vars => OneRead'
<1> SUFFICES ASSUME OneRead, [Next]_vars PROVE OneRead'
  OBVIOUS
<1>1. CASE \E k \in Keys : ChangeKey(k)
  BY <1>1 DEF ChangeKey, OneRead
<1>2. CASE \/ Hide \/ Tick \/ Later \/ \E n \in 1..MaxWrites : Written(n)
           \/ \E r \in reads : Serve(r)
  BY <1>2 DEF Hide, Tick, Later, Written, Serve, pageVars, OneRead
<1>3. CASE \E f \in Known \cup {FW_DATA} : IndexMoves(f)
  BY <1>3 DEF IndexMoves, pageVars, OneRead
<1>4. ASSUME NEW r \in reads, NEW ok \in BOOLEAN, Answer(r, ok)
      PROVE  OneRead'
  <2>1. CASE ok /\ Counts(r)
    BY <1>4, <2>1 DEF Answer, Identify, Merged, OneRead
  <2>2. CASE ~ok /\ Counts(r)
    BY <1>4, <2>2, DashboardFeed DEF Answer, Identify, OneRead
  <2>3. CASE ~Counts(r)
    BY <1>4, <2>3 DEF Answer, Identify, OneRead
  <2>4. QED
    BY <2>1, <2>2, <2>3
<1>5. CASE UNCHANGED vars
  BY <1>5 DEF vars, pageVars, OneRead
<1>6. QED
  BY <1>1, <1>2, <1>3, <1>4, <1>5 DEF Next, AnswerOf

\* A clear bill of the Sentinel needs data and an identity.
LEMMA ClearNeedsBoth ==
  ASSUME \/ CanEnforce(shown.facts, Character)
         \/ FabricStatus(shown.facts, Character) = "healthy"
         \/ OverallRisk(shown.facts, Character) = "low"
  PROVE  shown # Nothing /\ identity # Nothing
<1>1. HasConfirmedWorldGateBinding(shown.facts) /\ Character
  <2>1. CASE CanEnforce(shown.facts, Character)
    BY <2>1 DEF CanEnforce, Blockers
  <2>2. CASE Risks(shown.facts, Character) = {}
    BY <2>2 DEF Risks
  <2>3. QED
    BY <2>1, <2>2 DEF FabricStatus, OverallRisk
<1>2. shown # Nothing
  BY <1>1 DEF HasConfirmedWorldGateBinding, Nothing, FW_DATA
<1>3. identity # Nothing
  BY <1>1 DEF Character, Nothing, FW_DATA
<1>4. QED
  BY <1>2, <1>3

\* Enforcement, a healthy fabric and low risk are claimed only of data and an
\* identity of one and the same read (useNodeSentinel, useFrontierWardenData).
THEOREM ClearanceOfOneRead == Spec => []ClearanceRestsOnOneRead
<1>1. OneRead => ClearanceRestsOnOneRead
  BY ClearNeedsBoth DEF OneRead, ClearanceRestsOnOneRead, OfOneRead
<1>2. QED
  BY <1>1, OneReadInit, OneReadStep, PTL DEF Spec

\* Data that name a character stand beside an identity.
NamedWithIdentity == PilotNamed(shown.facts, shown.key) => identity # Nothing

LEMMA NothingNamed == ~PilotNamed(Nothing.facts, Nothing.key)
BY DEF PilotNamed, Nothing, FW_DATA

LEMMA NamedStep == TypeOK /\ NamedWithIdentity /\ [Next]_vars => NamedWithIdentity'
<1> SUFFICES ASSUME TypeOK, NamedWithIdentity, [Next]_vars PROVE NamedWithIdentity'
  OBVIOUS
<1>1. CASE UNCHANGED identity /\ shown' \in {shown, Nothing}
  <2>1. CASE shown' = shown
    BY <1>1, <2>1 DEF NamedWithIdentity
  <2>2. CASE shown' = Nothing
    BY <2>2, NothingNamed DEF NamedWithIdentity
  <2>3. QED
    BY <1>1, <2>1, <2>2
<1>2. CASE \E k \in Keys : ChangeKey(k)
  BY <1>1, <1>2 DEF ChangeKey
<1>3. CASE \/ Hide \/ Tick \/ Later \/ \E n \in 1..MaxWrites : Written(n)
           \/ \E r \in reads : Serve(r)
  BY <1>1, <1>3 DEF Hide, Tick, Later, Written, Serve, pageVars
<1>4. CASE \E f \in Known \cup {FW_DATA} : IndexMoves(f)
  BY <1>1, <1>4 DEF IndexMoves, pageVars
<1>5. ASSUME NEW r \in reads, NEW ok \in BOOLEAN, Answer(r, ok)
      PROVE  NamedWithIdentity'
  <2>1. CASE ok /\ Counts(r)
    <3>1. r.answer \in Shown /\ shown' = Merged(r.answer, identity')
      BY <1>5, <2>1 DEF Answer, TypeOK, Read
    <3>2. identity' = Nothing => shown'.facts.named = {}
      BY <3>1, MergedKeeps
    <3>3. QED
      BY <3>2 DEF NamedWithIdentity, PilotNamed
  <2>2. CASE ~(ok /\ Counts(r))
    <3>1. UNCHANGED identity /\ shown' \in {shown, Nothing}
      BY <1>5, <2>2 DEF Answer, Identify
    <3>2. QED
      BY <1>1, <3>1
  <2>3. QED
    BY <2>1, <2>2
<1>6. CASE UNCHANGED vars
  BY <1>1, <1>6 DEF vars, pageVars
<1>7. QED
  BY <1>2, <1>3, <1>4, <1>5, <1>6 DEF Next, AnswerOf

\* The name the recommendations go by and the identity the risks and the blockers
\* go by are one wallet's, from one read (mergeLiveData, useNodeSentinel).
THEOREM NameOfTheIdentity == Spec => []NameIsOfTheIdentity
<1>1. Init => NamedWithIdentity
  BY NothingNamed DEF Init, NamedWithIdentity
<1>2. OneRead /\ NamedWithIdentity => NameIsOfTheIdentity
  <2> SUFFICES ASSUME OneRead, NamedWithIdentity, ~RecommendsProof(shown.facts, shown.key)
               PROVE  OfOneRead
    BY DEF NameIsOfTheIdentity
  <2>1. PilotNamed(shown.facts, shown.key)
    BY DEF RecommendsProof
  <2>2. identity # Nothing /\ shown # Nothing
    BY <2>1, NothingNamed DEF NamedWithIdentity
  <2>3. QED
    BY <2>2 DEF OneRead, OfOneRead
<1>3. QED
  BY <1>1, <1>2, OneReadInit, OneReadStep, NamedStep, TypeCorrect, PTL DEF Spec

-------------------------------------------------------------------------------
(* The route planner                                                       *)

LEMMA CostsArePositive ==
  ASSUME NEW a \in Nodes, NEW b \in Nodes
  PROVE  EdgeCost(a, b) \in Nat /\ EdgeCost(a, b) >= 1
<1>1. Threats[a] \in DOMAIN THREAT_PENALTY /\ Threats[b] \in DOMAIN THREAT_PENALTY
  BY NetworkAssumption
<1>2. \A t \in DOMAIN THREAT_PENALTY : THREAT_PENALTY[t] \in Nat
  BY DEF THREAT_PENALTY
<1> QED BY <1>1, <1>2 DEF EdgeCost

LEMMA DearerBound ==
  ASSUME NEW g \in Int, NEW h \in Int, NEW v \in Int, NEW d \in Int,
         Jump * g <= Jump * h + d, h <= v
  PROVE  Jump * g <= Jump * v + d
BY DEF Jump

LEMMA FartherBound ==
  ASSUME NEW g \in Int, NEW u \in Int, NEW c \in Int, NEW d \in Int, NEW e \in Int,
         Jump * g <= Jump * u + d, d <= Jump + e, c >= 1
  PROVE  Jump * g <= Jump * (u + c) + e
BY DEF Jump

\* What holds of the first position, and of the next wherever it holds, holds of all.
LEMMA AlongPath ==
  ASSUME NEW n \in Nat, NEW S, 1 \in S,
         \A i \in 1..n - 1 : i \in S => i + 1 \in S
  PROVE  \A i \in 1..n : i \in S
<1> DEFINE T == {i \in 1..n : i \notin S}
<1> SUFFICES ASSUME T # {} PROVE FALSE
  OBVIOUS
<1>1. T \subseteq Nat
  OBVIOUS
<1>2. PICK m \in T : \A y \in T : ~(<<y, m>> \in OpToRel(<, Nat))
  <2> HIDE DEF T
  <2> QED BY <1>1, NatLessThanWellFounded, WFMin, Zenon
<1>3. m \in 1..n /\ m \notin S /\ m # 1
  OBVIOUS
<1>4. m - 1 \in 1..n - 1 /\ m - 1 \in Nat /\ m - 1 < m
  BY <1>3
<1>5. m - 1 \notin T
  <2> HIDE DEF T
  <2> QED BY <1>2, <1>4, <1>1 DEF OpToRel
<1>6. m - 1 \in S
  BY <1>4, <1>5
<1>7. (m - 1) + 1 \in S
  BY <1>4, <1>6
<1> QED BY <1>3, <1>7

\* The cost of a path up to its i-th gate.
Costs(p) == [i \in 1..Len(p) - 1 |-> EdgeCost(p[i], p[i + 1])]
Upto(p, i) == SumFunctionOnSet(Costs(p), 1..i - 1)

LEMMA CostGrows ==
  ASSUME NEW p \in Seq(Nodes), Len(p) >= 1
  PROVE  /\ Upto(p, 1) = 0
         /\ \A i \in 1..Len(p) : Upto(p, i) \in Int
         /\ \A i \in 1..Len(p) - 1 : Upto(p, i + 1) = Upto(p, i) + EdgeCost(p[i], p[i + 1])
         /\ CostOf(p) = Upto(p, Len(p))
<1> DEFINE f == Costs(p)
<1>1. \A i \in 1..Len(p) - 1 : f[i] = EdgeCost(p[i], p[i + 1]) /\ f[i] \in Int
  <2> SUFFICES ASSUME NEW i \in 1..Len(p) - 1
               PROVE  f[i] = EdgeCost(p[i], p[i + 1]) /\ f[i] \in Int
    OBVIOUS
  <2>1. p[i] \in Nodes /\ p[i + 1] \in Nodes
    OBVIOUS
  <2>2. EdgeCost(p[i], p[i + 1]) \in Int
    <3> DEFINE a == p[i]
               b == p[i + 1]
    <3>1. a \in Nodes /\ b \in Nodes
      BY <2>1
    <3> HIDE DEF a, b
    <3>2. EdgeCost(a, b) \in Nat
      BY <3>1, CostsArePositive
    <3>3. EdgeCost(a, b) \in Int
      BY <3>2
    <3> QED BY <3>3 DEF a, b
  <2>3. f[i] = EdgeCost(p[i], p[i + 1])
    BY DEF Costs
  <2> HIDE DEF f
  <2> QED BY <2>2, <2>3
<1>2. DOMAIN f = 1..Len(p) - 1
  BY DEF Costs
<1> HIDE DEF f
<1>3. ASSUME NEW i \in 1..Len(p)
      PROVE  /\ SumFunctionOnSet(f, 1..i - 1) \in Int
             /\ i - 1 = 0 => SumFunctionOnSet(f, 1..i - 1) = 0
             /\ i - 1 # 0 => SumFunctionOnSet(f, 1..i - 1)
                               = SumFunctionOnSet(f, 1..(i - 1) - 1) + f[i - 1]
  <2>1. i - 1 \in Nat /\ \A j \in 1..i - 1 : f[j] \in Int
    BY <1>1
  <2> QED BY <2>1, SumUpTo
<1>4. \A i \in 1..Len(p) : Upto(p, i) = SumFunctionOnSet(f, 1..i - 1)
  BY DEF Upto, f
<1>5. Upto(p, 1) = 0
  <2>1. 1 \in 1..Len(p) /\ 1 - 1 = 0
    OBVIOUS
  <2> QED BY <2>1, <1>3, <1>4
<1>6. ASSUME NEW i \in 1..Len(p) - 1
      PROVE  Upto(p, i + 1) = Upto(p, i) + EdgeCost(p[i], p[i + 1])
  <2>1. i + 1 \in 1..Len(p) /\ i \in 1..Len(p) /\ (i + 1) - 1 = i /\ i # 0
    OBVIOUS
  <2>2. Upto(p, i + 1) = SumFunctionOnSet(f, 1..i)
    BY <2>1, <1>4
  <2>3. SumFunctionOnSet(f, 1..i) = SumFunctionOnSet(f, 1..i - 1) + f[i]
    BY <2>1, <1>3
  <2> QED BY <1>1, <1>4, <2>1, <2>2, <2>3
<1>7. CostOf(p) = Upto(p, Len(p))
  <2>1. CostOf(p) = SumFunctionOnSet(f, 1..Len(p) - 1)
    BY <1>2 DEF CostOf, SumFunction, f, Costs
  <2> QED BY <2>1, <1>4
<1> QED BY <1>3, <1>4, <1>5, <1>6, <1>7

LEMMA Prepended ==
  ASSUME NEW p \in Seq(Nodes), NEW n \in Nodes
  PROVE  /\ <<n>> \o p \in Seq(Nodes) /\ Len(<<n>> \o p) = Len(p) + 1
         /\ (<<n>> \o p)[1] = n
         /\ \A i \in 1..Len(p) : (<<n>> \o p)[i + 1] = p[i]
OBVIOUS

-------------------------------------------------------------------------------
Reached == open \cup closed

\* Of a settled node every jump was looked at, and nothing open is nearer to the
\* destination than it was.
Settles ==
  /\ open \cap closed = {} /\ toId \notin closed
  /\ fromId \in Reached /\ gScore[fromId] = 0
  /\ \A n \in closed, m \in Nodes : MayJump(n, m) =>
       m \in Reached /\ gScore[m] <= gScore[n] + EdgeCost(n, m)
  /\ \A n \in closed, m \in open : fScore(n) <= fScore(m)

\* The way back leads along jumps that cost what the scores differ by.
LeadsBack ==
  \A m \in Nodes :
    /\ cameFrom[m] # NoNode =>
         /\ m \in Reached /\ cameFrom[m] \in closed
         /\ MayJump(cameFrom[m], m)
         /\ gScore[m] = gScore[cameFrom[m]] + EdgeCost(cameFrom[m], m)
    /\ m \in Reached /\ cameFrom[m] = NoNode => m = fromId

\* p is a way from its first gate to the destination at the cost of its jumps.
WayTo(p) ==
  /\ p \in Seq(Nodes) /\ Len(p) >= 1 /\ p[Len(p)] = toId
  /\ \A i \in 1..Len(p) : p[i] \in Reached
  /\ \A i \in 1..Len(p) - 1 :
       MayJump(p[i], p[i + 1]) /\ gScore[p[i + 1]] = gScore[p[i]] + EdgeCost(p[i], p[i + 1])

Searching == stage # "shown" => fromId # toId

Retracing ==
  stage = "retrace" =>
    Nearest(toId) /\ current \in Nodes /\ WayTo(<<current>> \o path)

Shows ==
  stage = "shown" /\ fromId # toId =>
    \/ result = NoRoute /\ open = {}
    \/ /\ Nearest(toId)
       /\ WayTo(result.path) /\ result.path[1] = fromId
       /\ result.totalCost = gScore[toId]

\* The inductive invariant of the search.
PlannerInv == PlannerTypeOK /\ Settles /\ LeadsBack /\ Searching /\ Retracing /\ Shows

\* The cost of a way is what it adds to the score.
LEMMA WayCosts ==
  ASSUME PlannerTypeOK, Settles, NEW p, WayTo(p), p[1] = fromId
  PROVE  IsRoute(p) /\ CostOf(p) = gScore[toId]
<1>1. p \in Seq(Nodes) /\ Len(p) \in Nat /\ Len(p) >= 1
  BY DEF WayTo
<1> DEFINE n == Len(p)
           S == {i \in 1..n : Upto(p, i) = gScore[p[i]]}
<1>2. 1 \in S
  BY <1>1, CostGrows DEF Settles
<1>3. ASSUME NEW i \in 1..n - 1, i \in S PROVE i + 1 \in S
  <2>1. i + 1 \in 1..n
    BY <1>1
  <2>2. /\ Upto(p, i + 1) = Upto(p, i) + EdgeCost(p[i], p[i + 1])
        /\ Upto(p, i) = gScore[p[i]]
    BY <1>1, <1>3, CostGrows
  <2>3. gScore[p[i + 1]] = gScore[p[i]] + EdgeCost(p[i], p[i + 1])
    BY DEF WayTo
  <2> QED BY <2>1, <2>2, <2>3
<1>4. \A i \in 1..n : i \in S
  <2> HIDE DEF S
  <2> QED BY <1>1, <1>2, <1>3, AlongPath
<1>5. Upto(p, n) = gScore[p[n]]
  BY <1>1, <1>4
<1> QED BY <1>1, <1>5, CostGrows DEF WayTo, IsRoute

\* Where the destination is the nearest of the open nodes, no route costs less than
\* its score: a route leaves the settled nodes at an open one, which is no nearer.
LEMMA NoRouteIsCheaper ==
  ASSUME PlannerTypeOK, Settles, Nearest(toId), NEW p, IsRoute(p)
  PROVE  gScore[toId] <= CostOf(p)
<1>1. /\ p \in Seq(Nodes) /\ Len(p) \in Nat /\ Len(p) >= 1
      /\ p[1] = fromId /\ p[Len(p)] = toId
      /\ \A i \in 1..Len(p) : p[i] \in Nodes
  BY DEF IsRoute
<1> DEFINE n == Len(p)
           Inside(i) == p[i] \in closed /\ gScore[p[i]] <= Upto(p, i)
           Outside(i) == Jump * gScore[toId] <= Jump * Upto(p, i) + Distance[p[i]][toId]
           S == {i \in 1..n : Inside(i) \/ Outside(i)}
<1>2. /\ toId \in open /\ \A m \in Reached : m \in Nodes /\ gScore[m] \in Nat
      /\ \A m \in Nodes : Distance[m][toId] \in Nat /\ Distance[toId][toId] = 0
      /\ toId \in Nodes
  <2>1. toId \in open /\ toId \in Nodes
    BY DEF Nearest, PlannerTypeOK
  <2>2. \A m \in Reached : m \in Nodes /\ gScore[m] \in Nat
    BY DEF PlannerTypeOK, Reached
  <2>3. \A m \in Nodes : Distance[m][toId] \in Nat /\ Distance[toId][toId] = 0
    BY <2>1, NetworkAssumption, DistanceAssumption
  <2> QED BY <2>1, <2>2, <2>3
<1>3. \A m \in open : Jump * gScore[toId] <= Jump * gScore[m] + Distance[m][toId]
  <2> SUFFICES ASSUME NEW m \in open
               PROVE  Jump * gScore[toId] <= Jump * gScore[m] + Distance[m][toId]
    OBVIOUS
  <2>1. fScore(toId) <= fScore(m)
    BY DEF Nearest
  <2>2. fScore(toId) = Jump * gScore[toId] /\ fScore(m) = Jump * gScore[m] + Distance[m][toId]
    <3>1. gScore[toId] \in Nat /\ Distance[toId][toId] = 0
      BY <1>2 DEF Reached
    <3> QED BY <3>1 DEF fScore, Jump
  <2> QED BY <2>1, <2>2
<1>4. 1 \in S
  <2>1. Upto(p, 1) = 0 /\ gScore[p[1]] = 0 /\ p[1] \in Reached
    BY <1>1, CostGrows DEF Settles
  <2>2. CASE p[1] \in closed
    BY <1>1, <2>1, <2>2
  <2>3. CASE p[1] \in open
    BY <1>1, <1>3, <2>1, <2>3
  <2> QED BY <2>1, <2>2, <2>3 DEF Reached
<1>5. ASSUME NEW i \in 1..n - 1, i \in S PROVE i + 1 \in S
  <2> DEFINE a == p[i]
             b == p[i + 1]
             c == EdgeCost(a, b)
             u == Upto(p, i)
             v == Upto(p, i + 1)
  <2>1. i \in 1..n /\ i + 1 \in 1..n /\ a \in Nodes /\ b \in Nodes
    BY <1>1
  <2>2. v = u + c /\ u \in Int /\ v \in Int
    BY <1>1, <2>1, CostGrows
  <2>3. c \in Nat /\ c >= 1
    BY <2>1, CostsArePositive
  <2>4. MayJump(a, b) /\ Joined(a, b)
    BY DEF IsRoute, MayJump
  <2>5. CASE Inside(i)
    <3>1. b \in Reached /\ gScore[b] <= gScore[a] + c /\ gScore[a] \in Nat /\ gScore[b] \in Nat
      BY <1>2, <2>1, <2>4, <2>5 DEF Settles, Reached
    <3>2. gScore[a] <= u
      BY <2>5
    <3>3. gScore[b] <= v
      <4> HIDE DEF a, b, c, u, v
      <4> QED BY <2>2, <2>3, <3>1, <3>2
    <3>4. CASE b \in closed
      BY <2>1, <3>3, <3>4
    <3>5. CASE b \in open
      <4>1. Jump * gScore[toId] <= Jump * gScore[b] + Distance[b][toId]
        BY <1>3, <3>5
      <4>2. Distance[b][toId] \in Nat /\ gScore[toId] \in Nat
        BY <1>2, <2>1 DEF Reached
      <4>3. Jump * gScore[toId] <= Jump * v + Distance[b][toId]
        <5>1. gScore[b] \in Int /\ v \in Int /\ Distance[b][toId] \in Int /\ gScore[toId] \in Int
          BY <2>2, <3>1, <4>2
        <5> HIDE DEF b, v
        <5> QED BY <3>3, <4>1, <5>1, DearerBound
      <4> QED BY <2>1, <4>3
    <3> QED BY <3>1, <3>4, <3>5 DEF Reached
  <2>6. CASE Outside(i)
    <3>1. Distance[a][toId] <= Jump + Distance[b][toId]
      BY <1>2, <2>1, <2>4, DistanceAssumption
    <3>2. Distance[a][toId] \in Nat /\ Distance[b][toId] \in Nat /\ gScore[toId] \in Nat
      BY <1>2, <2>1 DEF Reached
    <3>3. Jump * gScore[toId] <= Jump * u + Distance[a][toId]
      BY <2>6
    <3>4. Jump * gScore[toId] <= Jump * v + Distance[b][toId]
      <4>1. /\ Distance[a][toId] \in Int /\ Distance[b][toId] \in Int /\ gScore[toId] \in Int
            /\ u \in Int /\ c \in Int /\ v = u + c
        BY <2>2, <2>3, <3>2
      <4> HIDE DEF a, b, c, u, v
      <4>2. Jump * gScore[toId] <= Jump * (u + c) + Distance[b][toId]
        BY <2>3, <3>1, <3>3, <4>1, FartherBound
      <4> QED BY <4>1, <4>2
    <3> QED BY <2>1, <3>4
  <2> QED BY <1>5, <2>5, <2>6
<1>6. n \in S
  <2>1. n \in 1..n
    BY <1>1
  <2> HIDE DEF S
  <2> QED BY <1>1, <1>4, <1>5, <2>1, AlongPath
<1>7. Outside(n)
  BY <1>1, <1>6 DEF Settles
<1>8. CostOf(p) = Upto(p, n) /\ Upto(p, n) \in Int
  BY <1>1, CostGrows
<1>9. gScore[toId] \in Nat /\ Distance[p[n]][toId] = 0
  BY <1>1, <1>2 DEF Reached
<1> QED BY <1>7, <1>8, <1>9 DEF Jump

\* Where nothing is open, the settled nodes are all that routes reach.
LEMMA NowhereToGo ==
  ASSUME PlannerTypeOK, Settles, open = {}, NEW p, IsRoute(p)
  PROVE  FALSE
<1>1. /\ p \in Seq(Nodes) /\ Len(p) \in Nat /\ Len(p) >= 1
      /\ p[1] = fromId /\ p[Len(p)] = toId
      /\ \A i \in 1..Len(p) : p[i] \in Nodes
  BY DEF IsRoute
<1> DEFINE n == Len(p)
           S == {i \in 1..n : p[i] \in closed}
<1>2. 1 \in S
  BY <1>1 DEF Settles, Reached
<1>3. ASSUME NEW i \in 1..n - 1, i \in S PROVE i + 1 \in S
  <2>1. i + 1 \in 1..n /\ MayJump(p[i], p[i + 1]) /\ p[i] \in closed /\ p[i + 1] \in Nodes
    BY <1>1, <1>3 DEF IsRoute
  <2> QED BY <2>1 DEF Settles, Reached
<1>4. \A i \in 1..n : i \in S
  <2> HIDE DEF S
  <2> QED BY <1>1, <1>2, <1>3, AlongPath
<1> QED BY <1>1, <1>4 DEF Settles

LEMMA ShowsTheCheapest ==
  ASSUME PlannerInv, NEW paths PROVE CheapestOf(paths)
<1> SUFFICES ASSUME stage = "shown", fromId # toId
             PROVE  CheapestOf(paths)
  BY DEF CheapestOf
<1>1. CASE result = NoRoute /\ open = {}
  BY <1>1, NowhereToGo DEF PlannerInv, CheapestOf
<1>2. CASE Nearest(toId) /\ WayTo(result.path) /\ result.path[1] = fromId
           /\ result.totalCost = gScore[toId]
  <2>1. IsRoute(result.path) /\ CostOf(result.path) = gScore[toId]
    BY <1>2, WayCosts DEF PlannerInv
  <2>2. \A p \in paths : IsRoute(p) => gScore[toId] <= CostOf(p)
    BY <1>2, NoRouteIsCheaper DEF PlannerInv
  <2> QED BY <1>2, <2>1, <2>2 DEF CheapestOf
<1> QED BY <1>1, <1>2 DEF PlannerInv, Shows


-------------------------------------------------------------------------------
LEMMA PlannerInvInit == PlannerInit => PlannerInv
<1> SUFFICES ASSUME PlannerInit PROVE PlannerInv
  OBVIOUS
<1>1. PlannerTypeOK
  <2>1. gScore \in [{fromId} -> Nat] /\ open \cup closed = {fromId}
    BY DEF PlannerInit
  <2>2. cameFrom \in [Nodes -> Nodes \cup {NoNode}]
    BY DEF PlannerInit
  <2>3. path \in Seq(Nodes) /\ result \in [path : Seq(Nodes), totalCost : Nat]
    BY DEF PlannerInit, NoRoute
  <2>4. fromId \in Nodes /\ toId \in Nodes /\ avoidHostile \in BOOLEAN
    BY NetworkAssumption DEF PlannerInit
  <2>5. stage \in {"search", "retrace", "shown"} /\ current = NoNode
    BY DEF PlannerInit
  <2>6. open \in SUBSET Nodes /\ closed \in SUBSET Nodes
    BY <2>4 DEF PlannerInit
  <2> QED BY <2>1, <2>2, <2>3, <2>4, <2>5, <2>6 DEF PlannerTypeOK
<1>2. Settles
  BY DEF PlannerInit, Settles, Reached
<1>3. LeadsBack
  BY DEF PlannerInit, LeadsBack, Reached
<1>4. Searching /\ Retracing
  BY DEF PlannerInit, Searching, Retracing
<1>5. Shows
  BY DEF PlannerInit, Shows
<1> QED BY <1>1, <1>2, <1>3, <1>4, <1>5 DEF PlannerInv

LEMMA BeginKeeps ==
  ASSUME NEW from \in Nodes, NEW to \in Nodes, NEW avoid \in BOOLEAN, Begin(from, to, avoid)
  PROVE  PlannerInv'
<1>1. PlannerTypeOK'
  BY NetworkAssumption DEF Begin, PlannerTypeOK, NoRoute
<1>2. Settles'
  BY DEF Begin, Settles, Reached
<1>3. LeadsBack'
  BY DEF Begin, LeadsBack, Reached
<1>4. Searching' /\ Retracing' /\ Shows'
  BY DEF Begin, Searching, Retracing, Shows
<1> QED BY <1>1, <1>2, <1>3, <1>4 DEF PlannerInv

\* The walk back and its end leave the search as it is.
LEMMA SearchStands ==
  ASSUME UNCHANGED <<inputs, search>>
  PROVE  /\ Reached' = Reached /\ (Settles => Settles') /\ (LeadsBack => LeadsBack')
         /\ (Nearest(toId) => Nearest(toId)')
         /\ \A p : WayTo(p) => WayTo(p)'
<1> USE DEF inputs, search
<1>1. \A a, b : MayJump(a, b)' <=> MayJump(a, b)
  BY DEF MayJump
<1>2. \A n : fScore(n)' = fScore(n)
  BY DEF fScore
<1>3. Reached' = Reached
  BY DEF Reached
<1>4. Settles => Settles'
  BY <1>1, <1>2, <1>3 DEF Settles
<1>5. LeadsBack => LeadsBack'
  BY <1>1, <1>3 DEF LeadsBack
<1>6. Nearest(toId) => Nearest(toId)'
  BY <1>2 DEF Nearest
<1>7. \A p : WayTo(p) => WayTo(p)'
  BY <1>1, <1>3 DEF WayTo
<1> QED BY <1>3, <1>4, <1>5, <1>6, <1>7

LEMMA ArriveKeeps ==
  ASSUME PlannerInv, Arrive PROVE PlannerInv'
<1>1. UNCHANGED <<inputs, search>> /\ UNCHANGED result /\ toId' = toId
  BY DEF Arrive, inputs
<1>2. PlannerTypeOK'
  BY DEF PlannerInv, PlannerTypeOK, Arrive, inputs, search
<1>3. Settles' /\ LeadsBack' /\ Nearest(toId)'
  BY <1>1, SearchStands DEF PlannerInv, Arrive
<1>4. fromId # toId /\ fromId' # toId'
  BY DEF Arrive, PlannerInv, Searching, inputs
<1>5. PICK w \in Seq(Nodes) : w = <<toId>>
  <2>1. toId \in Nodes
    BY DEF PlannerInv, PlannerTypeOK
  <2>2. <<toId>> \in Seq(Nodes)
    BY <2>1
  <2> QED BY <2>2
<1>6. WayTo(w)
  <2>1. toId \in Nodes /\ toId \in Reached
    BY DEF PlannerInv, PlannerTypeOK, Arrive, Nearest, Reached
  <2>2. Len(w) = 1 /\ w[1] = toId
    BY <1>5
  <2> QED BY <2>1, <2>2 DEF WayTo
<1>7. WayTo(w)'
  BY <1>1, <1>6, SearchStands
<1>8. <<current'>> \o path' = w /\ current' \in Nodes
  BY <1>5 DEF Arrive, PlannerInv, PlannerTypeOK
<1>9. WayTo(<<current>> \o path)'
  BY <1>7, <1>8 DEF WayTo
<1>10. Retracing'
  BY <1>3, <1>4, <1>8, <1>9 DEF Retracing
<1>11. Searching' /\ Shows'
  BY <1>4 DEF Searching, Shows, Arrive
<1> QED BY <1>2, <1>3, <1>10, <1>11 DEF PlannerInv

LEMMA RetraceKeeps ==
  ASSUME PlannerInv, Retrace PROVE PlannerInv'
<1>1. UNCHANGED <<inputs, search>> /\ UNCHANGED result /\ UNCHANGED stage
  BY DEF Retrace
<1>2. /\ Settles' /\ LeadsBack' /\ Nearest(toId)'
      /\ current \in Nodes /\ WayTo(<<current>> \o path)
      /\ fromId' # toId' /\ stage' = "retrace"
  <2>1. stage = "retrace" /\ stage' = "retrace" /\ fromId' = fromId /\ toId' = toId
    BY <1>1 DEF Retrace, inputs
  <2>2. Nearest(toId) /\ current \in Nodes /\ WayTo(<<current>> \o path)
    BY <2>1 DEF PlannerInv, Retracing
  <2>3. fromId # toId
    BY <2>1 DEF PlannerInv, Searching
  <2>4. Settles' /\ LeadsBack' /\ Nearest(toId)'
    BY <1>1, <2>2, SearchStands DEF PlannerInv
  <2> QED BY <2>1, <2>2, <2>3, <2>4
<1> DEFINE before == cameFrom[current]
<1>3. /\ before \in closed /\ before \in Nodes /\ before \in Reached
      /\ MayJump(before, current)
      /\ gScore[current] = gScore[before] + EdgeCost(before, current)
  BY <1>2 DEF Retrace, PlannerInv, PlannerTypeOK, LeadsBack, Reached
<1>4. PICK p \in Seq(Nodes) : p = <<current>> \o path
  BY <1>2 DEF WayTo
<1>5. WayTo(p) /\ Len(p) \in Nat /\ Len(p) >= 1 /\ p[1] = current
  BY <1>2, <1>4 DEF PlannerInv, PlannerTypeOK
<1>6. PICK w \in Seq(Nodes) : w = <<before>> \o p
  <2>1. <<before>> \o p \in Seq(Nodes)
    BY <1>3, Prepended
  <2> QED BY <2>1
<1> HIDE DEF before
<1>7. /\ Len(w) = Len(p) + 1 /\ w[1] = before
      /\ \A i \in 1..Len(p) : w[i + 1] = p[i]
  BY <1>3, <1>4, <1>6, Prepended
<1>8. WayTo(w)
  <2>1. Len(w) >= 1 /\ w[Len(w)] = toId
    <3>1. Len(p) \in 1..Len(p) /\ p[Len(p)] = toId
      BY <1>5 DEF WayTo
    <3> QED BY <1>5, <1>7, <3>1
  <2>2. ASSUME NEW i \in 1..Len(w) PROVE w[i] \in Reached
    <3>1. CASE i = 1
      BY <1>3, <1>7, <3>1
    <3>2. CASE i # 1
      <4>1. i - 1 \in 1..Len(p) /\ (i - 1) + 1 = i
        BY <1>5, <1>7, <3>2
      <4>2. w[i] = p[i - 1]
        BY <1>7, <4>1
      <4> QED BY <1>5, <4>1, <4>2 DEF WayTo
    <3> QED BY <3>1, <3>2
  <2>3. ASSUME NEW i \in 1..Len(w) - 1
        PROVE  /\ MayJump(w[i], w[i + 1])
               /\ gScore[w[i + 1]] = gScore[w[i]] + EdgeCost(w[i], w[i + 1])
    <3>1. CASE i = 1
      <4>1. w[i] = before /\ w[i + 1] = current
        <5>1. 1 \in 1..Len(p)
          BY <1>5
        <5> QED BY <1>5, <1>7, <3>1, <5>1
      <4> QED BY <1>3, <4>1
    <3>2. CASE i # 1
      <4>1. i - 1 \in 1..Len(p) - 1 /\ i - 1 \in 1..Len(p) /\ i \in 1..Len(p) /\ (i - 1) + 1 = i
        BY <1>5, <1>7, <3>2
      <4>2. w[i] = p[i - 1] /\ w[i + 1] = p[i]
        BY <1>7, <4>1
      <4>3. /\ MayJump(p[i - 1], p[(i - 1) + 1])
            /\ gScore[p[(i - 1) + 1]] = gScore[p[i - 1]] + EdgeCost(p[i - 1], p[(i - 1) + 1])
        BY <1>5, <4>1 DEF WayTo
      <4> QED BY <4>1, <4>2, <4>3
    <3> QED BY <3>1, <3>2
  <2> QED BY <2>1, <2>2, <2>3 DEF WayTo
<1>9. WayTo(w)'
  BY <1>1, <1>8, SearchStands
<1>10. <<current'>> \o path' = w /\ current' \in Nodes /\ path' \in Seq(Nodes)
  BY <1>3, <1>4, <1>6 DEF Retrace, before
<1>11. WayTo(<<current>> \o path)'
  BY <1>9, <1>10 DEF WayTo
<1>12. PlannerTypeOK'
  BY <1>1, <1>10 DEF PlannerInv, PlannerTypeOK, inputs, search
<1>13. Retracing' /\ Searching' /\ Shows'
  BY <1>2, <1>10, <1>11 DEF Retracing, Searching, Shows
<1> QED BY <1>2, <1>12, <1>13 DEF PlannerInv

LEMMA FoundKeeps ==
  ASSUME PlannerInv, Found PROVE PlannerInv'
<1>1. UNCHANGED <<inputs, search>> /\ UNCHANGED <<current, path>> /\ stage' = "shown"
  BY DEF Found
<1>2. /\ Settles' /\ LeadsBack' /\ Nearest(toId)'
      /\ current \in Nodes /\ WayTo(<<current>> \o path)
  BY <1>1, SearchStands DEF PlannerInv, Found, Retracing
<1>3. PICK w \in Seq(Nodes) : w = <<current>> \o path
  BY <1>2 DEF WayTo
<1>4. WayTo(w) /\ w[1] = current /\ 1 \in 1..Len(w)
  BY <1>2, <1>3 DEF PlannerInv, PlannerTypeOK
<1>5. current \in Reached
  BY <1>4 DEF WayTo
<1>6. current = fromId
  BY <1>2, <1>5 DEF PlannerInv, LeadsBack, Found
<1>7. WayTo(w)'
  BY <1>1, <1>4, SearchStands
<1>8. result' = [path |-> w, totalCost |-> gScore[toId]]
  BY <1>3, <1>6 DEF Found
<1>9. toId \in open
  BY DEF PlannerInv, Retracing, Found, Nearest
<1>10. gScore[toId] \in Nat
  BY <1>9 DEF PlannerInv, PlannerTypeOK
<1>11. PlannerTypeOK'
  BY <1>1, <1>8, <1>10 DEF PlannerInv, PlannerTypeOK, inputs, search
<1>12. /\ result'.path = w /\ result'.path[1] = fromId'
       /\ result'.totalCost = gScore'[toId']
  BY <1>1, <1>4, <1>6, <1>8 DEF inputs, search
<1>13. WayTo(result.path)'
  BY <1>7, <1>12 DEF WayTo
<1>14. Retracing' /\ Searching' /\ Shows'
  BY <1>1, <1>2, <1>12, <1>13 DEF Retracing, Searching, Shows
<1> QED BY <1>2, <1>11, <1>14 DEF PlannerInv

LEMMA GiveUpKeeps ==
  ASSUME PlannerInv, GiveUp PROVE PlannerInv'
<1>1. UNCHANGED <<inputs, search>> /\ stage' = "shown" /\ result' = NoRoute /\ open' = {}
  BY DEF GiveUp, search
<1>2. Settles' /\ LeadsBack'
  BY <1>1, SearchStands DEF PlannerInv
<1>3. NoRoute \in [path : Seq(Nodes), totalCost : Nat]
  BY DEF NoRoute
<1>4. PlannerTypeOK'
  BY <1>1, <1>3 DEF PlannerInv, PlannerTypeOK, inputs, search, GiveUp
<1>5. Retracing' /\ Searching' /\ Shows'
  BY <1>1 DEF Retracing, Searching, Shows
<1> QED BY <1>2, <1>4, <1>5 DEF PlannerInv

\* Arithmetic of one jump from n, of cost c, to a node at score s.
LEMMA NearerWasSettled ==
  ASSUME NEW s \in Int, NEW g \in Int, NEW c \in Int, NEW d \in Int, NEW e \in Int,
         Jump * s + d <= Jump * g + e, e <= Jump + d, c >= 1
  PROVE  s <= g + c
BY DEF Jump

LEMMA FartherIsFound ==
  ASSUME NEW g \in Int, NEW c \in Int, NEW d \in Int, NEW e \in Int,
         e <= Jump + d, c >= 1
  PROVE  Jump * g + e <= Jump * (g + c) + d
BY DEF Jump

\* The nodes that a jump from n finds, or finds a better way to.
Improves(n) ==
  {m \in Nodes \ (closed \cup {n}) :
     /\ MayJump(n, m)
     /\ m \in Reached => gScore[n] + EdgeCost(n, m) < gScore[m]}

\* What Expand does, with the scores of the nodes it does not improve.
LEMMA ExpandDoes ==
  ASSUME PlannerInv, NEW n \in Nodes, Expand(n)
  PROVE  /\ UNCHANGED <<inputs, stage, current, path, result>>
         /\ n \in open /\ n # toId /\ n \notin closed
         /\ \A m \in open : fScore(n) <= fScore(m)
         /\ open' = (open \ {n}) \cup Improves(n) /\ closed' = closed \cup {n}
         /\ Reached' = Reached \cup Improves(n)
         /\ gScore' \in [Reached' -> Nat]
         /\ \A m \in Improves(n) : gScore'[m] = gScore[n] + EdgeCost(n, m)
         /\ \A m \in Reached \ Improves(n) : gScore'[m] = gScore[m]
         /\ \A m \in Reached : gScore[m] \in Nat /\ gScore'[m] <= gScore[m]
         /\ cameFrom' = [m \in Nodes |-> IF m \in Improves(n) THEN n ELSE cameFrom[m]]
<1>1. DOMAIN gScore = Reached
  BY DEF PlannerInv, PlannerTypeOK, Reached
<1>2. /\ UNCHANGED <<inputs, stage, current, path, result>>
      /\ n \in open /\ n # toId
      /\ \A m \in open : fScore(n) <= fScore(m)
      /\ open' = (open \ {n}) \cup Improves(n) /\ closed' = closed \cup {n}
      /\ gScore' = [m \in Reached \cup Improves(n) |->
                      IF m \in Improves(n) THEN gScore[n] + EdgeCost(n, m) ELSE gScore[m]]
      /\ cameFrom' = [m \in Nodes |-> IF m \in Improves(n) THEN n ELSE cameFrom[m]]
  BY <1>1 DEF Expand, Improves, Nearest
<1>3. n \notin closed /\ n \in Reached
  BY <1>2 DEF PlannerInv, Settles, Reached
<1>4. Reached' = Reached \cup Improves(n)
  BY <1>2, <1>3 DEF Reached
<1>5. \A m \in Reached : gScore[m] \in Nat
  BY DEF PlannerInv, PlannerTypeOK, Reached
<1>6. /\ Improves(n) \subseteq Nodes
      /\ \A m \in Improves(n) : gScore[n] + EdgeCost(n, m) \in Nat
      /\ \A m \in Improves(n) \cap Reached : gScore[n] + EdgeCost(n, m) < gScore[m]
  <2>1. Improves(n) \subseteq Nodes
    BY DEF Improves
  <2>2. \A m \in Improves(n) : EdgeCost(n, m) \in Nat
    BY <2>1, CostsArePositive
  <2>3. \A m \in Improves(n) \cap Reached : gScore[n] + EdgeCost(n, m) < gScore[m]
    BY DEF Improves
  <2> QED BY <1>3, <1>5, <2>1, <2>2, <2>3
<1>7. \A m \in Improves(n) : gScore'[m] = gScore[n] + EdgeCost(n, m)
  BY <1>2
<1>8. \A m \in Reached \ Improves(n) : gScore'[m] = gScore[m]
  BY <1>2
<1>9. \A m \in Reached : gScore'[m] <= gScore[m]
  <2> SUFFICES ASSUME NEW m \in Reached PROVE gScore'[m] <= gScore[m]
    OBVIOUS
  <2>1. CASE m \in Improves(n)
    <3>1. /\ gScore'[m] = gScore[n] + EdgeCost(n, m)
          /\ gScore[n] + EdgeCost(n, m) < gScore[m]
          /\ gScore[n] + EdgeCost(n, m) \in Nat /\ gScore[m] \in Nat
      BY <1>5, <1>6, <1>7, <2>1
    <3> QED BY <3>1
  <2>2. CASE m \notin Improves(n)
    BY <1>5, <1>8, <2>2
  <2> QED BY <2>1, <2>2
<1>10. gScore' \in [Reached' -> Nat]
  BY <1>2, <1>4, <1>5, <1>6
<1> QED BY <1>2, <1>3, <1>4, <1>5, <1>7, <1>8, <1>9, <1>10

LEMMA ExpandTypes ==
  ASSUME PlannerInv, NEW n \in Nodes, Expand(n)
  PROVE  PlannerTypeOK'
<1>1. Improves(n) \subseteq Nodes
  BY DEF Improves
<1>2. open' \in SUBSET Nodes /\ closed' \in SUBSET Nodes
  BY <1>1, ExpandDoes DEF PlannerInv, PlannerTypeOK
<1>3. gScore' \in [open' \cup closed' -> Nat]
  BY ExpandDoes DEF Reached
<1>4. cameFrom' \in [Nodes -> Nodes \cup {NoNode}]
  <2>1. cameFrom \in [Nodes -> Nodes \cup {NoNode}]
    BY DEF PlannerInv, PlannerTypeOK
  <2> QED BY <2>1, ExpandDoes
<1>5. UNCHANGED <<fromId, toId, avoidHostile, stage, current, path, result>>
  BY DEF Expand, inputs
<1> QED BY <1>2, <1>3, <1>4, <1>5 DEF PlannerInv, PlannerTypeOK

\* A settled node, n included, is no farther than n and has its score for good.
LEMMA SettledIsNearer ==
  ASSUME PlannerInv, NEW n \in Nodes, Expand(n), NEW k \in closed'
  PROVE  /\ k \in Nodes /\ k \in Reached /\ k \notin Improves(n)
         /\ gScore'[k] = gScore[k] /\ fScore(k) <= fScore(n)
<1>1. CASE k = n
  <2>1. n \in Reached /\ n \notin Improves(n)
    BY ExpandDoes DEF Reached, Improves
  <2>2. fScore(n) \in Int
    <3>1. gScore[n] \in Nat /\ Distance[n][toId] \in Nat
      <4>1. toId \in Nodes
        BY DEF PlannerInv, PlannerTypeOK
      <4> QED BY <2>1, <4>1, ExpandDoes, NetworkAssumption
    <3> QED BY <3>1 DEF fScore, Jump
  <2> QED BY <1>1, <2>1, <2>2, ExpandDoes
<1>2. CASE k \in closed
  <2>1. k \in Reached /\ k \notin Improves(n) /\ k \in Nodes
    BY <1>2 DEF Reached, Improves, PlannerInv, PlannerTypeOK
  <2>2. gScore'[k] = gScore[k]
    BY <2>1, ExpandDoes
  <2>3. fScore(k) <= fScore(n)
    BY <1>2, ExpandDoes DEF PlannerInv, Settles
  <2> QED BY <2>1, <2>2, <2>3
<1> QED BY <1>1, <1>2, ExpandDoes

LEMMA ExpandSettles ==
  ASSUME PlannerInv, NEW n \in Nodes, Expand(n)
  PROVE  Settles'
<1>1. /\ toId' = toId /\ fromId' = fromId /\ avoidHostile' = avoidHostile
      /\ n \in Reached /\ n \in Nodes /\ toId \in Nodes
  BY ExpandDoes DEF inputs, Reached, PlannerInv, PlannerTypeOK
<1>2. \A a, b : MayJump(a, b)' <=> MayJump(a, b)
  BY <1>1 DEF MayJump
<1>3. open' \cap closed' = {} /\ toId' \notin closed'
  BY <1>1, ExpandDoes DEF PlannerInv, Settles, Improves
<1>4. fromId' \in Reached' /\ gScore'[fromId'] = 0
  <2>1. fromId \in Reached /\ gScore[fromId] = 0
    BY DEF PlannerInv, Settles
  <2>2. fromId \in Reached' /\ gScore'[fromId] \in Nat /\ gScore'[fromId] <= 0
    BY <2>1, ExpandDoes
  <2>3. gScore'[fromId] = 0
    BY <2>2
  <2> QED BY <1>1, <2>2, <2>3
<1>5. ASSUME NEW k \in closed', NEW m \in Nodes, MayJump(k, m)
      PROVE  m \in Reached' /\ gScore'[m] <= gScore'[k] + EdgeCost(k, m)
  <2>1. k \in Nodes /\ k \in Reached /\ gScore'[k] = gScore[k] /\ gScore[k] \in Nat
    BY SettledIsNearer, ExpandDoes
  <2>2. EdgeCost(k, m) \in Nat /\ EdgeCost(k, m) >= 1
    BY <2>1, CostsArePositive
  <2>3. m \in Reached => gScore[m] \in Nat /\ gScore'[m] \in Nat /\ gScore'[m] <= gScore[m]
    BY ExpandDoes
  <2>4. CASE k \in closed
    <3>1. m \in Reached /\ gScore[m] <= gScore[k] + EdgeCost(k, m)
      BY <1>5, <2>4 DEF PlannerInv, Settles
    <3> QED BY <2>1, <2>2, <2>3, <3>1, ExpandDoes
  <2>5. CASE k = n
    <3>1. CASE m \in Improves(n)
      <4>1. m \in Reached' /\ gScore'[m] = gScore[n] + EdgeCost(n, m) /\ gScore'[m] \in Nat
        BY <3>1, ExpandDoes
      <4> QED BY <2>1, <2>2, <2>5, <4>1
    <3>2. CASE m \notin Improves(n) /\ m \in Reached /\ m \notin closed /\ m # n
      <4>1. ~(gScore[n] + EdgeCost(n, m) < gScore[m])
        BY <1>5, <2>5, <3>2 DEF Improves
      <4> QED BY <2>1, <2>2, <2>3, <2>5, <3>2, <4>1, ExpandDoes
    <3>3. CASE m = n
      BY <2>1, <2>2, <2>3, <2>5, <3>3, ExpandDoes
    <3>4. CASE m \in closed
      <4>1. m \in closed' /\ m \in Reached
        BY <3>4, ExpandDoes DEF Reached
      <4>2. fScore(m) <= fScore(n) /\ gScore'[m] = gScore[m]
        BY <4>1, SettledIsNearer
      <4>3. Distance[n][toId] <= Jump + Distance[m][toId]
        BY <1>1, <1>5, <2>5, DistanceAssumption DEF MayJump
      <4>4. Distance[n][toId] \in Int /\ Distance[m][toId] \in Int
        BY <1>1, NetworkAssumption
      <4> DEFINE s == gScore[m]
                 g == gScore[n]
                 c == EdgeCost(n, m)
                 d == Distance[m][toId]
                 e == Distance[n][toId]
      <4>5. Jump * s + d <= Jump * g + e /\ e <= Jump + d /\ c >= 1
        BY <2>2, <2>5, <4>2, <4>3 DEF fScore
      <4>6. s \in Int /\ g \in Int /\ c \in Int /\ d \in Int /\ e \in Int
        BY <2>1, <2>2, <2>3, <2>5, <4>1, <4>4
      <4>7. s <= g + c
        <5> HIDE DEF s, g, c, d, e
        <5> QED BY <4>5, <4>6, NearerWasSettled
      <4> QED BY <2>1, <2>5, <4>1, <4>2, <4>7, ExpandDoes
    <3>5. m \in Improves(n) \/ m \in Reached
      BY <1>1, <1>5, <2>5 DEF Improves, Reached
    <3> QED BY <3>1, <3>2, <3>3, <3>4, <3>5
  <2> QED BY <2>4, <2>5, ExpandDoes
<1>6. ASSUME NEW k \in closed', NEW m \in open'
      PROVE  Jump * gScore'[k] + Distance[k][toId] <= Jump * gScore'[m] + Distance[m][toId]
  <2>1. /\ k \in Nodes /\ gScore'[k] = gScore[k] /\ gScore[k] \in Nat
        /\ fScore(k) <= fScore(n)
    BY SettledIsNearer, ExpandDoes
  <2>2. gScore[n] \in Nat /\ m \in Nodes
    BY <1>1, ExpandDoes DEF PlannerInv, PlannerTypeOK, Improves
  <2>3. /\ Distance[k][toId] \in Nat /\ Distance[m][toId] \in Nat
        /\ Distance[n][toId] \in Nat
    BY <1>1, <2>1, <2>2, NetworkAssumption
  <2>4. Jump * gScore[k] + Distance[k][toId] <= Jump * gScore[n] + Distance[n][toId]
    BY <2>1 DEF fScore
  <2>5. CASE m \in Improves(n)
    <3>1. gScore'[m] = gScore[n] + EdgeCost(n, m)
      BY <2>5, ExpandDoes
    <3>2. Distance[n][toId] <= Jump + Distance[m][toId]
      BY <1>1, <2>2, <2>5, DistanceAssumption DEF Improves, MayJump
    <3>3. EdgeCost(n, m) \in Nat /\ EdgeCost(n, m) >= 1
      BY <2>2, CostsArePositive
    <3> DEFINE g == gScore[n]
               c == EdgeCost(n, m)
               d == Distance[m][toId]
               e == Distance[n][toId]
               x == gScore[k]
               y == Distance[k][toId]
    <3>4. /\ g \in Int /\ c \in Int /\ d \in Int /\ e \in Int /\ x \in Int /\ y \in Int
          /\ e <= Jump + d /\ c >= 1 /\ Jump * x + y <= Jump * g + e
      BY <2>1, <2>2, <2>3, <2>4, <3>2, <3>3
    <3>5. Jump * x + y <= Jump * (g + c) + d
      <4> HIDE DEF g, c, d, e, x, y
      <4>1. Jump * g + e <= Jump * (g + c) + d
        BY <3>4, FartherIsFound
      <4> QED BY <3>4, <4>1 DEF Jump
    <3> QED BY <2>1, <3>1, <3>5
  <2>6. CASE m \notin Improves(n)
    <3>1. m \in open /\ m \in Reached \ Improves(n)
      BY <2>6, ExpandDoes DEF Reached
    <3>2. gScore'[m] = gScore[m] /\ gScore[m] \in Nat /\ fScore(n) <= fScore(m)
      BY <3>1, ExpandDoes
    <3>3. Jump * gScore[n] + Distance[n][toId] <= Jump * gScore[m] + Distance[m][toId]
      BY <3>2 DEF fScore
    <3> DEFINE g == gScore[n]
               s == gScore[m]
               d == Distance[m][toId]
               e == Distance[n][toId]
               x == gScore[k]
               y == Distance[k][toId]
    <3>4. /\ g \in Int /\ s \in Int /\ d \in Int /\ e \in Int /\ x \in Int /\ y \in Int
          /\ Jump * x + y <= Jump * g + e /\ Jump * g + e <= Jump * s + d
      BY <2>1, <2>2, <2>3, <2>4, <3>2, <3>3
    <3>5. Jump * x + y <= Jump * s + d
      <4> HIDE DEF g, s, d, e, x, y
      <4> QED BY <3>4 DEF Jump
    <3> QED BY <2>1, <3>2, <3>5
  <2> QED BY <2>5, <2>6
<1>7. \A k \in closed', m \in Nodes : MayJump(k, m)' =>
        m \in Reached' /\ gScore'[m] <= gScore'[k] + EdgeCost(k, m)
  BY <1>2, <1>5
<1>8. \A k \in closed', m \in open' : fScore(k)' <= fScore(m)'
  BY <1>1, <1>6 DEF fScore
<1> QED BY <1>3, <1>4, <1>7, <1>8 DEF Settles

LEMMA ExpandLeadsBack ==
  ASSUME PlannerInv, NEW n \in Nodes, Expand(n)
  PROVE  LeadsBack'
<1>1. /\ fromId' = fromId /\ avoidHostile' = avoidHostile /\ n \in closed'
  BY ExpandDoes DEF inputs
<1>2. \A a, b : MayJump(a, b)' <=> MayJump(a, b)
  BY <1>1 DEF MayJump
<1>3. ASSUME NEW m \in Nodes, cameFrom'[m] # NoNode
      PROVE  /\ m \in Reached' /\ cameFrom'[m] \in closed'
             /\ MayJump(cameFrom'[m], m)
             /\ gScore'[m] = gScore'[cameFrom'[m]] + EdgeCost(cameFrom'[m], m)
  <2>1. CASE m \in Improves(n)
    <3>1. /\ cameFrom'[m] = n /\ m \in Reached' /\ gScore'[n] = gScore[n]
          /\ gScore'[m] = gScore[n] + EdgeCost(n, m)
      BY <1>1, <2>1, ExpandDoes, SettledIsNearer
    <3>2. MayJump(n, m)
      BY <2>1 DEF Improves
    <3> QED BY <1>1, <3>1, <3>2
  <2>2. CASE m \notin Improves(n)
    <3>1. cameFrom'[m] = cameFrom[m]
      BY <2>2, ExpandDoes
    <3>2. /\ m \in Reached /\ cameFrom[m] \in closed
          /\ MayJump(cameFrom[m], m)
          /\ gScore[m] = gScore[cameFrom[m]] + EdgeCost(cameFrom[m], m)
      BY <1>3, <3>1 DEF PlannerInv, LeadsBack
    <3>3. cameFrom[m] \in closed' /\ m \in Reached' /\ gScore'[m] = gScore[m]
      BY <2>2, <3>2, ExpandDoes
    <3>4. gScore'[cameFrom[m]] = gScore[cameFrom[m]]
      BY <3>3, SettledIsNearer
    <3> QED BY <3>1, <3>2, <3>3, <3>4
  <2> QED BY <2>1, <2>2
<1>4. ASSUME NEW m \in Nodes, m \in Reached', cameFrom'[m] = NoNode
      PROVE  m = fromId'
  <2>1. m \notin Improves(n) /\ cameFrom[m] = NoNode
    BY <1>4, ExpandDoes, NetworkAssumption
  <2>2. m \in Reached
    BY <1>4, <2>1, ExpandDoes
  <2> QED BY <1>1, <2>1, <2>2 DEF PlannerInv, LeadsBack
<1> QED BY <1>2, <1>3, <1>4 DEF LeadsBack

LEMMA ExpandKeeps ==
  ASSUME PlannerInv, NEW n \in Nodes, Expand(n)
  PROVE  PlannerInv'
<1>1. UNCHANGED <<fromId, toId, stage>> /\ stage = "search"
  BY DEF Expand, inputs
<1>2. Searching' /\ Retracing' /\ Shows'
  BY <1>1 DEF PlannerInv, Searching, Retracing, Shows
<1> QED BY <1>2, ExpandTypes, ExpandSettles, ExpandLeadsBack DEF PlannerInv

LEMMA PlannerStep ==
  PlannerInv /\ [PlannerNext]_plannerVars => PlannerInv'
<1> SUFFICES ASSUME PlannerInv, [PlannerNext]_plannerVars PROVE PlannerInv'
  OBVIOUS
<1>1. fromId \in Nodes /\ toId \in Nodes /\ avoidHostile \in BOOLEAN
  BY DEF PlannerInv, PlannerTypeOK
<1>2. CASE Arrive
  BY <1>2, ArriveKeeps
<1>3. CASE Retrace
  BY <1>3, RetraceKeeps
<1>4. CASE Found
  BY <1>4, FoundKeeps
<1>5. CASE GiveUp
  BY <1>5, GiveUpKeeps
<1>6. ASSUME NEW n \in Nodes, Expand(n) PROVE PlannerInv'
  BY <1>6, ExpandKeeps
<1>7. ASSUME NEW n \in Nodes, SetFrom(n) PROVE PlannerInv'
  BY <1>1, <1>7, BeginKeeps DEF SetFrom
<1>8. ASSUME NEW n \in Nodes, SetTo(n) PROVE PlannerInv'
  BY <1>1, <1>8, BeginKeeps DEF SetTo
<1>9. CASE ToggleAvoid
  <2>1. (~avoidHostile) \in BOOLEAN
    OBVIOUS
  <2> QED BY <1>1, <1>9, <2>1, BeginKeeps DEF ToggleAvoid
<1>10. CASE SwapEndpoints
  BY <1>1, <1>10, BeginKeeps DEF SwapEndpoints
<1>11. CASE UNCHANGED plannerVars
  <2>1. /\ UNCHANGED <<inputs, search>> /\ UNCHANGED <<stage, current, path, result>>
    BY <1>11 DEF plannerVars
  <2>2. /\ Settles' /\ LeadsBack' /\ (Nearest(toId) => Nearest(toId)')
        /\ \A p : WayTo(p) => WayTo(p)'
    BY <2>1, SearchStands DEF PlannerInv
  <2>3. PlannerTypeOK'
    BY <2>1 DEF PlannerInv, PlannerTypeOK, inputs, search
  <2>4. Searching'
    BY <2>1 DEF PlannerInv, Searching, inputs
  <2>5. stage = "retrace" => WayTo(<<current>> \o path)'
    <3> DEFINE w == <<current>> \o path
    <3>1. ASSUME stage = "retrace", NEW v, v = <<current>> \o path
          PROVE  WayTo(<<current>> \o path)'
      <4>1. WayTo(v)'
        BY <2>2, <3>1 DEF PlannerInv, Retracing
      <4>2. v = (<<current>> \o path)'
        BY <2>1, <3>1
      <4> QED BY <4>1, <4>2 DEF WayTo
    <3> QED BY <3>1
  <2>6. Retracing'
    BY <2>1, <2>2, <2>5 DEF PlannerInv, Retracing
  <2>7. WayTo(result.path) => WayTo(result.path)'
    <3>1. ASSUME WayTo(result.path), NEW v, v = result.path
          PROVE  WayTo(result.path)'
      <4>1. WayTo(v)'
        BY <2>2, <3>1
      <4>2. v = (result.path)'
        BY <2>1, <3>1
      <4> QED BY <4>1, <4>2 DEF WayTo
    <3> QED BY <3>1
  <2>8. Shows'
    BY <2>1, <2>2, <2>7 DEF PlannerInv, Shows, inputs, search
  <2> QED BY <2>2, <2>3, <2>4, <2>6, <2>8 DEF PlannerInv
<1> QED BY <1>2, <1>3, <1>4, <1>5, <1>6, <1>7, <1>8, <1>9, <1>10, <1>11 DEF PlannerNext

\* findRoute: the open and the settled nodes, the scores and the way back are as
\* the search needs them, at each of its steps and of the walk back, for any network
\* on which a jump brings a route no nearer to the destination than it costs.
THEOREM PlannerInvariant == PlannerSpec => []PlannerInv
<1>1. PlannerInit => PlannerInv
  BY PlannerInvInit
<1>2. PlannerInv /\ [PlannerNext]_plannerVars => PlannerInv'
  BY PlannerStep
<1> QED BY <1>1, <1>2, PTL DEF PlannerSpec

\* The state of the planner has its types.
THEOREM PlannerTypes == PlannerSpec => []PlannerTypeOK
<1>1. PlannerInv => PlannerTypeOK
  BY DEF PlannerInv
<1> QED BY <1>1, PlannerInvariant, PTL

\* What the page shows is a route at its true cost, and no path of any length, one
\* that passes a gate twice included, is a cheaper one; none is shown only where
\* no path is a route.
THEOREM NoPathIsCheaper == PlannerSpec => []CheapestOf(Seq(Nodes))
<1>1. PlannerInv => CheapestOf(Seq(Nodes))
  BY ShowsTheCheapest
<1> QED BY <1>1, PlannerInvariant, PTL

\* The same of the paths the runs compare a route with.
THEOREM RouteIsTheCheapest == PlannerSpec => []RouteIsCheapest
<1>1. PlannerInv => RouteIsCheapest
  BY ShowsTheCheapest DEF RouteIsCheapest
<1> QED BY <1>1, PlannerInvariant, PTL
===============================================================================
