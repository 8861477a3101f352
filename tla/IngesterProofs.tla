---------------------------- MODULE IngesterProofs ----------------------------
(***************************************************************************)
(* The indexer loop keeps its types, never inserts a raw row twice, never  *)
(* stores a cursor past an event that was neither handled nor left out of  *)
(* a GraphQL answer, and delivers each stream in order: for any streams,   *)
(* events, handlers, batch size and number of restarts.  Where the         *)
(* handlers are those of GateLinks, half written links heal.               *)
(*                                                                         *)
(* StoredCursorPassesOnlyHandled is not inductive: the stored cursor comes *)
(* from the page in flight, the page from the cursor in memory, and that   *)
(* after a restart from the stored one.  IInv says of the two cursors that *)
(* every event of the stream up to them was handled or left out, and of    *)
(* the page that what is not on it any more, up to its end, was too.       *)
(***************************************************************************)
EXTENDS GateLinks, TLAPS

Passed == handled \cup omitted

\* Every event of stream s up to position n was handled or left out.
PassedUpTo(s, n) == \A i \in DOMAIN chain : InStream(i, s) /\ i <= n => i \in Passed

CursorsInv ==
  \A s \in Streams :
    /\ stored[s].at <= Len(chain) /\ PassedUpTo(s, stored[s].at)
    /\ memory[s].at <= Len(chain) /\ PassedUpTo(s, memory[s].at)

\* The page holds the events of its stream up to its end that remain.
PageInv ==
  /\ page \subseteq {i \in DOMAIN chain : InStream(i, Stream)}
  /\ stage \in {"poll", "persist"} <=> page = {}
  /\ stage # "poll" =>
       /\ last \in DOMAIN chain
       /\ \A i \in DOMAIN chain :
            InStream(i, Stream) /\ i <= last => i \in Passed \cup page
       /\ \A i \in page : i <= last

IInv == TypeOK /\ CursorsInv /\ PageInv

-----------------------------------------------------------------------------
LEMMA StreamIsOne == ASSUME TypeOK PROVE Stream \in Streams
  BY IngesterConstants DEF TypeOK, Stream, Streams

LEMMA NextTurnType == ASSUME TypeOK PROVE NextTurn \in DOMAIN StreamOrder
  <1>1. /\ StreamOrder \in Seq(Streams) /\ StreamOrder # <<>>
        /\ turn \in DOMAIN StreamOrder
    BY IngesterConstants DEF TypeOK
  <1>2. Len(StreamOrder) \in Nat \ {0} /\ DOMAIN StreamOrder = 1..Len(StreamOrder)
    BY <1>1
  <1>3. QED BY <1>1, <1>2 DEF NextTurn

LEMMA ChainDomain == ASSUME TypeOK
                     PROVE Len(chain) \in Nat /\ DOMAIN chain = 1..Len(chain)
                           /\ Len(chain) <= MaxChain /\ MaxChain \in Nat
  BY IngesterConstants DEF TypeOK

\* The invariant holds of the initial state.
LEMMA InitIInv == Init => IInv
  <1> SUFFICES ASSUME Init PROVE IInv OBVIOUS
  <1>1. StreamOrder \in Seq(Streams) /\ StreamOrder # <<>>
        /\ MaxChain \in Nat /\ MaxRestarts \in Nat
        /\ FirstModes \subseteq Modes
    BY IngesterConstants
  <1>2. 1 \in DOMAIN StreamOrder BY <1>1
  <1>3. Genesis \in Cursor BY <1>1 DEF Genesis, Cursor
  <1>4. chain = <<>> /\ Len(chain) = 0 /\ DOMAIN chain = {} BY DEF Init
  <1>5. TypeOK BY <1>1, <1>2, <1>3, <1>4 DEF Init, TypeOK, Positions
  <1>6. CursorsInv BY <1>4 DEF Init, CursorsInv, PassedUpTo, Genesis
  <1>7. PageInv BY <1>4 DEF Init, PageInv
  <1>8. QED BY <1>5, <1>6, <1>7 DEF IInv

-----------------------------------------------------------------------------
\* An event of the chain is later than every position a cursor or a page holds.
LEMMA EmitIInv == ASSUME IInv, NEW e \in Events, Emit(e) PROVE IInv'
  <1> DEFINE n == Len(chain) + 1
  <1>1. /\ chain \in Seq(Events) /\ Len(chain) \in Nat /\ DOMAIN chain = 1..Len(chain)
        /\ MaxChain \in Nat
    BY IngesterConstants DEF IInv, TypeOK
  <1>2. /\ chain' \in Seq(Events) /\ Len(chain') = n /\ DOMAIN chain' = 1..n
        /\ \A i \in DOMAIN chain : chain'[i] = chain[i]
    BY <1>1 DEF Emit
  <1>3. UNCHANGED <<raw, stored, memory, mode, turn, stage, page, last, handled,
                    omitted, restarts>>
    BY DEF Emit
  <1>4. DOMAIN chain \subseteq DOMAIN chain' /\ n \notin DOMAIN chain BY <1>1, <1>2
  <1>5. TypeOK'
    <2>1. Len(chain') <= MaxChain BY <1>1, <1>2 DEF Emit
    <2>2. page' \subseteq DOMAIN chain' /\ handled' \subseteq DOMAIN chain'
          /\ omitted' \subseteq DOMAIN chain'
      BY <1>3, <1>4 DEF IInv, TypeOK
    <2>3. QED BY <2>1, <2>2, <1>2, <1>3 DEF IInv, TypeOK
  <1>6. Passed' = Passed BY <1>3 DEF Passed
  <1>7. ASSUME NEW i \in DOMAIN chain', NEW k \in 0..Len(chain), i <= k
        PROVE  i \in DOMAIN chain /\ \A s : InStream(i, s)' <=> InStream(i, s)
    BY <1>1, <1>2, <1>4, <1>7 DEF InStream
  <1>8. CursorsInv'
    <2> SUFFICES ASSUME NEW s \in Streams
                 PROVE  /\ stored[s].at <= Len(chain') /\ PassedUpTo(s, stored[s].at)'
                        /\ memory[s].at <= Len(chain') /\ PassedUpTo(s, memory[s].at)'
      BY <1>3 DEF CursorsInv
    <2>1. stored[s].at \in 0..Len(chain) /\ memory[s].at \in 0..Len(chain)
      BY <1>1 DEF IInv, TypeOK, CursorsInv, Cursor
    <2>2. PassedUpTo(s, stored[s].at) /\ PassedUpTo(s, memory[s].at)
      BY DEF IInv, CursorsInv
    <2>3. stored' = stored /\ memory' = memory BY <1>3
    <2>4. PassedUpTo(s, stored[s].at)' BY <2>1, <2>2, <2>3, <1>6, <1>7 DEF PassedUpTo
    <2>5. PassedUpTo(s, memory[s].at)' BY <2>1, <2>2, <2>3, <1>6, <1>7 DEF PassedUpTo
    <2>6. QED BY <2>1, <2>4, <2>5, <1>1, <1>2
  <1>9. PageInv'
    <2>1. Stream' = Stream BY <1>3 DEF Stream
    <2>2. page' \subseteq {i \in DOMAIN chain' : InStream(i, Stream)'}
      BY <1>2, <1>3, <1>4, <2>1 DEF IInv, PageInv, InStream
    <2>3. ASSUME stage # "poll"
          PROVE  /\ last' \in DOMAIN chain'
                 /\ \A i \in DOMAIN chain' :
                      InStream(i, Stream)' /\ i <= last' => i \in Passed' \cup page'
                 /\ \A i \in page' : i <= last'
      <3>1. /\ last \in DOMAIN chain
            /\ \A i \in DOMAIN chain :
                 InStream(i, Stream) /\ i <= last => i \in Passed \cup page
            /\ \A i \in page : i <= last
        BY <2>3 DEF IInv, PageInv
      <3>2. last' = last /\ page' = page /\ last \in 0..Len(chain) BY <3>1, <1>1, <1>3
      <3>3. QED BY <3>1, <3>2, <2>1, <1>4, <1>6, <1>7
    <2>4. QED BY <2>1, <2>2, <2>3, <1>3 DEF IInv, PageInv
  <1>10. QED BY <1>5, <1>8, <1>9 DEF IInv

\* The page begins where the cursor in memory, or genesis, says; what an
\* answer of the GraphQL client leaves out of it is omitted.
LEMMA FetchIInv == ASSUME IInv, NEW s \in Streams, Fetch(s) PROVE IInv'
  <1> DEFINE start == StartAfter(memory[s])
             ahead == Pending(s, start)
             UpTo(end) == {i \in ahead : i <= end}
  <1>1. UNCHANGED <<chain, raw, stored, memory, mode, turn, handled, restarts>>
        /\ stage' = StageAfter(page') /\ s = Stream /\ Stream' = Stream
    BY DEF Fetch, Stream
  <1>2. PICK end \in ahead : /\ page' \in HandedOn(UpTo(end)) /\ last' = end
                             /\ omitted' = omitted \cup (UpTo(end) \ page')
    BY DEF Fetch
  <1>3. Len(chain) \in Nat /\ DOMAIN chain = 1..Len(chain) /\ Len(chain) <= MaxChain /\ MaxChain \in Nat
    BY ChainDomain DEF IInv
  <1>4. start \in 0..MaxChain /\ (start = 0 \/ start = memory[s].at)
    BY <1>3 DEF StartAfter, IInv, TypeOK, Cursor
  <1>5. end \in 0..MaxChain /\ end \in DOMAIN chain BY <1>2, <1>3 DEF Pending
  <1>6. PassedUpTo(s, start)
    BY <1>3, <1>4 DEF IInv, CursorsInv, PassedUpTo
  <1>7. page' \subseteq UpTo(end) BY <1>2 DEF HandedOn
  <1>8. UpTo(end) \subseteq DOMAIN chain /\ \A i \in UpTo(end) : InStream(i, s) /\ i <= end
    BY DEF Pending
  <1>9. stage' \in {"raw", "persist"} /\ (stage' = "persist" <=> page' = {})
    BY <1>1 DEF StageAfter
  <1>10. TypeOK'
    <2>1. page' \subseteq DOMAIN chain /\ omitted' \subseteq DOMAIN chain
      BY <1>2, <1>7, <1>8 DEF IInv, TypeOK
    <2>2. QED BY <1>1, <1>2, <1>5, <1>9, <2>1 DEF IInv, TypeOK
  <1>11. Passed \subseteq Passed' /\ UpTo(end) \subseteq Passed' \cup page'
    BY <1>1, <1>2 DEF Passed
  <1>12. CursorsInv' BY <1>1, <1>11 DEF IInv, CursorsInv, PassedUpTo, InStream
  <1>13. PageInv'
    <2>1. page' \subseteq {i \in DOMAIN chain' : InStream(i, Stream)'}
      BY <1>1, <1>7, <1>8 DEF InStream
    <2>2. ASSUME NEW i \in DOMAIN chain, InStream(i, Stream), i <= end
          PROVE  i \in Passed' \cup page'
      <3>1. CASE i <= start BY <3>1, <2>2, <1>1, <1>6, <1>11 DEF PassedUpTo
      <3>2. CASE i > start
        <4>1. i \in UpTo(end) BY <3>2, <2>2, <1>1 DEF Pending
        <4>2. QED BY <4>1, <1>11
      <3>3. QED BY <3>1, <3>2, <1>3, <1>4
    <2>3. last' \in DOMAIN chain' BY <1>1, <1>2, <1>5
    <2>4. \A i \in DOMAIN chain' :
            InStream(i, Stream)' /\ i <= last' => i \in Passed' \cup page'
      BY <1>1, <1>2, <2>2 DEF InStream
    <2>5. \A i \in page' : i <= last' BY <1>2, <1>7, <1>8
    <2>6. QED BY <2>1, <2>3, <2>4, <2>5, <1>9 DEF PageInv
  <1>14. QED BY <1>10, <1>12, <1>13 DEF IInv

LEMMA SkipIInv == ASSUME IInv, SkipStream PROVE IInv'
  <1>1. UNCHANGED <<chain, raw, stored, memory, mode, stage, page, last, handled,
                    omitted, restarts>>
        /\ stage = "poll" /\ turn' = NextTurn
    BY DEF SkipStream
  <1>2. TypeOK' BY <1>1, NextTurnType DEF IInv, TypeOK
  <1>3. CursorsInv' BY <1>1 DEF IInv, CursorsInv, PassedUpTo, InStream, Passed
  <1>4. page = {} BY <1>1 DEF IInv, PageInv
  <1>5. PageInv' BY <1>1, <1>4 DEF PageInv
  <1>6. QED BY <1>2, <1>3, <1>5 DEF IInv

-----------------------------------------------------------------------------
\* The page moves over its next event i, which is now handled.  Both RawFailed
\* and Project do this.
Advances(i) ==
  /\ handled' = handled \cup {i}
  /\ page' = page \ {i} /\ stage' = StageAfter(page')
  /\ UNCHANGED <<chain, raw, stored, memory, mode, turn, last, omitted, restarts>>

LEMMA AdvancesIInv ==
  ASSUME IInv, NEW i \in DOMAIN chain, IsCurrent(i), Advances(i),
         stage \in {"raw", "project"}
  PROVE  IInv'
  <1>1. UNCHANGED <<chain, raw, stored, memory, mode, turn, last, omitted, restarts>>
        /\ page' = page \ {i} /\ handled' = handled \cup {i} /\ Stream' = Stream
    BY DEF Advances, Stream
  <1>2. stage' \in {"raw", "persist"} /\ (stage' = "persist" <=> page' = {})
    BY DEF Advances, StageAfter
  <1>3. Passed' = Passed \cup {i} BY <1>1 DEF Passed
  <1>4. TypeOK' BY <1>1, <1>2 DEF IInv, TypeOK
  <1>5. CursorsInv' BY <1>1, <1>3 DEF IInv, CursorsInv, PassedUpTo, InStream
  <1>6. PageInv'
    <2>1. /\ last \in DOMAIN chain
          /\ \A j \in DOMAIN chain :
               InStream(j, Stream) /\ j <= last => j \in Passed \cup page
          /\ \A j \in page : j <= last
          /\ page \subseteq {j \in DOMAIN chain : InStream(j, Stream)}
      BY DEF IInv, PageInv
    <2>2. \A j \in DOMAIN chain :
            InStream(j, Stream) /\ j <= last => j \in Passed' \cup page'
      BY <2>1, <1>1, <1>3
    <2>3. QED BY <2>1, <2>2, <1>1, <1>2 DEF PageInv, InStream
  <1>7. QED BY <1>4, <1>5, <1>6 DEF IInv

LEMMA RawInsertedIInv ==
  ASSUME IInv, NEW i \in DOMAIN chain, RawInserted(i) PROVE IInv'
  <1>1. UNCHANGED <<chain, stored, memory, mode, turn, page, last, handled, omitted, restarts>>
        /\ stage = "raw" /\ raw' = InsertRaw(i) /\ stage' = "project"
        /\ Stream' = Stream
    BY DEF RawInserted, Projects, Stream
  <1>2. raw' \in [Positions -> Nat] BY <1>1 DEF IInv, TypeOK, InsertRaw
  <1>3. TypeOK' BY <1>1, <1>2 DEF IInv, TypeOK
  <1>4. CursorsInv' BY <1>1 DEF IInv, CursorsInv, PassedUpTo, InStream, Passed
  <1>5. PageInv' BY <1>1 DEF IInv, PageInv, InStream, Passed
  <1>6. QED BY <1>3, <1>4, <1>5 DEF IInv

LEMMA RawFailedIInv ==
  ASSUME IInv, NEW i \in DOMAIN chain, RawFailed(i) PROVE IInv'
  <1>1. Advances(i) BY DEF RawFailed, Advances
  <1>2. IsCurrent(i) /\ stage \in {"raw", "project"} BY DEF RawFailed
  <1>3. QED BY <1>1, <1>2, AdvancesIInv

LEMMA ProjectIInv ==
  ASSUME IInv, NEW i \in DOMAIN chain, Project(i) PROVE IInv'
  <1>1. Advances(i) BY DEF Project, Advances
  <1>2. IsCurrent(i) /\ stage \in {"raw", "project"} BY DEF Project
  <1>3. QED BY <1>1, <1>2, AdvancesIInv

\* The new cursor is the end of the page, up to which all was passed.
LEMMA PersistIInv ==
  ASSUME IInv, NEW saved \in BOOLEAN, PersistCursor(saved) PROVE IInv'
  <1>1. /\ UNCHANGED <<chain, raw, mode, page, handled, omitted, restarts>>
        /\ stage = "persist" /\ stage' = "poll" /\ turn' = NextTurn /\ last' = 0
        /\ memory' = [memory EXCEPT ![Stream] = NextCursor]
        /\ stored' = [stored EXCEPT ![Stream] = NextCursor] \/ stored' = stored
    BY DEF PersistCursor
  <1>2. /\ Len(chain) \in Nat /\ DOMAIN chain = 1..Len(chain)
        /\ Len(chain) <= MaxChain /\ MaxChain \in Nat
    BY ChainDomain DEF IInv
  <1>3. page = {} /\ last \in DOMAIN chain /\ PassedUpTo(Stream, last)
    BY <1>1 DEF IInv, PageInv, PassedUpTo
  <1>4. NextCursor \in Cursor /\ NextCursor.at = last
    BY <1>2, <1>3, IngesterConstants DEF NextCursor, Cursor, IInv, TypeOK
  <1>5. TypeOK'
    <2>1. memory' \in [Streams -> Cursor] /\ stored' \in [Streams -> Cursor]
      BY <1>1, <1>4 DEF IInv, TypeOK
    <2>2. turn' \in DOMAIN StreamOrder BY <1>1, NextTurnType DEF IInv
    <2>3. QED BY <1>1, <1>2, <2>1, <2>2 DEF IInv, TypeOK
  <1>6. CursorsInv'
    <2> SUFFICES ASSUME NEW s \in Streams
                 PROVE  /\ stored'[s].at <= Len(chain) /\ PassedUpTo(s, stored'[s].at)
                        /\ memory'[s].at <= Len(chain) /\ PassedUpTo(s, memory'[s].at)
      BY <1>1 DEF CursorsInv, PassedUpTo, InStream, Passed
    <2>1. /\ stored[s].at <= Len(chain) /\ PassedUpTo(s, stored[s].at)
          /\ memory[s].at <= Len(chain) /\ PassedUpTo(s, memory[s].at)
      BY DEF IInv, CursorsInv
    <2>2. stored'[s] \in {stored[s]} \cup (IF s = Stream THEN {NextCursor} ELSE {})
          /\ memory'[s] \in {memory[s]} \cup (IF s = Stream THEN {NextCursor} ELSE {})
      BY <1>1 DEF IInv, TypeOK
    <2>3. QED BY <2>1, <2>2, <1>2, <1>3, <1>4
  <1>7. PageInv' BY <1>1, <1>3 DEF PageInv
  <1>8. QED BY <1>5, <1>6, <1>7 DEF IInv

LEMMA RestartIInv ==
  ASSUME IInv, NEW m \in Modes, NEW unread \in SUBSET Streams, Restart(m, unread)
  PROVE  IInv'
  <1>1. /\ UNCHANGED <<chain, raw, stored, handled, omitted>>
        /\ restarts' = restarts + 1 /\ restarts < MaxRestarts /\ mode' = m
        /\ memory' = [s \in Streams |-> IF s \in unread THEN Genesis ELSE stored[s]]
        /\ turn' = 1 /\ stage' = "poll" /\ page' = {} /\ last' = 0
    BY DEF Restart
  <1>2. /\ Len(chain) \in Nat /\ DOMAIN chain = 1..Len(chain)
        /\ MaxChain \in Nat /\ MaxRestarts \in Nat
        /\ StreamOrder \in Seq(Streams) /\ StreamOrder # <<>>
    BY IngesterConstants DEF IInv, TypeOK
  <1>3. 1 \in DOMAIN StreamOrder BY <1>2
  <1>4. Genesis \in Cursor BY <1>2 DEF Genesis, Cursor
  <1>5. TypeOK' BY <1>1, <1>2, <1>3, <1>4 DEF IInv, TypeOK
  <1>6. CursorsInv'
    <2>1. \A s \in Streams : PassedUpTo(s, Genesis.at) /\ Genesis.at <= Len(chain)
      BY <1>2 DEF PassedUpTo, Genesis
    <2>2. \A s \in Streams : memory'[s] \in {Genesis, stored[s]} BY <1>1
    <2>3. QED
      BY <1>1, <2>1, <2>2 DEF IInv, CursorsInv, PassedUpTo, InStream, Passed
  <1>7. PageInv' BY <1>1 DEF PageInv
  <1>8. QED BY <1>5, <1>6, <1>7 DEF IInv

LEMMA StutterIInv == ASSUME IInv, UNCHANGED vars PROVE IInv'
  BY DEF IInv, TypeOK, CursorsInv, PageInv, PassedUpTo, InStream, Passed, Stream, vars

LEMMA NextIInv == IInv /\ [Next]_vars => IInv'
  <1> SUFFICES ASSUME IInv, [Next]_vars PROVE IInv' OBVIOUS
  <1>1. CASE \E e \in Events : Emit(e) BY <1>1, EmitIInv
  <1>2. CASE Loop
    BY <1>2, FetchIInv, SkipIInv, RawInsertedIInv, RawFailedIInv, ProjectIInv,
       PersistIInv DEF Loop
  <1>3. CASE \E m \in Modes, unread \in SUBSET Streams : Restart(m, unread)
    BY <1>3, RestartIInv
  <1>4. CASE UNCHANGED vars BY <1>4, StutterIInv
  <1>5. QED BY <1>1, <1>2, <1>3, <1>4 DEF Next

LEMMA Invariance == Spec => []IInv
  BY InitIInv, NextIInv, PTL DEF Spec

\* Type correctness.
THEOREM TypeCorrect == Spec => []TypeOK
  <1>1. IInv => TypeOK BY DEF IInv
  <1>2. QED BY <1>1, Invariance, PTL

\* After any crash the loop resumes at or before the oldest event of each stream
\* that was neither handled nor left out of a GraphQL answer, whatever reads and
\* writes of the database fail.
THEOREM NoEventIsSkipped == Spec => []StoredCursorPassesOnlyHandled
  <1>1. IInv => StoredCursorPassesOnlyHandled
    BY DEF IInv, CursorsInv, PassedUpTo, Passed, StoredCursorPassesOnlyHandled
  <1>2. QED BY <1>1, Invariance, PTL

\* raw_event_dedup keeps the raw rows unique.
THEOREM RawUnique == Spec => []RawRowsAreUnique
  <1>1. Init => RawRowsAreUnique BY DEF Init, RawRowsAreUnique
  <1>2. TypeOK /\ RawRowsAreUnique /\ [Next]_vars => RawRowsAreUnique'
    <2> SUFFICES ASSUME TypeOK, RawRowsAreUnique, [Next]_vars
                 PROVE RawRowsAreUnique'
      OBVIOUS
    <2>1. raw' = raw \/ \E i : raw' = InsertRaw(i)
      BY DEF Next, Loop, Emit, Fetch, SkipStream, RawInserted, RawFailed, Project,
             PersistCursor, Restart, vars
    <2>2. QED BY <2>1 DEF TypeOK, RawRowsAreUnique, InsertRaw
  <1>3. QED BY <1>1, <1>2, TypeCorrect, PTL DEF Spec

-----------------------------------------------------------------------------
\* The loop implements EventDelivery: the event a step handles for the first
\* time is no later than any of its stream that was neither handled nor left
\* out, and only a page of the GraphQL client leaves events out.
THEOREM Implements == Spec => DeliversInOrder
  <1>1. Init => Delivery!Init BY DEF Init, Delivery!Init
  <1>2. IInv /\ [Next]_vars => [Delivery!Next]_(Delivery!vars)
    <2> SUFFICES ASSUME IInv, [Next]_vars,
                        ~(chain' = chain /\ handled' = handled /\ omitted' = omitted)
                 PROVE Delivery!Next
      BY DEF Delivery!vars
    <2>1. CASE \E e \in Events : Emit(e)
      BY <2>1 DEF Emit, Delivery!Next, Delivery!Emit
    <2>2. ASSUME NEW i \in DOMAIN chain, IsCurrent(i), stage \in {"raw", "project"},
                 UNCHANGED <<chain, omitted>>, handled' = handled \cup {i}
          PROVE Delivery!Next
      <3>1. i \in page /\ Stream \in Streams
        BY <2>2, StreamIsOne DEF IsCurrent, IInv
      <3>2. i \notin handled BY <2>2
      <3>3. i \in Delivery!OfStream(Stream) \ handled
        BY <3>1, <3>2 DEF IInv, PageInv, Delivery!OfStream, InStream
      <3>4. ASSUME NEW j \in Delivery!Awaiting(Stream) PROVE i <= j
        <4>1. j \in DOMAIN chain /\ InStream(j, Stream) /\ j \notin Passed
          BY <3>4 DEF Delivery!Awaiting, Delivery!OfStream, InStream, Passed
        <4>2. CASE j <= last
          BY <4>1, <4>2, <2>2 DEF IInv, PageInv, IsCurrent
        <4>3. CASE j > last
          <5>1. i <= last /\ last \in DOMAIN chain BY <3>1, <2>2 DEF IInv, PageInv
          <5>2. QED BY <5>1, <4>1, <4>3, ChainDomain DEF IInv
        <4>4. QED
          BY <4>1, <4>2, <4>3, <2>2, ChainDomain DEF IInv, PageInv
      <3>5. Delivery!Deliver(Stream)
        BY <3>3, <3>4, <2>2 DEF Delivery!Deliver
      <3>6. QED BY <3>1, <3>5 DEF Delivery!Next
    <2>3. CASE \E i \in DOMAIN chain : RawFailed(i) \/ Project(i)
      BY <2>2, <2>3 DEF RawFailed, Project
    <2>4. ASSUME NEW s \in Streams, Fetch(s) PROVE Delivery!Next
      <3>1. PICK end \in Pending(s, StartAfter(memory[s])) :
              omitted' = omitted \cup
                ({i \in Pending(s, StartAfter(memory[s])) : i <= end} \ page')
        BY <2>4 DEF Fetch
      <3>2. chain' = chain /\ handled' = handled BY <2>4 DEF Fetch
      <3>3. Pending(s, StartAfter(memory[s])) \subseteq Delivery!OfStream(s)
        BY DEF Pending, InStream, Delivery!OfStream
      <3>4. Delivery!LeaveOut(s) BY <3>1, <3>2, <3>3 DEF Delivery!LeaveOut
      <3>5. QED BY <3>4 DEF Delivery!Next
    <2>5. Next => \/ \E e \in Events : Emit(e)
                  \/ \E i \in DOMAIN chain : RawFailed(i) \/ Project(i)
                  \/ \E s \in Streams : Fetch(s)
                  \/ chain' = chain /\ handled' = handled /\ omitted' = omitted
      BY DEF Next, Loop, SkipStream, RawInserted, Projects, PersistCursor, Restart
    <2>6. QED BY <2>1, <2>3, <2>4, <2>5 DEF vars
  <1>3. QED BY <1>1, <1>2, Invariance, PTL DEF Spec, Delivery!Spec, DeliversInOrder
-----------------------------------------------------------------------------
LEMMA FirstRows == EmptyRows = NoLinks
  BY ProjectsLinks

\* Only a handler writes the links, and it finds them as a handler left them.
LEMMA LinksType == Spec => [](rows \in LinkRows)
  <1>1. Init => rows \in LinkRows
    BY FirstRows DEF Init, NoLinks, LinkRows
  <1>2. TypeOK /\ rows \in LinkRows /\ [Next]_vars => (rows \in LinkRows)'
    <2> SUFFICES ASSUME TypeOK, rows \in LinkRows,
                        NEW i \in DOMAIN chain, Project(i)
                 PROVE rows' \in LinkRows
      BY DEF Next, Loop, Emit, Fetch, SkipStream, RawInserted, RawFailed,
             PersistCursor, Restart, vars
    <2>1. chain[i] \in Events BY DEF TypeOK
    <2>2. PICK done \in {{}, {"forward"}, Directions} :
             rows' = Written(rows, chain[i], done)
      BY <2>1, ProjectsLinks DEF Project, LinkOutcomes
    <2>3. QED BY <2>2 DEF Written, WrittenAs, LinkRows
  <1>3. QED BY <1>1, <1>2, TypeCorrect, PTL DEF Spec

\* A handler that runs to its end leaves both directions alike, whatever
\* earlier handlers that stopped halfway, in whichever order, have left.
THEOREM HalfWrittenHeal == Spec => []HalfWrittenLinksHeal
  <1>1. Init => HalfWrittenLinksHeal
    BY FirstRows DEF Init, NoLinks, HalfWrittenLinksHeal, Directions
  <1>2. /\ TypeOK /\ rows \in LinkRows /\ HalfWrittenLinksHeal /\ [Next]_vars
        => HalfWrittenLinksHeal'
    <2> SUFFICES ASSUME TypeOK, rows \in LinkRows,
                        NEW i \in DOMAIN chain, Project(i)
                 PROVE HalfWrittenLinksHeal'
      BY DEF Next, Loop, Emit, Fetch, SkipStream, RawInserted, RawFailed,
             PersistCursor, Restart, vars, HalfWrittenLinksHeal
    <2>1. chain[i] \in Events BY DEF TypeOK
    <2>2. PICK done \in {{}, {"forward"}, Directions} :
             rows' = Written(rows, chain[i], done)
      BY <2>1, ProjectsLinks DEF Project, LinkOutcomes
    <2>3. done \in SUBSET Directions BY DEF Directions
    <2>4. rows.link \in [Directions -> {"absent", "active", "inactive"}]
      BY DEF LinkRows
    <2>5. QED BY <2>2, <2>3, <2>4 DEF Written, WrittenAs, RowsOf, Directions,
                          HalfWrittenLinksHeal
  <1>3. QED BY <1>1, <1>2, TypeCorrect, LinksType, PTL DEF Spec

=============================================================================
