------------------------------- MODULE Ingester -------------------------------
(***************************************************************************)
(* The indexer loop: ingester/mod.rs, ingester/cursors.rs,                 *)
(* processor/mod.rs, processor/raw.rs and the two event sources.           *)
(*                                                                         *)
(* The loop takes the streams in turn.  A turn fetches one page after the  *)
(* stream's cursor, and for each of its events inserts the raw row and     *)
(* runs the projection handler, then writes the cursor.  The GraphQL       *)
(* client hands on only the events that came with their transaction and    *)
(* contents; the cursor passes the others all the same.  Errors of the     *)
(* database are logged and swallowed wherever they occur.  The process may *)
(* stop between any two of these steps; it then restarts from the cursors  *)
(* of the database, possibly with the other event source configured.       *)
(*                                                                         *)
(* The projection tables are the variable rows, which the loop never       *)
(* reads.  What a handler does with an event is the constant operator      *)
(* Outcomes, given a meaning by the modules that instantiate this one.     *)
(***************************************************************************)
EXTENDS Integers, Sequences, FiniteSets

CONSTANTS
  StreamOrder,     \* TRACKED_MODULES followed by the world event types
  Events,          \* the events the model tells apart
  StreamOf(_),     \* the stream that carries an event
  Happens(_, _),   \* Happens(c, e): the chain may emit e after the events c
  EmptyRows,       \* the projection tables before the first event
  Outcomes(_, _),  \* Outcomes(r, e): the tables a handler may leave, given e
  Modes,           \* values event_source_mode takes over the deployments
  FirstModes,      \* its values in the first deployment
  BatchSize,       \* batch_size, or the page limit of the event source
  MaxChain,        \* bound: events emitted
  MaxRestarts      \* bound: restarts

Streams == {StreamOrder[k] : k \in DOMAIN StreamOrder}

ASSUME IngesterConstants ==
  /\ StreamOrder \in Seq(Streams) /\ StreamOrder # <<>>
  /\ \A e \in Events : StreamOf(e) \in Streams
  /\ Modes \subseteq {"jsonrpc", "graphql"} /\ Modes # {}
  /\ FirstModes \subseteq Modes
  /\ BatchSize \in Nat \ {0}
  /\ MaxChain \in Nat /\ MaxRestarts \in Nat

VARIABLES
  chain,       \* every event emitted so far, oldest first
  rows,        \* the projection tables
  raw,         \* raw_events: how many rows hold the event at a position
  stored,      \* indexer_state: the cursor of each stream
  memory,      \* the cursor of each stream in the loop
  mode,        \* event_source_mode of this process
  turn,        \* index in StreamOrder of the stream the loop is at
  stage,       \* what the loop does next
  page,        \* events of the page that are still to handle
  last,        \* last event of the page, which the next cursor names
  handled,     \* history: positions whose handler ran or whose raw insert failed
  omitted,     \* history: positions a GraphQL answer had without transaction
               \* or contents
  restarts     \* how often the process has restarted

vars == <<chain, rows, raw, stored, memory, mode, turn, stage, page, last,
          handled, omitted, restarts>>

-----------------------------------------------------------------------------
Positions == 1..MaxChain

\* EventId: a JSON-RPC cursor names an event; a GraphQL cursor is the opaque
\* endCursor with "gql" for a sequence number.
Cursor == [source : {"none", "jsonrpc", "graphql"}, at : 0..MaxChain]
Genesis == [source |-> "none", at |-> 0]

Stream == StreamOrder[turn]
InStream(i, s) == i \in DOMAIN chain /\ StreamOf(chain[i]) = s

\* extract_gql_cursor: the GraphQL client ignores a cursor it did not make.
StartAfter(c) ==
  IF mode = "graphql" /\ c.source # "graphql" THEN 0 ELSE c.at

\* The JSON-RPC node finds no transaction with a GraphQL cursor for a digest.
Refused(c) == mode = "jsonrpc" /\ c.source = "graphql"

\* The events a page may hold: events of the stream after a position.
Pending(s, start) == {i \in DOMAIN chain : InStream(i, s) /\ i > start}

\* Mistaken: the round does not start over.
NextTurnOnce == IF turn = Len(StreamOrder) THEN turn ELSE turn + 1
NextTurn == IF turn = Len(StreamOrder) THEN 1 ELSE turn + 1

\* Mistaken: a page is handled newest first.
IsNewest(i) == i \in page /\ \A j \in page : j <= i

\* The event of the page that is handled next.
IsCurrent(i) == i \in page /\ \A j \in page : i <= j

\* map_gql_event: the events of a page that the event source hands on.
HandedOn(fetched) == IF mode = "graphql" THEN SUBSET fetched ELSE {fetched}

-----------------------------------------------------------------------------
Init ==
  /\ chain = <<>>
  /\ rows = EmptyRows
  /\ raw = [i \in Positions |-> 0]
  /\ stored = [s \in Streams |-> Genesis]
  /\ memory = [s \in Streams |-> Genesis]
  /\ mode \in FirstModes
  /\ turn = 1 /\ stage = "poll" /\ page = {} /\ last = 0
  /\ handled = {} /\ omitted = {}
  /\ restarts = 0

Emit(e) ==
  /\ Len(chain) < MaxChain
  /\ Happens(chain, e)
  /\ chain' = Append(chain, e)
  /\ UNCHANGED <<rows, raw, stored, memory, mode, turn, stage, page, last,
                 handled, omitted, restarts>>

StageAfter(rest) == IF rest = {} THEN "persist" ELSE "raw"

\* query_events, query_events_by_type: a page of events in ascending order.
Fetch(s) ==
  LET ahead == Pending(s, StartAfter(memory[s]))
      UpTo(end) == {i \in ahead : i <= end} IN
  /\ stage = "poll" /\ s = Stream
  /\ ~Refused(memory[s])
  /\ \E end \in ahead :
       /\ Cardinality(UpTo(end)) <= BatchSize
       /\ page' \in HandedOn(UpTo(end))
       /\ last' = end
       /\ omitted' = omitted \cup (UpTo(end) \ page')
  /\ stage' = StageAfter(page')
  /\ UNCHANGED <<chain, rows, raw, stored, memory, mode, turn, handled, restarts>>

\* The query failed, or its page was empty.
SkipStream ==
  /\ stage = "poll"
  /\ turn' = NextTurn
  /\ UNCHANGED <<chain, rows, raw, stored, memory, mode, stage, page, last,
                 handled, omitted, restarts>>

InsertRaw(i) == [raw EXCEPT ![i] = IF @ = 0 THEN 1 ELSE @]

\* Mistaken: an event whose raw row exists is not projected again.
ProjectsUnlessIndexed(i) == raw[i] = 0
Projects(i) == TRUE

RawInserted(i) ==
  /\ stage = "raw" /\ IsCurrent(i)
  /\ raw' = InsertRaw(i)
  /\ IF Projects(i)
     THEN stage' = "project" /\ UNCHANGED page
     ELSE page' = page \ {i} /\ stage' = StageAfter(page')
  /\ UNCHANGED <<chain, rows, stored, memory, mode, turn, last, handled, omitted, restarts>>

\* The transaction failed and was rolled back; the projection is skipped.
RawFailed(i) ==
  /\ stage = "raw" /\ IsCurrent(i)
  /\ handled' = handled \cup {i}
  /\ page' = page \ {i}
  /\ stage' = StageAfter(page')
  /\ UNCHANGED <<chain, rows, raw, stored, memory, mode, turn, last,
                 omitted, restarts>>

\* The handler ran; an error of it is among the outcomes.
Project(i) ==
  /\ stage = "project" /\ IsCurrent(i)
  /\ rows' \in Outcomes(rows, chain[i])
  /\ handled' = handled \cup {i}
  /\ page' = page \ {i}
  /\ stage' = StageAfter(page')
  /\ UNCHANGED <<chain, raw, stored, memory, mode, turn, last, omitted, restarts>>

NextCursor == [source |-> mode, at |-> last]

\* The cursor in memory moves whether or not the database took it.
PersistCursor(saved) ==
  /\ stage = "persist"
  /\ memory' = [memory EXCEPT ![Stream] = NextCursor]
  /\ stored' = IF saved THEN [stored EXCEPT ![Stream] = NextCursor] ELSE stored
  /\ stage' = "poll"
  /\ turn' = NextTurn
  /\ last' = 0
  /\ UNCHANGED <<chain, rows, raw, mode, page, handled, omitted,
                 restarts>>

\* A crash, or a new deployment; the cursors of the streams in unread cannot
\* be loaded or parsed, and those streams start from genesis.
Restart(m, unread) ==
  /\ restarts < MaxRestarts
  /\ restarts' = restarts + 1
  /\ mode' = m
  /\ memory' = [s \in Streams |-> IF s \in unread THEN Genesis ELSE stored[s]]
  /\ turn' = 1 /\ stage' = "poll" /\ page' = {} /\ last' = 0
  /\ UNCHANGED <<chain, rows, raw, stored, handled, omitted>>

Loop ==
  \/ \E s \in Streams : Fetch(s)
  \/ SkipStream
  \/ \E i \in DOMAIN chain : RawInserted(i) \/ RawFailed(i) \/ Project(i)
  \/ \E saved \in BOOLEAN : PersistCursor(saved)

Next ==
  \/ \E e \in Events : Emit(e)
  \/ Loop
  \/ \E m \in Modes, unread \in SUBSET Streams : Restart(m, unread)

Spec == Init /\ [][Next]_vars

\* The task keeps being scheduled, and a query that is retried for ever
\* succeeds some time.
Fairness ==
  /\ WF_vars(Loop)
  /\ \A s \in Streams : SF_vars(Fetch(s))

FairSpec == Spec /\ Fairness

-----------------------------------------------------------------------------
TypeOK ==
  /\ chain \in Seq(Events) /\ Len(chain) <= MaxChain
  /\ raw \in [Positions -> Nat]
  /\ stored \in [Streams -> Cursor] /\ memory \in [Streams -> Cursor]
  /\ mode \in Modes
  /\ turn \in DOMAIN StreamOrder
  /\ stage \in {"poll", "raw", "project", "persist"}
  /\ page \subseteq DOMAIN chain /\ last \in 0..MaxChain
  /\ handled \subseteq DOMAIN chain /\ omitted \subseteq DOMAIN chain
  /\ restarts \in 0..MaxRestarts

\* raw_events holds an event at most once, however often the event is fetched
\* again after a crash, an unreadable cursor or a change of the event source.
RawRowsAreUnique == \A i \in Positions : raw[i] <= 1

\* The cursor of the database never passes an event that was neither handled
\* nor left out of a GraphQL answer: after any crash the loop resumes early
\* enough.  In particular an event whose raw row was written just before the
\* crash is projected when it is fetched again.  An event that an answer left
\* out is passed, and only a restart from genesis can bring it back.
StoredCursorPassesOnlyHandled ==
  \A s \in Streams : \A i \in DOMAIN chain :
    InStream(i, s) /\ i <= stored[s].at => i \in handled \cup omitted

\* The loop delivers every stream in order, and its only gaps are the events
\* that GraphQL answers left out.
Delivery == INSTANCE EventDelivery WITH delivered <- handled
DeliversInOrder == Delivery!Spec

\* A stream the JSON-RPC source is asked to resume with a GraphQL cursor: every
\* query of it fails until the cursor is removed by hand.
Stranded(s) == Refused(memory[s])

\* Every event of the chain is handled, unless a GraphQL answer left it out or
\* its stream is stranded.
EveryEventIsHandled ==
  \A i \in Positions : i \in DOMAIN chain ~>
    \/ i \in handled \cup omitted
    \/ \E s \in Streams : InStream(i, s) /\ Stranded(s)

=============================================================================
