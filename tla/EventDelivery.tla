---------------------------- MODULE EventDelivery ----------------------------
(***************************************************************************)
(* What the indexer promises about the events of the chain: no event is    *)
(* handed to a projection handler for the first time before every earlier  *)
(* one of its stream was handed on or left out.  An event that is left out *)
(* may be handed on later, or never.  Streams progress independently.      *)
(***************************************************************************)
EXTENDS Integers, Sequences

CONSTANTS
  Streams,     \* one per tracked module or event type, each with its cursor
  Events,      \* the events the model tells apart
  StreamOf(_)  \* the stream that carries an event

VARIABLES
  chain,       \* every event emitted so far, oldest first
  delivered,   \* positions in the chain that were handled at least once
  omitted      \* positions that an answer of the event source left out

vars == <<chain, delivered, omitted>>

OfStream(s) == {i \in DOMAIN chain : StreamOf(chain[i]) = s}

Awaiting(s) == OfStream(s) \ (delivered \cup omitted)

Init == chain = <<>> /\ delivered = {} /\ omitted = {}

Emit ==
  /\ \E e \in Events : chain' = Append(chain, e)
  /\ UNCHANGED <<delivered, omitted>>

Deliver(s) ==
  \E i \in OfStream(s) \ delivered :
    /\ \A j \in Awaiting(s) : i <= j
    /\ delivered' = delivered \cup {i}
    /\ UNCHANGED <<chain, omitted>>

LeaveOut(s) ==
  \E gaps \in SUBSET OfStream(s) :
    /\ omitted' = omitted \cup gaps
    /\ UNCHANGED <<chain, delivered>>

Next == Emit \/ \E s \in Streams : Deliver(s) \/ LeaveOut(s)

Spec == Init /\ [][Next]_vars
=============================================================================
