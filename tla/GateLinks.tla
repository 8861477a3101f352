------------------------------- MODULE GateLinks -------------------------------
(***************************************************************************)
(* The links of one pair of world gates: processor/world_topology.rs and   *)
(* world_topology.rs as the handlers of the indexer loop.  The loop polls  *)
(* each topology event type with a cursor of its own.                      *)
(***************************************************************************)
EXTENDS Ingester

Directions == {"forward", "backward"}

TopologyStreams == <<"GateLinkedEvent", "GateUnlinkedEvent">>

LinkEvents == {"GateLinkedEvent", "GateUnlinkedEvent"}
LinkStreamOf(e) == e

\* The world package links two gates that are not linked and unlinks two that
\* are.
LinkedAfter(c) == c # <<>> /\ c[Len(c)] = "GateLinkedEvent"
LinkHappens(c, e) == (e = "GateLinkedEvent") # LinkedAfter(c)

\* world_gate_links, and whether the last handler ran to its end.
NoLinks == [link |-> [d \in Directions |-> "absent"], whole |-> TRUE]

\* upsert_directed_link creates the row or refreshes it; the update of
\* mark_gate_unlinked touches a row that exists.
WrittenAs(e, row) ==
  IF e = "GateLinkedEvent" THEN "active" ELSE IF row = "absent" THEN row ELSE "inactive"

\* Mistaken: an unlink writes the row of the direction the event names.
NamedRows(e) == IF e = "GateLinkedEvent" THEN Directions ELSE {"forward"}
RowsOf(e) == Directions

Written(r, e, done) ==
  [link |-> [d \in Directions |->
              IF d \in done \cap RowsOf(e) THEN WrittenAs(e, r.link[d]) ELSE r.link[d]],
   whole |-> done = Directions]

\* The two statements of a handler run one after the other, outside of a
\* transaction: both, the first, or none take effect.
LinkOutcomes(r, e) ==
  {Written(r, e, done) : done \in {{}, {"forward"}, Directions}}

LinkRows == [link : [Directions -> {"absent", "active", "inactive"}],
             whole : BOOLEAN]

\* The loop that this module says something of projects gate links.
ASSUME ProjectsLinks ==
  /\ EmptyRows = NoLinks
  /\ \A r \in LinkRows, e \in Events : Outcomes(r, e) = LinkOutcomes(r, e)

-----------------------------------------------------------------------------
\* A pair is active in both directions or in neither, unless the handler that
\* wrote it last stopped halfway: the next event of the pair that is handled,
\* of either kind and however old, heals what a lost statement left.
HalfWrittenLinksHeal ==
  rows.whole => (rows.link["forward"] = "active" <=>
                 rows.link["backward"] = "active")
=============================================================================
