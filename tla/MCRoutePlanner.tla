---------------------------- MODULE MCRoutePlanner ----------------------------
(* The route planner on the network of gate-data.ts. *)
EXTENDS RoutePlanner, GateData

MCNodes == DOMAIN NODES
MCDistance == [a \in MCNodes |-> [b \in MCNodes |-> Heuristic(a, b)]]
MCDefaultTo == Len(NODES)
=============================================================================
