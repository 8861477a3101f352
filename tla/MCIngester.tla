------------------------------ MODULE MCIngester ------------------------------
(***************************************************************************)
(* The loop on the two streams of gate links, for one pair of gates.       *)
(***************************************************************************)
EXTENDS GateLinks
=============================================================================
