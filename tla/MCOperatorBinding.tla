-------------------------- MODULE MCOperatorBinding ---------------------------
(***************************************************************************)
(* Two operators, of whom the first starts with both policies and with the *)
(* gate, whose OwnerCap lies with its character.  One cap may change hands *)
(* or place, or one binding or extension may change elsewhere.             *)
(***************************************************************************)
EXTENDS OperatorBinding

CONSTANT alice

MCFirstOwnership ==
    [cap   |-> [p \in Policies |-> alice],
     gate  |-> [g \in Gates |-> alice],
     place |-> [g \in Gates |-> "character"]]
===============================================================================
