------------------------------ MODULE MCSeeding ------------------------------
(* The scripts with two keys and one other owner. *)
EXTENDS Seeding
CONSTANTS deployer, other, pilot
MCKeys == {deployer, other}
MCOwners == {pilot}
=============================================================================
