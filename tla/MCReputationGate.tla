--------------------------- MODULE MCReputationGate ---------------------------
(***************************************************************************)
(* One gate, one attestation and one schema between two accounts: enough   *)
(* for issuer, subject, presenter, gate owner and cap holder to be the     *)
(* same or different.                                                      *)
(***************************************************************************)
EXTENDS ReputationGate, TLC

CONSTANTS a1, a2

MCInitialWallet == (a1 :> 0) @@ (a2 :> 1)
=============================================================================
