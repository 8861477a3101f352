------------------------------ MODULE MCTrustGate ------------------------------
(***************************************************************************)
(* One gate and two attestations of one schema.  Nobody pays here, and     *)
(* nothing but log reads emitted.                                          *)
(***************************************************************************)
EXTENDS TrustGate, TLC

CONSTANTS t1, t2

MCInitialWallet == [x \in Accounts |-> 0]
MCAttestations == Permutations({t1, t2})
MCView == <<schemaVars, attestationVars, gateVars, profiles, log, indexVars>>
=============================================================================
