-------------------------- MODULE MCFraudChallenge --------------------------
(***************************************************************************)
(* FraudChallenge on three accounts and two challenges: the deployer, who  *)
(* is also the treasury, an account with the coins for an oracle, and one  *)
(* with the coins for two challenges.  Any of them may sit on the council, *)
(* whose sizes 1, 2 and 3 give the quorums 1 (clamped), 1 and 2.           *)
(***************************************************************************)
EXTENDS FraudChallenge, TLC

CONSTANTS adm, a1, a2

MCInitialWallet == (adm :> 5) @@ (a1 :> 15) @@ (a2 :> 5)

\* No action orders the ids of challenges.
MCSymmetry == Permutations(Challenges)
=============================================================================
