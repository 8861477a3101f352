------------------------------ MODULE MCLending ------------------------------
(***************************************************************************)
(* Lending on two accounts, two vouches and two loans.  Two accounts are   *)
(* enough for each pair of roles the code tells apart (voucher, borrower,  *)
(* lender, payer) to coincide in some behaviour and differ in another; two *)
(* vouches and two loans let one vouch back two loans and one default meet *)
(* two vouches.                                                            *)
(***************************************************************************)
EXTENDS Lending, TLC

CONSTANTS a1, a2

MCInitialWallet == (a1 :> 3) @@ (a2 :> 1)

\* No action orders ids of vouches or of loans.
MCSymmetry == Permutations(Vouches) \cup Permutations(Loans)
=============================================================================
