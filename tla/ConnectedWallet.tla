---------------------------- MODULE ConnectedWallet ---------------------------
(***************************************************************************)
(* The account the web client's wallet is connected with: the one thing    *)
(* the session of the operator, the panels of an operator and the hooks    *)
(* that send transactions have in common.  None of them owns it: each says *)
(* what it does when the account changes.                                  *)
(***************************************************************************)
EXTENDS Naturals

CONSTANTS
    Accounts,    \* addresses a wallet may connect
    NoAccount    \* no wallet connected

ASSUME AccountAssumption == NoAccount \notin Accounts

VARIABLE account    \* useCurrentAccount

AccountTypeOK == account \in Accounts \cup {NoAccount}
===============================================================================
