---------------------------- MODULE MCWalletActions ---------------------------
(***************************************************************************)
(* Two wallets, some of the hooks of the client, two flows.                *)
(***************************************************************************)
EXTENDS WalletActions, TLC

\* A complete bundle, and one for a visitor: no gate, no cap, no registries.
MCBundles == {ConfigKeys, {"gate"}}

MCSymmetry == Permutations(Accounts) \cup Permutations(Flows)
===============================================================================
