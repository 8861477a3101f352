------------------------------ MODULE TxBuilders ------------------------------
(***************************************************************************)
(* The transactions the web client builds (frontend/src/lib/tx-*.ts), as   *)
(* far as their fate depends on them: which entries of the bundled         *)
(* environment a builder needs, which owned objects it pins at the version *)
(* it reads while it builds, and which it leaves to the wallet or the      *)
(* client to resolve.  Pure arguments (thresholds, scores, evidence) and   *)
(* shared objects do not decide whether two transactions collide, and are  *)
(* left out.                                                               *)
(***************************************************************************)

\* The entries of the environment (VITE_*) a bundle may or may not carry.
ConfigKeys == {"pkg", "gate", "adminCap", "schemas", "oracles"}

\* The kinds of owned objects a transaction takes as input.  "coin" is the
\* wallet's own SUI, which also pays the gas of a transaction it submits.
OwnedKinds == {"coin", "attestation", "adminCap", "ownerCap", "vouch", "loan"}

Builder == [needs  : SUBSET ConfigKeys,
            pins   : SUBSET OwnedKinds,   \* version and digest read here
            leaves : SUBSET OwnedKinds]   \* named by id only

\* The traveller's coin (the smallest that covers the toll) and attestation are
\* both read and pinned; the gate is shared, its version configured.
BuildCheckPassage ==
    [needs |-> {"pkg", "gate"}, pins |-> {"coin", "attestation"}, leaves |-> {}]

BuildBindWorldGate ==
    [needs |-> {"pkg", "gate"}, pins |-> {"adminCap"}, leaves |-> {}]

\* The operator chooses the policy: only the package is configured.
BuildBindOperatorGate ==
    [needs |-> {"pkg"}, pins |-> {"adminCap"}, leaves |-> {}]

\* Borrow the OwnerCap from the character, authorise, return it: the cap is read
\* to see that it exists and then named by its id.
BuildAuthorizeExtension ==
    [needs |-> {"pkg"}, pins |-> {}, leaves |-> {"ownerCap"}]

BuildGatePolicyUpdate ==
    [needs |-> {"pkg", "gate", "adminCap"}, pins |-> {"adminCap"}, leaves |-> {}]

BuildWithdrawTolls ==
    [needs |-> {"pkg", "gate", "adminCap"}, pins |-> {"adminCap"}, leaves |-> {}]

BuildCreateGate ==
    [needs |-> {"pkg"}, pins |-> {}, leaves |-> {}]

\* The client resolves the cap while it builds, so its version is pinned as well.
BuildTransferGateAdmin ==
    [needs |-> {"adminCap"}, pins |-> {"adminCap"}, leaves |-> {}]

BuildWalletAttestation ==
    [needs |-> {"pkg", "schemas", "oracles"}, pins |-> {}, leaves |-> {}]

BuildIntelAttestation ==
    [needs |-> {"pkg", "schemas", "oracles"}, pins |-> {}, leaves |-> {}]

\* Open a challenge (the stake is split from the gas coin), vote or resolve
\* (the challenge is shared; its version is read and must be one of a shared
\* object).
BuildDispute ==
    [needs |-> {"pkg", "oracles"}, pins |-> {}, leaves |-> {}]

BuildSchemaChange ==
    [needs |-> {"pkg", "schemas"}, pins |-> {}, leaves |-> {}]

BuildRegisterOracle ==
    [needs |-> {"pkg", "oracles"}, pins |-> {}, leaves |-> {}]

\* Create a vouch (the profile is shared, the stake split from the gas coin) or
\* redeem one.
BuildVouch ==
    [needs |-> {"pkg"}, pins |-> {}, leaves |-> {"vouch"}]

\* Repay a loan or mark it defaulted.
BuildLoan ==
    [needs |-> {"pkg"}, pins |-> {}, leaves |-> {"loan"}]

BuildRevokeAttestation ==
    [needs |-> {"pkg", "schemas"}, pins |-> {}, leaves |-> {"attestation"}]

BuildCreateProfile ==
    [needs |-> {"pkg"}, pins |-> {}, leaves |-> {}]

\* What the bundle lacks for a builder; a builder throws when it lacks anything.
Missing(builder, config) == builder.needs \ config
===============================================================================
