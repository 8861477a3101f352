------------------------------ MODULE ActionHooks -----------------------------
(***************************************************************************)
(* The hooks through which the web client sends transactions and the       *)
(* controls of the panels that call them.                                  *)
(*                                                                         *)
(* A hook is "sponsored" (useSponsoredTransaction: the gas station pays and *)
(* the wallet co-signs) or "direct" (the wallet pays, signs and submits).  *)
(* What a panel adds is when its button starts a transaction, when a click *)
(* or a CLEAR control forgets the one shown, and whether a failure offers  *)
(* a retry.                                                                *)
(***************************************************************************)
EXTENDS TxBuilders

Busy == {"building", "sponsoring", "signing", "executing"}
Ended == {"done", "error"}
Steps == {"idle"} \cup Busy \cup Ended

-------------------------------------------------------------------------------
\* Panels.
\*   starts  the steps in which the button starts a transaction
\*   clears  the steps in which a control returns the hook to "idle"
\*   admin   only the configured holder of the GateAdminCap may click
\*   guide   the failure guide with its retry button is shown
\*   social  the button is blocked while any hook of the view is signing

GatePassagePanel ==
    [starts |-> {"idle", "error"}, clears |-> {"done"},
     admin |-> FALSE, guide |-> FALSE, social |-> FALSE]

\* The button still provisions when it reads CLEAR; DISMISS is the guide's.
GatePolicyProvisionPanel ==
    [starts |-> {"idle", "done", "error"}, clears |-> {"error"},
     admin |-> FALSE, guide |-> TRUE, social |-> FALSE]

\* Blocked while signing and executing only.
OperatorBindingPanel ==
    [starts |-> Steps \ {"signing", "executing"}, clears |-> {"error"},
     admin |-> FALSE, guide |-> TRUE, social |-> FALSE]

OperatorWorldGateBindingPanel ==
    [starts |-> Steps \ Busy, clears |-> {},
     admin |-> FALSE, guide |-> FALSE, social |-> FALSE]

OperatorExtensionAuthPanel ==
    [starts |-> Steps \ Busy, clears |-> {"error"},
     admin |-> FALSE, guide |-> TRUE, social |-> FALSE]

PolicyCommitControls ==
    [starts |-> Steps \ Busy, clears |-> {},
     admin |-> TRUE, guide |-> FALSE, social |-> FALSE]

WithdrawControls ==
    [starts |-> {"idle"}, clears |-> Ended,
     admin |-> TRUE, guide |-> FALSE, social |-> FALSE]

GateAdminTransferPanel ==
    [starts |-> {"idle"}, clears |-> Ended,
     admin |-> TRUE, guide |-> FALSE, social |-> FALSE]

\* Editing the form clears what is shown; the form is disabled while busy.
SubmitIntelForm ==
    [starts |-> Steps \ Busy, clears |-> Ended,
     admin |-> FALSE, guide |-> FALSE, social |-> FALSE]

\* Every step in progress is shown as "signing", and CLEAR is there as well.
WalletStandingIssuerPanel ==
    [starts |-> Steps \ Busy, clears |-> Steps \ {"idle"},
     admin |-> FALSE, guide |-> FALSE, social |-> FALSE]

DisputesControls ==
    [starts |-> Steps \ {"signing"}, clears |-> Steps \ {"idle"},
     admin |-> FALSE, guide |-> FALSE, social |-> FALSE]

RevokeControls == DisputesControls

SchemaControls == DisputesControls

SocialVouchPanel ==
    [starts |-> Steps \ {"signing"}, clears |-> Steps \ {"idle"},
     admin |-> FALSE, guide |-> FALSE, social |-> TRUE]

SocialLoanPanel == SocialVouchPanel

SocialOraclePanel == SocialVouchPanel

\* Not again once it is done and the indexer has not shown the profile.
SocialProfilePanel == [SocialVouchPanel EXCEPT !.starts = @ \ {"done"}]

-------------------------------------------------------------------------------
\* Hooks.
\*   view      the view that mounts it
\*   mode      "sponsored" or "direct"
\*   counted   its flows are recorded in the action telemetry
\*   twice     a FailedTransaction is recorded as failed twice
\*   noConfig  an incomplete bundle disables its button, makes it throw, show an
\*             error or fail to build

Sponsored(page, builder, panel, noConfig) ==
    [view |-> page, mode |-> "sponsored", builder |-> builder, panel |-> panel,
     counted |-> TRUE, twice |-> FALSE, noConfig |-> noConfig]

Direct(page, builder, panel, counted) ==
    [view |-> page, mode |-> "direct", builder |-> builder, panel |-> panel,
     counted |-> counted, twice |-> counted, noConfig |-> "show"]

useCheckPassage ==
    Sponsored("gates", BuildCheckPassage, GatePassagePanel, "throw")
useBindWorldGate ==
    Sponsored("gates", BuildBindWorldGate, OperatorBindingPanel, "build")
useCreateGate ==
    Sponsored("policy", BuildCreateGate, GatePolicyProvisionPanel, "throw")
useBindOperatorWorldGate ==
    Sponsored("policy", BuildBindOperatorGate, OperatorWorldGateBindingPanel,
              "show")
useAuthorizeFWExtension ==
    Sponsored("policy", BuildAuthorizeExtension, OperatorExtensionAuthPanel,
              "show")
useUpdateGatePolicy ==
    Sponsored("policy", BuildGatePolicyUpdate, PolicyCommitControls, "disabled")
useWithdrawTolls ==
    Sponsored("policy", BuildWithdrawTolls, WithdrawControls, "throw")
useTransferGateAdminCap ==
    Sponsored("policy", BuildTransferGateAdmin, GateAdminTransferPanel, "throw")
useSubmitIntel ==
    Sponsored("intel", BuildIntelAttestation, SubmitIntelForm, "build")
useWalletAttestationIssue ==
    Sponsored("social", BuildWalletAttestation, WalletStandingIssuerPanel,
              "build")

useDisputeActions == Direct("disputes", BuildDispute, DisputesControls, TRUE)
useVouchActions == Direct("social", BuildVouch, SocialVouchPanel, TRUE)
useLendingActions == Direct("social", BuildLoan, SocialLoanPanel, FALSE)
useOracleRegister == Direct("social", BuildRegisterOracle, SocialOraclePanel, FALSE)
useProfileCreate == Direct("social", BuildCreateProfile, SocialProfilePanel, FALSE)
useRevokeAttestation == Direct("oracle", BuildRevokeAttestation, RevokeControls, FALSE)
useSchemaActions == Direct("oracle", BuildSchemaChange, SchemaControls, FALSE)

AllHooks ==
    [checkPassage |-> useCheckPassage, bindWorldGate |-> useBindWorldGate,
     createGate |-> useCreateGate, bindOperatorGate |-> useBindOperatorWorldGate,
     authorizeExtension |-> useAuthorizeFWExtension,
     updatePolicy |-> useUpdateGatePolicy, withdrawTolls |-> useWithdrawTolls,
     transferAdmin |-> useTransferGateAdminCap, submitIntel |-> useSubmitIntel,
     issueStanding |-> useWalletAttestationIssue, dispute |-> useDisputeActions,
     vouch |-> useVouchActions, lending |-> useLendingActions,
     registerOracle |-> useOracleRegister, createProfile |-> useProfileCreate,
     revoke |-> useRevokeAttestation, schema |-> useSchemaActions]

-------------------------------------------------------------------------------
\* Failures.  A message is what the failing call says; classifySponsoredError
\* looks for the phrases of the message in this order.
Messages == {"rate limit", "zk proof", "rejected", "no signature",
             "invalid response", "move abort", "no standing", "no coin",
             "building", "other"}

classifySponsoredError(message) ==
    CASE message = "rate limit"       -> "proof_rate_limited"
      [] message = "zk proof"         -> "wallet_zk_proof_fetch_failed"
      [] message = "rejected"         -> "wallet_sign_rejected"
      [] message = "no signature"     -> "wallet_feature_missing"
      [] message = "invalid response" -> "sponsor_response_invalid"
      [] message = "move abort"       -> "move_abort"
      [] message = "no standing"      -> "missing_attestation"
      [] message = "no coin"          -> "payment_coin_missing"
      [] message = "building"         -> "build_kind_failed"
      [] OTHER                        -> "unknown_wallet_failure"

\* What the failure guide offers for a class.
GuidanceRetry(class) ==
    CASE class \in {"proof_rate_limited", "wallet_zk_proof_fetch_failed",
                    "indexer_lag"} -> "wait"
      [] class \in {"wallet_feature_missing", "unknown_wallet_failure"} -> "reconnect"
      [] class \in {"execute_transaction_failed", "move_abort",
                    "missing_attestation", "payment_coin_missing"} -> "none"
      [] OTHER -> "immediate"

\* What a failure at each phase may say.  Only the outer handler of the hook puts
\* the phase in front of the message, so a plain failure of the build is a
\* "building" one, while a failure of the station, the wallet or the execution
\* is classified by its own words.
PhaseMessages ==
    [building   |-> {"no coin", "no standing", "building", "rate limit", "rejected"},
     sponsoring |-> {"rate limit", "rejected", "invalid response", "other"},
     signing    |-> {"rate limit", "zk proof", "rejected", "no signature", "other"},
     executing  |-> {"rate limit", "rejected", "move abort", "other"}]

\* What the guide may offer after a failure at a phase: a retry, or none.
OffersRetry ==
    [phase \in DOMAIN PhaseMessages |->
        {GuidanceRetry(classifySponsoredError(m)) # "none" : m \in PhaseMessages[phase]}]

ASSUME HooksAreBuilders ==
    /\ \A h \in DOMAIN AllHooks : AllHooks[h].builder \in Builder
    /\ \A p \in DOMAIN PhaseMessages : PhaseMessages[p] \subseteq Messages
===============================================================================
