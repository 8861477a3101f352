------------------------------- MODULE PageFeeds -------------------------------
(***************************************************************************)
(* The reads of the pages: what each hook or view asks the API for, when,  *)
(* and what it does with an answer.  One record per read:                  *)
(*                                                                         *)
(*   keyed    what is read depends on an account, a gate or an input       *)
(*   absent   without it: nothing is read and what is shown is "clear"ed   *)
(*            or "keep"t, or the read goes on without it ("read"); "never" *)
(*            if it is always there                                        *)
(*   opens    a read begins when the view opens and when the key changes   *)
(*   guard    answers of an earlier key are dropped                        *)
(*   alone    no read begins while one is on its way                       *)
(*   again    more reads: by an "interval", by "hand", "later" after a     *)
(*            write of the operator, at once after it ("rerun"), "never"   *)
(*   fails    what is shown when a read fails: "keep" or "clear"           *)
(*   change   what is shown when the key changes: "keep" or "clear"        *)
(*   pauses   nothing is read while the page is hidden                     *)
(***************************************************************************)

\* A read when the view opens, of something that never changes its key.
Opening == [keyed |-> FALSE, absent |-> "never", opens |-> TRUE, guard |-> FALSE,
            alone |-> FALSE, again |-> "never", fails |-> "keep", change |-> "keep",
            pauses |-> FALSE]

\* The same for the account, gate or input of the moment.
OfKey == [Opening EXCEPT !.keyed = TRUE, !.absent = "clear", !.fails = "clear"]

\* A timer of the hook, without a guard.
Ticking == [Opening EXCEPT !.again = "interval"]
TickingOfKey == [Ticking EXCEPT !.keyed = TRUE, !.absent = "keep"]

\* useGuardedPolling: one read at a time, none of a hidden page, each belongs to
\* a generation.
Polling == [Ticking EXCEPT !.guard = TRUE, !.alone = TRUE, !.pauses = TRUE]

\* A button.
Asking == [OfKey EXCEPT !.opens = FALSE, !.absent = "keep", !.alone = TRUE, !.again = "hand"]

\* A flag of the effect that its cleanup sets.
Cancelled(f) == [f EXCEPT !.guard = TRUE]

\* Hooks.
useFrontierWardenData == [Polling EXCEPT !.keyed = TRUE, !.absent = "read", !.fails = "clear"]
useHealth == Polling
useAttestations == TickingOfKey
useLeaderboard == [TickingOfKey EXCEPT !.absent = "never"]
useTribeStandings == Ticking
useScores == TickingOfKey
useIntel == [OfKey EXCEPT !.absent = "keep", !.again = "hand"]
useEveWorldStatus == Cancelled(Opening)
useEveSystemNames == Cancelled(Opening)

\* SocialView.  The profile is asked for again for a while once one was created.
socialIdentity == OfKey
lookupProfile == [OfKey EXCEPT !.again = "hand"]
profileCreated == [OfKey EXCEPT !.opens = FALSE, !.absent = "keep", !.fails = "keep",
                                !.again = "later"]
oracleCheck == OfKey
loadVouches == [OfKey EXCEPT !.absent = "keep", !.fails = "keep"]

\* OracleView.  The delay after a write gives the indexer time.
loadSchemas == [Opening EXCEPT !.again = "later"]
loadOracles == [Opening EXCEPT !.again = "hand"]
loadFeed == [Opening EXCEPT !.again = "later"]

\* DisputesView, PolicyView, WorldGateTrafficPanel, GateIntelView.
loadRows == [Opening EXCEPT !.again = "later"]
withdrawals == [Cancelled(OfKey) EXCEPT !.fails = "keep", !.again = "rerun"]
traffic == [Cancelled(OfKey) EXCEPT !.change = "clear"]
passages == Cancelled(OfKey)

\* CounterpartyLookupView, TrustConsoleView, ReputationView, CombatEvidencePanel.
\* The lookup's button is disabled while one is on its way, the Enter key is not.
runLookup == [Asking EXCEPT !.alone = FALSE]
runEvaluation == Asking
consoleIdentity == OfKey
dossierIdentity == OfKey
combatEvidence == OfKey

Feeds ==
    [dashboard |-> useFrontierWardenData, health |-> useHealth,
     attestations |-> useAttestations, leaderboard |-> useLeaderboard,
     standings |-> useTribeStandings, scores |-> useScores, intel |-> useIntel,
     worldStatus |-> useEveWorldStatus, systemNames |-> useEveSystemNames,
     socialIdentity |-> socialIdentity, profile |-> lookupProfile,
     profileCreated |-> profileCreated, oracleCheck |-> oracleCheck,
     vouches |-> loadVouches, schemas |-> loadSchemas, oracles |-> loadOracles,
     issued |-> loadFeed, challenges |-> loadRows, withdrawals |-> withdrawals,
     traffic |-> traffic, passages |-> passages, lookup |-> runLookup,
     evaluation |-> runEvaluation, consoleIdentity |-> consoleIdentity,
     dossierIdentity |-> dossierIdentity, combat |-> combatEvidence]

===============================================================================
