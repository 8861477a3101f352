----------------------------- MODULE WalletActions ----------------------------
(***************************************************************************)
(* Transactions from the web client: the hooks of one open page, the       *)
(* connected wallet, the gas station and the chain.                        *)
(*                                                                         *)
(* A flow is one run of a hook's callback.  It keeps the account it was    *)
(* started for in its closure while the wallet may switch accounts, the    *)
(* page may be left, CLEAR may be clicked and other flows may run: nothing *)
(* cancels it, and every result it has is written to whatever is shown.    *)
(* All sponsored flows and the station's own attestations are paid with    *)
(* the same coins of the sponsor.  Versions are read from a fullnode or    *)
(* from the indexer, a transaction is executed elsewhere and nobody waits  *)
(* for it: what is read may be older than what the chain has.              *)
(***************************************************************************)
EXTENDS ConnectedWallet, ActionHooks, FiniteSets

CONSTANTS
    Admin,           \* the account that holds the configured GateAdminCap
    HookNames,       \* the hooks considered, names of AllHooks
    Flows,           \* identities of flows: bounds how many are started
    NoFlow,          \* nothing shown
    Bundles,         \* the sets of configuration entries a bundle may carry
    MaxGasVersion    \* bound on the version at which the station still issues

ASSUME WalletAssumption ==
    /\ NoAccount # Admin /\ NoFlow \notin Flows
    /\ HookNames \subseteq DOMAIN AllHooks
    /\ Bundles \subseteq SUBSET ConfigKeys
    /\ IsFiniteSet(Flows) /\ MaxGasVersion \in Nat

VARIABLES
    config,     \* the configuration entries of the bundle
    view,       \* the view that is open: its hooks are mounted
    held,       \* useCheckPassage: whose attestation it holds, or NoAccount
    fetching,   \* useCheckPassage: the fetch for the current account runs
    cancelled,  \* useCheckPassage: whose earlier fetches still run
    ui,         \* per hook: what it shows, of which flow
    flow,       \* the flows
    tel,        \* action telemetry: counters per mode
    gas,        \* version of the sponsor's coins
    version,    \* version of each owned object
    owner       \* owner of each owned object

walletVars == <<config, account, view, held, fetching, cancelled, ui, flow, tel, gas,
                version, owner>>

Hook(h) == AllHooks[h]
Panel(h) == AllHooks[h].panel
Views == {Hook(h).view : h \in HookNames}
Mounted(h) == h \in HookNames /\ Hook(h).view = view

\* The owned objects the hooks read or move.
Kinds == {"coin"} \cup
    UNION {Hook(h).builder.pins \cup Hook(h).builder.leaves : h \in HookNames}
Objects == Kinds \X (Accounts \cup {Admin})
NotStarted == [phase |-> "none"]
Live == {"building", "sponsoring", "signing", "executing"}
Idle == [step |-> "idle", flow |-> NoFlow, retry |-> FALSE]

UiStates == [step : Steps,
             flow : Flows \cup {NoFlow},
             retry : BOOLEAN]    \* the guide shows its button

FlowStates ==
    [hook : HookNames, acct : Accounts,
     phase : Live,
     pins : SUBSET (Objects \X Nat),     \* owned inputs at the versions read
     proof : Accounts \cup {NoAccount},   \* whose attestation was held at the click
     gasAt : Nat,                        \* version of the sponsor's coins
     signed : BOOLEAN,                   \* by the sender
     shown : BOOLEAN]                    \* its hook is still mounted

\* What is left of a flow at its end: what became of its transaction on chain.
EndedFlows == [hook : HookNames, phase : {"ended"}, chain : {"no", "ok", "aborted"}]

Counters == [started : Nat, done : Nat, failed : Nat]

\* useCheckPassage fetches on its own, in the view that mounts it.
Fetches(v) == "checkPassage" \in HookNames /\ Hook("checkPassage").view = v

WalletInit ==
    /\ config \in Bundles
    /\ account \in Accounts
    /\ view \in Views
    /\ held = NoAccount
    /\ fetching = Fetches(view)
    /\ cancelled = {}
    /\ ui = [h \in HookNames |-> Idle]
    /\ flow = [f \in Flows |-> NotStarted]
    /\ tel = [m \in {"sponsored", "direct"} |->
                  [started |-> 0, done |-> 0, failed |-> 0]]
    /\ gas = 0
    /\ version = [o \in Objects |-> 0]
    /\ owner = [o \in Objects |-> o[2]]

Started(f) == flow[f].phase # "none"
InFlight(f) == flow[f].phase \in Live
HookOf(f) == Hook(flow[f].hook)

chainVars == <<gas, version, owner>>
pageVars == <<config, account, view, held, fetching, cancelled>>

-------------------------------------------------------------------------------
\* The wallet and the page.

\* The effect of useCheckPassage runs again: it cancels the fetch of the account
\* before, which goes on, and starts one for the new account.  The attestation of
\* the account before stays until the new fetch ends.
SwitchAccount(a) ==
    /\ a # account
    /\ account' = a
    /\ cancelled' = IF fetching THEN cancelled \cup {account} ELSE cancelled
    /\ IF a = NoAccount
       THEN held' = NoAccount /\ fetching' = FALSE
       ELSE held' = held /\ fetching' = Fetches(view)
    /\ UNCHANGED <<config, view, ui, flow, tel, gas, version, owner>>

\* Mutant: the answer of a cancelled fetch is taken as well.
TakeAlways(of, isCancelled, found) == IF found THEN of ELSE NoAccount

\* What is held after the answer to a fetch: the account's first attestation, none,
\* or none for an error; a cancelled fetch changes nothing.
Take(of, isCancelled, found) ==
    IF isCancelled THEN held ELSE IF found THEN of ELSE NoAccount

AttestationsArrive(found) ==
    /\ fetching
    /\ held' = Take(account, FALSE, found)
    /\ fetching' = FALSE
    /\ UNCHANGED <<config, account, view, cancelled, ui, flow, tel, gas, version, owner>>

\* An earlier fetch ends, before or after the current one.
CancelledArrive(of, found) ==
    /\ of \in cancelled
    /\ held' = Take(of, TRUE, found)
    /\ cancelled' = cancelled \ {of}
    /\ UNCHANGED <<config, account, view, fetching, ui, flow, tel, gas, version, owner>>

\* Leaving a view unmounts its hooks.  Their flows go on, and show nowhere.
OpenView(v) ==
    /\ v # view
    /\ view' = v
    /\ ui' = [h \in HookNames |-> Idle]
    /\ flow' = [f \in Flows |-> IF InFlight(f) THEN [flow[f] EXCEPT !.shown = FALSE]
                                ELSE flow[f]]
    /\ held' = NoAccount
    /\ fetching' = (account # NoAccount /\ Fetches(v))
    /\ cancelled' = {}      \* nobody is left to hear their answers
    /\ UNCHANGED <<config, account, tel, gas, version, owner>>

-------------------------------------------------------------------------------
\* The buttons.

SocialBusy == \E h \in HookNames : Panel(h).social /\ ui[h].step = "signing"

\* The button is enabled and a click on it calls the hook.
ButtonStarts(h) ==
    /\ Mounted(h) /\ account # NoAccount
    /\ ui[h].step \in Panel(h).starts
    /\ Panel(h).admin => account = Admin
    /\ Panel(h).social => ~SocialBusy
    /\ h = "checkPassage" => held # NoAccount

\* The failure guide offers a retry.
RetryOffered(h) ==
    /\ Mounted(h) /\ account # NoAccount
    /\ ui[h].step = "error" /\ ui[h].retry

\* The bundle lacks what a direct hook checks for: it shows an error at once.  A
\* sponsored hook that shows one (bindWorldGate, authorizeExtension) keeps it to
\* itself: no flow, counter or step of execute() is touched.
RefuseForConfig(h) ==
    /\ ButtonStarts(h)
    /\ Hook(h).mode = "direct"
    /\ Missing(Hook(h).builder, config) # {}
    /\ ui' = [ui EXCEPT ![h] = [Idle EXCEPT !.step = "error"]]
    /\ tel' = IF Hook(h).counted
              THEN [tel EXCEPT !["direct"].started = @ + 1, !["direct"].failed = @ + 1]
              ELSE tel
    /\ tel["direct"].started < Cardinality(Flows)   \* bound
    /\ UNCHANGED <<pageVars, flow, chainVars>>

\* execute() runs to its first await.  A hook that throws for its configuration
\* never gets here; one that does not check fails while it builds.  Nor does a
\* click without an account: hook or panel asks for one before execute() does.
Start(h, f) ==
    /\ ButtonStarts(h) \/ RetryOffered(h)
    /\ Hook(h).noConfig = "build" \/ Missing(Hook(h).builder, config) = {}
    /\ ~Started(f)
    /\ flow' = [flow EXCEPT ![f] =
           [hook |-> h, acct |-> account, phase |-> "building", pins |-> {},
            proof |-> IF h = "checkPassage" THEN held ELSE NoAccount,
            gasAt |-> 0, signed |-> FALSE, shown |-> TRUE]]
    /\ ui' = [ui EXCEPT ![h] =
           [step |-> IF Hook(h).mode = "direct" THEN "signing" ELSE "building",
            flow |-> f, retry |-> FALSE]]
    /\ tel' = IF Hook(h).counted
              THEN [tel EXCEPT ![Hook(h).mode].started = @ + 1] ELSE tel
    /\ UNCHANGED <<pageVars, chainVars>>

\* CLEAR, DISMISS, or an edit of the form: reset() of the hook.
Clear(h) ==
    /\ Mounted(h)
    /\ ui[h].step \in Panel(h).clears
    /\ ui' = [ui EXCEPT ![h] = Idle]
    /\ UNCHANGED <<pageVars, flow, tel, chainVars>>

-------------------------------------------------------------------------------
\* What a flow writes.

Show(f, step) ==
    ui' = IF flow[f].shown
          THEN [ui EXCEPT ![flow[f].hook] =
                    [step |-> step, flow |-> f, retry |-> FALSE]]
          ELSE ui

Count(f, what, n) ==
    tel' = IF HookOf(f).counted
           THEN [tel EXCEPT ![HookOf(f).mode][what] = @ + n] ELSE tel

\* A failure is shown, with a retry if the panel offers one.
ShowFailure(f, offered) ==
    ui' = IF flow[f].shown
          THEN [ui EXCEPT ![flow[f].hook] =
                    [step |-> "error", flow |-> f,
                     retry |-> offered]]
          ELSE ui

\* A flow at its end, after `chain` became of its transaction.
End(f, chain) == [hook |-> flow[f].hook, phase |-> "ended", chain |-> chain]

\* The outer handler of the hook: a flow whose transaction did not run ends in a
\* failure that is recorded once and shown.
Fail(f, offered) ==
    /\ flow' = [flow EXCEPT ![f] = End(f, "no")]
    /\ ShowFailure(f, offered)
    /\ Count(f, "failed", 1)

-------------------------------------------------------------------------------
\* Building, sponsoring, signing.

\* The object a builder means by a kind: the attestation the hook held, the cap of
\* the bundle, or the account's own.
ObjectOf(f, kind) ==
    CASE kind = "attestation" /\ flow[f].proof # NoAccount -> <<kind, flow[f].proof>>
      [] kind = "adminCap" /\ HookOf(f).panel.admin -> <<kind, Admin>>
      [] OTHER -> <<kind, flow[f].acct>>

\* resolveObjectRef and resolvePaymentCoin: the versions their source answers, the
\* present ones or older.
ReadPins(f) ==
    LET objects == {ObjectOf(f, k) : k \in HookOf(f).builder.pins}
        reads == {v \in [objects -> UNION {0..version[o] : o \in objects}] :
                      \A o \in objects : v[o] <= version[o]}
    IN  {{<<o, v[o]>> : o \in objects} : v \in reads}

Build(f) ==
    /\ flow[f].phase = "building"
    /\ Missing(HookOf(f).builder, config) = {}
    /\ \E pins \in ReadPins(f) :
           flow' = [flow EXCEPT ![f].pins = pins,
                                ![f].phase = IF HookOf(f).mode = "direct"
                                             THEN "signing" ELSE "sponsoring"]
    /\ Show(f, IF HookOf(f).mode = "direct" THEN "signing" ELSE "sponsoring")
    /\ UNCHANGED <<pageVars, tel, chainVars>>

BuildFails(f, offered) ==
    /\ flow[f].phase = "building"
    /\ Fail(f, offered)
    /\ UNCHANGED <<pageVars, chainVars>>

\* sponsorTransaction: sender from the request, the sponsor's coins at the versions
\* getCoins answers as gas, signed.
StationSigns(f) ==
    /\ flow[f].phase = "sponsoring"
    /\ \E read \in 0..gas :
           flow' = [flow EXCEPT ![f].gasAt = read, ![f].phase = "signing"]
    /\ Show(f, "signing")
    /\ UNCHANGED <<pageVars, tel, chainVars>>

\* Mutant: the inner handler ends the flow and the outer one again.
StationRefusesTwice(f, offered) ==
    /\ flow[f].phase = "sponsoring"
    /\ flow' = [flow EXCEPT ![f] = End(f, "no")]
    /\ ShowFailure(f, offered)
    /\ Count(f, "failed", 2)
    /\ UNCHANGED <<pageVars, chainVars>>

StationRefuses(f, offered) ==
    /\ flow[f].phase = "sponsoring"
    /\ Fail(f, offered)
    /\ UNCHANGED <<pageVars, chainVars>>

\* The wallet signs with its current account; `signed` says whether that is still
\* the account the station put into the transaction.
WalletSigns(f) ==
    /\ flow[f].phase = "signing" /\ HookOf(f).mode = "sponsored"
    /\ account # NoAccount
    /\ flow' = [flow EXCEPT ![f].signed = (account = flow[f].acct),
                            ![f].phase = "executing"]
    /\ Show(f, "executing")
    /\ UNCHANGED <<pageVars, tel, chainVars>>

\* The user rejects, the proof cannot be had, or no wallet is there any more.
WalletRefuses(f, offered) ==
    /\ flow[f].phase = "signing"
    /\ Fail(f, offered)
    /\ UNCHANGED <<pageVars, chainVars>>

-------------------------------------------------------------------------------
\* The chain.

\* The inputs of a transaction that ran have moved on.
MoveOn(inputs) ==
    version' = [o \in Objects |-> IF o \in inputs THEN version[o] + 1 ELSE version[o]]

Current(f) ==
    /\ flow[f].gasAt = gas
    /\ \A p \in flow[f].pins : version[p[1]] = p[2]

\* What the chain asks: the sender's signature, inputs that are the sender's, and
\* versions that are the present ones.
Accepts(f) ==
    /\ flow[f].signed
    /\ \A p \in flow[f].pins : owner[p[1]] = flow[f].acct
    /\ Current(f)

\* executeTransaction of a sponsored transaction the chain accepts.  It succeeds
\* or aborts, its gas is spent either way; the answer arrives or is lost.
Execute(f, outcome, answered, offered) ==
    /\ flow[f].phase = "executing" /\ Accepts(f)
    /\ gas' = gas + 1
    /\ MoveOn({p[1] : p \in flow[f].pins})
    /\ owner' = IF outcome = "ok" /\ flow[f].hook = "transferAdmin"
                THEN [owner EXCEPT ![<<"adminCap", Admin>>] = NoAccount]   \* the EVE vault
                ELSE owner
    /\ flow' = [flow EXCEPT ![f] = End(f, outcome)]
    /\ IF outcome = "ok" /\ answered
       THEN Show(f, "done") /\ Count(f, "done", 1)
       ELSE ShowFailure(f, offered) /\ Count(f, "failed", 1)
    /\ UNCHANGED pageVars

\* The chain refuses the transaction, for a stale input too, or the call does not
\* reach it.
ExecuteRefused(f, offered) ==
    /\ flow[f].phase = "executing"
    /\ Fail(f, offered)
    /\ UNCHANGED <<pageVars, chainVars>>

\* Mutant: an answer is taken for a success.
SignAndExecuteUnread(f, outcome, answered, offered) ==
    /\ flow[f].phase = "signing" /\ HookOf(f).mode = "direct" /\ account # NoAccount
    /\ MoveOn({<<k, account>> : k \in HookOf(f).builder.leaves \cup {"coin"}})
    /\ flow' = [flow EXCEPT ![f] = End(f, outcome)]
    /\ IF answered THEN Show(f, "done") /\ Count(f, "done", 1)
       ELSE ShowFailure(f, offered) /\ Count(f, "failed", 1)
    /\ UNCHANGED <<pageVars, gas, owner>>

\* signAndExecuteTransaction: the wallet fills in what the builder left and pays
\* with the account's own coin; what it read was current, or the chain refuses
\* (WalletRefuses).
SignAndExecute(f, outcome, answered, offered) ==
    /\ flow[f].phase = "signing" /\ HookOf(f).mode = "direct" /\ account # NoAccount
    /\ MoveOn({<<k, account>> : k \in HookOf(f).builder.leaves \cup {"coin"}})
    /\ flow' = [flow EXCEPT ![f] = End(f, outcome)]
    /\ IF outcome = "ok" /\ answered
       THEN Show(f, "done") /\ Count(f, "done", 1)
       ELSE /\ ShowFailure(f, offered)
            /\ Count(f, "failed",
                     IF outcome = "aborted" /\ answered /\ HookOf(f).twice THEN 2 ELSE 1)
    /\ UNCHANGED <<pageVars, gas, owner>>

\* The station issues an attestation of its own (the oracle form): it is paid
\* with the same coins.
StationIssues ==
    /\ gas < MaxGasVersion /\ gas' = gas + 1
    /\ UNCHANGED <<pageVars, ui, flow, tel, version, owner>>

-------------------------------------------------------------------------------
Page ==
    \/ \E a \in Accounts \cup {NoAccount} : SwitchAccount(a)
    \/ \E found \in BOOLEAN :
           AttestationsArrive(found) \/ \E of \in Accounts : CancelledArrive(of, found)
    \/ \E v \in Views : OpenView(v)
    \/ \E h \in HookNames : \/ RefuseForConfig(h)
                            \/ Clear(h)
                            \/ \E f \in Flows : Start(h, f)

\* Whether a retry may be offered after a failure at a phase: only a panel with a
\* guide makes anything of the class of the failure.
RetryAfter(f, phase) == IF HookOf(f).panel.guide THEN OffersRetry[phase] ELSE {FALSE}

FlowStep(f) ==
    /\ InFlight(f)
    /\ \/ Build(f)
       \/ \E offered \in RetryAfter(f, "building") : BuildFails(f, offered)
       \/ StationSigns(f)
       \/ \E offered \in RetryAfter(f, "sponsoring") : StationRefuses(f, offered)
       \/ WalletSigns(f)
       \/ \E offered \in RetryAfter(f, "signing") : WalletRefuses(f, offered)
       \/ \E outcome \in {"ok", "aborted"}, answered \in BOOLEAN,
             offered \in RetryAfter(f, "executing") :
               \/ Execute(f, outcome, answered, offered)
               \/ SignAndExecute(f, outcome, answered, offered)
       \/ \E offered \in RetryAfter(f, "executing") : ExecuteRefused(f, offered)

WalletNext ==
    \/ Page
    \/ StationIssues
    \/ \E f \in Flows : FlowStep(f)

\* No fairness: a wallet, a station or a user need never answer, and nothing in
\* the client times them out.
WalletSpec == WalletInit /\ [][WalletNext]_walletVars

-------------------------------------------------------------------------------
WalletTypeOK ==
    /\ config \in Bundles /\ AccountTypeOK /\ view \in Views
    /\ held \in Accounts \cup {NoAccount} /\ fetching \in BOOLEAN
    /\ cancelled \in SUBSET Accounts
    /\ ui \in [HookNames -> UiStates]
    /\ \A f \in Flows : Started(f) => flow[f] \in FlowStates \cup EndedFlows
    /\ tel \in [{"sponsored", "direct"} -> Counters]
    /\ gas \in Nat
    /\ version \in [Objects -> Nat]
    /\ owner \in [Objects -> Accounts \cup {Admin, NoAccount}]

\* What a hook shows as done is a flow of that very hook whose transaction
\* succeeded on chain, whatever else ran, was cleared or overwrote the hook in
\* between (useSponsoredTransaction and the direct hooks).
DoneIsOnChain ==
    \A h \in HookNames : ui[h].step = "done" =>
        LET f == ui[h].flow
        IN  flow[f].phase = "ended" /\ flow[f].hook = h /\ flow[f].chain = "ok"

\* Every sponsored flow that was started is counted as done or as failed exactly
\* once, when it ends, on each of its many ways out (fw-action-telemetry).
SponsoredFlowsAreCounted ==
    tel["sponsored"].started = tel["sponsored"].done + tel["sponsored"].failed
        + Cardinality({f \in Flows : InFlight(f) /\ HookOf(f).mode = "sponsored"})

\* The attestation the passage panel offers is the connected account's, unless the
\* fetch for that account has not ended yet: whatever order the answers come in, one
\* for an earlier account never lands on the present one (useCheckPassage).
HeldIsTheAccounts == ~fetching => held \in {NoAccount, account}
===============================================================================
