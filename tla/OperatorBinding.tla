----------------------------- MODULE OperatorBinding ---------------------------
(***************************************************************************)
(* Binding a GatePolicy to a world gate and authorising the extension on   *)
(* that gate, from one of the three panels that do so:                     *)
(*                                                                         *)
(*   "preflight"  OperatorBindingPanel: one configured policy, any gate    *)
(*   "bind"       OperatorWorldGateBindingPanel: own policies, own gates   *)
(*   "extend"     OperatorExtensionAuthPanel: the same, for the extension  *)
(*                                                                         *)
(* A panel reads what the indexer knows, sends one transaction (what       *)
(* happens inside it is WalletActions) and polls the indexer for evidence. *)
(* Meanwhile the chain is changed by others and the indexer lags behind.   *)
(***************************************************************************)
EXTENDS GateAuthority

CONSTANTS
    Panels,         \* the panels considered
    Configured,     \* the policy the preflight panel is for
    NoGate,
    Attempts,       \* polls before a wait times out
    MaxChanges      \* bound on changes of the chain made elsewhere

ASSUME BindingAssumption ==
    /\ Panels \subseteq {"preflight", "bind", "extend"}
    /\ Configured \in Policies /\ NoGate \notin Gates
    /\ Attempts \in Nat \ {0} /\ MaxChanges \in Nat

VARIABLES
    bound,      \* chain: the gate a policy is bound to
    extended,   \* chain: gates with the extension
    indexed,    \* indexer: the same as `bound`, as far as it got
    active,     \* indexer: the same as `extended`
    changes,    \* changes of the chain made elsewhere
    panel,      \* which panel it is
    index,      \* position of the selected policy in the list
    gate,       \* the selected gate
    seen,       \* the binding status the panel shows, or Unread
    checks,     \* policies whose status is being read for the panel
    wait        \* the transaction of the panel and the wait for evidence

ownerVars == <<ownership, former>>
worldVars == <<ownerVars, bound, extended, indexed, active, changes>>
selectionVars == <<index, gate, seen, checks>>
vars == <<authorityVars, worldVars, panel, selectionVars, wait>>

Statuses == {"unbound", "bound", "verified"}
Unread == [status |-> "unread", gate |-> NoGate]

\* The binding-status route: verified iff bound and the extension is active.
Answer(p) ==
    [status |-> IF indexed[p] = NoGate THEN "unbound"
                ELSE IF indexed[p] \in active THEN "verified" ELSE "bound",
     gate |-> indexed[p]]

\* busy: the transaction is on its way.  done: what the panel calls submitted.
Waits == [step : {"idle", "busy", "submitted", "confirmed", "timeout", "error"},
          by : Accounts \cup {NoAccount},
          policy : Policies,
          gate : Gates \cup {NoGate},
          refused : BOOLEAN,             \* the error is the transaction's
          left : 0..Attempts]            \* polls left

NoWait == [step |-> "idle", by |-> NoAccount, policy |-> Configured,
           gate |-> NoGate, refused |-> FALSE, left |-> 0]

\* Only the preflight panel reads the status of its policy when it is opened.
Opened(k) == IF k = "preflight" THEN {Configured} ELSE {}

Init ==
    /\ AuthorityInit
    /\ bound = [p \in Policies |-> NoGate] /\ extended = {}
    /\ indexed = bound /\ active = {}
    /\ changes = 0
    /\ panel \in Panels
    /\ index = 1 /\ gate = NoGate /\ seen = Unread
    /\ checks = Opened(panel)
    /\ wait = NoWait

-------------------------------------------------------------------------------
\* The chain, as others change it, and the indexer.

MayBind(p, a) == ownership.cap[p] = a /\ bound[p] = NoGate

MayExtend(g, a) == ownership.gate[g] = a /\ ownership.place[g] = "character"

\* The holder of a cap binds or unbinds, or gives the cap away; the owner of a
\* gate authorises or revokes, or gives its cap away: from another panel or
\* page, or a script.
ChangedElsewhere ==
    /\ changes < MaxChanges /\ changes' = changes + 1
    /\ \/ \E p \in Policies, g \in Gates \cup {NoGate} :
              /\ (g = NoGate) # (bound[p] = NoGate)
              /\ bound' = [bound EXCEPT ![p] = g]
              /\ UNCHANGED <<ownerVars, extended>>
       \/ \E g \in Gates :
              /\ extended' = IF g \in extended THEN extended \ {g} ELSE extended \cup {g}
              /\ UNCHANGED <<ownerVars, bound>>
       \/ CapMoves /\ UNCHANGED <<bound, extended>>
    /\ UNCHANGED <<authorityVars, indexed, active, panel, selectionVars, wait>>

\* Bindings and extensions are polled by tasks of their own.
IndexBindings ==
    /\ indexed # bound /\ indexed' = bound
    /\ UNCHANGED <<authorityVars, ownerVars, bound, extended, active, changes, panel,
                   selectionVars, wait>>

IndexExtensions ==
    /\ active # extended /\ active' = extended
    /\ UNCHANGED <<authorityVars, ownerVars, bound, extended, indexed, changes, panel,
                   selectionVars, wait>>

-------------------------------------------------------------------------------
\* The selection.

Selected ==
    IF panel = "preflight" THEN {Configured}
    ELSE IF index \in DOMAIN caps.list THEN {caps.list[index]} ELSE {}

\* The control reports changes only: choosing what is chosen reads nothing.
SelectPolicy(i) ==
    /\ panel # "preflight" /\ i \in DOMAIN caps.list /\ i # index
    /\ index' = i /\ checks' = checks \cup {caps.list[i]}
    /\ UNCHANGED <<authorityVars, worldVars, panel, gate, seen, wait>>

\* Gates of the account, or every gate the indexer lists for the preflight panel
\* once its read ended.
Candidates ==
    IF panel = "preflight" THEN IF seen = Unread THEN {} ELSE Gates ELSE auth.gates

SelectGate(g) ==
    /\ g \in Candidates /\ g # gate /\ gate' = g
    /\ UNCHANGED <<authorityVars, worldVars, panel, index, seen, checks, wait>>

\* The status of a policy arrives, of whichever policy was asked about; a failed
\* read shows no status.  The preflight panel takes the bound gate, or the first
\* it lists, as its selection.
CheckArrives(p, ok) ==
    /\ p \in checks /\ checks' = checks \ {p}
    /\ seen' = IF ok THEN Answer(p) ELSE Unread
    /\ IF panel = "preflight" /\ ok
       THEN \E g \in IF indexed[p] = NoGate THEN Gates ELSE {indexed[p]} : gate' = g
       ELSE UNCHANGED gate
    /\ UNCHANGED <<authorityVars, worldVars, panel, index, wait>>

\* The view is left and opened again: everything starts anew, and a transaction
\* or a wait goes on unseen.
Reopen ==
    /\ account # NoAccount
    /\ switches < MaxSwitches /\ switches' = switches + 1
    /\ Load(account)
    /\ index' = 1 /\ gate' = NoGate /\ seen' = Unread /\ checks' = Opened(panel)
    /\ wait' = NoWait
    /\ UNCHANGED <<account, worldVars, panel>>

-------------------------------------------------------------------------------
\* The buttons.

Holds(a, p) == \E i \in DOMAIN caps.list : caps.list[i] = p /\ caps.of = a

\* canAttemptBinding, of a gate that is online and linked.  The button is enabled
\* while the transaction is being built as well: what a second click does then is
\* WalletActions.
CanAttempt ==
    /\ panel = "preflight" /\ account # NoAccount
    /\ Holds(account, Configured)
    /\ gate # NoGate
    /\ seen.status = "unbound"
    /\ wait.step \notin {"busy", "submitted"}

\* canBind; a policy whose status was never read counts as unbound.
CanBind ==
    /\ panel = "bind" /\ auth.of # NoAccount /\ Selected # {}
    /\ gate \in auth.gates
    /\ seen.status \in {"unread", "unbound"}
    /\ wait.step \notin {"busy", "submitted", "confirmed"}

\* canAuthorize: the cap was found with the character.
CanAuthorize ==
    /\ panel = "extend" /\ auth.of # NoAccount /\ Selected # {}
    /\ gate \in auth.gates
    /\ auth.character /\ gate \in auth.lent
    /\ seen.status = "bound"
    /\ wait.step \notin {"busy", "submitted", "confirmed"}

\* The guide's retry asks less of the preflight panel than its button does.
CanRetry ==
    /\ panel = "preflight" /\ wait.step = "error" /\ wait.refused
    /\ Holds(account, Configured) /\ gate # NoGate

Send ==
    /\ CanAttempt \/ CanBind \/ CanAuthorize \/ CanRetry
    /\ \E p \in Selected :
           wait' = [NoWait EXCEPT !.step = "busy", !.by = account, !.policy = p,
                                  !.gate = gate]
    /\ UNCHANGED <<authorityVars, worldVars, panel, selectionVars>>

-------------------------------------------------------------------------------
\* The transaction and the wait.

\* The wait knows the policy it asks about and no more.
Submitted == [NoWait EXCEPT !.step = "submitted", !.policy = wait.policy,
                            !.left = Attempts]
Over(step) == [NoWait EXCEPT !.step = step]
Refused == [Over("error") EXCEPT !.refused = TRUE]

\* The transaction runs; an answer that is lost is shown as a failure.
Runs(answered) ==
    /\ wait.step = "busy"
    /\ IF panel = "extend"
       THEN /\ MayExtend(wait.gate, wait.by)
            /\ extended' = extended \cup {wait.gate} /\ UNCHANGED bound
       ELSE /\ MayBind(wait.policy, wait.by)
            /\ bound' = [bound EXCEPT ![wait.policy] = wait.gate] /\ UNCHANGED extended
    /\ wait' = IF answered THEN Submitted ELSE Refused
    /\ UNCHANGED <<authorityVars, ownerVars, indexed, active, changes, panel,
                   selectionVars>>

Fails ==
    /\ wait.step = "busy" /\ wait' = Refused
    /\ UNCHANGED <<authorityVars, worldVars, panel, selectionVars>>

\* What ends a wait well: any binding of the policy, or its verified status.
Evidence(p) ==
    IF panel = "extend" THEN Answer(p).status = "verified"
    ELSE Answer(p).status # "unbound"

\* Mutant: it starts over instead of ending.
NextAttemptForever ==
    [wait EXCEPT !.left = IF wait.left > 1 THEN @ - 1 ELSE Attempts]

\* One attempt less; the wait is over with the last.
NextAttempt ==
    IF wait.left > 1 THEN [wait EXCEPT !.left = @ - 1] ELSE Over("timeout")

\* waitForBinding, waitForVerification: one poll.  Only the preflight panel is
\* told of the binding it waited for, and gives up when a read fails.
Poll(ok) ==
    /\ wait.step = "submitted"
    /\ IF ok /\ Evidence(wait.policy)
       THEN /\ wait' = Over("confirmed")
            /\ seen' = IF panel = "preflight" THEN Answer(wait.policy) ELSE seen
       ELSE /\ wait' = IF ~ok /\ panel = "preflight"
                       THEN Over("error") ELSE NextAttempt
            /\ UNCHANGED seen
    /\ UNCHANGED <<authorityVars, worldVars, panel, index, gate, checks>>

\* DISMISS of the guide.
Dismiss ==
    /\ panel \in {"preflight", "extend"} /\ wait.step = "error" /\ wait.refused
    /\ wait' = NoWait
    /\ UNCHANGED <<authorityVars, worldVars, panel, selectionVars>>

-------------------------------------------------------------------------------
Discovery ==
    /\ \/ \E a \in Accounts \cup {NoAccount} : Connect(a)
       \/ \E a \in Accounts : Discover(a)
    /\ UNCHANGED <<worldVars, panel, selectionVars, wait>>

Select ==
    \/ \E i \in 1..Cardinality(Policies) : SelectPolicy(i)
    \/ \E g \in Gates : SelectGate(g)

Next ==
    \/ Discovery
    \/ ChangedElsewhere
    \/ IndexBindings
    \/ IndexExtensions
    \/ Select
    \/ \E p \in Policies, ok \in BOOLEAN : CheckArrives(p, ok)
    \/ Reopen
    \/ Send
    \/ \E answered \in BOOLEAN : Runs(answered)
    \/ Fails
    \/ \E ok \in BOOLEAN : Poll(ok)
    \/ Dismiss

\* A read that was sent is answered or fails, and a poll is sent every two
\* seconds; the operator, the wallet, the indexer and the others may do nothing.
Fairness ==
    /\ \A a \in Accounts :
          WF_vars(Discover(a) /\ UNCHANGED <<worldVars, panel, selectionVars, wait>>)
    /\ \A p \in Policies : WF_vars(\E ok \in BOOLEAN : CheckArrives(p, ok))
    /\ WF_vars(\E ok \in BOOLEAN : Poll(ok))

Spec == Init /\ [][Next]_vars /\ Fairness

-------------------------------------------------------------------------------
TypeOK ==
    /\ AccountTypeOK /\ switches \in 0..MaxSwitches
    /\ asked \subseteq Accounts /\ caps \in CapStates
    /\ probing \subseteq Accounts /\ auth \in Authorities
    /\ ownership \in Ownership /\ former \subseteq Ownership
    /\ bound \in [Policies -> Gates \cup {NoGate}] /\ extended \subseteq Gates
    /\ indexed \in [Policies -> Gates \cup {NoGate}] /\ active \subseteq Gates
    /\ changes \in 0..MaxChanges /\ panel \in Panels
    /\ index \in 1..Cardinality(Policies) /\ gate \in Gates \cup {NoGate}
    /\ seen \in [status : Statuses, gate : Gates \cup {NoGate}] \cup {Unread}
    /\ checks \subseteq Policies /\ wait \in Waits

\* What the page shows of GateAdminCaps and of gate authority is about the account
\* that is connected, however the answers of earlier accounts come in: each cap
\* it shows is one this account holds or has held.  It may have changed hands
\* since, or before, if the node lags.
AuthorityIsTheAccounts ==
    /\ caps.of = account /\ auth.of = account
    /\ \A i \in DOMAIN caps.list : caps.list[i] \in PoliciesOf(account)
    /\ auth.gates \subseteq GatesOf(account, "wallet") \cup GatesOf(account, "character")
    /\ auth.lent \subseteq GatesOf(account, "character")

\* A transaction a panel sent is about a policy whose cap its sender holds or has
\* held and, from the panels for own gates, about such a gate, although the
\* wallet may change between every two steps.  Where the cap has changed hands
\* the chain refuses the transaction.
TargetsAreOwn ==
    wait.step = "busy" =>
        /\ wait.policy \in PoliciesOf(wait.by)
        /\ panel = "bind" =>
              wait.gate \in GatesOf(wait.by, "wallet") \cup GatesOf(wait.by, "character")
        /\ panel = "extend" => wait.gate \in GatesOf(wait.by, "character")

\* Waiting for the indexer ends, whatever the indexer does and whether its reads
\* fail: with evidence, a timeout or an error.
WaitEnds == wait.step = "submitted" ~> wait.step # "submitted"
===============================================================================
