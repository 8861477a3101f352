# FrontierWarden in TLA+

FrontierWarden is a reputation and access protocol for EVE Frontier: a Move
package on Sui (`src/sources`), an indexer with a REST API in Rust
(`src/indexer`), a web client (`src/frontend`), and scripts that deploy, seed,
sponsor transactions and issue attestations (`src/scripts`). This directory holds
specifications of the parts whose correctness depends on the order of events,
the TLC configurations that check them, and proofs checked by TLAPS.

All paths below are relative to the repository root. `PROJECT.json` says for
every definition which source lines it stands for.

## 1. The system

### Components, their state and their operations

| Component | State | Operations | Modelled in |
|---|---|---|---|
| Vouching, lending (`sources/vouch.move`, `lending.move`) | owned `Vouch` with a stake, `Loan` with collateral | create_vouch, redeem_expired, issue_loan, repay_loan, mark_loan_defaulted, slash_defaulted_vouch | `Lending` |
| Oracle registry (`oracle_registry.move`) | shared registry: oracles with stake and schema list, council, capabilities | register_oracle, add_schema_to_(system_)oracle, delegate, add_council_member, slash_oracle_stake | `OracleRegistry` |
| Fraud challenges (`fraud_challenge.move`) | shared `FraudChallenge`: stake, tally, voters, deadline | create, vote, resolve, delete | `FraudChallenge` |
| Schema registry (`schema_registry.move`) | schemas, admin or governance | register, deprecate, transfer_to_governance | `SchemaRegistry` |
| Attestations (`attestation.move`) | owned or shared `Attestation` | issue, revoke, transfer; expiry by epoch | `Attestations` |
| Reputation gates (`reputation_gate.move`) | shared `GatePolicy` with a treasury, owned `GateAdminCap` | create_gate, check_passage, update_thresholds, pause, unpause, withdraw_tolls, bind, unbind | `ReputationGate` |
| Profiles (`profile.move`) | `ReputationProfile` with scores | create_profile, update_score, apply_decay | parts of `Lending`, `TrustGate`, `Seeding` |
| Singleton attestations, system SDK | as attestations, for items | issue, revoke | not modelled |
| Indexer loop (`indexer/src/ingester`, `processor/mod.rs`, `raw.rs`, event sources) | a cursor per stream, in memory and in `indexer_state`; `raw_events` | poll, insert raw row, project, persist cursor, restart | `Ingester` |
| Projections (`indexer/src/processor`, `world_*.rs`, `gate_policy_bindings.rs`) | one table per kind of event | one handler per event | `TrustGate`, `GateLinks`; as lagging copies in `OperatorBinding` |
| Trust API (`trust_*.rs`) | none, reads the tables | gate_access, counterparty_risk, bounty_trust | `TrustGate` (gate_access) |
| Kill mail poller (`kill_mail_poller.rs`) | rows, one cursor | backfill, poll | `KillMailPoller` |
| World gate snapshots, extensions, jumps | tables fed by GraphQL and by events | sync, authorize, revoke | not modelled |
| Operator sessions (`indexer/src/api_sessions`, `frontend/src/hooks/useOperatorSession.ts`) | nonces and sessions in the API's memory; session in React state, token in the API client, both in local storage | nonce, create session, validate, purge; authenticate, clear, restore | `OperatorSessions` |
| Transactions of the web client (`frontend/src/lib/tx-*.ts`, the hooks and panels that use them) | one step and digest per hook | build, sponsor, sign, execute, clear, retry | `TxBuilders`, `ActionHooks`, `WalletActions` |
| Gas station (`scripts/lib/gas-sponsor.ts`, `scripts/gas-station.ts`) | the sponsor's coins | sponsor, issue an attestation | `WalletActions`, `Seeding` |
| Operator panels (`operator-gate-authority.ts`, `useOperatorGatePolicies`, the three binding panels) | what the connected account may administer, a selection, a wait | discover, select, send, poll, dismiss | `GateAuthority`, `OperatorBinding` |
| Reads of the pages (polling hooks, views, `useNodeSentinel.ts`) | what each view shows | poll, refetch, look up; the Sentinel's claims | `PageFeeds`, `PolledViews`, `Sentinel` |
| Route planner (`route-graph.ts`, `useRoutePlanner.ts`, `gate-data.ts`) | inputs and result | search | `GateData`, `RoutePlanner` |
| Deployment scripts (`scripts/*.ts`) | chain objects, `testnet-addresses.json` | the transactions and the record of each script | `Seeding` |
| Identity, World API, zkLogin, REST reads, start-up, migrations, TrustKit | caches of remote data, none of their own | reads and upserts | not modelled: I/O |

### How they interact

* A Move function is one atomic transaction: an abort undoes all of it. A shared
  object may be used by anybody's transaction, an owned one only by its owner's,
  at its newest version.
  `fraud_challenge` calls into `oracle_registry`, `lending` into `vouch`,
  `reputation_gate` reads an `Attestation`, which `attestation` only issues for
  schemas of `schema_registry` and oracles of `oracle_registry`.
* The indexer sees the chain only through events. It polls one stream per Move
  module or world event type; each stream has its own cursor, and the streams
  are polled in turn. Order is kept within a stream and lost between streams.
* The Trust API answers from the tables alone. The gate itself looks at the
  attestation object the traveller brings and at nothing the indexer wrote.
* The web client reads the indexer and, for owned objects, the chain. It builds a
  transaction from what it read, has the gas station sponsor it or the wallet
  pay for it, and polls the indexer for evidence. Each hook of a page runs on its
  own; what they share is the connected account, the wallet and the sponsor's coins.
* The scripts decide which objects end up owned by whom and leave the ids in a file
  that later scripts, the gas station and the client's configuration rely on.

### What is hard about it

Races between transactions on objects that outlive the check that admitted them
(a vouch checked at issue and redeemed before the default); quantities kept
twice (stake figure and balance, registry and capability); one-way doors
(governance transfer, challenges past their deadline); an index that is late,
repeats itself after a restart, loses what its handlers fail on, and whose
streams overtake each other; a decision that reads it. In the client, every
`await` is a point where the account may change, the page be left, or another
attempt begin, and every answer is still written somewhere; in the scripts, every
transaction is a point where a run may stop. The list in `PROJECT.json`,
"hazards", has each of these at its line, with the property that covers it or the
reason none does yet.

### What makes each part correct

* Lending: coins are conserved; only a default loses a voucher the stake, a loan
  is settled once, its collateral goes to the right party, and the vouch covers
  the loan as long as it is there.
* Oracles and challenges: an oracle is slashed by half of the council after the
  window and by nothing else; the figure a slash is computed from is the balance
  it is taken from; the stake of the challenger is released by a verdict and
  only by one.
* Schemas, attestations, gates: one authority over the schemas; passage rests on
  the traveller's own valid attestation and costs what the policy says; invalid
  stays invalid; tolls reach the owner.
* Indexer: in-order delivery per stream, each event in `raw_events` once, no event
  passed over and every event handled some time, but for those that an answer in
  GraphQL mode leaves out: a node without transaction or contents is dropped, and
  the cursor of the answer passes it.
* Trust API: once caught up it answers what the gate would do; late or damaged, it
  still allows nobody who never had an attestation; a revocation that found the row of
  its attestation stays effective. One that was handled before there was a row is lost,
  and counts only while the cursor is past it.
* Sessions: the token sent is the one of the session shown, the session is the
  connected account's, a nonce makes at most one session.
* Wallet transactions: what is shown as done ran on the chain, each flow is counted
  once, and the attestation offered to the wallet is the account's own.
* Operator panels: authority shown is about the connected account, of caps it holds or
  has held; so is what is sent; waiting for the indexer ends.
* Views: a guarded view shows the key of the moment and never an older answer after
  a newer one; a polled view catches up; what the Sentinel clears, it clears on data and
  identity of one read.
* Scripts: whatever stops and is run again, an oracle has one profile and one
  capability, and the file names objects that exist and their true owners.

## 2. Modules

Every variable and action is named after the code where TLA+ allows it. An
`assert!`, an early return or an `if` is a conjunct of the guard, and an abort is an
action that is not enabled.

### The Move package

* **`Lending`** – `vouches` and `loans` are the objects, `wallet` and `credit` the
  parts of coins and profiles the two modules read. `SlashDefaultedVouch` takes any
  active vouch of the borrower, as the code does. Sums that would overflow a
  `u64` disable the action.
* **`OracleRegistry`**, extended by **`FraudChallenge`** – `ResolveGuilty` and
  `ResolveInnocent` are the two branches of `resolve_challenge`, and the first calls
  `SlashOracle`, the operator for `slash_oracle_stake`. `councilSize` is kept beside
  `council`, as in the code.
* **`SchemaRegistry`**, **`Attestations`** and **`ReputationGate`** – each has the
  variables of one Move module and its own `...Next`; `ReputationGate!Next`
  composes the three. What `attestation::issue` reads of the oracle registry is
  `issuers`, a set that only grows, because the code has no way to unregister an
  oracle or to take a schema from it. `emitted` holds the events of the last
  transaction and is what the indexer reads.

### The indexer

* **`EventDelivery`** – what the indexer promises: per stream, first delivery in the
  order of the chain, with no gaps but the events that answers of the event source left
  out (`omitted`).
* **`Ingester`** – the loop, with one action per step that can be separated from the
  next by a crash: `Fetch`, `RawInserted` or `RawFailed`, `Project`,
  `PersistCursor`. `HandedOn` is what an answer hands on: all that was asked for in
  JSON-RPC mode, any part of it in GraphQL mode, where the cursor passes the rest.
  `Restart` loses the memory, may change the event source and may
  find cursors it cannot read. What a handler does with an event is the constant
  operator `Outcomes`, so that projections are written as modules on top.
* **`GateLinks`** – the link table of one pair of world gates, as the handlers of an
  `Ingester` with two streams. The outcomes of a handler are: both statements, the
  first, none. `MCIngester` runs the two together.
* **`KillMailPoller`** – backfill by offset over a feed that grows at the front, then
  polling of the newest page by highest id. `stored` is the cursor of both in
  `indexer_state`, `cursor` the copy of the poller; each inserted row and each cursor
  write is a step of its own, and `Restart` falls between any two.
* **`TrustGate`** – the Move state of `ReputationGate` with profiles, a log of what
  was emitted, the tables, and `EvaluateGateAccess`. The loop is reduced to what is
  proved of `Ingester`: `Deliver` in order from the cursor of the stream,
  `DeliverBadly` for an error or an event that the source left out (a row refused for a
  missing schema row counts as one), `Rewind` for a restart from an older cursor.
  `landed` remembers the revocations whose UPDATE found a row.

### The web client, with the API and the gas station

* **`TxBuilders`** and **`ActionHooks`** – the transaction builders and the hooks as
  data: what each needs of the configuration, which owned objects it pins at a
  version and which it leaves to the wallet, whether it is sponsored, which panel
  shows it, when its button starts, clears or retries.
* **`ConnectedWallet`** – the account of the wallet, which the three modules about the
  client extend.
* **`WalletActions`** – the flows of those hooks. A flow is one run of a callback with
  the account of its closure; its steps are `Build`, sponsor, sign, execute and the
  answer, and between any two the wallet may switch, the view be left, CLEAR be
  clicked, another flow run and the station spend its coins. The versions `Build` pins
  (`ReadPins`) and those of the coins the station adds are whatever the node or the indexer
  asked answers, present or older, since nothing waits for a transaction that was executed:
  two flows may meet stale versions without overlapping, and then fail. `cancelled` are
  the fetches of attestations for earlier accounts, whose answers may come at any time. `ui` is the
  state a panel shows, `tel` the counters of the action telemetry.
* **`OperatorSessions`** – attempt *k* is the *k*-th click, its nonce, token and
  session. Page: request, sign, post, store. API: consume the nonce, await the
  check, insert the session; a copy of a request, expiry, purge, restart. Storage is
  also written by another tab.
* **`GateAuthority`**, extended by **`OperatorBinding`** – discovery of caps and gates
  page by page for an account that may change, then the selection, the transaction
  and the poll for evidence of one of three panels, beside an indexer that lags and
  others who change the chain. `ownership` says who holds which cap; `CapMoves` passes
  one on, from the transfer panel of this client or elsewhere. The lists are read once per
  account and not again after a transfer, and a node may lag, so a listing finds what the
  account has held throughout and any of what it has held at some time (`CapsListed`).
* **`PageFeeds`** – 26 reads of the pages as records: keyed or not, guarded or not,
  polled how, cleared when. **`PolledViews`** runs one of them (which one is chosen in
  `Init`): any number of reads under way, each with the key it was sent for and, once
  served, the state of the indexer it saw. **`Sentinel`** holds the claims the sections
  of the dashboard derive from data and identity together, and the recommendation that
  goes by the name in the data. What follows from the data alone is left out.
* **`RoutePlanner`** – the search, one settled node per step, the walk back from the
  destination and what the page then shows, for any network (`Nodes`, `Links`, `Threats`,
  `Distance`); **`GateData`** has the network of the source, for the run.

### The scripts

* **`Seeding`** – every transaction of every script an operator runs, by any key, with
  the ids of the file or the command line; `Refused`, `Stop`, and the write of the
  file as `Reread` and `Save`, between which another run may write. `torn` remembers
  that a write undid another's.

**`MC...`** modules give the constants that a cfg cannot express, and symmetry sets.
**`...Proofs`** hold the theorems, by part of the system: `LendingProofs`,
`FraudChallengeProofs`, `ReputationGateProofs` (the gates and `TrustGate`),
`IngesterProofs` (the loop and `GateLinks`), `ClientProofs` (`WalletActions`,
`OperatorSessions`, `OperatorBinding`), `PageProofs` (`PolledViews`, `RoutePlanner`) and
`SeedingProofs`. **`FiniteSums`** has the lemmas about sums that several of them cite.

### Named abstractions

* Coins are natural numbers; `Amounts`, `Values`, `Thresholds` and `Terms` are the
  values a caller may choose.
* Object ids are used once; an id is free, in use, or deleted.
* The score an account cites in `Lending` is the best of its profiles; the code
  lets an account create any number of them.
* In `Lending` the custody of objects is free: `Vouch` and `Loan` have `store`, so
  anybody may come to be the one who passes them in. `Attestations` keeps the holder,
  because revocation depends on it.
* `OracleRegistry` leaves out names, TEE hashes and delegation receipts, which
  nothing reads.
* `Lending` leaves out who holds the `LendingCapability`: `SlashDefaultedVouch` may be
  called by anybody, which is more than the code allows.
* In `TrustGate` the four queries of one decision see one state of the
  tables. `CaughtUpDecisionIsTheGates` is about subjects without a cached score, attestations
  that have not expired and gates that are not paused, because for the others the code
  decides on what the gate does not look at. The gates are deployed from the start and by the deployer, and the
  attestations are shared objects (the index does not know who holds them, and
  revocation has to be possible).
* In `WalletActions` an account owns one object of each kind: two of its flows that pin
  the same kind collide. What a transaction does on the chain is in the
  Move modules. `execute` has an exit for a missing account, which no click reaches: hook
  or panel asks for the account first. Two sponsored hooks that lack their configuration
  show an error of their own, which touches no flow and no counter.
* In `OperatorSessions` the clocks of page and API agree, and expiry may come any
  time after creation.
* In `OperatorBinding` a page of a listing is part of the one answer that ends it; a
  page that fails ends the listing as failed, as in the code.
* In `PolledViews` a read of several requests sees one state of the indexer, and reads
  do not touch each other. The identity request may fail on its own. A WARN alert of
  the Sentinel always has the category "fraud", so the risk "counterparty" does not
  occur.
* In `Seeding` an object bears the number of the run that made it, "EVE" stands for
  the nine schemas of `register-schemas.ts`, the gas station's `issueAttestation` is
  about TRIBE_STANDING only, and an id an operator enters is that of a live
  capability.
* In `RoutePlanner` distances are whole hundredths of the canvas, rounded down. As costs
  are whole, a sum that is less in the code is never greater here; of nodes with equal
  sums any may be settled.

## 3. Runs

All runs are on instances in which the interesting cases do happen: together the passing
runs fire every action, and each property is violated by a one-line change of the
definition named next to it in `PROJECT.json`, "mutants".

| Run | Question | Bounds, and why they are enough |
|---|---|---|
| `lending` | Are coins conserved and loans settled correctly under any order of vouching, lending, repaying, defaulting, slashing, redeeming? | 2 accounts, 2 vouches, 2 loans, 3 epochs, amounts 1 and 2. Two vouches and two loans give every cross-use (one vouch for two loans, a second vouch slashed). Terms are 0 epochs: only their equality matters, and the next epoch is then a default. 120% of 2 rounds to 2, so that rounding in coverage is exercised. |
| `fraud_challenge` | Who can slash whom, do the two stake figures agree, is a challenge without votes frozen? | 3 accounts, all of whom may sit on the council, 2 challenges, minimum stake 10 so that slash and reward round differently, window 0. Two challenges of one oracle give two slashes in any order, and one may stay without a vote past its window. |
| `reputation_gate` | Does passage rest on one's own valid standing, do tolls arrive? | 2 accounts, 1 schema, 1 attestation valid for 1 epoch, 1 gate, 2 epochs. Issuing, revoking, expiry, sale of the cap and reconfiguration all happen around one passage. |
| `ingester` | Safety and liveness of the loop, with the link handlers on it | 2 streams, 3 events of one pair of gates, batch of 2, 1 restart, both event sources. A page holds more than one event, one remains for a second page, and the restart falls between any two steps, including a change of the source and the two statements of a handler. A GraphQL answer leaves out any part of its page, all of it included. |
| `trust_gate` | Does the API agree with the gate, late, damaged or caught up? | 2 accounts, 1 schema, 1 gate, 2 attestations, 4 events, 1 fault, 1 rewind. Two attestations are what "latest" and "revoked, the other remains" need; four events are a schema, an issue, its revocation and one more. The fault and the rewind together give the revocation that is handled before its row. |
| `operator_sessions` | Whose session and token are in use, and is a nonce used once? | 3 attempts, each request delivered up to 2 times, 3 disturbances (account switch, lock, expiry, purge, reload, restart, other tab). Two overlapping attempts with a third after them, and three disturbances to fall between their awaits. |
| `wallet_actions` | Is what is shown as done done, is each flow counted once, is the attestation offered the account's? | 2 accounts, 2 flows, the hooks `checkPassage`, `createGate` and `vouch` (a sponsored one that pins coin and attestation, and two that differ in panel, guide and what they read), a full configuration and one with only the gate. The station may spend the sponsor's coins for itself while their version is below 2, so before or between the flows or both, and each sponsored flow spends them again. Two flows overlap, or follow one another with versions read too early, in every order; a third adds no new pair. Two accounts give a fetch for each under way. |
| `operator_binding` | Is authority shown and used about the sender, and does waiting end? | 2 accounts, the first with both policies and the gate, 2 switches, 2 polls, 1 change from elsewhere: of a binding, an extension, or the holder or place of a cap. Two switches leave an account and return to it with answers under way; one transfer falls before, during or after a listing. Two policies are needed for a position in a list; panels treat each gate alike. |
| `polled_views` | Do views show the key of the moment, never go back, catch up; is what is cleared of one read? | all 26 reads, 2 keys, 2 reads under way, 2 changes, 3 states of the indexer, 1 write, 2 open challenges. The states of the indexer are a ready gate and the states that differ from it in one fact. Two reads overtake each other; three states let a view go back and forth. |
| `seeding` | What is left of runs that are refused, stopped and repeated? | 3 runs, two at a time, 2 keys and an owner without key. A run, its repetition and one beside them. |
| `route_planner` | Is every route cheapest? | the whole network of `gate-data.ts`, every pair of gates, with and without hostile gates, compared with every path that passes no gate twice. |
| `kill_mail_backfill` (violation) | Are all older kill mails there once the process polls? | 5 incidents in pages of 2, 1 restart: the restart falls after the first of three pages. |

Bounds are constants that are named in the guards: `MaxEpoch`, `MaxChain`,
`MaxRestarts`, `MaxKills`, `MaxLog`, `MaxFaults`, `MaxRewinds`, `MaxGasVersion`,
`MaxSwitches`, `MaxChanges`, `MaxAttempts`, `MaxCopies`, `MaxDisturbances`, `MaxReads`,
`MaxVersion`, `MaxWrites`, `MaxOpen`, `N`, `MaxAtOnce`; `MaxU64` is the width of the
integers and `Attempts` the code's own number of polls, smaller here. Deadlock is
checked in the runs of the Move package, of the indexer and of the route planner: in each
instance some action stays enabled (delegations of nothing, skipped polls, pauses,
transfers, another destination). The runs about a page or an operator's scripts have
`CHECK_DEADLOCK FALSE`, because a page where nothing more is clicked, and a chain whose
scripts have all ended, may stay as they are. Symmetry is used only in runs without
liveness. `MCTrustGate` uses a VIEW that leaves out `emitted`, which is a copy of the
end of `log` there, and no property of that run reads it.

### Fairness

* `Ingester`: `WF_vars(Loop)` says that the task is scheduled: it is one tokio task in an
  endless loop without a blocking wait. `SF_vars(Fetch(s))` says that a query that is
  tried again and again succeeds some time; the loop itself retries every stream in
  each round, and a node that never answers again is nothing the code could make up
  for. Nothing is assumed about restarts, raw inserts, handlers or cursor writes, all of
  which may fail every time. `EveryEventIsHandled` has one exception, `Stranded`: a
  stream whose stored cursor comes from the other event source, which every query
  refuses.
* `OperatorBinding`: a read that was sent is answered or fails (`Discover`,
  `CheckArrives`) and the panel's poll, a loop with a sleep of two seconds, is sent
  (`Poll`). The answers may all be failures, and the indexer need not move, so that
  `WaitEnds` rests on the loop's own limit. The operator, the wallet and the others may
  do nothing.
* `PolledViews`: an interval timer fires (`Tick`), the API answers each read and each
  read ends, perhaps as a failed one (`Serve`, `AnswerOf`). `FeedsCatchUp` excepts what the
  code does not promise: a hidden page, a missing key, and a last read that failed, which
  the view then says.

## 4. Proofs

TLAPS proves the following for all values of the constants that satisfy the ASSUMEs
of the modules. The ASSUMEs type the constants; three more are facts of the code:
`VouchNotLongerThanLoan` (both terms are 30 epochs), `MinStake >= 2` (1 SUI), and
`DistanceAssumption`: a jump brings a route no nearer to a destination than the least a
jump costs, which TLC evaluates for the network of `gate-data.ts`. Types are
proved first, and no run repeats them.

Every safety property the passing runs check is also a theorem. Each rests on an inductive
invariant, and the reader will want to know why the property alone was not inductive.

* **`LendingProofs`** – `LendingInv`.
  `DefaultedLoanVouchIsRedeemable` is not inductive: that the vouch of a defaulted
  loan has expired needs that a vouch never expires more than one term ahead
  (`VouchNotFromTheFuture`), hence not after its loans are due
  (`VouchExpiresNoLaterThanItsLoans`), and that a default is overdue. `CoinsConserved`
  follows action by action: each changes two or three terms of the three sums by amounts
  that cancel. The action properties `SettledOnce`, `VouchCitesOwnScore` and
  `CollateralReleasedToTheRightParty` follow per action.
* **`FraudChallengeProofs`** – the ledger invariant first: that balances stay
  natural, so that `balance::split` never aborts, depends on the two stake figures
  being equal and on a challenge always finding its oracle. Then the tally (votes
  are counted once per member while the council grows), the challenger's stake, the
  capabilities, coins, and the action properties: only the council slashes, and a
  challenge without votes is frozen after its deadline.
* **`ReputationGateProofs`** – types per composed module, `OneSchemaAuthority`,
  `AttestationsHaveAuthority`, and the action properties about passage, tolls and
  validity. Then `TrustGate`, whose three properties compare chain and tables and so say
  nothing of how one comes from the other. `TrustInv` does, in two halves that meet in the
  log: what the log tells of is so on the chain, issue before revocation (`LogInv`); what a
  table says was told by the log, and what a cursor is past is in the tables unless its
  handling failed (`IndexInv`). From it follow `NobodyWithoutAttestation`, for any losses
  and rewinds; `RevocationsAreSeen`, for good where the revocation found its row
  (`LandedIndexed`: no handler writes `revoked` back) and otherwise while the cursor is past
  it; and `DecisionsAgree`, where the newest row of a gate
  has to be shown to be the newest update, although rows may be inserted out of order.
* **`IngesterProofs`** – `IInv` says of the stored cursor, of the cursor in memory and
  of the page in flight alike that everything of the stream up to it was handled or
  left out of an answer; the stored cursor alone is not inductive, as its next value is the end of the page.
  With `OldestFirst` every step of the loop is a `Deliver` of `EventDelivery` or
  leaves it unchanged, and a `Fetch` that leaves events out is a `LeaveOut`: `Implements` is the
  refinement. `HalfWrittenHeal` is about the
  handlers of `GateLinks` as the `Outcomes` of that loop: each handler writes both
  directions alike, or what it leaves half written says so, and a page, a cursor or a
  restart touches no row.
* **`ClientProofs`** – three components.
  A nonce makes one session because at any time it is in
  one place only (`NonceInOnePlace`): in the store, in a check that is awaited, or in a
  session; counting sessions alone is not inductive across the await. That the session is
  the account's rests on what another tab or a reload may bring in: a stored session, too,
  was made of a nonce its own account signed (`SessionsAreMade`).
  `WalletInv` adds to the three properties of `WalletActions` what they need to be inductive:
  what is shown as done names a flow that was started (`DoneIsAFlow`), only a sponsored flow
  is executed apart from its signature (`OnlySponsoredExecute`), and an attestation is held
  or fetched only while its hook is mounted (`HeldWhereMounted`). For the telemetry, the number of flows
  under way grows or falls by one exactly where a counter does.
  Of the operator panels, what was found is about the connected account
  (`CapsArriveFinds` for the listing, one lemma per answer) and stays so when caps change
  hands, because what an account has held it has held for good (`HoldingsGrow`); hence a
  transaction is about caps its sender holds or has held, and it keeps its target while the
  account moves on. `HasGate` is needed for the types: without it an extension could be
  authorised on no gate.
* **`PageProofs`** – `GuardInv`: of a guarded read at most one is live, it is for the
  key of the moment, and what it was answered is no older than what is shown. The step
  is a property of the records in `PageFeeds` (`GuardedAreExclusive`): each guarded read
  either runs alone or begins only when the one before was ended. `OneRead` is the
  invariant behind `ClearanceRestsOnOneRead`, which holds although a failed read keeps
  the identity, because it clears the data. `NameIsOfTheIdentity` needs beside it that a
  name in the data came with the identity (`NamedWithIdentity`).
  Of the route planner, `PlannerInv` says that settled nodes are nearer than open ones
  (`Settles`) and that the way back costs what the scores differ by (`LeadsBack`). A path
  leaves the settled nodes at an open one, which is no nearer than the destination, so
  none costs less (`NoRouteIsCheaper`). The theorem `NoPathIsCheaper` is about every sequence
  of gates, where the run compares with the paths without a repeated gate. That a settled
  node is never opened again is right only under `DistanceAssumption`.
* **`SeedingProofs`** – the capability a run is about to record is still there because a schema can
  be registered only once, so that no second expansion replaces it (`Expanded`). For the
  owners, the copy of the file that a run is about to write must already be true of the
  chain, whichever of the overlapping runs writes last (`CopiesAreReal`).
* **`FiniteSums`** – the community modules define a sum by a recursive function over
  subsets. That this function exists, is unique and unfolds at any element
  is proved without an induction theorem: a smallest set for which it fails
  exists, since proper inclusion of finite sets is well-founded, and leads to a
  contradiction. The paths of the route planner are treated in the same way (`AlongPath`).

Proved and not also run: the types, `SettledOnce`, `VouchCitesOwnScore`,
`TallyIsTheCouncils`, `OneSchemaAuthority`, `InvalidForGood`,
`RawRowsAreUnique`, `NoPathIsCheaper`.

Only model-checked: the three properties under fairness (`EveryEventIsHandled`, `WaitEnds`,
`FeedsCatchUp`), which need ENABLED and are out of the prover's reach, the violation, and
`KillMailPoller`, on which only the violation is checked.

## 5. Where code and documentation disagree

One disagreement is shown by a run. `kill_mail_backfill`: the backfill stores the highest
id of its first, newest page; interrupted, it is skipped at the next start, and the older
pages are never read, although the poller "pages through the full corpus"
(`indexer/src/kill_mail_poller.rs:199`).

The following were met while modelling. The modules do what the code does.

1. A slashed oracle below the minimum stake keeps issuing
   (`sources/oracle_registry.move:335`; `SECURITY.md:115`).
2. The collateral of a defaulted loan stays locked when the vouch was redeemed, or slashed
   for another loan, first (`sources/lending.move:175`; comment at `lending.move:157`).
3. Revocation takes the attestation as an owned argument, which the issuer has handed to
   the subject (`sources/attestation.move:82`; `frontend/src/lib/tx-revoke-attestation.ts:2`).
4. The attestation table has no expiration, so the API allows subjects whose attestation
   the gate rejects (`indexer/src/trust_db.rs:58`; `TRUST_API.md:252`).
5. GraphQL mode overwrites the JSON-RPC cursors (`indexer/src/ingester/cursors.rs:18`;
   `GRAPHQL_EVENT_SOURCE_STAGING_SOAK.md:168`).
6. Links and unlinks are polled by streams of their own, one after the other: an unlink that
   is handled before the link it follows leaves the pair active
   (`indexer/src/ingester/mod.rs:159`; `world_topology.rs:70`).
7. AUTHORIZE EXTENSION needs the status of the selected policy, which is read only when the
   selection changes: an operator with one policy never finds it enabled
   (`OPERATOR_FLOW_RUNBOOK.md:391`). The extension is authorised on the selected gate,
   whether or not the policy is bound to it (`OperatorExtensionAuthPanel.tsx:102`).
8. The failure guide offers a retry also when the transaction ran and only its answer was
   lost (`SigningFailureGuide.tsx:55`).
9. A transaction that aborts on the chain is counted as failed twice by the hooks that
   submit directly (`SUI_OBJECT_FETCHER_GRAPHQL_SHADOW_SMOKE.md:52`).
10. `create_profile` shares the profile, so an oracle may write the score of anybody's
    profile, which `seed-social.ts:15` and `seed-oracle.ts:119` say is blocked; `processor/profile.rs:56`
    makes the schema row whose absence `fix-credit-schema.ts` works around. Without
    arguments that script ends after its first transaction and cannot be repeated; a
    repeated `seed-testnet.ts` stops at its first. `seed-tribe-standing.ts` asks to edit a
    file it has already written.

11. In GraphQL mode an event whose node lacks transaction or contents is dropped while the
    cursor passes it (`indexer/src/graphql_event_client.rs:197`; the unit test at line 373
    pins the mapping, not the loss).
12. A revocation that is handled before its attestation has a row is lost without an error
    (`indexer/src/processor/attestation.rs:59`); after a restart from an older cursor, decisions
    rest on the attestation until the revocation is handled again.

## 6. Plan

Done: the Move package, the loop with one projection, the kill mails, the gate_access
decision, sessions, the client's transactions, panels and reads, the route planner, the
scripts, and the theorems of section 4. What is left, most important first:

1. **Projections** – the extension flag (two streams and a snapshot of other age) as
   handlers of `Ingester`, in the manner of `GateLinks`; `TrustGate` with the order in which
   the streams are polled, so that a row refused for its schema is a consequence and not
   a fault.
2. **Trust API** – counterparty and bounty evaluation, and decisions whose queries see
   different states.
3. **Theorems** – that `TrustGate`'s streams are an instance of `EventDelivery` when nothing
   is rewound; what a backfill that is not interrupted leaves in the rows of `KillMailPoller`.
4. **Limits** – the window of the rate limiter, the growth of the nonce store, the budgets
   of the gas station.
5. **Local lists and drafts** – two tabs writing one list, an answer stored at the position
   an entry had, a policy draft overwritten by a poll.

## 7. Not modelled, and why

* `singleton.move` repeats `attestation.move` for items and nothing reads its objects;
  `system_sdk.move` emits an event.
* `apply_decay`: arithmetic on one score, without interaction.
* Identity, World API and zkLogin clients, REST reads, configuration, migrations,
  TrustKit, probes and load tests: input and output around state that is modelled or is
  a cache. Views appear by what they read, send and claim; layout is left out.
* The comparison of two object sources is logged and answers with the first; the shadow
  event source answers with the primary source and logs differences.
* `PassageDenied`: emitted before an abort, hence never observable.
* Warnings and confidence figures of the Trust API: text that no decision depends on.
* `RoutePanel` and `GateMap`: no view mounts them; the search they use is modelled.
* Local lists, policy drafts and the enrichment of the watchlist: state of one browser
  that no protocol state depends on. They are listed as hazards.
