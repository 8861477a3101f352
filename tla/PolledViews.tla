------------------------------- MODULE PolledViews -----------------------------
(***************************************************************************)
(* One read of the pages (PageFeeds) at work: the account, gate or input   *)
(* it depends on changes, the page is hidden and shown, the indexer moves  *)
(* on, and answers come in late, in any order or not at all.  Reads do not *)
(* touch each other, so which one it is is chosen at the start.  The       *)
(* dashboard's read shows an identity beside its data, and the claims of   *)
(* the Sentinel rest on both.                                              *)
(*                                                                         *)
(* A read of several requests is taken to see one state of the indexer.    *)
(***************************************************************************)
EXTENDS PageFeeds, Sentinel

CONSTANTS
    Considered,    \* the reads considered
    Known,         \* what the indexer may know, as far as it is considered
    NoKey,
    MaxReads,      \* bound on reads on their way
    MaxChanges,    \* bound on changes of the key and of visibility
    MaxVersion,    \* bound on states of the indexer
    MaxWrites      \* bound on writes of the operator, and on reads after one

ASSUME ViewsAssumption ==
    /\ Considered \subseteq DOMAIN Feeds
    /\ Known \subseteq AllFacts
    /\ NoKey \notin Wallets
    /\ MaxReads \in Nat \ {0} /\ MaxChanges \in Nat
    /\ MaxVersion \in Nat \ {0} /\ MaxWrites \in Nat

VARIABLES
    feed,        \* which read it is
    key,         \* the account, gate or input
    hidden,      \* the page is hidden
    changes,     \* changes of both so far
    version,     \* the state of the indexer
    facts,       \* what it knows then
    writes,      \* writes so far
    due,         \* reads that will follow the last write
    reads,       \* reads on their way
    shown,       \* the data the page shows
    identity,    \* the identity it shows, of the dashboard's read only
    fault        \* the last answer was a failure

pageVars == <<shown, identity, fault>>
vars == <<feed, key, hidden, changes, version, facts, writes, due, reads, pageVars>>

Feed == Feeds[feed]
Keys == Wallets \cup {NoKey}
Ids == 1..MaxReads

\* What is shown or answered: of a key, in a state of the indexer; 0 is none.
Shown == [key : Keys, ver : 0..MaxVersion, facts : AllFacts]
Nothing == [key |-> NoKey, ver |-> 0, facts |-> FW_DATA]

\* A read on its way; live until its generation or effect is over.
Read == [id : Ids, key : Keys, live : BOOLEAN, answer : Shown]

-------------------------------------------------------------------------------
\* Mutant: reads overlap.
MayBeginAnyway(rs, k, h) ==
    /\ k # NoKey \/ Feed.absent = "read"
    /\ Feed.pauses => ~h

\* run, and the early returns of the others.
MayBegin(rs, k, h) ==
    /\ k # NoKey \/ Feed.absent = "read"
    /\ Feed.pauses => ~h
    /\ Feed.alone => rs = {}

NewRead(rs, k) ==
    [id |-> CHOOSE i \in Ids : \A r \in rs : r.id # i, key |-> k, live |-> TRUE,
     answer |-> Nothing]

HasRoom(rs) == \E i \in Ids : \A r \in rs : r.id # i

\* Begin a read, or do nothing.
Began(rs, k, h) == IF MayBegin(rs, k, h) THEN rs \cup {NewRead(rs, k)} ELSE rs

\* The cleanup of an effect ends its generation.
Ended(rs) == {[r EXCEPT !.live = FALSE] : r \in rs}

\* The view has just been opened.  Only the dashboard's claims depend on more than
\* the state of the indexer.
Init ==
    /\ feed \in Considered
    /\ key \in IF Feed.keyed /\ Feed.absent # "never" THEN Keys ELSE Wallets
    /\ hidden = FALSE /\ changes = 0
    /\ version = 1
    /\ facts \in IF feed = "dashboard" THEN Known ELSE {FW_DATA}
    /\ writes = 0 /\ due = 0
    /\ reads = IF Feed.opens THEN Began({}, key, FALSE) ELSE {}
    /\ shown = Nothing /\ identity = Nothing /\ fault = FALSE

\* The key changes: the effect is cleaned up and runs again.
ChangeKey(k) ==
    /\ Feed.keyed /\ k # key /\ (Feed.absent = "never" => k # NoKey)
    /\ changes < MaxChanges /\ changes' = changes + 1
    /\ HasRoom(reads)
    /\ key' = k /\ due' = 0
    /\ reads' = IF Feed.opens THEN Began(Ended(reads), k, hidden) ELSE Ended(reads)
    /\ shown' = IF (k = NoKey /\ Feed.absent = "clear") \/ Feed.change = "clear"
                THEN Nothing ELSE shown
    /\ fault' = IF shown' = Nothing THEN FALSE ELSE fault
    /\ UNCHANGED <<feed, hidden, version, facts, writes, identity>>

\* Another tab is looked at, or this one again; then a paused read begins.
Hide ==
    /\ Feed.pauses /\ changes < MaxChanges /\ changes' = changes + 1
    /\ hidden' = ~hidden
    /\ hidden => HasRoom(reads)
    /\ reads' = IF hidden THEN Began(reads, key, FALSE) ELSE reads
    /\ UNCHANGED <<feed, key, version, facts, writes, due, pageVars>>

\* The timer fires or a button is pressed.
Tick ==
    /\ Feed.again \in {"interval", "hand"}
    /\ MayBegin(reads, key, hidden) /\ HasRoom(reads)
    /\ reads' = Began(reads, key, hidden)
    /\ UNCHANGED <<feed, key, hidden, changes, version, facts, writes, due, pageVars>>

\* The operator's transaction is done: the effect runs again, or a timer is set.
Written(n) ==
    /\ Feed.again \in {"rerun", "later"} /\ key # NoKey
    /\ writes < MaxWrites /\ writes' = writes + 1
    /\ IF Feed.again = "rerun"
       THEN /\ HasRoom(reads)
            /\ reads' = Began(Ended(reads), key, hidden)
            /\ UNCHANGED due
       ELSE due' = n /\ UNCHANGED reads
    /\ UNCHANGED <<feed, key, hidden, changes, version, facts, pageVars>>

\* The time is over.
Later ==
    /\ due > 0 /\ due' = due - 1
    /\ HasRoom(reads) /\ reads' = Began(reads, key, hidden)
    /\ UNCHANGED <<feed, key, hidden, changes, version, facts, writes, pageVars>>

\* The indexer gets on.
IndexMoves(f) ==
    /\ version < MaxVersion /\ version' = version + 1
    /\ IF feed = "dashboard" THEN f # facts ELSE f = FW_DATA
    /\ facts' = f
    /\ UNCHANGED <<feed, key, hidden, changes, writes, due, reads, pageVars>>

\* The API answers a read.
Serve(r) ==
    /\ r.answer.ver = 0
    /\ reads' = (reads \ {r}) \cup
                {[r EXCEPT !.answer = [key |-> r.key, ver |-> version, facts |-> facts]]}
    /\ UNCHANGED <<feed, key, hidden, changes, version, facts, writes, due, pageVars>>

\* Mutant: every answer counts.
AnyCounts(r) == TRUE

\* isCurrent, cancelled: an unguarded answer always counts.
Counts(r) == Feed.guard => r.live

\* Mutant: the identity is stored before the page looks whether it is current.
IdentityAnyway(r, ok) ==
    identity' \in IF ok /\ feed = "dashboard" THEN {r.answer, Nothing} ELSE {identity}

\* setEveIdentity: its request may fail on its own.  A failure of the others leaves
\* the identity as it is, whatever becomes of the data.
Identify(r, ok) ==
    identity' \in IF ok /\ Counts(r) /\ feed = "dashboard"
                   THEN {r.answer, Nothing} ELSE {identity}

\* Mutant: the read of an earlier generation stays in flight.
StaysInFlight(r) == IF Counts(r) THEN reads \ {r} ELSE reads

\* finally.
Finished(r) == reads \ {r}

\* Mutant: the name is taken from elsewhere than the identity.
MergedWithName(answer, who) == answer

\* mergeLiveData: without the identity the data name no character.
Merged(answer, who) ==
    IF who = Nothing THEN [answer EXCEPT !.facts.named = {}] ELSE answer

\* The answer arrives, or the read fails.
Answer(r, ok) ==
    /\ ok => r.answer.ver # 0
    /\ reads' = Finished(r)
    /\ Identify(r, ok)
    /\ IF Counts(r)
       THEN /\ shown' = IF ok THEN Merged(r.answer, identity')
                        ELSE IF Feed.fails = "clear" THEN Nothing ELSE shown
            /\ fault' = ~ok
       ELSE UNCHANGED <<shown, fault>>
    /\ UNCHANGED <<feed, key, hidden, changes, version, facts, writes, due>>

-------------------------------------------------------------------------------
AnswerOf(i) == \E r \in reads, ok \in BOOLEAN : r.id = i /\ Answer(r, ok)

Next ==
    \/ \E k \in Keys : ChangeKey(k)
    \/ Hide \/ Tick \/ Later
    \/ \E n \in 1..MaxWrites : Written(n)
    \/ \E f \in Known \cup {FW_DATA} : IndexMoves(f)
    \/ \E r \in reads : Serve(r)
    \/ \E i \in Ids : AnswerOf(i)

\* Intervals fire, and the API answers a read or the request fails; the operator,
\* the indexer and the delay of a write do what they like.
Fairness ==
    /\ WF_vars(Feed.again = "interval" /\ Tick)
    /\ \A i \in Ids : WF_vars(\E r \in reads : r.id = i /\ Serve(r))
    /\ \A i \in Ids : WF_vars(AnswerOf(i))

Spec == Init /\ [][Next]_vars /\ Fairness

-------------------------------------------------------------------------------
TypeOK ==
    /\ feed \in Considered /\ key \in Keys /\ hidden \in BOOLEAN
    /\ changes \in Nat /\ version \in 1..MaxVersion /\ facts \in AllFacts
    /\ writes \in 0..MaxWrites /\ due \in 0..MaxWrites
    /\ reads \subseteq Read /\ shown \in Shown /\ identity \in Shown
    /\ fault \in BOOLEAN

\* A guarded view never begins to show data of an account, gate or input other
\* than the one of that moment, however late answers come in.
ShownIsCurrent ==
    [][Feed.guard /\ shown' # shown /\ shown' # Nothing => shown'.key = key']_vars

\* A guarded view never goes back to an older state of the indexer: its reads do
\* not overtake each other.
ShownNeverGoesBack ==
    [][Feed.guard /\ shown.key = shown'.key /\ shown' # Nothing
           => shown'.ver >= shown.ver]_vars

\* A polled view keeps showing the latest of its key again, or says that its last
\* read failed, while its page is visible.
Settled ==
    \/ Feed.pauses /\ hidden
    \/ key = NoKey /\ Feed.absent # "read"
    \/ fault
    \/ shown.key = key /\ shown.ver = version

FeedsCatchUp == Feed.again = "interval" ~> Settled

OfOneRead == shown.key = identity.key /\ shown.ver = identity.ver

\* The dashboard claims that a policy can be enforced, that the trust fabric is
\* healthy or that access is of low risk only of data and an identity that came
\* with one and the same read, although a failed read resets the one and keeps
\* the other (useFrontierWardenData).
Character == identity.key \in identity.facts.mapped

ClearanceRestsOnOneRead ==
    \/ CanEnforce(shown.facts, Character)
    \/ FabricStatus(shown.facts, Character) = "healthy"
    \/ OverallRisk(shown.facts, Character) = "low"
    => OfOneRead

\* Where the page does not ask for a proof of character, going by the name in the
\* data, the identity the other sections go by is there and is that name's: of
\* the same wallet, from the same read (mergeLiveData, useNodeSentinel).
NameIsOfTheIdentity == ~RecommendsProof(shown.facts, shown.key) => OfOneRead

===============================================================================
