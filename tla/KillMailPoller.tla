----------------------------- MODULE KillMailPoller -----------------------------
(***************************************************************************)
(* The kill mails of the alpha-strike feed: kill_mail_poller.rs and its    *)
(* start in main.rs.                                                       *)
(*                                                                         *)
(* The feed serves incidents newest first, by limit and offset; its ids    *)
(* grow.  A process without a cursor first reads the whole feed page by    *)
(* page, then polls the newest page for ids above the cursor.  Both keep   *)
(* the same cursor in indexer_state.  An error ends the process during the *)
(* backfill and is retried by the poller.                                  *)
(***************************************************************************)
EXTENDS Integers, FiniteSetsExt

CONSTANTS
  PageSize,      \* page_size
  MaxKills,      \* bound: incidents of the feed
  MaxRestarts    \* bound: restarts

VARIABLES
  published,   \* the feed holds the incidents 1..published
  rows,        \* world_kill_mails
  stored,      \* the cursor in indexer_state
  cursor,      \* the cursor of the poller
  task,        \* what the process is doing
  offset,      \* offset of the backfill
  page,        \* incidents of the page in hand
  done,        \* those of the page that were inserted
  fresh,       \* whether one of them was new
  restarts     \* how often the process has restarted

vars == <<published, rows, stored, cursor, task, offset, page, done, fresh, restarts>>

-----------------------------------------------------------------------------
\* fetch_page: the newest incidents but offset of them.
PageAt(o) == {k \in 1..published : published - o - PageSize < k /\ k <= published - o}

\* load_cursor answers 0 for a cursor it cannot read.
Loaded == {stored, 0}

\* Between two pages, and before the first.
Idle == page = {}

Init ==
  /\ published \in 0..MaxKills
  /\ rows = {} /\ stored = 0 /\ cursor = 0
  /\ task = "start" /\ offset = 0
  /\ page = {} /\ done = {} /\ fresh = FALSE
  /\ restarts = 0

Publish ==
  /\ published < MaxKills
  /\ published' = published + 1
  /\ UNCHANGED <<rows, stored, cursor, task, offset, page, done, fresh, restarts>>

\* backfill_if_needed reads the cursor, and run reads it again.
Start ==
  /\ task = "start"
  /\ \E seen \in Loaded :
       \/ seen > 0 /\ task' = "poll" /\ cursor' \in Loaded
       \/ seen = 0 /\ task' = "backfill" /\ UNCHANGED cursor
  /\ UNCHANGED <<published, rows, stored, offset, page, done, fresh, restarts>>

\* The page in hand; an empty one ends the backfill.
FetchBackfill ==
  /\ task = "backfill" /\ Idle
  /\ page' = PageAt(offset)
  /\ IF page' = {} THEN task' = "poll" /\ cursor' \in Loaded
                   ELSE UNCHANGED <<task, cursor>>
  /\ UNCHANGED <<published, rows, stored, offset, done, fresh, restarts>>

FetchPoll ==
  /\ task = "poll" /\ Idle
  /\ page' = {k \in PageAt(0) : k > cursor}
  /\ UNCHANGED <<published, rows, stored, cursor, task, offset, done, fresh, restarts>>

\* The backfill inserts in the order of the feed, the poller oldest first.
IsNextRow(k) ==
  /\ k \in page \ done
  /\ \A other \in page \ done : IF task = "backfill" THEN k >= other ELSE k <= other

Insert(k) ==
  /\ IsNextRow(k)
  /\ rows' = rows \cup {k}
  /\ done' = done \cup {k}
  /\ fresh' = (fresh \/ k \notin rows)
  /\ UNCHANGED <<published, stored, cursor, task, offset, page, restarts>>

PageDone == page # {} /\ done = page

\* The last page of the backfill is the first that is not full.
SaveBackfill ==
  /\ task = "backfill" /\ PageDone
  /\ stored' = Max(page)
  /\ IF Cardinality(page) < PageSize
     THEN task' = "poll" /\ cursor' \in {stored', 0} /\ UNCHANGED offset
     ELSE offset' = offset + PageSize /\ UNCHANGED <<task, cursor>>
  /\ page' = {} /\ done' = {} /\ fresh' = FALSE
  /\ UNCHANGED <<published, rows, restarts>>

\* run loads the cursor again only when a row was new.
SavePoll ==
  /\ task = "poll" /\ PageDone
  /\ stored' = Max(page)
  /\ IF fresh THEN cursor' \in {stored', 0} ELSE UNCHANGED cursor
  /\ page' = {} /\ done' = {} /\ fresh' = FALSE
  /\ UNCHANGED <<published, rows, task, offset, restarts>>

\* A statement of poll_once failed: the next round starts over.
RetryPoll ==
  /\ task = "poll" /\ ~Idle
  /\ page' = {} /\ done' = {} /\ fresh' = FALSE
  /\ UNCHANGED <<published, rows, stored, cursor, task, offset, restarts>>

\* A crash, or an error of the backfill, which main returns.
Restart ==
  /\ restarts < MaxRestarts
  /\ restarts' = restarts + 1
  /\ task' = "start" /\ cursor' = 0 /\ offset' = 0
  /\ page' = {} /\ done' = {} /\ fresh' = FALSE
  /\ UNCHANGED <<published, rows, stored>>

Next ==
  \/ Publish
  \/ Start
  \/ FetchBackfill \/ SaveBackfill
  \/ FetchPoll \/ SavePoll \/ RetryPoll
  \/ \E k \in page : Insert(k)
  \/ Restart

Spec == Init /\ [][Next]_vars

-----------------------------------------------------------------------------
\* kill_mail_poller.rs, backfill_if_needed: the full corpus has been paged
\* through once the process polls, for everything up to its cursor.
PollerHasTheFullCorpus ==
  task = "poll" => 1..cursor \subseteq rows
=============================================================================
