----------------------------- MODULE MCPolledViews -----------------------------
\* Two keys, two reads on their way, every read of the pages.  The indexer knows of
\* a gate that is ready, or of one that differs from it in one fact.
EXTENDS PolledViews, TLC

CONSTANTS k1, k2

MCWallets == {k1, k2}
MCFeeds == DOMAIN Feeds

Ready == [policy |-> TRUE, binding |-> "verified", guilty |-> FALSE, open |-> 0,
          stale |-> FALSE, profile |-> TRUE, mapped |-> {k1},
          named |-> {k1, k2}]

MCKnown ==
    {Ready, [Ready EXCEPT !.policy = FALSE], [Ready EXCEPT !.binding = "bound"],
     [Ready EXCEPT !.binding = "unbound"], [Ready EXCEPT !.guilty = TRUE],
     [Ready EXCEPT !.open = 1], [Ready EXCEPT !.open = 2], [Ready EXCEPT !.stale = TRUE],
     [Ready EXCEPT !.profile = FALSE], [Ready EXCEPT !.mapped = {k2}],
     [Ready EXCEPT !.named = {}]}

===============================================================================
