\* The claim of the backfill, with one interruption.
CONSTANTS
  PageSize = 2
  MaxKills = 5
  MaxRestarts = 1
SPECIFICATION Spec
INVARIANT PollerHasTheFullCorpus
