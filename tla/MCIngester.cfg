\* The indexer loop, restarted with either event source, projecting gate links.
CONSTANTS
  StreamOrder <- TopologyStreams
  Events <- LinkEvents
  StreamOf <- LinkStreamOf
  Happens <- LinkHappens
  EmptyRows <- NoLinks
  Outcomes <- LinkOutcomes
  Modes = {"jsonrpc", "graphql"}
  FirstModes = {"jsonrpc", "graphql"}
  BatchSize = 2
  MaxChain = 3
  MaxRestarts = 1
SPECIFICATION FairSpec
INVARIANT StoredCursorPassesOnlyHandled
INVARIANT HalfWrittenLinksHeal
PROPERTY DeliversInOrder
PROPERTY EveryEventIsHandled
