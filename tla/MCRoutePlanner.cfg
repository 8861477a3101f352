CONSTANTS
  Nodes <- MCNodes
  NoNode = 0
  Links <- EDGES
  Threats <- NODE_THREATS
  Distance <- MCDistance
  DefaultFrom = 1
  DefaultTo <- MCDefaultTo
SPECIFICATION PlannerSpec
INVARIANTS
  RouteIsCheapest
