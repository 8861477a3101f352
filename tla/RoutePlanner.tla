----------------------------- MODULE RoutePlanner -----------------------------
(***************************************************************************)
(* The route planner: frontend/src/lib/route-graph.ts and                  *)
(* hooks/useRoutePlanner.ts, for any network of gates.  A search takes a   *)
(* node of the open set at a time, one with the least cost so far plus its *)
(* distance to the destination, and never takes a node twice.  A change of *)
(* an input searches again.                                                *)
(*                                                                         *)
(* Of nodes that are equally near, any may be taken: which one the order   *)
(* of the set and the last digits of a distance decide.                    *)
(***************************************************************************)
EXTENDS Integers, Sequences, FiniteSets, Functions, SequencesExt

CONSTANTS
  Nodes,         \* the gates
  NoNode,        \* no gate
  Links,         \* pairs of gates with a jump between them, in either direction
  Threats,       \* what is known of each gate
  Distance,      \* on the canvas, in hundredths
  DefaultFrom, DefaultTo

VARIABLES
  fromId, toId, avoidHostile,   \* the inputs
  stage,      \* the search runs, it walks the route back, its result is shown
  gScore,     \* the least cost found to each node found so far
  cameFrom,   \* the node before it on that route, or NoNode
  open,       \* nodes found and not settled
  closed,     \* nodes settled
  current,    \* the node the walk back is at
  path,       \* the nodes behind it, to the destination
  result      \* the route found last, or NoRoute

inputs == <<fromId, toId, avoidHostile>>
search == <<gScore, cameFrom, open, closed>>
plannerVars == <<inputs, stage, search, current, path, result>>

THREAT_PENALTY == [hostile |-> 50, camped |-> 8, unknown |-> 2, clear |-> 0]

\* What the shortest jump costs, as a distance.
Jump == 100

\* buildAdjacency: every edge is listed at both of its ends.
Joined(a, b) == <<a, b>> \in Links \/ <<b, a>> \in Links

ASSUME NetworkAssumption ==
  /\ NoNode \notin Nodes
  /\ Links \subseteq Nodes \X Nodes
  /\ Threats \in [Nodes -> DOMAIN THREAT_PENALTY]
  /\ Distance \in [Nodes -> [Nodes -> Nat]]
  /\ DefaultFrom \in Nodes /\ DefaultTo \in Nodes

\* A jump brings a route no nearer to a destination than it costs.
ASSUME DistanceAssumption ==
  /\ \A n \in Nodes : Distance[n][n] = 0
  /\ \A a, b, to \in Nodes : Joined(a, b) => Distance[a][to] <= Jump + Distance[b][to]

EdgeCost(a, b) == 1 + THREAT_PENALTY[Threats[a]] + THREAT_PENALTY[Threats[b]]

\* The cost of a jump is finite.
MayJump(a, b) ==
  /\ Joined(a, b)
  /\ avoidHostile => "hostile" \notin {Threats[a], Threats[b]}

NoRoute == [path |-> <<>>, totalCost |-> 0]

\* The hook shows nothing where the origin is the destination.
Begin(from, to, avoid) ==
  /\ fromId' = from /\ toId' = to /\ avoidHostile' = avoid
  /\ stage' = IF from = to THEN "shown" ELSE "search"
  /\ gScore' = [n \in {from} |-> 0]
  /\ cameFrom' = [n \in Nodes |-> NoNode]
  /\ open' = {from} /\ closed' = {}
  /\ current' = NoNode /\ path' = <<>> /\ result' = NoRoute

PlannerInit ==
  /\ fromId = DefaultFrom /\ toId = DefaultTo /\ avoidHostile = FALSE
  /\ stage = IF fromId = toId THEN "shown" ELSE "search"
  /\ gScore = [n \in {fromId} |-> 0]
  /\ cameFrom = [n \in Nodes |-> NoNode]
  /\ open = {fromId} /\ closed = {}
  /\ current = NoNode /\ path = <<>> /\ result = NoRoute

\* Mutant: the cost so far is left out of the score.
DistanceOnly(n) == Distance[n][toId]

fScore(n) == Jump * gScore[n] + Distance[n][toId]

Nearest(n) == n \in open /\ \A m \in open : fScore(n) <= fScore(m)

Expand(n) ==
  LET through(m) == gScore[n] + EdgeCost(n, m)
      better == {m \in Nodes \ (closed \cup {n}) :
                   /\ MayJump(n, m)
                   /\ m \in DOMAIN gScore => through(m) < gScore[m]}
  IN
  /\ stage = "search" /\ n # toId /\ Nearest(n)
  /\ gScore' = [m \in DOMAIN gScore \cup better |->
                  IF m \in better THEN through(m) ELSE gScore[m]]
  /\ cameFrom' = [m \in Nodes |-> IF m \in better THEN n ELSE cameFrom[m]]
  /\ open' = (open \ {n}) \cup better
  /\ closed' = closed \cup {n}
  /\ UNCHANGED <<inputs, stage, current, path, result>>

\* The destination is the nearest: the way back to the origin begins.
Arrive ==
  /\ stage = "search" /\ Nearest(toId)
  /\ stage' = "retrace" /\ current' = toId /\ path' = <<>>
  /\ UNCHANGED <<inputs, search, result>>

Retrace ==
  /\ stage = "retrace" /\ cameFrom[current] # NoNode
  /\ path' = <<current>> \o path /\ current' = cameFrom[current]
  /\ UNCHANGED <<inputs, stage, search, result>>

\* Wherever the walk ends, the origin is put in front.
Found ==
  /\ stage = "retrace" /\ cameFrom[current] = NoNode
  /\ stage' = "shown"
  /\ result' = [path |-> <<fromId>> \o path, totalCost |-> gScore[toId]]
  /\ UNCHANGED <<inputs, search, current, path>>

GiveUp ==
  /\ stage = "search" /\ open = {}
  /\ stage' = "shown" /\ result' = NoRoute
  /\ UNCHANGED <<inputs, search, current, path>>

\* findRoute runs to its end before another event of the page is handled.
SetFrom(n) == stage = "shown" /\ Begin(n, toId, avoidHostile)
SetTo(n) == stage = "shown" /\ Begin(fromId, n, avoidHostile)
ToggleAvoid == stage = "shown" /\ Begin(fromId, toId, ~avoidHostile)
SwapEndpoints == stage = "shown" /\ Begin(toId, fromId, avoidHostile)

PlannerNext ==
  \/ Arrive \/ Retrace \/ Found \/ GiveUp
  \/ \E n \in Nodes : Expand(n)
  \/ \E n \in Nodes : SetFrom(n) \/ SetTo(n)
  \/ ToggleAvoid \/ SwapEndpoints

PlannerSpec == PlannerInit /\ [][PlannerNext]_plannerVars

-----------------------------------------------------------------------------
PlannerTypeOK ==
  /\ fromId \in Nodes /\ toId \in Nodes /\ avoidHostile \in BOOLEAN
  /\ stage \in {"search", "retrace", "shown"}
  /\ open \in SUBSET Nodes /\ closed \in SUBSET Nodes
  /\ gScore \in [open \cup closed -> Nat]
  /\ cameFrom \in [Nodes -> Nodes \cup {NoNode}]
  /\ current \in Nodes \cup {NoNode} /\ path \in Seq(Nodes)
  /\ result \in [path : Seq(Nodes), totalCost : Nat]

-----------------------------------------------------------------------------
\* The reference, without a search.
IsRoute(p) ==
  /\ p \in Seq(Nodes) /\ Len(p) >= 1
  /\ p[1] = fromId /\ p[Len(p)] = toId
  /\ \A i \in 1..Len(p) - 1 : MayJump(p[i], p[i + 1])

CostOf(p) == SumFunction([i \in 1..Len(p) - 1 |-> EdgeCost(p[i], p[i + 1])])

\* What is shown is a route at its true cost and no path of these is a cheaper
\* one, or none of them is a route.
CheapestOf(paths) ==
  stage = "shown" /\ fromId # toId =>
    \/ /\ result = NoRoute
       /\ \A p \in paths : ~IsRoute(p)
    \/ /\ IsRoute(result.path)
       /\ result.totalCost = CostOf(result.path)
       /\ \A p \in paths : IsRoute(p) => result.totalCost <= CostOf(p)

\* The paths that pass no gate twice, of any length a network of this size has.
Tours ==
  FoldLeft(LAMBDA tours, k :
             tours \cup {Append(e[1], e[2]) :
               e \in {e \in tours \X Nodes : /\ Joined(Last(e[1]), e[2])
                                             /\ \A i \in DOMAIN e[1] : e[1][i] # e[2]}},
           {<<n>> : n \in Nodes}, [k \in 1..Cardinality(Nodes) - 1 |-> k])

ToursOf ==
  [from \in Nodes |-> [to \in Nodes |-> {t \in Tours : Head(t) = from /\ Last(t) = to}]]

\* findRoute: a route that is shown goes along gates from the origin to the
\* destination, by no hostile one where these are avoided, costs what its
\* jumps cost, and no route costs less; none is shown only if there is none.
RouteIsCheapest == CheapestOf(ToursOf[fromId][toId])
=============================================================================
