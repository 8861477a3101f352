------------------------------- MODULE GateData -------------------------------
(***************************************************************************)
(* The gate network of the route planner: frontend/src/lib/gate-data.ts.   *)
(* Nodes have their index, counted from 1; positions are in hundredths of  *)
(* the canvas.                                                             *)
(***************************************************************************)
EXTENDS Integers, Sequences

NODES == <<[x |-> 14, y |-> 22], [x |-> 34, y |-> 13], [x |-> 56, y |-> 18],
           [x |-> 74, y |-> 32], [x |-> 19, y |-> 52], [x |-> 42, y |-> 46],
           [x |-> 63, y |-> 57], [x |-> 81, y |-> 62], [x |-> 42, y |-> 76]>>

EDGES == {<<1, 2>>, <<2, 3>>, <<3, 4>>, <<1, 5>>, <<2, 6>>, <<3, 6>>, <<4, 7>>,
          <<5, 6>>, <<6, 7>>, <<7, 8>>, <<5, 9>>, <<6, 9>>, <<7, 9>>}

NODE_THREATS == <<"hostile", "camped", "clear", "hostile", "unknown", "camped",
                  "clear", "unknown", "camped">>

\* The distance of two nodes, in whole hundredths: less of it than there is, so
\* that of two nodes the one nearer on the canvas is never the farther one here.
Heuristic(a, b) ==
  LET dx == NODES[a].x - NODES[b].x
      dy == NODES[a].y - NODES[b].y
      square == dx * dx + dy * dy
  IN CHOOSE d \in 0..141 : d * d <= square /\ square < (d + 1) * (d + 1)
=============================================================================
