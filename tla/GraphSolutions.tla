--------------------------- MODULE GraphSolutions ---------------------------
(***************************************************************************)
(* The edge sets that GraphSpace::matchings, cycles and paths promise      *)
(* (graph/graph_space.rs), defined on the graph: edges is a sequence of    *)
(* endpoint pairs and S a set of its indices.                              *)
(***************************************************************************)
EXTENDS Integers, Sequences, FiniteSets

EndsOf(edges, i) == {edges[i][1], edges[i][2]}

DegreeIn(edges, S, v) == Cardinality({i \in S : v \in EndsOf(edges, i)})

Touched(edges, S) == UNION {EndsOf(edges, i) : i \in S}

\* No part of S is cut off from the rest of it.
IsConnected(edges, S) ==
  \A T \in (SUBSET S) \ {{}, S} : Touched(edges, T) \intersect Touched(edges, S \ T) # {}

\* No two edges share an endpoint.
IsMatching(edges, S) ==
  \A i, j \in S : i # j => EndsOf(edges, i) \intersect EndsOf(edges, j) = {}

\* One simple cycle.
IsCycle(edges, S) ==
  /\ S # {}
  /\ \A v \in Touched(edges, S) : DegreeIn(edges, S, v) = 2
  /\ IsConnected(edges, S)

\* One vertex-simple path from s to t.
IsPath(edges, S, s, t) ==
  /\ \A v \in Touched(edges, S) \union {s, t} :
       DegreeIn(edges, S, v) = IF v \in {s, t} THEN 1 ELSE 2
  /\ IsConnected(edges, S)
=============================================================================
