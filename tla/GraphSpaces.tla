----------------------------- MODULE GraphSpaces -----------------------------
(***************************************************************************)
(* From a list of endpoint pairs to a GraphSpace: Graph::from_edges reads  *)
(* the pairs, an EdgeOrdering puts the edges into an order, and            *)
(* GraphSpaceBuilder::build gives edge number k of the order to variable k.*)
(*                                                                         *)
(* Vertices, edges, variables and levels count from 0 as in the code; edge *)
(* e is edges[e + 1].                                                      *)
(***************************************************************************)
EXTENDS Integers, SequencesExt

CONSTANTS
  V,           \* vertex_count
  Inputs,      \* edge lists the program may pass to from_edges
  Listings,    \* edge lists it may pass to EdgeOrder::new
  Foreign,     \* what a user-written EdgeOrdering may return: orders of any graph
  Capacities   \* Limits::max_live_nodes

IsOrder(q) == Range(q) = 0 .. Len(q) - 1

\* An EdgeOrder can only be got from EdgeOrder::new, for some graph.
ASSUME GraphSpacesAssumption ==
  /\ V \in Nat
  /\ Inputs \subseteq Seq(Nat \X Nat)
  /\ Listings \subseteq Seq(Nat)
  /\ \A q \in Foreign : q \in Seq(Nat) /\ IsOrder(q)
  /\ Capacities \subseteq Nat

VARIABLES
  input,             \* the argument of from_edges
  capacity,          \* the limit of the space
  stage,             \* "graph", "choose", "bfs", "validate", "create", "map" or "done"
  edges,             \* the endpoints stored so far
  visited,           \* visited_vertices
  queue,             \* vertices whose edges are still to be examined
  order,             \* the order, while BfsOrder emits it and afterwards
  strategy,          \* who made the order
  edge_to_variable,  \* a partial function: an absent edge is None
  variable_to_edge,
  outcome            \* how the program ended

graph_vars == <<input, capacity, edges>>
bfs_vars == <<visited, queue>>
map_vars == <<edge_to_variable, variable_to_edge>>
vars == <<graph_vars, stage, bfs_vars, order, strategy, map_vars, outcome>>

\* An outcome with the numbers an error carries.
Outcome(kind, numbers) == [kind |-> kind, numbers |-> numbers]

Unmapped == [e \in {} |-> 0]

Vertex == 0 .. V - 1
EdgeCount == Len(edges)

Init ==
  /\ input \in Inputs
  /\ capacity \in Capacities
  /\ stage = "graph"
  /\ edges = << >>
  /\ visited = {} /\ queue = << >>
  /\ order = << >>
  /\ strategy = "none"
  /\ edge_to_variable = Unmapped /\ variable_to_edge = << >>
  /\ outcome = Outcome("none", << >>)

Return(o) == stage' = "done" /\ outcome' = o

----------------------------------------------------------------------------
(* Graph::from_edges: one pair at a time.                                  *)

\* Mutant: a duplicate in the other orientation is not seen.
SameEdgeOriented(p, q) == p = q

\* The key of `seen` is the pair in ascending order.
SameEdge(p, q) == {p[1], p[2]} = {q[1], q[2]}

Pair == input[EdgeCount + 1]

OutOfRange == {k \in 1 .. 2 : Pair[k] >= V}

Earlier == {i \in 1 .. EdgeCount : SameEdge(edges[i], Pair)}

\* Why a pair is refused, an option.
PairError ==
  IF OutOfRange # {} THEN {Outcome("invalid_vertex", <<Pair[Min(OutOfRange)]>>)}
  ELSE IF Pair[1] = Pair[2] THEN {Outcome("self_loop", <<EdgeCount, Pair[1]>>)}
  ELSE {Outcome("duplicate_edge", <<i - 1, EdgeCount>>) : i \in Earlier}

ReadingGraph == stage = "graph" /\ EdgeCount < Len(input)

AddEdge ==
  /\ ReadingGraph /\ PairError = {}
  /\ edges' = Append(edges, Pair)
  /\ UNCHANGED <<input, capacity, stage, bfs_vars, order, strategy, map_vars, outcome>>

RefuseEdge ==
  /\ ReadingGraph
  /\ \E error \in PairError : Return(error)
  /\ UNCHANGED <<graph_vars, bfs_vars, order, strategy, map_vars>>

FinishGraph ==
  /\ stage = "graph" /\ EdgeCount = Len(input)
  /\ stage' = "choose"
  /\ UNCHANGED <<graph_vars, bfs_vars, order, strategy, map_vars, outcome>>

----------------------------------------------------------------------------
(* The EdgeOrdering.                                                       *)

\* InputOrder, or EdgeOrder::new and later EdgeOrder as a strategy, which
\* validates the same list again: a list on its way to validation.
ListEdges ==
  /\ stage = "choose"
  /\ \/ /\ strategy' = "input"
        /\ order' = [i \in 1 .. EdgeCount |-> i - 1]
     \/ /\ strategy' = "listed"
        /\ order' \in Listings
  /\ stage' = "validate"
  /\ UNCHANGED <<graph_vars, bfs_vars, map_vars, outcome>>

\* A strategy of the user returns an EdgeOrder, which nobody validates again.
TrustOrder ==
  /\ stage = "choose"
  /\ strategy' = "foreign"
  /\ order' \in Foreign
  /\ stage' = "create"
  /\ UNCHANGED <<graph_vars, bfs_vars, map_vars, outcome>>

\* Or it returns an error, which build passes on.
FailOrdering ==
  /\ stage = "choose"
  /\ strategy' = "failed"
  /\ Return(Outcome("ordering_error", << >>))
  /\ UNCHANGED <<graph_vars, bfs_vars, order, map_vars>>

StartBfs ==
  /\ stage = "choose"
  /\ strategy' = "bfs"
  /\ stage' = "bfs"
  /\ UNCHANGED <<graph_vars, bfs_vars, order, map_vars, outcome>>

Ends(e) == {edges[e + 1][1], edges[e + 1][2]}

\* The elements of q that are in S, in the order of q.
Kept(q, S) ==
  LET kept[n \in 0 .. Len(q)] ==
        IF n = 0 THEN << >> ELSE IF q[n] \in S THEN Append(kept[n - 1], q[n]) ELSE kept[n - 1]
  IN kept[Len(q)]

\* incident[v]: its edges in input order.
Incident(v) == Kept([i \in 1 .. EdgeCount |-> i - 1], {e \in 0 .. EdgeCount - 1 : v \in Ends(e)})

Neighbor(v, e) == CHOOSE w \in Ends(e) : w # v

\* The next component starts at the smallest vertex not visited.
StartComponent ==
  /\ stage = "bfs" /\ queue = << >> /\ visited # Vertex
  /\ LET root == Min(Vertex \ visited)
     IN visited' = visited \union {root} /\ queue' = <<root>>
  /\ UNCHANGED <<graph_vars, stage, order, strategy, map_vars, outcome>>

NotYet(q, S) == Kept(q, Range(q) \ S)

Neighbors(v) == [i \in DOMAIN Incident(v) |-> Neighbor(v, Incident(v)[i])]

\* Mutant: the vertex found last is visited next.
VisitVertexDeep ==
  /\ stage = "bfs" /\ queue # << >>
  /\ order' = order \o NotYet(Incident(Head(queue)), Range(order))
  /\ queue' = NotYet(Neighbors(Head(queue)), visited) \o Tail(queue)
  /\ visited' = visited \union Range(Neighbors(Head(queue)))
  /\ UNCHANGED <<graph_vars, stage, strategy, map_vars, outcome>>

\* Each edge and each neighbor of a vertex comes once, for the graph is simple.
VisitVertex ==
  /\ stage = "bfs" /\ queue # << >>
  /\ order' = order \o NotYet(Incident(Head(queue)), Range(order))
  /\ queue' = Tail(queue) \o NotYet(Neighbors(Head(queue)), visited)
  /\ visited' = visited \union Range(Neighbors(Head(queue)))
  /\ UNCHANGED <<graph_vars, stage, strategy, map_vars, outcome>>

FinishBfs ==
  /\ stage = "bfs" /\ queue = << >> /\ visited = Vertex
  /\ stage' = "validate"
  /\ UNCHANGED <<graph_vars, bfs_vars, order, strategy, map_vars, outcome>>

\* EdgeOrder::new: the length first, then the first entry that is out of range
\* or has been seen.
BadEntry(i) == order[i] >= EdgeCount \/ order[i] \in {order[j] : j \in 1 .. i - 1}

OrderError ==
  IF Len(order) # EdgeCount
  THEN {Outcome("invalid_edge_order_length", <<EdgeCount, Len(order)>>)}
  ELSE {Outcome(IF order[i] >= EdgeCount THEN "invalid_edge" ELSE "duplicate_ordered_edge", <<order[i]>>) :
          i \in {i \in DOMAIN order : BadEntry(i) /\ \A j \in 1 .. i - 1 : ~BadEntry(j)}}

AcceptOrder ==
  /\ stage = "validate" /\ OrderError = {}
  /\ stage' = "create"
  /\ UNCHANGED <<graph_vars, bfs_vars, order, strategy, map_vars, outcome>>

RefuseOrder ==
  /\ stage = "validate"
  /\ \E error \in OrderError : Return(error)
  /\ UNCHANGED <<graph_vars, bfs_vars, order, strategy, map_vars>>

----------------------------------------------------------------------------
(* GraphSpaceBuilder::build once it has its order.                         *)

\* FamilySpaceBuilder::build: the space needs two nodes per variable.
InitialNodes == 2 * EdgeCount

RefuseSpace ==
  /\ stage = "create" /\ InitialNodes > capacity
  /\ Return(Outcome("node_limit", <<capacity, InitialNodes>>))
  /\ UNCHANGED <<graph_vars, bfs_vars, order, strategy, map_vars>>

CreateSpace ==
  /\ stage = "create" /\ InitialNodes <= capacity
  /\ stage' = "map"
  /\ UNCHANGED <<graph_vars, bfs_vars, order, strategy, map_vars, outcome>>

Level == Len(variable_to_edge)
Mapping == stage = "map" /\ Level < Len(order)

\* The order has more entries than the space has variables.
RefuseLevel ==
  /\ Mapping /\ Level >= EdgeCount
  /\ Return(Outcome("invalid_element", <<Level, EdgeCount>>))
  /\ UNCHANGED <<graph_vars, bfs_vars, order, strategy, map_vars>>

\* edge_to_variable is indexed beyond its end.
Panic ==
  /\ Mapping /\ Level < EdgeCount /\ order[Level + 1] >= EdgeCount
  /\ Return(Outcome("panic", <<order[Level + 1]>>))
  /\ UNCHANGED <<graph_vars, bfs_vars, order, strategy, map_vars>>

MapEdge ==
  /\ Mapping /\ Level < EdgeCount /\ order[Level + 1] < EdgeCount
  /\ edge_to_variable' =
       [e \in DOMAIN edge_to_variable \union {order[Level + 1]} |->
          IF e = order[Level + 1] THEN Level ELSE edge_to_variable[e]]
  /\ variable_to_edge' = Append(variable_to_edge, order[Level + 1])
  /\ UNCHANGED <<graph_vars, stage, bfs_vars, order, strategy, outcome>>

\* Mutant: edges without a variable are not noticed.
FinishSpaceUnchecked ==
  /\ stage = "map" /\ Level = Len(order)
  /\ Return(Outcome("ok", << >>))
  /\ UNCHANGED <<graph_vars, bfs_vars, order, strategy, map_vars>>

FinishSpace ==
  /\ stage = "map" /\ Level = Len(order)
  /\ Return(IF DOMAIN edge_to_variable = 0 .. EdgeCount - 1
            THEN Outcome("ok", << >>) ELSE Outcome("capacity_overflow", << >>))
  /\ UNCHANGED <<graph_vars, bfs_vars, order, strategy, map_vars>>

Next ==
  \/ AddEdge \/ RefuseEdge \/ FinishGraph
  \/ ListEdges \/ TrustOrder \/ FailOrdering
  \/ StartBfs \/ StartComponent \/ VisitVertex \/ FinishBfs
  \/ AcceptOrder \/ RefuseOrder
  \/ RefuseSpace \/ CreateSpace \/ RefuseLevel \/ Panic \/ MapEdge \/ FinishSpace

Spec == Init /\ [][Next]_vars
----------------------------------------------------------------------------
(* Properties.                                                             *)

IsSimple(pairs) ==
  \A i \in DOMAIN pairs :
    /\ \A k \in 1 .. 2 : pairs[i][k] \in Vertex
    /\ pairs[i][1] # pairs[i][2]
    /\ \A j \in DOMAIN pairs \ {i} : {pairs[i][1], pairs[i][2]} # {pairs[j][1], pairs[j][2]}

\* Exactly the simple graphs are accepted, and of the lists of edges exactly the
\* permutations of all edges (ZF-ORDER-001 in docs/specification.md).  The
\* edges before the one an error of from_edges is about form a simple graph,
\* and the built-in strategies are never refused.
AcceptsExactly ==
  /\ IsSimple(edges)
  /\ stage # "graph" /\ EdgeCount = Len(input) => edges = input
  /\ outcome.kind \in {"invalid_vertex", "self_loop", "duplicate_edge"} =>
       ~IsSimple(SubSeq(input, 1, EdgeCount + 1))
  /\ stage = "create" /\ strategy # "foreign" => Len(order) = EdgeCount /\ IsOrder(order)
  /\ outcome.kind \in {"invalid_edge_order_length", "invalid_edge", "duplicate_ordered_edge"} =>
       strategy = "listed" /\ ~(Len(order) = EdgeCount /\ IsOrder(order))

\* S with the other ends of all edges at it, and the vertices at most k edges
\* away from r.
Grown(S) == S \union UNION {Ends(e) : e \in {e \in 0 .. EdgeCount - 1 : Ends(e) \intersect S # {}}}

Ball(r, k) ==
  LET within[n \in 0 .. V] == IF n = 0 THEN {r} ELSE Grown(within[n - 1])
  IN within[k]

\* The smallest vertex of the component of a vertex, and how far it is.
Root == [v \in Vertex |-> Min(Ball(v, V))]

Distance == LET root == Root IN [v \in Vertex |-> Min({k \in 0 .. V : v \in Ball(root[v], k)})]

\* The doc of BfsOrder: components come in the order of their smallest vertex
\* and are not mixed, the edges of a component by the distance from that vertex
\* at which the search meets them, each edge once, and isolated vertices lose
\* nothing.
BreadthFirst ==
  strategy = "bfs" /\ stage = "validate" =>
    LET root == Root
        distance == Distance
        Component(e) == root[Min(Ends(e))]
        Depth(e) == Min({distance[v] : v \in Ends(e)})
    IN /\ Len(order) = EdgeCount /\ IsOrder(order)
       /\ \A i, j \in DOMAIN order : i < j =>
            \/ Component(order[i]) < Component(order[j])
            \/ Component(order[i]) = Component(order[j]) /\ Depth(order[i]) <= Depth(order[j])

\* Whatever order a strategy returns, a space exists only with two maps that
\* are inverse bijections between all edges and all variables.  Then the edges
\* in variable order are what FrontierPlan assumes: a simple graph's.  With a
\* strategy that keeps the contract of EdgeOrdering, build fails only at the node
\* limit.
MapsInverse ==
  /\ outcome.kind = "ok" =>
       /\ DOMAIN edge_to_variable = 0 .. EdgeCount - 1
       /\ Len(variable_to_edge) = EdgeCount
       /\ \A e \in 0 .. EdgeCount - 1 : variable_to_edge[edge_to_variable[e] + 1] = e
       /\ IsSimple([i \in 1 .. EdgeCount |-> edges[variable_to_edge[i] + 1]])
  /\ stage = "done" /\ strategy # "failed" /\ Len(order) = EdgeCount /\ IsOrder(order)
       /\ EdgeCount = Len(input) => outcome.kind \in {"ok", "node_limit"}

\* ZF-ORDER-001 and ZF-ERR-001 in docs/specification.md: an ordering is validated
\* as a permutation of all edges, invalid input is reported by a Result and, by
\* line 154 there, never by a panic.
NeverPanics == outcome.kind # "panic"
=============================================================================
