----------------------------- MODULE MCBuilder -----------------------------
(***************************************************************************)
(* FrontierBuilder run on the three built-in problems and on one that can  *)
(* fail: a problem is tagged with its kind, and so are the states it hands *)
(* to the builder, which stands for the builder's type parameter.          *)
(***************************************************************************)
EXTENDS FrontierBuilder, MatchingProblem, CycleProblem, PathProblem

CONSTANT MaxEdges    \* bound of the model: edges of a graph

\* The edges of the complete graph on four vertices, some of them against the
\* order of the vertices.
Pairs == {<<0, 1>>, <<2, 0>>, <<0, 3>>, <<1, 2>>, <<3, 1>>, <<2, 3>>}

\* The longest lists begin with the edge between 0 and 3, one at 0 or one at
\* neither: others are the same up to names and the way an edge is written.
First == {<<0, 3>>, <<2, 0>>, <<1, 2>>}

\* Every graph with at most MaxEdges of these edges, in every edge order.
AllOrders ==
  UNION {{q \in [1 .. n -> Pairs] :
            (n = MaxEdges => q[1] \in First) /\ \A i, j \in 1 .. n : i # j => q[i] # q[j]} : n \in 0 .. MaxEdges}

\* The complete graph on four vertices, its edges in three orders.
Complete ==
  {<<<<0, 1>>, <<2, 0>>, <<0, 3>>, <<1, 2>>, <<3, 1>>, <<2, 3>>>>,
   <<<<0, 1>>, <<2, 3>>, <<2, 0>>, <<3, 1>>, <<0, 3>>, <<1, 2>>>>,
   <<<<2, 3>>, <<0, 1>>, <<1, 2>>, <<0, 3>>, <<3, 1>>, <<2, 0>>>>}

\* Two triangles: disjoint and processed alternately, disjoint and one after
\* the other, and sharing a vertex.  Two cycles can be selected at once here.
Triangles ==
  {<<<<0, 1>>, <<3, 4>>, <<1, 2>>, <<4, 5>>, <<0, 2>>, <<5, 3>>>>,
   <<<<0, 1>>, <<2, 1>>, <<0, 2>>, <<3, 4>>, <<4, 5>>, <<3, 5>>>>,
   <<<<1, 2>>, <<3, 4>>, <<0, 1>>, <<0, 3>>, <<0, 2>>, <<4, 0>>>>}

\* One cycle each; what these need lies among the limits below.
Rings ==
  {<<<<0, 1>>, <<2, 0>>, <<1, 2>>>>, <<<<0, 1>>, <<1, 2>>, <<2, 0>>>>, <<<<1, 2>>, <<2, 3>>, <<3, 1>>>>,
   <<<<1, 2>>, <<0, 3>>, <<0, 1>>, <<2, 3>>>>}

MostOrders == AllOrders \union Complete \union Triangles
Graphs == Complete \union Triangles

Enough == [states |-> 100, transitions |-> 1000, spare |-> 100]

Plain == [space |-> Enough, requested |-> {}, attached |-> FALSE]
Attached == [Plain EXCEPT !.attached = TRUE]

\* Limits of the space around what the small graphs need, one at a time.
Tight ==
  {[Enough EXCEPT !.states = n] : n \in 0 .. 4} \union
  {[Enough EXCEPT !.transitions = n] : n \in {0, 5, 6, 9, 10, 14}} \union
  {[Enough EXCEPT !.spare = n] : n \in 0 .. 3}

\* Limits requested for one build, below and above those of a space.
Requested == {[states |-> 2, transitions |-> 1000], [states |-> 100, transitions |-> 6]}

\* A base with a limit of its space, or without a token and with requests.
Limited(base) ==
  {[base EXCEPT !.space = l] : l \in Tight} \union
  {[Plain EXCEPT !.space = l, !.requested = {r}] :
     l \in {Enough, [Enough EXCEPT !.states = 1], [Enough EXCEPT !.transitions = 5]}, r \in Requested}

Cycles == [kind |-> "cycles"]
Paths(s, t) == [kind |-> "paths", source |-> s, target |-> t]

\* Any selection of at most one edge, with an error where a second one comes:
\* at the start, in transition or in finalize.
Failing(point) == [kind |-> "failing", point |-> point]

\* Paths between two pairs of endpoints, with an isolated endpoint, with equal
\* ones, and with one out of range.
AllProblems ==
  {[kind |-> "matchings"], Cycles, Paths(0, 3), Paths(2, 1), Paths(0, 4), Paths(2, 2), Paths(0, V)}
    \union {Failing(point) : point \in {"initial", "transition", "finalize"}}

\* Limits and a token matter to the builder alike whatever the problem is.
SettingsFor(p, es) ==
  CASE p = Cycles /\ Len(es) <= 2 -> Limited(Attached) \union {Plain, Attached}
    [] p = Cycles /\ es \in Rings -> Limited(Plain) \union {Plain, Attached}
    [] p.kind = "failing" -> IF Len(es) <= 3 THEN {Plain, Attached} ELSE {}
    [] p.kind = "paths" /\ p # Paths(0, 3) -> IF Len(es) <= 3 \/ es \in Graphs THEN {Plain} ELSE {}
    [] OTHER -> {Plain}

Tagged(p, own) == {[kind |-> p.kind, state |-> s] : s \in own}

InitialOf(p, vertices, es) ==
  Tagged(p, CASE p.kind = "matchings" -> MatchInitial(p, vertices, es)
              [] p.kind = "cycles" -> CycleInitial(p, vertices, es)
              [] p.kind = "paths" -> PathInitial(p, vertices, es)
              [] p.kind = "failing" -> IF p.point = "initial" THEN {} ELSE {[point |-> p.point, selected |-> 0]})

TransitionOf(p, s, step, choice) ==
  Tagged(p, CASE p.kind = "matchings" -> MatchTransition(p, s.state, step, choice)
              [] p.kind = "cycles" -> CycleTransition(p, s.state, step, choice)
              [] p.kind = "paths" -> PathTransition(p, s.state, step, choice)
              [] p.kind = "failing" ->
                   {[s.state EXCEPT !.selected = IF choice = "include" THEN @ + 1 ELSE @]})

TransitionFailsOf(p, s, step, choice) ==
  p = Failing("transition") /\ s.state.selected = 1 /\ choice = "include"

CanonicalOf(s, w) ==
  [s EXCEPT !.state = CASE s.kind = "matchings" -> MatchCanonicalize(@, w)
                        [] s.kind = "cycles" -> CycleCanonicalize(@, w)
                        [] s.kind = "paths" -> PathCanonicalize(@, w)
                        [] s.kind = "failing" -> @]

FinalizeOf(s) ==
  CASE s.kind = "matchings" -> MatchFinalize(s.state)
    [] s.kind = "cycles" -> CycleFinalize(s.state)
    [] s.kind = "paths" -> PathFinalize(s.state)
    [] s.kind = "failing" -> TRUE

FinalizeFailsOf(s) == s.kind = "failing" /\ s.state.selected > 1

AcceptsOf(p, es, S) ==
  CASE p.kind = "matchings" -> MatchAccepts(p, es, S)
    [] p.kind = "cycles" -> CycleAccepts(p, es, S)
    [] p.kind = "paths" -> PathAccepts(p, es, S)
    [] p.kind = "failing" -> TRUE

RefusesOf(p, vertices, es) ==
  \/ p.kind = "paths" /\ PathRefuses(p, vertices)
  \/ p = Failing("initial")
  \/ p.kind = "failing" /\ Len(es) > 1
=============================================================================
