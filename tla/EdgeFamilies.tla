----------------------------- MODULE EdgeFamilies -----------------------------
(***************************************************************************)
(* Typed edge families over graph spaces (graph/edge_family.rs,            *)
(* graph_space.rs, compaction.rs, edge_solution.rs): a family of sets of   *)
(* variables together with the space whose maps say which edge a variable  *)
(* is.  Calls check the context, map edges to variables, let the set       *)
(* family do the work and map variables back to edges; the membership test *)
(* of zdd/query.rs walks the diagram.                                      *)
(*                                                                         *)
(* Binary operations, filters, construction, import, sampling and frontier *)
(* builds appear at the promise that the modules on them establish.        *)
(***************************************************************************)
EXTENDS Families, Sequences, Functions

CONSTANTS
  Spaces,      \* the spaces of one graph: lists of variable_to_edge maps
  EdgeLists, SetLists, Solutions, Ranges, MaxCalls   \* see EdgeFamilyCalls

Edge == Var

\* What GraphSpaceBuilder::build guarantees: the map of a space has an inverse
\* (MapsInverse in GraphSpaces).
ASSUME SpacesAssumption == Spaces \subseteq Seq(Bijection(Var, Edge))

\* Edge ids are numbers; a graph problem has selections of edges as solutions.
ASSUME ArgumentsAssumption ==
  /\ EdgeLists \subseteq Seq(Nat)
  /\ SetLists \subseteq Seq(Seq(Nat))
  /\ Solutions \subseteq SUBSET SUBSET Edge

VARIABLES
  spaces,    \* variable_to_edge of every graph space
  held,      \* edge families: the context and the family of sets of variables
  call, calls,
  stage,     \* "idle", "map", "run" or "walk"
  mapped,    \* the argument lists as variables, as far as they are mapped
  walk,      \* the membership test: remainder and set_index
  answer,
  iterator   \* an option: the context and the solutions still to come

edgeVars == <<spaces, held, call, calls, stage, mapped, walk, answer, iterator>>

NoWalk == [remainder |-> Zero, index |-> 0]

EdgesOf(c, S) == {spaces[c][v] : v \in S}

\* Variables of edges, and the edges of a set of variables in variable order.
EdgeToVariable(c, e) == CHOOSE v \in Var : spaces[c][v] = e

EdgeFamily(f) == [space |-> f.space, family |-> {EdgesOf(f.space, S) : S \in f.family}]

EdgeIterator(it) == [space |-> it.space, left |-> {EdgesOf(it.space, S) : S \in it.left}]

\* The edges of a space in variable order.
VariableToEdge(c) == [i \in 1 .. N |-> spaces[c][i - 1]]

\* What the caller sees of the state.
SeenOrders == [c \in DOMAIN spaces |-> VariableToEdge(c)]
SeenHeld == {EdgeFamily(f) : f \in held}
SeenCall == [call EXCEPT !.on = [i \in DOMAIN @ |-> EdgeFamily(@[i])]]
SeenAnswer == [answer EXCEPT !.families = [i \in DOMAIN @ |-> EdgeFamily(@[i])]]
SeenIterator == {EdgeIterator(it) : it \in iterator}

Calls ==
  INSTANCE EdgeFamilyCalls WITH
    orders <- SeenOrders, held <- SeenHeld, call <- SeenCall, busy <- stage # "idle",
    answer <- SeenAnswer, iterator <- SeenIterator

EdgeInit ==
  /\ spaces \in Spaces
  /\ held = {}
  /\ call = Calls!Plain("empty", 1, << >>)
  /\ calls = 0
  /\ stage = "idle"
  /\ mapped = << >>
  /\ walk = NoWalk
  /\ answer = Calls!NoAnswer
  /\ iterator = {}

BeginCall ==
  /\ stage = "idle" /\ calls < MaxCalls
  /\ call' \in Calls!Requests(held, Len(spaces))
  /\ calls' = calls + 1
  /\ stage' = "map"
  /\ answer' = Calls!NoAnswer
  /\ UNCHANGED <<spaces, held, mapped, walk, iterator>>

Return(a) ==
  /\ answer' = a
  /\ stage' = "idle"
  /\ mapped' = << >>
  /\ walk' = NoWalk

----------------------------------------------------------------------------
(* Checks and the way from edges to variables.                             *)

\* ensure_same_context, and the same test for every family to be compacted.
SameContext == \A f \in Range(call.on) : f.space = call.space

RefuseContext ==
  /\ stage = "map" /\ ~SameContext
  /\ Return(Calls!Error("context_mismatch"))
  /\ UNCHANGED <<spaces, held, call, calls, iterator>>

CurrentList == call.lists[Len(mapped) + 1]

Mapping == stage = "map" /\ SameContext /\ Len(mapped) < Len(call.lists)

RefuseEdge ==
  /\ Mapping /\ ~(Range(CurrentList) \subseteq Edge)
  /\ Return(Calls!Error("invalid_edge"))
  /\ UNCHANGED <<spaces, held, call, calls, iterator>>

\* map_edges.
Variables(q) == [i \in DOMAIN q |-> EdgeToVariable(call.space, q[i])]

MapEdges ==
  /\ Mapping /\ Range(CurrentList) \subseteq Edge
  /\ mapped' = Append(mapped, Variables(CurrentList))
  /\ UNCHANGED <<spaces, held, call, calls, stage, walk, answer, iterator>>

EnterFamily ==
  /\ stage = "map" /\ SameContext /\ Len(mapped) = Len(call.lists)
  /\ stage' = IF call.op = "contains" THEN "walk" ELSE "run"
  /\ walk' = IF call.op = "contains" THEN [remainder |-> call.on[1].family, index |-> 0] ELSE NoWalk
  /\ UNCHANGED <<spaces, held, call, calls, mapped, answer, iterator>>

----------------------------------------------------------------------------
(* The membership test: down the diagram and along the normalized list.    *)

\* Mutant: the variables stay in the order in which the edges were listed.
NormalizedUnsorted(q) == q

\* The elements of a set of numbers in ascending order.
Sorted(S) == CHOOSE q \in [1 .. Cardinality(S) -> S] : \A i, j \in DOMAIN q : i < j => q[i] < q[j]

\* Sorted and without repetitions.
Normalized(q) == Sorted(Range(q))

Wanted == Normalized(mapped[1])
Remaining == SubSeq(Wanted, walk.index + 1, Len(Wanted))

Upcoming(vs) == {Head(q) : q \in {vs} \ {<< >>}}

\* The answer is no at ZERO, and when a wanted variable has been passed.
WalkMiss ==
  /\ stage = "walk"
  /\ \/ walk.remainder = Zero
     \/ walk.remainder = One /\ Remaining # << >>
     \/ walk.remainder \notin Terminals /\ \E v \in Upcoming(Remaining) : v < TopVar(walk.remainder)
  /\ Return(Calls!Truth(FALSE))
  /\ UNCHANGED <<spaces, held, call, calls, iterator>>

WalkHit ==
  /\ stage = "walk"
  /\ walk.remainder = One /\ Remaining = << >>
  /\ Return(Calls!Truth(TRUE))
  /\ UNCHANGED <<spaces, held, call, calls, iterator>>

\* HI when the variable is the next wanted one, LO when it is not wanted.
WalkDown ==
  /\ stage = "walk" /\ walk.remainder \notin Terminals
  /\ LET variable == TopVar(walk.remainder)
     IN /\ \A v \in Upcoming(Remaining) : v >= variable
        /\ walk' = IF variable \in Upcoming(Remaining)
                   THEN [remainder |-> Hi(variable, walk.remainder), index |-> walk.index + 1]
                   ELSE [walk EXCEPT !.remainder = Lo(variable, @)]
  /\ UNCHANGED <<spaces, held, call, calls, stage, mapped, answer, iterator>>

----------------------------------------------------------------------------
(* The calls on the set family and the way back to edges.                  *)

\* Calls that create nodes or copy diagrams may meet a limit of the space.
\* Compaction does not (NodeLimitsExact in Compaction).
FamilyLimit ==
  /\ stage = "run" /\ call.op \notin Calls!Infallible
  /\ Return(Calls!Error("limit"))
  /\ UNCHANGED <<spaces, held, call, calls, iterator>>

Operand(i) == call.on[i].family
Wanting == Range(mapped[1])

\* exactly, at_most, at_least and between as inclusive ranges.
HasCardinality(S) == call.range[1] <= Cardinality(S) /\ Cardinality(S) <= call.range[2]

Keeps(S) ==
  CASE call.op = "filter_contains" -> mapped[1][1] \in S
    [] call.op = "filter_excludes" -> mapped[1][1] \notin S
    [] call.op = "filter_subsets_of" -> S \subseteq Wanting
    [] call.op = "filter_supersets_of" -> Wanting \subseteq S
    [] call.op = "cardinality" -> HasCardinality(S)

FamilyResult ==
  CASE call.op = "empty" -> Zero
    [] call.op = "unit" -> One
    [] call.op = "powerset" -> Powerset
    [] call.op = "from_edge_sets" -> {Range(q) : q \in Range(mapped)}
    [] call.op = "build" -> {S \in Powerset : EdgesOf(call.space, S) \in call.target}
    [] call.op \in Ops -> Denote(call.op, Operand(1), Operand(2))
    [] OTHER -> {S \in Operand(1) : Keeps(S)}

Wrap(c, F) == [space |-> c, family |-> F]

Own(fs) ==
  /\ Return(Calls!Gives(fs))
  /\ held' = held \union Range(fs)

MakeFamily ==
  /\ stage = "run" /\ call.op \in Calls!Producing
  /\ Own(<<Wrap(call.space, FamilyResult)>>)
  /\ UNCHANGED <<spaces, call, calls, iterator>>

\* Roots are compared; a subset is a difference that is empty.
CompareFamilies ==
  /\ stage = "run"
  /\ \/ call.op = "equivalent" /\ Return(Calls!Truth(Operand(1) = Operand(2)))
     \/ call.op = "is_subset_of" /\ Return(Calls!Truth(Denote("difference", Operand(1), Operand(2)) = Zero))
  /\ UNCHANGED <<spaces, held, call, calls, iterator>>

\* A solution is a list of variables in ascending order.
EdgeSolution(c, S) ==
  LET solution == Sorted(S) IN [i \in DOMAIN solution |-> spaces[c][solution[i]]]

SampleFamily ==
  /\ stage = "run" /\ call.op = "sample"
  /\ \/ Operand(1) = Zero /\ Return(Calls!Solution("no_solution", << >>))
     \/ \E S \in Operand(1) : Return(Calls!Solution("solution", EdgeSolution(call.space, S)))
  /\ UNCHANGED <<spaces, held, call, calls, iterator>>

\* The new space has the order of the old one.
CompactFamilies ==
  /\ stage = "run" /\ call.op = "compact"
  /\ spaces' = Append(spaces, spaces[call.space])
  /\ Own([i \in DOMAIN call.on |-> Wrap(Len(spaces) + 1, Operand(i))])
  /\ UNCHANGED <<call, calls, iterator>>

----------------------------------------------------------------------------
(* EdgeFamily::iter and visit_solutions: a snapshot that outlives calls.   *)

Iterate ==
  /\ stage = "idle" /\ calls < MaxCalls
  /\ \E f \in held : iterator' = {[space |-> f.space, left |-> f.family]}
  /\ answer' = Calls!NoAnswer
  /\ calls' = calls + 1
  /\ UNCHANGED <<spaces, held, call, stage, mapped, walk>>

\* Exclude first: of two solutions, the one without their least difference.
Earlier(S, T) == \E v \in T \ S : \A w \in (S \ T) \union (T \ S) : v <= w

NextSolution ==
  /\ stage = "idle"
  /\ \E it \in iterator : \E S \in it.left :
       /\ \A T \in it.left \ {S} : Earlier(S, T)
       /\ answer' = Calls!Solution("solution", EdgeSolution(it.space, S))
       /\ iterator' = {[it EXCEPT !.left = @ \ {S}]}
  /\ UNCHANGED <<spaces, held, call, calls, stage, mapped, walk>>

Exhaust ==
  /\ stage = "idle"
  /\ \E it \in iterator : it.left = {}
  /\ iterator' = {}
  /\ answer' = Calls!Solution("no_solution", << >>)
  /\ UNCHANGED <<spaces, held, call, calls, stage, mapped, walk>>

Work ==
  \/ RefuseContext \/ RefuseEdge \/ MapEdges \/ EnterFamily
  \/ WalkMiss \/ WalkHit \/ WalkDown
  \/ FamilyLimit \/ MakeFamily \/ CompareFamilies \/ SampleFamily \/ CompactFamilies

EdgeNext == BeginCall \/ Work \/ Iterate \/ NextSolution \/ Exhaust

EdgeSpec == EdgeInit /\ [][EdgeNext]_edgeVars

\* A call runs on its caller's thread and is never paused for ever.
FairSpec == EdgeSpec /\ WF_edgeVars(Work)

----------------------------------------------------------------------------
(* Property.                                                               *)

\* Seen as families of edges, the calls are what EdgeFamilyCalls promises,
\* whatever order each space gives the edges: the maps are used in the right
\* direction on the way in and out, also in a compacted space and in an
\* iterator that outlives other calls; a membership test with edges in any
\* order and repeated finds exactly the members; families of two spaces of one
\* graph are never combined; and every call is answered.
ImplementsEdgeFamilyCalls == Calls!FairSpec
=============================================================================
