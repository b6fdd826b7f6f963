---------------------------- MODULE FrontierPlan ----------------------------
(***************************************************************************)
(* FrontierPlan::new: the schedule by which the frontier method processes  *)
(* the edges of a simple graph in a fixed order.  A first pass over the    *)
(* edges finds the first and last edge of each vertex; a second pass gives *)
(* every vertex a slot when its first edge is processed and takes it back  *)
(* after its last one.  Levels count from 1 here and from 0 in the code.   *)
(***************************************************************************)
EXTENDS Integers, Sequences, FiniteSets

CONSTANTS
  V,        \* number of vertices
  Orders    \* ordered edge sequences of the graphs to plan for

Vertex == 0 .. V - 1

\* The last conjunct is what Graph::from_edges accepts: no loop, no duplicate.
ASSUME FrontierPlanAssumption ==
  /\ V \in Nat
  /\ Orders \subseteq Seq(Vertex \X Vertex)
  /\ \A edges \in Orders : \A i \in DOMAIN edges :
       /\ edges[i][1] # edges[i][2]
       /\ \A j \in DOMAIN edges \ {i} :
            {edges[i][1], edges[i][2]} # {edges[j][1], edges[j][2]}

None == -1

VARIABLES
  edges,       \* endpoints of the edges in processing order
  phase,       \* "scan", "plan" or "done"
  level,       \* the edge processed next
  first,       \* first_incident
  last,        \* last_incident
  remaining,   \* per vertex: incident edges not processed yet
  slots,       \* vertex_slots
  free,        \* free_slots, popped smallest first
  next_slot,   \* slots ever allocated
  active,      \* vertices that hold a slot
  steps        \* the StepData planned so far

plan == <<edges, phase, level, first, last, remaining, slots, free, next_slot, active, steps>>

Ends(i) == {edges[i][1], edges[i][2]}

----------------------------------------------------------------------------
PlanInit ==
  /\ edges \in Orders
  /\ phase = "scan"
  /\ level = 1
  /\ first = [v \in Vertex |-> None]
  /\ last = [v \in Vertex |-> None]
  /\ remaining = [v \in Vertex |-> 0]
  /\ slots = [v \in Vertex |-> None]
  /\ free = {}
  /\ next_slot = 0
  /\ active = 0
  /\ steps = << >>

\* Mutants: the first edge is overwritten; the last edge is the first one.
ScanForgetsFirst ==
  /\ phase = "scan" /\ level <= Len(edges)
  /\ first' = [v \in Vertex |-> IF v \in Ends(level) THEN level ELSE first[v]]
  /\ last' = [v \in Vertex |-> IF v \in Ends(level) THEN level ELSE last[v]]
  /\ remaining' = [v \in Vertex |-> IF v \in Ends(level) THEN remaining[v] + 1 ELSE remaining[v]]
  /\ level' = level + 1
  /\ UNCHANGED <<edges, phase, slots, free, next_slot, active, steps>>

ScanKeepsLast ==
  /\ phase = "scan" /\ level <= Len(edges)
  /\ first' = [v \in Vertex |-> IF v \in Ends(level) /\ first[v] = None THEN level ELSE first[v]]
  /\ last' = [v \in Vertex |-> IF v \in Ends(level) /\ last[v] = None THEN level ELSE last[v]]
  /\ remaining' = [v \in Vertex |-> IF v \in Ends(level) THEN remaining[v] + 1 ELSE remaining[v]]
  /\ level' = level + 1
  /\ UNCHANGED <<edges, phase, slots, free, next_slot, active, steps>>

Scan ==
  /\ phase = "scan" /\ level <= Len(edges)
  /\ first' = [v \in Vertex |-> IF v \in Ends(level) /\ first[v] = None THEN level ELSE first[v]]
  /\ last' = [v \in Vertex |-> IF v \in Ends(level) THEN level ELSE last[v]]
  /\ remaining' = [v \in Vertex |-> IF v \in Ends(level) THEN remaining[v] + 1 ELSE remaining[v]]
  /\ level' = level + 1
  /\ UNCHANGED <<edges, phase, slots, free, next_slot, active, steps>>

StartPlan ==
  /\ phase = "scan" /\ level = Len(edges) + 1
  /\ phase' = "plan"
  /\ level' = 1
  /\ UNCHANGED <<edges, first, last, remaining, slots, free, next_slot, active, steps>>

\* The allocator: the smallest free slot, or a new one.
Allocator == [slots |-> slots, free |-> free, next |-> next_slot, active |-> active]

IsLeast(s, S) == s \in S /\ \A r \in S : s <= r

Grant(a) == IF a.free = {} THEN a.next ELSE CHOOSE s \in a.free : IsLeast(s, a.free)

Enter(a, v) ==
  IF first[v] = level
  THEN [slots |-> [a.slots EXCEPT ![v] = Grant(a)],
        free |-> a.free \ {Grant(a)},
        next |-> IF a.free = {} THEN a.next + 1 ELSE a.next,
        active |-> a.active + 1]
  ELSE a

\* Mutant: the slot is not returned.
LeaveKeepsSlot(a, v) == IF last[v] = level THEN [a EXCEPT !.active = @ - 1] ELSE a

Leave(a, v) ==
  IF last[v] = level
  THEN [a EXCEPT !.free = @ \union {a.slots[v]}, !.active = @ - 1]
  ELSE a

Lesser(i) == IF edges[i][1] < edges[i][2] THEN edges[i][1] ELSE edges[i][2]
Greater(i) == IF edges[i][1] < edges[i][2] THEN edges[i][2] ELSE edges[i][1]

\* Mutant: the lesser endpoint leaves before the greater one enters.
WorkingLeavesFirst ==
  Enter(Leave(Enter(Allocator, Lesser(level)), Lesser(level)), Greater(level))

\* Both endpoints, in ascending order, enter before either leaves.
Working == Enter(Enter(Allocator, Lesser(level)), Greater(level))

After == Leave(Leave(Working, Lesser(level)), Greater(level))

\* The endpoints that are in S, in ascending order.
SortedEnds(S) ==
  LET lesser == IF Lesser(level) \in S THEN <<Lesser(level)>> ELSE << >>
  IN IF Greater(level) \in S THEN Append(lesser, Greater(level)) ELSE lesser

\* The StepData of this level.
PlannedStep ==
  [endpoints |-> edges[level],
   endpoint_slots |-> <<After.slots[edges[level][1]], After.slots[edges[level][2]]>>,
   remaining_incident |-> <<remaining[edges[level][1]] - 1, remaining[edges[level][2]] - 1>>,
   introduced |-> SortedEnds({v \in Vertex : first[v] = level}),
   forgotten |-> SortedEnds({v \in Vertex : last[v] = level}),
   width_before |-> active,
   working_width |-> Working.active,
   width_after |-> After.active]

Plan ==
  /\ phase = "plan" /\ level <= Len(edges)
  /\ slots' = After.slots
  /\ free' = After.free
  /\ next_slot' = After.next
  /\ active' = After.active
  /\ remaining' = [v \in Vertex |-> IF v \in Ends(level) THEN remaining[v] - 1 ELSE remaining[v]]
  /\ steps' = Append(steps, PlannedStep)
  /\ level' = level + 1
  /\ UNCHANGED <<edges, phase, first, last>>

FinishPlan ==
  /\ phase = "plan" /\ level = Len(edges) + 1
  /\ phase' = "done"
  /\ UNCHANGED <<edges, level, first, last, remaining, slots, free, next_slot, active, steps>>

PlanNext == Scan \/ StartPlan \/ Plan \/ FinishPlan

PlanSpec == PlanInit /\ [][PlanNext]_plan /\ WF_plan(PlanNext)

----------------------------------------------------------------------------
(* What the plan has to be, from the graph alone.                          *)

Incident(v) == {i \in DOMAIN edges : v \in Ends(i)}

\* Vertex v is needed at level i: one of its edges is there or earlier and one
\* is there or later.
Needed(v, i) == (\E j \in Incident(v) : j <= i) /\ (\E j \in Incident(v) : j >= i)

\* The frontier between level i and level i + 1.
Boundary(i) == {v \in Vertex : Needed(v, i) /\ Needed(v, i + 1)}

StepData ==
  [endpoints : Vertex \X Vertex, endpoint_slots : Nat \X Nat, remaining_incident : Nat \X Nat,
   introduced : Seq(Vertex), forgotten : Seq(Vertex),
   width_before : Nat, working_width : Nat, width_after : Nat]

\* The variables keep their types; in particular every endpoint of a planned
\* step has a slot, so that the `expect` in assigned_slot never panics.
PlanTypeOK ==
  /\ edges \in Orders
  /\ phase \in {"scan", "plan", "done"}
  /\ level \in 1 .. Len(edges) + 1
  /\ first \in [Vertex -> {None} \union Nat]
  /\ last \in [Vertex -> {None} \union Nat]
  /\ remaining \in [Vertex -> Nat]
  /\ slots \in [Vertex -> {None} \union Nat]
  /\ free \subseteq Nat
  /\ next_slot \in Nat
  /\ active \in Nat
  /\ steps \in Seq(StepData)

\* The doc of FrontierPlan promises stable slots: two vertices that are needed
\* at a common level never share a slot, in particular when one leaves at the
\* level where the other enters.
SlotsNeverShared ==
  \A u, v \in Vertex :
    /\ u # v
    /\ slots[u] # None /\ slots[v] # None
    /\ \E i \in DOMAIN edges : Needed(u, i) /\ Needed(v, i)
    => slots[u] # slots[v]

MaxOf(S) == CHOOSE x \in S : \A y \in S : y <= x

MaxWorkingWidth == MaxOf({0} \union {steps[i].working_width : i \in DOMAIN steps})

\* No slot is lost and none is handed out twice: at every boundary the slots
\* ever allocated are exactly the free ones and the ones held by the frontier.
\* No more are allocated than max_working_frontier_width, the size of the array
\* that a consumer indexes by slot.
SlotsAccountedFor ==
  /\ phase = "plan" =>
       LET held == {slots[v] : v \in Boundary(level - 1)}
       IN /\ free \intersect held = {}
          /\ free \union held = 0 .. next_slot - 1
          /\ active = Cardinality(held)
  /\ next_slot <= MaxWorkingWidth

\* The incident edges of v that come after edge i.
EdgesAfter(v, i) == Cardinality({j \in Incident(v) : j > i})

Members(q) == {q[k] : k \in DOMAIN q}

\* Step s describes the edge at level i and the frontiers around it.
Describes(s, i) ==
  LET working == {v \in Vertex : Needed(v, i)}
  IN /\ s.endpoints = edges[i]
     /\ s.width_before = Cardinality(Boundary(i - 1))
     /\ s.working_width = Cardinality(working)
     /\ s.width_after = Cardinality(Boundary(i))
     /\ Members(s.introduced) = working \ Boundary(i - 1)
     /\ Members(s.forgotten) = working \ Boundary(i)
     /\ s.remaining_incident = <<EdgesAfter(s.endpoints[1], i), EdgesAfter(s.endpoints[2], i)>>
     /\ s.endpoint_slots = <<slots[s.endpoints[1]], slots[s.endpoints[2]]>>

\* Each planned step describes the graph: its widths are the sizes of the
\* frontiers around it, the vertices introduced and forgotten are the ones that
\* enter and leave, and the remaining counts are the incident edges to come.
StepsDescribeGraph == \A i \in DOMAIN steps : Describes(steps[i], i)
=============================================================================
