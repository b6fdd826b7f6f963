---------------------------- MODULE CycleProblem ----------------------------
(***************************************************************************)
(* problems/cycles.rs: per slot the degree of its vertex and the label of  *)
(* its component of selected edges, and whether the cycle is closed.       *)
(***************************************************************************)
EXTENDS GraphSolutions, FrontierStates

CycleSlot == [degree |-> 0, component |-> NoComponent]

CycleInitial(problem, vertices, edges) == {[slots |-> << >>, done |-> FALSE]}

\* Include closes the cycle, joins two components or is rejected.
CloseCycle(slots, a, b) ==
  IF Components(slots) # {slots[a].component}
  THEN {}
  ELSE {[slots |-> [p \in DOMAIN slots |->
                      IF p \in {a, b} THEN [slots[p] EXCEPT !.degree = @ + 1] ELSE slots[p]],
         done |-> TRUE]}

JoinCycle(slots, a, b) ==
  LET label == JoinedComponent(slots, a, b)
      old == slots[b].component
  IN [p \in DOMAIN slots |->
        IF p \in {a, b} THEN [degree |-> slots[p].degree + 1, component |-> label]
        ELSE IF old # NoComponent /\ slots[p].component = old
             THEN [slots[p] EXCEPT !.component = label]
             ELSE slots[p]]

CycleInclude(slots, done, step) ==
  LET a == Position(step, 1)
      b == Position(step, 2)
  IN IF done \/ slots[a].degree >= 2 \/ slots[b].degree >= 2 THEN {}
     ELSE IF slots[a].component # NoComponent /\ slots[a].component = slots[b].component
     THEN CloseCycle(slots, a, b)
     ELSE {[slots |-> JoinCycle(slots, a, b), done |-> done]}

\* A forgotten vertex must have an even degree, and a component that leaves the
\* frontier must be the closed cycle.
CycleForget(state, step) ==
  LET leaving == PositionsOf(step, step.forgotten)
      closing == {state.slots[p].component : p \in leaving} \ {NoComponent}
      slots == [p \in DOMAIN state.slots |-> IF p \in leaving THEN CycleSlot ELSE state.slots[p]]
  IN IF \/ \E p \in leaving : state.slots[p].degree \notin {0, 2}
        \/ ~state.done /\ ~(closing \subseteq Components(slots))
     THEN {}
     ELSE {[state EXCEPT !.slots = slots]}

CycleTransition(problem, state, step, choice) ==
  LET slots == Introduced(state.slots, step, CycleSlot)
      chosen == IF choice = "include"
                THEN CycleInclude(slots, state.done, step)
                ELSE {[state EXCEPT !.slots = slots]}
  IN UNION {CycleForget(c, step) : c \in chosen}

CycleCanonicalize(state, view) == [state EXCEPT !.slots = Renumbered(Truncate(@, view))]

\* Mutant: the selection without a cycle is accepted.
CycleFinalizeAlways(state) == TRUE

CycleFinalize(state) == state.done

CycleAccepts(problem, edges, S) == IsCycle(edges, S)
=============================================================================
