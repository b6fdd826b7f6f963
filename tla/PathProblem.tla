---------------------------- MODULE PathProblem ----------------------------
(***************************************************************************)
(* problems/paths.rs: per slot the degree of its vertex, the label of its  *)
(* component and which of the two path endpoints the component contains;   *)
(* whether the path is complete, and whether both endpoints have an edge.  *)
(* A problem is the record of the two endpoints.                           *)
(***************************************************************************)
EXTENDS GraphSolutions, FrontierStates

\* The endpoint mask as the set of its bits.
PathSlot == [degree |-> 0, component |-> NoComponent, mask |-> {}]

EndpointMask(problem, v) == {problem.source, problem.target} \intersect {v}

MaximumDegree(problem, v) == IF v \in {problem.source, problem.target} THEN 1 ELSE 2

PathInitial(problem, vertices, edges) ==
  IF problem.source = problem.target
     \/ ~({problem.source, problem.target} \subseteq 0 .. vertices - 1)
  THEN {}
  ELSE {[slots |-> << >>, done |-> FALSE,
         possible |-> {problem.source, problem.target} \subseteq Touched(edges, DOMAIN edges)]}

\* Mutant: the mask reaches only the two ends of the edge.
JoinPathEndsOnly(problem, slots, a, b, step) ==
  LET label == JoinedComponent(slots, a, b)
      mask == slots[a].mask \union slots[b].mask
                \union EndpointMask(problem, step.endpoints[1])
                \union EndpointMask(problem, step.endpoints[2])
      InJoin(p) == slots[p].component \in {label, slots[b].component} \ {NoComponent}
  IN [p \in DOMAIN slots |->
        IF p \in {a, b}
        THEN [degree |-> slots[p].degree + 1, component |-> label, mask |-> mask]
        ELSE IF InJoin(p) THEN [slots[p] EXCEPT !.component = label]
        ELSE slots[p]]

\* Both components take the joined label and the union of the masks.
JoinPath(problem, slots, a, b, step) ==
  LET label == JoinedComponent(slots, a, b)
      old == slots[b].component
      mask == slots[a].mask \union slots[b].mask
                \union EndpointMask(problem, step.endpoints[1])
                \union EndpointMask(problem, step.endpoints[2])
      InJoin(p) == slots[p].component \in {label, old} \ {NoComponent}
  IN [p \in DOMAIN slots |->
        IF p \in {a, b}
        THEN [degree |-> slots[p].degree + 1, component |-> label, mask |-> mask]
        ELSE IF InJoin(p) THEN [slots[p] EXCEPT !.component = label, !.mask = mask]
        ELSE slots[p]]

PathInclude(problem, state, step) ==
  LET slots == state.slots
      a == Position(step, 1)
      b == Position(step, 2)
      Saturated(k) ==
        slots[Position(step, k)].degree >= MaximumDegree(problem, step.endpoints[k])
      sameComponent == slots[a].component # NoComponent /\ slots[a].component = slots[b].component
  IN IF state.done \/ Saturated(1) \/ Saturated(2) \/ sameComponent
     THEN {}
     ELSE {[state EXCEPT !.slots = JoinPath(problem, slots, a, b, step)]}

ValidDegree(problem, v, degree) ==
  IF v \in {problem.source, problem.target} THEN degree = 1 ELSE degree \in {0, 2}

\* A component that leaves the frontier must be the complete path, alone.
PathForget(problem, state, step) ==
  LET leaving == PositionsOf(step, step.forgotten)
      slots == [p \in DOMAIN state.slots |-> IF p \in leaving THEN PathSlot ELSE state.slots[p]]
      entries == {state.slots[p] : p \in leaving}
      closing == {<<e.component, e.mask>> : e \in
                    {e \in entries : e.component \notin Components(slots) \union {NoComponent}}}
      badDegree == \E k \in 1 .. 2 :
        /\ Position(step, k) \in leaving
        /\ ~ValidDegree(problem, step.endpoints[k], state.slots[Position(step, k)].degree)
      badClose ==
        \/ \E c \in closing : c[2] # {problem.source, problem.target}
        \/ closing # {} /\ (state.done \/ Components(slots) # {})
        \/ Cardinality(closing) > 1
  IN IF badDegree \/ badClose
     THEN {}
     ELSE {[state EXCEPT !.slots = slots, !.done = @ \/ closing # {}]}

PathTransition(problem, state, step, choice) ==
  LET entered == [state EXCEPT !.slots = Introduced(@, step, PathSlot)]
      chosen == IF choice = "include" THEN PathInclude(problem, entered, step) ELSE {entered}
  IN IF ~state.possible THEN {} ELSE UNION {PathForget(problem, c, step) : c \in chosen}

PathCanonicalize(state, view) == [state EXCEPT !.slots = Renumbered(Truncate(@, view))]

PathFinalize(state) == state.possible /\ state.done

PathAccepts(problem, edges, S) == IsPath(edges, S, problem.source, problem.target)

\* Without two ends in the graph there is no path to ask for.
PathRefuses(problem, vertices) ==
  Cardinality({problem.source, problem.target} \intersect (0 .. vertices - 1)) # 2
=============================================================================
