--------------------------- MODULE MatchingProblem ---------------------------
(***************************************************************************)
(* problems/matchings.rs: the state keeps, per frontier slot, whether the  *)
(* vertex in it is matched.  Slot s is position s + 1 of the sequence.     *)
(***************************************************************************)
EXTENDS GraphSolutions, FrontierStates

MatchInitial(problem, vertices, edges) == {<< >>}

\* Mutant: a forgotten vertex leaves its bit in the slot.
MatchTransitionStale(problem, state, step, choice) ==
  LET grown == Grow(state, step, FALSE)
      ends == EndPositions(step)
  IN IF choice = "include" /\ \E p \in ends : grown[p]
     THEN {}
     ELSE {[p \in DOMAIN grown |-> grown[p] \/ (choice = "include" /\ p \in ends)]}

MatchTransition(problem, state, step, choice) ==
  LET grown == Grow(state, step, FALSE)
      ends == EndPositions(step)
      taken == [p \in DOMAIN grown |-> grown[p] \/ (choice = "include" /\ p \in ends)]
      gone == {Position(step, k) : k \in {j \in 1 .. 2 : step.remaining_incident[j] = 0}}
  IN IF choice = "include" /\ \E p \in ends : grown[p]
     THEN {}
     ELSE {[p \in DOMAIN grown |-> taken[p] /\ p \notin gone]}

MatchCanonicalize(state, view) == Truncate(state, view)

MatchFinalize(state) == TRUE

MatchAccepts(problem, edges, S) == IsMatching(edges, S)
=============================================================================
