--------------------------- MODULE FrontierBuilder ---------------------------
(***************************************************************************)
(* FrontierBuilder::build_with_stats: the plan of the graph (FrontierPlan) *)
(* is computed first; a forward pass then expands the states of a problem  *)
(* layer by layer, Exclude before Include, merging equal canonical states; *)
(* a backward pass turns the tape of transitions into a diagram.           *)
(*                                                                         *)
(* A look at the cancellation token is a step and the unit of work that    *)
(* follows it is another: the token may be set between the two.            *)
(* State ids count from 1; 0 is Target::Reject.  The candidate buffer that *)
(* the code reuses is overwritten by clone_from before each use, so it     *)
(* carries nothing and is not part of the model.                           *)
(***************************************************************************)
EXTENDS FrontierPlan, FiniteSetsExt

CONSTANTS
  Problems,              \* the problems to solve, e.g. the endpoint pairs of paths
  Settings(_, _),        \* (problem, edges): the configurations of a builder (see settings)
  InitialState(_, _, _), \* (problem, vertex count, edges): the initial state, {} for an error
  Transition(_, _, _, _),\* (problem, state, step, choice): {} for Branch::Reject
  TransitionFails(_, _, _, _), \* whether that call returns an error instead
  Canonicalize(_, _),    \* (state, view)
  Finalize(_),           \* whether a final state accepts
  FinalizeFails(_),      \* whether that call returns an error instead
  Accepts(_, _, _),      \* (problem, edges, levels): the graph property the problem stands for
  Refuses(_, _, _)       \* (problem, vertex count, edges): whether it ends in an error there

VARIABLES
  problem,    \* the FrontierProblem
  settings,   \* the space's limits, those requested for the build (an option), and
              \* whether a token is attached
  token,      \* CancellationToken::is_cancelled
  passed,     \* whether the look before the next unit of work let it through
  stage,      \* "plan", "forward", "finalize", "backward" or "returned"
  view,       \* active_slots: the vertex in each slot, or None
  states,     \* the canonical states of the current layer
  next_ids,   \* the states registered in the next layer, by id
  source,     \* the state being expanded; later the row being reduced
  targets,    \* targets of the state being expanded, one per choice made
  layer,      \* transitions of the current layer so far
  tape,       \* the completed layers
  roots,      \* roots of the states of the layer below
  previous,   \* roots of the current layer so far
  store,      \* live nodes of the manager
  stats,      \* BuildStats
  result,     \* how the build returned
  stats_at_cancel \* history: the BuildStats when the token was set

config == <<plan, problem, settings>>
forward == <<view, states, next_ids, targets, layer, tape>>
backward == <<roots, previous, store>>
vars == <<plan, problem, settings, token, passed, stage, view, states, next_ids, source, targets, layer, tape,
          roots, previous, store, stats, result, stats_at_cancel>>

Requests == [states : Nat, transitions : Nat]

\* Limits and requests are numbers.
ASSUME BuilderAssumption ==
  \A p \in Problems : \A order \in Orders : \A s \in Settings(p, order) :
    /\ s.space \in [states : Nat, transitions : Nat, spare : Nat]
    /\ s.requested \in SUBSET Requests
    /\ s.attached \in BOOLEAN

----------------------------------------------------------------------------
Levels == DOMAIN edges

Zero == {}
Unit == {{}}

\* The manager's own nodes: a singleton and a power set suffix per variable.
InitialNodes ==
  {{{i}} : i \in Levels} \union {SUBSET {j \in Levels : j >= i} : i \in Levels}

\* FrontierBuilder::limits caps what is requested by the limits of the space:
\* states, transitions, and spare nodes beyond the initial ones.
limits ==
  [settings.space EXCEPT
     !.states = Min({@} \union {r.states : r \in settings.requested}),
     !.transitions = Min({@} \union {r.transitions : r \in settings.requested})]

MaxLiveNodes == Cardinality(InitialNodes) + limits.spare

NoTargets == [exclude |-> 0, include |-> 0]

BothChoices == <<"exclude", "include">>

Pending == [kind |-> "pending", value |-> Zero]
Outcome(kind) == [kind |-> kind, value |-> Zero]

NoStats ==
  [layers |-> 0, peak |-> 0, attempted |-> 0, entries |-> 0, rejected |-> 0, merged |-> 0,
   created |-> 0, checks |-> 0]

Init ==
  /\ PlanInit
  /\ problem \in Problems
  /\ settings \in Settings(problem, edges)
  /\ token = FALSE
  /\ passed = FALSE
  /\ stage = "plan"
  /\ view = << >>
  /\ states = << >>
  /\ next_ids = << >>
  /\ source = 1
  /\ targets = << >>
  /\ layer = << >>
  /\ tape = << >>
  /\ roots = << >>
  /\ previous = << >>
  /\ store = InitialNodes
  /\ stats = NoStats
  /\ result = Pending
  /\ stats_at_cancel = NoStats

\* Another holder of the token cancels; a token is never reset.
Cancel ==
  /\ settings.attached /\ ~token
  /\ token' = TRUE
  /\ stats_at_cancel' = stats
  /\ UNCHANGED <<config, passed, stage, forward, source, backward, stats, result>>

\* FrontierPlan::new runs to its end before the first look at the token.
Planning ==
  /\ stage = "plan" /\ phase # "done"
  /\ PlanNext
  /\ UNCHANGED <<problem, settings, token, passed, stage, forward, source, backward, stats, result,
                 stats_at_cancel>>

Return(r) == stage' = "returned" /\ result' = r

----------------------------------------------------------------------------
(* The unit of work the builder is about to do, each after a look.         *)

ToStart == stage = "plan" /\ phase = "done"
ToBranch == stage = "forward" /\ source <= Len(states)
ToFinalize == stage = "finalize" /\ source <= Len(states)
ToReduce == stage = "backward" /\ tape # << >> /\ source <= Len(tape[Len(tape)])

\* check_cancelled is due; without a token there is nothing to look at.
ToLook ==
  /\ settings.attached /\ ~passed
  /\ ToStart \/ ToBranch \/ ToFinalize \/ ToReduce

Checked(s) == [s EXCEPT !.checks = @ + 1]

\* check_cancelled does not find the token set.
PassCheck ==
  /\ ToLook /\ ~token
  /\ passed' = TRUE
  /\ stats' = Checked(stats)
  /\ UNCHANGED <<config, token, stage, forward, source, backward, result, stats_at_cancel>>

\* check_cancelled finds the token set.
ObserveCancel ==
  /\ ToLook /\ token
  /\ stats' = Checked(stats)
  /\ Return(Outcome("cancelled"))
  /\ UNCHANGED <<config, token, passed, forward, source, backward, stats_at_cancel>>

\* A unit of work does not look again: the token may have been set since.
MayWork == settings.attached => passed

EmptyView == [s \in 0 .. MaxWorkingWidth - 1 |-> None]

\* advance_frontier: introduced vertices take their slots, forgotten ones leave.
Elements(q) == {q[i] : i \in DOMAIN q}

Advance(w, step) ==
  [s \in DOMAIN w |->
     IF \E v \in Elements(step.forgotten) : slots[v] = s THEN None
     ELSE IF \E v \in Elements(step.introduced) : slots[v] = s
          THEN CHOOSE v \in Elements(step.introduced) : slots[v] = s
          ELSE w[s]]

\* The layer being expanded, and the view its states are canonicalized for.
Layer == Len(tape) + 1
NextView(w, n) == IF n <= Len(steps) THEN Advance(w, steps[n]) ELSE w

\* The canonical form of a state that may be there: an option is a set of at
\* most one element.
Canonical(option, w) ==
  IF option = {} THEN {} ELSE {Canonicalize(CHOOSE state \in option : TRUE, w)}

FirstState == Canonical(InitialState(problem, V, edges), EmptyView)

\* The initial state becomes the only state of the first layer.
Start ==
  /\ ToStart /\ MayWork
  /\ limits.states > 0
  /\ \E initial \in FirstState : states' = <<initial>>
  /\ view' = NextView(EmptyView, 1)
  /\ stage' = IF steps = << >> THEN "finalize" ELSE "forward"
  /\ stats' = [stats EXCEPT !.peak = 1]
  /\ passed' = FALSE
  /\ UNCHANGED <<config, token, stats_at_cancel, next_ids, source, targets, layer, tape, backward, result>>

RefuseStart ==
  /\ ToStart /\ MayWork
  /\ \/ FirstState = {} /\ Return(Outcome("problem_error"))
     \/ FirstState # {} /\ limits.states = 0 /\ Return(Outcome("states_limit"))
  /\ passed' = FALSE
  /\ UNCHANGED <<config, token, stats_at_cancel, forward, source, backward, stats>>

----------------------------------------------------------------------------
(* Forward pass: one branch of one state at a time.                        *)

\* Mutant: the token is not looked at between the branches.
CanBranchUnchecked == ToBranch

CanBranch == ToBranch /\ MayWork

OverTransitions ==
  /\ CanBranch
  /\ stats.attempted = limits.transitions
  /\ passed' = FALSE
  /\ Return(Outcome("transitions_limit"))
  /\ UNCHANGED <<config, token, stats_at_cancel, forward, source, backward, stats>>

Choice == BothChoices[Len(targets) + 1]

\* Both choices start from the same source state.
Candidate == Canonical(Transition(problem, states[source], steps[Layer], Choice), view)

ToTry == CanBranch /\ stats.attempted # limits.transitions

Fails == TransitionFails(problem, states[source], steps[Layer], Choice)

\* The problem's own error: the branch was attempted but has no tape entry.
FailTransition ==
  /\ ToTry /\ Fails
  /\ stats' = [stats EXCEPT !.attempted = @ + 1]
  /\ passed' = FALSE
  /\ Return(Outcome("problem_error"))
  /\ UNCHANGED <<config, token, stats_at_cancel, forward, source, backward>>

CanTry == ToTry /\ ~Fails

Tried(s) == [s EXCEPT !.attempted = @ + 1, !.entries = @ + 1]

\* Mutant: the pair of targets is not started anew.
TargetKeepsPair(id) ==
  IF Len(targets) = 0
  THEN /\ targets' = <<id>>
       /\ UNCHANGED <<layer, source>>
  ELSE /\ layer' = Append(layer, [exclude |-> targets[1], include |-> id])
       /\ targets' = Append(targets, id)
       /\ source' = source + 1

\* The target of a branch is recorded; after both choices the row is complete.
Target(id) ==
  IF Len(targets) = 0
  THEN /\ targets' = <<id>>
       /\ UNCHANGED <<layer, source>>
  ELSE /\ layer' = Append(layer, [exclude |-> targets[1], include |-> id])
       /\ targets' = << >>
       /\ source' = source + 1

RejectBranch ==
  /\ CanTry
  /\ Candidate = {}
  /\ Target(0)
  /\ stats' = [Tried(stats) EXCEPT !.rejected = @ + 1]
  /\ passed' = FALSE
  /\ UNCHANGED <<config, token, stats_at_cancel, stage, view, states, next_ids, tape, backward, result>>

MergeBranch ==
  /\ CanTry
  /\ \E id \in DOMAIN next_ids : next_ids[id] \in Candidate /\ Target(id)
  /\ stats' = [Tried(stats) EXCEPT !.merged = @ + 1]
  /\ passed' = FALSE
  /\ UNCHANGED <<config, token, stats_at_cancel, stage, view, states, next_ids, tape, backward, result>>

\* The candidate, when the next layer does not have it yet.
NewState == Candidate \ Elements(next_ids)

RegisterState ==
  /\ CanTry
  /\ Len(next_ids) # limits.states
  /\ \E c \in NewState : next_ids' = Append(next_ids, c)
  /\ Target(Len(next_ids) + 1)
  /\ stats' = Tried(stats)
  /\ passed' = FALSE
  /\ UNCHANGED <<config, token, stats_at_cancel, stage, view, states, tape, backward, result>>

\* Mutant: the limit itself is already too much.
OverStatesEarly ==
  /\ CanTry
  /\ Len(next_ids) + 1 >= limits.states
  /\ NewState # {}
  /\ stats' = Tried(stats)
  /\ passed' = FALSE
  /\ Return(Outcome("states_limit"))
  /\ UNCHANGED <<config, token, stats_at_cancel, forward, source, backward>>

OverStates ==
  /\ CanTry
  /\ Len(next_ids) = limits.states
  /\ NewState # {}
  /\ stats' = Tried(stats)
  /\ passed' = FALSE
  /\ Return(Outcome("states_limit"))
  /\ UNCHANGED <<config, token, stats_at_cancel, forward, source, backward>>

Larger(m, n) == IF m < n THEN n ELSE m

\* Mutant: an empty layer is waited on.
EndLayerUnlessEmpty ==
  /\ stage = "forward" /\ source = Len(states) + 1 /\ next_ids # << >>
  /\ states' = next_ids
  /\ next_ids' = << >>
  /\ tape' = Append(tape, layer)
  /\ layer' = << >>
  /\ source' = 1
  /\ view' = NextView(view, Layer + 1)
  /\ stage' = IF Layer = Len(steps) THEN "finalize" ELSE "forward"
  /\ stats' = [stats EXCEPT !.layers = @ + 1, !.peak = Larger(@, Len(next_ids))]
  /\ UNCHANGED <<config, token, passed, stats_at_cancel, targets, backward, result>>

\* Every state of the layer is expanded: the next layer becomes current.
EndLayer ==
  /\ stage = "forward" /\ source = Len(states) + 1
  /\ states' = next_ids
  /\ next_ids' = << >>
  /\ tape' = Append(tape, layer)
  /\ layer' = << >>
  /\ source' = 1
  /\ view' = NextView(view, Layer + 1)
  /\ stage' = IF Layer = Len(steps) THEN "finalize" ELSE "forward"
  /\ stats' = [stats EXCEPT !.layers = @ + 1, !.peak = Larger(@, Len(next_ids))]
  /\ UNCHANGED <<config, token, passed, stats_at_cancel, targets, backward, result>>

----------------------------------------------------------------------------
(* Finalization and the backward pass.                                     *)

FailFinalize ==
  /\ ToFinalize /\ MayWork /\ FinalizeFails(states[source])
  /\ passed' = FALSE
  /\ Return(Outcome("problem_error"))
  /\ UNCHANGED <<config, token, stats_at_cancel, forward, source, backward, stats>>

FinalizeState ==
  /\ ToFinalize /\ MayWork /\ ~FinalizeFails(states[source])
  /\ roots' = Append(roots, IF Finalize(states[source]) THEN Unit ELSE Zero)
  /\ source' = source + 1
  /\ passed' = FALSE
  /\ UNCHANGED <<config, token, stats_at_cancel, stage, forward, previous, store, stats, result>>

EndFinalize ==
  /\ stage = "finalize" /\ source = Len(states) + 1
  /\ stage' = "backward"
  /\ source' = 1
  /\ UNCHANGED <<config, token, passed, stats_at_cancel, forward, backward, stats, result>>

Row == tape[Len(tape)][source]
TargetRoot(id) == IF id = 0 THEN Zero ELSE roots[id]

\* make_decision_node: the variable of the layer over the two targets.
HiRoot == TargetRoot(Row.include)
Decision == TargetRoot(Row.exclude) \union {S \union {Len(tape)} : S \in HiRoot}
Existing == HiRoot = Zero \/ Decision \in store

\* Mutant: every row counts as a created node.
ReduceRowCountsAll ==
  /\ ToReduce /\ MayWork
  /\ Existing \/ Cardinality(store) < MaxLiveNodes
  /\ previous' = Append(previous, Decision)
  /\ store' = IF Existing THEN store ELSE store \union {Decision}
  /\ source' = source + 1
  /\ stats' = [stats EXCEPT !.created = @ + 1]
  /\ passed' = FALSE
  /\ UNCHANGED <<config, token, stats_at_cancel, stage, forward, roots, result>>

ReduceRow ==
  /\ ToReduce /\ MayWork
  /\ Existing \/ Cardinality(store) < MaxLiveNodes
  /\ previous' = Append(previous, Decision)
  /\ store' = IF Existing THEN store ELSE store \union {Decision}
  /\ source' = source + 1
  /\ stats' = [stats EXCEPT !.created = IF Existing THEN @ ELSE @ + 1]
  /\ passed' = FALSE
  /\ UNCHANGED <<config, token, stats_at_cancel, stage, forward, roots, result>>

OverNodes ==
  /\ ToReduce /\ MayWork
  /\ ~Existing /\ Cardinality(store) >= MaxLiveNodes
  /\ passed' = FALSE
  /\ Return(Outcome("node_limit"))
  /\ UNCHANGED <<config, token, stats_at_cancel, forward, source, backward, stats>>

EndReduce ==
  /\ stage = "backward" /\ tape # << >> /\ source = Len(tape[Len(tape)]) + 1
  /\ roots' = previous
  /\ previous' = << >>
  /\ tape' = SubSeq(tape, 1, Len(tape) - 1)
  /\ source' = 1
  /\ UNCHANGED <<config, token, passed, stats_at_cancel, stage, view, states, next_ids, targets, layer,
                 store, stats, result>>

Finish ==
  /\ stage = "backward" /\ tape = << >>
  /\ Return([kind |-> "ok", value |-> roots[Len(roots)]])
  /\ UNCHANGED <<config, token, passed, stats_at_cancel, forward, source, backward, stats>>

Build ==
  \/ Planning
  \/ PassCheck
  \/ ObserveCancel
  \/ Start
  \/ RefuseStart
  \/ OverTransitions
  \/ FailTransition
  \/ RejectBranch
  \/ MergeBranch
  \/ RegisterState
  \/ OverStates
  \/ EndLayer
  \/ FailFinalize
  \/ FinalizeState
  \/ EndFinalize
  \/ ReduceRow
  \/ OverNodes
  \/ EndReduce
  \/ Finish

Next == Build \/ Cancel

Spec == Init /\ [][Next]_vars

\* The build runs on its caller's thread and is never paused for ever.
FairSpec == Spec /\ WF_vars(Build)

----------------------------------------------------------------------------
(* What the build has to compute, from the graph alone.                    *)

\* The selections of later levels that complete the selection S of 1 .. n.
Suffixes(S, n) == {T \in SUBSET {i \in Levels : i > n} : Accepts(problem, edges, S \union T)}

Solutions == Suffixes({}, 0)

\* Every diagram node the solutions and their sub-problems need.
NeededNodes ==
  InitialNodes \union
    ((UNION {{Suffixes(S, n) : S \in SUBSET (1 .. n)} : n \in 0 .. Len(edges) - 1}) \ {Zero, Unit})

\* The frontier between level n and n + 1 in its slots.
BoundaryView(n) ==
  LET boundary == Boundary(n)
  IN [s \in 0 .. MaxWorkingWidth - 1 |->
        IF \E v \in boundary : slots[v] = s
        THEN CHOOSE v \in boundary : slots[v] = s
        ELSE None]

\* The canonical states to which a choice leads from those of level n - 1.
Follow(from, n, choice) ==
  UNION {Canonical(Transition(problem, s, steps[n], choice), BoundaryView(n)) : s \in from}

\* The distinct canonical states after n levels, without limits.
Reached ==
  LET reached[n \in 0 .. Len(edges)] ==
        IF n = 0 THEN FirstState
        ELSE Follow(reached[n - 1], n, "exclude") \union Follow(reached[n - 1], n, "include")
  IN reached

\* What a selection decides at level n.
ChoiceAt(S, n) == IF n \in S THEN "include" ELSE "exclude"

\* The run of the problem on one selection: its state after each level, an
\* option, for it may be rejected on the way.
Run(S) ==
  LET state[n \in 0 .. Len(edges)] ==
        IF n = 0 THEN FirstState ELSE Follow(state[n - 1], n, ChoiceAt(S, n))
  IN state

RunAccepts(S) == \E s \in Run(S)[Len(edges)] : Finalize(s)

RunFails(S) ==
  \/ \E n \in Levels : \E s \in Run(S)[n - 1] : TransitionFails(problem, s, steps[n], ChoiceAt(S, n))
  \/ \E s \in Run(S)[Len(edges)] : FinalizeFails(s)

\* The sum of a sequence of numbers.
Total(q) ==
  LET sum[n \in 0 .. Len(q)] == IF n = 0 THEN 0 ELSE sum[n - 1] + q[n]
  IN sum[Len(q)]

\* Where the layers of the tape q lead the selection S: a state id after each.
Trail(q, S) ==
  LET id[n \in 0 .. Len(q)] ==
        IF n = 0 THEN 1
        ELSE IF id[n - 1] = 0 THEN 0
        ELSE IF n \in S THEN q[n][id[n - 1]].include ELSE q[n][id[n - 1]].exclude
  IN id

Destination(S) == Trail(tape, S)[Len(tape)]

AtBoundary ==
  stage \in {"forward", "finalize"} /\ source = 1 /\ targets = << >> /\ layer = << >>
----------------------------------------------------------------------------
(* Properties.                                                             *)

\* The ids a layer can give out, and 0.
Ids == 0 .. limits.states

\* The variables keep their types; no id is beyond the limit of states.
TypeOK ==
  /\ problem \in Problems
  /\ settings \in Settings(problem, edges)
  /\ token \in BOOLEAN /\ passed \in BOOLEAN
  /\ stage \in {"plan", "forward", "finalize", "backward", "returned"}
  /\ \A s \in DOMAIN view : view[s] \in {None} \union (0 .. V - 1)
  /\ source \in 1 .. limits.states + 1
  /\ targets \in Seq(Ids) /\ Len(targets) <= 1
  /\ layer \in Seq([exclude : Ids, include : Ids])
  /\ \A n \in DOMAIN tape : tape[n] \in Seq([exclude : Ids, include : Ids])
  /\ roots \in Seq(SUBSET SUBSET Levels)
  /\ previous \in Seq(SUBSET SUBSET Levels)
  /\ store \subseteq SUBSET SUBSET Levels
  /\ stats \in [DOMAIN NoStats -> Nat]
  /\ stats_at_cancel \in [DOMAIN NoStats -> Nat]
  /\ result.value \subseteq SUBSET Levels

\* The contract of FrontierProblem (frontier/problem.rs): states that are equal
\* after canonicalize have the same accepted completions.  The problem has
\* forgotten vertices, renumbered components and reused slots by then, and the
\* builder relies on it for every merge.
EqualStatesEqualSuffixes ==
  AtBoundary =>
    \A id \in DOMAIN states :
      Cardinality({Suffixes(S, Len(tape)) :
                     S \in {S \in SUBSET (1 .. Len(tape)) : Destination(S) = id}}) = 1

\* The problem decides the graph property it stands for, on the plan of every
\* graph: the run of a selection ends in an accepting state exactly when the
\* selection has the property, so that none that has it is ever rejected, and
\* some run ends in an error, or none can start, exactly when the problem is to
\* be refused.
Decides ==
  /\ Refuses(problem, V, edges) <=> FirstState = {} \/ \E S \in SUBSET Levels : RunFails(S)
  /\ Refuses(problem, V, edges) \/ \A S \in SUBSET Levels : RunAccepts(S) <=> Accepts(problem, edges, S)

RunsDecide == ToStart => Decides

\* A limit fails the build exactly when the build needs more than the limit:
\* a need equal to the limit succeeds (docs/api.md section 9), and the layer,
\* branch and node counts are those of the problem, whatever the order in
\* which ids were given.
LimitsExact ==
  stage = "returned" =>
    LET Width(n) == Cardinality(Reached[n])
        TooWide == \E n \in 0 .. Len(edges) : Width(n) > limits.states
        TooMany == 2 * Total([n \in Levels |-> Width(n - 1)]) > limits.transitions
        TooBig == Cardinality(NeededNodes) > MaxLiveNodes
    IN /\ result.kind = "ok" => ~TooWide /\ ~TooMany /\ ~TooBig
       /\ result.kind = "states_limit" => TooWide
       /\ result.kind = "transitions_limit" => TooMany
       /\ result.kind = "node_limit" => TooBig

\* The counters agree with each other, as docs/frontier.md says: while the
\* forward pass runs, every branch tried has its tape entry, and was either
\* rejected, merged or registered as a new state; a limit, a cancelled token or
\* an error of the problem leaves at most the branch it interrupted without an
\* entry.  A successful build has looked at its token, if it has one, once per
\* unit of work, reports the true peak, and has left exactly the nodes its
\* solutions need in the store.
StatsAgree ==
  /\ stats.created = Cardinality(store) - Cardinality(InitialNodes)
  /\ stats.attempted - stats.entries \in (IF result.kind = "problem_error" THEN {0, 1} ELSE {0})
  /\ stage = "forward" =>
       LET Rows(n) == Len(tape[n])
           finished == Total([n \in DOMAIN tape |-> Rows(n)])
       IN /\ stats.entries = 2 * (finished + Len(layer)) + Len(targets)
          \* Every state but the first has been registered by a branch.
          /\ stats.entries = stats.rejected + stats.merged + finished + Len(states) + Len(next_ids) - 1
          /\ stats.layers = Len(tape)
  /\ result.kind = "ok" =>
       LET Width(n) == Cardinality(Reached[n])
       IN /\ stats.peak = Max({Width(n) : n \in 0 .. Len(edges)})
          /\ stats.checks =
               IF settings.attached
               THEN 1 + stats.attempted + Width(Len(edges)) + Total([n \in Levels |-> Width(n - 1)])
               ELSE 0
          /\ store = NeededNodes

\* A token that is set stops the build soon.  It may be set between a look and
\* the unit of work the look let through (docs/architecture.md:154 tolerates that
\* race), so one more branch is tried or one more node created at most; the next
\* look is the last one and the build returns with it.
CancelStopsWork ==
  token =>
    /\ stats.attempted + stats.created <= stats_at_cancel.attempted + stats_at_cancel.created + 1
    /\ stats.checks > stats_at_cancel.checks =>
         /\ stats.checks = stats_at_cancel.checks + 1
         /\ result.kind = "cancelled"

Builds == INSTANCE BuildCalls

\* Seen from outside, a build does what BuildCalls promises: it returns, with
\* exactly the solutions of the graph problem or with an error that is due.
ImplementsBuildCalls == Builds!FairSpec
=============================================================================
