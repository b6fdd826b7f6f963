------------------------------ MODULE BuildCalls ------------------------------
(***************************************************************************)
(* What FrontierBuilder::build promises its caller (frontier/builder.rs,   *)
(* docs/api.md section 9): a build returns the solutions of its problem on *)
(* the graph, or fails at one of three limits, or because its token has    *)
(* been cancelled, or with the problem's own error exactly when the        *)
(* problem has one.  Layers, states, tapes and nodes do not appear.        *)
(***************************************************************************)
EXTENDS Integers, Sequences

CONSTANTS V, Orders, Problems, Settings(_, _), Accepts(_, _, _), Refuses(_, _, _)

VARIABLES edges, problem, settings, token, result

vars == <<edges, problem, settings, token, result>>

Pending == [kind |-> "pending", value |-> {}]

\* The selections of edges, as levels, that solve the problem.
Solutions == {S \in SUBSET DOMAIN edges : Accepts(problem, edges, S)}

Init ==
  /\ edges \in Orders
  /\ problem \in Problems
  /\ settings \in Settings(problem, edges)
  /\ token = FALSE
  /\ result = Pending

Cancel ==
  /\ settings.attached /\ ~token
  /\ token' = TRUE
  /\ UNCHANGED <<edges, problem, settings, result>>

Returning == result = Pending /\ UNCHANGED <<edges, problem, settings, token>>

Succeed ==
  /\ Returning
  /\ ~Refuses(problem, V, edges)
  /\ result' = [kind |-> "ok", value |-> Solutions]

Limits == {"states_limit", "transitions_limit", "node_limit"}

Fail(kind) ==
  /\ Returning
  /\ kind = "problem_error" => Refuses(problem, V, edges)
  /\ kind = "cancelled" => token
  /\ result' = [kind |-> kind, value |-> {}]

Answer == Succeed \/ \E kind \in Limits \union {"problem_error", "cancelled"} : Fail(kind)

Next == Cancel \/ Answer

Spec == Init /\ [][Next]_vars

\* A build returns.
FairSpec == Spec /\ WF_vars(Answer)
=============================================================================
