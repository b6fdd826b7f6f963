---------------------------- MODULE FamilyCalls ----------------------------
(***************************************************************************)
(* What the binary operations of SetFamily promise their callers           *)
(* (family/set_operations.rs and SetFamily::binary_with_stats): a call     *)
(* either returns a handle of exactly the family its operation denotes, or *)
(* fails with one of the two limits and leaves every handle as it was.     *)
(* Diagrams, memo tables, caches and the node store do not appear.         *)
(***************************************************************************)
EXTENDS Families

CONSTANTS Thread, Seeds, CallOps, Droppable

VARIABLES
  handles,   \* families held by the callers
  call,      \* per thread: operation and operands of its last call
  busy,      \* threads inside a call
  outcome    \* per thread: how its last call ended

vars == <<handles, call, busy, outcome>>

NoOutcome == [kind |-> "none", value |-> Zero]

Init ==
  /\ handles = Seeds
  /\ call = [t \in Thread |-> [op |-> "union", left |-> Zero, right |-> Zero]]
  /\ busy = {}
  /\ outcome = [t \in Thread |-> NoOutcome]

Start(t, op, l, r) ==
  /\ t \notin busy
  /\ call' = [call EXCEPT ![t] = [op |-> op, left |-> l, right |-> r]]
  /\ busy' = busy \union {t}
  /\ outcome' = [outcome EXCEPT ![t] = NoOutcome]
  /\ UNCHANGED handles

Succeed(t) ==
  /\ t \in busy
  /\ LET value == Denote(call[t].op, call[t].left, call[t].right)
     IN /\ handles' = handles \union {value}
        /\ outcome' = [outcome EXCEPT ![t] = [kind |-> "ok", value |-> value]]
  /\ busy' = busy \ {t}
  /\ UNCHANGED call

Fail(t, limit) ==
  /\ t \in busy
  /\ outcome' = [outcome EXCEPT ![t] = [kind |-> limit, value |-> Zero]]
  /\ busy' = busy \ {t}
  /\ UNCHANGED <<handles, call>>

Drop(F) ==
  /\ \A t \in busy : F \notin {call[t].left, call[t].right}
  /\ handles' = handles \ {F}
  /\ UNCHANGED <<call, busy, outcome>>

Answer(t) == Succeed(t) \/ \E limit \in {"memo_limit", "node_limit"} : Fail(t, limit)

Next ==
  \/ \E t \in Thread, op \in CallOps, l, r \in handles : Start(t, op, l, r)
  \/ \E t \in Thread : Answer(t)
  \/ \E F \in handles \intersect Droppable : Drop(F)

Spec == Init /\ [][Next]_vars

FairSpec == Spec /\ \A t \in Thread : WF_vars(Answer(t))
=============================================================================
