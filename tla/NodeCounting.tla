---------------------------- MODULE NodeCounting ----------------------------
(***************************************************************************)
(* How ZddManager::make_node decides whether it created a node, and how it *)
(* records that.  The closure runs under the shared guard of the backend,  *)
(* so calls of several threads overlap; each read of a backend counter and *)
(* each update of an atomic of the manager is a step of its own.  A node   *)
(* is an opaque id here: which family it stands for does not matter.       *)
(* The closure compares gc_count before and after, for the backend may     *)
(* collect while it runs: a collection can fall between any two steps.     *)
(***************************************************************************)
EXTENDS Integers, FiniteSets

CONSTANTS
  Thread,       \* threads that share the manager
  NodeId,       \* nodes that can be asked for
  Initial,      \* nodes of ZddManager::new, never collected
  MaxCalls,     \* bound of the model: calls of make_node
  MaxGcs        \* bound of the model: collections

ASSUME NodeCountingAssumption ==
  /\ Initial \subseteq NodeId
  /\ IsFiniteSet(NodeId)
  /\ MaxCalls \in Nat
  /\ MaxGcs \in Nat

VARIABLES
  live,           \* nodes in the unique table
  roots,          \* nodes the callers hold
  gc_count,       \* Manager::gc_count of the backend
  nodes_created,  \* ZddManager::nodes_created
  peak_live_nodes,\* ZddManager::peak_live_nodes
  calls,          \* number of calls so far
  pc,             \* per thread: where it is inside make_node
  target,         \* per thread: the node its arguments determine
  before,         \* per thread: num_inner_nodes read first
  gc_before,      \* per thread: gc_count read second
  created,        \* per thread: what its last call reported
  added,          \* per thread: whether its last call inserted the node
  observed,       \* per thread: live nodes it is about to record
  additions,      \* history: nodes ever inserted, with the initial ones
  hit,            \* history, per thread: whether a collection fell into a gap of its last call
  hits            \* history: number of calls hit

countingVars == <<live, roots, gc_count, nodes_created, peak_live_nodes, calls, pc, target,
          before, gc_before, created, added, observed, additions, hit, hits>>

NumInnerNodes == Cardinality(live)

CountingInit ==
  /\ live = Initial
  /\ roots = Initial
  /\ gc_count = 0
  /\ nodes_created = Cardinality(Initial)
  /\ peak_live_nodes = Cardinality(Initial)
  /\ calls = 0
  /\ pc = [t \in Thread |-> "idle"]
  /\ target \in [Thread -> Initial]
  /\ before = [t \in Thread |-> 0]
  /\ gc_before = [t \in Thread |-> 0]
  /\ created = [t \in Thread |-> FALSE]
  /\ added = [t \in Thread |-> FALSE]
  /\ observed = [t \in Thread |-> 0]
  /\ additions = Cardinality(Initial)
  /\ hit = [t \in Thread |-> FALSE]
  /\ hits = 0

Goto(t, place) == pc' = [pc EXCEPT ![t] = place]

\* The shared guard is taken and `before` is read.
Enter(t, x) ==
  /\ pc[t] = "idle"
  /\ calls < MaxCalls
  /\ calls' = calls + 1
  /\ Goto(t, "read_gc")
  /\ target' = [target EXCEPT ![t] = x]
  /\ before' = [before EXCEPT ![t] = NumInnerNodes]
  /\ created' = [created EXCEPT ![t] = FALSE]
  /\ added' = [added EXCEPT ![t] = FALSE]
  /\ hit' = [hit EXCEPT ![t] = FALSE]
  /\ UNCHANGED <<live, roots, gc_count, nodes_created, peak_live_nodes, gc_before, observed, additions,
                 hits>>

ReadGc(t) ==
  /\ pc[t] = "read_gc"
  /\ gc_before' = [gc_before EXCEPT ![t] = gc_count]
  /\ Goto(t, "register")
  /\ UNCHANGED <<live, roots, gc_count, nodes_created, peak_live_nodes, calls, target, before,
                 created, added, observed, additions, hit, hits>>

\* The backend finds the node in its unique table or inserts it.
Register(t) ==
  /\ pc[t] = "register"
  /\ live' = live \union {target[t]}
  /\ added' = [added EXCEPT ![t] = target[t] \notin live]
  /\ additions' = IF target[t] \in live THEN additions ELSE additions + 1
  /\ Goto(t, "check_gc")
  /\ UNCHANGED <<roots, gc_count, nodes_created, peak_live_nodes, calls, target, before, gc_before,
                 created, observed, hit, hits>>

\* created = gc_count() != gc_before || num_inner_nodes() > before
CheckGc(t) ==
  /\ pc[t] = "check_gc"
  /\ Goto(t, IF gc_count # gc_before[t] THEN "observe" ELSE "check_live")
  /\ UNCHANGED <<live, roots, gc_count, nodes_created, peak_live_nodes, calls, target, before,
                 gc_before, created, added, observed, additions, hit, hits>>

\* Mutant: one new node is attributed to somebody else.
CheckLiveOffByOne(t) ==
  /\ pc[t] = "check_live"
  /\ Goto(t, IF NumInnerNodes > before[t] + 1 THEN "observe" ELSE "leave")
  /\ UNCHANGED <<live, roots, gc_count, nodes_created, peak_live_nodes, calls, target, before,
                 gc_before, created, added, observed, additions, hit, hits>>

CheckLive(t) ==
  /\ pc[t] = "check_live"
  /\ Goto(t, IF NumInnerNodes > before[t] THEN "observe" ELSE "leave")
  /\ UNCHANGED <<live, roots, gc_count, nodes_created, peak_live_nodes, calls, target, before,
                 gc_before, created, added, observed, additions, hit, hits>>

\* The argument of record_node_created, read again from the backend.
Observe(t) ==
  /\ pc[t] = "observe"
  /\ created' = [created EXCEPT ![t] = TRUE]
  /\ observed' = [observed EXCEPT ![t] = NumInnerNodes]
  /\ Goto(t, "count")
  /\ UNCHANGED <<live, roots, gc_count, nodes_created, peak_live_nodes, calls, target, before,
                 gc_before, added, additions, hit, hits>>

\* record_node_created: fetch_add, then fetch_max.
CountCreated(t) ==
  /\ pc[t] = "count"
  /\ nodes_created' = nodes_created + 1
  /\ Goto(t, "raise")
  /\ UNCHANGED <<live, roots, gc_count, peak_live_nodes, calls, target, before, gc_before, created,
                 added, observed, additions, hit, hits>>

\* Mutant: a store in place of fetch_max.
RaisePeakByStore(t) ==
  /\ pc[t] = "raise"
  /\ peak_live_nodes' = observed[t]
  /\ Goto(t, "leave")
  /\ UNCHANGED <<live, roots, gc_count, nodes_created, calls, target, before, gc_before, created,
                 added, observed, additions, hit, hits>>

RaisePeak(t) ==
  /\ pc[t] = "raise"
  /\ peak_live_nodes' = IF observed[t] > peak_live_nodes THEN observed[t] ELSE peak_live_nodes
  /\ Goto(t, "leave")
  /\ UNCHANGED <<live, roots, gc_count, nodes_created, calls, target, before, gc_before, created,
                 added, observed, additions, hit, hits>>

\* The root is handed to the caller and the guard is released.
Leave(t) ==
  /\ pc[t] = "leave"
  /\ roots' = roots \union {target[t]}
  /\ Goto(t, "idle")
  /\ UNCHANGED <<live, gc_count, nodes_created, peak_live_nodes, calls, target, before, gc_before,
                 created, added, observed, additions, hit, hits>>

Drop(x) ==
  /\ roots' = roots \ {x}
  /\ UNCHANGED <<live, gc_count, nodes_created, peak_live_nodes, calls, pc, target, before,
                 gc_before, created, added, observed, additions, hit, hits>>

InGuard == {t \in Thread : pc[t] # "idle"}

\* Roots that a call already got from the backend but has not handed out.
Registered == {target[t] : t \in {u \in InGuard : pc[u] \notin {"read_gc", "register"}}}

\* The two gaps the closure does not guard: between its reads of num_inner_nodes
\* and gc_count at the start, and between its comparisons of the two at the end.
InGap(t) == pc[t] \in {"read_gc", "check_live"}

NewlyHit == {t \in Thread : InGap(t) /\ ~hit[t]}

\* The backend collects every node nobody holds, also while a guard is held.
Collect ==
  /\ gc_count < MaxGcs
  /\ live' = live \intersect (roots \union Registered \union Initial)
  /\ gc_count' = gc_count + 1
  /\ hit' = [t \in Thread |-> hit[t] \/ InGap(t)]
  /\ hits' = hits + Cardinality(NewlyHit)
  /\ UNCHANGED <<roots, nodes_created, peak_live_nodes, calls, pc, target, before, gc_before,
                 created, added, observed, additions>>

Inside(t) ==
  \/ ReadGc(t)
  \/ Register(t)
  \/ CheckGc(t)
  \/ CheckLive(t)
  \/ Observe(t)
  \/ CountCreated(t)
  \/ RaisePeak(t)
  \/ Leave(t)

CountingNext ==
  \/ \E t \in Thread, x \in NodeId : Enter(t, x)
  \/ \E t \in Thread : Inside(t)
  \/ \E x \in roots \ Initial : Drop(x)
  \/ Collect

CountingSpec == CountingInit /\ [][CountingNext]_countingVars

----------------------------------------------------------------------------
Quiescent == InGuard = {}

\* Whatever the overlap, and wherever collections fall, an insertion escapes the
\* counter only in a call one of whose gaps a collection hit, one for each such
\* call: elsewhere in the guard a collection is harmless.
NoCreationLost == Quiescent => nodes_created + hits >= additions

\* With the same exception the recorded peak covers the live nodes, although
\* each thread reads the live count after another may have changed it.
PeakCoversLive == Quiescent => peak_live_nodes + hits >= NumInnerNodes

\* OperationStats::nodes_created is documented as the nodes created by this
\* operation: a call that reports a creation inserted the node itself.
CreatedByThisCall == \A t \in Thread : pc[t] = "idle" => (created[t] => added[t])
=============================================================================
