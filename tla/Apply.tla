------------------------------- MODULE Apply -------------------------------
(***************************************************************************)
(* ZddManager::apply run by several threads over one manager: the work     *)
(* stack and the memo of each call, the shared computed cache behind its   *)
(* mutex, and the backend store with its capacity and garbage collection.  *)
(*                                                                         *)
(* A step is what one thread does between two accesses to shared state.    *)
(* A call of SetFamily::binary_with_stats starts with Start and returns    *)
(* with Finish, OverMemoLimit or OverNodeLimit.                            *)
(***************************************************************************)
EXTENDS Families, Sequences

CONSTANTS
  Thread,         \* threads that share the manager
  Seeds,          \* families the callers hold at the start
  CallOps,        \* operations the callers use
  MaxCalls,       \* bound of the model: number of calls
  MemoLimit,      \* Limits::max_operation_memo_entries
  CacheCapacity,  \* Limits::max_shared_cache_entries
  NodeCapacity,   \* Limits::max_live_nodes
  Droppable,      \* bound of the model: families the callers may drop
  RootLess(_, _)  \* Ord of Root: some order of the backend edges

ASSUME ApplyAssumption ==
  /\ Seeds \subseteq Family
  /\ Droppable \subseteq Family
  /\ CallOps \subseteq Ops
  /\ MaxCalls \in Nat
  /\ MemoLimit \in Nat
  /\ CacheCapacity \in Nat
  /\ NodeCapacity \in Nat

\* Ord of Root is a total order: of two different roots one is the smaller.
ASSUME RootOrder ==
  \A F, G \in Family : F # G => (RootLess(F, G) <=> ~RootLess(G, F))

VARIABLES
  handles,   \* families held by the callers (SetFamily values)
  store,     \* live inner nodes of the backend
  entries,   \* SharedCache::entries, a partial function of keys
  order,     \* SharedCache::insertion_order
  started,   \* number of calls so far
  pc,        \* per thread: "idle", "work" or "made" (node made, not yet recorded)
  call,      \* per thread: the caller's operation and operands
  memo,      \* per thread: memo_keys
  results,   \* per thread: results, a partial function of keys
  work,      \* per thread: the stack of work, its top first
  made,      \* per thread: the root make_node returned
  outcome    \* per thread: how its last call ended

local == <<memo, results, work, made>>
vars == <<handles, store, entries, order, started, pc, call, memo, results, work, made, outcome>>

----------------------------------------------------------------------------
Key == [op : Ops, left : Family, right : Family]

\* Mutant: every operation orders its operands.
KeyOfAlwaysOrdered(op, l, r) ==
  IF RootLess(r, l)
  THEN [op |-> op, left |-> r, right |-> l]
  ELSE [op |-> op, left |-> l, right |-> r]

\* ZddManager::key: the commutative operations order their operands.
KeyOf(op, l, r) ==
  IF op # "difference" /\ RootLess(r, l)
  THEN [op |-> op, left |-> r, right |-> l]
  ELSE [op |-> op, left |-> l, right |-> r]

\* Mutant: the difference of equal operands is the operand.
TerminalResultKeepsEqual(k) ==
  LET l == k.left
      r == k.right
  IN IF l = r THEN {l}
     ELSE IF k.op = "intersection" THEN (IF Zero \in {l, r} THEN {Zero} ELSE {})
     ELSE IF r = Zero THEN {l}
     ELSE IF l = Zero THEN {IF k.op = "difference" THEN Zero ELSE r}
     ELSE {}

\* ZddManager::terminal_result, an option: the set of at most one root.
TerminalResult(k) ==
  LET l == k.left
      r == k.right
  IN CASE k.op = "union" ->
            IF l = Zero THEN {r} ELSE IF r = Zero \/ l = r THEN {l} ELSE {}
       [] k.op = "intersection" ->
            IF l = Zero \/ r = Zero THEN {Zero} ELSE IF l = r THEN {l} ELSE {}
       [] k.op = "difference" ->
            IF l = Zero \/ l = r THEN {Zero} ELSE IF r = Zero THEN {l} ELSE {}
       [] k.op = "symmetric_difference" ->
            IF l = r THEN {Zero} ELSE IF l = Zero THEN {r} ELSE IF r = Zero THEN {l} ELSE {}

\* The variable both operands are cofactored at: the least one of the two nodes.
IsBranch(v, k) ==
  /\ v \in Support(k.left) \union Support(k.right)
  /\ \A w \in Support(k.left) \union Support(k.right) : v <= w

Branch(k) == CHOOSE v \in Var : IsBranch(v, k)

HiKey(k) == KeyOf(k.op, CofactorHi(Branch(k), k.left), CofactorHi(Branch(k), k.right))
LoKey(k) == KeyOf(k.op, CofactorLo(Branch(k), k.left), CofactorLo(Branch(k), k.right))

Visit(k) == [kind |-> "visit", key |-> k]
\* Mutants: the variable below the branching one; the children swapped.
CombineBelow(k) ==
  [kind |-> "combine", key |-> k, variable |-> Branch(k) + 1, hi |-> HiKey(k), lo |-> LoKey(k)]

CombineSwapped(k) ==
  [kind |-> "combine", key |-> k, variable |-> Branch(k), hi |-> LoKey(k), lo |-> HiKey(k)]

Combine(k) == [kind |-> "combine", key |-> k, variable |-> Branch(k), hi |-> HiKey(k), lo |-> LoKey(k)]

WorkItem ==
  [kind : {"visit"}, key : Key] \union
  [kind : {"combine"}, key : Key, variable : Var, hi : Key, lo : Key]

\* Mutant: Combine is pushed last and comes up before its children.
ExpandCombineFirst(k) == <<Combine(k), Visit(LoKey(k)), Visit(HiKey(k))>>

\* Expanding a key pushes Combine, then the HI child, then the LO child.
Expand(k) == <<Visit(LoKey(k)), Visit(HiKey(k)), Combine(k)>>

\* HashMap::insert on a partial function.
Put(f, k, x) == [y \in DOMAIN f \union {k} |-> IF y = k THEN x ELSE f[y]]

Empty == [k \in {} |-> Zero]

NoOutcome == [kind |-> "none", value |-> Zero]

Outcome == [kind : {"none", "ok", "memo_limit", "node_limit"}, value : Family]

----------------------------------------------------------------------------
(* The roots something still holds.  Keys and results of the memo, of the  *)
(* stack and of the shared cache are cloned Roots, which keep their nodes  *)
(* alive; so do the handles of the callers and the roots of the manager.   *)

KeyRoots(k) == {k.left, k.right}

ItemRoots(w) ==
  KeyRoots(w.key) \union
  IF w.kind = "combine" THEN KeyRoots(w.hi) \union KeyRoots(w.lo) ELSE {}

TableRoots(f) == UNION {KeyRoots(k) \union {f[k]} : k \in DOMAIN f}

MemoRoots(t) == UNION {KeyRoots(k) : k \in memo[t]}
StackRoots(t) == UNION {ItemRoots(work[t][i]) : i \in 1 .. Len(work[t])}

ThreadRoots(t) == MemoRoots(t) \union TableRoots(results[t]) \union StackRoots(t) \union {made[t]}

\* Mutant: the shared cache does not keep its roots alive.
PinnedWithoutCache ==
  handles \union ManagerRoots \union (UNION {ThreadRoots(t) : t \in Thread})

Pinned ==
  handles \union ManagerRoots \union TableRoots(entries)
    \union (UNION {ThreadRoots(t) : t \in Thread})

----------------------------------------------------------------------------
Init ==
  /\ handles = Seeds
  /\ store = Nodes(Seeds \union ManagerRoots)
  /\ entries = Empty
  /\ order = << >>
  /\ started = 0
  /\ pc = [t \in Thread |-> "idle"]
  /\ call = [t \in Thread |-> [op |-> "union", left |-> Zero, right |-> Zero]]
  /\ memo = [t \in Thread |-> {}]
  /\ results = [t \in Thread |-> Empty]
  /\ work = [t \in Thread |-> << >>]
  /\ made = [t \in Thread |-> Zero]
  /\ outcome = [t \in Thread |-> NoOutcome]

RootKey(t) == KeyOf(call[t].op, call[t].left, call[t].right)

Start(t, op, l, r) ==
  /\ pc[t] = "idle"
  /\ started < MaxCalls
  /\ started' = started + 1
  /\ pc' = [pc EXCEPT ![t] = "work"]
  /\ call' = [call EXCEPT ![t] = [op |-> op, left |-> l, right |-> r]]
  /\ work' = [work EXCEPT ![t] = <<Visit(KeyOf(op, l, r))>>]
  /\ outcome' = [outcome EXCEPT ![t] = NoOutcome]
  /\ UNCHANGED <<handles, store, entries, order, memo, results, made>>

Visiting(t, k) == pc[t] = "work" /\ work[t] # << >> /\ Head(work[t]) = Visit(k)

\* The top of the stack is popped and the table of results may grow.
Pop(t) == work' = [work EXCEPT ![t] = Tail(@)]

Record(t, k, x) == results' = [results EXCEPT ![t] = Put(@, k, x)]

\* The key is in memo_keys (a memo hit) or already has a result.
VisitKnown(t) ==
  /\ \E k \in memo[t] \union DOMAIN results[t] : Visiting(t, k)
  /\ Pop(t)
  /\ UNCHANGED <<handles, store, entries, order, started, pc, call, memo, results, made, outcome>>

Fresh(t, k) == k \notin memo[t] /\ k \notin DOMAIN results[t]

VisitTerminal(t) ==
  /\ pc[t] = "work" /\ work[t] # << >> /\ Head(work[t]).kind = "visit"
  /\ LET k == Head(work[t]).key
     IN /\ Fresh(t, k)
        /\ \E x \in TerminalResult(k) : Record(t, k, x)
  /\ Pop(t)
  /\ UNCHANGED <<handles, store, entries, order, started, pc, call, memo, made, outcome>>

\* The key reaches the shared cache: it is fresh and not a terminal case.
Undecided(t) ==
  /\ pc[t] = "work" /\ work[t] # << >> /\ Head(work[t]).kind = "visit"
  /\ Fresh(t, Head(work[t]).key)
  /\ TerminalResult(Head(work[t]).key) = {}

VisitCached(t) ==
  /\ Undecided(t)
  /\ LET k == Head(work[t]).key
     IN k \in DOMAIN entries /\ Record(t, k, entries[k])
  /\ Pop(t)
  /\ UNCHANGED <<handles, store, entries, order, started, pc, call, memo, made, outcome>>

VisitExpand(t) ==
  /\ Undecided(t)
  /\ LET k == Head(work[t]).key
     IN /\ k \notin DOMAIN entries
        /\ Cardinality(memo[t]) # MemoLimit
        /\ memo' = [memo EXCEPT ![t] = @ \union {k}]
        /\ work' = [work EXCEPT ![t] = Expand(k) \o Tail(@)]
  /\ UNCHANGED <<handles, store, entries, order, started, pc, call, results, made, outcome>>

\* The call returns and drops its locals.
Return(t, o) ==
  /\ pc' = [pc EXCEPT ![t] = "idle"]
  /\ memo' = [memo EXCEPT ![t] = {}]
  /\ results' = [results EXCEPT ![t] = Empty]
  /\ work' = [work EXCEPT ![t] = << >>]
  /\ made' = [made EXCEPT ![t] = Zero]
  /\ outcome' = [outcome EXCEPT ![t] = o]

\* Mutant: the limit itself is already too much.
OverMemoLimitEarly(t) ==
  /\ Undecided(t)
  /\ Head(work[t]).key \notin DOMAIN entries
  /\ Cardinality(memo[t]) + 1 >= MemoLimit
  /\ Return(t, [kind |-> "memo_limit", value |-> Zero])
  /\ UNCHANGED <<handles, store, entries, order, started, call>>

OverMemoLimit(t) ==
  /\ Undecided(t)
  /\ Head(work[t]).key \notin DOMAIN entries
  /\ Cardinality(memo[t]) = MemoLimit
  /\ Return(t, [kind |-> "memo_limit", value |-> Zero])
  /\ UNCHANGED <<handles, store, entries, order, started, call>>

\* Combine on top of the stack with both children computed.
Combining(t) ==
  /\ pc[t] = "work" /\ work[t] # << >> /\ Head(work[t]).kind = "combine"
  /\ Head(work[t]).hi \in DOMAIN results[t]
  /\ Head(work[t]).lo \in DOMAIN results[t]

CombinedHi(t) == results[t][Head(work[t]).hi]
CombinedLo(t) == results[t][Head(work[t]).lo]
Combined(t) == Node(Head(work[t]).variable, CombinedHi(t), CombinedLo(t))

\* make_node returns without a new node: zero suppression or a node that is live.
NeedsNoNode(t) == CombinedHi(t) = Zero \/ Combined(t) \in store

MakeNode(t) ==
  /\ Combining(t)
  /\ IF NeedsNoNode(t)
     THEN UNCHANGED store
     ELSE Cardinality(store) < NodeCapacity /\ store' = store \union {Combined(t)}
  /\ made' = [made EXCEPT ![t] = Combined(t)]
  /\ pc' = [pc EXCEPT ![t] = "made"]
  /\ UNCHANGED <<handles, entries, order, started, call, memo, results, work, outcome>>

OverNodeLimit(t) ==
  /\ Combining(t)
  /\ ~NeedsNoNode(t)
  /\ Cardinality(store) >= NodeCapacity
  /\ Return(t, [kind |-> "node_limit", value |-> Zero])
  /\ UNCHANGED <<handles, store, entries, order, started, call>>

\* Mutant: a key that another thread inserted meanwhile is inserted again.
CacheInsertAgain(k, x) ==
  IF CacheCapacity = 0
  THEN UNCHANGED <<entries, order>>
  ELSE IF Cardinality(DOMAIN entries) = CacheCapacity /\ order # << >>
       THEN /\ entries' = Put([y \in DOMAIN entries \ {Head(order)} |-> entries[y]], k, x)
            /\ order' = Append(Tail(order), k)
       ELSE /\ entries' = Put(entries, k, x)
            /\ order' = Append(order, k)

\* shared_cache_insert: nothing when the cache is off or has the key; at its
\* capacity the oldest key is evicted first.
CacheInsert(k, x) ==
  IF CacheCapacity = 0 \/ k \in DOMAIN entries
  THEN UNCHANGED <<entries, order>>
  ELSE IF Cardinality(DOMAIN entries) = CacheCapacity /\ order # << >>
       THEN /\ entries' = Put([y \in DOMAIN entries \ {Head(order)} |-> entries[y]], k, x)
            /\ order' = Append(Tail(order), k)
       ELSE /\ entries' = Put(entries, k, x)
            /\ order' = Append(order, k)

RecordMade(t) ==
  /\ pc[t] = "made"
  /\ LET k == Head(work[t]).key
     IN CacheInsert(k, made[t]) /\ Record(t, k, made[t])
  /\ Pop(t)
  /\ made' = [made EXCEPT ![t] = Zero]
  /\ pc' = [pc EXCEPT ![t] = "work"]
  /\ UNCHANGED <<handles, store, started, call, memo, outcome>>

Finish(t) ==
  /\ pc[t] = "work" /\ work[t] = << >>
  /\ RootKey(t) \in DOMAIN results[t]
  /\ handles' = handles \union {results[t][RootKey(t)]}
  /\ Return(t, [kind |-> "ok", value |-> results[t][RootKey(t)]])
  /\ UNCHANGED <<store, entries, order, started, call>>

\* A caller drops a SetFamily that no running call borrows.
Drop(F) ==
  /\ \A t \in Thread : pc[t] = "idle" \/ F \notin {call[t].left, call[t].right}
  /\ handles' = handles \ {F}
  /\ UNCHANGED <<store, entries, order, started, pc, call, memo, results, work, made, outcome>>

\* The backend collects the nodes nobody holds.
Collect ==
  /\ store # Nodes(Pinned)
  /\ store' = Nodes(Pinned)
  /\ UNCHANGED <<handles, entries, order, started, pc, call, memo, results, work, made, outcome>>

Step(t) ==
  \/ VisitKnown(t)
  \/ VisitTerminal(t)
  \/ VisitCached(t)
  \/ VisitExpand(t)
  \/ OverMemoLimit(t)
  \/ MakeNode(t)
  \/ OverNodeLimit(t)
  \/ RecordMade(t)
  \/ Finish(t)

Next ==
  \/ \E t \in Thread, op \in CallOps, l, r \in handles : Start(t, op, l, r)
  \/ \E t \in Thread : Step(t)
  \/ \E F \in handles \intersect Droppable : Drop(F)
  \/ Collect

Spec == Init /\ [][Next]_vars

\* A thread that can take a step of its call eventually takes one.
FairSpec == Spec /\ \A t \in Thread : WF_vars(Step(t))
----------------------------------------------------------------------------
(* Properties.                                                             *)

\* The variables keep their types.
TypeOK ==
  /\ handles \subseteq Family
  /\ store \subseteq Family \ Terminals
  /\ DOMAIN entries \subseteq Key
  /\ \A k \in DOMAIN entries : entries[k] \in Family
  /\ order \in Seq(Key)
  /\ started \in 0 .. MaxCalls
  /\ pc \in [Thread -> {"idle", "work", "made"}]
  /\ call \in [Thread -> Key]
  /\ outcome \in [Thread -> Outcome]
  /\ made \in [Thread -> Family]
  /\ memo \in [Thread -> SUBSET Key]
  /\ work \in [Thread -> Seq(WorkItem)]
  /\ results = [t \in Thread |-> results[t]]
  /\ \A t \in Thread :
       /\ DOMAIN results[t] \subseteq Key
       /\ \A k \in DOMAIN results[t] : results[t][k] \in Family

ValueOf(k) == Denote(k.op, k.left, k.right)

\* A call that succeeds returns the family its operation denotes on the
\* operands the caller passed, whatever the other threads, the shared cache
\* and the collector did meanwhile.
OutcomeExact ==
  \A t \in Thread :
    outcome[t].kind = "ok" => outcome[t].value = Denote(call[t].op, call[t].left, call[t].right)

\* Every entry of a memo table and of the shared cache is the exact result of
\* its key: an entry is never published before it is complete and never
\* outlives its meaning.
TablesExact ==
  /\ \A k \in DOMAIN entries : entries[k] = ValueOf(k)
  /\ \A t \in Thread : \A k \in DOMAIN results[t] : results[t][k] = ValueOf(k)

\* The `expect` calls of apply never panic: at Combine both children have
\* results, and when the stack is empty the root key has one.
ExpectedResultsPresent ==
  \A t \in Thread : pc[t] # "idle" =>
    IF work[t] = << >>
    THEN RootKey(t) \in DOMAIN results[t]
    ELSE Head(work[t]).kind = "combine" =>
           {Head(work[t]).hi, Head(work[t]).lo} \subseteq DOMAIN results[t]

\* The shared cache's two tables agree: insertion_order lists exactly the keys
\* of entries, each once, and never more than the capacity.  Otherwise an
\* eviction removes nothing and the cache grows past its limit.
CacheTablesAgree ==
  /\ DOMAIN entries = {order[i] : i \in DOMAIN order}
  /\ Len(order) = Cardinality(DOMAIN entries)
  /\ Len(order) <= CacheCapacity

\* No node that a caller, the cache or a running call can still reach has been
\* collected.
HeldNodesLive ==
  /\ Nodes(handles \union TableRoots(entries)) \subseteq store
  /\ \A t \in Thread : pc[t] # "idle" =>
       Nodes({call[t].left, call[t].right} \union ThreadRoots(t)) \subseteq store

\* The fresh subproblems of a key: what a call that finds an empty shared cache
\* has to put in its memo.
Subproblems(k) ==
  {d \in {KeyOf(k.op, Below(k.left, i, P), Below(k.right, i, P)) :
            i \in 0 .. N, P \in SUBSET Var} : TerminalResult(d) = {}}

\* The memo limit fails a call only when the call really has more distinct
\* subproblems than the limit, so no entry is ever counted twice.
MemoLimitNotSpurious ==
  \A t \in Thread :
    outcome[t].kind = "memo_limit" => Cardinality(Subproblems(RootKey(t))) > MemoLimit

\* docs/architecture.md section 7 says that evictions of the shared computed
\* cache change neither correctness nor success: a call would succeed exactly
\* when its subproblems fit the memo limit, whatever the cache holds.
SuccessIndependentOfCache ==
  \A t \in Thread :
    outcome[t].kind = "ok" => Cardinality(Subproblems(RootKey(t))) <= MemoLimit

\* apply implements the promise of the operations: every step is an answer
\* that FamilyCalls allows or invisible to the callers, and every call is
\* answered, because the stack is finite and no key is expanded twice.
Promise == INSTANCE FamilyCalls WITH busy <- {t \in Thread : pc[t] # "idle"}

ImplementsFamilyCalls == Promise!FairSpec
=============================================================================
