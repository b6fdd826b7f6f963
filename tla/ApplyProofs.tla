---------------------------- MODULE ApplyProofs ----------------------------
(***************************************************************************)
(* The soundness of apply for any number of threads, variables, cache      *)
(* entries, memo entries and nodes, and for any order of the roots.        *)
(***************************************************************************)
EXTENDS Apply, FamiliesProofs, SequenceTheorems, FiniteSetTheorems

----------------------------------------------------------------------------
(* The keys of apply.                                                      *)

\* The value of a key is a family.
LEMMA ValueTyping ==
  ASSUME NEW k \in Key
  PROVE  ValueOf(k) \in Family
BY DenoteTyping DEF Key, ValueOf

\* Ordering the operands of a commutative operation does not change its value.
LEMMA KeyOfSound ==
  ASSUME NEW op \in Ops, NEW l \in Family, NEW r \in Family
  PROVE  /\ KeyOf(op, l, r) \in Key
         /\ ValueOf(KeyOf(op, l, r)) = Denote(op, l, r)
BY DEF KeyOf, Key, ValueOf, Denote, Ops

\* Every terminal case returns what the operation denotes.
LEMMA TerminalSound ==
  ASSUME NEW k \in Key, NEW x \in TerminalResult(k)
  PROVE  x \in Family /\ x = ValueOf(k)
<1>1. k.op \in Ops /\ k.left \in Family /\ k.right \in Family
  BY DEF Key
<1>2. x = ValueOf(k)
  BY <1>1 DEF TerminalResult, ValueOf, Denote, Ops, Zero
<1> QED
  BY <1>2, ValueTyping

\* A pair that is not a terminal case has a node, hence a branching variable:
\* the `unreachable` arm of apply is never taken.
LEMMA BranchExists ==
  ASSUME NEW k \in Key, TerminalResult(k) = {}
  PROVE  Branch(k) \in Var /\ IsBranch(Branch(k), k)
<1> DEFINE V == Support(k.left) \union Support(k.right)
<1>1. k.op \in Ops /\ k.left \in Family /\ k.right \in Family
  BY DEF Key
<1>2. V \in SUBSET Var
  BY <1>1 DEF Support, Family
<1>3. V # {}
  <2> SUFFICES ASSUME V = {} PROVE FALSE
    OBVIOUS
  <2>1. \A S \in k.left \union k.right : S = {}
    BY DEF Support
  <2>2. k.left \in {Zero, One} /\ k.right \in {Zero, One}
    BY <2>1 DEF Zero, One
  <2>3. k.left = Zero \/ k.right = Zero \/ k.left = k.right
    BY <2>2
  <2> QED
    BY <1>1, <2>3 DEF TerminalResult, Ops
<1>4. PICK v \in V : \A w \in V : v <= w
  BY <1>2, <1>3, LeastVariable
<1>5. v \in Var /\ IsBranch(v, k)
  BY <1>2, <1>4 DEF IsBranch
<1> QED
  BY <1>5 DEF Branch

\* A work item whose Combine rebuilds the value of its key from its children.
SoundItem ==
  {w \in WorkItem :
     w.kind = "combine" => ValueOf(w.key) = Node(w.variable, ValueOf(w.hi), ValueOf(w.lo))}

\* Expanding a key pushes sound work: the value of the key is the node of the
\* values of the two keys it is split into.
LEMMA ExpandSound ==
  ASSUME NEW k \in Key, TerminalResult(k) = {}
  PROVE  Expand(k) \in Seq(SoundItem)
<1> DEFINE v == Branch(k)
           l == k.left
           r == k.right
<1>1. k.op \in Ops /\ l \in Family /\ r \in Family
  BY DEF Key
<1>2. v \in Var /\ IsBranch(v, k)
  BY BranchExists
<1>3. (\A w \in Support(l) : v <= w) /\ (\A w \in Support(r) : v <= w)
  BY <1>2 DEF IsBranch
<1>4. /\ CofactorHi(v, l) = Hi(v, l) /\ CofactorLo(v, l) = Lo(v, l)
      /\ CofactorHi(v, r) = Hi(v, r) /\ CofactorLo(v, r) = Lo(v, r)
  <2> HIDE DEF v, l, r
  <2> QED
    BY <1>1, <1>2, <1>3, CofactorsAreExact
<1>5. /\ Hi(v, l) \in Family /\ Lo(v, l) \in Family
      /\ Hi(v, r) \in Family /\ Lo(v, r) \in Family
  <2> HIDE DEF v, l, r
  <2> QED
    BY <1>1, <1>2, CofactorTyping
<1>6. /\ HiKey(k) \in Key /\ ValueOf(HiKey(k)) = Denote(k.op, Hi(v, l), Hi(v, r))
      /\ LoKey(k) \in Key /\ ValueOf(LoKey(k)) = Denote(k.op, Lo(v, l), Lo(v, r))
  BY <1>1, <1>4, <1>5, KeyOfSound DEF HiKey, LoKey
<1>7. ValueOf(k) = Node(v, ValueOf(HiKey(k)), ValueOf(LoKey(k)))
  BY <1>1, <1>6, ApplyRecursion DEF ValueOf
<1>8. Visit(LoKey(k)) \in SoundItem /\ Visit(HiKey(k)) \in SoundItem
  BY <1>6 DEF Visit, SoundItem, WorkItem
<1>9. Combine(k) \in SoundItem
  <2>1. Combine(k) \in WorkItem
    BY <1>2, <1>6 DEF Combine, WorkItem
  <2> QED
    BY <1>7, <2>1 DEF Combine, SoundItem
<1> QED
  BY <1>8, <1>9 DEF Expand

----------------------------------------------------------------------------
(* The store.                                                              *)

\* The nodes of a set of roots are families that are not terminals.
LEMMA NodesTyping ==
  ASSUME NEW roots \in SUBSET Family
  PROVE  Nodes(roots) \subseteq Family \ Terminals
<1> SUFFICES ASSUME NEW F \in Family
             PROVE  NodesOf[F] \subseteq Family \ Terminals
  BY DEF Nodes
<1>1. \A k, P : Below(F, k, P) \in Family
  BY DEF Below, Family
<1>2. Subfamilies(F) \subseteq Family
  BY <1>1 DEF Subfamilies
<1> QED
  BY <1>2 DEF NodesOf

\* The roots of the manager are families.
LEMMA ManagerRootsTyping == ManagerRoots \subseteq Family
BY DEF ManagerRoots, Singleton, Powerset, Family

\* The roots a table of results holds are families.
LEMMA TableRootsTyping ==
  ASSUME NEW f, DOMAIN f \subseteq Key, \A k \in DOMAIN f : f[k] \in Family
  PROVE  TableRoots(f) \subseteq Family
BY DEF TableRoots, KeyRoots, Key

\* Everything the manager, the callers and the threads hold is a family.
LEMMA PinnedTyping ==
  ASSUME TypeOK
  PROVE  Pinned \subseteq Family
<1>1. handles \subseteq Family /\ TableRoots(entries) \subseteq Family
  BY TableRootsTyping DEF TypeOK
<1>2. ASSUME NEW t \in Thread
      PROVE  ThreadRoots(t) \subseteq Family
  <2>1. TableRoots(results[t]) \subseteq Family
    BY TableRootsTyping DEF TypeOK
  <2>2. ASSUME NEW w \in WorkItem
        PROVE  ItemRoots(w) \subseteq Family
    <3>1. \A k \in Key : KeyRoots(k) \subseteq Family
      BY DEF KeyRoots, Key
    <3>2. w.key \in Key /\ (w.kind = "combine" => w.hi \in Key /\ w.lo \in Key)
      BY DEF WorkItem
    <3> QED
      BY <3>1, <3>2 DEF ItemRoots
  <2>3. \A i \in 1 .. Len(work[t]) : work[t][i] \in WorkItem
    BY DEF TypeOK
  <2>4. MemoRoots(t) \subseteq Family
    BY DEF TypeOK, MemoRoots, KeyRoots, Key
  <2>5. StackRoots(t) \subseteq Family
    BY <2>2, <2>3 DEF StackRoots
  <2>6. {made[t]} \subseteq Family
    BY DEF TypeOK
  <2> QED
    BY <2>1, <2>4, <2>5, <2>6 DEF ThreadRoots
<1> QED
  BY <1>1, <1>2, ManagerRootsTyping DEF Pinned

----------------------------------------------------------------------------
(* The inductive invariant.  The tables are exact because a result is only *)
(* ever recorded for a key from a terminal case, from an exact table or    *)
(* from a Combine whose two children are exact; the stack carries the      *)
(* promise that this node is the value of its key.                         *)

StacksSound == \A t \in Thread : work[t] \in Seq(SoundItem)

MadeExact ==
  \A t \in Thread : pc[t] = "made" =>
    /\ work[t] # << >>
    /\ made[t] = ValueOf(Head(work[t]).key)

IInv == TypeOK /\ StacksSound /\ MadeExact /\ TablesExact /\ OutcomeExact

\* A sound item is a work item.
LEMMA SoundItemsAreItems == SoundItem \subseteq WorkItem
BY DEF SoundItem

\* The stack after its top is popped, and the item that was popped.
LEMMA PopSound ==
  ASSUME NEW w \in Seq(SoundItem), w # << >>
  PROVE  /\ Tail(w) \in Seq(SoundItem)
         /\ Tail(w) \in Seq(WorkItem)
         /\ Head(w) \in SoundItem
         /\ Head(w) \in WorkItem
         /\ Head(w).key \in Key
<1>1. Tail(w) \in Seq(SoundItem) /\ Head(w) \in SoundItem
  OBVIOUS
<1>2. Tail(w) \in Seq(WorkItem)
  BY <1>1, SoundItemsAreItems, SeqMonotonic, Zenon
<1> QED
  BY <1>1, <1>2 DEF SoundItem, WorkItem

\* Adding an exact pair to an exact table.
LEMMA PutExact ==
  ASSUME NEW f, NEW k \in Key, NEW x,
         x = ValueOf(k),
         DOMAIN f \subseteq Key,
         \A j \in DOMAIN f : f[j] = ValueOf(j)
  PROVE  /\ DOMAIN Put(f, k, x) \subseteq Key
         /\ \A j \in DOMAIN Put(f, k, x) : Put(f, k, x)[j] = ValueOf(j)
         /\ \A j \in DOMAIN Put(f, k, x) : Put(f, k, x)[j] \in Family
<1>1. DOMAIN Put(f, k, x) = DOMAIN f \union {k}
  BY DEF Put
<1>2. \A j \in DOMAIN Put(f, k, x) : Put(f, k, x)[j] = ValueOf(j)
  BY <1>1 DEF Put
<1> QED
  BY <1>1, <1>2, ValueTyping

\* The invariant holds when no call has started.
LEMMA InitIInv ==
  ASSUME Init
  PROVE  IInv
<1>1. {} \in Family /\ "union" \in Ops
  BY DEF Family, Ops
<1>2. [op |-> "union", left |-> Zero, right |-> Zero] \in Key
  BY <1>1 DEF Key, Zero
<1>3. store \subseteq Family \ Terminals
  BY NodesTyping, ManagerRootsTyping, ApplyAssumption DEF Init
<1>4. DOMAIN Empty = {}
  BY DEF Empty
<1>5. TypeOK
  <2>1. results = [t \in Thread |-> results[t]] /\ \A t \in Thread : results[t] = Empty
    BY DEF Init
  <2>2. outcome \in [Thread -> Outcome] /\ made \in [Thread -> Family] /\ call \in [Thread -> Key]
    BY <1>1, <1>2 DEF Init, Outcome, NoOutcome, Zero
  <2>3. handles \subseteq Family /\ order \in Seq(Key) /\ started \in 0 .. MaxCalls
    BY ApplyAssumption DEF Init
  <2>4. /\ pc \in [Thread -> {"idle", "work", "made"}]
        /\ memo \in [Thread -> SUBSET Key]
        /\ work \in [Thread -> Seq(WorkItem)]
    BY DEF Init
  <2>5. DOMAIN entries = {}
    BY <1>4 DEF Init
  <2> QED
    BY <1>3, <1>4, <2>1, <2>2, <2>3, <2>4, <2>5 DEF TypeOK
<1>6. StacksSound /\ MadeExact /\ TablesExact /\ OutcomeExact
  BY <1>4 DEF Init, StacksSound, MadeExact, TablesExact, OutcomeExact, NoOutcome
<1> QED
  BY <1>5, <1>6 DEF IInv

\* The steps that leave everything but the stack, the memo and the results of
\* one running thread alone.
LEMMA LocalStep ==
  ASSUME IInv, NEW t \in Thread, pc[t] = "work",
         UNCHANGED <<handles, store, entries, order, started, pc, call, made, outcome>>,
         memo' \in [Thread -> SUBSET Key],
         NEW w \in Seq(SoundItem), work' = [work EXCEPT ![t] = w],
         NEW f, results' = [results EXCEPT ![t] = f],
         DOMAIN f \subseteq Key,
         \A k \in DOMAIN f : f[k] = ValueOf(k)
  PROVE  IInv'
<1>1. results = [u \in Thread |-> results[u]] /\ work \in [Thread -> Seq(WorkItem)]
  BY DEF IInv, TypeOK
<1>2. \A u \in Thread : /\ work'[u] = IF u = t THEN w ELSE work[u]
                        /\ results'[u] = IF u = t THEN f ELSE results[u]
  BY <1>1
<1>3. w \in Seq(WorkItem)
  BY SoundItemsAreItems, SeqMonotonic, Zenon
<1>4. \A k \in DOMAIN f : f[k] \in Family
  BY ValueTyping
<1>5. TypeOK'
  <2>1. work' \in [Thread -> Seq(WorkItem)]
    BY <1>1, <1>3
  <2>2. results' = [u \in Thread |-> results'[u]]
    BY <1>1
  <2>3. ASSUME NEW u \in Thread
        PROVE  DOMAIN results'[u] \subseteq Key /\ \A k \in DOMAIN results'[u] : results'[u][k] \in Family
    BY <1>2, <1>4 DEF IInv, TypeOK
  <2> QED
    BY <2>1, <2>2, <2>3 DEF IInv, TypeOK
<1>6. StacksSound'
  BY <1>2 DEF IInv, StacksSound
<1>7. MadeExact'
  BY <1>2 DEF IInv, MadeExact
<1>8. TablesExact'
  BY <1>2 DEF IInv, TablesExact
<1>9. OutcomeExact'
  BY DEF IInv, OutcomeExact
<1> QED
  BY <1>5, <1>6, <1>7, <1>8, <1>9 DEF IInv

\* Skipping a key that is in the memo or has a result keeps the invariant.
LEMMA VisitKnownStep ==
  ASSUME IInv, NEW t \in Thread, VisitKnown(t)
  PROVE  IInv'
<1>1. pc[t] = "work" /\ work[t] # << >>
  BY DEF VisitKnown, Visiting
<1>2. Tail(work[t]) \in Seq(SoundItem)
  BY <1>1, PopSound DEF IInv, StacksSound
<1>3. work' = [work EXCEPT ![t] = Tail(work[t])]
  BY DEF VisitKnown, Pop
<1>4. results' = [results EXCEPT ![t] = results[t]]
  BY DEF VisitKnown, IInv, TypeOK
<1>5. memo' \in [Thread -> SUBSET Key]
  BY DEF VisitKnown, IInv, TypeOK
<1>6. DOMAIN results[t] \subseteq Key /\ \A k \in DOMAIN results[t] : results[t][k] = ValueOf(k)
  BY DEF IInv, TypeOK, TablesExact
<1>7. UNCHANGED <<handles, store, entries, order, started, pc, call, made, outcome>>
  BY DEF VisitKnown
<1> QED
  BY <1>1, <1>2, <1>3, <1>4, <1>5, <1>6, <1>7, LocalStep

\* A visit that finds the result of its key x, and records it.
LEMMA VisitRecords ==
  ASSUME IInv, NEW t \in Thread, pc[t] = "work", work[t] # << >>,
         NEW x, x = ValueOf(Head(work[t]).key), Record(t, Head(work[t]).key, x), Pop(t),
         UNCHANGED <<handles, store, entries, order, started, pc, call, memo, made, outcome>>
  PROVE  IInv'
<1> DEFINE k == Head(work[t]).key
<1>1. k \in Key /\ Tail(work[t]) \in Seq(SoundItem)
  BY PopSound DEF IInv, StacksSound
<1>2. work' = [work EXCEPT ![t] = Tail(work[t])]
  BY DEF Pop
<1>3. results' = [results EXCEPT ![t] = Put(results[t], k, x)]
  BY DEF Record
<1>4. memo' \in [Thread -> SUBSET Key]
  BY DEF IInv, TypeOK
<1>5. DOMAIN results[t] \subseteq Key /\ \A j \in DOMAIN results[t] : results[t][j] = ValueOf(j)
  BY DEF IInv, TypeOK, TablesExact
<1>6. /\ DOMAIN Put(results[t], k, x) \subseteq Key
      /\ \A j \in DOMAIN Put(results[t], k, x) : Put(results[t], k, x)[j] = ValueOf(j)
  BY <1>1, <1>5, PutExact
<1> HIDE DEF k
<1> QED
  BY <1>1, <1>2, <1>3, <1>4, <1>6, LocalStep

\* Recording the result of a terminal case keeps the invariant.
LEMMA VisitTerminalStep ==
  ASSUME IInv, NEW t \in Thread, VisitTerminal(t)
  PROVE  IInv'
<1>1. pc[t] = "work" /\ work[t] # << >>
  BY DEF VisitTerminal
<1>2. Head(work[t]).key \in Key
  BY <1>1, PopSound DEF IInv, StacksSound
<1>3. PICK x \in TerminalResult(Head(work[t]).key) : Record(t, Head(work[t]).key, x)
  BY DEF VisitTerminal
<1>4. x = ValueOf(Head(work[t]).key)
  BY <1>2, TerminalSound
<1>5. /\ Pop(t)
      /\ UNCHANGED <<handles, store, entries, order, started, pc, call, memo, made, outcome>>
  BY DEF VisitTerminal
<1> QED
  BY <1>1, <1>3, <1>4, <1>5, VisitRecords

\* Taking a result from the shared cache keeps the invariant.
LEMMA VisitCachedStep ==
  ASSUME IInv, NEW t \in Thread, VisitCached(t)
  PROVE  IInv'
<1> DEFINE k == Head(work[t]).key
<1>1. pc[t] = "work" /\ work[t] # << >>
  BY DEF VisitCached, Undecided
<1>2. k \in DOMAIN entries /\ Record(t, k, entries[k])
  BY DEF VisitCached
<1>3. entries[k] = ValueOf(k)
  BY <1>2 DEF IInv, TablesExact
<1>4. /\ Pop(t)
      /\ UNCHANGED <<handles, store, entries, order, started, pc, call, memo, made, outcome>>
  BY DEF VisitCached
<1> QED
  BY <1>1, <1>2, <1>3, <1>4, VisitRecords

\* Splitting a key and pushing its children keeps the invariant.
LEMMA VisitExpandStep ==
  ASSUME IInv, NEW t \in Thread, VisitExpand(t)
  PROVE  IInv'
<1> DEFINE k == Head(work[t]).key
           w == Expand(k) \o Tail(work[t])
<1>1. pc[t] = "work" /\ work[t] # << >> /\ TerminalResult(k) = {}
  BY DEF VisitExpand, Undecided
<1>2. k \in Key /\ Tail(work[t]) \in Seq(SoundItem)
  BY <1>1, PopSound DEF IInv, StacksSound
<1>3. Expand(k) \in Seq(SoundItem)
  BY <1>1, <1>2, ExpandSound
<1>4. w \in Seq(SoundItem)
  BY <1>2, <1>3, ConcatProperties
<1>5. work' = [work EXCEPT ![t] = w]
  BY DEF VisitExpand
<1>6. memo' \in [Thread -> SUBSET Key]
  BY <1>2 DEF VisitExpand, IInv, TypeOK
<1>7. results' = [results EXCEPT ![t] = results[t]]
  BY DEF VisitExpand, IInv, TypeOK
<1>8. DOMAIN results[t] \subseteq Key /\ \A j \in DOMAIN results[t] : results[t][j] = ValueOf(j)
  BY DEF IInv, TypeOK, TablesExact
<1>9. UNCHANGED <<handles, store, entries, order, started, pc, call, made, outcome>>
  BY DEF VisitExpand
<1> HIDE DEF w, k
<1> QED
  BY <1>1, <1>4, <1>5, <1>6, <1>7, <1>8, <1>9, LocalStep

\* A call starts on two families the callers hold.
LEMMA StartStep ==
  ASSUME IInv, NEW t \in Thread, NEW op \in CallOps, NEW l \in handles, NEW r \in handles,
         Start(t, op, l, r)
  PROVE  IInv'
<1>1. op \in Ops /\ l \in Family /\ r \in Family
  BY ApplyAssumption DEF IInv, TypeOK
<1>2. <<Visit(KeyOf(op, l, r))>> \in Seq(SoundItem)
  <2>1. Visit(KeyOf(op, l, r)) \in SoundItem
    BY <1>1, KeyOfSound DEF Visit, SoundItem, WorkItem
  <2> QED
    BY <2>1
<1>3. <<Visit(KeyOf(op, l, r))>> \in Seq(WorkItem)
  BY <1>2, SoundItemsAreItems, SeqMonotonic, Zenon
<1>4. TypeOK'
  <2>1. work' \in [Thread -> Seq(WorkItem)]
    BY <1>3 DEF IInv, TypeOK, Start
  <2>2. call' \in [Thread -> Key]
    BY <1>1 DEF IInv, TypeOK, Start, Key
  <2>3. outcome' \in [Thread -> Outcome]
    BY DEF IInv, TypeOK, Start, Outcome, NoOutcome, Family, Zero
  <2>4. pc' \in [Thread -> {"idle", "work", "made"}] /\ started' \in 0 .. MaxCalls
    BY ApplyAssumption DEF IInv, TypeOK, Start
  <2> QED
    BY <2>1, <2>2, <2>3, <2>4 DEF IInv, TypeOK, Start
<1>5. \A u \in Thread : work'[u] = IF u = t THEN <<Visit(KeyOf(op, l, r))>> ELSE work[u]
  BY DEF IInv, TypeOK, Start
<1>6. \A u \in Thread : pc'[u] = IF u = t THEN "work" ELSE pc[u]
  BY DEF IInv, TypeOK, Start
<1>7. StacksSound'
  BY <1>2, <1>5 DEF IInv, StacksSound
<1>8. MadeExact'
  BY <1>5, <1>6 DEF IInv, MadeExact, Start
<1>9. TablesExact'
  BY DEF IInv, TablesExact, Start
<1>10. OutcomeExact'
  <2>1. ASSUME NEW u \in Thread, outcome'[u].kind = "ok"
        PROVE  outcome[u].kind = "ok" /\ outcome'[u] = outcome[u] /\ call'[u] = call[u]
    BY <2>1 DEF IInv, TypeOK, Start, NoOutcome
  <2> QED
    BY <2>1 DEF IInv, OutcomeExact
<1> QED
  BY <1>4, <1>7, <1>8, <1>9, <1>10 DEF IInv

\* A call returns: its locals are dropped and its outcome is recorded.
LEMMA ReturnStep ==
  ASSUME IInv, NEW t \in Thread, NEW o \in Outcome, Return(t, o),
         o.kind = "ok" => o.value = Denote(call[t].op, call[t].left, call[t].right),
         handles' \subseteq Family,
         UNCHANGED <<store, entries, order, started, call>>
  PROVE  IInv'
<1>1. \A u \in Thread :
        /\ work'[u] = IF u = t THEN << >> ELSE work[u]
        /\ results'[u] = IF u = t THEN Empty ELSE results[u]
        /\ pc'[u] = IF u = t THEN "idle" ELSE pc[u]
        /\ made'[u] = IF u = t THEN Zero ELSE made[u]
        /\ outcome'[u] = IF u = t THEN o ELSE outcome[u]
  BY DEF IInv, TypeOK, Return
<1>2. DOMAIN Empty = {}
  BY DEF Empty
<1>3. TypeOK'
  <2>1. /\ work' \in [Thread -> Seq(WorkItem)]
        /\ pc' \in [Thread -> {"idle", "work", "made"}]
        /\ outcome' \in [Thread -> Outcome]
        /\ memo' \in [Thread -> SUBSET Key]
    BY DEF IInv, TypeOK, Return
  <2>2. made' \in [Thread -> Family]
    BY DEF IInv, TypeOK, Return, Zero, Family
  <2>3. results' = [u \in Thread |-> results'[u]]
    BY DEF IInv, TypeOK, Return
  <2>4. ASSUME NEW u \in Thread
        PROVE  DOMAIN results'[u] \subseteq Key /\ \A k \in DOMAIN results'[u] : results'[u][k] \in Family
    BY <1>1, <1>2 DEF IInv, TypeOK
  <2> QED
    BY <2>1, <2>2, <2>3, <2>4 DEF IInv, TypeOK
<1>4. StacksSound'
  <2>1. << >> \in Seq(SoundItem)
    OBVIOUS
  <2> QED
    BY <1>1, <2>1 DEF IInv, StacksSound
<1>5. MadeExact'
  BY <1>1 DEF IInv, MadeExact
<1>6. TablesExact'
  BY <1>1, <1>2 DEF IInv, TablesExact
<1>7. OutcomeExact'
  BY <1>1 DEF IInv, OutcomeExact
<1> QED
  BY <1>3, <1>4, <1>5, <1>6, <1>7 DEF IInv

\* A call that fails at a limit keeps the invariant.
LEMMA LimitStep ==
  ASSUME IInv, NEW t \in Thread, OverMemoLimit(t) \/ OverNodeLimit(t)
  PROVE  IInv'
<1>1. PICK limit \in {"memo_limit", "node_limit"} : Return(t, [kind |-> limit, value |-> Zero])
  BY DEF OverMemoLimit, OverNodeLimit
<1>2. [kind |-> limit, value |-> Zero] \in Outcome
  BY DEF Outcome, Zero, Family
<1>3. handles' \subseteq Family /\ UNCHANGED <<store, entries, order, started, call>>
  BY DEF OverMemoLimit, OverNodeLimit, IInv, TypeOK
<1> QED
  BY <1>1, <1>2, <1>3, ReturnStep

\* A call that returns its root result keeps the invariant.
LEMMA FinishStep ==
  ASSUME IInv, NEW t \in Thread, Finish(t)
  PROVE  IInv'
<1> DEFINE x == results[t][RootKey(t)]
<1>1. call[t] \in Key /\ RootKey(t) \in DOMAIN results[t]
  BY DEF Finish, IInv, TypeOK
<1>2. x \in Family
  BY <1>1 DEF IInv, TypeOK
<1>3. x = ValueOf(RootKey(t))
  BY <1>1 DEF IInv, TablesExact
<1>4. x = Denote(call[t].op, call[t].left, call[t].right)
  BY <1>1, <1>3, KeyOfSound DEF RootKey, Key
<1>5. [kind |-> "ok", value |-> x] \in Outcome
  BY <1>2 DEF Outcome
<1>6. handles' \subseteq Family
  BY <1>2 DEF Finish, IInv, TypeOK
<1>7. Return(t, [kind |-> "ok", value |-> x]) /\ UNCHANGED <<store, entries, order, started, call>>
  BY DEF Finish
<1> HIDE DEF x
<1> QED
  BY <1>4, <1>5, <1>6, <1>7, ReturnStep

\* make_node returns the value of the key whose children it combines.
LEMMA MakeNodeStep ==
  ASSUME IInv, NEW t \in Thread, MakeNode(t)
  PROVE  IInv'
<1> DEFINE w == Head(work[t])
<1>1. pc[t] = "work" /\ work[t] # << >> /\ w.kind = "combine"
  BY DEF MakeNode, Combining
<1>2. w \in SoundItem /\ w \in WorkItem /\ w.key \in Key
  BY <1>1, PopSound DEF IInv, StacksSound
<1>3. w.variable \in Var /\ w.hi \in DOMAIN results[t] /\ w.lo \in DOMAIN results[t]
  BY <1>1, <1>2 DEF WorkItem, MakeNode, Combining
<1>4. /\ results[t][w.hi] = ValueOf(w.hi) /\ results[t][w.hi] \in Family
      /\ results[t][w.lo] = ValueOf(w.lo) /\ results[t][w.lo] \in Family
  BY <1>3 DEF IInv, TypeOK, TablesExact
<1>5. ValueOf(w.key) = Node(w.variable, ValueOf(w.hi), ValueOf(w.lo))
  BY <1>1, <1>2 DEF SoundItem
<1>6. Combined(t) = ValueOf(w.key) /\ Combined(t) \in Family
  BY <1>3, <1>4, <1>5, NodeTyping DEF Combined, CombinedHi, CombinedLo
<1>7. store' \subseteq Family \ Terminals
  <2>1. CASE NeedsNoNode(t)
    BY <2>1 DEF MakeNode, IInv, TypeOK
  <2>2. CASE ~NeedsNoNode(t)
    <3>1. CombinedHi(t) # {} /\ store' = store \union {Combined(t)}
      BY <2>2 DEF MakeNode, NeedsNoNode, Zero
    <3>2. PICK S \in CombinedHi(t) : TRUE
      BY <3>1
    <3>3. S \union {w.variable} \in Combined(t)
      BY <3>2 DEF Combined, Node
    <3>4. Combined(t) \notin Terminals
      BY <3>3 DEF Terminals, Zero, One
    <3> QED
      BY <1>6, <3>1, <3>4 DEF IInv, TypeOK
  <2> QED
    BY <2>1, <2>2
<1>8. \A u \in Thread : /\ pc'[u] = IF u = t THEN "made" ELSE pc[u]
                        /\ made'[u] = IF u = t THEN Combined(t) ELSE made[u]
  BY DEF IInv, TypeOK, MakeNode
<1>9. TypeOK'
  <2>1. pc' \in [Thread -> {"idle", "work", "made"}] /\ made' \in [Thread -> Family]
    BY <1>6 DEF IInv, TypeOK, MakeNode
  <2> QED
    BY <1>7, <2>1 DEF IInv, TypeOK, MakeNode
<1>10. StacksSound'
  BY DEF IInv, StacksSound, MakeNode
<1>11. MadeExact'
  <2> SUFFICES ASSUME NEW u \in Thread, pc'[u] = "made"
               PROVE  work[u] # << >> /\ made'[u] = ValueOf(Head(work[u]).key)
    BY DEF MadeExact, MakeNode, ValueOf
  <2>1. CASE u = t
    BY <1>1, <1>6, <1>8, <2>1
  <2>2. CASE u # t
    BY <1>8, <2>2 DEF IInv, MadeExact
  <2> QED
    BY <2>1, <2>2
<1>12. TablesExact'
  BY DEF IInv, TablesExact, MakeNode
<1>13. OutcomeExact'
  BY DEF IInv, OutcomeExact, MakeNode
<1> QED
  BY <1>9, <1>10, <1>11, <1>12, <1>13 DEF IInv

\* The exact result is published in the shared cache and in the memo.
LEMMA RecordMadeStep ==
  ASSUME IInv, NEW t \in Thread, RecordMade(t)
  PROVE  IInv'
<1> DEFINE k == Head(work[t]).key
           x == made[t]
<1>1. pc[t] = "made" /\ work[t] # << >> /\ x = ValueOf(k)
  BY DEF RecordMade, IInv, MadeExact
<1>2. k \in Key /\ Tail(work[t]) \in Seq(SoundItem) /\ Tail(work[t]) \in Seq(WorkItem)
  BY <1>1, PopSound DEF IInv, StacksSound
<1>3. CacheInsert(k, x) /\ Record(t, k, x)
  BY DEF RecordMade
<1>4. /\ DOMAIN Put(results[t], k, x) \subseteq Key
      /\ \A j \in DOMAIN Put(results[t], k, x) :
           Put(results[t], k, x)[j] = ValueOf(j) /\ Put(results[t], k, x)[j] \in Family
  <2>1. DOMAIN results[t] \subseteq Key /\ \A j \in DOMAIN results[t] : results[t][j] = ValueOf(j)
    BY DEF IInv, TypeOK, TablesExact
  <2> HIDE DEF k, x
  <2> QED
    BY <1>1, <1>2, <2>1, PutExact
<1>5. \A u \in Thread :
        /\ pc'[u] = IF u = t THEN "work" ELSE pc[u]
        /\ work'[u] = IF u = t THEN Tail(work[t]) ELSE work[u]
        /\ results'[u] = IF u = t THEN Put(results[t], k, x) ELSE results[u]
        /\ made'[u] = IF u = t THEN Zero ELSE made[u]
  BY DEF RecordMade, Record, Pop, IInv, TypeOK
<1>6. /\ DOMAIN entries' \subseteq Key
      /\ \A j \in DOMAIN entries' : entries'[j] = ValueOf(j) /\ entries'[j] \in Family
      /\ order' \in Seq(Key)
  <2> DEFINE kept == [y \in DOMAIN entries \ {Head(order)} |-> entries[y]]
  <2>1. /\ DOMAIN entries \subseteq Key /\ order \in Seq(Key)
        /\ \A j \in DOMAIN entries : entries[j] = ValueOf(j) /\ entries[j] \in Family
    BY DEF IInv, TypeOK, TablesExact
  <2>2. CASE UNCHANGED <<entries, order>>
    BY <2>1, <2>2, Zenon DEF ValueOf
  <2>3. CASE entries' = Put(entries, k, x) /\ order' = Append(order, k)
    <3> HIDE DEF k, x
    <3> QED
      BY <1>1, <1>2, <2>1, <2>3, PutExact
  <2>4. CASE order # << >> /\ entries' = Put(kept, k, x) /\ order' = Append(Tail(order), k)
    <3>1. DOMAIN kept \subseteq Key /\ \A j \in DOMAIN kept : kept[j] = ValueOf(j)
      BY <2>1
    <3>2. order' \in Seq(Key)
      BY <1>2, <2>1, <2>4
    <3> HIDE DEF k, x, kept
    <3> QED
      BY <1>1, <1>2, <2>4, <3>1, <3>2, PutExact
  <2> QED
    BY <1>3, <2>2, <2>3, <2>4 DEF CacheInsert
<1> HIDE DEF k, x
<1>7. TypeOK'
  <2>1. /\ work' \in [Thread -> Seq(WorkItem)]
        /\ pc' \in [Thread -> {"idle", "work", "made"}]
    BY <1>2 DEF IInv, TypeOK, RecordMade, Pop
  <2>2. made' \in [Thread -> Family]
    BY DEF IInv, TypeOK, RecordMade, Zero, Family
  <2>3. results' = [u \in Thread |-> results'[u]]
    BY <1>3 DEF IInv, TypeOK, Record
  <2>4. ASSUME NEW u \in Thread
        PROVE  DOMAIN results'[u] \subseteq Key /\ \A j \in DOMAIN results'[u] : results'[u][j] \in Family
    BY <1>4, <1>5 DEF IInv, TypeOK
  <2> QED
    BY <1>6, <2>1, <2>2, <2>3, <2>4 DEF IInv, TypeOK, RecordMade
<1>8. StacksSound'
  BY <1>2, <1>5 DEF IInv, StacksSound
<1>9. MadeExact'
  BY <1>5 DEF IInv, MadeExact
<1>10. TablesExact'
  BY <1>4, <1>5, <1>6 DEF IInv, TablesExact
<1>11. OutcomeExact'
  BY DEF IInv, OutcomeExact, RecordMade
<1> QED
  BY <1>7, <1>8, <1>9, <1>10, <1>11 DEF IInv

\* Drops and collections touch neither the tables nor the stacks.
LEMMA EnvironmentStep ==
  ASSUME IInv, (\E F \in handles : Drop(F)) \/ Collect \/ UNCHANGED vars
  PROVE  IInv'
<1>1. UNCHANGED <<entries, order, started, pc, call, memo, results, work, made, outcome>>
  BY DEF Drop, Collect, vars
<1>2. handles' \subseteq Family
  BY DEF Drop, Collect, vars, IInv, TypeOK
<1>3. store' \subseteq Family \ Terminals
  <2>1. CASE Collect
    <3>1. Pinned \subseteq Family
      BY PinnedTyping DEF IInv
    <3> QED
      BY <2>1, <3>1, NodesTyping DEF Collect
  <2>2. CASE UNCHANGED store
    BY <2>2 DEF IInv, TypeOK
  <2> QED
    BY <2>1, <2>2 DEF Drop, vars
<1>4. TypeOK'
  BY <1>1, <1>2, <1>3 DEF IInv, TypeOK
<1>5. StacksSound' /\ MadeExact' /\ TablesExact' /\ OutcomeExact'
  BY <1>1 DEF IInv, StacksSound, MadeExact, TablesExact, OutcomeExact
<1> QED
  BY <1>4, <1>5 DEF IInv

----------------------------------------------------------------------------
\* The invariant holds in every reachable state of every instance.
THEOREM Invariance == Spec => []IInv
<1>1. Init => IInv
  BY InitIInv
<1>2. IInv /\ [Next]_vars => IInv'
  <2> SUFFICES ASSUME IInv, [Next]_vars PROVE IInv'
    OBVIOUS
  <2>1. ASSUME NEW t \in Thread, NEW op \in CallOps, NEW l \in handles, NEW r \in handles,
               Start(t, op, l, r)
        PROVE  IInv'
    BY <2>1, StartStep
  <2>2. ASSUME NEW t \in Thread, Step(t)
        PROVE  IInv'
    BY <2>2, VisitKnownStep, VisitTerminalStep, VisitCachedStep, VisitExpandStep, LimitStep,
       MakeNodeStep, RecordMadeStep, FinishStep DEF Step
  <2>3. CASE (\E F \in handles : Drop(F)) \/ Collect \/ UNCHANGED vars
    BY <2>3, EnvironmentStep
  <2> QED
    BY <2>1, <2>2, <2>3 DEF Next
<1> QED
  BY <1>1, <1>2, PTL DEF Spec

\* The variables of apply keep their types in every instance.
THEOREM TypeCorrect == Spec => []TypeOK
BY Invariance, PTL DEF IInv

\* Every entry of a memo and of the shared cache is exact in every instance.
THEOREM TablesAreExact == Spec => []TablesExact
BY Invariance, PTL DEF IInv

\* A call that succeeds returns exactly the family its operation denotes.
THEOREM OutcomesAreExact == Spec => []OutcomeExact
BY Invariance, PTL DEF IInv

----------------------------------------------------------------------------
(* Refinement: what the callers see of apply is a behaviour of FamilyCalls.*)

Busy(status) == {t \in Thread : status[t] # "idle"}

\* A step of a call that no caller sees.
LEMMA SilentStep ==
  ASSUME UNCHANGED <<handles, call, outcome>>, \A t \in Thread : pc'[t] = "idle" <=> pc[t] = "idle"
  PROVE  UNCHANGED Promise!vars
BY DEF Promise!vars

\* The call of thread t ends.
LEMMA ReturnedThreads ==
  ASSUME TypeOK, NEW t \in Thread, NEW o, pc[t] # "idle", Return(t, o)
  PROVE  /\ t \in Busy(pc)
         /\ Busy(pc') = Busy(pc) \ {t}
         /\ outcome' = [outcome EXCEPT ![t] = o]
BY DEF TypeOK, Return, Busy

\* Each step of apply is a step of FamilyCalls or a stutter.
LEMMA StepRefines ==
  ASSUME IInv, [Next]_vars
  PROVE  [Promise!Next]_Promise!vars
<1>1. ASSUME NEW t \in Thread, NEW op \in CallOps, NEW l \in handles, NEW r \in handles,
             Start(t, op, l, r)
      PROVE  Promise!Next
  <2>1. Busy(pc') = Busy(pc) \union {t} /\ t \notin Busy(pc)
    BY <1>1 DEF Start, IInv, TypeOK, Busy
  <2>2. Promise!Start(t, op, l, r)
    BY <1>1, <2>1 DEF Start, Promise!Start, Busy, NoOutcome, Promise!NoOutcome, Zero, Promise!Zero
  <2> QED
    BY <2>2 DEF Promise!Next
<1>2. ASSUME NEW t \in Thread,
             VisitKnown(t) \/ VisitTerminal(t) \/ VisitCached(t) \/ VisitExpand(t)
      PROVE  UNCHANGED Promise!vars
  BY <1>2, SilentStep DEF VisitKnown, VisitTerminal, VisitCached, VisitExpand
<1>3. ASSUME NEW t \in Thread, MakeNode(t) \/ RecordMade(t)
      PROVE  UNCHANGED Promise!vars
  <2>1. \A u \in Thread : pc'[u] = "idle" <=> pc[u] = "idle"
    BY <1>3 DEF MakeNode, Combining, RecordMade, IInv, TypeOK
  <2> QED
    BY <1>3, <2>1, SilentStep DEF MakeNode, RecordMade
<1>4. ASSUME NEW t \in Thread, OverMemoLimit(t) \/ OverNodeLimit(t)
      PROVE  Promise!Next
  <2>1. PICK limit \in {"memo_limit", "node_limit"} : Return(t, [kind |-> limit, value |-> Zero])
    BY <1>4 DEF OverMemoLimit, OverNodeLimit
  <2>2. pc[t] # "idle" /\ UNCHANGED <<handles, call>>
    BY <1>4 DEF OverMemoLimit, OverNodeLimit, Undecided, Combining
  <2>3. Promise!Fail(t, limit)
    BY <2>1, <2>2, ReturnedThreads DEF Promise!Fail, Zero, Promise!Zero, Busy, IInv
  <2> QED
    BY <2>3 DEF Promise!Next, Promise!Answer
<1>5. ASSUME NEW t \in Thread, Finish(t)
      PROVE  Promise!Next
  <2> DEFINE x == results[t][RootKey(t)]
  <2>1. call[t] \in Key /\ RootKey(t) \in DOMAIN results[t]
    BY <1>5 DEF Finish, IInv, TypeOK
  <2>2. x = ValueOf(RootKey(t))
    BY <2>1 DEF IInv, TablesExact
  <2>3. x = Denote(call[t].op, call[t].left, call[t].right)
    BY <2>1, <2>2, KeyOfSound DEF RootKey, Key
  <2>4. /\ pc[t] # "idle" /\ UNCHANGED call
        /\ handles' = handles \union {x}
        /\ Return(t, [kind |-> "ok", value |-> x])
    BY <1>5 DEF Finish
  <2> HIDE DEF x
  <2>5. Promise!Succeed(t)
    BY <2>3, <2>4, ReturnedThreads DEF Promise!Succeed, Promise!Denote, Denote, Busy, IInv
  <2> QED
    BY <2>5 DEF Promise!Next, Promise!Answer
<1>6. ASSUME NEW F \in handles \intersect Droppable, Drop(F)
      PROVE  Promise!Next
  <2>1. Promise!Drop(F)
    BY <1>6 DEF Drop, Promise!Drop
  <2> QED
    BY <2>1 DEF Promise!Next
<1>7. CASE Collect \/ UNCHANGED vars
  BY <1>7, SilentStep DEF Collect, vars
<1> QED
  BY <1>1, <1>2, <1>3, <1>4, <1>5, <1>6, <1>7 DEF Next, Step

\* apply implements the promise of the family operations in every instance: a
\* call answers with the exact family or with a limit, and a failed call
\* leaves the handles of the callers as they were.
THEOREM Refinement == Spec => Promise!Spec
<1>1. Init => Promise!Init
  BY DEF Init, Promise!Init, NoOutcome, Promise!NoOutcome, Zero, Promise!Zero
<1>2. IInv /\ [Next]_vars => [Promise!Next]_Promise!vars
  BY StepRefines
<1> QED
  BY <1>1, <1>2, Invariance, PTL DEF Spec, Promise!Spec

----------------------------------------------------------------------------
(* The shape of a stack w, given the memo m, the set d of the keys with a  *)
(* result, and the key of the call.                                        *)

KeyVars(k) == Support(k.left) \union Support(k.right)

\* A Combine is the one its key was split with, and its key was not terminal.
ItemsExpanded(w) ==
  \A i \in DOMAIN w : w[i].kind = "combine" => w[i] = Combine(w[i].key) /\ TerminalResult(w[i].key) = {}

\* Whatever is above a Combine is about later variables: no key comes up while
\* it is being computed below.
LaterAbove(w) ==
  \A i, j \in DOMAIN w : i < j /\ w[j].kind = "combine" =>
    \A v \in KeyVars(w[i].key) : w[j].variable < v

\* The key c has a result or is still above position j of the stack.
Coming(w, d, c, j) == c \in d \/ \E i \in DOMAIN w : i < j /\ w[i].key = c

ChildrenComing(w, d) ==
  \A j \in DOMAIN w : w[j].kind = "combine" => Coming(w, d, w[j].hi, j) /\ Coming(w, d, w[j].lo, j)

\* A key of the memo has a result or waits in a Combine.
MemoPending(w, m, d) == \A k \in m : k \in d \/ \E i \in DOMAIN w : w[i].kind = "combine" /\ w[i].key = k

RootComing(w, d, root) == root \in d \/ \E i \in DOMAIN w : w[i].key = root

Shape(w, m, d, root) ==
  /\ w \in Seq(WorkItem)
  /\ ItemsExpanded(w)
  /\ LaterAbove(w)
  /\ ChildrenComing(w, d)
  /\ MemoPending(w, m, d)
  /\ RootComing(w, d, root)

\* A call begins with its root key.
LEMMA FirstShape ==
  ASSUME NEW root \in Key
  PROVE  Shape(<<Visit(root)>>, {}, {}, root)
<1> DEFINE w == <<Visit(root)>>
<1>1. Visit(root) \in WorkItem
  BY DEF Visit, WorkItem
<1>2. w \in Seq(WorkItem) /\ DOMAIN w = {1} /\ w[1] = Visit(root)
  BY <1>1
<1>3. w[1].kind = "visit" /\ w[1].key = root
  BY <1>2 DEF Visit
<1> HIDE DEF w
<1> QED
  BY <1>2, <1>3 DEF Shape, ItemsExpanded, LaterAbove, ChildrenComing, MemoPending, RootComing

\* The positions of the stack after a pop.
LEMMA PopPositions ==
  ASSUME NEW w \in Seq(WorkItem), w # << >>
  PROVE  /\ Tail(w) \in Seq(WorkItem)
         /\ Head(w) = w[1] /\ 1 \in DOMAIN w
         /\ DOMAIN w \subseteq Nat /\ DOMAIN Tail(w) \subseteq Nat
         /\ \A i \in DOMAIN Tail(w) : i + 1 \in DOMAIN w /\ i + 1 # 1 /\ Tail(w)[i] = w[i + 1]
         /\ \A i \in DOMAIN w : i = 1 \/ \E j \in DOMAIN Tail(w) : i = j + 1
<1> DEFINE n == Len(w)
           u == Tail(w)
<1>1. n \in Nat /\ n # 0 /\ DOMAIN w = 1 .. n
  BY LenProperties, EmptySeq
<1>2. /\ u \in Seq(WorkItem) /\ Len(u) = n - 1
      /\ \A i \in 1 .. n - 1 : u[i] = w[i + 1]
      /\ Head(w) = w[1]
  BY <1>1, HeadTailProperties
<1>3. DOMAIN u = 1 .. n - 1
  BY <1>2, LenProperties
<1> HIDE DEF n, u
<1>4. \A i \in 1 .. n - 1 : i + 1 \in 1 .. n /\ i + 1 # 1
  BY <1>1
<1>5. \A i \in 1 .. n : i = 1 \/ (i - 1 \in 1 .. n - 1 /\ i = (i - 1) + 1)
  BY <1>1
<1>6. 1 \in 1 .. n /\ 1 .. n \subseteq Nat /\ 1 .. n - 1 \subseteq Nat
  BY <1>1
<1> QED
  BY <1>1, <1>2, <1>3, <1>4, <1>5, <1>6 DEF u

\* The top of the stack is popped once its key has a result.
LEMMA PopShape ==
  ASSUME NEW w, NEW m, NEW d, NEW root, Shape(w, m, d, root), w # << >>
  PROVE  Shape(Tail(w), m, d \union {Head(w).key}, root)
<1> DEFINE u == Tail(w)
           k == Head(w).key
           e == d \union {k}
<1>1. w \in Seq(WorkItem)
  BY DEF Shape
<1>2. /\ u \in Seq(WorkItem)
      /\ k = w[1].key /\ 1 \in DOMAIN w
      /\ DOMAIN w \subseteq Nat /\ DOMAIN u \subseteq Nat
      /\ \A i \in DOMAIN u : i + 1 \in DOMAIN w /\ i + 1 # 1 /\ u[i] = w[i + 1]
      /\ \A i \in DOMAIN w : i = 1 \/ \E j \in DOMAIN u : i = j + 1
  BY <1>1, PopPositions
<1>3. d \subseteq e /\ k \in e
  OBVIOUS
<1> HIDE DEF u, k, e
<1>4. ItemsExpanded(u)
  BY <1>2 DEF Shape, ItemsExpanded
<1>5. LaterAbove(u)
  <2> SUFFICES ASSUME NEW i \in DOMAIN u, NEW j \in DOMAIN u, i < j, u[j].kind = "combine",
                      NEW v \in KeyVars(u[i].key)
               PROVE  u[j].variable < v
    BY DEF LaterAbove
  <2>1. i \in Nat /\ j \in Nat /\ i + 1 < j + 1
    BY <1>2
  <2> QED
    BY <1>2, <2>1 DEF Shape, LaterAbove
<1>6. ASSUME NEW j \in DOMAIN u, NEW c, Coming(w, d, c, j + 1)
      PROVE  Coming(u, e, c, j)
  <2>1. CASE c \in d
    BY <1>3, <2>1 DEF Coming
  <2>2. CASE \E i \in DOMAIN w : i < j + 1 /\ w[i].key = c
    <3>1. PICK i \in DOMAIN w : i < j + 1 /\ w[i].key = c
      BY <2>2
    <3>2. CASE i = 1
      BY <1>2, <1>3, <3>1, <3>2 DEF Coming
    <3>3. CASE i # 1
      <4>1. PICK x \in DOMAIN u : i = x + 1
        BY <1>2, <3>3
      <4>2. x < j /\ u[x].key = c
        BY <1>2, <3>1, <4>1
      <4> QED
        BY <4>2 DEF Coming
    <3> QED
      BY <3>2, <3>3
  <2> QED
    BY <1>6, <2>1, <2>2 DEF Coming
<1>7. ChildrenComing(u, e)
  BY <1>2, <1>6 DEF Shape, ChildrenComing
<1>8. MemoPending(u, m, e)
  <2> SUFFICES ASSUME NEW x \in m, x \notin e
               PROVE  \E i \in DOMAIN u : u[i].kind = "combine" /\ u[i].key = x
    BY DEF MemoPending
  <2>1. PICK i \in DOMAIN w : w[i].kind = "combine" /\ w[i].key = x
    BY <1>3 DEF Shape, MemoPending
  <2> QED
    BY <1>2, <1>3, <2>1
<1>9. RootComing(u, e, root)
  BY <1>2, <1>3 DEF Shape, RootComing
<1> QED
  BY <1>2, <1>4, <1>5, <1>7, <1>8, <1>9 DEF Shape, u, e, k

\* A key of the memo that is met again already has its result: the memo hit of
\* apply never drops a key whose result is still to come.
LEMMA KnownHasResult ==
  ASSUME NEW w, NEW m \in SUBSET Key, NEW d, NEW root, Shape(w, m, d, root), w # << >>,
         NEW k \in m, Head(w) = Visit(k)
  PROVE  k \in d
<1> SUFFICES ASSUME k \notin d PROVE FALSE
  OBVIOUS
<1>1. w \in Seq(WorkItem)
  BY DEF Shape
<1>2. Head(w) = w[1] /\ 1 \in DOMAIN w /\ DOMAIN w = 1 .. Len(w) /\ Len(w) \in Nat
  BY <1>1, PopPositions, LenProperties
<1>3. PICK i \in DOMAIN w : w[i].kind = "combine" /\ w[i].key = k
  BY DEF Shape, MemoPending
<1>4. w[1].kind = "visit" /\ w[1].key = k
  BY <1>2 DEF Visit
<1>5. 1 < i
  BY <1>2, <1>3, <1>4
<1>6. w[i].variable = Branch(k) /\ TerminalResult(k) = {}
  <2>1. w[i] = Combine(k) /\ TerminalResult(k) = {}
    BY <1>3 DEF Shape, ItemsExpanded
  <2> QED
    BY <2>1 DEF Combine
<1>7. Branch(k) \in Var /\ Branch(k) \in KeyVars(k)
  BY <1>6, BranchExists DEF IsBranch, KeyVars
<1>8. Branch(k) < Branch(k)
  BY <1>2, <1>3, <1>4, <1>5, <1>6, <1>7 DEF Shape, LaterAbove
<1> QED
  BY <1>7, <1>8 DEF Var

\* What `expect` asks for is there: the children of a Combine on top, and the
\* root once the stack is empty.
LEMMA ShapeExpected ==
  ASSUME NEW w, NEW m, NEW d, NEW root, Shape(w, m, d, root)
  PROVE  /\ w = << >> => root \in d
         /\ w # << >> /\ Head(w).kind = "combine" => Head(w).hi \in d /\ Head(w).lo \in d
<1>1. w \in Seq(WorkItem)
  BY DEF Shape
<1>2. CASE w = << >>
  <2>1. DOMAIN w = {}
    BY <1>2
  <2> QED
    BY <1>2, <2>1 DEF Shape, RootComing
<1>3. CASE w # << >>
  <2>1. Head(w) = w[1] /\ 1 \in DOMAIN w /\ DOMAIN w = 1 .. Len(w) /\ Len(w) \in Nat
    BY <1>1, <1>3, PopPositions, LenProperties
  <2>2. \A i \in DOMAIN w : ~(i < 1)
    BY <2>1
  <2> QED
    BY <1>3, <2>1, <2>2 DEF Shape, ChildrenComing, Coming
<1> QED
  BY <1>2, <1>3

\* The variables of a cofactor.
LEMMA CofactorVars ==
  ASSUME NEW F, NEW v
  PROVE  /\ Support(Hi(v, F)) \subseteq Support(F) \ {v}
         /\ Support(Lo(v, F)) \subseteq Support(F) \ {v}
BY DEF Support, Hi, Lo

\* Splitting a key gives keys over later variables only.
LEMMA ChildVars ==
  ASSUME NEW k \in Key, TerminalResult(k) = {}
  PROVE  /\ HiKey(k) \in Key /\ LoKey(k) \in Key /\ Branch(k) \in Var
         /\ \A v \in KeyVars(HiKey(k)) \union KeyVars(LoKey(k)) : v \in KeyVars(k) /\ Branch(k) < v
<1> DEFINE b == Branch(k)
           l == k.left
           r == k.right
<1>1. k.op \in Ops /\ l \in Family /\ r \in Family
  BY DEF Key
<1>2. b \in Var /\ IsBranch(b, k)
  BY BranchExists
<1>3. (\A w \in Support(l) : b <= w) /\ (\A w \in Support(r) : b <= w)
  BY <1>2 DEF IsBranch
<1>4. Support(l) \subseteq Var /\ Support(r) \subseteq Var
  BY <1>1 DEF Support, Family
<1> HIDE DEF b, l, r
<1>5. /\ CofactorHi(b, l) = Hi(b, l) /\ CofactorLo(b, l) = Lo(b, l)
      /\ CofactorHi(b, r) = Hi(b, r) /\ CofactorLo(b, r) = Lo(b, r)
  BY <1>1, <1>2, <1>3, CofactorsAreExact
<1>6. /\ Hi(b, l) \in Family /\ Lo(b, l) \in Family
      /\ Hi(b, r) \in Family /\ Lo(b, r) \in Family
  BY <1>1, <1>2, CofactorTyping
<1>7. HiKey(k) = KeyOf(k.op, Hi(b, l), Hi(b, r)) /\ LoKey(k) = KeyOf(k.op, Lo(b, l), Lo(b, r))
  BY <1>5 DEF HiKey, LoKey, b, l, r
<1>8. HiKey(k) \in Key /\ LoKey(k) \in Key
  BY <1>1, <1>6, <1>7, KeyOfSound
<1>9. /\ KeyVars(HiKey(k)) = Support(Hi(b, l)) \union Support(Hi(b, r))
      /\ KeyVars(LoKey(k)) = Support(Lo(b, l)) \union Support(Lo(b, r))
  BY <1>7 DEF KeyVars, KeyOf
<1>10. ASSUME NEW v \in KeyVars(HiKey(k)) \union KeyVars(LoKey(k))
       PROVE  v \in KeyVars(k) /\ b < v
  <2>1. v \in Support(l) \union Support(r) /\ v # b
    BY <1>9, CofactorVars
  <2>2. v \in KeyVars(k)
    BY <2>1 DEF KeyVars, l, r
  <2>3. b <= v /\ v \in Var
    BY <1>3, <1>4, <2>1
  <2> QED
    BY <1>2, <2>1, <2>2, <2>3, NAssumption DEF Var
<1> QED
  BY <1>2, <1>8, <1>10 DEF b

\* The stack u is the stack w with its top key split.
Split(u, w, k) ==
  /\ u \in Seq(WorkItem)
  /\ DOMAIN u \subseteq Nat
  /\ {1, 2, 3} \subseteq DOMAIN u
  /\ u[1] = Visit(LoKey(k)) /\ u[2] = Visit(HiKey(k)) /\ u[3] = Combine(k)
  /\ \A i \in DOMAIN w : i # 1 => i + 2 \in DOMAIN u /\ u[i + 2] = w[i]
  /\ \A i \in DOMAIN u : i \in {1, 2, 3} \/ (i > 3 /\ \E j \in DOMAIN w : j # 1 /\ i = j + 2)

\* The positions of the stack after the top key is split.
LEMMA ExpandPositions ==
  ASSUME NEW w \in Seq(WorkItem), w # << >>, NEW k, Expand(k) \in Seq(WorkItem),
         NEW u, u = Expand(k) \o Tail(w)
  PROVE  Split(u, w, k)
<1> DEFINE n == Len(w)
           t == Tail(w)
           x == Expand(k)
<1>1. n \in Nat /\ n # 0 /\ DOMAIN w = 1 .. n
  BY LenProperties, EmptySeq
<1>2. /\ t \in Seq(WorkItem) /\ Len(t) = n - 1
      /\ \A i \in 1 .. n - 1 : t[i] = w[i + 1]
  BY <1>1, HeadTailProperties
<1>3. Len(x) = 3 /\ x[1] = Visit(LoKey(k)) /\ x[2] = Visit(HiKey(k)) /\ x[3] = Combine(k)
  BY DEF Expand
<1> HIDE DEF n, t, x
<1>4. /\ u \in Seq(WorkItem) /\ Len(u) = 3 + (n - 1)
      /\ \A i \in 1 .. 3 + (n - 1) : u[i] = IF i <= 3 THEN x[i] ELSE t[i - 3]
  <2>1. x \in Seq(WorkItem) /\ u = x \o t
    BY DEF x, t
  <2>2. /\ u \in Seq(WorkItem) /\ Len(u) = Len(x) + Len(t)
        /\ \A i \in 1 .. Len(x) + Len(t) : u[i] = IF i <= Len(x) THEN x[i] ELSE t[i - Len(x)]
    <3>1. /\ x \o t \in Seq(WorkItem) /\ Len(x \o t) = Len(x) + Len(t)
          /\ \A i \in 1 .. Len(x) + Len(t) : (x \o t)[i] = IF i <= Len(x) THEN x[i] ELSE t[i - Len(x)]
      BY <1>2, <2>1, ConcatProperties, Zenon
    <3> QED
      BY <2>1, <3>1, Zenon
  <2> QED
    BY <1>2, <1>3, <2>2
<1>5. DOMAIN u = 1 .. n + 2
  BY <1>1, <1>4, LenProperties
<1>6. u[1] = x[1] /\ u[2] = x[2] /\ u[3] = x[3] /\ {1, 2, 3} \subseteq 1 .. n + 2
  BY <1>1, <1>4
<1>7. ASSUME NEW i \in 1 .. n, i # 1
      PROVE  i + 2 \in 1 .. n + 2 /\ u[i + 2] = w[i]
  <2>1. i + 2 \in 1 .. 3 + (n - 1) /\ ~(i + 2 <= 3) /\ (i + 2) - 3 = i - 1
        /\ i - 1 \in 1 .. n - 1 /\ (i - 1) + 1 = i
    BY <1>1, <1>7
  <2>2. u[i + 2] = t[(i + 2) - 3]
    BY <1>4, <2>1
  <2>3. t[i - 1] = w[(i - 1) + 1]
    BY <1>2, <2>1
  <2> QED
    <3>1. u[i + 2] = w[i]
      BY <2>1, <2>2, <2>3, Zenon
    <3>2. i + 2 \in 1 .. n + 2
      BY <1>1
    <3> QED
      BY <3>1, <3>2
<1>8. \A i \in 1 .. n + 2 : i \in {1, 2, 3} \/ (i > 3 /\ i - 2 \in 1 .. n /\ i - 2 # 1 /\ i = (i - 2) + 2)
  BY <1>1
<1>9. 1 .. n + 2 \subseteq Nat
  BY <1>1
<1>10. \A i \in DOMAIN u : i \in {1, 2, 3} \/ (i > 3 /\ \E j \in DOMAIN w : j # 1 /\ i = j + 2)
  BY <1>1, <1>5, <1>8
<1> QED
  BY <1>1, <1>3, <1>4, <1>5, <1>6, <1>7, <1>9, <1>10 DEF Split, x, t

\* The top key is split: its children come up first, then its Combine.
LEMMA ExpandShape ==
  ASSUME NEW w, NEW m, NEW d, NEW root, Shape(w, m, d, root), w # << >>,
         NEW k \in Key, Head(w) = Visit(k), TerminalResult(k) = {}, Expand(k) \in Seq(WorkItem)
  PROVE  Shape(Expand(k) \o Tail(w), m \union {k}, d, root)
<1>0. PICK u : u = Expand(k) \o Tail(w)
  OBVIOUS
<1>1. w \in Seq(WorkItem)
  BY DEF Shape
<1>2. /\ u \in Seq(WorkItem)
      /\ DOMAIN u \subseteq Nat
      /\ {1, 2, 3} \subseteq DOMAIN u
      /\ u[1] = Visit(LoKey(k)) /\ u[2] = Visit(HiKey(k)) /\ u[3] = Combine(k)
      /\ \A i \in DOMAIN w : i # 1 => i + 2 \in DOMAIN u /\ u[i + 2] = w[i]
      /\ \A i \in DOMAIN u : i \in {1, 2, 3} \/ (i > 3 /\ \E j \in DOMAIN w : j # 1 /\ i = j + 2)
  <2>1. Split(u, w, k)
    BY <1>0, <1>1, ExpandPositions
  <2> QED
    BY <2>1 DEF Split
<1>3. w[1] = Visit(k) /\ 1 \in DOMAIN w /\ DOMAIN w \subseteq Nat
  BY <1>1, PopPositions
<1>4. /\ w[1].kind = "visit" /\ w[1].key = k
      /\ u[1].kind = "visit" /\ u[1].key = LoKey(k)
      /\ u[2].kind = "visit" /\ u[2].key = HiKey(k)
      /\ u[3].kind = "combine" /\ u[3].key = k /\ u[3].variable = Branch(k)
      /\ u[3].hi = HiKey(k) /\ u[3].lo = LoKey(k)
  BY <1>2, <1>3 DEF Visit, Combine
<1>5. ItemsExpanded(u)
  <2> SUFFICES ASSUME NEW i \in DOMAIN u, u[i].kind = "combine"
               PROVE  u[i] = Combine(u[i].key) /\ TerminalResult(u[i].key) = {}
    BY DEF ItemsExpanded
  <2>1. CASE i \in {1, 2, 3}
    <3>1. i = 3
      BY <1>4, <2>1
    <3> QED
      BY <1>2, <1>4, <3>1
  <2>2. CASE i > 3
    <3>1. PICK y \in DOMAIN w : y # 1 /\ i = y + 2
      BY <1>2, <2>2
    <3>2. w[y] = u[i]
      BY <1>2, <3>1
    <3> QED
      BY <3>2 DEF Shape, ItemsExpanded
  <2> QED
    BY <1>2, <2>1, <2>2
<1>6. LaterAbove(u)
  <2> SUFFICES ASSUME NEW i \in DOMAIN u, NEW j \in DOMAIN u, i < j, u[j].kind = "combine",
                      NEW v \in KeyVars(u[i].key)
               PROVE  u[j].variable < v
    BY DEF LaterAbove
  <2>1. CASE j \in {1, 2, 3}
    <3>1. j = 3 /\ i \in {1, 2}
      BY <1>2, <1>4, <2>1
    <3> QED
      BY <1>4, <3>1, ChildVars
  <2>2. CASE j > 3
    <3>1. PICK y \in DOMAIN w : y # 1 /\ j = y + 2
      BY <1>2, <2>2
    <3>2. w[y] = u[j]
      BY <1>2, <3>1
    <3>3. CASE i \in {1, 2, 3}
      <4>1. v \in KeyVars(w[1].key)
        BY <1>4, <3>3, ChildVars
      <4>2. 1 < y
        BY <1>3, <2>2, <3>1
      <4>3. LaterAbove(w) /\ 1 \in DOMAIN w
        BY <1>3, <3>1 DEF Shape
      <4>4. w[y].kind = "combine" /\ w[y].variable = u[j].variable
        BY <3>2
      <4>5. w[y].variable < v
        BY <3>1, <4>1, <4>2, <4>3, <4>4 DEF LaterAbove
      <4> QED
        BY <4>4, <4>5
    <3>4. CASE i > 3
      <4>1. PICK x \in DOMAIN w : x # 1 /\ i = x + 2
        BY <1>2, <3>4
      <4>2. w[x] = u[i]
        BY <1>2, <4>1
      <4>3. x < y
        BY <1>3, <3>1, <4>1
      <4>4. LaterAbove(w)
        BY DEF Shape
      <4>5. w[y].kind = "combine" /\ w[y].variable = u[j].variable /\ v \in KeyVars(w[x].key)
        BY <3>2, <4>2
      <4>6. w[y].variable < v
        BY <3>1, <4>1, <4>3, <4>4, <4>5 DEF LaterAbove
      <4> QED
        BY <4>5, <4>6
    <3> QED
      BY <1>2, <3>3, <3>4
  <2> QED
    BY <1>2, <2>1, <2>2
<1>7. ASSUME NEW j \in DOMAIN w, j # 1, NEW c, Coming(w, d, c, j)
      PROVE  Coming(u, d, c, j + 2)
  <2>1. CASE c \in d
    BY <2>1 DEF Coming
  <2>2. CASE \E i \in DOMAIN w : i < j /\ w[i].key = c
    <3>1. PICK i \in DOMAIN w : i < j /\ w[i].key = c
      BY <2>2
    <3>2. CASE i = 1
      <4>1. 3 \in DOMAIN u /\ 3 < j + 2 /\ u[3].key = c
        BY <1>2, <1>3, <1>4, <1>7, <3>1, <3>2
      <4> QED
        BY <4>1 DEF Coming
    <3>3. CASE i # 1
      <4>1. i + 2 \in DOMAIN u /\ i + 2 < j + 2 /\ u[i + 2].key = c
        BY <1>2, <1>3, <3>1, <3>3
      <4> QED
        BY <4>1 DEF Coming
    <3> QED
      BY <3>2, <3>3
  <2> QED
    BY <1>7, <2>1, <2>2 DEF Coming
<1>8. ChildrenComing(u, d)
  <2> SUFFICES ASSUME NEW j \in DOMAIN u, u[j].kind = "combine"
               PROVE  Coming(u, d, u[j].hi, j) /\ Coming(u, d, u[j].lo, j)
    BY DEF ChildrenComing
  <2>1. CASE j \in {1, 2, 3}
    <3>1. j = 3 /\ 1 \in DOMAIN u /\ 2 \in DOMAIN u /\ 1 < 3 /\ 2 < 3
      BY <1>2, <1>4, <2>1
    <3> QED
      BY <1>4, <3>1 DEF Coming
  <2>2. CASE j > 3
    <3>1. PICK y \in DOMAIN w : y # 1 /\ j = y + 2
      BY <1>2, <2>2
    <3>2. w[y] = u[j]
      BY <1>2, <3>1
    <3>3. Coming(w, d, w[y].hi, y) /\ Coming(w, d, w[y].lo, y)
      BY <3>2 DEF Shape, ChildrenComing
    <3> QED
      BY <1>7, <3>1, <3>2, <3>3
  <2> QED
    BY <1>2, <2>1, <2>2
<1>9. MemoPending(u, m \union {k}, d)
  <2> SUFFICES ASSUME NEW x \in m \union {k}, x \notin d
               PROVE  \E i \in DOMAIN u : u[i].kind = "combine" /\ u[i].key = x
    BY DEF MemoPending
  <2>1. CASE x = k
    BY <1>2, <1>4, <2>1
  <2>2. CASE x \in m
    <3>1. PICK i \in DOMAIN w : w[i].kind = "combine" /\ w[i].key = x
      BY <2>2 DEF Shape, MemoPending
    <3>2. i # 1
      BY <1>4, <3>1
    <3> QED
      BY <1>2, <3>1, <3>2
  <2> QED
    BY <2>1, <2>2
<1>10. RootComing(u, d, root)
  <2>1. CASE root \in d
    BY <2>1 DEF RootComing
  <2>2. CASE root \notin d
    <3>1. PICK i \in DOMAIN w : w[i].key = root
      BY <2>2 DEF Shape, RootComing
    <3>2. CASE i = 1
      BY <1>2, <1>4, <3>1, <3>2 DEF RootComing
    <3>3. CASE i # 1
      BY <1>2, <3>1, <3>3 DEF RootComing
    <3> QED
      BY <3>2, <3>3
  <2> QED
    BY <2>1, <2>2
<1> QED
  BY <1>0, <1>2, <1>5, <1>6, <1>8, <1>9, <1>10 DEF Shape

----------------------------------------------------------------------------
(* The invariant of the stacks.                                            *)

ShapeAt(t) ==
  IF pc[t] = "idle"
  THEN memo[t] = {} /\ DOMAIN results[t] = {}
  ELSE Shape(work[t], memo[t], DOMAIN results[t], RootKey(t))

StackInv == \A t \in Thread : ShapeAt(t)

\* A step concerns the stack, the memo and the results of thread t only.
OthersKept(t) ==
  \A u \in Thread \ {t} :
    /\ pc'[u] = pc[u] /\ memo'[u] = memo[u] /\ results'[u] = results[u]
    /\ work'[u] = work[u] /\ call'[u] = call[u]

\* So only the stack of t is to be looked at.
LEMMA StackFrame ==
  ASSUME StackInv, NEW t \in Thread, OthersKept(t), ShapeAt(t)'
  PROVE  StackInv'
<1> SUFFICES ASSUME NEW u \in Thread PROVE ShapeAt(u)'
  BY DEF StackInv
<1>1. CASE u = t
  BY <1>1
<1>2. CASE u # t
  BY <1>2 DEF StackInv, OthersKept, ShapeAt, RootKey
<1> QED
  BY <1>1, <1>2

\* The top of the stack is popped when its key has a result now.
LEMMA RecordStep ==
  ASSUME IInv, StackInv, NEW t \in Thread, pc[t] # "idle", work[t] # << >>,
         NEW x, Record(t, Head(work[t]).key, x), Pop(t), UNCHANGED <<call, memo>>,
         pc' = [pc EXCEPT ![t] = "work"]
  PROVE  StackInv'
<1> DEFINE k == Head(work[t]).key
           d == DOMAIN results[t]
<1>1. Shape(work[t], memo[t], d, RootKey(t))
  BY DEF StackInv, ShapeAt
<1>2. Shape(Tail(work[t]), memo[t], d \union {k}, RootKey(t))
  BY <1>1, PopShape
<1>3. /\ work'[t] = Tail(work[t])
      /\ results'[t] = Put(results[t], k, x)
      /\ pc'[t] = "work"
      /\ OthersKept(t)
  BY DEF IInv, TypeOK, Record, Pop, OthersKept
<1>4. DOMAIN results'[t] = d \union {k}
  <2>1. DOMAIN Put(results[t], k, x) = d \union {k}
    BY DEF Put
  <2> QED
    BY <1>3, <2>1
<1> HIDE DEF k, d
<1>5. ShapeAt(t)'
  BY <1>2, <1>3, <1>4 DEF ShapeAt, RootKey
<1> QED
  BY <1>3, <1>5, StackFrame

\* A known key is popped.  It has a result: were it only in the memo, it would
\* be waiting in a Combine below itself.
LEMMA KnownStep ==
  ASSUME IInv, StackInv, NEW t \in Thread, VisitKnown(t)
  PROVE  StackInv'
<1>1. PICK k \in memo[t] \union DOMAIN results[t] : Visiting(t, k)
  BY DEF VisitKnown
<1>2. pc[t] = "work" /\ work[t] # << >> /\ Head(work[t]) = Visit(k) /\ Head(work[t]).key = k
  BY <1>1 DEF Visiting, Visit
<1>3. Shape(work[t], memo[t], DOMAIN results[t], RootKey(t))
  BY <1>2 DEF StackInv, ShapeAt
<1>4. memo[t] \in SUBSET Key
  BY DEF IInv, TypeOK
<1>5. k \in DOMAIN results[t]
  BY <1>1, <1>2, <1>3, <1>4, KnownHasResult
<1>6. DOMAIN results[t] \union {Head(work[t]).key} = DOMAIN results[t]
  BY <1>2, <1>5
<1>7. Shape(Tail(work[t]), memo[t], DOMAIN results[t], RootKey(t))
  BY <1>2, <1>3, <1>6, PopShape
<1>8. /\ work'[t] = Tail(work[t]) /\ UNCHANGED <<pc, call, memo, results>>
      /\ OthersKept(t)
  BY DEF IInv, TypeOK, VisitKnown, Pop, OthersKept
<1>9. ShapeAt(t)'
  BY <1>2, <1>7, <1>8 DEF ShapeAt, RootKey
<1> QED
  BY <1>8, <1>9, StackFrame

\* A key is split.
LEMMA SplitStep ==
  ASSUME IInv, StackInv, NEW t \in Thread, VisitExpand(t)
  PROVE  StackInv'
<1> DEFINE k == Head(work[t]).key
<1>1. /\ pc[t] = "work" /\ work[t] # << >> /\ Head(work[t]).kind = "visit"
      /\ TerminalResult(k) = {}
  BY DEF VisitExpand, Undecided
<1>2. Head(work[t]) \in WorkItem /\ k \in Key
  BY <1>1, PopSound DEF IInv, StacksSound
<1>3. Head(work[t]) = Visit(k)
  BY <1>1, <1>2 DEF WorkItem, Visit
<1>4. Shape(work[t], memo[t], DOMAIN results[t], RootKey(t))
  BY <1>1 DEF StackInv, ShapeAt
<1>5. Expand(k) \in Seq(WorkItem)
  BY <1>1, <1>2, ExpandSound, SoundItemsAreItems, SeqMonotonic, Zenon
<1> HIDE DEF k
<1>6. Shape(Expand(k) \o Tail(work[t]), memo[t] \union {k}, DOMAIN results[t], RootKey(t))
  BY <1>1, <1>2, <1>3, <1>4, <1>5, ExpandShape
<1>7. /\ work'[t] = Expand(k) \o Tail(work[t]) /\ memo'[t] = memo[t] \union {k}
      /\ UNCHANGED <<pc, call, results>> /\ OthersKept(t)
  BY DEF IInv, TypeOK, VisitExpand, OthersKept, k
<1>8. ShapeAt(t)'
  BY <1>1, <1>6, <1>7 DEF ShapeAt, RootKey
<1> QED
  BY <1>7, <1>8, StackFrame

\* A call starts with a clean slate.
LEMMA BeginStep ==
  ASSUME IInv, StackInv, NEW t \in Thread, NEW op \in CallOps, NEW l \in handles, NEW r \in handles,
         Start(t, op, l, r)
  PROVE  StackInv'
<1>1. op \in Ops /\ l \in Family /\ r \in Family
  BY ApplyAssumption DEF IInv, TypeOK
<1>2. KeyOf(op, l, r) \in Key
  BY <1>1, KeyOfSound
<1>3. /\ work'[t] = <<Visit(KeyOf(op, l, r))>> /\ pc'[t] = "work"
      /\ call'[t] = [op |-> op, left |-> l, right |-> r]
      /\ UNCHANGED <<memo, results>> /\ OthersKept(t)
  BY DEF IInv, TypeOK, Start, OthersKept
<1>4. memo[t] = {} /\ DOMAIN results[t] = {}
  BY DEF StackInv, ShapeAt, Start
<1>5. RootKey(t)' = KeyOf(op, l, r)
  BY <1>3 DEF RootKey
<1>6. ShapeAt(t)'
  BY <1>2, <1>3, <1>4, <1>5, FirstShape DEF ShapeAt
<1> QED
  BY <1>3, <1>6, StackFrame

\* A call that returns leaves nothing behind.
LEMMA EndStep ==
  ASSUME IInv, StackInv, NEW t \in Thread, NEW o, Return(t, o), UNCHANGED call
  PROVE  StackInv'
<1>1. /\ pc'[t] = "idle" /\ memo'[t] = {} /\ results'[t] = Empty /\ OthersKept(t)
  BY DEF IInv, TypeOK, Return, OthersKept
<1>2. ShapeAt(t)'
  BY <1>1 DEF ShapeAt, Empty
<1> QED
  BY <1>1, <1>2, StackFrame

\* Every step keeps the stacks in shape.
LEMMA StackStep ==
  ASSUME IInv, StackInv, [Next]_vars
  PROVE  StackInv'
<1>1. ASSUME NEW t \in Thread, NEW op \in CallOps, NEW l \in handles, NEW r \in handles,
             Start(t, op, l, r)
      PROVE  StackInv'
  BY <1>1, BeginStep
<1>2. ASSUME NEW t \in Thread, VisitTerminal(t)
      PROVE  StackInv'
  <2>1. PICK x \in TerminalResult(Head(work[t]).key) : Record(t, Head(work[t]).key, x)
    BY <1>2 DEF VisitTerminal
  <2>2. /\ pc[t] = "work" /\ work[t] # << >> /\ Pop(t) /\ UNCHANGED <<call, memo>>
        /\ pc' = [pc EXCEPT ![t] = "work"]
    BY <1>2 DEF VisitTerminal, IInv, TypeOK
  <2> QED
    BY <2>1, <2>2, RecordStep
<1>3. ASSUME NEW t \in Thread, VisitCached(t)
      PROVE  StackInv'
  <2>1. Record(t, Head(work[t]).key, entries[Head(work[t]).key])
    BY <1>3 DEF VisitCached
  <2>2. /\ pc[t] = "work" /\ work[t] # << >> /\ Pop(t) /\ UNCHANGED <<call, memo>>
        /\ pc' = [pc EXCEPT ![t] = "work"]
    BY <1>3 DEF VisitCached, Undecided, IInv, TypeOK
  <2> QED
    BY <2>1, <2>2, RecordStep
<1>4. ASSUME NEW t \in Thread, RecordMade(t)
      PROVE  StackInv'
  <2>1. Record(t, Head(work[t]).key, made[t])
    BY <1>4 DEF RecordMade
  <2>2. /\ pc[t] # "idle" /\ work[t] # << >> /\ Pop(t) /\ UNCHANGED <<call, memo>>
        /\ pc' = [pc EXCEPT ![t] = "work"]
    BY <1>4 DEF RecordMade, IInv, MadeExact
  <2> QED
    BY <2>1, <2>2, RecordStep
<1>5. ASSUME NEW t \in Thread, MakeNode(t)
      PROVE  StackInv'
  <2>1. /\ pc[t] = "work" /\ pc'[t] = "made" /\ OthersKept(t)
        /\ UNCHANGED <<call, memo, results, work>>
    BY <1>5 DEF MakeNode, Combining, OthersKept, IInv, TypeOK
  <2>2. ShapeAt(t)'
    BY <2>1 DEF StackInv, ShapeAt, RootKey
  <2> QED
    BY <2>1, <2>2, StackFrame
<1>6. ASSUME NEW t \in Thread, OverMemoLimit(t) \/ OverNodeLimit(t) \/ Finish(t)
      PROVE  StackInv'
  BY <1>6, EndStep DEF OverMemoLimit, OverNodeLimit, Finish
<1>7. CASE (\E F \in handles : Drop(F)) \/ Collect \/ UNCHANGED vars
  BY <1>7 DEF Drop, Collect, vars, StackInv, ShapeAt, RootKey
<1> QED
  BY <1>1, <1>2, <1>3, <1>4, <1>5, <1>6, <1>7, KnownStep, SplitStep DEF Next, Step

\* The stacks are in shape in every reachable state of every instance.
THEOREM StackInvariance == Spec => []StackInv
<1>1. Init => StackInv
  BY DEF Init, StackInv, ShapeAt, Empty
<1>2. IInv /\ StackInv /\ [Next]_vars => StackInv'
  BY StackStep
<1> QED
  BY <1>1, <1>2, Invariance, PTL DEF Spec

\* The `expect` calls of apply never fail, in every instance: a Combine finds
\* the results of both children, and the finished call finds its root result.
THEOREM ExpectNeverFails == Spec => []ExpectedResultsPresent
<1>1. StackInv => ExpectedResultsPresent
  <2> SUFFICES ASSUME StackInv, NEW t \in Thread, pc[t] # "idle"
               PROVE  IF work[t] = << >>
                      THEN RootKey(t) \in DOMAIN results[t]
                      ELSE Head(work[t]).kind = "combine" =>
                             {Head(work[t]).hi, Head(work[t]).lo} \subseteq DOMAIN results[t]
    BY DEF ExpectedResultsPresent
  <2>1. Shape(work[t], memo[t], DOMAIN results[t], RootKey(t))
    BY DEF StackInv, ShapeAt
  <2> QED
    BY <2>1, ShapeExpected
<1> QED
  BY <1>1, StackInvariance, PTL

----------------------------------------------------------------------------
(* The two tables of the shared cache.                                     *)

\* The list lists the keys of the table, each once.
Lists(list, keys) ==
  /\ keys = {list[i] : i \in DOMAIN list}
  /\ IsFiniteSet(keys)
  /\ Len(list) = Cardinality(keys)
  /\ \A i, j \in DOMAIN list : list[i] = list[j] => i = j

\* A new key at the end of the list.
LEMMA AppendLists ==
  ASSUME NEW list \in Seq(Key), NEW keys, Lists(list, keys), NEW k \in Key, k \notin keys
  PROVE  Lists(Append(list, k), keys \union {k})
<1> DEFINE n == Len(list)
           longer == Append(list, k)
<1>1. n \in Nat /\ DOMAIN list = 1 .. n
  BY LenProperties
<1>2. /\ Len(longer) = n + 1 /\ DOMAIN longer = 1 .. n + 1
      /\ longer[n + 1] = k /\ \A i \in 1 .. n : longer[i] = list[i]
  BY <1>1, AppendProperties
<1>3. IsFiniteSet(keys \union {k}) /\ Cardinality(keys \union {k}) = n + 1
  BY FS_AddElement DEF Lists
<1> HIDE DEF n, longer
<1>4. keys = {list[i] : i \in 1 .. n} /\ \A i, j \in 1 .. n : list[i] = list[j] => i = j
  BY <1>1 DEF Lists
<1>5. \A i \in 1 .. n + 1 : i = n + 1 \/ i \in 1 .. n
  BY <1>1
<1>6. \A i \in 1 .. n : i \in 1 .. n + 1
  BY <1>1
<1>7. n + 1 \in 1 .. n + 1
  BY <1>1
<1>8. keys \union {k} = {longer[i] : i \in 1 .. n + 1}
  BY <1>2, <1>4, <1>5, <1>6, <1>7
<1>9. \A i \in 1 .. n : longer[i] # k
  BY <1>2, <1>4
<1>10. \A i, j \in 1 .. n + 1 : longer[i] = longer[j] => i = j
  BY <1>2, <1>4, <1>5, <1>9
<1> QED
  BY <1>2, <1>3, <1>8, <1>10 DEF Lists, longer

\* The first key is taken off the list.
LEMMA TailLists ==
  ASSUME NEW list \in Seq(Key), NEW keys, Lists(list, keys), list # << >>
  PROVE  /\ Lists(Tail(list), keys \ {Head(list)})
         /\ Tail(list) \in Seq(Key)
         /\ Len(Tail(list)) = Len(list) - 1
<1> DEFINE n == Len(list)
           shorter == Tail(list)
           left == keys \ {Head(list)}
<1>1. n \in Nat /\ n # 0 /\ DOMAIN list = 1 .. n
  BY LenProperties, EmptySeq
<1>2. /\ shorter \in Seq(Key) /\ Len(shorter) = n - 1 /\ DOMAIN shorter = 1 .. n - 1
      /\ \A i \in 1 .. n - 1 : shorter[i] = list[i + 1]
      /\ Head(list) = list[1]
  BY <1>1, HeadTailProperties
<1>3. keys = {list[i] : i \in 1 .. n} /\ \A i, j \in 1 .. n : list[i] = list[j] => i = j
  BY <1>1 DEF Lists
<1>4. Head(list) \in keys
  <2>1. 1 \in 1 .. n
    BY <1>1
  <2> QED
    BY <1>2, <1>3, <2>1
<1>5. IsFiniteSet(left) /\ Cardinality(left) = n - 1
  BY <1>4, FS_RemoveElement DEF Lists
<1> HIDE DEF n, shorter
<1>6. \A i \in 1 .. n - 1 : i + 1 \in 1 .. n /\ i + 1 # 1
  BY <1>1
<1>7. \A i \in 1 .. n : i = 1 \/ (i - 1 \in 1 .. n - 1 /\ (i - 1) + 1 = i)
  BY <1>1
<1>8. \A i \in 1 .. n - 1 : shorter[i] \in keys \ {list[1]}
  <2> TAKE i \in 1 .. n - 1
  <2>1. i + 1 \in 1 .. n /\ i + 1 # 1 /\ 1 \in 1 .. n
    BY <1>1, <1>6
  <2> QED
    BY <1>2, <1>3, <2>1
<1>9. \A y \in keys \ {list[1]} : \E i \in 1 .. n - 1 : shorter[i] = y
  <2> TAKE y \in keys \ {list[1]}
  <2>1. PICK i \in 1 .. n : list[i] = y
    BY <1>3
  <2>2. i # 1
    BY <2>1
  <2>3. i - 1 \in 1 .. n - 1 /\ (i - 1) + 1 = i
    BY <1>7, <2>2
  <2>4. shorter[i - 1] = y
    BY <1>2, <2>1, <2>3
  <2> QED
    BY <2>3, <2>4
<1>10. left = {shorter[i] : i \in 1 .. n - 1}
  BY <1>2, <1>8, <1>9
<1>11. \A i, j \in 1 .. n - 1 : shorter[i] = shorter[j] => i = j
  <2> TAKE i, j \in 1 .. n - 1
  <2> HAVE shorter[i] = shorter[j]
  <2>1. i + 1 \in 1 .. n /\ j + 1 \in 1 .. n
    BY <1>6
  <2>2. list[i + 1] = list[j + 1]
    BY <1>2
  <2>3. i + 1 = j + 1
    BY <1>3, <2>1, <2>2
  <2> QED
    BY <2>3
<1>12. Lists(shorter, left)
  BY <1>2, <1>5, <1>10, <1>11 DEF Lists
<1> QED
  BY <1>2, <1>12 DEF shorter, n

\* What the two tables of the shared cache keep to, in any state.
CacheInv ==
  /\ Lists(order, DOMAIN entries)
  /\ Len(order) <= CacheCapacity

\* Evicting the oldest key and inserting a new one keep the two tables of the
\* shared cache in agreement.
LEMMA CacheInsertAgrees ==
  ASSUME order \in Seq(Key), CacheInv, NEW k \in Key, NEW x, CacheInsert(k, x)
  PROVE  CacheInv'
<1>1. CacheCapacity \in Nat /\ Len(order) \in Nat /\ Len(order) = Cardinality(DOMAIN entries)
  BY ApplyAssumption, LenProperties DEF CacheInv, Lists
<1>2. CASE UNCHANGED <<entries, order>>
  BY <1>2 DEF CacheInv, Lists
<1>3. CASE /\ CacheCapacity # 0 /\ k \notin DOMAIN entries
           /\ Cardinality(DOMAIN entries) # CacheCapacity \/ order = << >>
           /\ entries' = Put(entries, k, x) /\ order' = Append(order, k)
  <2>1. DOMAIN entries' = DOMAIN entries \union {k}
    BY <1>3 DEF Put
  <2>2. Lists(order', DOMAIN entries')
    BY <1>3, <2>1, AppendLists DEF CacheInv
  <2>3. Len(order') = Len(order) + 1
    BY <1>3, AppendProperties
  <2>4. order = << >> => Len(order) = 0
    BY EmptySeq
  <2>5. Len(order') <= CacheCapacity
    BY <1>1, <1>3, <2>3, <2>4 DEF CacheInv
  <2> QED
    BY <2>2, <2>5 DEF CacheInv
<1>4. CASE /\ k \notin DOMAIN entries /\ order # << >>
           /\ entries' = Put([y \in DOMAIN entries \ {Head(order)} |-> entries[y]], k, x)
           /\ order' = Append(Tail(order), k)
  <2>1. DOMAIN entries' = (DOMAIN entries \ {Head(order)}) \union {k}
    BY <1>4 DEF Put
  <2>2. /\ Lists(Tail(order), DOMAIN entries \ {Head(order)})
        /\ Tail(order) \in Seq(Key) /\ Len(Tail(order)) = Len(order) - 1
    BY <1>4, TailLists DEF CacheInv
  <2>3. Lists(order', DOMAIN entries')
    <3>1. k \notin DOMAIN entries \ {Head(order)}
      BY <1>4
    <3>2. Lists(Append(Tail(order), k), (DOMAIN entries \ {Head(order)}) \union {k})
      BY <2>2, <3>1, AppendLists
    <3> QED
      BY <1>4, <2>1, <3>2
  <2>4. Len(order') = Len(order)
    BY <1>1, <1>4, <2>2, AppendProperties
  <2> QED
    BY <2>3, <2>4 DEF CacheInv
<1> QED
  BY <1>2, <1>3, <1>4 DEF CacheInsert

----------------------------------------------------------------------------
(* What is held is live.                                                   *)

\* The diagram of F is in the store.
Alive(F) == NodesOf[F] \subseteq store

OperandsHeld == \A t \in Thread : pc[t] # "idle" => call[t].left \in handles /\ call[t].right \in handles

StoreInv == OperandsHeld /\ \A F \in Pinned : Alive(F)

\* The empty family has no node.
LEMMA ZeroAlive == Alive(Zero)
<1>1. \A k, P : Below(Zero, k, P) = Zero
  BY DEF Below, Zero
<1>2. Subfamilies(Zero) \subseteq {Zero}
  BY <1>1, SubfamilyMembership
<1>3. Zero \in Family
  BY DEF Zero, Family
<1> QED
  BY <1>2, <1>3 DEF Alive, NodesOf, Terminals

\* The cofactors of a live diagram are live.
LEMMA CofactorAlive ==
  ASSUME NEW F \in Family, NEW v \in Var, Alive(F)
  PROVE  Alive(CofactorHi(v, F)) /\ Alive(CofactorLo(v, F))
BY CofactorsAreSubfamilies, NodesOfSubfamily DEF Alive

\* A step that only adds nodes to the store keeps alive what was alive, so only
\* what the handles, the cache and the acting thread hold now is to be looked at.
LEMMA StoreFrame ==
  ASSUME TypeOK, \A F \in Pinned : Alive(F), NEW t \in Thread, store \subseteq store',
         \A u \in Thread \ {t} : /\ memo'[u] = memo[u] /\ results'[u] = results[u]
                                 /\ work'[u] = work[u] /\ made'[u] = made[u],
         \A F \in handles' \union TableRoots(entries') \union ThreadRoots(t)' : F \in Pinned \/ Alive(F)'
  PROVE  \A F \in Pinned' : Alive(F)'
<1>1. \A F : Alive(F) => Alive(F)'
  BY DEF Alive
<1>2. ASSUME NEW u \in Thread \ {t}
      PROVE  ThreadRoots(u)' = ThreadRoots(u)
  BY <1>2 DEF ThreadRoots, MemoRoots, StackRoots
<1>3. ASSUME NEW F \in Pinned'
      PROVE  F \in Pinned \/ Alive(F)'
  <2>1. \/ F \in handles' \union TableRoots(entries') \union ThreadRoots(t)'
        \/ F \in ManagerRoots
        \/ \E u \in Thread \ {t} : F \in ThreadRoots(u)'
    BY DEF Pinned
  <2> QED
    BY <1>2, <2>1 DEF Pinned
<1> QED
  BY <1>1, <1>3

\* The roots of a table with one more entry.
LEMMA PutRoots ==
  ASSUME NEW f, NEW k, NEW x
  PROVE  TableRoots(Put(f, k, x)) \subseteq TableRoots(f) \union KeyRoots(k) \union {x}
<1> DEFINE g == Put(f, k, x)
<1>1. DOMAIN g = DOMAIN f \union {k} /\ \A j \in DOMAIN g : g[j] = IF j = k THEN x ELSE f[j]
  BY DEF Put
<1> HIDE DEF g
<1>2. ASSUME NEW F \in TableRoots(g)
      PROVE  F \in TableRoots(f) \union KeyRoots(k) \union {x}
  <2>1. PICK j \in DOMAIN g : F \in KeyRoots(j) \union {g[j]}
    BY DEF TableRoots
  <2>2. CASE j = k
    BY <1>1, <2>1, <2>2
  <2>3. CASE j # k
    BY <1>1, <2>1, <2>3 DEF TableRoots
  <2> QED
    BY <2>2, <2>3
<1> QED
  BY <1>2 DEF g

\* The top item of a stack and what is below it.
LEMMA TopRoots ==
  ASSUME NEW w \in Seq(WorkItem), w # << >>
  PROVE  /\ ItemRoots(Head(w)) \subseteq UNION {ItemRoots(w[i]) : i \in 1 .. Len(w)}
         /\ UNION {ItemRoots(Tail(w)[i]) : i \in 1 .. Len(Tail(w))}
              \subseteq UNION {ItemRoots(w[i]) : i \in 1 .. Len(w)}
<1>1. /\ Tail(w) \in Seq(WorkItem) /\ Head(w) = w[1] /\ 1 \in DOMAIN w
      /\ \A i \in DOMAIN Tail(w) : i + 1 \in DOMAIN w /\ Tail(w)[i] = w[i + 1]
  BY PopPositions
<1>2. DOMAIN w = 1 .. Len(w) /\ DOMAIN Tail(w) = 1 .. Len(Tail(w))
  BY <1>1, LenProperties
<1>3. PICK D, E : D = DOMAIN w /\ E = DOMAIN Tail(w)
  OBVIOUS
<1>4. ItemRoots(w[1]) \subseteq UNION {ItemRoots(w[i]) : i \in D}
  BY <1>1, <1>3
<1>5. \A i \in E : ItemRoots(Tail(w)[i]) \subseteq UNION {ItemRoots(w[j]) : j \in D}
  BY <1>1, <1>3
<1> QED
  BY <1>1, <1>2, <1>3, <1>4, <1>5

\* The items a running call works on are pinned.
LEMMA HeadPinned ==
  ASSUME TypeOK, NEW t \in Thread, work[t] # << >>
  PROVE  /\ ItemRoots(Head(work[t])) \subseteq Pinned
         /\ UNION {ItemRoots(Tail(work[t])[i]) : i \in 1 .. Len(Tail(work[t]))} \subseteq Pinned
         /\ MemoRoots(t) \union TableRoots(results[t]) \union StackRoots(t) \union {made[t]} \subseteq Pinned
         /\ TableRoots(entries) \subseteq Pinned /\ handles \subseteq Pinned
<1>1. work[t] \in Seq(WorkItem)
  BY DEF TypeOK
<1>2. ThreadRoots(t) \subseteq Pinned /\ TableRoots(entries) \subseteq Pinned /\ handles \subseteq Pinned
  BY DEF Pinned
<1>3. MemoRoots(t) \union TableRoots(results[t]) \union StackRoots(t) \union {made[t]} \subseteq Pinned
  BY <1>2 DEF ThreadRoots
<1>4. /\ ItemRoots(Head(work[t])) \subseteq StackRoots(t)
      /\ UNION {ItemRoots(Tail(work[t])[i]) : i \in 1 .. Len(Tail(work[t]))} \subseteq StackRoots(t)
  BY <1>1, TopRoots DEF StackRoots
<1> QED
  BY <1>2, <1>3, <1>4

\* A key and its result are recorded and the top of the stack is popped.
LEMMA RecordAlive ==
  ASSUME IInv, StoreInv, NEW t \in Thread, work[t] # << >>,
         NEW x, Alive(x), Record(t, Head(work[t]).key, x), Pop(t),
         UNCHANGED <<handles, store, memo>>,
         made' = made \/ made' = [made EXCEPT ![t] = Zero],
         TableRoots(entries') \subseteq Pinned
  PROVE  \A F \in Pinned' : Alive(F)'
<1> DEFINE k == Head(work[t]).key
<1>1. TypeOK
  BY DEF IInv
<1>2. /\ work'[t] = Tail(work[t]) /\ results'[t] = Put(results[t], k, x)
      /\ made'[t] \in {made[t], Zero} /\ memo'[t] = memo[t]
      /\ \A u \in Thread \ {t} : /\ memo'[u] = memo[u] /\ results'[u] = results[u]
                                 /\ work'[u] = work[u] /\ made'[u] = made[u]
  BY <1>1 DEF TypeOK, Record, Pop
<1>3. \A F : Alive(F)' <=> Alive(F)
  BY DEF Alive
<1>4. ASSUME NEW F \in ThreadRoots(t)'
      PROVE  F \in Pinned \/ Alive(F)'
  <2>1. CASE F \in MemoRoots(t)'
    <3>1. MemoRoots(t)' = MemoRoots(t)
      BY <1>2 DEF MemoRoots
    <3> QED
      BY <1>1, <2>1, <3>1, HeadPinned
  <2>2. CASE F \in TableRoots(results[t])'
    <3>1. TableRoots(results[t])' = TableRoots(Put(results[t], k, x))
      BY <1>2
    <3>2. F \in TableRoots(results[t]) \/ F \in KeyRoots(k) \/ F = x
      BY <2>2, <3>1, PutRoots
    <3>3. KeyRoots(k) \subseteq ItemRoots(Head(work[t]))
      BY DEF ItemRoots
    <3> QED
      BY <1>1, <1>3, <3>2, <3>3, HeadPinned
  <2>3. CASE F \in StackRoots(t)'
    <3>1. StackRoots(t)' = UNION {ItemRoots(Tail(work[t])[i]) : i \in 1 .. Len(Tail(work[t]))}
      BY <1>2 DEF StackRoots
    <3> QED
      BY <1>1, <2>3, <3>1, HeadPinned
  <2>4. CASE F = made'[t]
    <3>1. Alive(Zero)'
      BY <1>3, ZeroAlive
    <3> QED
      BY <1>1, <1>2, <2>4, <3>1, HeadPinned
  <2> QED
    BY <2>1, <2>2, <2>3, <2>4 DEF ThreadRoots
<1> QED
  BY <1>1, <1>2, <1>4, HeadPinned, StoreFrame DEF StoreInv

\* A key is split: the cofactors of its operands are subdiagrams of them.
LEMMA SplitAlive ==
  ASSUME IInv, StoreInv, NEW t \in Thread, VisitExpand(t)
  PROVE  \A F \in Pinned' : Alive(F)'
<1> DEFINE k == Head(work[t]).key
<1>1. /\ TypeOK /\ work[t] # << >> /\ Head(work[t]).kind = "visit" /\ TerminalResult(k) = {}
  BY DEF IInv, VisitExpand, Undecided
<1>2. k \in Key /\ work[t] \in Seq(WorkItem)
  BY <1>1, PopSound DEF IInv, StacksSound, TypeOK
<1>3. Expand(k) \in Seq(WorkItem)
  BY <1>1, <1>2, ExpandSound, SoundItemsAreItems, SeqMonotonic, Zenon
<1> HIDE DEF k
<1>4. /\ work'[t] = Expand(k) \o Tail(work[t]) /\ memo'[t] = memo[t] \union {k}
      /\ results'[t] = results[t] /\ made'[t] = made[t]
      /\ UNCHANGED <<handles, store, entries>>
      /\ \A u \in Thread \ {t} : /\ memo'[u] = memo[u] /\ results'[u] = results[u]
                                 /\ work'[u] = work[u] /\ made'[u] = made[u]
  BY <1>1 DEF TypeOK, VisitExpand, k
<1>5. \A F : Alive(F)' <=> Alive(F)
  BY <1>4 DEF Alive
<1>6. KeyRoots(k) \subseteq Pinned
  <2>1. KeyRoots(k) \subseteq ItemRoots(Head(work[t]))
    BY DEF ItemRoots, k
  <2> QED
    BY <1>1, <2>1, HeadPinned
<1>7. ASSUME NEW F \in KeyRoots(HiKey(k)) \union KeyRoots(LoKey(k))
      PROVE  Alive(F)
  <2>1. PICK G \in KeyRoots(k) : F = CofactorHi(Branch(k), G) \/ F = CofactorLo(Branch(k), G)
    BY DEF KeyRoots, HiKey, LoKey, KeyOf
  <2>2. G \in Family /\ Branch(k) \in Var
    BY <1>1, <1>2, ChildVars DEF KeyRoots, Key, k
  <2>3. Alive(G)
    BY <1>6 DEF StoreInv
  <2> QED
    BY <2>1, <2>2, <2>3, CofactorAlive
<1>8. ASSUME NEW F \in StackRoots(t)'
      PROVE  F \in Pinned \/ Alive(F)
  <2>1. PICK u : u = work'[t]
    OBVIOUS
  <2>2. Split(u, work[t], k)
    BY <1>1, <1>2, <1>3, <1>4, <2>1, ExpandPositions
  <2>3. DOMAIN u = 1 .. Len(u)
    BY <2>2, LenProperties DEF Split
  <2>4. PICK i \in DOMAIN u : F \in ItemRoots(u[i])
    BY <2>1, <2>3 DEF StackRoots
  <2>5. CASE i \in {1, 2, 3}
    <3>1. ItemRoots(u[i]) \subseteq KeyRoots(k) \union KeyRoots(HiKey(k)) \union KeyRoots(LoKey(k))
      BY <2>2, <2>5 DEF Split, ItemRoots, Visit, Combine
    <3> QED
      BY <1>6, <1>7, <2>4, <3>1
  <2>6. CASE i > 3
    <3>1. PICK j \in DOMAIN work[t] : j # 1 /\ i = j + 2
      BY <2>2, <2>6 DEF Split
    <3>2. u[i] = work[t][j]
      BY <2>2, <3>1 DEF Split
    <3>3. ItemRoots(work[t][j]) \subseteq StackRoots(t)
      <4>1. DOMAIN work[t] = 1 .. Len(work[t])
        BY <1>2, LenProperties
      <4> QED
        BY <4>1 DEF StackRoots
    <3> QED
      BY <1>1, <2>4, <3>2, <3>3, HeadPinned
  <2> QED
    BY <2>2, <2>5, <2>6 DEF Split
<1>9. ASSUME NEW F \in ThreadRoots(t)'
      PROVE  F \in Pinned \/ Alive(F)'
  <2>1. MemoRoots(t)' = MemoRoots(t) \union KeyRoots(k)
    BY <1>4 DEF MemoRoots
  <2>2. TableRoots(results[t])' = TableRoots(results[t])
    BY <1>4
  <2> QED
    BY <1>1, <1>4, <1>5, <1>6, <1>8, <2>1, <2>2, HeadPinned DEF ThreadRoots
<1>10. handles' \union TableRoots(entries)' \subseteq Pinned
  BY <1>4 DEF Pinned
<1> QED
  BY <1>1, <1>4, <1>9, <1>10, StoreFrame DEF StoreInv

\* The value of a key has no variable its operands do not have.
LEMMA ValueVars ==
  ASSUME NEW k \in Key
  PROVE  Support(ValueOf(k)) \subseteq KeyVars(k)
BY DEF Key, Ops, ValueOf, Denote, Support, KeyVars

\* make_node is asked for a variable above its two children, and what it
\* returns is in the store with everything below it.
LEMMA MakeAlive ==
  ASSUME IInv, StackInv, StoreInv, NEW t \in Thread, MakeNode(t)
  PROVE  \A F \in Pinned' : Alive(F)'
<1> DEFINE w == Head(work[t])
           k == w.key
           hi == CombinedHi(t)
           lo == CombinedLo(t)
<1>1. pc[t] = "work" /\ work[t] # << >> /\ w.kind = "combine" /\ TypeOK
  BY DEF MakeNode, Combining, IInv
<1>2. w \in SoundItem /\ w \in WorkItem /\ k \in Key /\ work[t] \in Seq(WorkItem)
  BY <1>1, PopSound DEF IInv, StacksSound, TypeOK
<1>3. w = Combine(k) /\ TerminalResult(k) = {}
  <2>1. Shape(work[t], memo[t], DOMAIN results[t], RootKey(t))
    BY <1>1 DEF StackInv, ShapeAt
  <2>2. w = work[t][1] /\ 1 \in DOMAIN work[t]
    BY <1>1, <1>2, PopPositions
  <2> QED
    BY <1>1, <2>1, <2>2 DEF Shape, ItemsExpanded
<1>4. /\ w.variable = Branch(k) /\ w.hi = HiKey(k) /\ w.lo = LoKey(k)
      /\ w.hi \in DOMAIN results[t] /\ w.lo \in DOMAIN results[t]
  <2>1. w.hi \in DOMAIN results[t] /\ w.lo \in DOMAIN results[t]
    BY DEF MakeNode, Combining
  <2>2. Combine(k).variable = Branch(k) /\ Combine(k).hi = HiKey(k) /\ Combine(k).lo = LoKey(k)
    BY DEF Combine
  <2> HIDE DEF w, k
  <2> QED
    BY <1>3, <2>1, <2>2
<1>5. /\ hi = results[t][w.hi] /\ lo = results[t][w.lo] /\ Combined(t) = Node(w.variable, hi, lo)
  BY DEF CombinedHi, CombinedLo, Combined
<1> HIDE DEF w, k, hi, lo
<1>6. /\ hi = ValueOf(HiKey(k)) /\ lo = ValueOf(LoKey(k)) /\ hi \in Family /\ lo \in Family
  BY <1>4, <1>5 DEF IInv, TypeOK, TablesExact
<1>7. \A v \in Support(hi) \union Support(lo) : Branch(k) < v
  BY <1>2, <1>3, <1>6, ChildVars, ValueVars
<1>8. NodesOf[Combined(t)] \subseteq {Combined(t)} \union NodesOf[hi] \union NodesOf[lo]
  BY <1>2, <1>3, <1>4, <1>5, <1>6, <1>7, ChildVars, NodesOfNode
<1>9. Alive(hi) /\ Alive(lo)
  <2>1. hi \in TableRoots(results[t]) /\ lo \in TableRoots(results[t])
    BY <1>4, <1>5 DEF TableRoots
  <2> QED
    BY <1>1, <2>1, HeadPinned DEF StoreInv
<1>10. store \subseteq store'
  BY DEF MakeNode
<1>11. NodesOf[Combined(t)] \subseteq store'
  <2>1. CASE hi = Zero
    <3>1. Combined(t) = lo
      BY <1>5, <2>1 DEF Node, Zero
    <3> QED
      BY <1>9, <1>10, <3>1 DEF Alive
  <2>2. CASE hi # Zero
    <3>1. Combined(t) \in store'
      BY <2>2 DEF MakeNode, NeedsNoNode, hi
    <3> QED
      BY <1>8, <1>9, <1>10, <3>1 DEF Alive
  <2> QED
    BY <2>1, <2>2
<1>12. /\ memo' = memo /\ results' = results /\ work' = work /\ handles' = handles /\ entries' = entries
       /\ made'[t] = Combined(t) /\ \A u \in Thread \ {t} : made'[u] = made[u]
  BY <1>1 DEF MakeNode, TypeOK
<1>13. ASSUME NEW F \in ThreadRoots(t)'
       PROVE  F \in Pinned \/ Alive(F)'
  <2>1. F \in MemoRoots(t) \union TableRoots(results[t]) \union StackRoots(t) \/ F = Combined(t)
    BY <1>12 DEF ThreadRoots, MemoRoots, StackRoots
  <2> QED
    BY <1>1, <1>11, <2>1, HeadPinned DEF Alive
<1>14. handles' \union TableRoots(entries)' \subseteq Pinned
  BY <1>12 DEF Pinned
<1> QED
  BY <1>1, <1>10, <1>12, <1>13, <1>14, StoreFrame DEF StoreInv

\* A call starts on two families the callers hold.
LEMMA StartAlive ==
  ASSUME IInv, StoreInv, NEW t \in Thread, NEW op \in CallOps, NEW l \in handles, NEW r \in handles,
         Start(t, op, l, r)
  PROVE  \A F \in Pinned' : Alive(F)'
<1>1. TypeOK
  BY DEF IInv
<1>2. /\ work'[t] = <<Visit(KeyOf(op, l, r))>>
      /\ UNCHANGED <<memo, results, made, handles, store, entries>>
      /\ \A u \in Thread \ {t} : work'[u] = work[u]
  BY <1>1 DEF TypeOK, Start
<1>3. ItemRoots(Visit(KeyOf(op, l, r))) = {l, r}
  BY DEF ItemRoots, Visit, KeyRoots, KeyOf
<1>4. StackRoots(t)' \subseteq {l, r}
  <2>1. Len(work'[t]) = 1 /\ work'[t][1] = Visit(KeyOf(op, l, r))
    BY <1>2
  <2>2. \A i \in 1 .. Len(work'[t]) : ItemRoots(work'[t][i]) = {l, r}
    BY <1>3, <2>1
  <2> QED
    BY <2>2 DEF StackRoots
<1>5. ASSUME NEW F \in handles' \union TableRoots(entries') \union ThreadRoots(t)'
      PROVE  F \in Pinned
  <2>1. /\ MemoRoots(t)' = MemoRoots(t) /\ TableRoots(results[t])' = TableRoots(results[t])
        /\ TableRoots(entries)' = TableRoots(entries) /\ made'[t] = made[t] /\ handles' = handles
    BY <1>2 DEF MemoRoots
  <2>2. F \in handles \union TableRoots(entries) \union ThreadRoots(t)
    BY <1>4, <2>1 DEF ThreadRoots
  <2> QED
    BY <2>2 DEF Pinned
<1> QED
  BY <1>1, <1>2, <1>5, StoreFrame DEF StoreInv

\* A call returns: it lets go of everything but its result.
LEMMA ReturnAlive ==
  ASSUME IInv, StoreInv, NEW t \in Thread, NEW o, Return(t, o), UNCHANGED <<store, entries>>,
         handles' \subseteq handles \union TableRoots(results[t])
  PROVE  \A F \in Pinned' : Alive(F)'
<1>1. TypeOK
  BY DEF IInv
<1>2. /\ work'[t] = << >> /\ memo'[t] = {} /\ results'[t] = Empty /\ made'[t] = Zero
      /\ \A u \in Thread \ {t} : /\ memo'[u] = memo[u] /\ results'[u] = results[u]
                                 /\ work'[u] = work[u] /\ made'[u] = made[u]
  BY <1>1 DEF TypeOK, Return
<1>3. ThreadRoots(t)' \subseteq {Zero}
  <2>1. MemoRoots(t)' = {}
    BY <1>2 DEF MemoRoots
  <2>2. TableRoots(results[t])' = {}
    BY <1>2 DEF TableRoots, Empty
  <2>3. StackRoots(t)' = {}
    <3>1. Len(work'[t]) = 0
      BY <1>2
    <3> QED
      BY <3>1 DEF StackRoots
  <2> QED
    BY <1>2, <2>1, <2>2, <2>3 DEF ThreadRoots
<1>4. Alive(Zero)'
  BY ZeroAlive DEF Alive
<1>5. handles' \union TableRoots(entries)' \subseteq Pinned
  BY DEF Pinned, ThreadRoots
<1> QED
  BY <1>1, <1>2, <1>3, <1>4, <1>5, StoreFrame DEF StoreInv

\* The cache stores clones of roots the call holds, whichever key it evicts.
LEMMA CacheInsertRoots ==
  ASSUME NEW k, NEW x, CacheInsert(k, x)
  PROVE  TableRoots(entries') \subseteq TableRoots(entries) \union KeyRoots(k) \union {x}
<1> DEFINE kept == [y \in DOMAIN entries \ {Head(order)} |-> entries[y]]
<1>1. TableRoots(kept) \subseteq TableRoots(entries)
  BY DEF TableRoots
<1>2. CASE entries' = entries
  BY <1>2
<1>3. CASE entries' = Put(entries, k, x)
  BY <1>3, PutRoots
<1>4. CASE entries' = Put(kept, k, x)
  <2> HIDE DEF kept
  <2>1. TableRoots(Put(kept, k, x)) \subseteq TableRoots(kept) \union KeyRoots(k) \union {x}
    BY PutRoots
  <2> QED
    BY <1>1, <1>4, <2>1
<1> QED
  BY <1>2, <1>3, <1>4 DEF CacheInsert

\* The operands of a running call stay with the caller.
LEMMA OperandsStep ==
  ASSUME IInv, OperandsHeld, [Next]_vars
  PROVE  OperandsHeld'
<1>1. ASSUME NEW t \in Thread, NEW op \in CallOps, NEW l \in handles, NEW r \in handles,
             Start(t, op, l, r)
      PROVE  OperandsHeld'
  <2>1. /\ call'[t] = [op |-> op, left |-> l, right |-> r] /\ handles' = handles
        /\ \A u \in Thread \ {t} : pc'[u] = pc[u] /\ call'[u] = call[u]
    BY <1>1 DEF Start, IInv, TypeOK
  <2> QED
    BY <2>1 DEF OperandsHeld
<1>2. ASSUME NEW t \in Thread, Step(t)
      PROVE  OperandsHeld'
  <2>1. call' = call /\ handles \subseteq handles'
    BY <1>2 DEF Step, VisitKnown, VisitTerminal, VisitCached, VisitExpand, OverMemoLimit, MakeNode,
                OverNodeLimit, RecordMade, Finish
  <2>2. \A u \in Thread : pc'[u] # "idle" => pc[u] # "idle"
    BY <1>2 DEF Step, VisitKnown, VisitTerminal, VisitCached, VisitExpand, OverMemoLimit, MakeNode,
                OverNodeLimit, RecordMade, Finish, Return, Undecided, Combining, IInv, TypeOK
  <2> QED
    BY <2>1, <2>2 DEF OperandsHeld
<1>3. ASSUME NEW F \in handles, Drop(F)
      PROVE  OperandsHeld'
  BY <1>3 DEF Drop, OperandsHeld
<1>4. CASE Collect \/ UNCHANGED vars
  BY <1>4 DEF Collect, vars, OperandsHeld
<1> QED
  BY <1>1, <1>2, <1>3, <1>4 DEF Next

\* Every step keeps alive what is held after it.
LEMMA StoreStep ==
  ASSUME IInv, StackInv, StoreInv, [Next]_vars
  PROVE  StoreInv'
<1>1. OperandsHeld'
  BY OperandsStep DEF StoreInv
<1>2. TypeOK
  BY DEF IInv
<1>3. SUFFICES \A F \in Pinned' : Alive(F)'
  BY <1>1 DEF StoreInv
<1>4. ASSUME NEW t \in Thread, VisitKnown(t)
      PROVE  \A F \in Pinned' : Alive(F)'
  <2>1. /\ work[t] # << >> /\ work'[t] = Tail(work[t])
        /\ UNCHANGED <<handles, store, entries, memo, results, made>>
        /\ \A u \in Thread \ {t} : work'[u] = work[u]
    BY <1>2, <1>4 DEF VisitKnown, Visiting, Pop, TypeOK
  <2>2. ASSUME NEW F \in handles' \union TableRoots(entries') \union ThreadRoots(t)'
        PROVE  F \in Pinned
    <3>1. /\ MemoRoots(t)' = MemoRoots(t) /\ TableRoots(results[t])' = TableRoots(results[t])
          /\ TableRoots(entries)' = TableRoots(entries) /\ made'[t] = made[t] /\ handles' = handles
      BY <2>1 DEF MemoRoots
    <3>2. StackRoots(t)' = UNION {ItemRoots(Tail(work[t])[i]) : i \in 1 .. Len(Tail(work[t]))}
      BY <2>1 DEF StackRoots
    <3> QED
      BY <1>2, <2>1, <2>2, <3>1, <3>2, HeadPinned DEF ThreadRoots
  <2> QED
    BY <1>2, <2>1, <2>2, StoreFrame DEF StoreInv
<1>5. ASSUME NEW t \in Thread, VisitTerminal(t)
      PROVE  \A F \in Pinned' : Alive(F)'
  <2> DEFINE k == Head(work[t]).key
  <2>1. work[t] # << >> /\ Pop(t) /\ UNCHANGED <<handles, store, entries, memo, made>>
    BY <1>5 DEF VisitTerminal
  <2>2. PICK x \in TerminalResult(k) : Record(t, k, x)
    BY <1>5 DEF VisitTerminal
  <2>3. k \in Key
    BY <2>1, PopSound DEF IInv, StacksSound
  <2>4. x = Zero \/ x \in KeyRoots(k)
    BY <2>2, <2>3 DEF TerminalResult, KeyRoots, Key, Ops
  <2>5. KeyRoots(k) \subseteq ItemRoots(Head(work[t]))
    BY DEF ItemRoots
  <2>6. Alive(x)
    BY <1>2, <2>1, <2>4, <2>5, HeadPinned, ZeroAlive DEF StoreInv
  <2>7. TableRoots(entries') \subseteq Pinned
    BY <2>1 DEF Pinned
  <2> QED
    BY <2>1, <2>2, <2>6, <2>7, RecordAlive
<1>6. ASSUME NEW t \in Thread, VisitCached(t)
      PROVE  \A F \in Pinned' : Alive(F)'
  <2> DEFINE k == Head(work[t]).key
  <2>1. work[t] # << >> /\ Pop(t) /\ UNCHANGED <<handles, store, entries, memo, made>>
    BY <1>6 DEF VisitCached, Undecided
  <2>2. k \in DOMAIN entries /\ Record(t, k, entries[k])
    BY <1>6 DEF VisitCached
  <2>3. Alive(entries[k])
    <3>1. entries[k] \in TableRoots(entries)
      BY <2>2 DEF TableRoots
    <3> QED
      BY <3>1 DEF StoreInv, Pinned
  <2>4. TableRoots(entries') \subseteq Pinned
    BY <2>1 DEF Pinned
  <2> QED
    BY <2>1, <2>2, <2>3, <2>4, RecordAlive
<1>7. ASSUME NEW t \in Thread, RecordMade(t)
      PROVE  \A F \in Pinned' : Alive(F)'
  <2> DEFINE k == Head(work[t]).key
  <2>1. /\ work[t] # << >> /\ Pop(t) /\ UNCHANGED <<handles, store, memo>>
        /\ made' = [made EXCEPT ![t] = Zero] /\ Record(t, k, made[t]) /\ CacheInsert(k, made[t])
    BY <1>7 DEF RecordMade, IInv, MadeExact
  <2>2. made[t] \in Pinned /\ Alive(made[t])
    BY <1>2, <2>1, HeadPinned DEF StoreInv
  <2>3. KeyRoots(k) \subseteq ItemRoots(Head(work[t]))
    BY DEF ItemRoots
  <2>4. TableRoots(entries') \subseteq Pinned
    BY <1>2, <2>1, <2>2, <2>3, CacheInsertRoots, HeadPinned
  <2> QED
    BY <2>1, <2>2, <2>4, RecordAlive
<1>8. ASSUME NEW t \in Thread, OverMemoLimit(t) \/ OverNodeLimit(t)
      PROVE  \A F \in Pinned' : Alive(F)'
  <2>1. PICK o : Return(t, o)
    BY <1>8 DEF OverMemoLimit, OverNodeLimit
  <2>2. UNCHANGED <<store, entries, handles>>
    BY <1>8 DEF OverMemoLimit, OverNodeLimit
  <2> QED
    BY <2>1, <2>2, ReturnAlive
<1>9. ASSUME NEW t \in Thread, Finish(t)
      PROVE  \A F \in Pinned' : Alive(F)'
  <2>1. PICK o : Return(t, o)
    BY <1>9 DEF Finish
  <2>2. UNCHANGED <<store, entries>> /\ handles' \subseteq handles \union TableRoots(results[t])
    BY <1>9 DEF Finish, TableRoots
  <2> QED
    BY <2>1, <2>2, ReturnAlive
<1>10. ASSUME NEW F \in handles, Drop(F)
       PROVE  \A G \in Pinned' : Alive(G)'
  <2>1. /\ handles' \subseteq handles
        /\ UNCHANGED <<store, entries, memo, results, work, made>>
    BY <1>10 DEF Drop
  <2>2. Pinned' \subseteq Pinned
    BY <2>1 DEF Pinned, ThreadRoots, MemoRoots, StackRoots
  <2> QED
    BY <2>1, <2>2 DEF StoreInv, Alive
<1>11. CASE Collect
  <2>1. Pinned' = Pinned /\ store' = Nodes(Pinned)
    BY <1>11 DEF Collect, Pinned, ThreadRoots, MemoRoots, StackRoots
  <2> QED
    BY <2>1 DEF Alive, Nodes
<1>12. CASE UNCHANGED vars
  <2>1. Pinned' = Pinned /\ store' = store
    BY <1>12 DEF vars, Pinned, ThreadRoots, MemoRoots, StackRoots
  <2> QED
    BY <2>1 DEF StoreInv, Alive
<1>13. ASSUME NEW t \in Thread, NEW op \in CallOps, NEW l \in handles, NEW r \in handles,
              Start(t, op, l, r)
       PROVE  \A F \in Pinned' : Alive(F)'
  BY <1>13, StartAlive
<1> QED
  BY <1>4, <1>5, <1>6, <1>7, <1>8, <1>9, <1>10, <1>11, <1>12, <1>13, SplitAlive, MakeAlive DEF Next, Step

\* At the start only the seeds and the roots of the manager are held.
LEMMA InitStore == ASSUME Init PROVE StoreInv
<1>1. OperandsHeld
  BY DEF Init, OperandsHeld
<1>2. ASSUME NEW t \in Thread
      PROVE  ThreadRoots(t) = {Zero}
  <2>1. MemoRoots(t) = {} /\ TableRoots(results[t]) = {} /\ made[t] = Zero
    BY DEF Init, MemoRoots, TableRoots, Empty
  <2>2. StackRoots(t) = {}
    <3>1. Len(work[t]) = 0
      BY DEF Init
    <3> QED
      BY <3>1 DEF StackRoots
  <2> QED
    BY <2>1, <2>2 DEF ThreadRoots
<1>3. TableRoots(entries) = {} /\ handles = Seeds
  BY DEF Init, TableRoots, Empty
<1>4. Pinned \subseteq Seeds \union ManagerRoots \union {Zero}
  BY <1>2, <1>3 DEF Pinned
<1>5. \A F \in Seeds \union ManagerRoots : Alive(F)
  BY DEF Init, Nodes, Alive
<1> QED
  BY <1>1, <1>4, <1>5, ZeroAlive DEF StoreInv

\* What is held is live in every reachable state of every instance.
THEOREM StoreInvariance == Spec => []StoreInv
<1>1. Init => StoreInv
  BY InitStore
<1>2. IInv /\ StackInv /\ StoreInv /\ [Next]_vars => StoreInv'
  BY StoreStep
<1> QED
  BY <1>1, <1>2, Invariance, StackInvariance, PTL DEF Spec

\* No collection takes a node that a caller, the shared cache or a running call
\* can still reach, in every instance.
THEOREM HeldIsLive == Spec => []HeldNodesLive
<1>1. StoreInv => HeldNodesLive
  <2> SUFFICES ASSUME StoreInv PROVE HeldNodesLive
    OBVIOUS
  <2>1. Nodes(handles \union TableRoots(entries)) \subseteq store
    BY DEF StoreInv, Alive, Pinned, Nodes
  <2>2. ASSUME NEW t \in Thread, pc[t] # "idle"
        PROVE  Nodes({call[t].left, call[t].right} \union ThreadRoots(t)) \subseteq store
    <3>1. {call[t].left, call[t].right} \union ThreadRoots(t) \subseteq Pinned
      BY <2>2 DEF StoreInv, OperandsHeld, Pinned
    <3> QED
      BY <3>1 DEF StoreInv, Alive, Nodes
  <2> QED
    BY <2>1, <2>2 DEF HeldNodesLive
<1> QED
  BY <1>1, StoreInvariance, PTL

----------------------------------------------------------------------------
\* The two tables of the shared cache keep to each other, and within the limit,
\* in every reachable state of every instance.
THEOREM CacheInvariance == Spec => []CacheInv
<1>1. Init => CacheInv
  <2> SUFFICES ASSUME Init PROVE CacheInv
    OBVIOUS
  <2>1. DOMAIN entries = {} /\ DOMAIN order = {} /\ Len(order) = 0
    BY DEF Init, Empty
  <2> QED
    BY <2>1, FS_EmptySet, ApplyAssumption DEF CacheInv, Lists
<1>2. IInv /\ CacheInv /\ [Next]_vars => CacheInv'
  <2> SUFFICES ASSUME IInv, CacheInv, [Next]_vars PROVE CacheInv'
    OBVIOUS
  <2>1. ASSUME NEW t \in Thread, RecordMade(t)
        PROVE  CacheInv'
    <3>1. work[t] # << >> /\ order \in Seq(Key)
      BY <2>1 DEF RecordMade, IInv, MadeExact, TypeOK
    <3>2. Head(work[t]).key \in Key
      BY <3>1, PopSound DEF IInv, StacksSound
    <3>3. CacheInsert(Head(work[t]).key, made[t])
      BY <2>1 DEF RecordMade
    <3> QED
      BY <3>1, <3>2, <3>3, CacheInsertAgrees
  <2>2. CASE UNCHANGED <<entries, order>>
    BY <2>2 DEF CacheInv, Lists
  <2>3. UNCHANGED <<entries, order>> \/ \E t \in Thread : RecordMade(t)
    BY DEF Next, vars, Step, Start, VisitKnown, VisitTerminal, VisitCached, VisitExpand, OverMemoLimit,
           MakeNode, OverNodeLimit, Finish, Drop, Collect
  <2> QED
    BY <2>1, <2>2, <2>3
<1> QED
  BY <1>1, <1>2, Invariance, PTL DEF Spec

\* The insertion order lists exactly the keys of the shared cache, each once and
\* never more than its limit, in every instance.
THEOREM CacheAgreement == Spec => []CacheTablesAgree
<1>1. CacheInv => CacheTablesAgree
  BY DEF CacheInv, Lists, CacheTablesAgree
<1> QED
  BY <1>1, CacheInvariance, PTL

----------------------------------------------------------------------------
(* The memo limit.  Every key of a call is what a path leaves of the root  *)
(* key, so the keys of the memo are among its subproblems.                 *)

Reach(k) ==
  {KeyOf(k.op, Below(k.left, i, P), Below(k.right, i, P)) : i \in 0 .. N, P \in SUBSET Var}

\* The operands of a commutative operation may come in either order.
LEMMA KeyOfSymmetric ==
  ASSUME NEW op, op # "difference", NEW F \in Family, NEW G \in Family
  PROVE  KeyOf(op, F, G) = KeyOf(op, G, F)
<1>1. F # G => (RootLess(F, G) <=> ~RootLess(G, F))
  BY RootOrder
<1> QED
  BY <1>1 DEF KeyOf

\* One more variable is decided below a path.
LEMMA BelowStep ==
  ASSUME NEW F \in Family, NEW i \in 0 .. N, NEW P \in SUBSET (0 .. i - 1), NEW b \in Var, i <= b,
         \A w \in Support(Below(F, i, P)) : b <= w
  PROVE  /\ Hi(b, Below(F, i, P)) = Below(F, b + 1, P \union {b})
         /\ Lo(b, Below(F, i, P)) = Below(F, b + 1, P)
<1> DEFINE A == 0 .. i - 1
           B == 0 .. (b + 1) - 1
           G == Below(F, i, P)
<1>1. i \in Nat /\ b \in Nat
  BY NAssumption DEF Var
<1>2. A \subseteq B /\ b \in B /\ b \notin A /\ P \subseteq A
  BY <1>1
<1>3. \A S : S \in G <=> \E T \in F : T \intersect A = P /\ S = T \ A
  BY BelowMembership
<1>4. \A S : S \in Below(F, b + 1, P \union {b}) <=> \E T \in F : T \intersect B = P \union {b} /\ S = T \ B
  BY BelowMembership
<1>5. \A S : S \in Below(F, b + 1, P) <=> \E T \in F : T \intersect B = P /\ S = T \ B
  BY BelowMembership
<1>6. \A w \in Nat : w \in B => w <= b
  BY <1>1
<1>7. ASSUME NEW T \in F, T \intersect A = P
      PROVE  \A w \in T \intersect B : w \in P \/ w = b
  <2> SUFFICES ASSUME NEW w \in T \intersect B, w \notin P PROVE w = b
    OBVIOUS
  <2>1. w \in T \ A /\ T \ A \in G
    BY <1>3, <1>7
  <2>2. b <= w /\ w \in Nat /\ w <= b
    BY <1>6, <2>1 DEF Support
  <2> QED
    BY <1>1, <2>2
<1> HIDE DEF A, B, G
<1>8. ASSUME NEW T \in F
      PROVE  /\ T \intersect A = P /\ b \in T <=> T \intersect B = P \union {b}
             /\ T \intersect A = P /\ b \notin T <=> T \intersect B = P
  <2>1. ASSUME T \intersect A = P, b \in T PROVE T \intersect B = P \union {b}
    BY <1>2, <1>7, <2>1
  <2>2. ASSUME T \intersect A = P, b \notin T PROVE T \intersect B = P
    BY <1>2, <1>7, <2>2
  <2>3. ASSUME T \intersect B = P \union {b} PROVE T \intersect A = P /\ b \in T
    <3>1. b \in T
      BY <2>3
    <3>2. \A w \in P : w \in T \intersect A
      BY <1>2, <2>3
    <3>3. ASSUME NEW w \in T \intersect A PROVE w \in P
      <4>1. w \in T \intersect B /\ w # b
        BY <1>2
      <4> QED
        BY <2>3, <4>1
    <3> QED
      BY <3>1, <3>2, <3>3
  <2>4. ASSUME T \intersect B = P PROVE T \intersect A = P /\ b \notin T
    BY <1>2, <2>4
  <2> QED
    BY <2>1, <2>2, <2>3, <2>4
<1>9. ASSUME NEW T \in F, T \intersect A = P
      PROVE  T \ B = (T \ A) \ {b}
  BY <1>2, <1>7, <1>9
<1>10. Hi(b, G) = Below(F, b + 1, P \union {b})
  <2>1. ASSUME NEW S, S \in Hi(b, G) PROVE S \in Below(F, b + 1, P \union {b})
    <3>1. PICK U \in G : b \in U /\ S = U \ {b}
      BY <2>1 DEF Hi
    <3>2. PICK T \in F : T \intersect A = P /\ U = T \ A
      BY <1>3
    <3>3. b \in T /\ S = T \ B
      BY <1>9, <3>1, <3>2
    <3> QED
      BY <1>4, <1>8, <3>2, <3>3
  <2>2. ASSUME NEW S, S \in Below(F, b + 1, P \union {b}) PROVE S \in Hi(b, G)
    <3>1. PICK T \in F : T \intersect B = P \union {b} /\ S = T \ B
      BY <1>4, <2>2
    <3>2. T \intersect A = P /\ b \in T
      BY <1>8, <3>1
    <3>3. T \ A \in G /\ b \in T \ A /\ S = (T \ A) \ {b}
      BY <1>2, <1>3, <1>9, <3>1, <3>2
    <3> QED
      BY <3>3 DEF Hi
  <2> QED
    BY <2>1, <2>2, Zenon
<1>11. Lo(b, G) = Below(F, b + 1, P)
  <2>1. ASSUME NEW S, S \in Lo(b, G) PROVE S \in Below(F, b + 1, P)
    <3>1. S \in G /\ b \notin S
      BY <2>1 DEF Lo
    <3>2. PICK T \in F : T \intersect A = P /\ S = T \ A
      BY <1>3, <3>1
    <3>3. b \notin T /\ S = T \ B
      BY <1>2, <1>9, <3>1, <3>2
    <3> QED
      BY <1>5, <1>8, <3>2, <3>3
  <2>2. ASSUME NEW S, S \in Below(F, b + 1, P) PROVE S \in Lo(b, G)
    <3>1. PICK T \in F : T \intersect B = P /\ S = T \ B
      BY <1>5, <2>2
    <3>2. T \intersect A = P /\ b \notin T
      BY <1>8, <3>1
    <3>3. T \ A \in G /\ b \notin T \ A /\ S = T \ A
      BY <1>3, <1>9, <3>1, <3>2
    <3> QED
      BY <3>3 DEF Lo
  <2> QED
    BY <2>1, <2>2, Zenon
<1> QED
  BY <1>10, <1>11 DEF G

\* The children of a reached key are reached.
LEMMA ReachChild ==
  ASSUME NEW root \in Key, NEW k \in Reach(root), TerminalResult(k) = {}
  PROVE  HiKey(k) \in Reach(root) /\ LoKey(k) \in Reach(root)
<1>1. PICK i \in 0 .. N, P \in SUBSET Var : k = KeyOf(root.op, Below(root.left, i, P), Below(root.right, i, P))
  BY DEF Reach
<1> DEFINE op == root.op
           l == root.left
           r == root.right
           A == Below(l, i, P)
           B == Below(r, i, P)
           b == Branch(k)
<1>2. op \in Ops /\ l \in Family /\ r \in Family /\ A \in Family /\ B \in Family
  BY BelowTyping DEF Key
<1>3. /\ k \in Key /\ k.op = op
      /\ (k.left = A /\ k.right = B) \/ (op # "difference" /\ k.left = B /\ k.right = A)
  BY <1>1, <1>2, KeyOfSound DEF KeyOf
<1>4. b \in Var /\ IsBranch(b, k)
  BY <1>3, BranchExists
<1>5. /\ b \in Support(A) \union Support(B)
      /\ \A w \in Support(A) \union Support(B) : b <= w
  BY <1>3, <1>4 DEF IsBranch
<1>6. P \in SUBSET (0 .. i - 1) /\ i <= b
  <2>1. PICK F \in {l, r} : b \in Support(Below(F, i, P))
    BY <1>5
  <2>2. PICK T \in F : T \intersect (0 .. i - 1) = P /\ b \in T \ (0 .. i - 1)
    BY <2>1, BelowMembership DEF Support
  <2>3. b \in Nat /\ i \in Nat /\ b \notin 0 .. i - 1
    BY <1>4, <2>2, NAssumption DEF Var
  <2> QED
    BY <2>2, <2>3
<1> HIDE DEF op, l, r, A, B, b
<1>7. /\ CofactorHi(b, A) = Hi(b, A) /\ CofactorLo(b, A) = Lo(b, A)
      /\ CofactorHi(b, B) = Hi(b, B) /\ CofactorLo(b, B) = Lo(b, B)
  BY <1>2, <1>4, <1>5, CofactorsAreExact
<1>8. /\ Hi(b, A) = Below(l, b + 1, P \union {b}) /\ Lo(b, A) = Below(l, b + 1, P)
      /\ Hi(b, B) = Below(r, b + 1, P \union {b}) /\ Lo(b, B) = Below(r, b + 1, P)
  <2>1. \A w \in Support(Below(l, i, P)) : b <= w
    BY <1>5 DEF A
  <2>2. \A w \in Support(Below(r, i, P)) : b <= w
    BY <1>5 DEF B
  <2>3. Hi(b, A) = Below(l, b + 1, P \union {b}) /\ Lo(b, A) = Below(l, b + 1, P)
    BY <1>2, <1>4, <1>6, <2>1, BelowStep DEF A
  <2>4. Hi(b, B) = Below(r, b + 1, P \union {b}) /\ Lo(b, B) = Below(r, b + 1, P)
    BY <1>2, <1>4, <1>6, <2>2, BelowStep DEF B
  <2> QED
    BY <2>3, <2>4
<1>9. /\ Hi(b, A) \in Family /\ Lo(b, A) \in Family /\ Hi(b, B) \in Family /\ Lo(b, B) \in Family
  BY <1>2, <1>4, CofactorTyping
<1>10. HiKey(k) = KeyOf(op, Hi(b, A), Hi(b, B)) /\ LoKey(k) = KeyOf(op, Lo(b, A), Lo(b, B))
  <2>1. HiKey(k) = KeyOf(op, CofactorHi(b, k.left), CofactorHi(b, k.right))
    BY <1>3 DEF HiKey, b
  <2>2. LoKey(k) = KeyOf(op, CofactorLo(b, k.left), CofactorLo(b, k.right))
    BY <1>3 DEF LoKey, b
  <2>3. CASE k.left = A /\ k.right = B
    BY <1>7, <2>1, <2>2, <2>3
  <2>4. CASE op # "difference" /\ k.left = B /\ k.right = A
    BY <1>7, <1>9, <2>1, <2>2, <2>4, KeyOfSymmetric
  <2> QED
    BY <1>3, <2>3, <2>4
<1>11. b + 1 \in 0 .. N /\ P \union {b} \in SUBSET Var
  BY <1>4, NAssumption DEF Var
<1>12. /\ HiKey(k) = KeyOf(op, Below(l, b + 1, P \union {b}), Below(r, b + 1, P \union {b}))
       /\ LoKey(k) = KeyOf(op, Below(l, b + 1, P), Below(r, b + 1, P))
  BY <1>8, <1>10
<1> QED
  BY <1>11, <1>12 DEF Reach, op, l, r

\* The root key of a call is reached from itself.
LEMMA ReachRoot ==
  ASSUME NEW op \in Ops, NEW l \in Family, NEW r \in Family
  PROVE  KeyOf(op, l, r) \in Reach(KeyOf(op, l, r))
<1> DEFINE k == KeyOf(op, l, r)
<1>1. \A F : Below(F, 0, {}) = F
  <2> TAKE F
  <2>1. 0 .. 0 - 1 = {}
    OBVIOUS
  <2>2. ASSUME NEW S, S \in Below(F, 0, {}) PROVE S \in F
    <3>1. PICK T \in F : T \intersect (0 .. 0 - 1) = {} /\ S = T \ (0 .. 0 - 1)
      BY <2>2, BelowMembership
    <3>2. S = T
      BY <2>1, <3>1
    <3> QED
      BY <3>2
  <2>3. ASSUME NEW S, S \in F PROVE S \in Below(F, 0, {})
    <3>1. S \intersect (0 .. 0 - 1) = {} /\ S = S \ (0 .. 0 - 1)
      BY <2>1
    <3> QED
      BY <2>3, <3>1, BelowMembership
  <2> QED
    BY <2>2, <2>3, Zenon
<1>2. KeyOf(k.op, k.left, k.right) = k
  <2>1. l # r => (RootLess(l, r) <=> ~RootLess(r, l))
    BY RootOrder
  <2> QED
    BY <2>1 DEF KeyOf
<1>3. 0 \in 0 .. N /\ {} \in SUBSET Var
  BY NAssumption
<1> HIDE DEF k
<1>4. k = KeyOf(k.op, Below(k.left, 0, {}), Below(k.right, 0, {}))
  BY <1>1, <1>2
<1> QED
  BY <1>3, <1>4 DEF Reach, k

\* A key has finitely many subproblems.
LEMMA SubproblemsFinite ==
  ASSUME NEW k
  PROVE  IsFiniteSet(Subproblems(k))
<1> DEFINE D == (0 .. N) \X SUBSET Var
           f == [p \in D |-> KeyOf(k.op, Below(k.left, p[1], p[2]), Below(k.right, p[1], p[2]))]
<1>1. IsFiniteSet(D)
  <2>1. IsFiniteSet(0 .. N) /\ IsFiniteSet(Var)
    BY NAssumption, FS_Interval DEF Var
  <2> QED
    BY <2>1, FS_SUBSET, FS_Product
<1>2. f \in Surjection(D, Reach(k))
  <2>1. \A p \in D : f[p] \in Reach(k)
    BY DEF Reach
  <2>2. \A d \in Reach(k) : \E p \in D : f[p] = d
    <3> TAKE d \in Reach(k)
    <3>1. PICK i \in 0 .. N, P \in SUBSET Var : d = KeyOf(k.op, Below(k.left, i, P), Below(k.right, i, P))
      BY DEF Reach
    <3>2. <<i, P>> \in D /\ f[<<i, P>>] = d
      BY <3>1
    <3> QED
      BY <3>2
  <2>3. f \in [D -> Reach(k)]
    BY <2>1
  <2> HIDE DEF f, D
  <2> QED
    BY <2>2, <2>3 DEF Surjection
<1>3. IsFiniteSet(Reach(k))
  BY <1>1, <1>2, FS_Surjection
<1>4. Subproblems(k) \subseteq Reach(k)
  BY DEF Subproblems, Reach
<1> QED
  BY <1>3, <1>4, FS_Subset

\* What a call still has to do and has counted comes from its root key.
ReachAt(t) ==
  /\ memo[t] \subseteq Subproblems(RootKey(t))
  /\ \A i \in DOMAIN work[t] : work[t][i].key \in Reach(RootKey(t))
  /\ outcome[t].kind = "memo_limit" => Cardinality(Subproblems(RootKey(t))) > MemoLimit

ReachInv == \A t \in Thread : ReachAt(t)

\* Only thread t is to be looked at.
LEMMA ReachFrame ==
  ASSUME ReachInv, NEW t \in Thread, OthersKept(t), \A u \in Thread \ {t} : outcome'[u] = outcome[u],
         ReachAt(t)'
  PROVE  ReachInv'
<1> SUFFICES ASSUME NEW u \in Thread PROVE ReachAt(u)'
  BY DEF ReachInv
<1>1. CASE u = t
  BY <1>1
<1>2. CASE u # t
  BY <1>2 DEF ReachInv, OthersKept, ReachAt, RootKey
<1> QED
  BY <1>1, <1>2

\* A pop leaves less to do.
LEMMA ReachPop ==
  ASSUME IInv, ReachInv, NEW t \in Thread, work[t] # << >>, Pop(t), UNCHANGED <<memo, call, outcome>>,
         OthersKept(t)
  PROVE  ReachInv'
<1>1. work[t] \in Seq(WorkItem) /\ work'[t] = Tail(work[t])
  BY DEF IInv, TypeOK, Pop
<1>2. \A i \in DOMAIN Tail(work[t]) : i + 1 \in DOMAIN work[t] /\ Tail(work[t])[i] = work[t][i + 1]
  BY <1>1, PopPositions
<1>3. \A i \in DOMAIN work'[t] : work'[t][i].key \in Reach(RootKey(t))
  BY <1>1, <1>2 DEF ReachInv, ReachAt
<1>4. ReachAt(t)'
  BY <1>3 DEF ReachInv, ReachAt, RootKey
<1> QED
  BY <1>4, ReachFrame

\* The key on top of an undecided visit is a subproblem not counted yet.
LEMMA UndecidedCounts ==
  ASSUME IInv, ReachInv, NEW t \in Thread, Undecided(t)
  PROVE  /\ work[t] \in Seq(WorkItem) /\ RootKey(t) \in Key
         /\ Head(work[t]) = Visit(Head(work[t]).key)
         /\ Head(work[t]).key \in Key
         /\ Head(work[t]).key \in Reach(RootKey(t))
         /\ Head(work[t]).key \in Subproblems(RootKey(t)) \ memo[t]
<1> DEFINE k == Head(work[t]).key
<1>1. /\ pc[t] = "work" /\ work[t] # << >> /\ Head(work[t]).kind = "visit"
      /\ TerminalResult(k) = {} /\ k \notin memo[t]
  BY DEF Undecided, Fresh
<1>2. work[t] \in Seq(WorkItem)
  BY DEF IInv, TypeOK
<1>3. Head(work[t]) \in WorkItem
  BY <1>1, PopSound DEF IInv, StacksSound
<1>4. Head(work[t]) = Visit(k) /\ k \in Key
  BY <1>1, <1>3 DEF WorkItem, Visit
<1>5. k \in Reach(RootKey(t))
  <2>1. 1 \in DOMAIN work[t] /\ Head(work[t]) = work[t][1]
    BY <1>1, <1>2, PopPositions
  <2> QED
    BY <2>1 DEF ReachInv, ReachAt
<1>6. k \in Subproblems(RootKey(t))
  BY <1>1, <1>5 DEF Subproblems, Reach
<1>7. RootKey(t) \in Key
  <2>1. call[t].op \in Ops /\ call[t].left \in Family /\ call[t].right \in Family
    BY DEF IInv, TypeOK, Key
  <2> QED
    BY <2>1, KeyOfSound DEF RootKey
<1> QED
  BY <1>1, <1>2, <1>4, <1>5, <1>6, <1>7

\* The key that is split is counted; its children come from the root key too.
LEMMA ReachSplit ==
  ASSUME IInv, ReachInv, NEW t \in Thread, VisitExpand(t)
  PROVE  ReachInv'
<1> DEFINE k == Head(work[t]).key
<1>1. /\ work[t] # << >> /\ Head(work[t]).kind = "visit" /\ TerminalResult(k) = {} /\ Undecided(t)
  BY DEF VisitExpand, Undecided
<1>2. /\ work[t] \in Seq(WorkItem) /\ RootKey(t) \in Key
      /\ k \in Key /\ k \in Reach(RootKey(t)) /\ k \in Subproblems(RootKey(t))
  BY <1>1, UndecidedCounts
<1>3. Expand(k) \in Seq(WorkItem)
  BY <1>1, <1>2, ExpandSound, SoundItemsAreItems, SeqMonotonic, Zenon
<1> HIDE DEF k
<1>4. PICK u : u = Expand(k) \o Tail(work[t])
  OBVIOUS
<1>5. Split(u, work[t], k)
  BY <1>1, <1>2, <1>3, <1>4, ExpandPositions
<1>6. \A i \in DOMAIN u : u[i].key \in Reach(RootKey(t))
  <2> TAKE i \in DOMAIN u
  <2>1. CASE i \in {1, 2, 3}
    <3>1. HiKey(k) \in Reach(RootKey(t)) /\ LoKey(k) \in Reach(RootKey(t))
      BY <1>1, <1>2, ReachChild DEF k
    <3>2. u[1].key = LoKey(k) /\ u[2].key = HiKey(k) /\ u[3].key = k
      BY <1>5 DEF Split, Visit, Combine
    <3> QED
      BY <1>2, <2>1, <3>1, <3>2
  <2>2. CASE i \notin {1, 2, 3}
    <3>1. PICK j \in DOMAIN work[t] : j # 1 /\ i = j + 2
      BY <1>5, <2>2 DEF Split
    <3>2. u[i] = work[t][j]
      BY <1>5, <3>1 DEF Split
    <3> QED
      BY <3>2 DEF ReachInv, ReachAt
  <2> QED
    BY <2>1, <2>2
<1>7. /\ work'[t] = u /\ memo'[t] = memo[t] \union {k}
      /\ UNCHANGED <<call, outcome>> /\ OthersKept(t)
  BY <1>4 DEF IInv, TypeOK, VisitExpand, OthersKept, k
<1>8. ReachAt(t)'
  BY <1>2, <1>6, <1>7 DEF ReachInv, ReachAt, RootKey
<1> QED
  BY <1>7, <1>8, ReachFrame

\* A new call begins at its root key, its memo empty.
LEMMA ReachBegin ==
  ASSUME IInv, StackInv, ReachInv, NEW t \in Thread,
         NEW op \in CallOps, NEW l \in handles, NEW r \in handles, Start(t, op, l, r)
  PROVE  ReachInv'
<1>1. op \in Ops /\ l \in Family /\ r \in Family
  BY ApplyAssumption DEF IInv, TypeOK
<1>2. /\ work'[t] = <<Visit(KeyOf(op, l, r))>> /\ memo'[t] = {}
      /\ call'[t] = [op |-> op, left |-> l, right |-> r]
      /\ outcome'[t] = NoOutcome
      /\ OthersKept(t) /\ \A u \in Thread \ {t} : outcome'[u] = outcome[u]
  BY DEF IInv, TypeOK, Start, OthersKept, StackInv, ShapeAt
<1>3. RootKey(t)' = KeyOf(op, l, r)
  BY <1>2 DEF RootKey
<1>4. \A i \in DOMAIN work'[t] : work'[t][i].key \in Reach(KeyOf(op, l, r))
  <2>1. DOMAIN work'[t] = {1} /\ work'[t][1].key = KeyOf(op, l, r)
    BY <1>2 DEF Visit
  <2> QED
    BY <1>1, <2>1, ReachRoot
<1>5. ReachAt(t)'
  BY <1>2, <1>3, <1>4 DEF ReachAt, NoOutcome
<1> QED
  BY <1>2, <1>5, ReachFrame

\* A call that returns forgets its work; the memo limit stopped it only with
\* more subproblems than the limit.
LEMMA ReachEnd ==
  ASSUME IInv, ReachInv, NEW t \in Thread, NEW o, Return(t, o), UNCHANGED call,
         o.kind = "memo_limit" => Cardinality(Subproblems(RootKey(t))) > MemoLimit
  PROVE  ReachInv'
<1>1. /\ memo'[t] = {} /\ work'[t] = << >> /\ outcome'[t] = o
      /\ OthersKept(t) /\ \A u \in Thread \ {t} : outcome'[u] = outcome[u]
  BY DEF IInv, TypeOK, Return, OthersKept
<1>2. ReachAt(t)'
  BY <1>1 DEF ReachAt, RootKey
<1> QED
  BY <1>1, <1>2, ReachFrame

\* At the memo limit, the fresh key is one subproblem more than the limit.
LEMMA LimitIsReal ==
  ASSUME IInv, ReachInv, NEW t \in Thread, OverMemoLimit(t)
  PROVE  Cardinality(Subproblems(RootKey(t))) > MemoLimit
<1> DEFINE k == Head(work[t]).key
           D == Subproblems(RootKey(t))
           M == memo[t]
<1>1. Undecided(t) /\ Cardinality(M) = MemoLimit
  BY DEF OverMemoLimit
<1>2. k \in D \ M /\ M \subseteq D
  BY <1>1, UndecidedCounts DEF ReachInv, ReachAt
<1>3. IsFiniteSet(D)
  BY SubproblemsFinite
<1> HIDE DEF k, D, M
<1>4. IsFiniteSet(M)
  BY <1>2, <1>3, FS_Subset
<1>5. Cardinality(M \union {k}) = MemoLimit + 1
  BY <1>1, <1>2, <1>4, FS_AddElement
<1>6. Cardinality(M \union {k}) <= Cardinality(D) /\ Cardinality(D) \in Nat
  <2>1. M \union {k} \subseteq D
    BY <1>2
  <2> QED
    BY <1>3, <2>1, FS_Subset, FS_CardinalityType
<1>7. Cardinality(D) > MemoLimit
  BY <1>5, <1>6, ApplyAssumption
<1> QED
  BY <1>7 DEF D

\* Every step keeps the work of a call within what its root key needs.
LEMMA ReachStep ==
  ASSUME IInv, StackInv, ReachInv, [Next]_vars
  PROVE  ReachInv'
<1>1. ASSUME NEW t \in Thread, VisitKnown(t) \/ VisitTerminal(t) \/ VisitCached(t)
      PROVE  ReachInv'
  <2>1. work[t] # << >> /\ Pop(t) /\ UNCHANGED <<memo, call, outcome>> /\ OthersKept(t)
    BY <1>1 DEF VisitKnown, Visiting, VisitTerminal, VisitCached, Undecided, Pop, Record, OthersKept,
                IInv, TypeOK
  <2> QED
    BY <2>1, ReachPop
<1>2. ASSUME NEW t \in Thread, RecordMade(t)
      PROVE  ReachInv'
  <2>1. work[t] # << >> /\ Pop(t) /\ UNCHANGED <<memo, call, outcome>> /\ OthersKept(t)
    BY <1>2 DEF RecordMade, Pop, Record, OthersKept, IInv, TypeOK, MadeExact
  <2> QED
    BY <2>1, ReachPop
<1>3. ASSUME NEW t \in Thread, MakeNode(t)
      PROVE  ReachInv'
  BY <1>3 DEF MakeNode, ReachInv, ReachAt, RootKey
<1>4. ASSUME NEW t \in Thread, OverMemoLimit(t)
      PROVE  ReachInv'
  BY <1>4, LimitIsReal, ReachEnd DEF OverMemoLimit
<1>5. ASSUME NEW t \in Thread, OverNodeLimit(t) \/ Finish(t)
      PROVE  ReachInv'
  BY <1>5, ReachEnd DEF OverNodeLimit, Finish
<1>6. CASE (\E F \in handles : Drop(F)) \/ Collect \/ UNCHANGED vars
  BY <1>6 DEF Drop, Collect, vars, ReachInv, ReachAt, RootKey
<1> QED
  BY <1>1, <1>2, <1>3, <1>4, <1>5, <1>6, ReachSplit, ReachBegin DEF Next, Step

\* The memo limit is never spurious, in every instance: a call it stops has
\* more distinct subproblems than the limit, whatever the cache held.
THEOREM MemoLimitIsReal == Spec => []MemoLimitNotSpurious
<1>1. Init => ReachInv
  BY DEF Init, ReachInv, ReachAt, NoOutcome
<1>2. IInv /\ StackInv /\ ReachInv /\ [Next]_vars => ReachInv'
  BY ReachStep
<1>3. ReachInv => MemoLimitNotSpurious
  BY DEF ReachInv, ReachAt, MemoLimitNotSpurious
<1> QED
  BY <1>1, <1>2, <1>3, Invariance, StackInvariance, PTL DEF Spec
=============================================================================
