------------------------------- MODULE Query -------------------------------
(***************************************************************************)
(* The queries on a family.  ZddManager::query_snapshot copies the nodes   *)
(* below a root into a local DAG, breadth first and under one read guard.  *)
(* SolutionTraversal enumerates the sets from that DAG; CountIndex counts  *)
(* them, with a limit on the bits it keeps, and samples by rank.           *)
(*                                                                         *)
(* The references of a DAG are 0 for the empty family, 1 for the unit      *)
(* family and i + 1 for the i-th node.                                     *)
(***************************************************************************)
EXTENDS Families, Sequences

CONSTANTS
  Sources,    \* families that are queried
  LimitSets,  \* QueryLimits: records of a node limit and a bit limit
  ByteBits    \* bits of a byte the random generator fills; 8 in the code

ASSUME QueryAssumption ==
  /\ Sources \subseteq Family
  /\ LimitSets \subseteq [nodes : Nat, bits : Nat]
  /\ ByteBits \in Nat \ {0}

None == -1

VARIABLES
  source,    \* the family of the query
  limits,    \* the QueryLimits of count_index; the iterator has none
  purpose,   \* "index" (count_index, then sample) or "iterate" (iter)
  phase,     \* "called", "copy", "count", "indexed", "walk", "sampled", "iterate" or "failed"
  roots,     \* the roots discovered, in order; the i-th has reference i + 1
  nodes,     \* QueryDag::nodes copied so far
  counts,    \* per reference: the exact count, or None
  bits,      \* stats.total_count_bits
  work,      \* the stack of count work, its top first
  error,     \* kind of the limit that failed the query
  drawn,     \* the rank drawn by uniform_rank
  rank,      \* solution_at_rank: what is left of it
  at,        \* solution_at_rank: the current reference
  stack,     \* SolutionTraversal::stack, its top first
  current,   \* elements of the set under construction
  emitted    \* the sets the iterator returned

snapshot == <<source, limits, purpose, roots, nodes>>
counting == <<counts, bits, work>>
sampling == <<drawn, rank, at>>
traversal == <<stack, emitted>>
vars == <<snapshot, phase, counting, error, sampling, traversal, current>>

----------------------------------------------------------------------------
(* The snapshot.                                                           *)

Index(F, q) == CHOOSE i \in DOMAIN q : q[i] = F

Reference(F, q) == IF F = Zero THEN 0 ELSE IF F = One THEN 1 ELSE Index(F, q) + 1

\* Mutant: a root that waits for its visit is discovered again.
DiscoveredAgain(F, q) ==
  IF F \in Terminals \union {q[i] : i \in 1 .. Len(nodes)} THEN q ELSE Append(q, F)

\* `reference`: a root that is no terminal and not known gets the next number.
Discovered(F, q) ==
  IF F \in Terminals \union {q[i] : i \in DOMAIN q} THEN q ELSE Append(q, F)

Visited == roots[Len(nodes) + 1]

\* The HI child is referenced before the LO child.
WithChildren ==
  LET v == TopVar(Visited)
  IN Discovered(Lo(v, Visited), Discovered(Hi(v, Visited), roots))

FitsNodeLimit(q) == purpose = "index" => Len(q) <= limits.nodes

Init ==
  /\ source \in Sources
  /\ limits \in LimitSets
  /\ purpose \in {"index", "iterate"}
  /\ phase = "called"
  /\ roots = << >>
  /\ nodes = << >>
  /\ counts = << >>
  /\ bits = 0
  /\ work = << >>
  /\ error = "none"
  /\ drawn = None
  /\ rank = None
  /\ at = None
  /\ stack = << >>
  /\ current = << >>
  /\ emitted = << >>

Begin ==
  /\ phase = "called"
  /\ FitsNodeLimit(Discovered(source, << >>))
  /\ phase' = "copy"
  /\ roots' = Discovered(source, << >>)
  /\ UNCHANGED <<source, limits, purpose, nodes, counting, error, sampling, traversal, current>>

CopyNode ==
  /\ phase = "copy" /\ Len(nodes) < Len(roots)
  /\ FitsNodeLimit(WithChildren)
  /\ roots' = WithChildren
  /\ LET v == TopVar(Visited)
     IN nodes' = Append(nodes, [variable |-> v,
                                hi |-> Reference(Hi(v, Visited), roots'),
                                lo |-> Reference(Lo(v, Visited), roots')])
  /\ UNCHANGED <<source, limits, purpose, phase, counting, error, sampling, traversal, current>>

Fail(kind) ==
  /\ phase' = "failed"
  /\ error' = kind
  /\ UNCHANGED <<snapshot, counting, sampling, traversal, current>>

OverNodeLimit ==
  \/ /\ phase = "called"
     /\ ~FitsNodeLimit(Discovered(source, << >>))
     /\ Fail("query_nodes")
  \/ /\ phase = "copy" /\ Len(nodes) < Len(roots)
     /\ ~FitsNodeLimit(WithChildren)
     /\ Fail("query_nodes")

RootReference == Reference(source, roots)

Visit(r) == [kind |-> "visit", reference |-> r, variable |-> None]

\* CountIndex::from_dag and SolutionTraversal::new take the finished DAG.
Copied ==
  /\ phase = "copy" /\ Len(nodes) = Len(roots)
  /\ IF purpose = "index"
     THEN /\ phase' = "count"
          /\ counts' = [r \in 0 .. Len(nodes) + 1 |-> None]
          /\ work' = <<Visit(RootReference)>>
          /\ UNCHANGED stack
     ELSE /\ phase' = "iterate"
          /\ stack' = <<Visit(RootReference)>>
          /\ UNCHANGED <<counts, work>>
  /\ UNCHANGED <<snapshot, bits, error, sampling, emitted, current>>

----------------------------------------------------------------------------
(* CountIndex::from_dag.                                                   *)

NodeOf(r) == nodes[r - 1]

\* 2 to the power b.
Power[b \in Nat] == IF b = 0 THEN 1 ELSE 2 * Power[b - 1]

\* BigUint::bits.
BitLength(n) == CHOOSE b \in 0 .. n : n < Power[b] /\ (b = 0 \/ Power[b - 1] <= n)

Counting == phase = "count" /\ work # << >>
Ref == Head(work).reference
Pending == Counting /\ counts[Ref] = None

CountKnown ==
  /\ Counting /\ counts[Ref] # None
  /\ work' = Tail(work)
  /\ UNCHANGED <<snapshot, phase, counts, bits, error, sampling, traversal, current>>

\* Mutant: the children are visited after their parent.
CountExpandLate ==
  /\ Pending /\ Head(work).kind = "visit" /\ Ref >= 2
  /\ work' = <<[Visit(Ref) EXCEPT !.kind = "finish"], Visit(NodeOf(Ref).lo), Visit(NodeOf(Ref).hi)>>
               \o Tail(work)
  /\ UNCHANGED <<snapshot, phase, counts, bits, error, sampling, traversal, current>>

CountExpand ==
  /\ Pending /\ Head(work).kind = "visit" /\ Ref >= 2
  /\ work' = <<Visit(NodeOf(Ref).lo), Visit(NodeOf(Ref).hi), [Visit(Ref) EXCEPT !.kind = "finish"]>>
               \o Tail(work)
  /\ UNCHANGED <<snapshot, phase, counts, bits, error, sampling, traversal, current>>

ChildCounts == {counts[NodeOf(Ref).lo], counts[NodeOf(Ref).hi]}

\* The count a work item stores, an option: terminals have theirs, a node the
\* sum of its children.
CountToStore ==
  IF Head(work).kind = "visit" THEN {0, 1} \intersect {Ref}
  ELSE IF None \in ChildCounts THEN {}
  ELSE {counts[NodeOf(Ref).lo] + counts[NodeOf(Ref).hi]}

\* Mutant: the bits of a count are not added up.
StoreCountOverwritesBits ==
  /\ Pending
  /\ \E value \in CountToStore :
       /\ bits + BitLength(value) <= limits.bits
       /\ counts' = [counts EXCEPT ![Ref] = value]
       /\ bits' = BitLength(value)
  /\ work' = Tail(work)
  /\ UNCHANGED <<snapshot, phase, error, sampling, traversal, current>>

StoreCount ==
  /\ Pending
  /\ \E value \in CountToStore :
       /\ bits + BitLength(value) <= limits.bits
       /\ counts' = [counts EXCEPT ![Ref] = value]
       /\ bits' = bits + BitLength(value)
  /\ work' = Tail(work)
  /\ UNCHANGED <<snapshot, phase, error, sampling, traversal, current>>

OverBitLimit ==
  /\ Pending
  /\ \E value \in CountToStore : bits + BitLength(value) > limits.bits
  /\ Fail("count_bits")

CountDone ==
  /\ phase = "count" /\ work = << >>
  /\ phase' = "indexed"
  /\ UNCHANGED <<snapshot, counting, error, sampling, traversal, current>>

----------------------------------------------------------------------------
(* CountIndex::sample.                                                     *)

RankBits(count) == BitLength(count - 1)
ByteCount(count) == (RankBits(count) + ByteBits - 1) \div ByteBits
HighBits(count) == RankBits(count) % ByteBits

\* What fill_bytes can write, as one little-endian number.
RawBytes(count) == 0 .. Power[ByteBits * ByteCount(count)] - 1

\* The mask on the last byte, which is full when HighBits is 0.
Masked(x, count) ==
  IF HighBits(count) = 0 THEN x
  ELSE x % Power[ByteBits * (ByteCount(count) - 1) + HighBits(count)]

Count == counts[RootReference]

\* A draw that is no rank is drawn again.
Draws == IF Count = 0 THEN {} ELSE IF Count = 1 THEN {0}
         ELSE {Masked(x, Count) : x \in RawBytes(Count)} \intersect 0 .. Count - 1

\* An empty index has no sample and draws nothing.
SampleNothing ==
  /\ phase = "indexed" /\ Count = 0
  /\ phase' = "sampled"
  /\ UNCHANGED <<snapshot, counting, error, sampling, traversal, current>>

Draw ==
  /\ phase = "indexed"
  /\ \E r \in Draws : drawn' = r /\ rank' = r
  /\ phase' = "walk"
  /\ at' = RootReference
  /\ current' = << >>
  /\ UNCHANGED <<snapshot, counting, error, traversal>>

\* Mutant: the rank that equals the LO count stays in the LO branch.
WalkOffByOne ==
  /\ phase = "walk" /\ at >= 2
  /\ IF rank <= counts[NodeOf(at).lo] /\ NodeOf(at).lo # 0
     THEN /\ at' = NodeOf(at).lo
          /\ UNCHANGED <<rank, current>>
     ELSE /\ at' = NodeOf(at).hi
          /\ rank' = rank - counts[NodeOf(at).lo]
          /\ current' = Append(current, NodeOf(at).variable)
  /\ UNCHANGED <<snapshot, phase, counting, error, drawn, traversal>>

Walk ==
  /\ phase = "walk" /\ at >= 2
  /\ IF rank < counts[NodeOf(at).lo]
     THEN /\ at' = NodeOf(at).lo
          /\ UNCHANGED <<rank, current>>
     ELSE /\ at' = NodeOf(at).hi
          /\ rank' = rank - counts[NodeOf(at).lo]
          /\ current' = Append(current, NodeOf(at).variable)
  /\ UNCHANGED <<snapshot, phase, counting, error, drawn, traversal>>

SampleFound ==
  /\ phase = "walk" /\ at < 2
  /\ phase' = "sampled"
  /\ UNCHANGED <<snapshot, counting, error, sampling, traversal, current>>

----------------------------------------------------------------------------
(* SolutionTraversal::next_slice.                                          *)

Stepping(kind) == phase = "iterate" /\ stack # << >> /\ Head(stack).kind = kind

SkipZero ==
  /\ Stepping("visit") /\ Head(stack).reference = 0
  /\ stack' = Tail(stack)
  /\ UNCHANGED <<snapshot, phase, counting, error, sampling, emitted, current>>

Yield ==
  /\ Stepping("visit") /\ Head(stack).reference = 1
  /\ stack' = Tail(stack)
  /\ emitted' = Append(emitted, current)
  /\ UNCHANGED <<snapshot, phase, counting, error, sampling, current>>

IncludeItem(node) == [kind |-> "include", reference |-> node.hi, variable |-> node.variable]
RemoveItem == [kind |-> "remove", reference |-> None, variable |-> None]

\* Mutant: the HI branch comes first.
BranchHiFirst ==
  /\ Stepping("visit") /\ Head(stack).reference >= 2
  /\ LET node == NodeOf(Head(stack).reference)
     IN stack' = <<IncludeItem(node), Visit(node.lo)>> \o Tail(stack)
  /\ UNCHANGED <<snapshot, phase, counting, error, sampling, emitted, current>>

\* The LO branch is enumerated completely before the HI branch.
Branch ==
  /\ Stepping("visit") /\ Head(stack).reference >= 2
  /\ LET node == NodeOf(Head(stack).reference)
     IN stack' = <<Visit(node.lo), IncludeItem(node)>> \o Tail(stack)
  /\ UNCHANGED <<snapshot, phase, counting, error, sampling, emitted, current>>

Include ==
  /\ Stepping("include")
  /\ current' = Append(current, Head(stack).variable)
  /\ stack' = <<Visit(Head(stack).reference), RemoveItem>> \o Tail(stack)
  /\ UNCHANGED <<snapshot, phase, counting, error, sampling, emitted>>

Remove ==
  /\ Stepping("remove")
  /\ current' = SubSeq(current, 1, Len(current) - 1)
  /\ stack' = Tail(stack)
  /\ UNCHANGED <<snapshot, phase, counting, error, sampling, emitted>>

Next ==
  \/ Begin \/ CopyNode \/ OverNodeLimit \/ Copied
  \/ CountKnown \/ CountExpand \/ StoreCount \/ OverBitLimit \/ CountDone
  \/ SampleNothing \/ Draw \/ Walk \/ SampleFound
  \/ SkipZero \/ Yield \/ Branch \/ Include \/ Remove

Spec == Init /\ [][Next]_vars

----------------------------------------------------------------------------
(* Properties.                                                             *)

\* The families the references stand for, read from the nodes alone: what one
\* more node on each path makes of them, and paths of at most N nodes, since
\* longer ones would repeat a variable.
Deeper(families) ==
  [r \in 0 .. Len(nodes) + 1 |->
     IF r = 0 THEN Zero ELSE IF r = 1 THEN One
     ELSE Node(NodeOf(r).variable, families[NodeOf(r).hi], families[NodeOf(r).lo])]

Members ==
  LET within[d \in 0 .. N] ==
        IF d = 0 THEN [r \in 0 .. Len(nodes) + 1 |-> IF r = 1 THEN One ELSE Zero]
        ELSE Deeper(within[d - 1])
  IN within[N]

\* The copy is the diagram: the root reference stands for the queried family,
\* every child follows its parent's variable (the debug_assert of from_dag), and
\* a node that is reached along several paths is copied once.
SnapshotExact ==
  phase \notin {"called", "copy", "failed"} =>
    /\ Members[RootReference] = source
    /\ Len(nodes) = Cardinality(NodesOf[source])
    /\ \A i \in DOMAIN nodes : \A child \in {nodes[i].hi, nodes[i].lo} :
         child >= 2 => nodes[i].variable < NodeOf(child).variable

\* Every count that is kept is the number of sets of its branch, and the
\* finished index has the count of every reference it will ever look up.  The
\* `expect` calls of from_dag never panic: when the node under a finish item is
\* summed, the counts of both children are there.
CountsExact ==
  /\ phase \notin {"called", "copy", "failed"} =>
       \A r \in DOMAIN counts : counts[r] # None => counts[r] = Cardinality(Members[r])
  /\ Pending /\ Head(work).kind = "finish" => None \notin ChildCounts
  /\ phase \in {"indexed", "walk", "sampled"} =>
       \A r \in {RootReference} \union UNION {{nodes[i].hi, nodes[i].lo} : i \in DOMAIN nodes} :
         counts[r] # None

\* The bits of the counts of these families, each with its place.
BitPlaces(families) == UNION {{F} \X (1 .. BitLength(Cardinality(F))) : F \in families}

\* The bits of all counts of a complete index of the source.
BitsNeeded ==
  Cardinality(BitPlaces(NodesOf[source] \union (IF source = Zero THEN {} ELSE {One})))

\* Both limits are exact: count_index fails with one exactly when the diagram
\* has more nodes than max_snapshot_nodes, or its counts more bits than
\* max_total_count_bits, and the iterator fails never.
LimitsExact ==
  LET tooManyNodes == Cardinality(NodesOf[source]) > limits.nodes
  IN /\ error = "query_nodes" => purpose = "index" /\ tooManyNodes
     /\ error = "count_bits" => ~tooManyNodes /\ BitsNeeded > limits.bits
     /\ phase \in {"indexed", "walk", "sampled"} => ~tooManyNodes /\ BitsNeeded <= limits.bits

\* Exclude-first order: of two sets the first is the one that lacks the least
\* variable they differ in.
Differences(S, T) == (S \ T) \union (T \ S)
Precedes(S, T) == \E v \in T : v \in Differences(S, T) /\ \A w \in Differences(S, T) : v <= w

Elements(q) == {q[i] : i \in DOMAIN q}
Ascending(q) == \A i, j \in DOMAIN q : i < j => q[i] < q[j]

\* The iterator yields sets of the source in exclude-first order, none twice
\* and none skipped, each with its elements in variable order, although one
\* buffer is extended and cut back between them; at its end it has yielded all.
IterationExact ==
  phase = "iterate" =>
    /\ \A i \in DOMAIN emitted : Ascending(emitted[i])
    /\ \A i \in DOMAIN emitted :
         LET S == Elements(emitted[i])
         IN S \in source /\ Cardinality({T \in source : Precedes(T, S)}) = i - 1
    /\ stack = << >> => Len(emitted) = Cardinality(source) /\ current = << >>

\* Sampling is uniform.  A sample is the set whose place in exclude-first order
\* is the drawn rank, so different ranks give different sets and every set has a
\* rank; and uniform_rank gives every rank below the count for the same number of
\* byte strings, at least one.
SamplesUniform ==
  /\ phase = "sampled" =>
       IF source = Zero THEN drawn = None
       ELSE /\ at = 1
            /\ Elements(current) \in source
            /\ Cardinality({T \in source : Precedes(T, Elements(current))}) = drawn
  /\ phase = "indexed" /\ Count > 1 =>
       LET strings(r) == Cardinality({x \in RawBytes(Count) : Masked(x, Count) = r})
       IN \A r \in 0 .. Count - 1 : strings(r) > 0 /\ strings(r) = strings(0)
=============================================================================
