# Zero-suppressed decision diagrams and the frontier method, specified

This directory holds a TLA+ model of the library in `src/src`: a family-of-sets
library on zero-suppressed decision diagrams (ZDDs), and a graph enumeration
library that builds such families with the frontier method. The modules are
checked with TLC on small instances; the theorems are proved with TLAPS for
every value of the constants. Paths below are relative to the repository.

## 1. Inventory

### Components, their state and their operations

| component | code | state | operations |
|---|---|---|---|
| Manager | `src/zdd/mod.rs`, `support.rs` | backend store of canonical nodes, `nodes_created`, `peak_live_nodes`, shared computed cache behind a mutex | `make_node`, `cofactors_at`, `shared_cache_get/insert`, `record_node_created` |
| Binary operations | `src/zdd/apply.rs`, `family/set_operations.rs` | per call: work stack, memo keys, results | union, intersection, difference, symmetric difference |
| Filters | `src/zdd/filter.rs`, `family/cardinality_filter.rs` | per call: work stack, memo keys, results | contains, excludes, subsets, supersets, at most / at least / between |
| Queries | `src/zdd/snapshot.rs`, `family/count_index.rs`, `sampling.rs`, `solution_iterator.rs` | a local copy of the diagram; counts; traversal stack and one buffer | snapshot, count, sample, iterate |
| Construction and import | `src/zdd/construction.rs`, `zdd/import.rs`, `family/import.rs` | a trie of prefixes; a work stack over a foreign diagram | `from_sets`, `import`, `import_with_variable_map`, compaction |
| Family space | `family/space.rs`, `family/set_family.rs` | limits, shared manager | limits, statistics, handles (clone, drop) |
| Membership test | `src/zdd/query.rs`, `family/set_operations.rs` | a node and a position in a sorted list | `contains` |
| Graph and graph space | `src/graph/graph_data.rs`, `ordering.rs`, `graph_space.rs` | vertices, edges, an edge order, the two edge-variable maps | `from_edges`, `EdgeOrder::new`, `InputOrder`, `BfsOrder`, orders written by the user, `GraphSpaceBuilder::build` |
| Edge families | `src/graph/edge_family.rs`, `compaction.rs`, `edge_solution.rs` | a graph space and a family of its space; an iterator | all set operations in terms of edges, sampling, iteration, compaction |
| Frontier plan | `src/frontier/plan.rs` | first / last incident edge, slots, free slots, steps | `FrontierPlan::new` |
| Frontier builder | `src/frontier/builder.rs`, `view.rs` | layers of canonical states, tape of transitions, roots, statistics | `build_with_stats`, cancellation |
| Problems | `src/problems/*` | per slot: matched bit; degree, component; endpoint mask | `initial_state`, `transition`, `canonicalize`, `finalize` |

Interaction. Families are handles on roots of one manager; a handle keeps its
nodes alive. Several threads may run operations on one manager: they share the
node store (under the backend's shared guard), the two atomic counters and the
computed cache (a mutex held for each lookup and each insertion, not across
them). Memo tables, work stacks, snapshots and indices are local to a call. The
builder calls a problem back for every branch of every state, asks the plan for
slots, and hands finished rows to `make_node`; another thread may cancel its
token at any moment. A graph space is a family space with two maps between edges
and variables; an edge family sends its arguments through one map, calls the set
family and reads answers through the other. The backend (OxiDD) is an external
crate.

### What is hard

* *Threads.* Lookup, computation and insertion of a cached result are three
  steps; eviction, other insertions and garbage collection fall between them.
  `make_node` learns whether it created a node from counters every thread moves.
* *Ordering.* All algorithms are recursions turned into loops over a LIFO stack
  with `expect` calls that panic when a child is not there yet.
* *Limits.* Each operation has limits and must fail exactly when its own work
  exceeds them, leaving shared state usable; retries meet what was left behind.
* *Reuse.* Slots are reused by later vertices, component labels are renumbered,
  one buffer serves every enumerated set; stale data merges or separates states.
* *Boundaries.* Cardinality bounds that stop at zero, rank masks, comparisons of
  ranks, layers without states, limits equal to the need.
* *Termination.* Every loop relies on keys being expanded once, and the builder
  on empty layers being passed through.

### What makes each component correct

| component | properties |
|---|---|
| Binary operations | the result is what the operation denotes; tables are exact; children are computed before their parent; limits are not spurious; every call is answered |
| Shared cache | its two tables agree; it never exceeds its capacity; what it holds is never collected |
| Node counting | a creation or a peak is missed only in a call that a collection hits in one of two gaps, at most one for each |
| Filters | exact results for all arguments; exact memo limit; termination |
| Queries | the copy is the diagram; exact counts; exact limits; order, completeness and absence of duplicates in the enumeration; uniform samples |
| Plan | slots are stable, never shared by vertices needed together, never lost; a step describes the graph |
| Builder | merged states have the same completions, rejected branches none; limits and statistics are exact; a cancelled token stops it at its next look; a build is what its caller was promised: exactly the solutions or an error that has a reason, and it returns |
| Construction, import | exactly the given sets, or the renamed ones; children before and below their parents; exact node limits; sharing is kept; compaction fails only for a foreign family |
| Graph and graph space | exactly simple graphs and permutations of their edges are accepted; BFS orders are breadth first; the maps of a space are inverse to each other whatever order a user returns |
| Edge families, membership | seen as families of edges, calls answer as promised whatever the edge order; spaces never mix |

The hazards, each at its line and with the properties that cover it, are listed
in `PROJECT.json`.

## 2. The modules

```
Families ── FamilyCalls                 FrontierPlan          BuildCalls
   │            ▲ refines                    │ EXTENDS           ▲ refines
   ├── Apply ───┘                       FrontierBuilder ─────────┘
   ├── Filter                                │  ◄── callbacks ── MatchingProblem
   ├── Query                                 │                   CycleProblem
   ├── FromSets, Import ── Compaction   MCBuilder                PathProblem
   └── EdgeFamilyCalls                            (FrontierStates, GraphSolutions)
            ▲ refines
       EdgeFamilies                     GraphSpaces, NodeCounting

theorems:  FamiliesProofs ◄── ApplyProofs, FilterProofs, QueryProofs, CompactionProofs
           FrontierBuilderProofs (the plan and the builder) ◄── ProblemsProofs
           SpacesProofs (NodeCounting and GraphSpaces); QueryProofs also proves EdgeFamilies
```

**Families** — the algebra under the diagrams. Inside one manager a root edge
and the family it denotes determine each other (nodes are canonical, and `Root`
compares edges), so a root *is* its family; the branching variable, the children
and `make_node` are read off the family (`TopVar`, `Hi`, `Lo`, `Node`).
`NodesOf[F]` is the set of inner nodes of the diagram of F, so that limits, live
nodes and collection can be counted.

**Apply** — `ZddManager::apply` as several threads run it. One action per kind of
visit: `VisitKnown` (already in the memo or in the results), `VisitTerminal`,
`VisitCached`, `VisitExpand`, `OverMemoLimit`; Combine is `MakeNode` /
`OverNodeLimit` followed by `RecordMade`, the cache insertion being a separate
step since the mutex is taken after `make_node` has returned. A step ends where
the code touches shared state; the cache lookup and the test of the memo limit
are in one step, for nothing shared is read after the lookup. `Start` and
`Finish` are the entry and the return of `SetFamily::binary_with_stats`; `Drop`
is the drop of a handle, which Rust's borrow rules forbid while a call borrows
it; `Collect` is the backend's collector. `RootLess`, the order of backend edges
that decides how commutative operands are swapped, is a parameter.

**FamilyCalls** — the promise to callers: a call returns exactly the denoted
family or fails with one of the two limits, and changes no handle otherwise.
Apply implements it, with `busy <- {t \in Thread : pc[t] # "idle"}`.

**NodeCounting** — `make_node` split into every single read and update of shared
counters: `num_inner_nodes`, `gc_count`, the insertion, the two comparisons, the
second read of `num_inner_nodes`, `fetch_add`, `fetch_max`. Apply treats the same
function as one step, because only statistics depend on the finer grain. A
collection may fall between any two steps, as the closure expects: it compares
`gc_count` with what it read at the start and takes a difference for a creation.
Two gaps are left, `InGap`: between the first reads of `num_inner_nodes` and of
`gc_count`, and between the two comparisons. A collection there lowers the count
unnoticed, and the call may miss the node it has added. The history variables
`hit` and `hits` count the calls to which this happened; `NoCreationLost` and
`PeakCoversLive` say that nothing is lost beyond one for each of them, so a
collection anywhere else in the guard does no harm. Without `+ hits` TLC
finds both violated: the counters of the code are neither an upper nor a lower bound.

**Filter** — the engine of the five predicates and the methods in front of it,
including argument checks, bounds cut to the universe and calls answered without
work. The engine uses no shared table, so one call is modelled on its own. The
node store is seen only as the choice whether a node that this call does not
already keep alive still fits (`OverNodeLimit`).

**Query** — the snapshot, then either the count index and a sample or the
iterator. References are numbers as in the code (0, 1, then the nodes in order of
discovery). `ByteBits`, 8 in the code, is a parameter: two bits per byte make
ranks of several bytes with partial last bytes reachable. The bytes a random
generator fills are any bytes.

**FromSets** — `from_sets`: the argument check, the trie and its reduction. The
argument is the set of sets it denotes, because the code sorts and deduplicates
first; a trie node is named by its prefix, so its children are the prefixes one
element longer. **Import** — the check of the variable map in the order of its
errors, `transfer_snapshot`, and `import_dag` with its stack and the three states
of a node. **Compaction** composes them: a program builds families in one space
and then compacts or imports all of them. A call is modelled on its own and without
collections: these take only nodes that nothing holds, so a call that fails here at
the node limit might succeed beside a collection, but no result changes. What
collections and other threads do to counters is NodeCounting's subject, for these
algorithms count their nodes with the same reads (`construction.rs:107-123`, `import.rs:130-139`). A family
of another space among those to compact is refused before any work
(`CompactForeign`).

**FrontierPlan** — both passes of `FrontierPlan::new`, one edge per step. Levels
and state ids count from 1. **FrontierBuilder** extends it with the builder. A look at
the cancellation token (`check_cancelled`: `PassCheck`, `ObserveCancel`) is one
step, and the unit of work it lets through is another: `Start`, `RejectBranch`,
`MergeBranch`, `RegisterState`, `OverStates`, `OverTransitions`, `FinalizeState`,
`ReduceRow`, `OverNodes`. `Cancel` may come between the two, a race that
`docs/architecture.md:154` tolerates; `passed` says that the look has been taken
(`MayWork`). `EndLayer`, `EndReduce` and `Finish` do not look.
The problem is passed in as constant operators, which is what the type parameter
`P: FrontierProblem` is in the code; an error of `initial_state` or a rejection is
the empty set, an error of `transition` or `finalize` is a predicate
(`TransitionFails`, `FinalizeFails`) that `FailTransition` and `FailFinalize` turn
into the end of the build. `settings` holds what a build is configured with: the
limits of its space, the limits requested for it, which `limits` caps with those
of the space, and whether a token is attached. The built-in problems fail at the
start only; the problem that fails in the other callbacks stands for a user's, as
in `tests/frontier_builder.rs`.

**BuildCalls** — the promise of `build`: exactly the solutions, or a limit, or
"cancelled" if the token has been cancelled, or the problem's own error — and
success only if the problem has none. FrontierBuilder implements it with the
identity as its mapping.

**MatchingProblem, CycleProblem, PathProblem** — the callbacks of
`src/src/problems`, with what the latter two share in **FrontierStates**.
**GraphSolutions** defines matchings, simple cycles and simple paths on the
graph, independent of any state: it is what results are compared with.

**GraphSpaces** — from a list of endpoint pairs to a graph space. One action reads a
pair (`AddEdge`, `RefuseEdge`), one visits a vertex of the breadth-first search
with all its edges, one gives the next edge of the order to the next variable.
`ListEdges` stands for `InputOrder` and for a list of the user, both validated;
`TrustOrder` for a user-written `EdgeOrdering`, whose result is any `EdgeOrder` of
any graph, since nothing ties an `EdgeOrder` to a graph; `FailOrdering` for the error
it may return instead. That the map of a space has an
inverse, which EdgeFamilies assumes (`SpacesAssumption`), and that FrontierPlan may
start from simple graphs, is what `MapsInverse` and `AcceptsExactly` establish.

**EdgeFamilyCalls** — the promise of edge families: families of sets of edges, in
which variables, maps and diagrams do not occur; only the lists handed out follow
the order of their space. **EdgeFamilies** implements it: `RefuseContext`, one
`MapEdges` or `RefuseEdge` per argument list, then one call on the set family, and
the way back through the other map. The set family's operations appear at the
promise the modules above establish, with two exceptions: the membership test is
the walk of `zdd/query.rs` step by step (`WalkMiss`, `WalkHit`, `WalkDown`), and
compaction does not fail, which is Compaction's `NodeLimitsExact`. An iterator lives
on beside later calls. The refinement mapping replaces every set of variables by
its edges through `variable_to_edge`; the way in uses the other map. `SeenOrders`,
`SeenHeld`, `SeenCall`, `SeenAnswer` and `SeenIterator` are that mapping.

Modules whose names begin with MC choose the values of constants; definitions
called "Mutant" in a comment are wrong versions of the one after them and serve
to show that a property notices the mistake.

## 3. The runs

| run | instance | question |
|---|---|---|
| ApplyAll | 2 variables, all 16 families, all four operations, memo limit 3, one call | are results, terminal cases, order of work and the memo limit right for every pair of operands? |
| ApplyTight | 3 variables, 2 threads, 3 calls, memo limit 4, cache of 2, 12 nodes, one family that may be dropped | do interleavings, eviction, collection and failing calls leave tables exact, the cache consistent, held nodes live, and every caller answered as promised? |
| ApplyRetry | 3 variables, one thread, memo limit 3, cache of 8 | *violation*: does success depend on the shared cache? |
| NodeCounting | 2 threads, 3 nodes, 4 calls, 2 collections anywhere | is a creation lost or the peak too low, beyond one for each call hit in a gap? |
| NodeCountingReported | as above, no collection | *violation*: does a call report only nodes it created? |
| Builder | the three problems, five endpoint pairs, and a problem that fails at each callback; all graphs on 4 vertices up to 4 edges in all orders (those of 4 edges up to symmetry), K4 and pairs of triangles in three orders each; for cycles on graphs of up to 2 edges and on four rings also limits below, at and above the need, requested limits, and a token cancelled at any moment (together with a limit on graphs of up to 2 edges) | is every plan sound? does a build return what BuildCalls promises, are merging and rejecting sound, are limits and statistics exact, does a token stop the build at its next look? |
| GraphSpaces | 5 vertices; all lists of up to 4 pairs, good and bad, and all orders of five good ones; listed orders of up to two entries, orders of other graphs of up to three edges, a failing strategy; spaces of 5 or 100 nodes | are exactly simple graphs and permutations accepted, is BfsOrder breadth first, are the maps inverse? |
| GraphSpacesForeign | 4 vertices, up to 2 edges, orders of other graphs | *violation*: is an order of a larger graph refused with a Result? |
| EdgeFamilies | the triangle; two spaces with the orders 1 2 0 and 0 2 1, or both 1 2 0; 3 calls beside an iterator | is every answer what EdgeFamilyCalls promises, and is every call answered? |
| Filter | 3 variables, all 256 families, all requests with arguments up to one beyond the universe, memo limit 5 | are the filters exact, and their limit? do they return? |
| Compaction | 3 variables; all 256 families, or one with an unknown element, then none or one of three more; every map of length 3 over four ids and three of other lengths; a fresh space of 11 nodes, a smaller one, a used one, one of another size | are construction, import and compaction exact, within limits, sharing-preserving; do they return? |
| Query | 3 variables, all 256 families, four pairs of limits | are snapshot, counts, samples, enumeration and limits exact? |

All runs that are expected to pass do; `PROJECT.json` names the properties of
each and, for each property, a mutant that violates it.

*Why these bounds are enough to be interesting.* Two variables already give every
terminal case and a node over a node; three give shared sub-diagrams, skipped
variables on either side, and calls with more subproblems than the memo limit.
In ApplyTight both limits are hit, the cache evicts, and two threads meet on the
same key. In Filter a limit of five is below the need of some calls and above
that of others. Query's limits are exceeded by some families at the node check
on entry, at the node check while copying, and at the bit check. On four vertices
slots are reused, two vertices enter or leave at one edge, and components leave
the frontier apart and together; six edges are added for K4 (every vertex of
degree three) and two triangles, where two cycles can be selected at once. Paths
are asked between connected, isolated, equal and out-of-range endpoints. The
state limits 0 to 4, the transition limits and the spare nodes 0 to 3 lie around
the need of the small graphs, so that each limit is met just below, at and above.
The plan is the first stage of each of these builds, with edges of either
orientation, so its properties are checked in the same run. Lists of four edges begin
with the edge between the ends 0 and 3, one at 0 or one at neither, the others being
the same up to names; on them only the paths between 0 and 3 are asked.

In Compaction eleven nodes, six of them the space's own, hold some pairs of families and not others, and the first call of
`from_sets` can itself fail.

In GraphSpaces five edges are the fewest at which a search that is not breadth
first gets an order of distances wrong; graphs of up to four edges come with every
mistake `from_edges` looks for, at every position. Orders with fewer or more
entries than the graph has edges reach the missing variable, the surplus level and
the index beyond the end of the map. In EdgeFamilies three edges are the fewest
whose orders are not all their own inverses: with two edges the maps could be
swapped unnoticed. Three calls make two families and combine them, or make,
compact and use a family of the new space.

`MaxCalls`, `MaxGcs`, `Droppable`, `MaxEdges`, `Arguments`, `Inputs`, `Listings`,
`Foreign`, `EdgeLists`, `SetLists`, `Solutions`, `Ranges` and `Settings` bound the
model, not the code.
A behaviour stops when the calls or the build are over, so these runs do not
check for deadlock; that calls do return is `ImplementsFamilyCalls`,
`CallReturns`, `CallsReturn`, `ImplementsBuildCalls` and
`ImplementsEdgeFamilyCalls`.

*Fairness.* Apply: weak fairness of each thread's steps inside a call. Nothing
in the code blocks — the mutex and the backend's guards are held for bounded
work — so a thread with a step to take is only ever delayed by the scheduler.
Starting, dropping and collecting are not fair: nobody promises them. Filter,
Compaction, FrontierBuilder and EdgeFamilies: weak fairness of the single thread
that runs the call. Cancelling, starting another call and asking an iterator for
its next set are not fair. Query, NodeCounting and GraphSpaces are
checked for safety only (the sampler's loop ends only if the caller's generator
cooperates).

## 4. What is proved

Every theorem below holds for every value of the constants that satisfies the
named assumptions of its module, and TLC evaluates each assumption on the
instances it checks. Where a theorem states a property of a run, `PROJECT.json`
says which.

*Binary operations* (ApplyProofs; any number of variables and threads, any calls,
limits and capacity). The assumptions are natural numbers, seeds that are
families, and `RootOrder`: the order of backend edges by which `ComputedKey::new`
arranges commutative operands is total, as an order of edge values is.

* `ApplyRecursion` (FamiliesProofs): for each operation, the node of the combined
  cofactors at a variable at or above both branching variables is the
  combination of the families. Its lemmas say that a cofactor is exact also where
  the variable is skipped (`CofactorsAreExact`), that a node has the cofactors it
  was built from, and that cofactors commute with the operations.
* `Invariance`: `Spec => []IInv`. Type correctness with exact tables
  and outcomes is not inductive: `RecordMade` publishes what `MakeNode` left in
  `made`, so `made` must be the value of the key on top of the stack, and that
  holds only if the Combine item on top splits its key correctly. `IInv` therefore
  adds that every item of every stack is *sound* — a Combine item's node of the
  values of its two keys is the value of its key — (`StacksSound`) and what `made`
  holds between the two steps (`MadeExact`). `ExpandSound` shows that expanding a key pushes sound items; it
  rests on `BranchExists` (a pair that is no terminal case has a branching
  variable, so the `unreachable!` of apply is never reached) and on
  `ApplyRecursion`. Then there is one lemma per action; the actions of the
  environment disturb nothing the invariant speaks of. `TypeCorrect`,
  `TablesAreExact` and `OutcomesAreExact` are corollaries.
* `ExpectNeverFails`: the results a Combine item expects are there when its turn
  comes, so the `expect` calls of apply cannot panic. The invariant `StackInv` is
  about the shape of the whole stack: a key a Combine item needs has its result,
  or is to be visited above the item; a key in the memo without a result has its
  Combine item on the stack.
* `HeldIsLive`: whatever is dropped, evicted and collected in between, a node some
  handle, table or running call holds is in the store. `StoreInv` adds that the
  operands of a running call keep their handles, and that all pinned families
  have all their nodes in the store.
* `CacheAgreement`: the map and the queue of the shared cache have the same keys,
  none twice, within the capacity, even where an insertion replaces an entry or
  evicts the oldest.
* `MemoLimitIsReal`: a call that fails at the memo limit has more than that many
  sub-problems. `ReachInv` bounds the memo by the sub-problems reachable from the
  root key; `Reach` is defined by sets closed under expansion, so that no induction over
  data is needed.
* `Refinement`: `Spec => Promise!Spec`. `Start`, `Finish`, the two limits and
  `Drop` map to the actions of FamilyCalls; all other steps leave its variables
  unchanged. The exactness of the root key's result is what makes `Finish` a legal
  `Succeed`.

*Node counting* (SpacesProofs; any number of callers and collections).
`CreationsAreCounted` and `PeakIsCovered`. Every insertion is given to the
call that is still to report it, or to one that was hit (`AdditionsAccounted`). What a
call that was not hit has read before is not more than what was there at its insertion,
unless a collection has moved `gc_count` since, which the call will notice
(`EntryCountLow`). For the peak there is a number that is
recorded, or read by a call that is about to raise the peak to it, and the live nodes
exceed it by no more than the calls hit and those that are still to read it
(`PeakWillCover`).

*Filters* (FilterProofs; any universe, request and limit). `Invariance`: as for
apply, results are exact and the items of the stack sound, one lemma for each of
the five predicates about the keys of the two children; the lower cardinality
bound stops at zero and the upper one never passes it. `FiltersAreExact`,
`TypeCorrect`, and `MemoLimitsAreExact`, whose invariant says that every key met
is settled or waits on the stack, so that a call ends with all the sub-problems
its request reaches.

*Queries* (QueryProofs; any number of variables, any source and limits, any width
of a byte). `Invariance`: `Spec => []IInv`, in four parts.

* `SnapshotInv`: the roots discovered are distinct inner nodes of the source, and
  the references of a node copied stand for the children of its root.
  `SnapshotsAreExact` follows: when every root discovered has been copied, they are
  closed under children and are all of `NodesOf[source]`.
* `CountingInv`: a count kept is the number of sets of its reference, and is kept only
  with the counts of its children; `bits` are the bits of the families counted
  (`BitPlaces` makes the sum a cardinality); and the counts that a node to be finished
  needs are there or are on the stack above it (`Due`), so that the `expect` calls of
  `from_dag` cannot panic. This gives `IndexIsExact` and `QueryLimitsAreExact`: the bit
  limit fails exactly when a *complete* index needs too many bits, although the code
  stops at the first count that does not fit.
* `SamplingInv`: the sets of the source that come before the branch walked to are as
  many as the rank lost on the way (`IsWalk`), so that at One the place of the sample
  is the rank drawn. `SamplingIsUniform` adds the arithmetic of `uniform_rank`: masked
  byte strings hit each residue below a power of two equally often
  (`Remainders`, `MaskedBytes`), whether the last byte is masked or not.
* `IterationInv`: the sets emitted and the parts the stack still stands for are the
  source, in exclude-first order (`Traversal`, `InOrder`). What the one shared buffer
  held when each stack entry was pushed is not in the code's state; the
  invariant quantifies over it. `TraversalIsExact` follows.

*Edge families* (QueryProofs; any number of edges, any spaces whose maps have an
inverse, any lists of arguments, any number of calls). `EdgeFamiliesImplementCalls`:
`EdgeSpec => Calls!Spec`. The assumptions are `SpacesAssumption`, which is proved of
graph spaces (`SpaceMapsAreInverse`), and `ArgumentsAssumption`: edge ids are numbers
and the solutions of a graph problem are sets of edges.

* `EdgeInvariance`: the lists mapped so far contain known edges only and are their
  variables (`MapsSound`), a call that runs or walks has operands of its own
  space and all of its lists mapped, and the operands and lists its operation needs are
  there (`Suits`). Of a walk, what is left of the list is in the family
  walked to exactly when the whole list is in the family asked (`WalkSound`); this is
  what makes the answers of `WalkMiss` and `WalkHit` right, wherever they come.
* The maps being inverse makes the image of a set of variables determine it
  (`ImageFacts`), so equality, membership, inclusion, size and the four operations are
  the same seen as edges (`FamilyImages`, `DenoteImages`, `KeepsSeen`,
  `ResultSeen`). The lists handed out are ascending in the variables and so follow the
  order of the space (`SolutionIsListing`).
* Each action is then one of EdgeFamilyCalls or leaves what the caller sees unchanged:
  `MapEdges`, `EnterFamily` and `WalkDown` are the steps not seen. Compaction adds
  a space; the families and iterators of the old ones are seen as before
  (`SeenGrows`).

*Construction and import* (CompactionProofs; any universe, limits, argument, map and
destination). `Invariance`: `Spec => []IInv`, one part for each half of the program.

* `FromInv`: the trie has every prefix of its nodes before the node itself, and its terminals
  are exactly the sets inserted so far (`TrieInv`). In the reduction a finished node P stands for the rest of all members
  of the family that start with P, and the node in hand for those that go through
  the children added already (`PartialOf`, `ReduceInv`). The step is that adding the
  greatest child left to such a family is one `make_node`; the children are finished
  because they come after their parent in the trie. This gives
  `BuildsWhatIsAsked`, and the order half of `NodesAreOrdered`.
* `ImportInv`: the references of a node copied are those of the roots discovered
  (`CopyInv`), as in a snapshot. In the rebuild every node that was opened waits on
  the stack, with only nodes of later variables above it, among them those of its
  children that are not built (`StackInv`); so a node comes to be built with
  its children there, which is the other half of `NodesAreOrdered`, and the copies
  are the renamed families (`CopiesAreExact`, which includes that a node shared by
  several families is copied once: the roots discovered are distinct and are exactly
  the nodes of the argument).
* `LimitsAreExact`: what the destination holds is at any time its own nodes and
  nodes of what is to be copied, so a failure at the limit means that these together do
  not fit; the nodes of families that exist fit, so compaction fails only for
  a family of another space. `TypeCorrect` is the type invariant.

The lemmas that queries and imports share — families are finite, the nodes of a family
are a finite set closed under children, what a reference stands for — are in
FamiliesProofs.

*Frontier plan* (FrontierBuilderProofs). For every graph without loops in every edge
order (`FrontierPlanAssumption`, which is what graph spaces are proved to have):

* `PlanInvariance`: `PlanSpec => []IInv`. That slots in use differ is not
  inductive: whether a free slot may be granted depends on who still needs it,
  and that on what the first pass has found out. `IInv` therefore says that
  `first` and `last` are exact for the edges seen (`IncidenceExact`), and that the
  allocator is sound for the vertices that have entered and those still staying
  (`SoundAllocator`): stays that meet have different slots, a slot below `next` is
  free or held, never both, and `active` counts the staying vertices. `EnterSound`
  and `LeaveSound` carry this through one vertex; `PlanActionSound` chains the four calls
  of a step, in which order matters: a leaving vertex meets every staying one only
  because both endpoints have entered. `FullAllocator` (no free slot means as many
  slots as vertices) gives the bound by the working width.
* `SlotsStayApart` and `SlotsAreKept`, by `NeededDuringStay`, which says that the
  stay computed for a vertex is the interval in which the graph needs it.
* `PlanDescribesGraph`: each step has the widths, the entering and leaving
  vertices, their slots and the remaining incidences the graph has at its level
  (`DInv`), and `PlanTypeCorrect`. A build takes these steps first, so its own
  invariant contains `IInv` and `DInv`.

*Frontier builder* (FrontierBuilderProofs; any problem, any graph, any limits, a
token cancelled at any moment). The problem is a constant: nothing is assumed of
its states or callbacks.

* `Invariance`: `Spec => []BuildInv`. While the forward pass runs, every selection
  is followed through the tape: the trail of targets leads it to the state its own
  run of the problem has (`TrailsTellRuns`), or to Reject with it; and every state
  is on some trail (`AllReached`). In the backward pass the root of a state is the
  family of the completions with which the runs through it are accepted
  (`RootsSound`); `CompletionsSplit` and `RowIsCompletions` are the step of the
  reduction. That merging is sound is what makes `TrailsTellRuns` inductive.
* `BuildsWhatRunsAccept`: a build returns exactly the selections whose runs accept;
  it returns a problem's error only if a run fails. `TypeCorrect` includes that no id is beyond the limit
  of states.
* `TokenStopsWork`: wherever the token is set, at most one more branch is tried or node
  created, and the next look is the last. The invariant `TokenInv` says that the unit of
  work let through before is still to come while `passed`, and has been the only one
  otherwise; `BuildInv` is needed for it, since a build that has returned does not look.
* `LayersInv`, `CountersInv` and `StoreInv` say what has been counted at any moment:
  the layers have the states of `Reached`, the problem run without limits, each
  once; every counter is a sum of their widths; the store holds the manager's own nodes
  and the families of the levels and rows reduced. They hold without any
  assumption on the problem.
* The statements about the *graph* need the problem's contract: that it decides
  the property it stands for (`Decides`). Theorems about these have the hypothesis
  `[]RunsDecide`, which says so of the plan the build has made. Under it
  states that are merged have the same completions in the graph (`MergesAreSound`, for a
  problem that is not to be refused),
  limits are exact (`LimitsAreExact`), the counters and the store are those the graph's
  solutions need (`CountersAgree`), and
  every build is one that `BuildCalls` promises (`BuildsImplementCalls`).

*The three problems* (ProblemsProofs; any graph, any edge order). That the
contract is kept: `MatchingsKeepTheContract`, `CyclesKeepTheContract` and
`PathsKeepTheContract` prove `[]RunsDecide` from `SolvesMatchings`, `SolvesCycles` or
`SolvesPaths`, which say only that the builder's operator constants are those of the
problem module. (The run Builder gives them all three, tagged, and the failing problem
beside them, to build over each in one run.)

* A state *shows* the vertices of a frontier at their slots (`Shows`); growing,
  forgetting, truncating and renumbering are shown, one lemma each, to keep what is
  shown of the vertices that stay (`GrowShows`, `ForgetShows`, `TruncateShows`,
  `RenumberShows`). Slots are those of the plan, so its theorems are used here.
* Matchings: the shown bits are the touched vertices (`TellsMatched`).
* Cycles and paths: what is selected so far is a set of open paths. `Strands` says
  so of a selection with a label for each vertex: an edge joins vertices of one label,
  and the edges of a label are connected and an open path. Its two loose ends
  (`TellsCycle`), or at least one of its vertices (`TellsPath`), are in the frontier.
  Canonical renumbering gives the same strands other labels (`Renamed`); equal states
  tell equal partitions because of it.
* A branch is rejected only when nothing is lost, and that is the hard direction: a
  part of a selection with no edge to the rest is all of it if the selection is
  connected (`ClosedPart`). A component that closes, or whose last vertex is
  forgotten, must therefore be the whole selection. For a path, `TellsPath` adds that
  a mask is the set of ends in the component, and that an end has degree at most one.
* `BuiltInBuildsImplementCalls` and `BuiltInBuildsAreExact` put these together with
  the theorems on the builder: for a built-in problem nothing is assumed any more.

*Graph spaces* (SpacesProofs; any list of pairs, any order).
`SimpleGraphsAndPermutations` (`AcceptsExactly`): the edges read so far are always
a simple graph, and are the whole list once it is read; a list is refused only at
a pair that no simple graph with the earlier pairs has; an order reaches the
construction only when it is a permutation of the edges, unless it was validated
for another graph, and is refused only when it is not one. `SpaceMapsAreInverse`
(`MapsInverse`): in a finished space the two maps are inverse and cover every
edge; a proper order ends in a space or at the node limit, and the panic needs a
longer order of another graph. `SearchIsBreadthFirst` (`BreadthFirst`): the list of
the search has every edge once, component by component and, in each, by the distance
from its smallest vertex. The invariant is `SearchInv`: the vertices left, the queue
and the vertices not seen yet follow each other in the order of (root of the
component, distance), and every neighbor of a vertex left is seen. A vertex not seen
is therefore farther than the head of the queue (`Farther`), and the edges emitted
when a vertex is left have its distance. That distances exist, the balls around a
vertex being closed after as many steps as there are vertices, is `BallCloses`.

The three refinements proved (`Refinement`, `BuildsImplementCalls`,
`EdgeFamiliesImplementCalls`) are the safety parts of the properties of the runs, the
specifications of the promises without their fairness.

*What tlapm cannot do here.* Liveness and ENABLED: `ImplementsFamilyCalls`,
`ImplementsBuildCalls` and `ImplementsEdgeFamilyCalls` with their fairness,
`CallReturns`, `CallsReturn`. Induction over a predicate given as an operator: the
proofs use instead a lemma on sets of numbers (`SetInduction`: a set with 0 and
the successors of its members has all numbers), which is enough for what recursive *functions* of
numbers compute — trails, runs, widths, totals. It does not reach folds over sets
nor RECURSIVE operators.

*Model-checked only*: the temporal properties just named, in so far as they say that
something happens, and that the failing problem of MCBuilder keeps its contract.

## 5. Where the documents and the code disagree

* `docs/architecture.md:152` says that evictions of the shared cache change
  neither correctness nor success. Correctness holds (`OutcomesAreExact`), but a
  call that failed at the memo limit can succeed when repeated, since a hit in the
  shared cache is found before the limit is tested (`ApplyRetry`). `docs/api.md`
  section 9.1 describes the code's behaviour.
* `api_types.rs:185` documents `nodes_created` as the nodes created by the
  operation, "including nodes later collected". Two overlapping calls can both report
  one node (`NodeCountingReported`); and when a collection hits a gap (section 2) a
  node can be reported by none. `docs/specification.md` requires statistics of
  use and peak (ZF-RES-002) without saying how exact.
* `docs/specification.md:137` (ZF-ORDER-001) has orders validated as permutations of all
  edges, line 149 has invalid input returned as a `Result`, and line 154 rules out
  panics for reporting it. An `EdgeOrder` is validated against the graph it is made for
  but does not remember it; when a strategy returns one of a graph with more edges,
  `GraphSpaceBuilder::build` panics at `graph_space.rs:220`
  (`GraphSpacesForeign`). One with fewer edges ends as `CapacityOverflow`.
* On `states_limit` the statistic of frontier entries includes the branch that was
  not recorded, for it is counted (`builder.rs:145`) before the limit is compared
  (`:159`); on `transitions_limit` the branch is not counted. `docs/api.md:251` asks
  for the statistics up to just before the failure, which leaves it open. `StatsAgree`
  states what the code does.
* `docs/architecture.md:172` says that writes to one manager are serialised by an
  exclusive closure. `make_node` runs under `with_manager_shared`
  (`support.rs:104`), so insertions overlap; that is what NodeCounting models.
  Line 181 says the same of compaction's destination; `import_dag`, too, takes the
  shared guard (`zdd/import.rs:92`).

## 6. What is not modelled

* Hit, miss and eviction counters: reported, never used. `FamilySpace::stats` reads
  several counters one after another; `docs/api.md:246` promises no common moment,
  so there is nothing to check of the mixture.
* In the builder: graph errors of the plan, which a graph of a graph space never
  raises. The candidate buffer that the code reuses is overwritten before every
  use.
* The checks for more than 2^32 vertices, edges or variables, and the overflows they
  guard: no instance reaches them.
* Whether rejection sampling ends depends on the caller's random generator, of which
  the code assumes nothing.
* A few tests in `cycles.rs` and `paths.rs` (the closing test on other
  components, the degree cap of an endpoint) only reject earlier what a later
  test would reject: they are translated, but no property notices their absence.
* Data types, formatting and error conversions; fuzz drivers, benchmarks, the
  backend evaluation and the differential tools.
* `try_count_u128`, the counting methods of edge families and `visit_solutions`: they
  forward to what is modelled and add no state.

## 7. Plan

Done, in this order: Families, Apply with FamilyCalls and their proofs,
NodeCounting, FrontierPlan and its proofs, FrontierBuilder with the three problems, Filter,
Query, FromSets and Import with Compaction, BuildCalls, GraphSpaces, EdgeFamilies
with EdgeFamilyCalls. Every part of the library that changes state is modelled.

Proved: the operations and their refinement, node counting, filters, queries,
construction and import, the plan, the builder and its refinement, the three problems,
graph spaces, edge families and their refinement.

Every safety invariant and action property of the runs is stated by a theorem, and of
each of the three refinements the safety part is proved. What TLC alone checks is named at the end of
section 4. Should the library come to share a computed cache between filters, or
import in parallel, Filter and Compaction, in which a call is modelled on its own, would need
threads as Apply has them.
