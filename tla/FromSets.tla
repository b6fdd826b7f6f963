------------------------------ MODULE FromSets ------------------------------
(***************************************************************************)
(* FamilySpace::from_sets and ZddManager::build_from_sets: a family is     *)
(* built from explicit sets.  The sets are sorted and deduplicated, put    *)
(* into a trie, and the trie is reduced from its last node to its first.   *)
(*                                                                         *)
(* The argument is modelled by the set of sets it denotes, since order and *)
(* duplicates are normalised away first.  A trie node is named by its      *)
(* prefix, the elements on the path to it.                                 *)
(***************************************************************************)
EXTENDS Families, SequencesExt

CONSTANT Capacity    \* Limits::max_live_nodes

\* FamilySpaceBuilder::build refuses a limit below the manager's own nodes.
ASSUME FromSetsAssumption == Capacity \in Nat /\ 2 * N <= Capacity

VARIABLES
  sets,       \* the argument; an element N or above is no variable of the space
  stage,      \* "idle", "trie" or "reduce"
  waiting,    \* normalized sets that are not in the trie yet
  trie,       \* the trie nodes by index, each as its prefix
  terminals,  \* prefixes whose node is marked terminal
  node_index, \* the trie node being reduced
  siblings,   \* variables of its children that are still to be added
  edge,       \* what is built of it
  built,      \* roots: finished trie nodes, a partial function of prefixes
  store,      \* live inner nodes of the space
  before,     \* nodes_before
  created,    \* nodes_created
  built_from  \* how the last call ended

trie_vars == <<waiting, trie, terminals>>
reduce_vars == <<node_index, siblings, edge, built>>
fromsets_vars == <<sets, stage, trie_vars, reduce_vars, store, before, created, built_from>>

NoAnswer == [kind |-> "none", value |-> Zero]

NothingBuilt == [P \in {} |-> Zero]

FromSetsInit ==
  /\ sets = {}
  /\ stage = "idle"
  /\ waiting = {} /\ trie = << >> /\ terminals = {}
  /\ node_index = 1 /\ siblings = {} /\ edge = Zero /\ built = NothingBuilt
  /\ store = Nodes(ManagerRoots)
  /\ before = Cardinality(Nodes(ManagerRoots))
  /\ created = 0
  /\ built_from = NoAnswer

\* The call returns and drops its trie and its roots.
Answer(kind, value) ==
  /\ stage' = "idle"
  /\ waiting' = {} /\ trie' = << >> /\ terminals' = {}
  /\ node_index' = 1 /\ siblings' = {} /\ edge' = Zero /\ built' = NothingBuilt
  /\ built_from' = [kind |-> kind, value |-> value]

\* A call with an element outside the space is refused, any other starts with
\* the root of the trie.
RefuseSets(argument) ==
  /\ stage = "idle"
  /\ ~(UNION argument \subseteq Var)
  /\ sets' = argument
  /\ Answer("invalid_element", Zero)
  /\ UNCHANGED <<store, before, created>>

CallFromSets(argument) ==
  /\ stage = "idle"
  /\ UNION argument \subseteq Var
  /\ sets' = argument
  /\ stage' = "trie"
  /\ waiting' = argument
  /\ trie' = <<{}>>
  /\ terminals' = {}
  /\ before' = Cardinality(store)
  /\ created' = 0
  /\ built_from' = NoAnswer
  /\ UNCHANGED <<reduce_vars, store>>

\* The order of the sorted vectors: of two sets the one that ends, or has the
\* lesser element, where they part.
Earlier(S, T) ==
  LET parting == Min((S \ T) \union (T \ S))
  IN IF parting \in S THEN \E e \in T : e > parting ELSE \A e \in S : e < parting

\* A step down the trie appends the child that is not there.
Descend(q, P) == IF P \in Range(q) THEN q ELSE Append(q, P)

\* The trie q with the path of S, which passes the nodes of its prefixes.
WithPath(q, S) ==
  LET path[k \in 0 .. N] == IF k = 0 THEN q ELSE Descend(path[k - 1], {e \in S : e < k})
  IN path[N]

\* The last node of the path of a set is terminal.
InsertSet ==
  /\ stage = "trie"
  /\ \E S \in waiting :
       /\ \A T \in waiting \ {S} : Earlier(S, T)
       /\ waiting' = waiting \ {S}
       /\ trie' = WithPath(trie, S)
       /\ terminals' = terminals \union {S}
  /\ UNCHANGED <<sets, stage, reduce_vars, store, before, created, built_from>>

ChildVariables(P) == {v \in Var : (\A e \in P : e < v) /\ P \union {v} \in Range(trie)}

\* Mutant: only a leaf ends a set.
ReduceLeaves(i) ==
  /\ node_index' = i
  /\ siblings' = ChildVariables(trie[i])
  /\ edge' = IF ChildVariables(trie[i]) = {} /\ trie[i] \in terminals THEN One ELSE Zero

\* A trie node starts from its terminal flag.
Reduce(i) ==
  /\ node_index' = i
  /\ siblings' = ChildVariables(trie[i])
  /\ edge' = IF trie[i] \in terminals THEN One ELSE Zero

StartReduce ==
  /\ stage = "trie" /\ waiting = {}
  /\ stage' = "reduce"
  /\ built' = NothingBuilt
  /\ Reduce(Len(trie))
  /\ UNCHANGED <<sets, trie_vars, store, before, created, built_from>>

Prefix == trie[node_index]

\* The children are added from the last to the first.
NextVariable == Max(siblings)

ChildPrefix == Prefix \union {NextVariable}

Adding == stage = "reduce" /\ siblings # {} /\ ChildPrefix \in DOMAIN built

Joined == Node(NextVariable, built[ChildPrefix], edge)

\* make_node finds the node, or has room for it.
IsThere == built[ChildPrefix] = Zero \/ Joined \in store

AddChild ==
  /\ Adding
  /\ IsThere \/ Cardinality(store) < Capacity
  /\ store' = IF IsThere THEN store ELSE store \union {Joined}
  /\ created' = IF IsThere THEN created ELSE created + 1
  /\ edge' = Joined
  /\ siblings' = siblings \ {NextVariable}
  /\ UNCHANGED <<sets, stage, trie_vars, node_index, built, before, built_from>>

\* Mutant: the last node that fits is refused.
SpaceFullEarly ==
  /\ Adding /\ ~IsThere
  /\ Cardinality(store) + 1 >= Capacity
  /\ Answer("node_limit", Zero)
  /\ UNCHANGED <<sets, store, before, created>>

SpaceFull ==
  /\ Adding /\ ~IsThere
  /\ Cardinality(store) >= Capacity
  /\ Answer("node_limit", Zero)
  /\ UNCHANGED <<sets, store, before, created>>

CloseNode ==
  /\ stage = "reduce" /\ siblings = {} /\ node_index > 1
  /\ built' = [P \in DOMAIN built \union {Prefix} |-> IF P = Prefix THEN edge ELSE built[P]]
  /\ Reduce(node_index - 1)
  /\ UNCHANGED <<sets, stage, trie_vars, store, before, created, built_from>>

CloseRoot ==
  /\ stage = "reduce" /\ siblings = {} /\ node_index = 1
  /\ Answer("ok", edge)
  /\ UNCHANGED <<sets, store, before, created>>

FromSetsStep ==
  \/ InsertSet
  \/ StartReduce
  \/ AddChild
  \/ SpaceFull
  \/ CloseNode
  \/ CloseRoot
=============================================================================
