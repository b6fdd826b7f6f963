----------------------------- MODULE Compaction -----------------------------
(***************************************************************************)
(* A program that builds families from explicit sets in one space and then *)
(* copies all of them into another one: FamilySpace::compact, whose        *)
(* destination is a fresh space with the same limits and the identity map, *)
(* or FamilySpace::import, with any map and destination.                   *)
(***************************************************************************)
EXTENDS FromSets, Import

CONSTANTS
  Arguments,     \* per call of from_sets, the arguments the program may pass
  Maps,          \* variable maps the program may pass to import
  Destinations   \* spaces the program may import into

ASSUME CompactionAssumption ==
  /\ Arguments \in Seq(SUBSET SUBSET SUBSET (0 .. N))
  /\ Maps \subseteq Seq(Nat)
  /\ Destinations \subseteq [variables : Nat, capacity : Nat, holds : SUBSET Family]

VARIABLES
  calls,    \* calls of from_sets so far
  held,     \* the families the program got
  asked     \* the sets it asked for, for each of them

vars == <<fromsets_vars, import_vars, calls, held, asked>>

Init ==
  /\ FromSetsInit
  /\ ImportInit
  /\ calls = 0
  /\ held = << >>
  /\ asked = << >>

Idle == stage = "idle" /\ passage = "idle"

Construct ==
  /\ Idle /\ calls < Len(Arguments)
  /\ \E argument \in Arguments[calls + 1] : RefuseSets(argument) \/ CallFromSets(argument)
  /\ calls' = calls + 1
  /\ UNCHANGED <<import_vars, held, asked>>

\* A family that was built is kept by the program.
Constructing ==
  /\ FromSetsStep
  /\ IF stage' = "idle" /\ built_from'.kind = "ok"
     THEN held' = Append(held, built_from'.value) /\ asked' = Append(asked, sets)
     ELSE UNCHANGED <<held, asked>>
  /\ UNCHANGED <<import_vars, calls>>

Identity == [i \in 1 .. N |-> i - 1]

Fresh == [variables |-> N, capacity |-> Capacity, holds |-> {}]

Compact ==
  /\ Idle
  /\ ImportNothing(held, Identity, Fresh) \/ StartImport(held, Identity, Fresh)
  /\ UNCHANGED <<fromsets_vars, calls, held, asked>>

\* ensure_owns_all: a family of another space is among them.
CompactForeign ==
  /\ Idle
  /\ ImportReturns("context_mismatch", << >>)
  /\ UNCHANGED <<request_vars, dag, build_vars, fromsets_vars, calls, held, asked>>

ImportElsewhere ==
  /\ Idle
  /\ \E m \in Maps, d \in Destinations : ImportNothing(held, m, d) \/ StartImport(held, m, d)
  /\ UNCHANGED <<fromsets_vars, calls, held, asked>>

Importing ==
  /\ ImportStep
  /\ UNCHANGED <<fromsets_vars, calls, held, asked>>

Work == Constructing \/ Importing

Next == Construct \/ Compact \/ CompactForeign \/ ImportElsewhere \/ Work

Spec == Init /\ [][Next]_vars

\* A call runs on its caller's thread until it returns.
FairSpec == Spec /\ WF_vars(Work)

----------------------------------------------------------------------------
(* Properties.                                                             *)

Answers == {"none", "ok", "invalid_element", "node_limit"}

\* The variables keep their types.
TypeOK ==
  /\ sets \subseteq SUBSET (0 .. N) /\ waiting \subseteq SUBSET Var
  /\ stage \in {"idle", "trie", "reduce"}
  /\ trie \in Seq(SUBSET Var) /\ terminals \subseteq Range(trie)
  /\ siblings \subseteq Var /\ edge \in Family
  /\ \A P \in DOMAIN built : P \in Range(trie) /\ built[P] \in Family
  /\ store \subseteq Family \ Terminals /\ target \subseteq Family \ Terminals
  /\ built_from \in [kind : Answers, value : Family]
  /\ passage \in {"idle", "copy", "build", "returned"}
  /\ roots \in Seq(Family \ Terminals)
  /\ nodes \in Seq([variable : Var, hi : Nat, lo : Nat])
  /\ \A i \in DOMAIN copies : copies[i] \subseteq Family
  /\ \A i \in DOMAIN state : state[i] \in 0 .. 2
  /\ work \in Seq(Nat) /\ {before, created, copied, calls} \subseteq Nat
  /\ held \in Seq(Family)

\* from_sets returns the family of exactly the given sets, and refuses exactly
\* the arguments with an element outside the space.
FamiliesAsAsked ==
  /\ held = asked
  /\ stage = "idle" /\ calls > 0 =>
       (built_from.kind = "invalid_element" <=> ~(UNION sets \subseteq Var))

\* Every child is above all nodes below it: the backend is never handed a node
\* whose LO or HI branch starts at the node's own variable or before it, which
\* it does not check.  The `expect` calls find the children built.
ChildrenBelow ==
  /\ stage = "reduce" /\ siblings # {} =>
       /\ ChildPrefix \in DOMAIN built
       /\ \A w \in Support(edge) \union Support(built[ChildPrefix]) : NextVariable < w
  /\ AtNode(1) =>
       /\ Rebuilt # {}
       /\ \A F \in CopyOf(TopNode.hi) \union CopyOf(TopNode.lo) :
            \A w \in Support(F) : Mapped(TopNode.variable) < w

\* No node is built that the result does not need: a call of from_sets, or an
\* import, fails with the node limit exactly when what the space holds and the
\* nodes of the result together exceed it, and the reported creations are the
\* nodes added.  So compaction fails only for a foreign family: what was built
\* within the limits of one space fits within the same limits again.
NodeLimitsExact ==
  /\ created = Cardinality(store) - before
  /\ built_from.kind = "node_limit" =>
       Cardinality(store \union NodesOf[sets]) > Capacity
  /\ built_from.kind = "ok" => NodesOf[sets] \subseteq store /\ Cardinality(store) <= Capacity
  /\ imported.kind = "node_limit" =>
       Cardinality(Nodes(ManagerRoots \union destination.holds \union Range(held))) > destination.capacity
  /\ imported.kind = "ok" /\ held # << >> =>
       target = Nodes(ManagerRoots \union destination.holds \union Range(held))
  /\ destination = Fresh /\ variable_map = Identity => imported.kind \in {"none", "ok", "context_mismatch"}

\* An accepted map preserves what the sets mean: it is a bijection that keeps
\* the order, as import's doc demands, and each copy is its family with the
\* variables renamed, in the order of the arguments.  A node that several
\* families share is transferred once, as compact's doc says of sharing.
ImportExact ==
  LET Renamed(F) == {{variable_map[v + 1] : v \in S} : S \in F}
  IN /\ imported.kind = "ok" =>
          /\ variable_map \in [1 .. N -> Var]
          /\ \A u, v \in Var : u < v => variable_map[u + 1] < variable_map[v + 1]
          /\ imported.copies = [i \in DOMAIN held |-> Renamed(held[i])]
     /\ passage = "build" => Len(nodes) = Cardinality(Nodes(Range(held)))

\* Every call returns.
CallsReturn == []<>(stage = "idle" /\ passage \in {"idle", "returned"})
=============================================================================
