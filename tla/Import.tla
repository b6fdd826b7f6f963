------------------------------- MODULE Import -------------------------------
(***************************************************************************)
(* FamilySpace::import and compact: the variable map is checked, the DAG   *)
(* below the families is copied out of their space (transfer_snapshot),    *)
(* and rebuilt bottom up in another one (import_dag).                      *)
(*                                                                         *)
(* The references of a DAG are 0 for the empty family, 1 for the unit      *)
(* family and i + 1 for the i-th node.                                     *)
(***************************************************************************)
EXTENDS Families, SequencesExt

VARIABLES
  families,      \* the families to copy, all of one space
  variable_map,  \* per source variable: its destination
  destination,   \* record: number of variables, max_live_nodes, families it holds
  passage,       \* "idle", "copy", "build" or "returned"
  roots,         \* transfer_snapshot: the discovered roots, in order
  nodes,         \* the nodes copied so far
  copies,        \* import_dag, built: the copy of each node, or {} before
  state,         \* per node: 0 unseen, 1 waiting for its children, 2 built
  work,          \* stack of references, its top first
  target,        \* live inner nodes of the destination
  copied,        \* nodes_created
  imported       \* how the call ended: kind and copies

request_vars == <<families, variable_map, destination>>
dag == <<roots, nodes>>
build_vars == <<copies, state, work, target, copied>>
import_vars == <<request_vars, passage, dag, build_vars, imported>>

Unanswered == [kind |-> "none", copies |-> << >>]

ImportInit ==
  /\ families = << >>
  /\ variable_map = << >>
  /\ destination = [variables |-> N, capacity |-> 0, holds |-> {}]
  /\ passage = "idle"
  /\ roots = << >>
  /\ nodes = << >>
  /\ copies = << >>
  /\ state = << >>
  /\ work = << >>
  /\ target = Nodes(ManagerRoots)
  /\ copied = 0
  /\ imported = Unanswered

ImportReturns(kind, result) ==
  passage' = "returned" /\ imported' = [kind |-> kind, copies |-> result]

----------------------------------------------------------------------------
(* validate_variable_map: the errors in the order they are looked for.     *)

BadEntry(m, d, i) == m[i] >= d \/ \E j \in 1 .. i - 1 : m[j] = m[i]

\* Mutant: the order of the variables is not looked at.
MapErrorUnordered(m, d) ==
  LET bad == {i \in DOMAIN m : BadEntry(m, d, i)}
  IN CASE d # N -> {"universe_size"}
       [] d = N /\ Len(m) # N -> {"map_length"}
       [] d = N /\ Len(m) = N /\ bad # {} ->
            {IF m[Min(bad)] >= d THEN "invalid_variable" ELSE "duplicate_variable"}
       [] OTHER -> {}

\* The error of a map into d variables, an option.
MapError(m, d) ==
  LET bad == {i \in DOMAIN m : BadEntry(m, d, i)}
  IN CASE d # N -> {"universe_size"}
       [] d = N /\ Len(m) # N -> {"map_length"}
       [] d = N /\ Len(m) = N /\ bad # {} ->
            {IF m[Min(bad)] >= d THEN "invalid_variable" ELSE "duplicate_variable"}
       [] d = N /\ Len(m) = N /\ bad = {} /\ (\E i \in 1 .. N - 1 : m[i] >= m[i + 1]) ->
            {"order_mismatch"}
       [] OTHER -> {}

Call(argument, m, d) ==
  /\ passage = "idle"
  /\ families' = argument
  /\ variable_map' = m
  /\ destination' = d

\* The map is refused, or there is nothing to copy.
ImportNothing(argument, m, d) ==
  /\ Call(argument, m, d)
  /\ \/ \E kind \in MapError(m, d.variables) : ImportReturns(kind, << >>)
     \/ MapError(m, d.variables) = {} /\ argument = << >> /\ ImportReturns("ok", << >>)
  /\ UNCHANGED <<dag, build_vars>>

----------------------------------------------------------------------------
(* transfer_snapshot: breadth first from all families at once.             *)

\* Mutant: terminals are numbered.
DiscoverTerminals(q, F) == IF F \in Range(q) THEN q ELSE Append(q, F)

\* `reference`: a root that is no terminal and not known gets the next number.
Discover(q, F) == IF F \in Terminals \union Range(q) THEN q ELSE Append(q, F)

\* All families, in order.
DiscoverAll(argument) ==
  LET found[i \in 0 .. Len(argument)] ==
        IF i = 0 THEN << >> ELSE Discover(found[i - 1], argument[i])
  IN found[Len(argument)]

Index(F, q) == CHOOSE i \in DOMAIN q : q[i] = F

\* The child of a node, or a family, as a reference into the queue q.
Reference(F, q) == IF F = Zero THEN 0 ELSE IF F = One THEN 1 ELSE Index(F, q) + 1

StartImport(argument, m, d) ==
  /\ Call(argument, m, d)
  /\ MapError(m, d.variables) = {} /\ argument # << >>
  /\ passage' = "copy"
  /\ roots' = DiscoverAll(argument)
  /\ target' = Nodes(ManagerRoots \union d.holds)
  /\ UNCHANGED <<nodes, copies, state, work, copied, imported>>

CopyNode ==
  /\ passage = "copy" /\ Len(nodes) < Len(roots)
  /\ LET F == roots[Len(nodes) + 1]
         v == TopVar(F)
     IN /\ roots' = Discover(Discover(roots, Hi(v, F)), Lo(v, F))
        /\ nodes' = Append(nodes, [variable |-> v,
                                   hi |-> Reference(Hi(v, F), roots'),
                                   lo |-> Reference(Lo(v, F), roots')])
  /\ UNCHANGED <<request_vars, passage, build_vars, imported>>

RootReferences == [i \in DOMAIN families |-> Reference(families[i], roots)]

\* The stack starts with the families, the last one on top.
Copied ==
  /\ passage = "copy" /\ Len(nodes) = Len(roots)
  /\ passage' = "build"
  /\ copies' = [i \in DOMAIN nodes |-> {}]
  /\ state' = [i \in DOMAIN nodes |-> 0]
  /\ work' = Reverse(RootReferences)
  /\ UNCHANGED <<request_vars, dag, target, copied, imported>>

----------------------------------------------------------------------------
(* import_dag.                                                             *)

Top == Head(work)
TopNode == nodes[Top - 1]

\* Mutant: terminals are expected to be built.
NeedsNothingUnlessBuilt(reference) == reference >= 2 /\ state[reference - 1] = 2

\* A terminal, or a node that was built below another parent meanwhile.
NeedsNothing(reference) == reference >= 2 => state[reference - 1] = 2

SkipReference ==
  /\ passage = "build" /\ work # << >>
  /\ NeedsNothing(Top)
  /\ work' = Tail(work)
  /\ UNCHANGED <<request_vars, passage, dag, copies, state, target, copied, imported>>

AtNode(s) == passage = "build" /\ work # << >> /\ Top >= 2 /\ state[Top - 1] = s

Unseen(reference) ==
  IF reference >= 2 /\ state[reference - 1] = 0 THEN <<reference>> ELSE << >>

\* Mutant: the node comes up before its children.
OpenNodeFirst ==
  /\ AtNode(0)
  /\ state' = [state EXCEPT ![Top - 1] = 1]
  /\ work' = <<Top>> \o Unseen(TopNode.hi) \o Unseen(TopNode.lo) \o Tail(work)
  /\ UNCHANGED <<request_vars, passage, dag, copies, target, copied, imported>>

\* The node waits below its children that were not seen yet, HI on top.
OpenNode ==
  /\ AtNode(0)
  /\ state' = [state EXCEPT ![Top - 1] = 1]
  /\ work' = Unseen(TopNode.hi) \o Unseen(TopNode.lo) \o work
  /\ UNCHANGED <<request_vars, passage, dag, copies, target, copied, imported>>

\* The copies of a child, an option.
CopyOf(reference) ==
  IF reference = 0 THEN {Zero} ELSE IF reference = 1 THEN {One} ELSE copies[reference - 1]

Mapped(variable) == variable_map[variable + 1]

\* The copy of the node on top, and whether the destination has it already.
Rebuilt == {Node(Mapped(TopNode.variable), hi, lo) : hi \in CopyOf(TopNode.hi), lo \in CopyOf(TopNode.lo)}

Found(F) == F \in target \/ CopyOf(TopNode.hi) = {Zero}

DestinationFull ==
  /\ AtNode(1)
  /\ \E F \in Rebuilt : ~Found(F) /\ Cardinality(target) >= destination.capacity
  /\ ImportReturns("node_limit", << >>)
  /\ UNCHANGED <<request_vars, dag, build_vars>>

BuildNode ==
  /\ AtNode(1)
  /\ \E F \in Rebuilt :
       /\ Found(F) \/ Cardinality(target) < destination.capacity
       /\ target' = IF Found(F) THEN target ELSE target \union {F}
       /\ copied' = IF Found(F) THEN copied ELSE copied + 1
       /\ copies' = [copies EXCEPT ![Top - 1] = {F}]
  /\ state' = [state EXCEPT ![Top - 1] = 2]
  /\ work' = Tail(work)
  /\ UNCHANGED <<request_vars, passage, dag, imported>>

FinishImport ==
  /\ passage = "build" /\ work = << >>
  /\ \E result \in [DOMAIN families -> UNION {CopyOf(RootReferences[i]) : i \in DOMAIN families}] :
       /\ \A i \in DOMAIN families : CopyOf(RootReferences[i]) = {result[i]}
       /\ ImportReturns("ok", result)
  /\ UNCHANGED <<request_vars, dag, build_vars>>

ImportStep ==
  \/ CopyNode
  \/ Copied
  \/ SkipReference
  \/ OpenNode
  \/ BuildNode
  \/ DestinationFull
  \/ FinishImport
=============================================================================
