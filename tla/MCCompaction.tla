---------------------------- MODULE MCCompaction ----------------------------
(***************************************************************************)
(* Instances of Compaction for TLC.                                        *)
(***************************************************************************)
EXTENDS Compaction

\* First any family of the space or one that is not of it, then one of four.
SmallArguments ==
  <<Family \union {{{0}, {N}}}, {{}, {{0, 1}, {1, 2}}, {{0}, {2}, {0, 1, 2}}, {{1, 2}, {2}, {}}}>>

\* Every map of the right length with entries up to one beyond the space, and
\* maps of the wrong length.
AllMaps == [1 .. N -> 0 .. N] \union {<< >>, [i \in 1 .. N - 1 |-> i - 1], [i \in 1 .. N + 1 |-> i - 1]}

OwnNodes == Cardinality(Nodes(ManagerRoots))

\* An empty space with just enough nodes for some families, a used one, and one
\* of another size.
SomeDestinations ==
  {[variables |-> N, capacity |-> OwnNodes + 3, holds |-> {}],
   [variables |-> N, capacity |-> OwnNodes + 6, holds |-> {{{0, 1}, {2}, {0, 2}}}],
   [variables |-> N + 1, capacity |-> 100, holds |-> {}]}
=============================================================================
