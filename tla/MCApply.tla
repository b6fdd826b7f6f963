------------------------------ MODULE MCApply ------------------------------
(***************************************************************************)
(* Instances of Apply for TLC.                                             *)
(***************************************************************************)
EXTENDS Apply, FiniteSetsExt

\* A numbering of the families gives one total order of the roots.
SetCode(S) == MapThenSumSet(LAMBDA v : 2 ^ v, S)
Code == [F \in Family |-> MapThenSumSet(LAMBDA S : 2 ^ SetCode(S), F)]
CodeLess(F, G) == Code[F] < Code[G]

\* Every family of the universe: each pair of operands is tried.
AllFamilies == Family

\* Two families over three variables whose diagrams share no node, and the two
\* constant families; their combinations need several levels and new nodes.
Left == {{0}, {0, 1}, {1, 2}}
Right == {{0, 2}, {1}, {}}
PairSeeds == {Left, Right}
DropLeft == {Left}
=============================================================================
