---------------------------- MODULE MCEdgeFamilies ----------------------------
(***************************************************************************)
(* Instances of EdgeFamilies for TLC: the triangle, with two spaces.       *)
(***************************************************************************)
EXTENDS EdgeFamilies, TLC

Order(a, b, c) == (0 :> a) @@ (1 :> b) @@ (2 :> c)

\* A rotation, whose inverse is another map, beside another order and itself.
TwoSpaces == {<<Order(1, 2, 0), Order(0, 2, 1)>>, <<Order(1, 2, 0), Order(1, 2, 0)>>}

\* Lists in any order, with repetitions, and with an unknown edge.
SomeLists == {<< >>, <<1>>, <<2, 1>>, <<0, 1, 0>>, <<2, 0, 1>>, <<1, N>>}

SomeSetLists == {<<<<2>>, <<1, 0>>, <<2>>>>, <<<<0, 1>>, <<2, 1, 2>>, << >>>>, <<<<0>>, <<N>>>>}

\* The matchings and the paths between two vertices of the triangle.
TriangleSolutions == {{{}, {0}, {1}, {2}}, {{0}, {1, 2}}}

SomeRanges == {<<1, 1>>, <<2, N + 1>>}
=============================================================================
