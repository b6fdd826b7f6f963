---------------------------- MODULE MCGraphSpaces ----------------------------
(***************************************************************************)
(* Instances of GraphSpaces for TLC.                                       *)
(***************************************************************************)
EXTENDS GraphSpaces

CONSTANT MaxEdges    \* bound of the model: edges of a graph

\* Six edges on five vertices, with cycles of three, four and five edges, as a
\* program may write them.
Drawn == {<<0, 1>>, <<2, 0>>, <<3, 4>>, <<1, 2>>, <<3, 1>>, <<2, 4>>}

\* A loop, repetitions in either orientation and a vertex that does not exist.
Pairs == Drawn \union {<<1, 1>>, <<1, 0>>, <<0, V>>}

\* Short lists of any pairs, and every order of five good ones: only
\* there does the search meet vertices out of the order of their distance.
SmallInputs ==
  BoundedSeq(Pairs, MaxEdges)
    \union {q \in [1 .. 5 -> Drawn] : \A i, j \in DOMAIN q : i # j => q[i] # q[j]}

Numbers == 0 .. 2

\* Lists for graphs of up to two edges, complete or not.
SmallListings == BoundedSeq(Numbers, 2)

\* All orders of all graphs with at most three edges.
SmallForeign == {q \in BoundedSeq(Numbers, 3) : IsOrder(q)}
=============================================================================
