--------------------------- MODULE MCNodeCounting ---------------------------
(***************************************************************************)
(* Instances of NodeCounting for TLC.                                      *)
(***************************************************************************)
EXTENDS NodeCounting, TLC

Symmetry == Permutations(Thread)
=============================================================================
