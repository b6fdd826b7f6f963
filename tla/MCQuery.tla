------------------------------ MODULE MCQuery ------------------------------
(***************************************************************************)
(* Instances of Query for TLC: every family of the universe, with no node  *)
(* allowed, with limits some families exceed, and with none that matters.  *)
(***************************************************************************)
EXTENDS Query

AllFamilies == Family

SomeLimits ==
  {[nodes |-> 0, bits |-> 40], [nodes |-> 3, bits |-> 40], [nodes |-> 8, bits |-> 6], [nodes |-> 8, bits |-> 40]}
=============================================================================
