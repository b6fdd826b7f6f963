------------------------------ MODULE MCFilter ------------------------------
(***************************************************************************)
(* Instances of Filter for TLC: every family of the universe and every     *)
(* request with arguments up to one beyond the universe.                   *)
(***************************************************************************)
EXTENDS Filter

AllFamilies == Family

SmallRequests ==
  {r \in [kind : {"contains", "excludes", "subsets", "supersets", "at_most", "at_least", "between"},
          elements : SUBSET (0 .. N), lower : 0 .. N + 1, upper : 0 .. N + 1] :
     r \in Request}
=============================================================================
