------------------------------ MODULE Families ------------------------------
(***************************************************************************)
(* The algebra a ZDD root stands for.                                      *)
(*                                                                         *)
(* Diagrams are canonical: inside one manager a root edge and the family   *)
(* of sets it denotes determine each other, and Root's Eq and Hash compare *)
(* edges.  A root is therefore modelled by its family, a subset of SUBSET  *)
(* Var, and its node by what can be read from it: the branching variable   *)
(* is the least variable of the family, its two children are the           *)
(* cofactors.  Nodes are built by Node, which applies the zero-suppression *)
(* rule (a HI child that is the empty family creates no node).             *)
(***************************************************************************)
EXTENDS Integers, FiniteSets

CONSTANT N        \* number of variables of the universe

ASSUME NAssumption == N \in Nat

Var == 0 .. N - 1

Family == SUBSET SUBSET Var

Zero == {}
One == {{}}

Terminals == {Zero, One}

----------------------------------------------------------------------------
(* Reading a root (ZddManager::view): the variable and the two children.   *)

\* The variables that occur in a member of F.
Support(F) == UNION F

IsTop(v, F) == v \in Support(F) /\ \A w \in Support(F) : v <= w

TopVar(F) == CHOOSE v \in Support(F) : \A w \in Support(F) : v <= w

Hi(v, F) == {S \ {v} : S \in {T \in F : v \in T}}

Lo(v, F) == {S \in F : v \notin S}

\* ZddManager::cofactors_at: the children when the root branches on v, and
\* (zero, root itself) when v is skipped by the root.
CofactorHi(v, F) == IF IsTop(v, F) THEN Hi(v, F) ELSE Zero
CofactorLo(v, F) == IF IsTop(v, F) THEN Lo(v, F) ELSE F

\* The node (v, hi, lo); equal to lo when hi is the empty family.
Node(v, hi, lo) == lo \union {S \union {v} : S \in hi}

----------------------------------------------------------------------------
(* The nodes of a diagram.  Below(F, k, P) is what remains of F once the   *)
(* variables under k are decided to be exactly P: following that path from *)
(* the root reaches the subdiagram of this family, and every inner node of *)
(* the diagram is reached in this way.                                     *)

Below(F, k, P) == {S \ (0 .. k - 1) : S \in {T \in F : T \intersect (0 .. k - 1) = P}}

Subfamilies(F) == {F} \union UNION {{Below(F, k, P) : P \in SUBSET (0 .. k - 1)} : k \in 1 .. N}

NodesOf == [F \in Family |-> Subfamilies(F) \ Terminals]

\* The inner nodes of the diagrams of a set of roots.
Nodes(roots) == UNION {NodesOf[F] : F \in roots}

----------------------------------------------------------------------------
(* The four operations of apply and what each denotes.                     *)

Ops == {"union", "intersection", "difference", "symmetric_difference"}

Denote(op, l, r) ==
  CASE op = "union"                -> l \union r
    [] op = "intersection"         -> l \intersect r
    [] op = "difference"           -> l \ r
    [] op = "symmetric_difference" -> (l \ r) \union (r \ l)

----------------------------------------------------------------------------
(* The nodes the manager itself owns (construction.rs, ZddManager::new):   *)
(* one singleton per variable and the chain of the power set.              *)

Singleton(v) == {{v}}

Powerset == SUBSET Var

ManagerRoots == {Singleton(v) : v \in Var} \union {Powerset}
=============================================================================
