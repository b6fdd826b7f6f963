--------------------------- MODULE FamiliesProofs ---------------------------
(***************************************************************************)
(* The algebra of cofactors that every recursive operation of the library  *)
(* rests on, for any number of variables.                                  *)
(***************************************************************************)
EXTENDS Families, FiniteSetTheorems, SequenceTheorems, WellFoundedInduction, TLAPS

\* Cofactors and nodes of families are families.
LEMMA CofactorTyping ==
  ASSUME NEW F \in Family, NEW v \in Var
  PROVE  /\ Hi(v, F) \in Family
         /\ Lo(v, F) \in Family
         /\ CofactorHi(v, F) \in Family
         /\ CofactorLo(v, F) \in Family
BY DEF Family, Hi, Lo, CofactorHi, CofactorLo, Zero

\* The node of a variable over two families is a family.
LEMMA NodeTyping ==
  ASSUME NEW v \in Var, NEW hi \in Family, NEW lo \in Family
  PROVE  Node(v, hi, lo) \in Family
BY DEF Family, Node

\* The operations are closed on families.
LEMMA DenoteTyping ==
  ASSUME NEW op \in Ops, NEW l \in Family, NEW r \in Family
  PROVE  Denote(op, l, r) \in Family
BY DEF Family, Denote, Ops

\* Induction up to n, on the set S of the numbers the claim holds for.
LEMMA SetInduction ==
  ASSUME NEW S, NEW n \in Nat, 0 \in S, \A i \in Nat : i < n /\ i \in S => i + 1 \in S
  PROVE  0 .. n \subseteq S
<1> DEFINE Bad == {i \in 0 .. n : i \notin S}
<1> SUFFICES ASSUME Bad # {} PROVE FALSE
  OBVIOUS
<1>1. Bad \subseteq Nat
  OBVIOUS
<1>2. PICK b \in Bad : \A i \in Bad : ~ (<<i, b>> \in OpToRel(<, Nat))
  BY <1>1, NatLessThanWellFounded, WFMin, Zenon
<1>3. b \in Nat /\ b # 0 /\ b <= n /\ b \notin S
  <2>1. b \in 0 .. n /\ b \notin S
    BY <1>2
  <2> QED
    BY <2>1
<1>4. b - 1 \in Nat /\ b - 1 < n /\ b - 1 \in 0 .. n /\ (b - 1) + 1 = b
  BY <1>3
<1>5. b - 1 \notin S
  BY <1>3, <1>4
<1>6. b - 1 \in Bad
  BY <1>4, <1>5
<1>7. <<b - 1, b>> \in Nat \X Nat /\ <<b - 1, b>>[1] = b - 1 /\ <<b - 1, b>>[2] = b /\ b - 1 < b
  BY <1>3, <1>4
<1>8. <<b - 1, b>> \in OpToRel(<, Nat)
  BY <1>7, Zenon DEF OpToRel
<1> QED
  BY <1>2, <1>6, <1>8, Zenon

\* A nonempty set of variables has a least one.
LEMMA LeastVariable ==
  ASSUME NEW V \in SUBSET Var, V # {}
  PROVE  \E v \in V : \A w \in V : v <= w
<1>1. V \subseteq Nat
  BY NAssumption DEF Var
<1>2. PICK v \in V : \A w \in V : ~ (<<w, v>> \in OpToRel(<, Nat))
  BY <1>1, NatLessThanWellFounded, WFMin, Zenon
<1>3. \A w \in V : w \in Nat /\ v \in Nat
  BY <1>1
<1>4. \A w \in V : ~ (w < v)
  <2> SUFFICES ASSUME NEW w \in V, w < v PROVE FALSE
    OBVIOUS
  <2>1. <<w, v>> \in Nat \X Nat
    BY <1>3
  <2>2. <<w, v>>[1] = w /\ <<w, v>>[2] = v
    OBVIOUS
  <2>3. <<w, v>> \in OpToRel(<, Nat)
    BY <2>1, <2>2, Zenon DEF OpToRel
  <2> QED
    BY <1>2, <2>3, Zenon
<1> QED
  BY <1>3, <1>4

\* A root that is not a terminal has a branching variable.
LEMMA TopExists ==
  ASSUME NEW F \in Family, F # Zero, F # One
  PROVE  TopVar(F) \in Var /\ IsTop(TopVar(F), F)
<1>1. Support(F) \in SUBSET Var
  BY DEF Support, Family
<1>2. Support(F) # {}
  <2> SUFFICES ASSUME Support(F) = {} PROVE FALSE
    OBVIOUS
  <2>1. \A S \in F : S = {}
    BY DEF Support
  <2> QED
    BY <2>1 DEF Zero, One
<1>3. \E v \in Support(F) : \A w \in Support(F) : v <= w
  BY <1>1, <1>2, LeastVariable
<1> QED
  BY <1>1, <1>3 DEF TopVar, IsTop

\* When v is no greater than the variables of F, the cofactors the code reads
\* off the view are the cofactors of the family, skipped levels included.
LEMMA CofactorsAreExact ==
  ASSUME NEW F \in Family, NEW v \in Var, \A w \in Support(F) : v <= w
  PROVE  CofactorHi(v, F) = Hi(v, F) /\ CofactorLo(v, F) = Lo(v, F)
<1>1. CASE v \in Support(F)
  BY <1>1 DEF CofactorHi, CofactorLo, IsTop
<1>2. CASE v \notin Support(F)
  <2>1. \A S \in F : v \notin S
    BY <1>2 DEF Support
  <2>2. Hi(v, F) = {} /\ Lo(v, F) = F
    BY <2>1 DEF Hi, Lo
  <2> QED
    BY <1>2, <2>2 DEF CofactorHi, CofactorLo, IsTop, Zero
<1> QED
  BY <1>1, <1>2

\* A family is the node of its two cofactors.
LEMMA NodeOfCofactors ==
  ASSUME NEW v, NEW F
  PROVE  F = Node(v, Hi(v, F), Lo(v, F))
<1>1. ASSUME NEW S \in F
      PROVE  S \in Node(v, Hi(v, F), Lo(v, F))
  <2>1. CASE v \in S
    <3>1. S \ {v} \in Hi(v, F)
      BY <2>1 DEF Hi
    <3>2. S = (S \ {v}) \union {v}
      BY <2>1
    <3> QED
      BY <3>1, <3>2 DEF Node
  <2>2. CASE v \notin S
    BY <2>2 DEF Node, Lo
  <2> QED
    BY <2>1, <2>2
<1>2. ASSUME NEW S \in Node(v, Hi(v, F), Lo(v, F))
      PROVE  S \in F
  <2>1. CASE S \in Lo(v, F)
    BY <2>1 DEF Lo
  <2>2. CASE S \in {T \union {v} : T \in Hi(v, F)}
    <3>1. PICK T \in Hi(v, F) : S = T \union {v}
      BY <2>2
    <3>2. PICK U \in F : v \in U /\ T = U \ {v}
      BY <3>1 DEF Hi
    <3>3. S = U
      BY <3>1, <3>2
    <3> QED
      BY <3>2, <3>3
  <2> QED
    BY <1>2, <2>1, <2>2 DEF Node
<1> QED
  BY <1>1, <1>2

\* Membership in the cofactors of a family.
LEMMA HiMembership ==
  ASSUME NEW v, NEW F, NEW T
  PROVE  T \in Hi(v, F) <=> v \notin T /\ T \union {v} \in F
<1>1. ASSUME T \in Hi(v, F)
      PROVE  v \notin T /\ T \union {v} \in F
  <2>1. PICK U \in F : v \in U /\ T = U \ {v}
    BY <1>1 DEF Hi
  <2>2. T \union {v} = U
    BY <2>1
  <2> QED
    BY <2>1, <2>2
<1>2. ASSUME v \notin T, T \union {v} \in F
      PROVE  T \in Hi(v, F)
  <2>1. T = (T \union {v}) \ {v}
    BY <1>2
  <2> QED
    BY <1>2, <2>1 DEF Hi
<1> QED
  BY <1>1, <1>2

\* Both cofactors commute with the four operations.
LEMMA CofactorsCommute ==
  ASSUME NEW op \in Ops, NEW l, NEW r, NEW v
  PROVE  /\ Hi(v, Denote(op, l, r)) = Denote(op, Hi(v, l), Hi(v, r))
         /\ Lo(v, Denote(op, l, r)) = Denote(op, Lo(v, l), Lo(v, r))
<1>1. \A T : T \in Hi(v, Denote(op, l, r)) <=> T \in Denote(op, Hi(v, l), Hi(v, r))
  <2> SUFFICES ASSUME NEW T
               PROVE  T \in Hi(v, Denote(op, l, r)) <=> T \in Denote(op, Hi(v, l), Hi(v, r))
    OBVIOUS
  <2>1. T \in Hi(v, Denote(op, l, r)) <=> v \notin T /\ T \union {v} \in Denote(op, l, r)
    BY HiMembership
  <2>2. /\ T \in Hi(v, l) <=> v \notin T /\ T \union {v} \in l
        /\ T \in Hi(v, r) <=> v \notin T /\ T \union {v} \in r
    BY HiMembership
  <2> QED
    BY <2>1, <2>2 DEF Denote, Ops
<1>2. Lo(v, Denote(op, l, r)) = Denote(op, Lo(v, l), Lo(v, r))
  BY DEF Lo, Denote, Ops
<1> QED
  BY <1>1, <1>2, Zenon

\* The recursion of apply: an operation on two families is the node of the
\* operation on their HI cofactors and on their LO cofactors.
THEOREM ApplyRecursion ==
  ASSUME NEW op \in Ops, NEW l, NEW r, NEW v
  PROVE  Denote(op, l, r) = Node(v, Denote(op, Hi(v, l), Hi(v, r)), Denote(op, Lo(v, l), Lo(v, r)))
BY CofactorsCommute, NodeOfCofactors

----------------------------------------------------------------------------
(* The nodes of a diagram.                                                 *)

\* What remains of a family below a path is a family.
LEMMA BelowTyping ==
  ASSUME NEW F \in Family, NEW k, NEW P
  PROVE  Below(F, k, P) \in Family
BY DEF Below, Family

\* A member of what remains of F below a path is a member of F on that path.
LEMMA BelowMembership ==
  ASSUME NEW F, NEW k, NEW P, NEW S
  PROVE  S \in Below(F, k, P) <=> \E T \in F : T \intersect (0 .. k - 1) = P /\ S = T \ (0 .. k - 1)
BY DEF Below

\* Following one path and then a longer one is following a path, or leads to
\* nothing.
LEMMA BelowBelow ==
  ASSUME NEW F \in Family, NEW k \in 1 .. N, NEW j \in 1 .. N,
         NEW P \in SUBSET (0 .. k - 1), NEW Q \in SUBSET (0 .. j - 1)
  PROVE  \/ Below(Below(F, k, P), j, Q) \in {Zero, Below(F, k, P)}
         \/ Below(Below(F, k, P), j, Q) = Below(F, j, P \union Q) /\ P \union Q \subseteq 0 .. j - 1
<1> DEFINE A == 0 .. k - 1
           B == 0 .. j - 1
           G == Below(F, k, P)
           H == Below(G, j, Q)
<1>1. A \subseteq B \/ B \subseteq A
  BY NAssumption
<1>2. \A S : S \in G <=> \E T \in F : T \intersect A = P /\ S = T \ A
  BY BelowMembership
<1>3. \A S : S \in H <=> \E T \in G : T \intersect B = Q /\ S = T \ B
  BY BelowMembership
<1>4. \A S : S \in Below(F, j, P \union Q) <=> \E T \in F : T \intersect B = P \union Q /\ S = T \ B
  BY BelowMembership
<1>5. P \subseteq A /\ Q \subseteq B
  OBVIOUS
<1>6. CASE B \subseteq A
  <2>1. \A S \in G : S \intersect B = {} /\ S \ B = S
    BY <1>2, <1>6
  <2>2. CASE Q = {}
    <3> HIDE DEF G, H, B
    <3>1. \A S : S \in H <=> S \in G
      <4> TAKE S
      <4>1. S \in G => S \in H
        BY <1>3, <2>1, <2>2
      <4>2. ASSUME S \in H PROVE S \in G
        <5>1. PICK T \in G : S = T \ B
          BY <1>3, <4>2
        <5> QED
          BY <2>1, <5>1
      <4> QED
        BY <4>1, <4>2
    <3>2. H = G
      BY <3>1, Zenon
    <3> QED
      BY <3>2 DEF G, H
  <2>3. CASE Q # {}
    <3>1. H = {}
      BY <1>3, <2>1, <2>3
    <3> QED
      BY <3>1 DEF Zero
  <2> QED
    BY <2>2, <2>3
<1>7. CASE A \subseteq B
  <2>1. CASE Q \intersect A = {}
    <3>1. ASSUME NEW T
          PROVE  /\ (T \ A) \ B = T \ B
                 /\ T \intersect A = P /\ (T \ A) \intersect B = Q <=> T \intersect B = P \union Q
      <4> HIDE DEF A, B
      <4>1. (T \ A) \ B = T \ B
        BY <1>7
      <4>2. ASSUME T \intersect A = P, (T \ A) \intersect B = Q
            PROVE  T \intersect B = P \union Q
        BY <1>5, <1>7, <4>2
      <4>3. ASSUME T \intersect B = P \union Q
            PROVE  T \intersect A = P /\ (T \ A) \intersect B = Q
        BY <1>5, <1>7, <2>1, <4>3
      <4> QED
        BY <4>1, <4>2, <4>3
    <3> HIDE DEF A, B, G, H
    <3>2. ASSUME NEW S, S \in H
          PROVE  S \in Below(F, j, P \union Q)
      <4>1. PICK U \in G : U \intersect B = Q /\ S = U \ B
        BY <1>3, <3>2
      <4>2. PICK T \in F : T \intersect A = P /\ U = T \ A
        BY <1>2, <4>1
      <4>3. T \intersect B = P \union Q /\ S = T \ B
        BY <3>1, <4>1, <4>2
      <4> QED
        BY <1>4, <4>3
    <3>3. ASSUME NEW S, S \in Below(F, j, P \union Q)
          PROVE  S \in H
      <4>1. PICK T \in F : T \intersect B = P \union Q /\ S = T \ B
        BY <1>4, <3>3
      <4>2. T \intersect A = P /\ (T \ A) \intersect B = Q /\ S = (T \ A) \ B
        BY <3>1, <4>1
      <4>3. T \ A \in G
        BY <1>2, <4>2
      <4> QED
        BY <1>3, <4>2, <4>3
    <3>4. H = Below(F, j, P \union Q)
      BY <3>2, <3>3, Zenon
    <3>5. P \union Q \subseteq B
      BY <1>5, <1>7
    <3> QED
      BY <3>4, <3>5 DEF H, G, B
  <2>2. CASE Q \intersect A # {}
    <3>1. \A S \in G : S \intersect A = {}
      BY <1>2
    <3>2. H = {}
      BY <1>3, <1>5, <2>2, <3>1
    <3> QED
      BY <3>2 DEF Zero
  <2> QED
    BY <2>1, <2>2
<1> QED
  BY <1>1, <1>6, <1>7

\* Reading the subdiagrams.
LEMMA SubfamilyMembership ==
  ASSUME NEW F, NEW G
  PROVE  G \in Subfamilies(F) <=>
           G = F \/ \E k \in 1 .. N : \E P \in SUBSET (0 .. k - 1) : G = Below(F, k, P)
BY DEF Subfamilies

\* A subdiagram of a subdiagram is a subdiagram or empty.
LEMMA SubfamilyOfSubfamily ==
  ASSUME NEW F \in Family, NEW G \in Subfamilies(F), NEW H \in Subfamilies(G)
  PROVE  H \in Subfamilies(F) \union {Zero}
<1>1. CASE G = F \/ H = G
  BY <1>1
<1>2. CASE ~(G = F \/ H = G)
  <2>1. PICK k \in 1 .. N : \E P \in SUBSET (0 .. k - 1) : G = Below(F, k, P)
    BY <1>2, SubfamilyMembership
  <2>2. PICK P \in SUBSET (0 .. k - 1) : G = Below(F, k, P)
    BY <2>1
  <2>3. PICK j \in 1 .. N : \E Q \in SUBSET (0 .. j - 1) : H = Below(G, j, Q)
    BY <1>2, SubfamilyMembership
  <2>4. PICK Q \in SUBSET (0 .. j - 1) : H = Below(G, j, Q)
    BY <2>3
  <2>5. H \in {Zero, G} \/ (H = Below(F, j, P \union Q) /\ P \union Q \in SUBSET (0 .. j - 1))
    BY <2>2, <2>4, BelowBelow
  <2>6. ASSUME H = Below(F, j, P \union Q), P \union Q \in SUBSET (0 .. j - 1)
        PROVE  H \in Subfamilies(F)
    BY <2>6, SubfamilyMembership, Zenon
  <2> QED
    BY <1>2, <2>5, <2>6
<1> QED
  BY <1>1, <1>2

\* The nodes of a subdiagram are nodes of the diagram.
LEMMA NodesOfSubfamily ==
  ASSUME NEW F \in Family, NEW G \in Subfamilies(F) \union {Zero}
  PROVE  G \in Family /\ NodesOf[G] \subseteq NodesOf[F]
<1>1. Zero \in Family
  BY DEF Zero, Family
<1>2. G \in Family
  BY <1>1, SubfamilyMembership, BelowTyping
<1>3. CASE G \in Subfamilies(F)
  <2>1. Subfamilies(G) \subseteq Subfamilies(F) \union {Zero}
    BY <1>3, SubfamilyOfSubfamily
  <2> QED
    BY <1>2, <2>1 DEF NodesOf, Terminals
<1>4. CASE G = Zero
  <2>1. \A k, P : Below(Zero, k, P) = Zero
    BY DEF Below, Zero
  <2>2. Subfamilies(Zero) \subseteq {Zero}
    BY <2>1, SubfamilyMembership
  <2> QED
    BY <1>1, <1>2, <1>4, <2>2 DEF NodesOf, Terminals
<1> QED
  BY <1>2, <1>3, <1>4

\* The children the code reads off a node are subdiagrams of it.
LEMMA CofactorsAreSubfamilies ==
  ASSUME NEW F \in Family, NEW v \in Var
  PROVE  /\ CofactorHi(v, F) \in Subfamilies(F) \union {Zero}
         /\ CofactorLo(v, F) \in Subfamilies(F) \union {Zero}
<1>1. CASE ~IsTop(v, F)
  BY <1>1, SubfamilyMembership DEF CofactorHi, CofactorLo
<1>2. CASE IsTop(v, F)
  <2> DEFINE A == 0 .. (v + 1) - 1
  <2>1. v + 1 \in 1 .. N /\ v \in A /\ \A w \in Var : w \in A => w <= v
    BY NAssumption DEF Var
  <2>2. ASSUME NEW T \in F
        PROVE  /\ T \intersect A = {v} <=> v \in T
               /\ T \intersect A = {} <=> v \notin T
               /\ v \in T => T \ A = T \ {v}
               /\ v \notin T => T \ A = T
    <3>1. \A w \in T : w \in Var /\ v <= w
      BY <1>2 DEF IsTop, Support, Family
    <3>2. \A w \in T : w \in A => w = v
      BY <2>1, <3>1 DEF Var
    <3> HIDE DEF A
    <3> QED
      BY <2>1, <3>2
  <2>3. \A S : S \in Below(F, v + 1, {v}) <=> \E T \in F : T \intersect A = {v} /\ S = T \ A
    BY BelowMembership
  <2>4. \A S : S \in Below(F, v + 1, {}) <=> \E T \in F : T \intersect A = {} /\ S = T \ A
    BY BelowMembership
  <2>5. {v} \in SUBSET A /\ {} \in SUBSET A
    BY <2>1
  <2> HIDE DEF A
  <2>6. Hi(v, F) = Below(F, v + 1, {v})
    <3>1. \A S : S \in Hi(v, F) <=> \E T \in F : v \in T /\ S = T \ {v}
      BY DEF Hi
    <3>2. \A S : S \in Hi(v, F) <=> S \in Below(F, v + 1, {v})
      <4> TAKE S
      <4>1. ASSUME S \in Hi(v, F) PROVE S \in Below(F, v + 1, {v})
        <5>1. PICK T \in F : v \in T /\ S = T \ {v}
          BY <3>1, <4>1
        <5>2. T \intersect A = {v} /\ S = T \ A
          BY <2>2, <5>1
        <5> QED
          BY <2>3, <5>2
      <4>2. ASSUME S \in Below(F, v + 1, {v}) PROVE S \in Hi(v, F)
        BY <2>2, <2>3, <3>1, <4>2
      <4> QED
        BY <4>1, <4>2
    <3> QED
      BY <3>2, Zenon
  <2>7. Lo(v, F) = Below(F, v + 1, {})
    <3>1. \A S : S \in Lo(v, F) <=> S \in Below(F, v + 1, {})
      <4> TAKE S
      <4>1. S \in Lo(v, F) <=> S \in F /\ v \notin S
        BY DEF Lo
      <4>2. ASSUME S \in F, v \notin S PROVE S \in Below(F, v + 1, {})
        BY <2>2, <2>4, <4>2
      <4>3. ASSUME S \in Below(F, v + 1, {}) PROVE S \in F /\ v \notin S
        <5>1. PICK T \in F : T \intersect A = {} /\ S = T \ A
          BY <2>4, <4>3
        <5> QED
          BY <2>2, <5>1
      <4> QED
        BY <4>1, <4>2, <4>3
    <3> QED
      BY <3>1, Zenon
  <2>8. Hi(v, F) \in Subfamilies(F) /\ Lo(v, F) \in Subfamilies(F)
    BY <2>1, <2>5, <2>6, <2>7, SubfamilyMembership DEF A
  <2> QED
    BY <1>2, <2>8 DEF CofactorHi, CofactorLo
<1> QED
  BY <1>1, <1>2

\* The nodes of a node over two diagrams of later variables.
LEMMA NodesOfNode ==
  ASSUME NEW v \in Var, NEW hi \in Family, NEW lo \in Family,
         \A w \in Support(hi) \union Support(lo) : v < w
  PROVE  NodesOf[Node(v, hi, lo)] \subseteq {Node(v, hi, lo)} \union NodesOf[hi] \union NodesOf[lo]
<1> DEFINE F == Node(v, hi, lo)
<1>1. F \in Family
  BY NodeTyping
<1>2. SUFFICES ASSUME NEW k \in 1 .. N, NEW P \in SUBSET (0 .. k - 1)
               PROVE  \/ Below(F, k, P) \in {Zero, F}
                      \/ Below(F, k, P) \in Subfamilies(hi)
                      \/ Below(F, k, P) \in Subfamilies(lo)
  <2>1. \A G \in Subfamilies(F) : G \in {Zero, F} \/ G \in Subfamilies(hi) \/ G \in Subfamilies(lo)
    BY <1>2, SubfamilyMembership
  <2> HIDE DEF F
  <2> QED
    BY <1>1, <2>1 DEF NodesOf, Terminals, F
<1> DEFINE A == 0 .. k - 1
<1>3. \A S : S \in Below(F, k, P) <=> \E T \in F : T \intersect A = P /\ S = T \ A
  BY BelowMembership
<1>4. \A T : T \in F <=> T \in lo \/ \E S \in hi : T = S \union {v}
  BY DEF Node
<1>5. \A S \in hi \union lo : v \notin S /\ \A w \in S : w \in Var /\ v < w
  BY DEF Support, Family, Var
<1>6. CASE v \notin A
  <2>1. \A w \in Var : v <= w => w \notin A
    BY <1>6, NAssumption DEF Var
  <2>2. \A T \in F : \A w \in T : w \notin A
    BY <1>4, <1>5, <1>6, <2>1 DEF Var
  <2>3. \A T \in F : T \intersect A = {} /\ T \ A = T
    BY <2>2
  <2> HIDE DEF A, F
  <2>4. CASE P = {}
    <3>1. \A S : S \in Below(F, k, P) <=> S \in F
      <4> TAKE S
      <4>1. S \in F => S \in Below(F, k, P)
        BY <1>3, <2>3, <2>4
      <4>2. ASSUME S \in Below(F, k, P) PROVE S \in F
        <5>1. PICK T \in F : S = T \ A
          BY <1>3, <4>2
        <5> QED
          BY <2>3, <5>1
      <4> QED
        BY <4>1, <4>2
    <3>2. Below(F, k, P) = F
      BY <3>1, Zenon
    <3> QED
      BY <3>2 DEF F
  <2>5. CASE P # {}
    <3>1. \A S : S \notin Below(F, k, P)
      BY <1>3, <2>3, <2>5
    <3>2. Below(F, k, P) = {}
      BY <3>1, Zenon
    <3> QED
      BY <3>2 DEF Zero
  <2> QED
    BY <2>4, <2>5
<1>7. CASE v \in A /\ v \in P
  <2>1. \A S : S \in Below(hi, k, P \ {v}) <=> \E T \in hi : T \intersect A = P \ {v} /\ S = T \ A
    BY BelowMembership
  <2>2. \A T \in hi : /\ T \intersect A = P \ {v} <=> (T \union {v}) \intersect A = P
                      /\ (T \union {v}) \ A = T \ A
    <3> HIDE DEF A
    <3> QED
      BY <1>5, <1>7
  <2>3. \A T \in F : T \intersect A = P => \E S \in hi : T = S \union {v}
    BY <1>4, <1>5, <1>7
  <2>4. P \ {v} \in SUBSET A
    OBVIOUS
  <2> HIDE DEF A, F
  <2>5. \A S : S \in Below(F, k, P) <=> S \in Below(hi, k, P \ {v})
    <3> TAKE S
    <3>1. ASSUME S \in Below(F, k, P) PROVE S \in Below(hi, k, P \ {v})
      <4>1. PICK T \in F : T \intersect A = P /\ S = T \ A
        BY <1>3, <3>1
      <4>2. PICK U \in hi : T = U \union {v}
        BY <2>3, <4>1
      <4>3. (U \union {v}) \intersect A = P /\ S = (U \union {v}) \ A
        BY ONLY <4>1, <4>2
      <4>4. U \intersect A = P \ {v} /\ S = U \ A
        BY <2>2, <4>2, <4>3
      <4> QED
        BY <2>1, <4>2, <4>4
    <3>2. ASSUME S \in Below(hi, k, P \ {v}) PROVE S \in Below(F, k, P)
      <4>1. PICK U \in hi : U \intersect A = P \ {v} /\ S = U \ A
        BY <2>1, <3>2
      <4>2. U \union {v} \in F
        BY <1>4
      <4> QED
        BY <1>3, <2>2, <4>1, <4>2
    <3> QED
      BY <3>1, <3>2
  <2>6. Below(F, k, P) = Below(hi, k, P \ {v})
    BY <2>5, Zenon
  <2> QED
    BY <2>4, <2>6, SubfamilyMembership DEF A, F
<1>8. CASE v \in A /\ v \notin P
  <2>1. \A S : S \in Below(lo, k, P) <=> \E T \in lo : T \intersect A = P /\ S = T \ A
    BY BelowMembership
  <2>2. \A T \in F : T \intersect A = P => T \in lo
    BY <1>4, <1>8
  <2> HIDE DEF A, F
  <2>3. \A S : S \in Below(F, k, P) <=> S \in Below(lo, k, P)
    BY <1>3, <1>4, <2>1, <2>2
  <2>4. Below(F, k, P) = Below(lo, k, P)
    BY <2>3, Zenon
  <2> QED
    BY <2>4, SubfamilyMembership DEF A, F
<1> QED
  BY <1>6, <1>7, <1>8

\* There are finitely many families, each with finitely many members.
LEMMA FamiliesFinite ==
  IsFiniteSet(Family) /\ \A F \in Family : IsFiniteSet(F) /\ Cardinality(F) \in Nat
<1>1. IsFiniteSet(Var)
  BY NAssumption, FS_Interval DEF Var
<1>2. IsFiniteSet(SUBSET Var)
  BY <1>1, FS_SUBSET
<1>3. IsFiniteSet(SUBSET SUBSET Var)
  BY <1>2, FS_SUBSET
<1>4. \A F \in Family : IsFiniteSet(F)
  BY <1>2, FS_Subset DEF Family
<1> QED
  BY <1>3, <1>4, FS_CardinalityType DEF Family

\* A root that is not a terminal is the node of its variable over its two
\* children, whose variables come later; its HI child is not empty.
LEMMA Branching ==
  ASSUME NEW F \in Family, F \notin Terminals
  PROVE  /\ TopVar(F) \in Var
         /\ Hi(TopVar(F), F) \in Family /\ Hi(TopVar(F), F) # Zero
         /\ Lo(TopVar(F), F) \in Family
         /\ F = Node(TopVar(F), Hi(TopVar(F), F), Lo(TopVar(F), F))
         /\ \A w \in Support(F) : TopVar(F) <= w
         /\ \A w \in Support(Hi(TopVar(F), F)) \union Support(Lo(TopVar(F), F)) :
              w \in Support(F) /\ TopVar(F) < w
<1> DEFINE v == TopVar(F)
<1>1. v \in Var /\ IsTop(v, F)
  BY TopExists DEF Terminals
<1> HIDE DEF v
<1>2. Hi(v, F) \in Family /\ Lo(v, F) \in Family
  BY <1>1, CofactorTyping
<1>3. Hi(v, F) # Zero
  BY <1>1 DEF IsTop, Support, Hi, Zero
<1>4. F = Node(v, Hi(v, F), Lo(v, F))
  BY NodeOfCofactors
<1>5. \A w \in Support(F) : v <= w /\ w \in Int
  BY <1>1, NAssumption DEF IsTop, Support, Family, Var
<1>6. \A w \in Support(Hi(v, F)) \union Support(Lo(v, F)) : w \in Support(F) /\ w # v
  BY DEF Support, Hi, Lo
<1>7. v \in Int
  BY <1>1, NAssumption DEF Var
<1> QED
  BY <1>1, <1>2, <1>3, <1>4, <1>5, <1>6, <1>7 DEF v

\* The diagrams of the terminals have no nodes.
LEMMA TerminalNodes ==
  Zero \in Family /\ One \in Family /\ NodesOf[Zero] = {} /\ NodesOf[One] = {}
<1>1. Zero \in Family /\ One \in Family
  BY DEF Zero, One, Family
<1>2. \A k \in 1 .. N : \A P \in SUBSET (0 .. k - 1) : Below(Zero, k, P) = Zero
  BY DEF Below, Zero
<1>3. \A k \in 1 .. N : \A P \in SUBSET (0 .. k - 1) : Below(One, k, P) \in Terminals
  BY DEF Below, Zero, One, Terminals
<1>4. \A G \in Subfamilies(Zero) : G \in Terminals
  BY <1>2, SubfamilyMembership DEF Terminals
<1>5. \A G \in Subfamilies(One) : G \in Terminals
  BY <1>3, SubfamilyMembership DEF Terminals
<1> QED
  BY <1>1, <1>4, <1>5 DEF NodesOf

\* The nodes of a diagram are roots of subdiagrams, and so are their children
\* that are no terminals.
LEMMA ChildrenAreNodes ==
  ASSUME NEW F \in Family, NEW G \in NodesOf[F]
  PROVE  /\ G \in Family /\ G \notin Terminals
         /\ Hi(TopVar(G), G) \in Terminals \union NodesOf[F]
         /\ Lo(TopVar(G), G) \in Terminals \union NodesOf[F]
<1>1. G \in Subfamilies(F) /\ G \notin Terminals
  BY DEF NodesOf
<1>2. G \in Family
  BY <1>1, NodesOfSubfamily
<1>3. TopVar(G) \in Var /\ \A w \in Support(G) : TopVar(G) <= w
  BY <1>1, <1>2, Branching
<1>4. /\ Hi(TopVar(G), G) \in Subfamilies(G) \union {Zero}
      /\ Lo(TopVar(G), G) \in Subfamilies(G) \union {Zero}
  BY <1>2, <1>3, CofactorsAreSubfamilies, CofactorsAreExact
<1>5. ASSUME NEW H \in Subfamilies(G) \union {Zero}
      PROVE  H \in Terminals \union NodesOf[F]
  <2>1. H \in Subfamilies(F) \union {Zero}
    BY <1>1, <1>5, SubfamilyOfSubfamily
  <2> QED
    BY <2>1 DEF NodesOf, Terminals
<1> QED
  BY <1>1, <1>2, <1>4, <1>5

\* A root that is no terminal is a node of its own diagram.
LEMMA RootIsNode ==
  ASSUME NEW F \in Family
  PROVE  F \in Terminals \union NodesOf[F]
BY DEF NodesOf, Subfamilies

\* C has the children of its members.
Closed(C) ==
  \A G \in C \ Terminals : Hi(TopVar(G), G) \in C \union Terminals /\ Lo(TopVar(G), G) \in C \union Terminals

\* A set of roots that is closed under children has all nodes of the diagrams of
\* its members.
LEMMA ClosedHasNodes ==
  ASSUME NEW C \in SUBSET Family, Closed(C), NEW F \in C \union Terminals
  PROVE  NodesOf[F] \subseteq C
<1> DEFINE Good == {d \in 0 .. N : \A G \in C \union Terminals :
                      (\A w \in Support(G) : N - d <= w) => NodesOf[G] \subseteq C}
<1>1. \A G \in C \union Terminals : G \in Family
  BY TerminalNodes DEF Terminals
<1>2. 0 \in Good
  <2> SUFFICES ASSUME NEW G \in C \union Terminals, \A w \in Support(G) : N - 0 <= w
               PROVE  NodesOf[G] \subseteq C
    BY NAssumption
  <2>1. G \in Terminals
    <3> SUFFICES ASSUME G \notin Terminals PROVE FALSE
      OBVIOUS
    <3>1. TopVar(G) \in Var /\ TopVar(G) \in Support(G)
      BY <1>1, TopExists DEF Terminals, IsTop
    <3> QED
      BY <3>1, NAssumption DEF Var
  <2> QED
    BY <2>1, TerminalNodes DEF Terminals
<1>3. ASSUME NEW d \in Nat, d < N, d \in Good
      PROVE  d + 1 \in Good
  <2>1. d + 1 \in 0 .. N
    BY <1>3, NAssumption
  <2> SUFFICES ASSUME NEW G \in C \union Terminals, \A w \in Support(G) : N - (d + 1) <= w
               PROVE  NodesOf[G] \subseteq C
    BY <2>1
  <2>2. CASE G \in Terminals
    BY <2>2, TerminalNodes DEF Terminals
  <2>3. CASE G \notin Terminals
    <3> DEFINE v == TopVar(G)
               hi == Hi(v, G)
               lo == Lo(v, G)
    <3>1. /\ v \in Var /\ v \in Support(G)
          /\ hi \in Family /\ lo \in Family /\ G = Node(v, hi, lo)
          /\ \A w \in Support(hi) \union Support(lo) : v < w
      BY <1>1, <2>3, Branching, TopExists DEF Terminals, IsTop
    <3>2. hi \in C \union Terminals /\ lo \in C \union Terminals
      BY <2>3 DEF Closed
    <3> HIDE DEF v, hi, lo
    <3>3. N - (d + 1) <= v
      BY <3>1
    <3>4. \A w \in Support(hi) \union Support(lo) : N - d <= w
      <4> SUFFICES ASSUME NEW w \in Support(hi) \union Support(lo) PROVE N - d <= w
        OBVIOUS
      <4>1. w \in Int /\ v \in Int /\ v < w
        BY <3>1, NAssumption DEF Support, Family, Var
      <4> QED
        BY <3>3, <4>1, <1>3, NAssumption
    <3>5. NodesOf[hi] \subseteq C /\ NodesOf[lo] \subseteq C
      BY <1>3, <3>2, <3>4
    <3>6. NodesOf[G] \subseteq {G} \union NodesOf[hi] \union NodesOf[lo]
      BY <3>1, NodesOfNode
    <3> QED
      BY <2>3, <3>5, <3>6
  <2> QED
    BY <2>2, <2>3
<1> HIDE DEF Good
<1>4. 0 .. N \subseteq Good
  BY <1>2, <1>3, NAssumption, SetInduction
<1>5. N \in Good
  BY <1>4, NAssumption
<1>6. \A w \in Support(F) : N - N <= w
  BY <1>1, NAssumption DEF Support, Family, Var
<1> QED
  BY <1>5, <1>6 DEF Good

\* A diagram has finitely many nodes.
LEMMA NodesFinite ==
  ASSUME NEW F \in Family
  PROVE  IsFiniteSet(NodesOf[F]) /\ Cardinality(NodesOf[F]) \in Nat /\ NodesOf[F] \subseteq Family
<1>1. NodesOf[F] \subseteq Family
  BY ChildrenAreNodes
<1> QED
  BY <1>1, FamiliesFinite, FS_Subset, FS_CardinalityType

----------------------------------------------------------------------------
(* Lists of roots, and the references that stand for them.                 *)

\* The family a reference into the list q of roots stands for.
FamilyAt(r, q) == IF r = 0 THEN Zero ELSE IF r = 1 THEN One ELSE q[r - 1]

\* The terminals and the members of a list.
Listed(q) == Terminals \union {q[i] : i \in DOMAIN q}

Distinct(q) == \A i, j \in DOMAIN q : q[i] = q[j] => i = j

\* The node is that of the root F, its references are into q.
IsNodeOf(node, F, q) ==
  /\ node.variable = TopVar(F)
  /\ node.hi \in 0 .. Len(q) + 1 /\ FamilyAt(node.hi, q) = Hi(TopVar(F), F)
  /\ node.lo \in 0 .. Len(q) + 1 /\ FamilyAt(node.lo, q) = Lo(TopVar(F), F)

\* A reference stands for the same when the list grows.
LEMMA ReferencesStay ==
  ASSUME NEW q, NEW p, Len(q) \in Nat, Len(p) \in Nat, Len(q) <= Len(p),
         \A i \in 1 .. Len(q) : p[i] = q[i],
         NEW r \in 0 .. Len(q) + 1
  PROVE  r \in 0 .. Len(p) + 1 /\ FamilyAt(r, p) = FamilyAt(r, q)
<1>1. r \in 0 .. Len(p) + 1
  OBVIOUS
<1>2. r # 0 /\ r # 1 => r - 1 \in 1 .. Len(q)
  OBVIOUS
<1> QED
  BY <1>1, <1>2 DEF FamilyAt

\* What a reference stands for is a terminal or in the list.
LEMMA FamilyAtRange ==
  ASSUME NEW S, NEW q \in Seq(S), NEW r \in 0 .. Len(q) + 1
  PROVE  FamilyAt(r, q) \in Listed(q)
<1>1. Len(q) \in Nat /\ DOMAIN q = 1 .. Len(q)
  BY LenProperties
<1>2. r # 0 /\ r # 1 => r - 1 \in 1 .. Len(q)
  BY <1>1
<1> QED
  BY <1>1, <1>2 DEF FamilyAt, Terminals, Listed

\* A list of different members of a finite set is as long as it has members,
\* and not longer than the set.
LEMMA DistinctLength ==
  ASSUME NEW S, IsFiniteSet(S), NEW q \in Seq(S), Distinct(q)
  PROVE  /\ Len(q) <= Cardinality(S)
         /\ S \subseteq {q[i] : i \in DOMAIN q} => Len(q) = Cardinality(S)
<1>1. Len(q) \in Nat /\ DOMAIN q = 1 .. Len(q) /\ q \in [1 .. Len(q) -> S]
  BY LenProperties
<1>2. q \in Injection(1 .. Len(q), S)
  BY <1>1 DEF Injection, IsInjective, Distinct
<1>3. Cardinality(1 .. Len(q)) = Len(q)
  BY <1>1, FS_Interval
<1>4. Len(q) <= Cardinality(S) /\ (Len(q) = Cardinality(S) <=> q \in Surjection(1 .. Len(q), S))
  BY <1>2, <1>3, FS_Injection
<1>5. S \subseteq {q[i] : i \in DOMAIN q} => q \in Surjection(1 .. Len(q), S)
  BY <1>1 DEF Surjection
<1> QED
  BY <1>4, <1>5
=============================================================================
