--------------------------- MODULE CompactionProofs ---------------------------
(***************************************************************************)
(* What from_sets builds and what import and compact copy is exact, for    *)
(* every universe, limit, argument, map and destination.                   *)
(*                                                                         *)
(* A trie node stands for the members of the family that start with its    *)
(* prefix (PartialOf): the reduction keeps for each finished node exactly  *)
(* that, and for the one in hand what goes through the children that were  *)
(* added.  The rebuild of an import keeps on its stack, below each node    *)
(* that waits, only the nodes it waits for (StackInv), so a node comes up  *)
(* with its children copied.                                               *)
(***************************************************************************)
EXTENDS Compaction, FamiliesProofs

----------------------------------------------------------------------------
(* Sets by their prefixes.                                                 *)

\* P is what S has up to some variable.
Extends(S, P) == P \subseteq S /\ \A e \in P, f \in S \ P : e < f

\* What the trie node P stands for in a family when its children W are still to
\* be added: the rest of every member that ends here or goes on after W.
PartialOf(F, P, W) ==
  {S \ P : S \in {T \in F : Extends(T, P) /\ \A w \in W, e \in T \ P : w < e}}

\* The variables of the children of P in the trie q.
ChildrenIn(q, P) == {v \in Var : (\A e \in P : e < v) /\ P \union {v} \in Range(q)}

\* A trie has every prefix of its nodes, before the node.
IsTrie(q) ==
  /\ q \in Seq(SUBSET Var) /\ Distinct(q) /\ q # << >> /\ q[1] = {}
  /\ \A i \in DOMAIN q : \A k \in 0 .. N : \E j \in 1 .. i : q[j] = {e \in q[i] : e < k}

\* Variables are integers.
LEMMA VariablesAreIntegers ==
  \A v \in Var : v \in Int /\ v \in Nat /\ v >= 0 /\ v < N /\ v + 1 \in 0 .. N /\ v + 1 \in 1 .. N
BY NAssumption DEF Var

\* A nonempty set of variables has a greatest one.
LEMMA GreatestVariable ==
  ASSUME NEW V \in SUBSET Var, V # {}
  PROVE  Max(V) \in V /\ \A w \in V : w <= Max(V)
<1> DEFINE Mirror == {(N - 1) - v : v \in V}
<1>1. \A v \in V : v \in Int /\ (N - 1) - v \in Var
  BY NAssumption DEF Var
<1>2. Mirror \in SUBSET Var /\ Mirror # {}
  BY <1>1
<1>3. PICK m \in Mirror : \A w \in Mirror : m <= w
  BY <1>2, LeastVariable
<1>4. PICK v \in V : m = (N - 1) - v
  BY <1>3
<1>5. \A w \in V : v >= w
  <2> SUFFICES ASSUME NEW w \in V PROVE v >= w
    OBVIOUS
  <2>1. (N - 1) - v <= (N - 1) - w
    BY <1>3, <1>4
  <2> QED
    BY <1>1, <2>1, NAssumption
<1>6. Max(V) \in V /\ \A w \in V : Max(V) >= w
  BY <1>5 DEF Max
<1> QED
  BY <1>1, <1>6

\* A member of the trie that goes on after P has the child with its next
\* variable, and extends that child.
LEMMA NextChild ==
  ASSUME NEW q, IsTrie(q), NEW T \in Range(q), NEW P, Extends(T, P), T # P
  PROVE  \E m \in ChildrenIn(q, P) : /\ m \in T \ P
                                     /\ \A e \in T \ P : m <= e
                                     /\ Extends(T, P \union {m})
<1>1. PICK i \in DOMAIN q : T = q[i]
  BY DEF Range
<1>2. T \in SUBSET Var
  BY <1>1, ElementOfSeq, LenProperties DEF IsTrie
<1>3. T \ P \in SUBSET Var /\ T \ P # {} /\ P \subseteq T
  BY <1>2 DEF Extends
<1>4. PICK m \in T \ P : \A e \in T \ P : m <= e
  BY <1>3, LeastVariable
<1>5. m \in Var /\ m + 1 \in 0 .. N /\ \A e \in T : e \in Int
  BY <1>2, VariablesAreIntegers
<1>6. \A e \in P : e < m
  BY <1>4 DEF Extends
<1>7. \A e \in T : e < m + 1 <=> e \in P \union {m}
  <2> SUFFICES ASSUME NEW e \in T PROVE e < m + 1 <=> e \in P \union {m}
    OBVIOUS
  <2>1. e \in Int /\ m \in Int
    BY <1>5, VariablesAreIntegers
  <2>2. CASE e \in P
    BY <1>6, <2>1, <2>2
  <2>3. CASE e \notin P
    <3>1. m <= e
      BY <1>4, <2>3
    <3> QED
      BY <2>1, <2>3, <3>1
  <2> QED
    BY <2>2, <2>3
<1>8. {e \in T : e < m + 1} = P \union {m}
  BY <1>3, <1>4, <1>7
<1>9. PICK j \in 1 .. i : q[j] = {e \in q[i] : e < m + 1}
  BY <1>5 DEF IsTrie
<1>10. j \in DOMAIN q
  <2>1. DOMAIN q = 1 .. Len(q) /\ Len(q) \in Nat
    BY LenProperties DEF IsTrie
  <2> QED
    BY <2>1
<1>11. P \union {m} \in Range(q)
  BY <1>1, <1>8, <1>9, <1>10 DEF Range
<1>12. m \in ChildrenIn(q, P)
  BY <1>5, <1>6, <1>11 DEF ChildrenIn
<1>13. Extends(T, P \union {m})
  <2> SUFFICES ASSUME NEW e \in P \union {m}, NEW f \in T \ (P \union {m}) PROVE e < f
    BY <1>3, <1>4 DEF Extends
  <2>1. CASE e \in P
    BY <2>1 DEF Extends
  <2>2. CASE e = m
    <3>1. m <= f /\ m # f /\ m \in Int /\ f \in Int
      BY <1>4, <1>5, VariablesAreIntegers
    <3> QED
      BY <2>2, <3>1
  <2> QED
    BY <2>1, <2>2
<1> QED
  BY <1>4, <1>12, <1>13

\* Reading what a node stands for.
LEMMA PartialMembership ==
  ASSUME NEW F, NEW P, NEW W, NEW S
  PROVE  S \in PartialOf(F, P, W) <=>
           \E T \in F : Extends(T, P) /\ (\A w \in W, e \in T \ P : w < e) /\ S = T \ P
BY DEF PartialOf

\* It is a family, and its variables come after those that are still to be added.
LEMMA PartialTyping ==
  ASSUME NEW F \in Family, NEW P, NEW W
  PROVE  /\ PartialOf(F, P, W) \in Family
         /\ \A w \in W, e \in Support(PartialOf(F, P, W)) : w < e
<1>1. PartialOf(F, P, W) \in Family
  BY DEF PartialOf, Family
<1>2. ASSUME NEW w \in W, NEW e \in Support(PartialOf(F, P, W))
      PROVE  w < e
  <2>1. PICK S \in PartialOf(F, P, W) : e \in S
    BY <1>2 DEF Support
  <2>2. PICK T \in F : (\A u \in W, f \in T \ P : u < f) /\ S = T \ P
    BY <2>1, PartialMembership
  <2> QED
    BY <2>1, <2>2
<1> QED
  BY <1>1, <1>2

\* A child of P stands for sets of later variables.
LEMMA ChildAbove ==
  ASSUME NEW F, NEW P, NEW v, NEW e \in Support(PartialOf(F, P \union {v}, {}))
  PROVE  v < e
<1>1. PICK S \in PartialOf(F, P \union {v}, {}) : e \in S
  BY DEF Support
<1>2. PICK T \in F : Extends(T, P \union {v}) /\ S = T \ (P \union {v})
  BY <1>1, PartialMembership
<1> QED
  BY <1>1, <1>2 DEF Extends

\* Before any child is added a node stands for the end of P alone.
LEMMA PartialStart ==
  ASSUME NEW q, IsTrie(q), NEW F, F \subseteq Range(q), NEW P
  PROVE  PartialOf(F, P, ChildrenIn(q, P)) = IF P \in F THEN One ELSE Zero
<1> DEFINE W == ChildrenIn(q, P)
<1>1. \A w \in W : w \in Int
  BY VariablesAreIntegers DEF ChildrenIn
<1>2. ASSUME NEW T \in F, Extends(T, P), \A w \in W, e \in T \ P : w < e
      PROVE  T = P
  <2> SUFFICES ASSUME T # P PROVE FALSE
    OBVIOUS
  <2>1. PICK m \in W : m \in T \ P
    BY <1>2, NextChild
  <2>2. m < m /\ m \in Int
    BY <1>1, <1>2, <2>1
  <2> QED
    BY <2>2
<1>3. Extends(P, P) /\ P \ P = {}
  BY DEF Extends
<1>4. \A S : S \in PartialOf(F, P, W) <=> P \in F /\ S = {}
  <2> TAKE S
  <2>1. ASSUME S \in PartialOf(F, P, W) PROVE P \in F /\ S = {}
    <3>1. PICK T \in F : Extends(T, P) /\ (\A w \in W, e \in T \ P : w < e) /\ S = T \ P
      BY <2>1, PartialMembership
    <3> QED
      BY <1>2, <3>1
  <2>2. ASSUME P \in F, S = {} PROVE S \in PartialOf(F, P, W)
    BY <1>3, <2>2, PartialMembership
  <2> QED
    BY <2>1, <2>2
<1>5. \A S : S \in (IF P \in F THEN One ELSE Zero) <=> P \in F /\ S = {}
  BY DEF One, Zero
<1> HIDE DEF W
<1>6. PartialOf(F, P, W) = IF P \in F THEN One ELSE Zero
  BY <1>4, <1>5, Zenon
<1> QED
  BY <1>6 DEF W

\* The greatest child that is still to be added makes the next node.
LEMMA PartialStep ==
  ASSUME NEW q, IsTrie(q), NEW F, F \subseteq Range(q), F \in Family, NEW P,
         NEW W \in SUBSET ChildrenIn(q, P), NEW v \in W,
         \A w \in W : w <= v,
         \A c \in ChildrenIn(q, P) \ W : v < c
  PROVE  PartialOf(F, P, W \ {v}) = Node(v, PartialOf(F, P \union {v}, {}), PartialOf(F, P, W))
<1> DEFINE hi == PartialOf(F, P \union {v}, {})
           lo == PartialOf(F, P, W)
<1>1. v \in Int /\ (\A w \in W : w \in Int) /\ (\A e \in P : e < v) /\ v \notin P
  <2>1. v \in Var /\ (\A w \in W : w \in Var) /\ \A e \in P : e < v
    BY DEF ChildrenIn
  <2>2. v \in Int /\ \A w \in W : w \in Int
    BY <2>1, VariablesAreIntegers
  <2> QED
    BY <2>1, <2>2
<1>2. \A T \in F : \A e \in T : e \in Int
  BY VariablesAreIntegers DEF Family
<1>3. ASSUME NEW S \in PartialOf(F, P, W \ {v})
      PROVE  S \in Node(v, hi, lo)
  <2>1. PICK T \in F : Extends(T, P) /\ (\A w \in W \ {v}, e \in T \ P : w < e) /\ S = T \ P
    BY <1>3, PartialMembership
  <2>2. CASE \A e \in T \ P : v < e
    <3>1. S \in lo
      BY <2>1, <2>2, PartialMembership
    <3> QED
      BY <3>1 DEF Node
  <2>3. CASE \E e \in T \ P : ~(v < e)
    <3>1. PICK e \in T \ P : ~(v < e)
      BY <2>3
    <3>2. PICK m \in ChildrenIn(q, P) : /\ m \in T \ P
                                        /\ \A f \in T \ P : m <= f
                                        /\ Extends(T, P \union {m})
      BY <2>1, <3>1, NextChild
    <3>3. m \in Int /\ e \in Int /\ m <= e
      BY <1>2, <3>1, <3>2
    <3>4. ~(v < m) /\ ~(m < m)
      BY <1>1, <3>1, <3>3
    <3>5. m = v
      BY <2>1, <3>2, <3>4
    <3>6. T \ (P \union {v}) \in hi
      BY <3>2, <3>5, PartialMembership
    <3>7. S = (T \ (P \union {v})) \union {v}
      BY <2>1, <3>2, <3>5
    <3> QED
      BY <3>6, <3>7 DEF Node
  <2> QED
    BY <2>2, <2>3
<1>4. ASSUME NEW S \in lo
      PROVE  S \in PartialOf(F, P, W \ {v})
  <2>1. PICK T \in F : Extends(T, P) /\ (\A w \in W, e \in T \ P : w < e) /\ S = T \ P
    BY <1>4, PartialMembership
  <2>2. \A w \in W \ {v}, e \in T \ P : w < e
    BY <2>1
  <2> QED
    BY <2>1, <2>2, PartialMembership
<1>5. ASSUME NEW S \in hi
      PROVE  S \union {v} \in PartialOf(F, P, W \ {v})
  <2>1. PICK T \in F : Extends(T, P \union {v}) /\ S = T \ (P \union {v})
    BY <1>5, PartialMembership
  <2>2. P \subseteq T /\ v \in T /\ \A f \in T \ (P \union {v}) : v < f /\ \A e \in P : e < f
    BY <2>1 DEF Extends
  <2>3. Extends(T, P)
    <3> SUFFICES ASSUME NEW e \in P, NEW f \in T \ P PROVE e < f
      BY <2>2 DEF Extends
    <3> QED
      BY <1>1, <2>2
  <2>4. ASSUME NEW w \in W \ {v}, NEW e \in T \ P
        PROVE  w < e
    <3>1. w \in Int /\ e \in Int /\ w <= v /\ w # v
      BY <1>1, <1>2
    <3>2. e = v \/ v < e
      BY <2>2
    <3> QED
      BY <1>1, <3>1, <3>2
  <2>5. S \union {v} = T \ P
    BY <1>1, <2>1, <2>2
  <2> QED
    BY <2>3, <2>4, <2>5, PartialMembership
<1>6. \A S : S \in PartialOf(F, P, W \ {v}) <=> S \in Node(v, hi, lo)
  <2> TAKE S
  <2>1. ASSUME S \in Node(v, hi, lo) PROVE S \in PartialOf(F, P, W \ {v})
    <3>1. S \in lo \/ \E T \in hi : S = T \union {v}
      BY <2>1 DEF Node
    <3> QED
      BY <1>4, <1>5, <3>1
  <2> QED
    BY <1>3, <2>1
<1>7. PartialOf(F, P, W \ {v}) = Node(v, hi, lo)
  BY <1>6, Zenon
<1> QED
  BY <1>7

\* Once only children before v are to be added a node stands for what the family
\* has below the path P.
LEMMA PartialBelow ==
  ASSUME NEW q, IsTrie(q), NEW F, F \subseteq Range(q), F \in Family, NEW P,
         NEW W \in SUBSET Var, NEW v \in Var, \A e \in P : e < v /\ e \in Var,
         \A w \in W : w < v,
         \A c \in ChildrenIn(q, P) \ W : v <= c
  PROVE  PartialOf(F, P, W) = Below(F, v, P)
<1> DEFINE A == 0 .. v - 1
<1>1. v \in Int /\ (\A w \in W : w \in Int) /\ \A e \in P : e \in Int
  BY VariablesAreIntegers
<1>2. \A T \in F : \A e \in T : e \in Int /\ e >= 0
  BY VariablesAreIntegers DEF Family
<1>3. \A T \in F : \A e \in T : e \in A <=> e < v
  BY <1>1, <1>2
<1>4. \A e \in P : e \in A
  BY <1>1, VariablesAreIntegers
<1> HIDE DEF A
<1>5. \A S : S \in Below(F, v, P) <=> \E T \in F : T \intersect A = P /\ S = T \ A
  BY BelowMembership DEF A
<1>6. ASSUME NEW T \in F, Extends(T, P), \A w \in W, e \in T \ P : w < e
      PROVE  T \intersect A = P /\ T \ A = T \ P
  <2>1. \A e \in T \ P : e \notin A
    <3> SUFFICES ASSUME NEW e \in T \ P, e \in A PROVE FALSE
      OBVIOUS
    <3>0. T \in Range(q) /\ T # P
      OBVIOUS
    <3>1. PICK m \in ChildrenIn(q, P) : m \in T \ P /\ \A f \in T \ P : m <= f
      <4>1. PICK U \in Range(q) : U = T
        BY <3>0
      <4>2. Extends(U, P) /\ U # P
        BY <1>6, <3>0, <4>1
      <4>3. \E m \in ChildrenIn(q, P) : /\ m \in U \ P
                                        /\ \A f \in U \ P : m <= f
                                        /\ Extends(U, P \union {m})
        BY <4>2, NextChild
      <4> QED
        BY <4>1, <4>3
    <3>2. m \in Int /\ e \in Int /\ m <= e /\ e < v
      BY <1>2, <1>3, <3>1
    <3>3. ~(v <= m) /\ ~(m < m)
      BY <1>1, <3>2
    <3> QED
      BY <1>6, <3>1, <3>3
  <2>2. P \subseteq T
    BY <1>6 DEF Extends
  <2> QED
    BY <1>4, <2>1, <2>2
<1>7. ASSUME NEW T \in F, T \intersect A = P
      PROVE  Extends(T, P) /\ (\A w \in W, e \in T \ P : w < e) /\ T \ A = T \ P
  <2>1. P \subseteq T /\ \A e \in T \ P : e \notin A
    BY <1>7
  <2>2. \A e \in T \ P : v <= e /\ e \in Int
    BY <1>1, <1>2, <1>3, <2>1
  <2>3. Extends(T, P)
    BY <1>1, <2>1, <2>2 DEF Extends
  <2>4. \A w \in W, e \in T \ P : w < e
    BY <1>1, <2>2
  <2> QED
    BY <1>7, <2>1, <2>3, <2>4
<1>8. \A S : S \in PartialOf(F, P, W) <=> S \in Below(F, v, P)
  <2> TAKE S
  <2>1. ASSUME S \in PartialOf(F, P, W) PROVE S \in Below(F, v, P)
    <3>1. PICK T \in F : Extends(T, P) /\ (\A w \in W, e \in T \ P : w < e) /\ S = T \ P
      BY <2>1, PartialMembership
    <3>2. T \intersect A = P /\ S = T \ A
      BY <1>6, <3>1
    <3> QED
      BY <1>5, <3>2
  <2>2. ASSUME S \in Below(F, v, P) PROVE S \in PartialOf(F, P, W)
    <3>1. PICK T \in F : T \intersect A = P /\ S = T \ A
      BY <1>5, <2>2
    <3>2. Extends(T, P) /\ (\A w \in W, e \in T \ P : w < e) /\ S = T \ P
      BY <1>7, <3>1
    <3> QED
      BY <3>2, PartialMembership
  <2> QED
    BY <2>1, <2>2
<1> QED
  BY <1>8, Zenon

\* The finished root stands for the family.
LEMMA PartialRoot ==
  ASSUME NEW F
  PROVE  PartialOf(F, {}, {}) = F
<1>1. \A T : Extends(T, {}) /\ T \ {} = T
  BY DEF Extends
<1>2. \A S : S \in PartialOf(F, {}, {}) <=> S \in F
  <2> TAKE S
  <2>1. ASSUME S \in PartialOf(F, {}, {}) PROVE S \in F
    <3>1. PICK T \in F : S = T \ {}
      BY <2>1 DEF PartialOf
    <3> QED
      BY <1>1, <3>1
  <2>2. ASSUME S \in F PROVE S \in PartialOf(F, {}, {})
    <3>1. \A w \in {}, e \in S \ {} : w < e
      OBVIOUS
    <3>2. S \in {T \in F : Extends(T, {}) /\ \A w \in {}, e \in T \ {} : w < e}
      BY <1>1, <2>2, <3>1
    <3> QED
      BY <1>1, <3>2 DEF PartialOf
  <2> QED
    BY <2>1, <2>2
<1> QED
  BY <1>2, Zenon

\* The node that is made for a child is a node of the family.
LEMMA PartialIsNode ==
  ASSUME NEW q, IsTrie(q), NEW F, F \subseteq Range(q), F \in Family, NEW P,
         NEW W \in SUBSET ChildrenIn(q, P), NEW v \in ChildrenIn(q, P), P \in SUBSET Var,
         \A w \in W : w < v,
         \A c \in ChildrenIn(q, P) \ W : v <= c
  PROVE  PartialOf(F, P, W) \in Subfamilies(F)
<1>1. v \in Var /\ W \in SUBSET Var /\ \A e \in P : e < v /\ e \in Var
  BY DEF ChildrenIn
<1>2. CASE v = 0
  <2>1. \A w \in Var : ~(w < v)
    BY <1>2, VariablesAreIntegers
  <2>2. P = {} /\ W = {}
    BY <1>1, <2>1
  <2> QED
    BY <2>2, PartialRoot, SubfamilyMembership
<1>3. CASE v # 0
  <2>1. v \in 1 .. N
    BY <1>1, <1>3, NAssumption DEF Var
  <2>2. P \in SUBSET (0 .. v - 1)
    BY <1>1, NAssumption DEF Var
  <2>3. PartialOf(F, P, W) = Below(F, v, P)
    BY <1>1, PartialBelow
  <2> QED
    BY <2>1, <2>2, <2>3, SubfamilyMembership
<1> QED
  BY <1>2, <1>3

----------------------------------------------------------------------------
(* The path of a set is added to the trie.                                 *)

\* A step down keeps the trie, and leads to the child.
LEMMA DescendFacts ==
  ASSUME NEW q, IsTrie(q), NEW S \in SUBSET Var, NEW k \in Nat, k < N, {e \in S : e < k} \in Range(q)
  PROVE  /\ IsTrie(Descend(q, {e \in S : e < k + 1}))
         /\ Range(q) \subseteq Range(Descend(q, {e \in S : e < k + 1}))
         /\ {e \in S : e < k + 1} \in Range(Descend(q, {e \in S : e < k + 1}))
<1> DEFINE P == {e \in S : e < k + 1}
           p == Append(q, P)
<1>1. q \in Seq(SUBSET Var) /\ Len(q) \in Nat /\ DOMAIN q = 1 .. Len(q) /\ Len(q) # 0
  <2>1. q \in Seq(SUBSET Var) /\ q # << >>
    BY DEF IsTrie
  <2> QED
    BY <2>1, LenProperties, EmptySeq
<1>2. CASE P \in Range(q)
  BY <1>2 DEF Descend
<1>3. CASE P \notin Range(q)
  <2>1. Descend(q, P) = p
    BY <1>3 DEF Descend
  <2>2. /\ p \in Seq(SUBSET Var) /\ Len(p) = Len(q) + 1
        /\ \A i \in 1 .. Len(q) : p[i] = q[i]
        /\ p[Len(q) + 1] = P
    <3>1. P \in SUBSET Var
      OBVIOUS
    <3> HIDE DEF P
    <3> QED
      BY <1>1, <3>1, AppendProperties
  <2>3. DOMAIN p = 1 .. Len(q) + 1
    BY <2>2, LenProperties
  <2> HIDE DEF p
  <2>4. \A i \in DOMAIN p : i \in 1 .. Len(q) \/ i = Len(q) + 1
    BY <1>1, <2>3
  <2>5. \A i \in 1 .. Len(q) : i \in DOMAIN p /\ q[i] # P /\ q[i] \in Range(q)
    <3>1. \A i \in 1 .. Len(q) : q[i] \in Range(q) /\ q[i] # P
      BY <1>1, <1>3 DEF Range
    <3>2. \A i \in 1 .. Len(q) : i \in 1 .. Len(q) + 1
      BY <1>1
    <3> QED
      BY <2>3, <3>1, <3>2
  <2>6. Distinct(p)
    <3> SUFFICES ASSUME NEW i \in DOMAIN p, NEW j \in DOMAIN p, p[i] = p[j] PROVE i = j
      BY DEF Distinct
    <3>1. CASE i \in 1 .. Len(q) /\ j \in 1 .. Len(q)
      <4>1. q[i] = q[j]
        BY <2>2, <3>1
      <4> QED
        BY <1>1, <3>1, <4>1 DEF IsTrie, Distinct
    <3> HIDE DEF P
    <3>2. CASE i \in 1 .. Len(q) /\ j = Len(q) + 1
      BY <2>2, <2>5, <3>2
    <3>3. CASE j \in 1 .. Len(q) /\ i = Len(q) + 1
      BY <2>2, <2>5, <3>3
    <3> QED
      BY <2>4, <3>1, <3>2, <3>3
  <2>7. p # << >> /\ p[1] = {}
    <3>1. 1 \in 1 .. Len(q)
      BY <1>1
    <3>2. Len(p) # 0
      BY <1>1, <2>2
    <3> QED
      BY <2>2, <3>1, <3>2, EmptySeq DEF IsTrie
  <2>8. ASSUME NEW i \in DOMAIN p, NEW l \in 0 .. N
        PROVE  \E j \in 1 .. i : p[j] = {e \in p[i] : e < l}
    <3>1. CASE i \in 1 .. Len(q)
      <4>1. PICK j \in 1 .. i : q[j] = {e \in q[i] : e < l}
        BY <1>1, <3>1 DEF IsTrie
      <4>2. j \in 1 .. Len(q)
        BY <1>1, <3>1
      <4> QED
        BY <2>2, <3>1, <4>1, <4>2
    <3>2. CASE i = Len(q) + 1 /\ l <= k
      <4>1. PICK m \in DOMAIN q : q[m] = {e \in S : e < k}
        BY DEF Range
      <4>2. PICK j \in 1 .. m : q[j] = {e \in q[m] : e < l}
        BY <4>1 DEF IsTrie
      <4>3. j \in 1 .. Len(q) /\ j \in 1 .. i
        BY <1>1, <3>2, <4>1, <4>2
      <4>4. \A e \in S : e \in Int
        BY VariablesAreIntegers
      <4>5. \A e \in S : e < k + 1 /\ e < l <=> e < k /\ e < l
        <5> SUFFICES ASSUME NEW e \in S PROVE e < k + 1 /\ e < l <=> e < k /\ e < l
          OBVIOUS
        <5>1. e \in Int
          BY <4>4
        <5> QED
          BY <3>2, <5>1
      <4>6. {e \in P : e < l} = {e \in {f \in S : f < k} : e < l}
        BY <4>5
      <4>7. p[j] = {e \in P : e < l}
        BY <2>2, <4>1, <4>2, <4>3, <4>6
      <4> HIDE DEF P
      <4> QED
        BY <2>2, <3>2, <4>3, <4>7
    <3>3. CASE i = Len(q) + 1 /\ k < l
      <4>1. \A e \in S : e \in Int
        BY VariablesAreIntegers
      <4>2. \A e \in S : e < k + 1 => e < l
        <5> SUFFICES ASSUME NEW e \in S, e < k + 1 PROVE e < l
          OBVIOUS
        <5>1. e \in Int
          BY <4>1
        <5> QED
          BY <3>3, <5>1
      <4>3. {e \in P : e < l} = P
        BY <4>2
      <4>4. i \in 1 .. i
        BY <1>1, <3>3
      <4> HIDE DEF P
      <4> QED
        BY <2>2, <3>3, <4>3, <4>4
    <3>4. l <= k \/ k < l
      OBVIOUS
    <3> QED
      BY <2>4, <3>1, <3>2, <3>3, <3>4
  <2>9. IsTrie(p)
    BY <2>2, <2>6, <2>7, <2>8 DEF IsTrie
  <2>10. Range(q) \subseteq Range(p)
    BY <1>1, <2>2, <2>5 DEF Range
  <2>11. P \in Range(p)
    <3>1. Len(q) + 1 \in DOMAIN p
      BY <1>1, <2>3
    <3> HIDE DEF P
    <3> QED
      BY <2>2, <3>1 DEF Range
  <2> HIDE DEF P
  <2>12. IsTrie(Descend(q, P)) /\ Range(q) \subseteq Range(Descend(q, P)) /\ P \in Range(Descend(q, P))
    BY <2>1, <2>9, <2>10, <2>11
  <2> QED
    BY <2>12 DEF P
<1> HIDE DEF p
<1> QED
  BY <1>2, <1>3

PathUpTo(n, q, S, p) ==
  p = [k \in 0 .. n |-> IF k = 0 THEN q ELSE Descend(p[k - 1], {e \in S : e < k})]

\* The tries on the way down exist.
LEMMA PathExists ==
  ASSUME NEW n \in Nat, NEW q, NEW S
  PROVE  \E p : PathUpTo(n, q, S, p)
<1> DEFINE Step(t, k) == Descend(t, {e \in S : e < k})
           Good == {m \in Nat : \E p : p = [k \in 0 .. m |-> IF k = 0 THEN q ELSE Step(p[k - 1], k)]}
<1> HIDE DEF Step
<1>1. 0 \in Good
  <2> DEFINE p == [k \in 0 .. 0 |-> q]
  <2>1. \A k \in 0 .. 0 : k = 0
    OBVIOUS
  <2>2. p = [k \in 0 .. 0 |-> IF k = 0 THEN q ELSE Step(p[k - 1], k)]
    BY <2>1
  <2> QED
    BY <2>2
<1>2. ASSUME NEW m \in Nat, m < n, m \in Good
      PROVE  m + 1 \in Good
  <2>1. PICK f : f = [k \in 0 .. m |-> IF k = 0 THEN q ELSE Step(f[k - 1], k)]
    BY <1>2
  <2> DEFINE g == [k \in 0 .. m + 1 |-> IF k = m + 1 THEN Step(f[m], m + 1) ELSE f[k]]
  <2>2. \A k \in 0 .. m + 1 : g[k] = IF k = 0 THEN q ELSE Step(g[k - 1], k)
    <3> SUFFICES ASSUME NEW k \in 0 .. m + 1 PROVE g[k] = IF k = 0 THEN q ELSE Step(g[k - 1], k)
      OBVIOUS
    <3>1. CASE k = m + 1
      <4>1. k # 0 /\ k - 1 = m /\ m \in 0 .. m + 1 /\ m # m + 1
        BY <3>1
      <4> QED
        BY <3>1, <4>1
    <3>2. CASE k = 0
      <4>1. k \in 0 .. m /\ k # m + 1
        BY <3>2
      <4> QED
        BY <2>1, <3>2, <4>1
    <3>3. CASE k # m + 1 /\ k # 0
      <4>1. k \in 0 .. m /\ k - 1 \in 0 .. m + 1 /\ k - 1 # m + 1
        BY <3>3
      <4> QED
        BY <2>1, <3>3, <4>1
    <3> QED
      BY <3>1, <3>2, <3>3
  <2>3. g = [k \in 0 .. m + 1 |-> g[k]]
    OBVIOUS
  <2> HIDE DEF g
  <2>4. g = [k \in 0 .. m + 1 |-> IF k = 0 THEN q ELSE Step(g[k - 1], k)]
    BY <2>2, <2>3, Zenon
  <2> QED
    BY <2>4
<1> HIDE DEF Good
<1>3. 0 .. n \subseteq Good
  BY <1>1, <1>2, SetInduction
<1>4. n \in Good
  BY <1>3
<1> QED
  BY <1>4 DEF Good, Step, PathUpTo

\* The path of a set is added to a trie: it stays one, and has the set.
LEMMA WithPathFacts ==
  ASSUME NEW q, IsTrie(q), NEW S \in SUBSET Var
  PROVE  IsTrie(WithPath(q, S)) /\ Range(q) \union {S} \subseteq Range(WithPath(q, S))
<1> DEFINE p == CHOOSE p : PathUpTo(N, q, S, p)
<1>1. PathUpTo(N, q, S, p)
  BY PathExists, NAssumption
<1>2. WithPath(q, S) = p[N]
  BY DEF WithPath, PathUpTo
<1> HIDE DEF p
<1>3. \A k \in 0 .. N : p[k] = IF k = 0 THEN q ELSE Descend(p[k - 1], {e \in S : e < k})
  <2>1. p = [k \in 0 .. N |-> IF k = 0 THEN q ELSE Descend(p[k - 1], {e \in S : e < k})]
    BY <1>1 DEF PathUpTo
  <2> QED
    BY <2>1, Zenon
<1> DEFINE Upto(k) == {e \in S : e < k}
           Good == {k \in 0 .. N : IsTrie(p[k]) /\ Range(q) \subseteq Range(p[k]) /\ Upto(k) \in Range(p[k])}
<1>4. 0 \in Good
  <2>1. p[0] = q
    <3>1. 0 \in 0 .. N
      BY NAssumption
    <3> QED
      BY <1>3, <3>1, Zenon
  <2>2. \A e \in S : ~(e < 0)
    BY VariablesAreIntegers
  <2>3. Upto(0) = {}
    BY <2>2
  <2>4. {} \in Range(q)
    <3>1. q[1] = {} /\ q \in Seq(SUBSET Var) /\ q # << >>
      BY DEF IsTrie
    <3>2. 1 \in DOMAIN q
      BY <3>1, EmptySeq, LenProperties
    <3> QED
      BY <3>1, <3>2 DEF Range
  <2> HIDE DEF Upto
  <2> QED
    BY <2>1, <2>3, <2>4, NAssumption
<1>5. ASSUME NEW k \in Nat, k < N, k \in Good
      PROVE  k + 1 \in Good
  <2>1. k + 1 \in 0 .. N /\ k + 1 # 0 /\ (k + 1) - 1 = k
    BY <1>5, NAssumption
  <2>2. p[k + 1] = Descend(p[k], {e \in S : e < k + 1})
    BY <1>3, <2>1
  <2>3. PICK t : t = p[k]
    OBVIOUS
  <2>4. IsTrie(t) /\ Range(q) \subseteq Range(t) /\ {e \in S : e < k} \in Range(t)
    BY <1>5, <2>3
  <2>5. /\ IsTrie(Descend(t, {e \in S : e < k + 1}))
        /\ Range(t) \subseteq Range(Descend(t, {e \in S : e < k + 1}))
        /\ {e \in S : e < k + 1} \in Range(Descend(t, {e \in S : e < k + 1}))
    BY <1>5, <2>4, DescendFacts
  <2> QED
    BY <2>1, <2>2, <2>3, <2>4, <2>5
<1> HIDE DEF Good
<1>6. 0 .. N \subseteq Good
  BY <1>4, <1>5, NAssumption, SetInduction
<1>7. N \in Good
  BY <1>6, NAssumption
<1>8. \A e \in S : e < N
  BY VariablesAreIntegers
<1>9. Upto(N) = S
  BY <1>8
<1> HIDE DEF Upto
<1> QED
  BY <1>2, <1>7, <1>9 DEF Good

----------------------------------------------------------------------------
(* The nodes of a set of roots, and those the manager owns.                *)

\* The nodes of a set of roots are finitely many families.
LEMMA NodesOfRoots ==
  ASSUME NEW C \in SUBSET Family
  PROVE  /\ Nodes(C) \subseteq Family \ Terminals
         /\ IsFiniteSet(Nodes(C)) /\ Cardinality(Nodes(C)) \in Nat
<1>1. Nodes(C) \subseteq Family \ Terminals
  <2> SUFFICES ASSUME NEW G \in Nodes(C) PROVE G \in Family \ Terminals
    OBVIOUS
  <2>1. PICK F \in C : G \in NodesOf[F]
    BY DEF Nodes
  <2> QED
    BY <2>1, ChildrenAreNodes
<1>2. IsFiniteSet(Nodes(C))
  BY <1>1, FamiliesFinite, FS_Subset
<1> QED
  BY <1>1, <1>2, FS_CardinalityType

\* A set of families is finite.
LEMMA FamilySetsFinite ==
  ASSUME NEW C \in SUBSET Family
  PROVE  IsFiniteSet(C) /\ Cardinality(C) \in Nat
BY FamiliesFinite, FS_Subset, FS_CardinalityType

\* The families of all sets of the variables from k on.
Chain(k) == SUBSET (k .. N - 1)

OwnRoots == {Singleton(v) : v \in Var} \union {Chain(k) : k \in Var}

\* The image of the variables has at most as many members.
LEMMA ImageOfVariables ==
  ASSUME NEW f, f = [v \in Var |-> f[v]]
  PROVE  LET T == {f[v] : v \in Var} IN IsFiniteSet(T) /\ Cardinality(T) <= N /\ Cardinality(T) \in Nat
<1> DEFINE T == {f[v] : v \in Var}
<1>1. f \in Surjection(Var, T)
  BY DEF Surjection
<1>2. IsFiniteSet(Var) /\ Cardinality(Var) = N
  BY FS_Interval, NAssumption DEF Var
<1> HIDE DEF T
<1>3. IsFiniteSet(T) /\ Cardinality(T) <= N
  BY <1>1, <1>2, FS_Surjection
<1>4. Cardinality(T) \in Nat
  BY <1>3, FS_CardinalityType
<1> QED
  BY <1>3, <1>4 DEF T

\* The manager owns at most two nodes per variable.
LEMMA ManagerNodes ==
  /\ ManagerRoots \in SUBSET Family
  /\ Nodes(ManagerRoots) \subseteq Family \ Terminals
  /\ Cardinality(Nodes(ManagerRoots)) \in Nat /\ Cardinality(Nodes(ManagerRoots)) <= 2 * N
<1>1. OwnRoots \in SUBSET Family
  <2>1. \A v \in Var : Singleton(v) \in Family
    BY DEF Singleton, Family
  <2>2. \A k \in Var : k .. N - 1 \subseteq Var
    BY NAssumption DEF Var
  <2>3. \A k \in Var : Chain(k) \in Family
    BY <2>2 DEF Chain, Family
  <2> QED
    BY <2>1, <2>3 DEF OwnRoots
<1>2. ASSUME NEW G \in OwnRoots \ Terminals
      PROVE  Hi(TopVar(G), G) \in OwnRoots \union Terminals /\ Lo(TopVar(G), G) \in OwnRoots \union Terminals
  <2>1. TopVar(G) \in Var /\ TopVar(G) \in Support(G) /\ \A w \in Support(G) : TopVar(G) <= w
    BY <1>1, <1>2, TopExists DEF Terminals, IsTop
  <2>2. CASE \E v \in Var : G = Singleton(v)
    <3>1. PICK v \in Var : G = {{v}}
      BY <2>2 DEF Singleton
    <3>2. TopVar(G) = v
      BY <2>1, <3>1 DEF Support
    <3>3. Hi(v, G) = One /\ Lo(v, G) = Zero
      BY <3>1 DEF Hi, Lo, One, Zero
    <3> QED
      BY <3>2, <3>3 DEF Terminals
  <2>3. CASE \E k \in Var : G = Chain(k)
    <3>1. PICK k \in Var : G = Chain(k)
      BY <2>3
    <3>2. k \in Int /\ k < N /\ k + 1 \in Int
      BY VariablesAreIntegers
    <3>3. Support(G) = k .. N - 1
      BY <3>1 DEF Support, Chain
    <3>4. k \in k .. N - 1 /\ \A w \in k .. N - 1 : w \in Int /\ k <= w
      BY <3>2, NAssumption
    <3>5. TopVar(G) = k
      <4>1. TopVar(G) \in Int /\ TopVar(G) <= k /\ k <= TopVar(G)
        BY <2>1, <3>3, <3>4, VariablesAreIntegers
      <4> QED
        BY <3>2, <4>1
    <3>6. \A e : e \in k + 1 .. N - 1 <=> e \in k .. N - 1 /\ e # k
      BY <3>2, NAssumption
    <3> HIDE DEF Chain
    <3>7. \A S : S \in Chain(k + 1) <=> S \subseteq k .. N - 1 /\ k \notin S
      BY <3>6 DEF Chain
    <3>8. Hi(k, G) = Chain(k + 1)
      <4>1. \A S : S \in Hi(k, G) <=> k \notin S /\ S \union {k} \in G
        BY HiMembership
      <4>2. \A S : S \union {k} \in G <=> S \subseteq k .. N - 1
        BY <3>1, <3>4 DEF Chain
      <4>3. \A S : S \in Hi(k, G) <=> S \in Chain(k + 1)
        BY <3>7, <4>1, <4>2
      <4> QED
        BY <4>3, Zenon
    <3>9. Lo(k, G) = Chain(k + 1)
      <4>1. \A S : S \in Lo(k, G) <=> k \notin S /\ S \subseteq k .. N - 1
        BY <3>1 DEF Chain, Lo
      <4>2. \A S : S \in Lo(k, G) <=> S \in Chain(k + 1)
        BY <3>7, <4>1
      <4> QED
        BY <4>2, Zenon
    <3>10. Chain(k + 1) \in OwnRoots \union Terminals
      <4>1. CASE k + 1 \in Var
        BY <4>1 DEF OwnRoots
      <4>2. CASE k + 1 \notin Var
        <5>1. k + 1 = N
          BY <4>2, <3>2, NAssumption DEF Var
        <5>2. k + 1 .. N - 1 = {}
          BY <5>1, NAssumption
        <5>3. Chain(k + 1) = One
          BY <5>2 DEF Chain, One
        <5> QED
          BY <5>3 DEF Terminals
      <4> QED
        BY <4>1, <4>2
    <3> QED
      BY <3>5, <3>8, <3>9, <3>10
  <2> QED
    BY <1>2, <2>2, <2>3 DEF OwnRoots
<1>3. Closed(OwnRoots)
  BY <1>2 DEF Closed
<1>4. ManagerRoots \subseteq OwnRoots \union Terminals
  <2>1. Powerset \in OwnRoots \union Terminals
    <3>1. CASE N = 0
      <4>1. Var = {}
        BY <3>1 DEF Var
      <4>2. Powerset = One
        BY <4>1 DEF Powerset, One
      <4> QED
        BY <4>2 DEF Terminals
    <3>2. CASE N # 0
      <4>1. 0 \in Var
        BY <3>2, NAssumption DEF Var
      <4>2. Powerset = Chain(0)
        BY DEF Powerset, Chain, Var
      <4> QED
        BY <4>1, <4>2 DEF OwnRoots
    <3> QED
      BY <3>1, <3>2
  <2> QED
    BY <2>1 DEF ManagerRoots, OwnRoots
<1>5. ManagerRoots \in SUBSET Family
  BY <1>1, <1>4, TerminalNodes DEF Terminals
<1>6. Nodes(ManagerRoots) \subseteq OwnRoots
  <2> SUFFICES ASSUME NEW F \in ManagerRoots PROVE NodesOf[F] \subseteq OwnRoots
    BY DEF Nodes
  <2> QED
    BY <1>1, <1>3, <1>4, ClosedHasNodes
<1>7. IsFiniteSet(OwnRoots) /\ Cardinality(OwnRoots) \in Nat /\ Cardinality(OwnRoots) <= 2 * N
  <2> DEFINE f == [v \in Var |-> Singleton(v)]
             g == [v \in Var |-> Chain(v)]
             A == {f[v] : v \in Var}
             B == {g[v] : v \in Var}
  <2>1. OwnRoots = A \union B
    BY DEF OwnRoots
  <2>2. f = [v \in Var |-> f[v]] /\ g = [v \in Var |-> g[v]]
    OBVIOUS
  <2> HIDE DEF f, g
  <2>3. IsFiniteSet(A) /\ Cardinality(A) <= N /\ Cardinality(A) \in Nat
    BY <2>2, ImageOfVariables
  <2>4. IsFiniteSet(B) /\ Cardinality(B) <= N /\ Cardinality(B) \in Nat
    BY <2>2, ImageOfVariables
  <2> HIDE DEF A, B
  <2>5. /\ IsFiniteSet(A \union B)
        /\ Cardinality(A \union B) = Cardinality(A) + Cardinality(B) - Cardinality(A \intersect B)
    BY <2>3, <2>4, FS_Union
  <2>6. Cardinality(A \intersect B) \in Nat
    BY <2>3, FS_Subset, FS_CardinalityType
  <2>7. Cardinality(A \union B) \in Nat
    BY <2>5, FS_CardinalityType
  <2>8. Cardinality(A \union B) <= 2 * N
    BY <2>3, <2>4, <2>5, <2>6, NAssumption
  <2> QED
    BY <2>1, <2>5, <2>7, <2>8
<1>8. Cardinality(Nodes(ManagerRoots)) <= Cardinality(OwnRoots)
  BY <1>6, <1>7, FS_Subset
<1>9. Cardinality(Nodes(ManagerRoots)) \in Nat /\ Nodes(ManagerRoots) \subseteq Family \ Terminals
  BY <1>5, NodesOfRoots
<1>10. Cardinality(Nodes(ManagerRoots)) <= 2 * N
  BY <1>7, <1>8, <1>9, NAssumption
<1> QED
  BY <1>5, <1>9, <1>10

----------------------------------------------------------------------------
(* The invariant of the construction.                                      *)

Quiet == node_index = 1 /\ siblings = {} /\ edge = Zero /\ built = NothingBuilt

\* The sets whose path is in the trie are exactly its terminals.
TrieInv ==
  /\ stage \in {"idle", "trie", "reduce"}
  /\ stage = "idle" => waiting = {} /\ trie = << >> /\ terminals = {}
  /\ stage # "idle" => /\ sets \in Family /\ waiting \subseteq sets /\ IsTrie(trie)
                       /\ terminals = sets \ waiting /\ terminals \subseteq Range(trie)

\* The nodes after the one being reduced stand for all of the family that goes
\* through them, and the one being reduced for what goes through the children
\* that were added.
ReduceInv ==
  /\ stage # "reduce" => Quiet
  /\ stage = "reduce" =>
       /\ waiting = {} /\ node_index \in DOMAIN trie
       /\ built = [P \in {trie[j] : j \in node_index + 1 .. Len(trie)} |-> PartialOf(sets, P, {})]
       /\ siblings \subseteq ChildVariables(Prefix)
       /\ \A c \in ChildVariables(Prefix) \ siblings, w \in siblings : w < c
       /\ edge = PartialOf(sets, Prefix, siblings)

\* The space has the diagrams of all that is built.
StoreInv ==
  /\ store \subseteq Family \ Terminals /\ Nodes(ManagerRoots) \subseteq store
  /\ Cardinality(store) <= Capacity
  /\ created = Cardinality(store) - before /\ before \in Nat /\ created \in Nat
  /\ NodesOf[edge] \subseteq store /\ \A P \in DOMAIN built : NodesOf[built[P]] \subseteq store

\* The two answers of a construction, and what they say of its family.
AnswerInv ==
  /\ built_from \in [kind : Answers, value : Family]
  /\ stage # "idle" => built_from = NoAnswer
  /\ built_from.kind = "node_limit" => Cardinality(store \union NodesOf[sets]) > Capacity
  /\ built_from.kind = "ok" => NodesOf[sets] \subseteq store

\* The program holds what it asked for, and the space has the diagrams of it.
HeldInv ==
  /\ held = asked /\ held \in Seq(Family) /\ calls \in Nat
  /\ \A F \in Range(held) : NodesOf[F] \subseteq store
  /\ sets \subseteq SUBSET (0 .. N)
  /\ stage = "idle" /\ calls > 0 =>
       (built_from.kind = "invalid_element" <=> ~(UNION sets \subseteq Var))
  /\ passage # "idle" => stage = "idle"

FromInv == TrieInv /\ ReduceInv /\ StoreInv /\ AnswerInv

\* What a step of the construction does beyond keeping that.
StepFacts ==
  /\ sets' = sets /\ store \subseteq store' /\ UNION sets \subseteq Var
  /\ stage' = "idle" => built_from'.kind # "invalid_element"
  /\ stage' = "idle" /\ built_from'.kind = "ok" =>
       built_from'.value = sets /\ sets \in Family /\ NodesOf[sets] \subseteq store'

\* The children of a trie node are those of its list.
LEMMA ChildVariablesAre ==
  ASSUME NEW P
  PROVE  ChildVariables(P) = ChildrenIn(trie, P)
BY DEF ChildVariables, ChildrenIn

\* The first state has the invariant.
LEMMA FromInit ==
  Init => FromInv /\ HeldInv
<1> SUFFICES ASSUME Init PROVE FromInv /\ HeldInv
  OBVIOUS
<1> USE DEF Init, FromSetsInit, ImportInit
<1>1. TrieInv
  BY DEF TrieInv
<1>2. ReduceInv
  BY DEF ReduceInv, Quiet
<1>3. StoreInv
  <2>1. Cardinality(store) \in Nat /\ Cardinality(store) <= 2 * N /\ store \subseteq Family \ Terminals
    BY ManagerNodes
  <2>2. Cardinality(store) <= Capacity
    BY <2>1, FromSetsAssumption, NAssumption
  <2>3. created = Cardinality(store) - before /\ before \in Nat /\ created \in Nat
    BY <2>1
  <2>4. NodesOf[edge] = {}
    BY TerminalNodes
  <2>5. \A P \in DOMAIN built : NodesOf[built[P]] \subseteq store
    BY DEF NothingBuilt
  <2> QED
    BY <2>1, <2>2, <2>3, <2>4, <2>5 DEF StoreInv
<1>4. AnswerInv
  BY TerminalNodes DEF AnswerInv, NoAnswer, Answers
<1>5. HeldInv
  <2>1. held \in Seq(Family) /\ DOMAIN held = {}
    BY EmptySeq
  <2>2. Range(held) = {}
    BY <2>1 DEF Range
  <2> QED
    BY <2>1, <2>2 DEF HeldInv
<1> QED
  BY <1>1, <1>2, <1>3, <1>4, <1>5 DEF FromInv

\* A call that is refused.
LEMMA FromRefuse ==
  ASSUME FromInv, NEW argument, RefuseSets(argument)
  PROVE  FromInv' /\ store' = store /\ stage' = "idle" /\ sets' = argument
         /\ built_from'.kind = "invalid_element" /\ ~(UNION argument \subseteq Var)
<1>1. /\ stage' = "idle" /\ waiting' = {} /\ trie' = << >> /\ terminals' = {}
      /\ node_index' = 1 /\ siblings' = {} /\ edge' = Zero /\ built' = NothingBuilt
      /\ built_from' = [kind |-> "invalid_element", value |-> Zero]
      /\ store' = store /\ before' = before /\ created' = created /\ sets' = argument
      /\ ~(UNION argument \subseteq Var)
  BY DEF RefuseSets, Answer
<1>2. TrieInv'
  BY <1>1 DEF TrieInv
<1>3. ReduceInv'
  BY <1>1 DEF ReduceInv, Quiet
<1>4. StoreInv'
  <2>1. NodesOf[edge'] = {}
    BY <1>1, TerminalNodes
  <2>2. \A P \in DOMAIN built' : NodesOf[built'[P]] \subseteq store'
    BY <1>1 DEF NothingBuilt
  <2>3. Cardinality(store') = Cardinality(store)
    BY <1>1
  <2> QED
    BY <1>1, <2>1, <2>2, <2>3 DEF FromInv, StoreInv
<1>5. AnswerInv'
  <2>1. built_from' \in [kind : Answers, value : Family]
    BY <1>1, TerminalNodes DEF Answers
  <2>2. built_from'.kind = "invalid_element"
    BY <1>1
  <2> QED
    BY <1>1, <2>1, <2>2 DEF AnswerInv
<1> QED
  BY <1>1, <1>2, <1>3, <1>4, <1>5 DEF FromInv

\* A call starts with the root of the trie.
LEMMA FromCall ==
  ASSUME FromInv, NEW argument, CallFromSets(argument)
  PROVE  FromInv' /\ store' = store /\ stage' = "trie" /\ sets' = argument
<1>1. /\ stage = "idle" /\ UNION argument \subseteq Var /\ sets' = argument
      /\ stage' = "trie" /\ waiting' = argument /\ trie' = <<{}>> /\ terminals' = {}
      /\ before' = Cardinality(store) /\ created' = 0 /\ built_from' = NoAnswer
      /\ UNCHANGED <<node_index, siblings, edge, built, store>>
  BY DEF CallFromSets, reduce_vars
<1>2. Cardinality(store) \in Nat
  BY FamilySetsFinite DEF FromInv, StoreInv
<1>3. TrieInv'
  <2>1. argument \in Family
    BY <1>1 DEF Family
  <2>2. /\ <<{}>> \in Seq(SUBSET Var) /\ <<{}>> # << >>
        /\ DOMAIN <<{}>> = {1} /\ <<{}>>[1] = {}
    <3>1. {} \in SUBSET Var
      OBVIOUS
    <3> QED
      BY <3>1
  <2>3. Distinct(<<{}>>)
    BY <2>2 DEF Distinct
  <2>4. \A i \in DOMAIN <<{}>> : \A k \in 0 .. N : \E j \in 1 .. i : <<{}>>[j] = {e \in <<{}>>[i] : e < k}
    <3> SUFFICES ASSUME NEW k \in 0 .. N PROVE \E j \in 1 .. 1 : <<{}>>[j] = {e \in <<{}>>[1] : e < k}
      BY <2>2
    <3>1. {e \in <<{}>>[1] : e < k} = {}
      BY <2>2
    <3> QED
      BY <2>2, <3>1
  <2>5. IsTrie(<<{}>>)
    BY <2>2, <2>3, <2>4 DEF IsTrie
  <2> QED
    BY <1>1, <2>1, <2>5 DEF TrieInv
<1>4. ReduceInv'
  BY <1>1 DEF FromInv, ReduceInv, Quiet
<1>5. StoreInv'
  <2>1. created' = Cardinality(store') - before' /\ before' \in Nat /\ created' \in Nat
    BY <1>1, <1>2
  <2> QED
    BY <1>1, <2>1 DEF FromInv, StoreInv
<1>6. AnswerInv'
  <2>1. NoAnswer \in [kind : Answers, value : Family] /\ NoAnswer.kind = "none"
    BY TerminalNodes DEF Answers, NoAnswer
  <2> QED
    BY <1>1, <2>1 DEF AnswerInv
<1> QED
  BY <1>1, <1>3, <1>4, <1>5, <1>6 DEF FromInv

----------------------------------------------------------------------------
(* The steps of the construction.                                          *)

\* A call that runs has a family to build, and its trie.
LEMMA RunningFacts ==
  ASSUME TrieInv, stage # "idle"
  PROVE  /\ sets \in Family /\ UNION sets \subseteq Var
         /\ IsTrie(trie) /\ trie \in Seq(SUBSET Var)
         /\ Len(trie) \in Nat /\ Len(trie) # 0 /\ DOMAIN trie = 1 .. Len(trie)
         /\ \A P \in Range(trie) : P \in SUBSET Var
<1>1. sets \in Family /\ IsTrie(trie)
  BY DEF TrieInv
<1>2. UNION sets \subseteq Var
  BY <1>1 DEF Family
<1>3. trie \in Seq(SUBSET Var) /\ trie # << >>
  BY <1>1 DEF IsTrie
<1>4. Len(trie) \in Nat /\ Len(trie) # 0 /\ DOMAIN trie = 1 .. Len(trie)
  BY <1>3, LenProperties, EmptySeq
<1>5. \A P \in Range(trie) : P \in SUBSET Var
  BY <1>3, <1>4, ElementOfSeq DEF Range
<1> QED
  BY <1>1, <1>2, <1>3, <1>4, <1>5

\* A set is put into the trie.
LEMMA FromInsert ==
  ASSUME FromInv, InsertSet
  PROVE  FromInv' /\ StepFacts
<1>1. /\ stage = "trie" /\ stage' = "trie"
      /\ UNCHANGED <<sets, node_index, siblings, edge, built, store, before, created, built_from>>
  BY DEF InsertSet, reduce_vars
<1>2. PICK S \in waiting : /\ waiting' = waiting \ {S}
                           /\ trie' = WithPath(trie, S)
                           /\ terminals' = terminals \union {S}
  BY DEF InsertSet
<1>3. sets \in Family /\ IsTrie(trie) /\ UNION sets \subseteq Var
  BY <1>1, RunningFacts DEF FromInv
<1>4. waiting \subseteq sets /\ terminals = sets \ waiting /\ terminals \subseteq Range(trie)
  BY <1>1 DEF FromInv, TrieInv
<1>5. S \in SUBSET Var
  BY <1>3, <1>4 DEF Family
<1>6. IsTrie(WithPath(trie, S)) /\ Range(trie) \union {S} \subseteq Range(WithPath(trie, S))
  BY <1>3, <1>5, WithPathFacts
<1>7. TrieInv'
  BY <1>1, <1>2, <1>3, <1>4, <1>6 DEF TrieInv
<1>8. ReduceInv'
  BY <1>1 DEF FromInv, ReduceInv, Quiet
<1>9. StoreInv'
  BY <1>1 DEF FromInv, StoreInv
<1>10. AnswerInv'
  BY <1>1 DEF FromInv, AnswerInv
<1> QED
  BY <1>1, <1>3, <1>7, <1>8, <1>9, <1>10 DEF FromInv, StepFacts

\* A node starts from its terminal flag.
LEMMA ReduceStarts ==
  ASSUME TrieInv, stage # "idle", waiting = {}, NEW i \in DOMAIN trie, Reduce(i),
         trie' = trie, sets' = sets, terminals' = terminals
  PROVE  /\ node_index' = i
         /\ siblings' = ChildrenIn(trie, trie[i])
         /\ edge' = PartialOf(sets, trie[i], siblings')
         /\ NodesOf[edge'] = {}
<1>1. IsTrie(trie) /\ sets \subseteq Range(trie) /\ terminals = sets
  BY DEF TrieInv
<1>2. siblings' = ChildrenIn(trie, trie[i]) /\ node_index' = i
  BY ChildVariablesAre DEF Reduce
<1>3. edge' = IF trie[i] \in sets THEN One ELSE Zero
  BY <1>1 DEF Reduce
<1>4. PartialOf(sets, trie[i], ChildrenIn(trie, trie[i])) = IF trie[i] \in sets THEN One ELSE Zero
  BY <1>1, PartialStart
<1> QED
  BY <1>2, <1>3, <1>4, TerminalNodes

\* The reduction starts at the last node.
LEMMA FromStart ==
  ASSUME FromInv, StartReduce
  PROVE  FromInv' /\ StepFacts
<1>1. /\ stage = "trie" /\ waiting = {} /\ stage' = "reduce"
      /\ built' = NothingBuilt /\ Reduce(Len(trie))
      /\ UNCHANGED <<sets, waiting, trie, terminals, store, before, created, built_from>>
  BY DEF StartReduce, trie_vars
<1>2. TrieInv /\ stage # "idle"
  BY <1>1 DEF FromInv
<1>3. Len(trie) \in DOMAIN trie /\ Len(trie) + 1 .. Len(trie) = {} /\ UNION sets \subseteq Var
  BY <1>2, RunningFacts
<1>4. /\ node_index' = Len(trie)
      /\ siblings' = ChildrenIn(trie, trie[Len(trie)])
      /\ edge' = PartialOf(sets, trie[Len(trie)], siblings')
      /\ NodesOf[edge'] = {}
  BY <1>1, <1>2, <1>3, ReduceStarts
<1>5. TrieInv'
  BY <1>1, <1>2 DEF TrieInv
<1>6. ReduceInv'
  <2>1. built' = [P \in {trie'[j] : j \in node_index' + 1 .. Len(trie')} |-> PartialOf(sets', P, {})]
    BY <1>1, <1>3, <1>4 DEF NothingBuilt
  <2>2. Prefix' = trie[Len(trie)]
    BY <1>1, <1>4 DEF Prefix
  <2>3. ChildVariables(Prefix)' = ChildrenIn(trie, trie[Len(trie)])
    BY <1>1, <2>2 DEF ChildVariables, ChildrenIn
  <2> QED
    BY <1>1, <1>3, <1>4, <2>1, <2>2, <2>3 DEF ReduceInv
<1>7. StoreInv'
  BY <1>1, <1>4 DEF FromInv, StoreInv, NothingBuilt
<1>8. AnswerInv'
  BY <1>1 DEF FromInv, AnswerInv
<1> QED
  BY <1>1, <1>3, <1>5, <1>6, <1>7, <1>8 DEF FromInv, StepFacts

\* The reduction is at a prefix of the trie.
LEMMA PrefixFacts ==
  ASSUME FromInv, stage = "reduce"
  PROVE  /\ Prefix \in Range(trie) /\ Prefix \in SUBSET Var
         /\ sets \in Family /\ IsTrie(trie) /\ sets \subseteq Range(trie) /\ UNION sets \subseteq Var
         /\ siblings \subseteq ChildrenIn(trie, Prefix)
         /\ edge = PartialOf(sets, Prefix, siblings) /\ edge \in Family
<1>1. TrieInv /\ ReduceInv
  BY DEF FromInv
<1>2. sets \in Family /\ IsTrie(trie) /\ UNION sets \subseteq Var /\ \A P \in Range(trie) : P \in SUBSET Var
  BY <1>1, RunningFacts
<1>3. sets \subseteq Range(trie)
  BY <1>1 DEF TrieInv, ReduceInv
<1>4. Prefix \in Range(trie)
  BY <1>1 DEF ReduceInv, Prefix, Range
<1>5. siblings \subseteq ChildrenIn(trie, Prefix) /\ edge = PartialOf(sets, Prefix, siblings)
  BY <1>1, ChildVariablesAre DEF ReduceInv
<1>6. edge \in Family
  BY <1>2, <1>5, PartialTyping
<1> QED
  BY <1>2, <1>3, <1>4, <1>5, <1>6

\* The child to be added is built, and the node over it is the next part of what
\* the trie node stands for.
LEMMA ChildFacts ==
  ASSUME FromInv, stage = "reduce", siblings # {}
  PROVE  /\ NextVariable \in siblings /\ NextVariable \in Var
         /\ \A w \in siblings : w <= NextVariable
         /\ ChildPrefix \in DOMAIN built
         /\ built[ChildPrefix] = PartialOf(sets, ChildPrefix, {}) /\ built[ChildPrefix] \in Family
         /\ \A w \in Support(edge) \union Support(built[ChildPrefix]) : NextVariable < w
         /\ Joined = PartialOf(sets, Prefix, siblings \ {NextVariable})
<1>1. /\ Prefix \in Range(trie) /\ Prefix \in SUBSET Var
      /\ sets \in Family /\ IsTrie(trie) /\ sets \subseteq Range(trie)
      /\ siblings \subseteq ChildrenIn(trie, Prefix)
      /\ edge = PartialOf(sets, Prefix, siblings)
  BY PrefixFacts
<1>2. PICK v : v = NextVariable
  OBVIOUS
<1>3. siblings \in SUBSET Var
  BY <1>1 DEF ChildrenIn
<1>4. v \in siblings /\ \A w \in siblings : w <= v
  BY <1>2, <1>3, GreatestVariable DEF NextVariable
<1>5. v \in ChildrenIn(trie, Prefix) /\ v \in Var /\ Prefix \union {v} \in Range(trie) /\ \A e \in Prefix : e < v
  BY <1>1, <1>4 DEF ChildrenIn
<1>6. ChildPrefix = Prefix \union {v}
  BY <1>2 DEF ChildPrefix
<1>7. \E j \in node_index + 1 .. Len(trie) : trie[j] = Prefix \union {v}
  <2>1. PICK j \in DOMAIN trie : trie[j] = Prefix \union {v}
    BY <1>5 DEF Range
  <2>2. node_index \in DOMAIN trie /\ Prefix = trie[node_index]
    BY DEF FromInv, ReduceInv, Prefix
  <2>3. v \in 0 .. N /\ v \in Int /\ \A e \in Prefix : e \in Int
    BY <1>1, <1>5, VariablesAreIntegers, NAssumption DEF Var
  <2>4. {e \in Prefix \union {v} : e < v} = Prefix
    BY <1>5, <2>3
  <2>5. PICK k \in 1 .. j : trie[k] = Prefix
    <3>1. PICK k \in 1 .. j : trie[k] = {e \in trie[j] : e < v}
      BY <1>1, <2>1, <2>3 DEF IsTrie
    <3> QED
      BY <2>1, <2>4, <3>1
  <2>6. DOMAIN trie = 1 .. Len(trie) /\ Len(trie) \in Nat
    BY RunningFacts DEF FromInv
  <2>7. k \in DOMAIN trie
    BY <2>1, <2>5, <2>6
  <2>8. k = node_index
    BY <1>1, <2>2, <2>5, <2>7 DEF IsTrie, Distinct
  <2>9. j # node_index
    <3>1. v \notin Prefix
      BY <1>5, <2>3
    <3> QED
      BY <2>1, <2>2, <3>1
  <2>10. j \in node_index + 1 .. Len(trie)
    BY <2>1, <2>5, <2>6, <2>8, <2>9
  <2> QED
    BY <2>1, <2>10
<1>8. /\ ChildPrefix \in DOMAIN built /\ built[ChildPrefix] = PartialOf(sets, ChildPrefix, {})
  <2>1. built = [P \in {trie[j] : j \in node_index + 1 .. Len(trie)} |-> PartialOf(sets, P, {})]
    BY DEF FromInv, ReduceInv
  <2> QED
    BY <1>6, <1>7, <2>1
<1>9. built[ChildPrefix] \in Family
  BY <1>1, <1>8, PartialTyping
<1>10. \A w \in Support(edge) \union Support(built[ChildPrefix]) : v < w
  <2>1. \A w \in Support(edge) : v < w
    BY <1>1, <1>4, PartialTyping
  <2>2. \A w \in Support(built[ChildPrefix]) : v < w
    BY <1>6, <1>8, ChildAbove
  <2> QED
    BY <2>1, <2>2
<1>11. Joined = PartialOf(sets, Prefix, siblings \ {v})
  <2>1. \A c \in ChildrenIn(trie, Prefix) \ siblings : v < c
    BY <1>4, ChildVariablesAre DEF FromInv, ReduceInv
  <2>2. PartialOf(sets, Prefix, siblings \ {v}) =
          Node(v, PartialOf(sets, Prefix \union {v}, {}), PartialOf(sets, Prefix, siblings))
    BY <1>1, <1>4, <2>1, PartialStep
  <2> QED
    BY <1>1, <1>2, <1>6, <1>8, <2>2 DEF Joined
<1> QED
  BY <1>2, <1>4, <1>5, <1>8, <1>9, <1>10, <1>11

\* The node over the child is a node of the family, unless the child is empty.
LEMMA JoinedFacts ==
  ASSUME FromInv, stage = "reduce", siblings # {}
  PROVE  /\ Joined \in Family
         /\ built[ChildPrefix] = Zero => Joined = edge
         /\ built[ChildPrefix] # Zero => Joined \in NodesOf[sets]
         /\ NodesOf[Joined] \subseteq {Joined} \union NodesOf[built[ChildPrefix]] \union NodesOf[edge]
<1> DEFINE v == NextVariable
           hi == built[ChildPrefix]
           W == siblings \ {v}
<1>1. /\ v \in siblings /\ v \in Var /\ (\A w \in siblings : w <= v) /\ hi \in Family
      /\ \A w \in Support(edge) \union Support(hi) : v < w
      /\ Joined = PartialOf(sets, Prefix, W)
  BY ChildFacts
<1>2. /\ Prefix \in SUBSET Var /\ sets \in Family /\ IsTrie(trie) /\ sets \subseteq Range(trie)
      /\ siblings \subseteq ChildrenIn(trie, Prefix) /\ edge \in Family
  BY PrefixFacts
<1>3. Joined = Node(v, hi, edge)
  BY DEF Joined
<1>4. \A c \in ChildrenIn(trie, Prefix) \ siblings : v < c
  BY <1>1, ChildVariablesAre DEF FromInv, ReduceInv
<1> HIDE DEF v, hi
<1>5. Joined \in Family
  BY <1>1, <1>2, <1>3, NodeTyping
<1>6. hi = Zero => Joined = edge
  BY <1>3 DEF Node, Zero
<1>7. NodesOf[Joined] \subseteq {Joined} \union NodesOf[hi] \union NodesOf[edge]
  BY <1>1, <1>2, <1>3, NodesOfNode
<1>8. Joined \in Subfamilies(sets)
  <2>1. v \in Int /\ (\A w \in W : w \in Int) /\ \A c \in ChildrenIn(trie, Prefix) : c \in Int
    BY <1>1, <1>2, VariablesAreIntegers DEF ChildrenIn
  <2>2. \A w \in W : w < v
    BY <1>1, <2>1
  <2>3. \A c \in ChildrenIn(trie, Prefix) \ W : v <= c
    BY <1>4, <2>1
  <2>4. W \in SUBSET ChildrenIn(trie, Prefix) /\ v \in ChildrenIn(trie, Prefix)
    BY <1>1, <1>2
  <2> HIDE DEF W
  <2> QED
    BY <1>1, <1>2, <2>2, <2>3, <2>4, PartialIsNode
<1>9. ASSUME hi # Zero PROVE Joined \in NodesOf[sets]
  <2>1. PICK S \in hi : TRUE
    BY <1>9 DEF Zero
  <2>2. S \union {v} \in Joined
    BY <1>3, <2>1 DEF Node
  <2>3. Joined \notin Terminals
    BY <2>2 DEF Terminals, Zero, One
  <2> QED
    BY <1>2, <1>8, <2>3 DEF NodesOf
<1> QED
  BY <1>5, <1>6, <1>7, <1>9 DEF hi

\* A child is added.
LEMMA FromAdd ==
  ASSUME FromInv, AddChild
  PROVE  FromInv' /\ StepFacts
<1>1. /\ stage = "reduce" /\ siblings # {} /\ stage' = "reduce"
      /\ edge' = Joined /\ siblings' = siblings \ {NextVariable}
      /\ UNCHANGED <<sets, waiting, trie, terminals, node_index, built, before, built_from>>
  BY DEF AddChild, Adding, trie_vars
<1>2. \/ IsThere /\ store' = store /\ created' = created
      \/ ~IsThere /\ Cardinality(store) < Capacity /\ store' = store \union {Joined} /\ created' = created + 1
  BY DEF AddChild
<1>3. /\ NextVariable \in siblings /\ ChildPrefix \in DOMAIN built
      /\ Joined = PartialOf(sets, Prefix, siblings \ {NextVariable})
      /\ \A w \in siblings : w <= NextVariable
  BY <1>1, ChildFacts
<1>4. /\ Joined \in Family
      /\ built[ChildPrefix] = Zero => Joined = edge
      /\ built[ChildPrefix] # Zero => Joined \in NodesOf[sets]
      /\ NodesOf[Joined] \subseteq {Joined} \union NodesOf[built[ChildPrefix]] \union NodesOf[edge]
  BY <1>1, JoinedFacts
<1>5. sets \in Family /\ UNION sets \subseteq Var /\ siblings \subseteq Var
  BY <1>1, PrefixFacts DEF ChildrenIn
<1>6. TrieInv'
  BY <1>1 DEF FromInv, TrieInv
<1>7. ReduceInv'
  <2>1. Prefix' = Prefix
    BY <1>1 DEF Prefix
  <2>2. ChildVariables(Prefix)' = ChildVariables(Prefix)
    BY <1>1, <2>1 DEF ChildVariables
  <2>3. siblings' \subseteq ChildVariables(Prefix)
    BY <1>1 DEF FromInv, ReduceInv
  <2>4. ASSUME NEW c \in ChildVariables(Prefix) \ siblings', NEW w \in siblings' PROVE w < c
    <3>1. CASE c \notin siblings
      BY <1>1, <2>4, <3>1 DEF FromInv, ReduceInv
    <3>2. CASE c = NextVariable
      <4>1. w \in siblings /\ w # c /\ w <= c /\ c \in Int /\ w \in Int
        BY <1>1, <1>3, <1>5, <2>4, <3>2, VariablesAreIntegers
      <4> QED
        BY <4>1
    <3> QED
      BY <1>1, <2>4, <3>1, <3>2
  <2>5. edge' = PartialOf(sets', Prefix', siblings')
    BY <1>1, <1>3, <2>1
  <2>6. waiting' = {} /\ node_index' \in DOMAIN trie'
    BY <1>1 DEF FromInv, ReduceInv
  <2>7. built' = [P \in {trie'[j] : j \in node_index' + 1 .. Len(trie')} |-> PartialOf(sets', P, {})]
    BY <1>1 DEF FromInv, ReduceInv
  <2> QED
    BY <1>1, <2>2, <2>3, <2>4, <2>5, <2>6, <2>7 DEF ReduceInv
<1>8. /\ store \subseteq Family \ Terminals /\ Cardinality(store) \in Nat /\ IsFiniteSet(store)
      /\ Cardinality(store) <= Capacity /\ Nodes(ManagerRoots) \subseteq store
      /\ created = Cardinality(store) - before /\ before \in Nat /\ created \in Nat
      /\ NodesOf[edge] \subseteq store /\ \A P \in DOMAIN built : NodesOf[built[P]] \subseteq store
  BY FamilySetsFinite DEF FromInv, StoreInv
<1>9. StoreInv' /\ store \subseteq store'
  <2>1. CASE IsThere
    <3>1. store' = store /\ created' = created
      BY <1>2, <2>1
    <3>2. NodesOf[Joined] \subseteq store
      <4>1. CASE built[ChildPrefix] = Zero
        BY <1>4, <1>8, <4>1
      <4>2. CASE Joined \in store
        BY <1>3, <1>4, <1>8, <4>2
      <4> QED
        BY <2>1, <4>1, <4>2 DEF IsThere
    <3> QED
      BY <1>1, <1>8, <3>1, <3>2 DEF StoreInv
  <2>2. CASE ~IsThere
    <3>1. /\ Cardinality(store) < Capacity /\ store' = store \union {Joined} /\ created' = created + 1
          /\ built[ChildPrefix] # Zero /\ Joined \notin store
      BY <1>2, <2>2 DEF IsThere
    <3>2. Joined \notin Terminals
      BY <1>4, <1>5, <3>1 DEF NodesOf
    <3>3. Cardinality(store') = Cardinality(store) + 1
      BY <1>8, <3>1, FS_AddElement
    <3>4. /\ Cardinality(store') <= Capacity /\ created' = Cardinality(store') - before /\ created' \in Nat
      BY <1>8, <3>1, <3>3, FromSetsAssumption
    <3>5. NodesOf[Joined] \subseteq store'
      BY <1>3, <1>4, <1>8, <3>1
    <3>6. store' \subseteq Family \ Terminals
      BY <1>4, <1>8, <3>1, <3>2
    <3> QED
      BY <1>1, <1>8, <3>1, <3>4, <3>5, <3>6 DEF StoreInv
  <2> QED
    BY <2>1, <2>2
<1>10. AnswerInv'
  BY <1>1 DEF FromInv, AnswerInv, NoAnswer
<1> QED
  BY <1>1, <1>5, <1>6, <1>7, <1>9, <1>10 DEF FromInv, StepFacts

\* The call is dropped.
LEMMA FromAnswer ==
  ASSUME FromInv, NEW kind, NEW value, Answer(kind, value), kind \in Answers, value \in Family,
         UNCHANGED <<sets, store, before, created>>,
         kind = "node_limit" => Cardinality(store \union NodesOf[sets]) > Capacity,
         kind = "ok" => NodesOf[sets] \subseteq store
  PROVE  FromInv' /\ stage' = "idle" /\ built_from' = [kind |-> kind, value |-> value]
<1>1. /\ stage' = "idle" /\ waiting' = {} /\ trie' = << >> /\ terminals' = {}
      /\ node_index' = 1 /\ siblings' = {} /\ edge' = Zero /\ built' = NothingBuilt
      /\ built_from' = [kind |-> kind, value |-> value]
      /\ store' = store /\ before' = before /\ created' = created /\ sets' = sets
  BY DEF Answer
<1>2. TrieInv'
  BY <1>1 DEF TrieInv
<1>3. ReduceInv'
  BY <1>1 DEF ReduceInv, Quiet
<1>4. StoreInv'
  <2>1. NodesOf[edge'] = {}
    BY <1>1, TerminalNodes
  <2>2. \A P \in DOMAIN built' : NodesOf[built'[P]] \subseteq store'
    BY <1>1 DEF NothingBuilt
  <2>3. Cardinality(store') = Cardinality(store)
    BY <1>1
  <2> QED
    BY <1>1, <2>1, <2>2, <2>3 DEF FromInv, StoreInv
<1>5. AnswerInv'
  <2>1. built_from' \in [kind : Answers, value : Family]
    BY <1>1
  <2>2. built_from'.kind = kind
    BY <1>1
  <2> QED
    BY <1>1, <2>1, <2>2 DEF AnswerInv
<1> QED
  BY <1>1, <1>2, <1>3, <1>4, <1>5 DEF FromInv

\* The space is full: the node that has no room is one the family needs.
LEMMA FromFull ==
  ASSUME FromInv, SpaceFull
  PROVE  FromInv' /\ StepFacts
<1>1. /\ stage = "reduce" /\ siblings # {} /\ ~IsThere /\ Cardinality(store) >= Capacity
      /\ Answer("node_limit", Zero) /\ UNCHANGED <<sets, store, before, created>>
  BY DEF SpaceFull, Adding
<1>2. Joined \in NodesOf[sets] /\ Joined \notin store
  BY <1>1, JoinedFacts DEF IsThere
<1>3. sets \in Family /\ UNION sets \subseteq Var
  BY <1>1, PrefixFacts
<1>4. store \in SUBSET Family /\ NodesOf[sets] \subseteq Family
  BY <1>3, NodesFinite DEF FromInv, StoreInv
<1>5. Cardinality(store \union NodesOf[sets]) > Capacity
  <2>1. IsFiniteSet(store) /\ Cardinality(store) \in Nat
    BY <1>4, FamilySetsFinite
  <2>2. store \union NodesOf[sets] \in SUBSET Family
    BY <1>4
  <2>3. IsFiniteSet(store \union NodesOf[sets]) /\ Cardinality(store \union NodesOf[sets]) \in Nat
    BY <2>2, FamilySetsFinite
  <2>4. store \union {Joined} \subseteq store \union NodesOf[sets]
    BY <1>2
  <2>5. Cardinality(store \union {Joined}) = Cardinality(store) + 1
    BY <1>2, <2>1, FS_AddElement
  <2>6. Cardinality(store \union {Joined}) <= Cardinality(store \union NodesOf[sets])
    BY <2>3, <2>4, FS_Subset
  <2> QED
    BY <1>1, <2>1, <2>3, <2>5, <2>6, FromSetsAssumption
<1>6. FromInv' /\ stage' = "idle" /\ built_from' = [kind |-> "node_limit", value |-> Zero]
  <2>1. "node_limit" \in Answers /\ Zero \in Family
    BY TerminalNodes DEF Answers
  <2> QED
    BY <1>1, <1>5, <2>1, FromAnswer
<1> QED
  BY <1>1, <1>3, <1>6 DEF StepFacts

\* A node is finished and the one before it is started.
LEMMA FromClose ==
  ASSUME FromInv, CloseNode
  PROVE  FromInv' /\ StepFacts
<1>1. /\ stage = "reduce" /\ siblings = {} /\ node_index > 1 /\ stage' = "reduce"
      /\ built' = [P \in DOMAIN built \union {Prefix} |-> IF P = Prefix THEN edge ELSE built[P]]
      /\ Reduce(node_index - 1)
      /\ UNCHANGED <<sets, waiting, trie, terminals, store, before, created, built_from>>
  BY DEF CloseNode, trie_vars
<1>2. TrieInv /\ stage # "idle" /\ waiting = {} /\ node_index \in DOMAIN trie
  BY <1>1 DEF FromInv, ReduceInv
<1>3. DOMAIN trie = 1 .. Len(trie) /\ Len(trie) \in Nat /\ UNION sets \subseteq Var
  BY <1>2, RunningFacts
<1>4. node_index \in Int /\ node_index - 1 \in DOMAIN trie /\ (node_index - 1) + 1 = node_index
  BY <1>1, <1>2, <1>3
<1>5. /\ node_index' = node_index - 1
      /\ siblings' = ChildrenIn(trie, trie[node_index - 1])
      /\ edge' = PartialOf(sets, trie[node_index - 1], siblings')
      /\ NodesOf[edge'] = {}
  BY <1>1, <1>2, <1>4, ReduceStarts
<1>6. TrieInv'
  BY <1>1, <1>2 DEF TrieInv
<1>7. edge = PartialOf(sets, Prefix, {}) /\ Prefix = trie[node_index]
  BY <1>1 DEF FromInv, ReduceInv, Prefix
<1>8. ReduceInv'
  <2>1. built' = [P \in {trie'[j] : j \in node_index' + 1 .. Len(trie')} |-> PartialOf(sets', P, {})]
    <3>1. built = [P \in {trie[j] : j \in node_index + 1 .. Len(trie)} |-> PartialOf(sets, P, {})]
      BY <1>1 DEF FromInv, ReduceInv
    <3>2. node_index .. Len(trie) = {node_index} \union (node_index + 1 .. Len(trie))
      BY <1>2, <1>3, <1>4
    <3>3. {trie[j] : j \in node_index .. Len(trie)} = {trie[j] : j \in node_index + 1 .. Len(trie)} \union {Prefix}
      BY <1>7, <3>2
    <3>4. DOMAIN built = {trie[j] : j \in node_index + 1 .. Len(trie)}
          /\ \A P \in DOMAIN built : built[P] = PartialOf(sets, P, {})
      BY <3>1
    <3>5. built' = [P \in {trie[j] : j \in node_index .. Len(trie)} |-> PartialOf(sets, P, {})]
      BY <1>1, <1>7, <3>3, <3>4
    <3>6. node_index' + 1 = node_index /\ trie' = trie /\ sets' = sets
      BY <1>1, <1>4, <1>5
    <3> QED
      BY ONLY <3>5, <3>6, Zenon
  <2>2. Prefix' = trie[node_index - 1]
    BY <1>1, <1>5 DEF Prefix
  <2>3. ChildVariables(Prefix)' = ChildrenIn(trie, trie[node_index - 1])
    BY <1>1, <2>2 DEF ChildVariables, ChildrenIn
  <2> QED
    BY <1>1, <1>2, <1>4, <1>5, <2>1, <2>2, <2>3 DEF ReduceInv
<1>9. StoreInv'
  <2>1. \A P \in DOMAIN built' : NodesOf[built'[P]] \subseteq store'
    BY <1>1 DEF FromInv, StoreInv
  <2> QED
    BY <1>1, <1>5, <2>1 DEF FromInv, StoreInv
<1>10. AnswerInv'
  BY <1>1 DEF FromInv, AnswerInv
<1> QED
  BY <1>1, <1>3, <1>6, <1>8, <1>9, <1>10 DEF FromInv, StepFacts

\* The root is finished: the call returns the family of its sets.
LEMMA FromClosed ==
  ASSUME FromInv, CloseRoot
  PROVE  FromInv' /\ StepFacts
<1>1. /\ stage = "reduce" /\ siblings = {} /\ node_index = 1
      /\ Answer("ok", edge) /\ UNCHANGED <<sets, store, before, created>>
  BY DEF CloseRoot
<1>2. sets \in Family /\ UNION sets \subseteq Var /\ IsTrie(trie) /\ edge = PartialOf(sets, Prefix, siblings)
  BY <1>1, PrefixFacts
<1>3. Prefix = {}
  BY <1>1, <1>2 DEF Prefix, IsTrie
<1>4. edge = sets
  BY <1>1, <1>2, <1>3, PartialRoot
<1>5. NodesOf[sets] \subseteq store
  BY <1>4 DEF FromInv, StoreInv
<1>6. FromInv' /\ stage' = "idle" /\ built_from' = [kind |-> "ok", value |-> edge]
  <2>1. "ok" \in Answers /\ edge \in Family
    BY <1>2, <1>4 DEF Answers
  <2> QED
    BY <1>1, <1>5, <2>1, FromAnswer
<1> QED
  BY <1>1, <1>2, <1>4, <1>5, <1>6 DEF StepFacts

\* Every step of the construction.
LEMMA FromStep ==
  ASSUME FromInv, FromSetsStep
  PROVE  FromInv' /\ StepFacts
BY FromInsert, FromStart, FromAdd, FromFull, FromClose, FromClosed DEF FromSetsStep

----------------------------------------------------------------------------
(* The variable map.                                                       *)

MapKinds == {"universe_size", "map_length", "invalid_variable", "duplicate_variable", "order_mismatch"}

\* The five errors of validate_variable_map.
LEMMA MapErrorKinds ==
  ASSUME NEW m, NEW d
  PROVE  MapError(m, d) \subseteq MapKinds
BY DEF MapError, MapKinds

\* An accepted map has the length of the universe and keeps the order.
LEMMA AcceptedMap ==
  ASSUME NEW m, NEW d, MapError(m, d) = {}
  PROVE  /\ d = N /\ Len(m) = N
         /\ \A i \in DOMAIN m : ~(m[i] >= d)
         /\ \A i \in 1 .. N - 1 : ~(m[i] >= m[i + 1])
<1> DEFINE bad == {i \in DOMAIN m : BadEntry(m, d, i)}
<1>1. d = N
  <2>1. d # N => MapError(m, d) = {"universe_size"}
    BY DEF MapError
  <2> QED
    BY <2>1
<1>2. Len(m) = N
  <2>1. Len(m) # N => MapError(m, d) = {"map_length"}
    BY <1>1 DEF MapError
  <2> QED
    BY <2>1
<1>3. bad = {}
  <2>1. bad # {} => MapError(m, d) =
                      {IF m[Min(bad)] >= d THEN "invalid_variable" ELSE "duplicate_variable"}
    BY <1>1, <1>2 DEF MapError
  <2> QED
    BY <2>1
<1>4. ~\E i \in 1 .. N - 1 : m[i] >= m[i + 1]
  <2>1. (\E i \in 1 .. N - 1 : m[i] >= m[i + 1]) => MapError(m, d) = {"order_mismatch"}
    BY <1>1, <1>2, <1>3 DEF MapError
  <2> QED
    BY <2>1
<1>5. \A i \in DOMAIN m : ~(m[i] >= d)
  BY <1>3 DEF BadEntry
<1> QED
  BY <1>1, <1>2, <1>4, <1>5

\* The only map that is accepted is the identity.
LEMMA OnlyIdentity ==
  ASSUME NEW m \in Seq(Nat), NEW d, MapError(m, d) = {}
  PROVE  d = N /\ m = Identity
<1>1. /\ d = N /\ Len(m) = N /\ N \in Nat
      /\ \A i \in DOMAIN m : ~(m[i] >= d)
      /\ \A i \in 1 .. N - 1 : ~(m[i] >= m[i + 1])
  BY AcceptedMap, NAssumption
<1>2. m \in [1 .. N -> Nat] /\ DOMAIN m = 1 .. N
  BY <1>1, LenProperties
<1>3. \A i \in 1 .. N : m[i] \in Nat /\ m[i] < N
  BY <1>1, <1>2
<1>4. \A i \in 1 .. N : i + 1 \in 1 .. N => m[i] < m[i + 1]
  <2> SUFFICES ASSUME NEW i \in 1 .. N, i + 1 \in 1 .. N PROVE m[i] < m[i + 1]
    OBVIOUS
  <2>1. i \in 1 .. N - 1 /\ m[i] \in Nat /\ m[i + 1] \in Nat
    BY <1>1, <1>3
  <2>2. ~(m[i] >= m[i + 1])
    BY <1>1, <2>1
  <2> QED
    BY <2>1, <2>2
<1> DEFINE Up == {k \in Nat : k + 1 \in 1 .. N => m[k + 1] >= k}
           Down == {k \in Nat : N - k \in 1 .. N => m[N - k] <= N - k - 1}
<1>5. 0 \in Up
  BY <1>3
<1>6. ASSUME NEW k \in Nat, k < N, k \in Up PROVE k + 1 \in Up
  <2> SUFFICES ASSUME (k + 1) + 1 \in 1 .. N PROVE m[(k + 1) + 1] >= k + 1
    OBVIOUS
  <2>1. k + 1 \in 1 .. N
    BY <1>1
  <2>2. m[k + 1] >= k /\ m[k + 1] < m[(k + 1) + 1] /\ m[k + 1] \in Nat /\ m[(k + 1) + 1] \in Nat
    BY <1>3, <1>4, <1>6, <2>1
  <2> QED
    BY <2>2
<1>7. 0 \in Down
  <2> SUFFICES ASSUME N - 0 \in 1 .. N PROVE m[N - 0] <= N - 0 - 1
    OBVIOUS
  <2>1. N - 0 = N /\ N \in 1 .. N
    BY <1>1
  <2>2. m[N] \in Nat /\ m[N] < N
    BY <1>3, <2>1
  <2>3. m[N] <= N - 0 - 1
    BY <1>1, <2>2
  <2> QED
    BY <2>1, <2>3
<1>8. ASSUME NEW k \in Nat, k < N, k \in Down PROVE k + 1 \in Down
  <2> SUFFICES ASSUME N - (k + 1) \in 1 .. N PROVE m[N - (k + 1)] <= N - (k + 1) - 1
    OBVIOUS
  <2>1. N - k \in 1 .. N /\ (N - (k + 1)) + 1 = N - k
    BY <1>1
  <2>2. PICK i \in 1 .. N : i = N - (k + 1) /\ i + 1 = N - k /\ i + 1 \in 1 .. N
    BY <2>1
  <2>3. m[i] < m[i + 1] /\ m[i] \in Nat /\ m[i + 1] \in Nat
    BY <1>3, <1>4, <2>2
  <2>4. m[i + 1] <= N - k - 1
    BY <1>8, <2>1, <2>2
  <2>5. m[i] <= N - (k + 1) - 1
    BY <1>1, <2>3, <2>4
  <2> QED
    BY <2>2, <2>5
<1> HIDE DEF Up, Down
<1>9. 0 .. N \subseteq Up
  BY <1>1, <1>5, <1>6, SetInduction
<1>10. 0 .. N \subseteq Down
  BY <1>1, <1>7, <1>8, SetInduction
<1>11. \A i \in 1 .. N : m[i] = i - 1
  <2> SUFFICES ASSUME NEW i \in 1 .. N PROVE m[i] = i - 1
    OBVIOUS
  <2>1. i - 1 \in 0 .. N /\ (i - 1) + 1 = i /\ N - i \in 0 .. N /\ N - (N - i) = i
    BY <1>1
  <2>2. i - 1 \in Up /\ N - i \in Down
    BY <1>9, <1>10, <2>1
  <2>3. m[(i - 1) + 1] >= i - 1
    BY <2>1, <2>2 DEF Up
  <2>4. m[N - (N - i)] <= N - (N - i) - 1
    BY <2>1, <2>2 DEF Down
  <2>5. m[i] >= i - 1 /\ m[i] <= i - 1 /\ m[i] \in Nat
    BY <1>3, <2>1, <2>3, <2>4
  <2> QED
    BY <2>5
<1>12. m = Identity
  BY <1>2, <1>11 DEF Identity
<1> QED
  BY <1>1, <1>12

\* The identity is accepted.
LEMMA IdentityAccepted ==
  MapError(Identity, N) = {} /\ Identity \in Seq(Nat)
<1>1. N \in Nat
  BY NAssumption
<1>2. Identity \in [1 .. N -> Nat]
  BY DEF Identity
<1>3. Identity \in Seq(Nat)
  BY <1>1, <1>2, SeqDef
<1>4. Len(Identity) = N /\ DOMAIN Identity = 1 .. N
  <2>1. Len(Identity) \in Nat /\ DOMAIN Identity = 1 .. Len(Identity)
    BY <1>3, LenProperties
  <2>2. DOMAIN Identity = 1 .. N
    BY <1>2
  <2>3. PICK n \in Nat : n = Len(Identity) /\ 1 .. n = 1 .. N
    BY <2>1, <2>2
  <2>4. CASE n < N
    BY <1>1, <2>3, <2>4
  <2>5. CASE N < n
    BY <1>1, <2>3, <2>5
  <2>6. CASE n = N
    BY <2>2, <2>3, <2>6
  <2> QED
    BY <1>1, <2>4, <2>5, <2>6
<1>5. \A i \in 1 .. N : Identity[i] = i - 1
  BY DEF Identity
<1>6. \A i \in DOMAIN Identity : ~BadEntry(Identity, N, i)
  <2> SUFFICES ASSUME NEW i \in 1 .. N PROVE ~BadEntry(Identity, N, i)
    BY <1>4
  <2>1. ~(Identity[i] >= N)
    BY <1>1, <1>5
  <2>2. \A j \in 1 .. i - 1 : j \in 1 .. N /\ j - 1 # i - 1
    BY <1>1
  <2>3. \A j \in 1 .. i - 1 : Identity[j] # Identity[i]
    BY <1>5, <2>2
  <2> QED
    BY <2>1, <2>3 DEF BadEntry
<1>7. {i \in DOMAIN Identity : BadEntry(Identity, N, i)} = {}
  BY <1>6
<1>8. ~\E i \in 1 .. N - 1 : Identity[i] >= Identity[i + 1]
  <2> SUFFICES ASSUME NEW i \in 1 .. N - 1 PROVE ~(Identity[i] >= Identity[i + 1])
    OBVIOUS
  <2>1. i \in 1 .. N /\ i + 1 \in 1 .. N /\ (i + 1) - 1 = i
    BY <1>1
  <2>2. Identity[i] = i - 1 /\ Identity[i + 1] = i
    BY <1>5, <2>1
  <2> QED
    BY <2>2
<1> HIDE DEF Identity
<1>9. MapError(Identity, N) = {}
  BY <1>4, <1>7, <1>8 DEF MapError
<1> QED
  BY <1>3, <1>9

----------------------------------------------------------------------------
(* The discovered roots and their references.                              *)

\* The list p is q, perhaps with more roots behind it.
Grown(q, p) ==
  /\ Len(q) \in Nat /\ Len(p) \in Nat /\ Len(q) <= Len(p)
  /\ \A i \in 1 .. Len(q) : p[i] = q[i]

\* A root that is discovered is listed, and the list stays as it was.
LEMMA DiscoverFacts ==
  ASSUME NEW S, NEW q \in Seq(S), Distinct(q), NEW F \in Terminals \union S
  PROVE  /\ Discover(q, F) \in Seq(S) /\ Distinct(Discover(q, F))
         /\ Grown(q, Discover(q, F)) /\ F \in Listed(Discover(q, F))
<1>1. Len(q) \in Nat /\ DOMAIN q = 1 .. Len(q)
  BY LenProperties
<1>2. CASE F \in Listed(q)
  <2>1. Discover(q, F) = q
    BY <1>2 DEF Discover, Listed, Range
  <2> QED
    BY <1>1, <1>2, <2>1 DEF Grown
<1>3. CASE F \notin Listed(q)
  <2> DEFINE p == Append(q, F)
  <2>1. Discover(q, F) = p
    BY <1>3 DEF Discover, Listed, Range
  <2>2. F \in S
    BY <1>3 DEF Listed
  <2>3. /\ p \in Seq(S) /\ Len(p) = Len(q) + 1
        /\ \A i \in 1 .. Len(q) : p[i] = q[i]
        /\ p[Len(q) + 1] = F
    BY <2>2, AppendProperties
  <2> HIDE DEF p
  <2>4. DOMAIN p = 1 .. Len(q) + 1
    BY <2>3, LenProperties
  <2>5. \A i \in 1 .. Len(q) : q[i] # F
    BY <1>1, <1>3 DEF Listed
  <2>6. \A i \in DOMAIN p : i \in 1 .. Len(q) \/ i = Len(q) + 1
    BY <1>1, <2>4
  <2>7. Distinct(p)
    BY <1>1, <2>3, <2>5, <2>6 DEF Distinct
  <2>8. Len(q) + 1 \in DOMAIN p
    BY <1>1, <2>4
  <2> QED
    BY <1>1, <2>1, <2>3, <2>7, <2>8 DEF Listed, Grown
<1> QED
  BY <1>2, <1>3

\* What is listed stays listed.
LEMMA ListedStays ==
  ASSUME NEW S, NEW q \in Seq(S), NEW p \in Seq(S), Grown(q, p)
  PROVE  Listed(q) \subseteq Listed(p)
<1>1. /\ Len(q) \in Nat /\ DOMAIN q = 1 .. Len(q)
      /\ Len(p) \in Nat /\ DOMAIN p = 1 .. Len(p)
  BY LenProperties
<1>2. \A i \in DOMAIN q : i \in DOMAIN p /\ p[i] = q[i]
  BY <1>1 DEF Grown
<1> QED
  BY <1>2 DEF Listed

\* A root in the list has a reference that stands for it.
LEMMA ReferenceFacts ==
  ASSUME NEW S, NEW q \in Seq(S), NEW F, F \in Listed(q)
  PROVE  /\ Reference(F, q) \in 0 .. Len(q) + 1 /\ Reference(F, q) \in Nat
         /\ FamilyAt(Reference(F, q), q) = F
<1>1. Len(q) \in Nat /\ DOMAIN q = 1 .. Len(q)
  BY LenProperties
<1>2. CASE F \in Terminals
  <2>1. Zero # One
    BY DEF Zero, One
  <2> QED
    BY <1>1, <1>2, <2>1 DEF Reference, FamilyAt, Terminals
<1>3. CASE F \notin Terminals
  <2>1. Index(F, q) \in DOMAIN q /\ q[Index(F, q)] = F
    BY <1>3 DEF Index, Listed
  <2>2. Reference(F, q) = Index(F, q) + 1
    BY <1>3 DEF Reference, Terminals
  <2>3. PICK i : i = Index(F, q)
    OBVIOUS
  <2>4. i \in 1 .. Len(q) /\ q[i] = F /\ Reference(F, q) = i + 1
    BY <1>1, <2>1, <2>2, <2>3
  <2>5. (i + 1) - 1 = i /\ i + 1 # 0 /\ i + 1 # 1 /\ i + 1 \in 0 .. Len(q) + 1
    BY <1>1, <2>4
  <2> QED
    BY <2>4, <2>5 DEF FamilyAt
<1> QED
  BY <1>2, <1>3

FoundUpTo(n, argument, f) ==
  f = [i \in 0 .. n |-> IF i = 0 THEN << >> ELSE Discover(f[i - 1], argument[i])]

\* The lists of the families up to each of them exist.
LEMMA FoundExists ==
  ASSUME NEW n \in Nat, NEW argument
  PROVE  \E f : FoundUpTo(n, argument, f)
<1> DEFINE Step(t, k) == Discover(t, argument[k])
           Good == {m \in Nat : \E p : p = [k \in 0 .. m |-> IF k = 0 THEN << >> ELSE Step(p[k - 1], k)]}
<1> HIDE DEF Step
<1>1. 0 \in Good
  <2> DEFINE p == [k \in 0 .. 0 |-> << >>]
  <2>1. \A k \in 0 .. 0 : k = 0
    OBVIOUS
  <2>2. p = [k \in 0 .. 0 |-> IF k = 0 THEN << >> ELSE Step(p[k - 1], k)]
    BY <2>1
  <2> QED
    BY <2>2
<1>2. ASSUME NEW m \in Nat, m < n, m \in Good
      PROVE  m + 1 \in Good
  <2>1. PICK f : f = [k \in 0 .. m |-> IF k = 0 THEN << >> ELSE Step(f[k - 1], k)]
    BY <1>2
  <2> DEFINE g == [k \in 0 .. m + 1 |-> IF k = m + 1 THEN Step(f[m], m + 1) ELSE f[k]]
  <2>2. \A k \in 0 .. m + 1 : g[k] = IF k = 0 THEN << >> ELSE Step(g[k - 1], k)
    <3> SUFFICES ASSUME NEW k \in 0 .. m + 1 PROVE g[k] = IF k = 0 THEN << >> ELSE Step(g[k - 1], k)
      OBVIOUS
    <3>1. CASE k = m + 1
      <4>1. k # 0 /\ k - 1 = m /\ m \in 0 .. m + 1 /\ m # m + 1
        BY <3>1
      <4> QED
        BY <3>1, <4>1
    <3>2. CASE k = 0
      <4>1. k \in 0 .. m /\ k # m + 1
        BY <3>2
      <4> QED
        BY <2>1, <3>2, <4>1
    <3>3. CASE k # m + 1 /\ k # 0
      <4>1. k \in 0 .. m /\ k - 1 \in 0 .. m + 1 /\ k - 1 # m + 1
        BY <3>3
      <4> QED
        BY <2>1, <3>3, <4>1
    <3> QED
      BY <3>1, <3>2, <3>3
  <2>3. g = [k \in 0 .. m + 1 |-> g[k]]
    OBVIOUS
  <2> HIDE DEF g
  <2>4. g = [k \in 0 .. m + 1 |-> IF k = 0 THEN << >> ELSE Step(g[k - 1], k)]
    BY <2>2, <2>3, Zenon
  <2> QED
    BY <2>4
<1> HIDE DEF Good
<1>3. 0 .. n \subseteq Good
  BY <1>1, <1>2, SetInduction
<1>4. n \in Good
  BY <1>3
<1> QED
  BY <1>4 DEF Good, Step, FoundUpTo

\* All families are discovered, each once.
LEMMA DiscoverAllFacts ==
  ASSUME NEW S, NEW argument, Len(argument) \in Nat,
         \A i \in 1 .. Len(argument) : argument[i] \in Terminals \union S
  PROVE  /\ DiscoverAll(argument) \in Seq(S) /\ Distinct(DiscoverAll(argument))
         /\ \A i \in 1 .. Len(argument) : argument[i] \in Listed(DiscoverAll(argument))
<1> DEFINE n == Len(argument)
           f == CHOOSE f : FoundUpTo(n, argument, f)
<1>1. FoundUpTo(n, argument, f)
  BY FoundExists
<1>2. DiscoverAll(argument) = f[n]
  BY DEF DiscoverAll, FoundUpTo
<1> HIDE DEF f, n
<1>3. \A i \in 0 .. n : f[i] = IF i = 0 THEN << >> ELSE Discover(f[i - 1], argument[i])
  <2>1. f = [i \in 0 .. n |-> IF i = 0 THEN << >> ELSE Discover(f[i - 1], argument[i])]
    BY <1>1 DEF FoundUpTo
  <2> QED
    BY <2>1, Zenon
<1>4. n \in Nat /\ \A i \in 1 .. n : argument[i] \in Terminals \union S
  BY DEF n
<1> DEFINE Good == {k \in 0 .. n : /\ f[k] \in Seq(S) /\ Distinct(f[k])
                                   /\ \A i \in 1 .. k : argument[i] \in Listed(f[k])}
<1>5. 0 \in Good
  <2>1. f[0] = << >>
    <3>1. 0 \in 0 .. n
      BY <1>4
    <3> QED
      BY <1>3, <3>1, Zenon
  <2>2. << >> \in Seq(S) /\ Distinct(<< >>)
    <3>1. DOMAIN << >> = {}
      OBVIOUS
    <3> QED
      BY <3>1 DEF Distinct
  <2>3. f[0] \in Seq(S) /\ Distinct(f[0])
    BY <2>1, <2>2
  <2>4. 0 \in 0 .. n /\ 1 .. 0 = {}
    BY <1>4
  <2>5. \A i \in 1 .. 0 : argument[i] \in Listed(f[0])
    BY <2>4
  <2> QED
    BY <2>3, <2>4, <2>5
<1>6. ASSUME NEW k \in Nat, k < n, k \in Good
      PROVE  k + 1 \in Good
  <2>1. k + 1 \in 0 .. n /\ k + 1 \in 1 .. n /\ k + 1 # 0 /\ (k + 1) - 1 = k
    BY <1>4, <1>6
  <2>2. f[k + 1] = Discover(f[k], argument[k + 1])
    BY <1>3, <2>1
  <2>3. PICK q \in Seq(S), F \in Terminals \union S : q = f[k] /\ F = argument[k + 1]
    BY <1>4, <1>6, <2>1
  <2>4. Distinct(q) /\ \A i \in 1 .. k : argument[i] \in Listed(q)
    BY <1>6, <2>3
  <2>5. /\ Discover(q, F) \in Seq(S) /\ Distinct(Discover(q, F))
        /\ Grown(q, Discover(q, F)) /\ F \in Listed(Discover(q, F))
    BY <2>4, DiscoverFacts
  <2>6. Listed(q) \subseteq Listed(Discover(q, F))
    BY <2>5, ListedStays
  <2>7. \A i \in 1 .. k + 1 : argument[i] \in Listed(Discover(q, F))
    <3>1. \A i \in 1 .. k + 1 : i \in 1 .. k \/ i = k + 1
      OBVIOUS
    <3> QED
      BY <2>3, <2>4, <2>5, <2>6, <3>1
  <2> QED
    BY <2>1, <2>2, <2>3, <2>5, <2>7
<1> HIDE DEF Good
<1>7. 0 .. n \subseteq Good
  BY <1>4, <1>5, <1>6, SetInduction
<1>8. n \in Good
  BY <1>4, <1>7
<1> QED
  BY <1>2, <1>8 DEF Good, n

----------------------------------------------------------------------------
(* The stack of a rebuild.  It is looked at for a list q of roots, their    *)
(* nodes ns, a stack w and the state s of each node.                       *)

\* A reference that needs nothing.
Done(s, r) == r >= 2 => s[r - 1] = 2

\* Node i waits at place p: only nodes of later variables are above it, and
\* those of its children among them that are not done.
WaitsAt(q, ns, w, s, i, p) ==
  /\ w[p] = i + 1
  /\ \A x \in 1 .. p - 1 : w[x] >= 2 /\ TopVar(q[i]) < TopVar(q[w[x] - 1])
  /\ \A c \in {ns[i].hi, ns[i].lo} : Done(s, c) \/ \E x \in 1 .. p - 1 : w[x] = c

\* A complete copy of a diagram.
DagOf(q, ns) ==
  /\ q \in Seq(Family \ Terminals) /\ Distinct(q) /\ Len(ns) = Len(q)
  /\ \A i \in DOMAIN q : IsNodeOf(ns[i], q[i], q)

\* A node that was opened waits on the stack, one that was built has its children.
StackInv(q, ns, w, s) ==
  /\ w \in Seq(0 .. Len(q) + 1)
  /\ s \in [DOMAIN q -> 0 .. 2]
  /\ \A i \in DOMAIN q : s[i] = 1 => \E p \in DOMAIN w : WaitsAt(q, ns, w, s, i, p)
  /\ \A i \in DOMAIN q : s[i] = 2 => Done(s, ns[i].hi) /\ Done(s, ns[i].lo)

\* A child of a node stands for a terminal or for a node of a later variable.
LEMMA DagChild ==
  ASSUME NEW q, NEW ns, DagOf(q, ns), NEW i \in DOMAIN q, NEW c \in {ns[i].hi, ns[i].lo}
  PROVE  /\ c \in 0 .. Len(q) + 1 /\ Len(q) \in Nat /\ DOMAIN q = 1 .. Len(q)
         /\ TopVar(q[i]) \in Int
         /\ c >= 2 => c - 1 \in DOMAIN q /\ TopVar(q[c - 1]) \in Int /\ TopVar(q[i]) < TopVar(q[c - 1])
<1>1. q \in Seq(Family \ Terminals) /\ Len(q) \in Nat /\ DOMAIN q = 1 .. Len(q)
  BY LenProperties DEF DagOf
<1>2. IsNodeOf(ns[i], q[i], q)
  BY DEF DagOf
<1>3. \A j \in DOMAIN q : q[j] \in Family /\ q[j] \notin Terminals
  BY <1>1, ElementOfSeq
<1>4. \A j \in DOMAIN q : TopVar(q[j]) \in Var /\ TopVar(q[j]) \in Support(q[j])
  BY <1>3, TopExists DEF Terminals, IsTop
<1>5. \A w \in Support(Hi(TopVar(q[i]), q[i])) \union Support(Lo(TopVar(q[i]), q[i])) : TopVar(q[i]) < w
  BY <1>3, Branching
<1>6. c \in 0 .. Len(q) + 1
  BY <1>2 DEF IsNodeOf
<1>7. FamilyAt(c, q) \in {Hi(TopVar(q[i]), q[i]), Lo(TopVar(q[i]), q[i])}
  BY <1>2 DEF IsNodeOf
<1>8. ASSUME c >= 2 PROVE c - 1 \in DOMAIN q /\ TopVar(q[i]) < TopVar(q[c - 1])
  <2>1. c - 1 \in DOMAIN q /\ c # 0 /\ c # 1
    BY <1>1, <1>6, <1>8
  <2>2. FamilyAt(c, q) = q[c - 1]
    BY <2>1 DEF FamilyAt
  <2>3. PICK j \in DOMAIN q : j = c - 1
    BY <2>1
  <2>4. TopVar(q[j]) \in Support(Hi(TopVar(q[i]), q[i])) \union Support(Lo(TopVar(q[i]), q[i]))
    BY <1>4, <1>7, <2>2, <2>3
  <2> QED
    BY <1>5, <2>1, <2>3, <2>4
<1> QED
  BY <1>1, <1>4, <1>6, <1>8, VariablesAreIntegers

\* The node that is on top and waits has its children.
LEMMA TopIsReady ==
  ASSUME NEW q, NEW ns, DagOf(q, ns), NEW w, NEW s, StackInv(q, ns, w, s),
         NEW i \in DOMAIN q, w[1] = i + 1, s[i] = 1
  PROVE  Done(s, ns[i].hi) /\ Done(s, ns[i].lo)
<1>1. PICK p \in DOMAIN w : WaitsAt(q, ns, w, s, i, p)
  BY DEF StackInv
<1>2. Len(w) \in Nat /\ DOMAIN w = 1 .. Len(w)
  BY LenProperties DEF StackInv
<1>3. i \in Int /\ TopVar(q[i]) \in Int
  BY DagChild
<1>4. ~(1 \in 1 .. p - 1)
  <2> SUFFICES ASSUME 1 \in 1 .. p - 1 PROVE FALSE
    OBVIOUS
  <2>1. TopVar(q[i]) < TopVar(q[w[1] - 1])
    BY <1>1 DEF WaitsAt
  <2>2. w[1] - 1 = i
    BY <1>3
  <2> QED
    BY <1>3, <2>1, <2>2
<1>5. 1 .. p - 1 = {}
  BY <1>1, <1>2, <1>4
<1> QED
  BY <1>1, <1>5 DEF WaitsAt

\* The top is taken off: it needs nothing any more.
LEMMA StackPop ==
  ASSUME NEW q, NEW ns, DagOf(q, ns), NEW w, NEW s, StackInv(q, ns, w, s), w # << >>,
         NEW s2 \in [DOMAIN q -> 0 .. 2], Done(s2, w[1]),
         \A j \in DOMAIN q : /\ s[j] = 2 => s2[j] = 2
                             /\ s2[j] = 1 => s[j] = 1
                             /\ s2[j] = 2 => Done(s, ns[j].hi) /\ Done(s, ns[j].lo)
  PROVE  StackInv(q, ns, Tail(w), s2)
<1> DEFINE t == Tail(w)
<1>1. /\ w \in Seq(0 .. Len(q) + 1) /\ t \in Seq(0 .. Len(q) + 1)
      /\ Len(w) \in Nat /\ DOMAIN w = 1 .. Len(w) /\ Len(t) = Len(w) - 1 /\ DOMAIN t = 1 .. Len(t)
      /\ \A x \in 1 .. Len(t) : t[x] = w[x + 1]
  <2>1. w \in Seq(0 .. Len(q) + 1)
    BY DEF StackInv
  <2>2. t \in Seq(0 .. Len(q) + 1) /\ Len(t) = Len(w) - 1 /\ \A x \in 1 .. Len(t) : t[x] = w[x + 1]
    BY <2>1, HeadTailProperties
  <2> QED
    BY <2>1, <2>2, LenProperties
<1> HIDE DEF t
<1>2. \A j \in DOMAIN q : \A c \in {ns[j].hi, ns[j].lo} : Done(s, c) => Done(s2, c)
  <2> SUFFICES ASSUME NEW j \in DOMAIN q, NEW c \in {ns[j].hi, ns[j].lo}, Done(s, c) PROVE Done(s2, c)
    OBVIOUS
  <2>1. c >= 2 => c - 1 \in DOMAIN q
    BY DagChild
  <2> QED
    BY <2>1 DEF Done
<1>3. ASSUME NEW i \in DOMAIN q, s2[i] = 1
      PROVE  \E p \in DOMAIN t : WaitsAt(q, ns, t, s2, i, p)
  <2>1. PICK p \in DOMAIN w : WaitsAt(q, ns, w, s, i, p)
    BY <1>3 DEF StackInv
  <2>2. i \in Int /\ i >= 1
    BY DagChild
  <2>3. p # 1
    <3> SUFFICES ASSUME p = 1 PROVE FALSE
      OBVIOUS
    <3>1. w[1] = i + 1
      BY <2>1 DEF WaitsAt
    <3>2. w[1] >= 2 /\ w[1] - 1 = i
      BY <2>2, <3>1
    <3>3. s2[i] = 2
      BY <3>2 DEF Done
    <3> QED
      BY <1>3, <3>3
  <2>4. p - 1 \in DOMAIN t /\ p - 1 \in 1 .. Len(t) /\ (p - 1) + 1 = p
    BY <1>1, <2>1, <2>3
  <2>10. p \in Int /\ p - 1 \in 1 .. Len(t) /\ Len(t) \in Int
    BY <1>1, <2>1, <2>4
  <2>5. \A x \in 1 .. (p - 1) - 1 : x \in 1 .. Len(t) /\ x + 1 \in 1 .. p - 1
    BY ONLY <2>10
  <2>6. t[p - 1] = i + 1
    BY <1>1, <2>1, <2>4 DEF WaitsAt
  <2>7. \A x \in 1 .. (p - 1) - 1 : t[x] >= 2 /\ TopVar(q[i]) < TopVar(q[t[x] - 1])
    BY <1>1, <2>1, <2>5 DEF WaitsAt
  <2>8. ASSUME NEW c \in {ns[i].hi, ns[i].lo}, ~Done(s2, c)
        PROVE  \E x \in 1 .. (p - 1) - 1 : t[x] = c
    <3>1. PICK x \in 1 .. p - 1 : w[x] = c
      BY <1>2, <2>1, <2>8 DEF WaitsAt
    <3>2. x # 1
      BY <2>8, <3>1
    <3>5. x \in 1 .. p - 1 /\ x # 1
      BY <3>2
    <3>3. x - 1 \in 1 .. (p - 1) - 1 /\ (x - 1) + 1 = x /\ x - 1 \in 1 .. Len(t)
      BY ONLY <2>10, <3>5
    <3>4. t[x - 1] = c
      BY <1>1, <3>1, <3>3
    <3> QED
      BY <3>3, <3>4
  <2>9. WaitsAt(q, ns, t, s2, i, p - 1)
    BY <2>6, <2>7, <2>8 DEF WaitsAt
  <2> QED
    BY <2>4, <2>9
<1>4. \A i \in DOMAIN q : s2[i] = 2 => Done(s2, ns[i].hi) /\ Done(s2, ns[i].lo)
  BY <1>2
<1>5. StackInv(q, ns, t, s2)
  BY <1>1, <1>3, <1>4 DEF StackInv
<1> QED
  BY <1>5 DEF t

\* A reference that was not seen yet.
New(c, s) == c >= 2 /\ s[c - 1] = 0

\* k references are put on a stack: each is one of two that was not seen yet, and
\* those of the two that were not are there.
Pushed(w2, w, s, k, hi, lo) ==
  /\ k \in Nat /\ Len(w2) = k + Len(w)
  /\ \A x \in 1 .. Len(w) : w2[k + x] = w[x]
  /\ \A x \in 1 .. k : w2[x] \in {hi, lo} /\ New(w2[x], s)
  /\ \A c \in {hi, lo} : New(c, s) => \E x \in 1 .. k : w2[x] = c

\* OpenNode puts the children on the stack that were not seen yet.
LEMMA PushedFacts ==
  ASSUME NEW R, NEW w \in Seq(R), NEW s, NEW hi \in R, NEW lo \in R,
         NEW a, a = (IF New(hi, s) THEN <<hi>> ELSE << >>),
         NEW b, b = (IF New(lo, s) THEN <<lo>> ELSE << >>),
         NEW u, u = a \o b \o w
  PROVE  u \in Seq(R) /\ \E k \in Nat : Pushed(u, w, s, k, hi, lo)
<1> DEFINE A == New(hi, s)
           B == New(lo, s)
<1>0. a = (IF A THEN <<hi>> ELSE << >>) /\ b = (IF B THEN <<lo>> ELSE << >>)
  OBVIOUS
<1>15. /\ A => New(hi, s)
       /\ B => New(lo, s)
       /\ New(hi, s) => A
       /\ New(lo, s) => B
  OBVIOUS
<1> HIDE DEF A, B
<1> DEFINE v == a \o b
           k == Len(v)
           w2 == v \o w
<1>1. /\ a \in Seq(R) /\ b \in Seq(R)
      /\ A => Len(a) = 1 /\ a[1] = hi
      /\ ~A => Len(a) = 0
      /\ B => Len(b) = 1 /\ b[1] = lo
      /\ ~B => Len(b) = 0
  <2>1. <<hi>> \in Seq(R) /\ Len(<<hi>>) = 1 /\ <<hi>>[1] = hi
    OBVIOUS
  <2>2. <<lo>> \in Seq(R) /\ Len(<<lo>>) = 1 /\ <<lo>>[1] = lo
    OBVIOUS
  <2>3. << >> \in Seq(R) /\ Len(<< >>) = 0
    OBVIOUS
  <2> QED
    BY <1>0, <2>1, <2>2, <2>3
<1>2. Len(a) \in Nat /\ Len(b) \in Nat /\ Len(w) \in Nat
  BY <1>1, LenProperties
<1>3. /\ v \in Seq(R) /\ Len(v) = Len(a) + Len(b)
      /\ \A i \in 1 .. Len(a) + Len(b) : v[i] = IF i <= Len(a) THEN a[i] ELSE b[i - Len(a)]
  BY <1>1, ConcatProperties
<1> HIDE DEF v
<1>4. /\ w2 \in Seq(R) /\ Len(w2) = Len(v) + Len(w)
      /\ \A i \in 1 .. Len(v) + Len(w) : w2[i] = IF i <= Len(v) THEN v[i] ELSE w[i - Len(v)]
  BY <1>3, ConcatProperties
<1> HIDE DEF w2
<1>5. k \in Nat /\ Len(v) = k
  BY <1>2, <1>3
<1> HIDE DEF k
<1>6. \A x \in 1 .. Len(w) : w2[k + x] = w[x]
  <2> SUFFICES ASSUME NEW x \in 1 .. Len(w) PROVE w2[k + x] = w[x]
    OBVIOUS
  <2>1. k + x \in 1 .. Len(v) + Len(w) /\ ~(k + x <= Len(v)) /\ (k + x) - Len(v) = x
    BY <1>2, <1>5
  <2> QED
    BY <1>4, <2>1
<1>7. \A x \in 1 .. k : w2[x] = v[x]
  <2> SUFFICES ASSUME NEW x \in 1 .. k PROVE w2[x] = v[x]
    OBVIOUS
  <2>1. x \in 1 .. Len(v) + Len(w) /\ x <= Len(v)
    BY <1>2, <1>5
  <2> QED
    BY <1>4, <2>1
<1>8. \A x \in 1 .. k : (A /\ v[x] = hi) \/ (B /\ v[x] = lo)
  <2> SUFFICES ASSUME NEW x \in 1 .. k PROVE (A /\ v[x] = hi) \/ (B /\ v[x] = lo)
    OBVIOUS
  <2>1. x \in 1 .. Len(a) + Len(b)
    BY <1>3, <1>5
  <2>2. CASE x <= Len(a)
    <3>1. A /\ x = 1
      BY <1>1, <1>2, <2>2
    <3> QED
      BY <1>1, <1>3, <2>1, <2>2, <3>1
  <2>3. CASE ~(x <= Len(a))
    <3>1. x - Len(a) \in 1 .. Len(b)
      BY <1>2, <2>1, <2>3
    <3>2. B /\ x - Len(a) = 1
      BY <1>1, <1>2, <3>1
    <3>3. v[x] = b[x - Len(a)]
      BY <1>3, <2>1, <2>3
    <3> QED
      BY <1>1, <3>2, <3>3
  <2> QED
    BY <2>2, <2>3
<1>9. A => \E x \in 1 .. k : v[x] = hi
  <2> SUFFICES ASSUME A PROVE \E x \in 1 .. k : v[x] = hi
    OBVIOUS
  <2>1. 1 \in 1 .. k /\ 1 \in 1 .. Len(a) + Len(b) /\ 1 <= Len(a)
    BY <1>1, <1>2, <1>3, <1>5
  <2>2. v[1] = hi
    BY <1>1, <1>3, <2>1
  <2> QED
    BY <2>1, <2>2
<1>10. B => \E x \in 1 .. k : v[x] = lo
  <2> SUFFICES ASSUME B PROVE \E x \in 1 .. k : v[x] = lo
    OBVIOUS
  <2>1. /\ Len(a) + 1 \in 1 .. k /\ Len(a) + 1 \in 1 .. Len(a) + Len(b) /\ ~(Len(a) + 1 <= Len(a))
        /\ (Len(a) + 1) - Len(a) = 1
    BY <1>1, <1>2, <1>3, <1>5
  <2>2. v[Len(a) + 1] = lo
    BY <1>1, <1>3, <2>1
  <2> QED
    BY <2>1, <2>2
<1>11. \A x \in 1 .. k : w2[x] \in {hi, lo} /\ New(w2[x], s)
  BY <1>15, <1>7, <1>8
<1>12. \A c \in {hi, lo} : New(c, s) => \E x \in 1 .. k : w2[x] = c
  <2>1. New(hi, s) => \E x \in 1 .. k : w2[x] = hi
    BY <1>15, <1>7, <1>9
  <2>2. New(lo, s) => \E x \in 1 .. k : w2[x] = lo
    BY <1>15, <1>7, <1>10
  <2> QED
    BY <2>1, <2>2
<1>13. Pushed(w2, w, s, k, hi, lo)
  BY <1>4, <1>5, <1>6, <1>11, <1>12 DEF Pushed
<1>14. u = w2
  BY DEF w2, v
<1> QED
  BY <1>4, <1>5, <1>13, <1>14

\* A node is opened: it waits below its children that were not seen yet.
LEMMA StackOpen ==
  ASSUME NEW q, NEW ns, DagOf(q, ns), NEW w, NEW s, StackInv(q, ns, w, s), w # << >>,
         NEW i \in DOMAIN q, w[1] = i + 1, s[i] = 0,
         NEW s2, s2 = [s EXCEPT ![i] = 1],
         NEW hi, hi = ns[i].hi, NEW lo, lo = ns[i].lo,
         NEW w2 \in Seq(0 .. Len(q) + 1), NEW k,
         Pushed(w2, w, s, k, hi, lo)
  PROVE  StackInv(q, ns, w2, s2)
<1>1. /\ w \in Seq(0 .. Len(q) + 1) /\ Len(w) \in Nat /\ DOMAIN w = 1 .. Len(w) /\ Len(w) >= 1
      /\ s \in [DOMAIN q -> 0 .. 2]
  <2>1. w \in Seq(0 .. Len(q) + 1) /\ s \in [DOMAIN q -> 0 .. 2]
    BY DEF StackInv
  <2>2. Len(w) \in Nat \ {0} /\ DOMAIN w = 1 .. Len(w)
    BY <2>1, LenProperties, EmptySeq
  <2> QED
    BY <2>1, <2>2
<1>2. s2 \in [DOMAIN q -> 0 .. 2] /\ s2[i] = 1 /\ \A j \in DOMAIN q \ {i} : s2[j] = s[j]
  BY <1>1
<1>3. /\ k \in Nat /\ Len(w2) = k + Len(w) /\ DOMAIN w2 = 1 .. k + Len(w)
      /\ \A x \in 1 .. Len(w) : w2[k + x] = w[x]
      /\ \A x \in 1 .. k : w2[x] \in {hi, lo} /\ w2[x] >= 2 /\ s[w2[x] - 1] = 0
      /\ \A c \in {hi, lo} : c >= 2 /\ s[c - 1] = 0 => \E x \in 1 .. k : w2[x] = c
  <2>1. DOMAIN w2 = 1 .. Len(w2)
    BY LenProperties
  <2> QED
    BY <2>1 DEF Pushed, New
<1>4. \A j \in DOMAIN q : \A c \in {ns[j].hi, ns[j].lo} :
        /\ c \in Int /\ TopVar(q[j]) \in Int
        /\ c >= 2 => c - 1 \in DOMAIN q /\ TopVar(q[c - 1]) \in Int /\ TopVar(q[j]) < TopVar(q[c - 1])
  BY DagChild, SMTT(60)
<1>5. \A j \in DOMAIN q : \A c \in {ns[j].hi, ns[j].lo} : Done(s, c) => Done(s2, c)
  <2> SUFFICES ASSUME NEW j \in DOMAIN q, NEW c \in {ns[j].hi, ns[j].lo}, Done(s, c) PROVE Done(s2, c)
    OBVIOUS
  <2>1. c >= 2 => c - 1 \in DOMAIN q
    BY <1>4
  <2>2. c >= 2 => c - 1 # i
    BY DEF Done
  <2> QED
    BY <1>2, <2>1, <2>2 DEF Done
<1>6. \A j \in DOMAIN q : j \in Int /\ j >= 1
  BY DagChild
\* No child of the top was opened before.
<1>7. ASSUME NEW c \in {hi, lo}, c >= 2
      PROVE  s[c - 1] # 1
  <2> SUFFICES ASSUME s[c - 1] = 1 PROVE FALSE
    OBVIOUS
  <2>1. PICK j \in DOMAIN q : j = c - 1 /\ TopVar(q[j]) \in Int /\ TopVar(q[i]) \in Int /\ TopVar(q[i]) < TopVar(q[j])
    BY <1>4, <1>7
  <2>2. PICK p \in DOMAIN w : WaitsAt(q, ns, w, s, j, p)
    BY <2>1 DEF StackInv
  <2>3. j # i
    BY <2>1
  <2>4. p # 1
    BY <1>6, <2>2, <2>3 DEF WaitsAt
  <2>5. 1 \in 1 .. p - 1
    BY <1>1, <2>2, <2>4
  <2>6. TopVar(q[j]) < TopVar(q[w[1] - 1])
    BY <2>2, <2>5 DEF WaitsAt
  <2>7. w[1] - 1 = i
    BY <1>6
  <2> QED
    BY <2>1, <2>6, <2>7
<1>8. \E p \in DOMAIN w2 : WaitsAt(q, ns, w2, s2, i, p)
  <2>1. k + 1 \in DOMAIN w2 /\ 1 \in 1 .. Len(w) /\ (k + 1) - 1 = k
    BY <1>1, <1>3
  <2>2. w2[k + 1] = i + 1
    BY <1>3, <2>1
  <2>3. \A x \in 1 .. k : w2[x] >= 2 /\ TopVar(q[i]) < TopVar(q[w2[x] - 1])
    BY <1>3, <1>4
  <2>4. ASSUME NEW c \in {ns[i].hi, ns[i].lo}
        PROVE  Done(s2, c) \/ \E x \in 1 .. k : w2[x] = c
    <3>1. CASE ~(c >= 2)
      BY <3>1 DEF Done
    <3>2. CASE c >= 2 /\ s[c - 1] = 0
      BY <1>3, <3>2
    <3>3. CASE c >= 2 /\ s[c - 1] # 0
      <4>1. c - 1 \in DOMAIN q /\ s[c - 1] # 1
        BY <1>4, <1>7, <3>3
      <4>2. s[c - 1] \in 0 .. 2
        BY <1>1, <4>1
      <4>3. s[c - 1] = 2
        BY <3>3, <4>1, <4>2
      <4>4. Done(s, c)
        BY <4>3 DEF Done
      <4> QED
        BY <1>5, <4>4
    <3> QED
      BY <3>1, <3>2, <3>3
  <2>5. WaitsAt(q, ns, w2, s2, i, k + 1)
    BY <2>1, <2>2, <2>3, <2>4 DEF WaitsAt
  <2> QED
    BY <2>1, <2>5
<1>9. ASSUME NEW j \in DOMAIN q, j # i, s[j] = 1
      PROVE  \E p \in DOMAIN w2 : WaitsAt(q, ns, w2, s2, j, p)
  <2>1. PICK p \in DOMAIN w : WaitsAt(q, ns, w, s, j, p)
    BY <1>9 DEF StackInv
  <2>2. p # 1
    BY <1>6, <1>9, <2>1 DEF WaitsAt
  <2>3. 1 \in 1 .. p - 1 /\ p \in 1 .. Len(w) /\ p \in Int
    BY <1>1, <2>1, <2>2
  <2>10. k \in Nat /\ Len(w) \in Nat /\ p \in 1 .. Len(w) /\ DOMAIN w2 = 1 .. k + Len(w)
    BY <1>1, <1>3, <2>3
  <2>4. TopVar(q[j]) < TopVar(q[i])
    <3>1. TopVar(q[j]) < TopVar(q[w[1] - 1])
      BY <2>1, <2>3 DEF WaitsAt
    <3>2. w[1] - 1 = i
      BY <1>6
    <3> QED
      BY <3>1, <3>2
  <2>5. w2[k + p] = j + 1
    BY <1>3, <2>1, <2>3 DEF WaitsAt
  <2>6. ASSUME NEW x \in 1 .. (k + p) - 1
        PROVE  w2[x] >= 2 /\ TopVar(q[j]) < TopVar(q[w2[x] - 1])
    <3>1. CASE x \in 1 .. k
      <4>1. PICK c \in {hi, lo} : c = w2[x] /\ c >= 2
        BY <1>3, <3>1
      <4>2. /\ TopVar(q[i]) \in Int /\ TopVar(q[c - 1]) \in Int /\ TopVar(q[i]) < TopVar(q[c - 1])
        BY <1>4, <4>1
      <4>3. TopVar(q[j]) \in Int
        BY <1>4
      <4>4. TopVar(q[j]) < TopVar(q[c - 1])
        BY <2>4, <4>2, <4>3
      <4> QED
        BY <4>1, <4>4
    <3>2. CASE x \notin 1 .. k
      <4>3. x \in 1 .. (k + p) - 1 /\ x \notin 1 .. k
        BY <3>2
      <4>1. x - k \in 1 .. p - 1 /\ x - k \in 1 .. Len(w) /\ k + (x - k) = x
        <5>1. PICK n \in Nat : n = Len(w) /\ k \in Nat /\ p \in Int /\ p <= n
          BY ONLY <2>10
        <5>2. PICK y \in Int : y = x /\ k < y /\ y <= (k + p) - 1
          BY ONLY <4>3, <5>1
        <5>3. y - k \in 1 .. p - 1 /\ y - k \in 1 .. n /\ k + (y - k) = y
          BY ONLY <5>1, <5>2
        <5> QED
          BY ONLY <5>1, <5>2, <5>3
      <4>2. w2[x] = w[x - k]
        BY <1>3, <4>1
      <4> QED
        BY <2>1, <4>1, <4>2 DEF WaitsAt
    <3> QED
      BY <3>1, <3>2
  <2>7. ASSUME NEW c \in {ns[j].hi, ns[j].lo}, ~Done(s2, c)
        PROVE  \E x \in 1 .. (k + p) - 1 : w2[x] = c
    <3>1. PICK x \in 1 .. p - 1 : w[x] = c
      BY <1>5, <2>1, <2>7 DEF WaitsAt
    <3>3. x \in 1 .. p - 1
      OBVIOUS
    <3>2. x \in 1 .. Len(w) /\ k + x \in 1 .. (k + p) - 1
      <4>1. PICK n \in Nat : n = Len(w) /\ k \in Nat /\ p \in Int /\ p <= n
        BY ONLY <2>10
      <4>2. PICK y \in Int : y = x /\ 1 <= y /\ y <= p - 1
        BY ONLY <3>3, <4>1
      <4>3. y \in 1 .. n /\ k + y \in 1 .. (k + p) - 1
        BY ONLY <4>1, <4>2
      <4> QED
        BY ONLY <4>1, <4>2, <4>3
    <3> QED
      BY <1>3, <3>1, <3>2
  <2>8. WaitsAt(q, ns, w2, s2, j, k + p)
    BY <2>5, <2>6, <2>7 DEF WaitsAt
  <2>9. k + p \in DOMAIN w2
    BY ONLY <2>10
  <2> QED
    BY <2>8, <2>9
<1>10. \A j \in DOMAIN q : s2[j] = 1 => \E p \in DOMAIN w2 : WaitsAt(q, ns, w2, s2, j, p)
  BY <1>2, <1>8, <1>9
<1>11. \A j \in DOMAIN q : s2[j] = 2 => Done(s2, ns[j].hi) /\ Done(s2, ns[j].lo)
  <2> SUFFICES ASSUME NEW j \in DOMAIN q, s2[j] = 2 PROVE Done(s2, ns[j].hi) /\ Done(s2, ns[j].lo)
    OBVIOUS
  <2>1. s[j] = 2
    BY <1>2
  <2>2. Done(s, ns[j].hi) /\ Done(s, ns[j].lo)
    BY <2>1 DEF StackInv
  <2> QED
    BY <1>5, <2>2
<1> QED
  BY <1>2, <1>10, <1>11 DEF StackInv

----------------------------------------------------------------------------
(* The invariant of the import.                                            *)

Running == passage \in {"copy", "build"}

\* The nodes of the families to copy, of the destination before, and of both.
HeldNodes == Nodes(Range(held))
Ready == Nodes(ManagerRoots \union destination.holds)
Whole == Nodes(ManagerRoots \union destination.holds \union Range(held))

\* What the call was asked for.
RequestInv ==
  /\ passage \in {"idle", "copy", "build", "returned"}
  /\ destination.capacity \in Nat /\ destination.holds \in SUBSET Family
  /\ passage # "returned" => imported = Unanswered
  /\ Running => families = held /\ variable_map = Identity

TypedInv ==
  /\ roots \in Seq(Family \ Terminals) /\ nodes \in Seq([variable : Var, hi : Nat, lo : Nat])
  /\ \A i \in DOMAIN copies : copies[i] \subseteq Family
  /\ \A i \in DOMAIN state : state[i] \in 0 .. 2
  /\ work \in Seq(Nat) /\ copied \in Nat
  /\ target \subseteq Family \ Terminals
  /\ passage = "idle" => nodes = << >>

\* The nodes copied so far are those of the first roots, and their references are
\* right.
CopyInv ==
  Running =>
    /\ roots \in Seq(HeldNodes) /\ Distinct(roots)
    /\ \A F \in Range(held) : F \in Listed(roots)
    /\ Len(nodes) <= Len(roots)
    /\ \A i \in 1 .. Len(nodes) : IsNodeOf(nodes[i], roots[i], roots)

\* The destination has what it had and the copies, and all that a family still
\* needs is on the stack.
BuildInv ==
  /\ passage = "copy" => target = Ready
  /\ passage = "build" =>
       /\ Len(nodes) = Len(roots)
       /\ copies = [i \in DOMAIN roots |-> IF state[i] = 2 THEN {roots[i]} ELSE {}]
       /\ target = Ready \union {roots[i] : i \in {j \in DOMAIN roots : state[j] = 2}}
       /\ StackInv(roots, nodes, work, state)
       /\ \A i \in DOMAIN families : Done(state, RootReferences[i]) \/ RootReferences[i] \in Range(work)

\* What each answer says.
ReturnInv ==
  /\ imported.kind \in {"none", "ok", "node_limit", "context_mismatch"} \union MapKinds
  /\ imported.kind = "ok" => variable_map = Identity /\ imported.copies = held
  /\ imported.kind = "ok" /\ held # << >> => target = Whole
  /\ imported.kind = "node_limit" => Cardinality(Whole) > destination.capacity
  /\ imported.kind \in MapKinds => imported.kind \in MapError(variable_map, destination.variables)

ImportInv == RequestInv /\ TypedInv /\ CopyInv /\ BuildInv /\ ReturnInv

\* The first state has the invariant of the import.
LEMMA ImportStart ==
  Init => ImportInv
<1> SUFFICES ASSUME Init PROVE ImportInv
  OBVIOUS
<1> USE DEF Init, ImportInit
<1>1. RequestInv
  <2>1. destination.capacity \in Nat /\ destination.holds \in SUBSET Family
    OBVIOUS
  <2> QED
    BY <2>1 DEF RequestInv, Running
<1>2. TypedInv
  <2>1. DOMAIN << >> = {}
    OBVIOUS
  <2>2. target \subseteq Family \ Terminals
    BY ManagerNodes
  <2>3. /\ << >> \in Seq(Family \ Terminals) /\ << >> \in Seq([variable : Var, hi : Nat, lo : Nat])
        /\ << >> \in Seq(Nat)
    BY EmptySeq
  <2> QED
    BY <2>1, <2>2, <2>3 DEF TypedInv
<1>3. CopyInv /\ BuildInv
  BY DEF CopyInv, BuildInv, Running
<1>4. ReturnInv
  BY DEF ReturnInv, Unanswered, MapKinds
<1> QED
  BY <1>1, <1>2, <1>3, <1>4 DEF ImportInv

\* Before the import the families may change.
LEMMA ImportIdle ==
  ASSUME ImportInv, passage = "idle", UNCHANGED import_vars
  PROVE  ImportInv'
<1>1. UNCHANGED <<families, variable_map, destination, passage, roots, nodes,
                  copies, state, work, target, copied, imported>>
  BY DEF import_vars, request_vars, dag, build_vars
<1>2. imported = Unanswered
  BY DEF ImportInv, RequestInv
<1>3. RequestInv'
  BY <1>1 DEF ImportInv, RequestInv, Running
<1>4. TypedInv'
  BY <1>1 DEF ImportInv, TypedInv
<1>5. CopyInv' /\ BuildInv'
  BY <1>1 DEF CopyInv, BuildInv, Running
<1>6. ReturnInv'
  BY <1>1, <1>2 DEF ReturnInv, Unanswered, MapKinds
<1> QED
  BY <1>3, <1>4, <1>5, <1>6 DEF ImportInv

\* A call is refused, or has nothing to copy.
LEMMA ImportRefused ==
  ASSUME ImportInv, held \in Seq(Family), NEW m \in Seq(Nat),
         NEW d \in [variables : Nat, capacity : Nat, holds : SUBSET Family],
         ImportNothing(held, m, d), held' = held
  PROVE  ImportInv' /\ passage' = "returned"
<1>1. /\ variable_map' = m /\ destination' = d /\ passage = "idle" /\ passage' = "returned"
      /\ UNCHANGED <<roots, nodes, copies, state, work, target, copied>>
  BY DEF ImportNothing, Call, ImportReturns, dag, build_vars
<1>2. \/ \E kind \in MapError(m, d.variables) : imported' = [kind |-> kind, copies |-> << >>]
      \/ MapError(m, d.variables) = {} /\ held = << >> /\ imported' = [kind |-> "ok", copies |-> << >>]
  BY DEF ImportNothing, ImportReturns
<1>3. RequestInv'
  BY <1>1 DEF RequestInv, Running
<1>4. TypedInv'
  BY <1>1 DEF ImportInv, TypedInv
<1>5. CopyInv' /\ BuildInv'
  BY <1>1 DEF CopyInv, BuildInv, Running
<1>6. ReturnInv'
  <2>1. ASSUME NEW kind \in MapError(m, d.variables), imported' = [kind |-> kind, copies |-> << >>]
        PROVE  ReturnInv'
    <3>1. kind \in MapKinds /\ imported'.kind = kind
      BY <2>1, MapErrorKinds
    <3>2. kind # "ok" /\ kind # "node_limit"
      BY <3>1 DEF MapKinds
    <3> QED
      BY <1>1, <2>1, <3>1, <3>2 DEF ReturnInv
  <2>2. ASSUME MapError(m, d.variables) = {}, held = << >>, imported' = [kind |-> "ok", copies |-> << >>]
        PROVE  ReturnInv'
    <3>1. m = Identity
      BY <2>2, OnlyIdentity
    <3>2. imported'.kind = "ok" /\ imported'.copies = << >> /\ "ok" \notin MapKinds
      BY <2>2 DEF MapKinds
    <3> QED
      BY <1>1, <2>2, <3>1, <3>2 DEF ReturnInv
  <2> QED
    BY <1>2, <2>1, <2>2
<1> QED
  BY <1>1, <1>3, <1>4, <1>5, <1>6 DEF ImportInv

\* A family of another space is among the families.
LEMMA ImportForeign ==
  ASSUME ImportInv, CompactForeign
  PROVE  ImportInv' /\ passage' = "returned"
<1>1. /\ passage' = "returned" /\ imported' = [kind |-> "context_mismatch", copies |-> << >>]
      /\ UNCHANGED <<variable_map, destination, roots, nodes, copies, state, work, target, copied>>
  BY DEF CompactForeign, ImportReturns, request_vars, dag, build_vars
<1>2. RequestInv'
  BY <1>1 DEF ImportInv, RequestInv, Running
<1>3. TypedInv'
  BY <1>1 DEF ImportInv, TypedInv
<1>4. CopyInv' /\ BuildInv'
  BY <1>1 DEF CopyInv, BuildInv, Running
<1>5. ReturnInv'
  BY <1>1 DEF ReturnInv, MapKinds
<1> QED
  BY <1>1, <1>2, <1>3, <1>4, <1>5 DEF ImportInv

\* The families the program holds, and their nodes.
LEMMA HeldFacts ==
  ASSUME held \in Seq(Family)
  PROVE  /\ Len(held) \in Nat /\ DOMAIN held = 1 .. Len(held)
         /\ Range(held) \in SUBSET Family
         /\ \A F \in Range(held) : F \in Terminals \union HeldNodes
         /\ HeldNodes \subseteq Family \ Terminals
         /\ IsFiniteSet(HeldNodes) /\ Cardinality(HeldNodes) \in Nat
<1>1. Len(held) \in Nat /\ DOMAIN held = 1 .. Len(held)
  BY LenProperties
<1>2. Range(held) \in SUBSET Family
  BY <1>1, ElementOfSeq DEF Range
<1>3. \A F \in Range(held) : F \in Terminals \union HeldNodes
  <2> SUFFICES ASSUME NEW F \in Range(held) PROVE F \in Terminals \union HeldNodes
    OBVIOUS
  <2>1. F \in Terminals \union NodesOf[F]
    BY <1>2, RootIsNode
  <2> QED
    BY <2>1 DEF HeldNodes, Nodes
<1> QED
  BY <1>1, <1>2, <1>3, NodesOfRoots DEF HeldNodes

\* The import starts with the families in its list.
LEMMA ImportStarts ==
  ASSUME ImportInv, held \in Seq(Family), NEW m \in Seq(Nat),
         NEW d \in [variables : Nat, capacity : Nat, holds : SUBSET Family],
         StartImport(held, m, d), held' = held
  PROVE  ImportInv' /\ passage' = "copy"
<1> DEFINE q == DiscoverAll(held)
<1>1. /\ families' = held /\ variable_map' = m /\ destination' = d /\ passage' = "copy"
      /\ MapError(m, d.variables) = {} /\ roots' = q
      /\ passage = "idle" /\ target' = Nodes(ManagerRoots \union d.holds)
      /\ UNCHANGED <<nodes, copies, state, work, copied, imported>>
  BY DEF StartImport, Call
<1> HIDE DEF q
<1>2. m = Identity
  BY <1>1, OnlyIdentity
<1>3. nodes = << >> /\ Len(nodes) = 0 /\ imported = Unanswered
  BY <1>1 DEF ImportInv, RequestInv, TypedInv
<1>4. /\ q \in Seq(HeldNodes) /\ Distinct(q)
      /\ \A F \in Range(held) : F \in Listed(q)
  <2>1. Len(held) \in Nat /\ \A i \in 1 .. Len(held) : held[i] \in Terminals \union HeldNodes
    BY HeldFacts DEF Range
  <2>2. /\ q \in Seq(HeldNodes) /\ Distinct(q)
        /\ \A i \in 1 .. Len(held) : held[i] \in Listed(q)
    BY <2>1, DiscoverAllFacts DEF q
  <2> QED
    BY <2>2, HeldFacts DEF Range
<1>5. Len(q) \in Nat
  BY <1>4, LenProperties
<1>6. RequestInv'
  BY <1>1, <1>2, <1>3 DEF RequestInv, Running
<1>7. TypedInv'
  <2>1. q \in Seq(Family \ Terminals)
    BY <1>4, HeldFacts, SeqMonotonic
  <2>2. ManagerRoots \union d.holds \in SUBSET Family
    BY ManagerNodes
  <2>3. target' \subseteq Family \ Terminals
    BY <1>1, <2>2, NodesOfRoots
  <2> QED
    BY <1>1, <2>1, <2>3 DEF ImportInv, TypedInv
<1>8. CopyInv'
  <2>1. HeldNodes' = HeldNodes
    BY DEF HeldNodes
  <2>2. Len(nodes') = 0 /\ 1 .. Len(nodes') = {}
    BY <1>1, <1>3
  <2> QED
    BY <1>1, <1>4, <1>5, <2>1, <2>2 DEF CopyInv
<1>9. BuildInv'
  BY <1>1 DEF BuildInv, Ready
<1>10. ReturnInv'
  BY <1>1, <1>3 DEF ReturnInv, Unanswered, MapKinds
<1> QED
  BY <1>1, <1>6, <1>7, <1>8, <1>9, <1>10 DEF ImportInv

\* The list after the children of a root are discovered.
LEMMA ChildrenDiscovered ==
  ASSUME NEW S, NEW q \in Seq(S), Distinct(q),
         NEW hi \in Terminals \union S, NEW lo \in Terminals \union S,
         NEW p, p = Discover(Discover(q, hi), lo)
  PROVE  /\ p \in Seq(S) /\ Distinct(p) /\ Grown(q, p)
         /\ hi \in Listed(p) /\ lo \in Listed(p) /\ Listed(q) \subseteq Listed(p)
<1>1. PICK r : r = Discover(q, hi)
  OBVIOUS
<1>2. r \in Seq(S) /\ Distinct(r) /\ Grown(q, r) /\ hi \in Listed(r)
  BY <1>1, DiscoverFacts
<1>3. p \in Seq(S) /\ Distinct(p) /\ Grown(r, p) /\ lo \in Listed(p)
  <2>1. p = Discover(r, lo)
    BY <1>1
  <2>2. r \in Seq(S) /\ Distinct(r)
    BY <1>2
  <2> QED
    BY <2>1, <2>2, DiscoverFacts
<1>4. Listed(r) \subseteq Listed(p)
  BY <1>2, <1>3, ListedStays
<1>5. Listed(q) \subseteq Listed(r)
  BY <1>2, ListedStays
<1>6. Grown(q, p)
  BY <1>2, <1>3 DEF Grown
<1> QED
  BY <1>2, <1>3, <1>4, <1>5, <1>6

\* A node is copied after its children are discovered.
LEMMA ImportCopy ==
  ASSUME ImportInv, held \in Seq(Family), CopyNode, held' = held
  PROVE  ImportInv' /\ passage' = passage
<1> DEFINE F == roots[Len(nodes) + 1]
           v == TopVar(F)
           new == [variable |-> v, hi |-> Reference(Hi(v, F), roots'), lo |-> Reference(Lo(v, F), roots')]
<1>1. /\ passage = "copy" /\ Len(nodes) < Len(roots)
      /\ roots' = Discover(Discover(roots, Hi(v, F)), Lo(v, F))
      /\ nodes' = Append(nodes, new)
      /\ UNCHANGED <<families, variable_map, destination, passage, copies, state, work, target, copied, imported>>
  BY DEF CopyNode, request_vars, build_vars
<1>2. /\ roots \in Seq(HeldNodes) /\ Distinct(roots)
      /\ \A G \in Range(held) : G \in Listed(roots)
      /\ \A i \in 1 .. Len(nodes) : IsNodeOf(nodes[i], roots[i], roots)
      /\ nodes \in Seq([variable : Var, hi : Nat, lo : Nat])
  BY <1>1 DEF ImportInv, CopyInv, TypedInv, Running
<1>3. Len(nodes) \in Nat /\ Len(roots) \in Nat
  BY <1>2, LenProperties
<1>4. F \in HeldNodes
  <2>1. Len(nodes) + 1 \in 1 .. Len(roots)
    BY <1>1, <1>3
  <2> QED
    BY <1>2, <2>1, ElementOfSeq
<1>5. /\ F \in Family /\ F \notin Terminals
      /\ Hi(v, F) \in Terminals \union HeldNodes /\ Lo(v, F) \in Terminals \union HeldNodes
  <2>1. PICK G \in Range(held) : F \in NodesOf[G]
    BY <1>4 DEF HeldNodes, Nodes
  <2>2. G \in Family
    BY HeldFacts
  <2>3. NodesOf[G] \subseteq HeldNodes
    BY DEF HeldNodes, Nodes
  <2> QED
    BY <2>1, <2>2, <2>3, ChildrenAreNodes
<1> HIDE DEF F, v
<1>6. PICK p : p = roots'
  OBVIOUS
<1>7. /\ p \in Seq(HeldNodes) /\ Distinct(p) /\ Len(roots) <= Len(p) /\ Len(p) \in Nat
      /\ \A i \in 1 .. Len(roots) : p[i] = roots[i]
      /\ Hi(v, F) \in Listed(p) /\ Lo(v, F) \in Listed(p) /\ Listed(roots) \subseteq Listed(p)
  <2>1. PICK S : S = HeldNodes
    OBVIOUS
  <2>2. PICK q \in Seq(S), h \in Terminals \union S, l \in Terminals \union S :
          q = roots /\ h = Hi(v, F) /\ l = Lo(v, F)
    BY <1>2, <1>5, <2>1
  <2>3. Distinct(q) /\ p = Discover(Discover(q, h), l)
    BY <1>1, <1>2, <1>6, <2>2
  <2>4. /\ p \in Seq(S) /\ Distinct(p) /\ Grown(q, p)
        /\ h \in Listed(p) /\ l \in Listed(p) /\ Listed(q) \subseteq Listed(p)
    BY <2>3, ChildrenDiscovered
  <2> QED
    BY <2>1, <2>2, <2>4 DEF Grown
<1>8. new \in [variable : Var, hi : Nat, lo : Nat] /\ IsNodeOf(new, F, p)
  <2>1. v \in Var
    BY <1>5, Branching DEF v
  <2>2. \A G \in {Hi(v, F), Lo(v, F)} : /\ Reference(G, p) \in 0 .. Len(p) + 1 /\ Reference(G, p) \in Nat
                                       /\ FamilyAt(Reference(G, p), p) = G
    BY <1>7, ReferenceFacts
  <2>3. v = TopVar(F)
    BY DEF v
  <2> QED
    BY <1>6, <2>1, <2>2, <2>3 DEF IsNodeOf
<1>9. F = roots[Len(nodes) + 1]
  BY DEF F
<1> HIDE DEF new
<1>10. /\ nodes' \in Seq([variable : Var, hi : Nat, lo : Nat]) /\ Len(nodes') = Len(nodes) + 1
       /\ \A i \in 1 .. Len(nodes) : nodes'[i] = nodes[i]
       /\ nodes'[Len(nodes) + 1] = new
  BY <1>1, <1>2, <1>8, AppendProperties
<1>11. RequestInv'
  BY <1>1 DEF ImportInv, RequestInv, Running
<1>12. TypedInv'
  <2>1. roots' \in Seq(Family \ Terminals)
    BY <1>6, <1>7, HeldFacts, SeqMonotonic
  <2> QED
    BY <1>1, <1>10, <2>1 DEF ImportInv, TypedInv
<1>13. CopyInv'
  <2>1. \A r \in 0 .. Len(roots) + 1 : r \in 0 .. Len(p) + 1 /\ FamilyAt(r, p) = FamilyAt(r, roots)
    BY <1>3, <1>7, ReferencesStay
  <2>2. \A i \in 1 .. Len(nodes) : IsNodeOf(nodes[i], roots[i], p)
    BY <1>2, <2>1 DEF IsNodeOf
  <2>3. \A i \in 1 .. Len(nodes) + 1 : i \in 1 .. Len(nodes) \/ i = Len(nodes) + 1
    BY <1>3
  <2>4. Len(nodes) + 1 \in 1 .. Len(roots) /\ \A i \in 1 .. Len(nodes) : i \in 1 .. Len(roots)
    BY <1>1, <1>3
  <2>5. \A i \in 1 .. Len(nodes) + 1 : IsNodeOf(nodes'[i], p[i], p)
    BY <1>7, <1>8, <1>9, <1>10, <2>2, <2>3, <2>4
  <2>6. Len(nodes) + 1 <= Len(p)
    BY <1>1, <1>3, <1>7
  <2>7. HeldNodes' = HeldNodes
    BY DEF HeldNodes
  <2>8. \A G \in Range(held) : G \in Listed(p)
    BY <1>2, <1>7
  <2> QED
    BY <1>6, <1>7, <1>10, <2>5, <2>6, <2>7, <2>8 DEF CopyInv
<1>14. BuildInv'
  BY <1>1 DEF ImportInv, BuildInv, Ready
<1>15. ReturnInv'
  <2>1. imported = Unanswered
    BY <1>1 DEF ImportInv, RequestInv
  <2> QED
    BY <1>1, <2>1 DEF ReturnInv, Unanswered, MapKinds
<1> QED
  BY <1>1, <1>11, <1>12, <1>13, <1>14, <1>15 DEF ImportInv

----------------------------------------------------------------------------
(* The rebuild.                                                            *)

\* What is on a stack is on top or below it.
LEMMA TopOrTail ==
  ASSUME NEW S, NEW w \in Seq(S), w # << >>
  PROVE  /\ Head(w) = w[1] /\ 1 \in DOMAIN w
         /\ \A r \in Range(w) : r = w[1] \/ r \in Range(Tail(w))
<1>1. Len(w) \in Nat \ {0} /\ DOMAIN w = 1 .. Len(w)
  BY LenProperties, EmptySeq
<1>2. /\ Tail(w) \in Seq(S) /\ Len(Tail(w)) = Len(w) - 1 /\ Head(w) = w[1]
      /\ \A x \in 1 .. Len(Tail(w)) : Tail(w)[x] = w[x + 1]
  BY HeadTailProperties
<1>3. PICK t : t = Tail(w) /\ DOMAIN t = 1 .. Len(w) - 1 /\ \A x \in 1 .. Len(w) - 1 : t[x] = w[x + 1]
  BY <1>2, LenProperties
<1>4. ASSUME NEW x \in DOMAIN w, x # 1 PROVE w[x] \in Range(Tail(w))
  <2>1. x - 1 \in 1 .. Len(w) - 1 /\ (x - 1) + 1 = x
    BY <1>1, <1>4
  <2>2. x - 1 \in DOMAIN t /\ t[x - 1] = w[x]
    BY <1>3, <2>1
  <2> QED
    BY <1>3, <2>2 DEF Range
<1>5. 1 \in DOMAIN w
  BY <1>1
<1> QED
  BY <1>2, <1>4, <1>5 DEF Range

\* What the invariant says of a rebuild that runs.
LEMMA BuildFacts ==
  ASSUME ImportInv, held \in Seq(Family), passage = "build"
  PROVE  /\ families = held /\ variable_map = Identity /\ imported = Unanswered
         /\ DagOf(roots, nodes) /\ roots \in Seq(HeldNodes)
         /\ Len(roots) \in Nat /\ DOMAIN roots = 1 .. Len(roots) /\ DOMAIN nodes = DOMAIN roots
         /\ \A i \in DOMAIN roots : roots[i] \in HeldNodes /\ roots[i] \in Family /\ roots[i] \notin Terminals
         /\ StackInv(roots, nodes, work, state) /\ work \in Seq(0 .. Len(roots) + 1)
         /\ state \in [DOMAIN roots -> 0 .. 2]
         /\ copies = [i \in DOMAIN roots |-> IF state[i] = 2 THEN {roots[i]} ELSE {}]
         /\ target = Ready \union {roots[i] : i \in {j \in DOMAIN roots : state[j] = 2}}
<1>1. families = held /\ variable_map = Identity /\ imported = Unanswered
  BY DEF ImportInv, RequestInv, Running
<1>2. /\ roots \in Seq(HeldNodes) /\ Distinct(roots)
      /\ \A i \in 1 .. Len(nodes) : IsNodeOf(nodes[i], roots[i], roots)
  BY DEF ImportInv, CopyInv, Running
<1>3. /\ Len(nodes) = Len(roots)
      /\ copies = [i \in DOMAIN roots |-> IF state[i] = 2 THEN {roots[i]} ELSE {}]
      /\ target = Ready \union {roots[i] : i \in {j \in DOMAIN roots : state[j] = 2}}
      /\ StackInv(roots, nodes, work, state)
  BY DEF ImportInv, BuildInv
<1>4. /\ roots \in Seq(Family \ Terminals)
      /\ nodes \in Seq([variable : Var, hi : Nat, lo : Nat])
  BY DEF ImportInv, TypedInv
<1>5. Len(roots) \in Nat /\ DOMAIN roots = 1 .. Len(roots) /\ DOMAIN nodes = DOMAIN roots
  BY <1>3, <1>4, LenProperties
<1>6. \A i \in DOMAIN roots : roots[i] \in HeldNodes /\ roots[i] \in Family /\ roots[i] \notin Terminals
  <2>1. \A i \in DOMAIN roots : roots[i] \in Family \ Terminals
    BY <1>4, <1>5, ElementOfSeq
  <2>2. \A i \in DOMAIN roots : roots[i] \in HeldNodes
    BY <1>2, <1>5, ElementOfSeq
  <2> QED
    BY <2>1, <2>2
<1>7. DagOf(roots, nodes)
  BY <1>2, <1>3, <1>4, <1>5 DEF DagOf
<1>8. work \in Seq(0 .. Len(roots) + 1) /\ state \in [DOMAIN roots -> 0 .. 2]
  BY <1>3 DEF StackInv
<1> QED
  BY <1>1, <1>2, <1>3, <1>5, <1>6, <1>7, <1>8

\* The reference of each family stands for it.
LEMMA RootsStand ==
  ASSUME ImportInv, held \in Seq(Family), Running
  PROVE  /\ DOMAIN RootReferences = 1 .. Len(held) /\ DOMAIN families = 1 .. Len(held) /\ Len(held) \in Nat
         /\ \A i \in DOMAIN families : /\ RootReferences[i] \in 0 .. Len(roots) + 1
                                       /\ FamilyAt(RootReferences[i], roots) = held[i]
<1>1. /\ families = held /\ roots \in Seq(HeldNodes)
      /\ \A F \in Range(held) : F \in Listed(roots)
  BY DEF ImportInv, RequestInv, CopyInv
<1>2. DOMAIN held = 1 .. Len(held) /\ Len(held) \in Nat
  BY LenProperties
<1>3. ASSUME NEW i \in DOMAIN held
      PROVE  RootReferences[i] \in 0 .. Len(roots) + 1 /\ FamilyAt(RootReferences[i], roots) = held[i]
  <2>1. PICK F : F = held[i]
    OBVIOUS
  <2>2. F \in Listed(roots)
    BY <1>1, <2>1 DEF Range
  <2>3. RootReferences[i] = Reference(F, roots)
    BY <1>1, <2>1 DEF RootReferences
  <2>4. Reference(F, roots) \in 0 .. Len(roots) + 1 /\ FamilyAt(Reference(F, roots), roots) = F
    BY <1>1, <2>2, ReferenceFacts
  <2> QED
    BY <2>1, <2>3, <2>4
<1> QED
  BY <1>1, <1>2, <1>3 DEF RootReferences

\* The copy of a reference that needs nothing is what it stands for.
LEMMA CopyOfDone ==
  ASSUME ImportInv, held \in Seq(Family), passage = "build",
         NEW r \in 0 .. Len(roots) + 1, Done(state, r)
  PROVE  /\ CopyOf(r) = {FamilyAt(r, roots)}
         /\ FamilyAt(r, roots) \in Terminals \union target
         /\ FamilyAt(r, roots) \in Family
<1>1. CASE r = 0 \/ r = 1
  BY <1>1, TerminalNodes DEF CopyOf, FamilyAt, Terminals
<1>2. CASE r # 0 /\ r # 1
  <2>1. Len(roots) \in Nat
    BY BuildFacts
  <2>2. r - 1 \in 1 .. Len(roots) /\ r >= 2
    BY <1>2, <2>1
  <2>3. PICK i \in DOMAIN roots : i = r - 1
    BY <2>2, BuildFacts
  <2>4. state[i] = 2
    BY <2>2, <2>3 DEF Done
  <2>5. copies[i] = {roots[i]} /\ roots[i] \in target /\ roots[i] \in Family
    BY <2>4, BuildFacts
  <2>6. CopyOf(r) = copies[i] /\ FamilyAt(r, roots) = roots[i]
    BY <1>2, <2>3 DEF CopyOf, FamilyAt
  <2> QED
    BY <2>5, <2>6
<1> QED
  BY <1>1, <1>2

\* The rebuild starts with the families on the stack.
LEMMA ImportCopied ==
  ASSUME ImportInv, held \in Seq(Family), Copied, held' = held
  PROVE  ImportInv' /\ passage' = "build"
<1>1. /\ passage = "copy" /\ Len(nodes) = Len(roots) /\ passage' = "build"
      /\ copies' = [i \in DOMAIN nodes |-> {}] /\ state' = [i \in DOMAIN nodes |-> 0]
      /\ work' = Reverse(RootReferences)
      /\ UNCHANGED <<families, variable_map, destination, roots, nodes, target, copied, imported>>
  BY DEF Copied, request_vars, dag
<1>2. Running
  BY <1>1 DEF Running
<1>3. /\ roots \in Seq(Family \ Terminals) /\ nodes \in Seq([variable : Var, hi : Nat, lo : Nat])
      /\ target = Ready
  BY <1>1 DEF ImportInv, TypedInv, BuildInv
<1>4. Len(roots) \in Nat /\ DOMAIN roots = 1 .. Len(roots) /\ DOMAIN nodes = DOMAIN roots
  BY <1>1, <1>3, LenProperties
<1>5. PICK R : R = 0 .. Len(roots) + 1 /\ R \subseteq Nat
  BY <1>4
<1>6. PICK n, refs : /\ n \in Nat /\ n = Len(held) /\ refs = RootReferences /\ refs \in [1 .. n -> R]
                      /\ DOMAIN families = 1 .. n
  <2>1. RootReferences = [i \in DOMAIN RootReferences |-> RootReferences[i]]
    BY DEF RootReferences
  <2> QED
    BY <1>2, <1>5, <2>1, RootsStand
<1>7. refs \in Seq(R) /\ Len(refs) = n
  <2>1. refs \in Seq(R)
    BY <1>6, SeqDef
  <2>2. Len(refs) = n
    BY <1>6, <2>1, LenProperties
  <2> QED
    BY <2>1, <2>2
<1>8. PICK w : w = work' /\ w = [i \in 1 .. n |-> refs[(n - i) + 1]]
  BY <1>1, <1>6, <1>7 DEF Reverse
<1>9. \A i \in 1 .. n : (n - i) + 1 \in 1 .. n /\ (n - ((n - i) + 1)) + 1 = i
  BY <1>6
<1>10. w \in Seq(R) /\ DOMAIN w = 1 .. n
  <2>1. w \in [1 .. n -> R]
    BY <1>6, <1>8, <1>9
  <2> QED
    BY <1>6, <2>1, SeqDef
<1>11. \A i \in 1 .. n : refs[i] \in Range(w)
  <2> SUFFICES ASSUME NEW i \in 1 .. n PROVE refs[i] \in Range(w)
    OBVIOUS
  <2>1. PICK j \in 1 .. n : j = (n - i) + 1 /\ (n - j) + 1 = i
    BY <1>9
  <2>2. w[j] = refs[i]
    BY <1>8, <2>1
  <2> QED
    BY <1>10, <2>2 DEF Range
<1>12. /\ state' \in [DOMAIN roots -> 0 .. 2] /\ \A i \in DOMAIN roots : state'[i] = 0
       /\ copies' = [i \in DOMAIN roots |-> IF state'[i] = 2 THEN {roots[i]} ELSE {}]
  BY <1>1, <1>4
<1>13. RequestInv'
  BY <1>1, <1>2 DEF ImportInv, RequestInv, Running
<1>14. TypedInv'
  <2>1. w \in Seq(Nat)
    BY <1>5, <1>10, SeqMonotonic
  <2>2. \A i \in DOMAIN copies' : copies'[i] \subseteq Family
    BY <1>1
  <2>3. \A i \in DOMAIN state' : state'[i] \in 0 .. 2
    BY <1>1
  <2> QED
    BY <1>1, <1>8, <2>1, <2>2, <2>3 DEF ImportInv, TypedInv
<1>15. CopyInv'
  <2>1. HeldNodes' = HeldNodes
    BY DEF HeldNodes
  <2> QED
    BY <1>1, <1>2, <2>1 DEF ImportInv, CopyInv
<1>16. BuildInv'
  <2>1. StackInv(roots, nodes, w, state')
    BY <1>5, <1>10, <1>12 DEF StackInv
  <2>2. Ready' = Ready
    BY <1>1 DEF Ready
  <2>3. {j \in DOMAIN roots : state'[j] = 2} = {}
    BY <1>12
  <2>4. target' = Ready' \union {roots[i] : i \in {j \in DOMAIN roots : state'[j] = 2}}
    BY <1>1, <1>3, <2>2, <2>3
  <2>5. RootReferences' = RootReferences
    BY <1>1 DEF RootReferences
  <2>6. \A i \in DOMAIN families : RootReferences[i] \in Range(w)
    BY <1>6, <1>11
  <2>7. \A i \in DOMAIN families' : RootReferences'[i] \in Range(work')
    BY <1>1, <1>8, <2>5, <2>6
  <2>8. Len(nodes') = Len(roots') /\ StackInv(roots', nodes', work', state')
    BY <1>1, <1>8, <2>1
  <2>9. /\ copies' = [i \in DOMAIN roots' |-> IF state'[i] = 2 THEN {roots'[i]} ELSE {}]
        /\ target' = Ready' \union {roots'[i] : i \in {j \in DOMAIN roots' : state'[j] = 2}}
    <3>1. roots' = roots
      BY <1>1
    <3> QED
      BY <1>12, <2>4, <3>1
  <2>10. passage' # "copy"
    BY <1>1
  <2> QED
    BY <2>7, <2>8, <2>9, <2>10 DEF BuildInv
<1>17. ReturnInv'
  <2>1. imported' = Unanswered
    BY <1>1 DEF ImportInv, RequestInv
  <2> QED
    BY <2>1 DEF ReturnInv, Unanswered, MapKinds
<1> QED
  BY <1>1, <1>13, <1>14, <1>15, <1>16, <1>17 DEF ImportInv

\* The parts of the invariant that the steps of a rebuild have in common.
LEMMA RebuildKeeps ==
  ASSUME ImportInv, held \in Seq(Family), passage = "build", passage' = "build", held' = held,
         UNCHANGED <<families, variable_map, destination, roots, nodes, imported>>,
         copied' \in Nat,
         StackInv(roots, nodes, work', state'),
         copies' = [i \in DOMAIN roots |-> IF state'[i] = 2 THEN {roots[i]} ELSE {}],
         target' = Ready \union {roots[i] : i \in {j \in DOMAIN roots : state'[j] = 2}},
         \A i \in DOMAIN families : Done(state', RootReferences[i]) \/ RootReferences[i] \in Range(work')
  PROVE  ImportInv'
<1>1. RequestInv'
  BY DEF ImportInv, RequestInv, Running
<1>2. TypedInv'
  <2>1. Len(roots) \in Nat /\ DOMAIN roots = 1 .. Len(roots)
    BY BuildFacts
  <2>2. work' \in Seq(0 .. Len(roots) + 1) /\ state' \in [DOMAIN roots -> 0 .. 2]
    BY DEF StackInv
  <2>3. work' \in Seq(Nat)
    <3>1. 0 .. Len(roots) + 1 \subseteq Nat
      BY <2>1
    <3> QED
      BY <2>2, <3>1, SeqMonotonic
  <2>4. \A i \in DOMAIN copies' : copies'[i] \subseteq Family
    BY BuildFacts
  <2>5. \A i \in DOMAIN state' : state'[i] \in 0 .. 2
    BY <2>2
  <2>6. Ready \subseteq Family \ Terminals
    <3>1. destination.holds \in SUBSET Family
      BY DEF ImportInv, RequestInv
    <3> QED
      BY <3>1, ManagerNodes, NodesOfRoots DEF Ready
  <2>7. target' \subseteq Family \ Terminals
    BY <2>6, BuildFacts
  <2> QED
    BY <2>3, <2>4, <2>5, <2>7 DEF ImportInv, TypedInv
<1>3. CopyInv'
  <2>1. HeldNodes' = HeldNodes
    BY DEF HeldNodes
  <2>2. Running
    BY DEF Running
  <2> QED
    BY <2>1, <2>2 DEF ImportInv, CopyInv
<1>4. BuildInv'
  <2>1. Ready' = Ready
    BY DEF Ready
  <2>2. RootReferences' = RootReferences
    BY DEF RootReferences
  <2>3. Len(nodes) = Len(roots)
    BY DEF ImportInv, BuildInv
  <2> QED
    BY <2>1, <2>2, <2>3 DEF BuildInv
<1>5. ReturnInv'
  <2>1. imported' = Unanswered
    BY BuildFacts
  <2> QED
    BY <2>1 DEF ReturnInv, Unanswered, MapKinds
<1> QED
  BY <1>1, <1>2, <1>3, <1>4, <1>5 DEF ImportInv

\* A reference that needed nothing still needs nothing.
LEMMA DoneStays ==
  ASSUME NEW q, Len(q) \in Nat, DOMAIN q = 1 .. Len(q), NEW s, NEW s2,
         \A j \in DOMAIN q : s[j] = 2 => s2[j] = 2,
         NEW r \in 0 .. Len(q) + 1, Done(s, r)
  PROVE  Done(s2, r)
<1>1. r >= 2 => r - 1 \in DOMAIN q
  OBVIOUS
<1> QED
  BY <1>1 DEF Done

\* A step that takes the top off.
LEMMA RebuildPops ==
  ASSUME ImportInv, held \in Seq(Family), passage = "build", passage' = "build", held' = held,
         UNCHANGED <<families, variable_map, destination, roots, nodes, imported>>,
         copied' \in Nat, work # << >>, work' = Tail(work),
         NEW s2, s2 = state', s2 \in [DOMAIN roots -> 0 .. 2], Done(s2, work[1]),
         \A j \in DOMAIN roots : /\ state[j] = 2 => s2[j] = 2
                                 /\ s2[j] = 1 => state[j] = 1
                                 /\ s2[j] = 2 => Done(state, nodes[j].hi) /\ Done(state, nodes[j].lo),
         copies' = [i \in DOMAIN roots |-> IF s2[i] = 2 THEN {roots[i]} ELSE {}],
         target' = Ready \union {roots[i] : i \in {j \in DOMAIN roots : s2[j] = 2}}
  PROVE  ImportInv'
<1>1. DagOf(roots, nodes) /\ StackInv(roots, nodes, work, state)
  BY BuildFacts
<1>2. StackInv(roots, nodes, Tail(work), s2)
  BY <1>1, StackPop
<1>3. ASSUME NEW i \in DOMAIN families
      PROVE  Done(s2, RootReferences[i]) \/ RootReferences[i] \in Range(Tail(work))
  <2>1. PICK r : r = RootReferences[i]
    OBVIOUS
  <2>2. r \in 0 .. Len(roots) + 1
    BY <2>1, RootsStand DEF Running
  <2>3. Done(state, r) \/ r \in Range(work)
    BY <2>1 DEF ImportInv, BuildInv
  <2>4. CASE Done(state, r)
    <3>1. Len(roots) \in Nat /\ DOMAIN roots = 1 .. Len(roots)
      BY BuildFacts
    <3>2. Done(s2, r)
      BY <2>2, <2>4, <3>1, DoneStays
    <3> QED
      BY <2>1, <3>2
  <2>5. CASE r \in Range(work)
    <3>1. work \in Seq(0 .. Len(roots) + 1)
      BY BuildFacts
    <3>2. r = work[1] \/ r \in Range(Tail(work))
      BY <2>5, <3>1, TopOrTail
    <3> QED
      BY <2>1, <3>2
  <2> QED
    BY <2>3, <2>4, <2>5
<1> QED
  BY <1>2, <1>3, RebuildKeeps

\* A reference that needs nothing is taken off.
LEMMA ImportSkips ==
  ASSUME ImportInv, held \in Seq(Family), SkipReference, held' = held
  PROVE  ImportInv' /\ passage' = passage
<1>1. /\ passage = "build" /\ work # << >> /\ NeedsNothing(Top) /\ work' = Tail(work) /\ passage' = "build"
      /\ UNCHANGED <<families, variable_map, destination, roots, nodes, copies, state, target, copied, imported>>
  BY DEF SkipReference, request_vars, dag
<1>2. PICK s2 : s2 = state'
  OBVIOUS
<1>3. s2 = state /\ state \in [DOMAIN roots -> 0 .. 2]
  BY <1>1, <1>2, BuildFacts
<1>4. Done(s2, work[1])
  <2>1. Head(work) = work[1]
    BY <1>1, BuildFacts, TopOrTail
  <2> QED
    BY <1>1, <1>3, <2>1 DEF NeedsNothing, Top, Done
<1>5. \A j \in DOMAIN roots : s2[j] = 2 => Done(state, nodes[j].hi) /\ Done(state, nodes[j].lo)
  BY <1>1, <1>3, BuildFacts DEF StackInv
<1>6. /\ copies' = [i \in DOMAIN roots |-> IF s2[i] = 2 THEN {roots[i]} ELSE {}]
      /\ target' = Ready \union {roots[i] : i \in {j \in DOMAIN roots : s2[j] = 2}}
  <2>1. /\ copies = [i \in DOMAIN roots |-> IF state[i] = 2 THEN {roots[i]} ELSE {}]
        /\ target = Ready \union {roots[i] : i \in {j \in DOMAIN roots : state[j] = 2}}
    BY <1>1, BuildFacts
  <2> QED
    BY <1>1, <1>3, <2>1
<1>7. copied' \in Nat
  BY <1>1 DEF ImportInv, TypedInv
<1>8. ImportInv'
  BY <1>1, <1>2, <1>3, <1>4, <1>5, <1>6, <1>7, RebuildPops
<1> QED
  BY <1>1, <1>8

\* A node on top of the stack.
LEMMA TopFacts ==
  ASSUME ImportInv, held \in Seq(Family), NEW a, AtNode(a)
  PROVE  /\ passage = "build" /\ work # << >> /\ work[1] = Top /\ state[Top - 1] = a
         /\ Top - 1 \in DOMAIN roots /\ work[1] = (Top - 1) + 1
<1>1. passage = "build" /\ work # << >> /\ Top >= 2 /\ state[Top - 1] = a
  BY DEF AtNode
<1>2. work \in Seq(0 .. Len(roots) + 1) /\ Len(roots) \in Nat /\ DOMAIN roots = 1 .. Len(roots)
  BY <1>1, BuildFacts
<1>3. Top = work[1] /\ 1 \in DOMAIN work
  BY <1>1, <1>2, TopOrTail DEF Top
<1>4. Top \in 0 .. Len(roots) + 1
  BY <1>2, <1>3, ElementOfSeq, LenProperties
<1>5. Top - 1 \in 1 .. Len(roots) /\ Top = (Top - 1) + 1
  BY <1>1, <1>2, <1>4
<1> QED
  BY <1>1, <1>2, <1>3, <1>5

\* A node is opened.
LEMMA ImportOpens ==
  ASSUME ImportInv, held \in Seq(Family), OpenNode, held' = held
  PROVE  ImportInv' /\ passage' = passage
<1>1. /\ AtNode(0) /\ state' = [state EXCEPT ![Top - 1] = 1]
      /\ work' = Unseen(TopNode.hi) \o Unseen(TopNode.lo) \o work /\ passage' = passage
      /\ UNCHANGED <<families, variable_map, destination, roots, nodes, copies, target, copied, imported>>
  BY DEF OpenNode, request_vars, dag
<1>2. PICK i \in DOMAIN roots : i = Top - 1 /\ work[1] = i + 1 /\ state[i] = 0
  BY <1>1, TopFacts
<1>3. passage = "build" /\ work # << >>
  BY <1>1, TopFacts
<1>4. PICK R : R = 0 .. Len(roots) + 1
  OBVIOUS
<1>5. /\ DagOf(roots, nodes) /\ StackInv(roots, nodes, work, state)
      /\ work \in Seq(R) /\ state \in [DOMAIN roots -> 0 .. 2]
  BY <1>3, <1>4, BuildFacts
<1>6. PICK hi \in R, lo \in R : hi = nodes[i].hi /\ lo = nodes[i].lo
  <2>1. \A c \in {nodes[i].hi, nodes[i].lo} : c \in 0 .. Len(roots) + 1
    BY <1>5, DagChild
  <2> QED
    BY <1>4, <2>1
<1>7. PICK s : s = state
  OBVIOUS
<1>8. PICK a, b : /\ a = (IF New(hi, s) THEN <<hi>> ELSE << >>) /\ b = (IF New(lo, s) THEN <<lo>> ELSE << >>)
  OBVIOUS
<1>9. work' = a \o b \o work
  <2>1. TopNode = nodes[i]
    BY <1>2 DEF TopNode
  <2>2. Unseen(hi) = a /\ Unseen(lo) = b
    BY <1>7, <1>8 DEF Unseen, New
  <2> QED
    BY <1>1, <1>6, <2>1, <2>2
<1>10. PICK w, w2 : w \in Seq(R) /\ w = work /\ w2 = work' /\ w2 = a \o b \o w
  BY <1>5, <1>9
<1>11. w2 \in Seq(R) /\ \E k \in Nat : Pushed(w2, w, s, k, hi, lo)
  <2>1. /\ w \in Seq(R) /\ hi \in R /\ lo \in R /\ w2 = a \o b \o w
        /\ a = (IF New(hi, s) THEN <<hi>> ELSE << >>) /\ b = (IF New(lo, s) THEN <<lo>> ELSE << >>)
    BY <1>8, <1>10
  <2> QED
    BY ONLY <2>1, PushedFacts
<1>12. PICK k \in Nat : Pushed(w2, w, s, k, hi, lo)
  BY <1>11
<1>13. PICK s2 : s2 = state' /\ s2 = [state EXCEPT ![i] = 1]
  BY <1>1, <1>2
<1>14. StackInv(roots, nodes, w2, s2)
  <2>1. PICK q, ns : q = roots /\ ns = nodes
    OBVIOUS
  <2>2. PICK j \in DOMAIN q : j = i
    BY <2>1
  <2>3. w2 \in Seq(0 .. Len(q) + 1)
    BY <1>4, <1>11, <2>1
  <2>4. /\ DagOf(q, ns) /\ StackInv(q, ns, w, s) /\ w # << >>
        /\ w[1] = j + 1 /\ s[j] = 0 /\ s2 = [s EXCEPT ![j] = 1]
        /\ hi = ns[j].hi /\ lo = ns[j].lo
        /\ Pushed(w2, w, s, k, hi, lo)
    BY <1>2, <1>3, <1>5, <1>6, <1>7, <1>10, <1>12, <1>13, <2>1, <2>2
  <2>5. StackInv(q, ns, w2, s2)
    BY <2>2, <2>3, <2>4, StackOpen
  <2> QED
    BY <2>1, <2>5
<1>15. s2 \in [DOMAIN roots -> 0 .. 2] /\ \A j \in DOMAIN roots : s2[j] = 2 <=> state[j] = 2
  BY <1>2, <1>5, <1>13
<1>16. /\ copies' = [j \in DOMAIN roots |-> IF s2[j] = 2 THEN {roots[j]} ELSE {}]
       /\ target' = Ready \union {roots[m] : m \in {j \in DOMAIN roots : s2[j] = 2}}
  <2>1. /\ copies = [j \in DOMAIN roots |-> IF state[j] = 2 THEN {roots[j]} ELSE {}]
        /\ target = Ready \union {roots[m] : m \in {j \in DOMAIN roots : state[j] = 2}}
    BY <1>3, BuildFacts
  <2>2. {j \in DOMAIN roots : s2[j] = 2} = {j \in DOMAIN roots : state[j] = 2}
    BY <1>15
  <2>3. copies' = copies /\ target' = target
    BY <1>1
  <2> QED
    BY <1>15, <2>1, <2>2, <2>3
<1>17. copied' \in Nat
  BY <1>1 DEF ImportInv, TypedInv
<1>18. ASSUME NEW m \in DOMAIN families
       PROVE  Done(s2, RootReferences[m]) \/ RootReferences[m] \in Range(w2)
  <2>1. PICK r : r = RootReferences[m]
    OBVIOUS
  <2>2. r \in 0 .. Len(roots) + 1
    BY <1>3, <2>1, RootsStand DEF Running
  <2>3. Done(state, r) \/ r \in Range(work)
    BY <1>3, <2>1 DEF ImportInv, BuildInv
  <2>4. CASE Done(state, r)
    <3>1. Len(roots) \in Nat /\ DOMAIN roots = 1 .. Len(roots)
      BY <1>3, BuildFacts
    <3>2. Done(s2, r)
      BY <1>15, <2>2, <2>4, <3>1, DoneStays
    <3> QED
      BY <2>1, <3>2
  <2>5. CASE r \in Range(work)
    <3>1. DOMAIN work = 1 .. Len(work) /\ Len(work) \in Nat /\ DOMAIN w2 = 1 .. Len(w2)
      BY <1>5, <1>11, LenProperties
    <3>2. PICK x \in 1 .. Len(work) : work[x] = r
      BY <2>5, <3>1 DEF Range
    <3>3. Len(w2) = k + Len(work) /\ w2[k + x] = work[x]
      BY <1>10, <1>12 DEF Pushed
    <3>4. k + x \in 1 .. Len(w2)
      BY <3>1, <3>3
    <3> QED
      BY <2>1, <3>1, <3>2, <3>3, <3>4 DEF Range
  <2> QED
    BY <2>3, <2>4, <2>5
<1>19. ImportInv'
  <2>1. StackInv(roots, nodes, work', state')
    BY <1>10, <1>13, <1>14
  <2>2. /\ copies' = [j \in DOMAIN roots |-> IF state'[j] = 2 THEN {roots[j]} ELSE {}]
        /\ target' = Ready \union {roots[m] : m \in {j \in DOMAIN roots : state'[j] = 2}}
    BY <1>13, <1>16
  <2>3. \A m \in DOMAIN families : Done(state', RootReferences[m]) \/ RootReferences[m] \in Range(work')
    BY <1>10, <1>13, <1>18
  <2> QED
    BY <1>1, <1>3, <1>17, <2>1, <2>2, <2>3, RebuildKeeps
<1> QED
  BY <1>1, <1>19

\* A node that comes up has its children, and its copy is the node.
LEMMA TopRebuilt ==
  ASSUME ImportInv, held \in Seq(Family), AtNode(1), NEW i, i = Top - 1, NEW F, F = roots[i]
  PROVE  /\ i \in DOMAIN roots /\ work[1] = i + 1 /\ state[i] = 1 /\ passage = "build" /\ work # << >>
         /\ Done(state, nodes[i].hi) /\ Done(state, nodes[i].lo)
         /\ F \in HeldNodes /\ F \in Family /\ F \notin Terminals
         /\ Mapped(TopNode.variable) = TopVar(F)
         /\ CopyOf(TopNode.hi) = {Hi(TopVar(F), F)} /\ CopyOf(TopNode.lo) = {Lo(TopVar(F), F)}
         /\ Rebuilt = {F} /\ (Found(F) <=> F \in target)
<1>1. i \in DOMAIN roots /\ work[1] = i + 1 /\ state[i] = 1 /\ passage = "build" /\ work # << >>
  BY TopFacts
<1>2. Done(state, nodes[i].hi) /\ Done(state, nodes[i].lo)
  BY <1>1, BuildFacts, TopIsReady
<1>3. F \in HeldNodes /\ F \in Family /\ F \notin Terminals
  BY <1>1, BuildFacts
<1>4. IsNodeOf(nodes[i], F, roots)
  BY <1>1, BuildFacts DEF DagOf
<1>5. TopNode = nodes[i]
  BY DEF TopNode
<1>6. PICK v, h, l : /\ v = TopVar(F) /\ h = Hi(v, F) /\ l = Lo(v, F)
                     /\ v \in Var /\ h # Zero /\ F = Node(v, h, l)
  BY <1>3, Branching
<1>7. CopyOf(TopNode.hi) = {h}
  <2>1. PICK r \in 0 .. Len(roots) + 1 : r = nodes[i].hi /\ FamilyAt(r, roots) = h /\ Done(state, r)
    BY <1>2, <1>4, <1>6 DEF IsNodeOf
  <2>2. CopyOf(r) = {FamilyAt(r, roots)}
    BY <1>1, <2>1, CopyOfDone
  <2> QED
    BY <1>5, <2>1, <2>2
<1>8. CopyOf(TopNode.lo) = {l}
  <2>1. PICK r \in 0 .. Len(roots) + 1 : r = nodes[i].lo /\ FamilyAt(r, roots) = l /\ Done(state, r)
    BY <1>2, <1>4, <1>6 DEF IsNodeOf
  <2>2. CopyOf(r) = {FamilyAt(r, roots)}
    BY <1>1, <2>1, CopyOfDone
  <2> QED
    BY <1>5, <2>1, <2>2
<1>9. TopNode.variable = v
  BY <1>4, <1>5, <1>6 DEF IsNodeOf
<1>10. Mapped(TopNode.variable) = v
  <2>1. variable_map = Identity
    BY <1>1, BuildFacts
  <2>2. v + 1 \in 1 .. N /\ (v + 1) - 1 = v
    BY <1>6, NAssumption DEF Var
  <2> QED
    BY <1>9, <2>1, <2>2 DEF Mapped, Identity
<1>11. Rebuilt = {F}
  <2>1. Rebuilt = {Node(v, x, y) : x \in {h}, y \in {l}}
    BY <1>7, <1>8, <1>10 DEF Rebuilt
  <2> QED
    BY <1>6, <2>1
<1>12. Found(F) <=> F \in target
  <2>1. {h} # {Zero}
    BY <1>6
  <2> QED
    BY <1>7, <2>1 DEF Found
<1> QED
  BY <1>1, <1>2, <1>3, <1>6, <1>7, <1>8, <1>10, <1>11, <1>12

\* A node is copied.
LEMMA ImportBuilds ==
  ASSUME ImportInv, held \in Seq(Family), BuildNode, held' = held
  PROVE  ImportInv' /\ passage' = passage
<1>1. /\ AtNode(1) /\ state' = [state EXCEPT ![Top - 1] = 2] /\ work' = Tail(work)
      /\ passage' = passage
      /\ UNCHANGED <<families, variable_map, destination, roots, nodes, imported>>
  BY DEF BuildNode, request_vars, dag
<1>2. PICK i, F : i = Top - 1 /\ F = roots[i]
  OBVIOUS
<1>3. /\ i \in DOMAIN roots /\ work[1] = i + 1 /\ state[i] = 1 /\ passage = "build" /\ work # << >>
      /\ Done(state, nodes[i].hi) /\ Done(state, nodes[i].lo)
      /\ Rebuilt = {F} /\ (Found(F) <=> F \in target)
  BY <1>1, <1>2, TopRebuilt
<1>4. /\ target' = IF Found(F) THEN target ELSE target \union {F}
      /\ copied' = IF Found(F) THEN copied ELSE copied + 1
      /\ copies' = [copies EXCEPT ![i] = {F}]
  BY <1>2, <1>3 DEF BuildNode
<1>5. target' = target \union {F}
  BY <1>3, <1>4
<1>6. copied' \in Nat
  <2>1. copied \in Nat
    BY DEF ImportInv, TypedInv
  <2> QED
    BY <1>4, <2>1
<1>7. /\ StackInv(roots, nodes, work, state) /\ state \in [DOMAIN roots -> 0 .. 2]
      /\ copies = [j \in DOMAIN roots |-> IF state[j] = 2 THEN {roots[j]} ELSE {}]
      /\ target = Ready \union {roots[m] : m \in {j \in DOMAIN roots : state[j] = 2}}
      /\ i \in Int
  BY <1>3, BuildFacts
<1>8. PICK s2 : s2 = state' /\ s2 = [state EXCEPT ![i] = 2]
  BY <1>1, <1>2
<1>9. /\ s2 \in [DOMAIN roots -> 0 .. 2] /\ s2[i] = 2
      /\ \A j \in DOMAIN roots : j # i => s2[j] = state[j]
  BY <1>3, <1>7, <1>8
<1>10. Done(s2, work[1])
  <2>1. work[1] - 1 = i
    BY <1>3, <1>7
  <2> QED
    BY <1>9, <2>1 DEF Done
<1>11. \A j \in DOMAIN roots : /\ state[j] = 2 => s2[j] = 2
                               /\ s2[j] = 1 => state[j] = 1
                               /\ s2[j] = 2 => Done(state, nodes[j].hi) /\ Done(state, nodes[j].lo)
  <2>1. \A j \in DOMAIN roots : state[j] = 2 => Done(state, nodes[j].hi) /\ Done(state, nodes[j].lo)
    BY <1>7 DEF StackInv
  <2> QED
    BY <1>3, <1>9, <2>1
<1>12. copies' = [j \in DOMAIN roots |-> IF s2[j] = 2 THEN {roots[j]} ELSE {}]
  <2>1. PICK c : c = copies' /\ c = [copies EXCEPT ![i] = {F}]
    BY <1>4
  <2>2. DOMAIN copies = DOMAIN roots
    BY <1>7
  <2>3. c = [j \in DOMAIN roots |-> IF j = i THEN {F} ELSE copies[j]]
    BY <2>1, <2>2
  <2>4. \A j \in DOMAIN roots : copies[j] = IF state[j] = 2 THEN {roots[j]} ELSE {}
    BY <1>7
  <2>5. \A j \in DOMAIN roots : (IF j = i THEN {F} ELSE copies[j]) = IF s2[j] = 2 THEN {roots[j]} ELSE {}
    BY <1>2, <1>9, <2>4
  <2>6. PICK d : d = [j \in DOMAIN roots |-> IF s2[j] = 2 THEN {roots[j]} ELSE {}]
    OBVIOUS
  <2>7. DOMAIN c = DOMAIN d /\ \A j \in DOMAIN c : c[j] = d[j]
    BY <2>3, <2>5, <2>6
  <2>8. c = [j \in DOMAIN c |-> c[j]] /\ d = [j \in DOMAIN d |-> d[j]]
    BY <2>3, <2>6
  <2>9. c = d
    BY <2>7, <2>8, Zenon
  <2> QED
    BY <2>1, <2>6, <2>9
<1>13. target' = Ready \union {roots[m] : m \in {j \in DOMAIN roots : s2[j] = 2}}
  <2>1. {j \in DOMAIN roots : s2[j] = 2} = {j \in DOMAIN roots : state[j] = 2} \union {i}
    BY <1>3, <1>9
  <2> QED
    BY <1>2, <1>5, <1>7, <2>1
<1>14. ImportInv'
  BY <1>1, <1>3, <1>6, <1>8, <1>9, <1>10, <1>11, <1>12, <1>13, RebuildPops
<1> QED
  BY <1>1, <1>14

----------------------------------------------------------------------------
(* The end of a rebuild.                                                   *)

\* The nodes of all are those of the destination and those of the families.
LEMMA WholeParts ==
  ASSUME held \in Seq(Family), destination.holds \in SUBSET Family
  PROVE  /\ Whole = Ready \union HeldNodes
         /\ IsFiniteSet(Whole) /\ Cardinality(Whole) \in Nat
<1>1. ManagerRoots \union destination.holds \union Range(held) \in SUBSET Family
  BY HeldFacts, ManagerNodes
<1>2. IsFiniteSet(Whole) /\ Cardinality(Whole) \in Nat
  BY <1>1, NodesOfRoots DEF Whole
<1> QED
  BY <1>2 DEF Whole, Ready, HeldNodes, Nodes

\* When the import returns, nothing is left to say but its answer.
LEMMA ImportEnds ==
  ASSUME ImportInv, passage' = "returned", held' = held, ReturnInv',
         UNCHANGED <<families, variable_map, destination, roots, nodes, copies, state, work, target, copied>>
  PROVE  ImportInv'
<1>1. RequestInv'
  BY DEF ImportInv, RequestInv, Running
<1>2. TypedInv'
  BY DEF ImportInv, TypedInv
<1>3. CopyInv' /\ BuildInv'
  BY DEF CopyInv, BuildInv, Running
<1> QED
  BY <1>1, <1>2, <1>3 DEF ImportInv

\* The destination has no room: the nodes needed are more than fit.
LEMMA ImportFulls ==
  ASSUME ImportInv, held \in Seq(Family), DestinationFull, held' = held
  PROVE  ImportInv' /\ passage' = "returned"
<1>1. /\ AtNode(1) /\ passage' = "returned" /\ imported' = [kind |-> "node_limit", copies |-> << >>]
      /\ UNCHANGED <<families, variable_map, destination, roots, nodes, copies, state, work, target, copied>>
      /\ \E F \in Rebuilt : ~Found(F) /\ Cardinality(target) >= destination.capacity
  BY DEF DestinationFull, ImportReturns, request_vars, dag, build_vars
<1>2. PICK i, F : i = Top - 1 /\ F = roots[i]
  OBVIOUS
<1>3. F \in HeldNodes /\ passage = "build" /\ Rebuilt = {F} /\ (Found(F) <=> F \in target)
  BY <1>1, <1>2, TopRebuilt
<1>4. F \notin target /\ Cardinality(target) >= destination.capacity
  BY <1>1, <1>3
<1>5. destination.holds \in SUBSET Family /\ destination.capacity \in Nat
  BY DEF ImportInv, RequestInv
<1>6. Whole = Ready \union HeldNodes /\ IsFiniteSet(Whole) /\ Cardinality(Whole) \in Nat
  BY <1>5, WholeParts
<1>7. target \subseteq Whole /\ F \in Whole
  BY <1>3, <1>6, BuildFacts
<1>8. /\ IsFiniteSet(target) /\ Cardinality(target) \in Nat
      /\ Cardinality(target \union {F}) = Cardinality(target) + 1
  BY <1>4, <1>6, <1>7, FS_Subset, FS_CardinalityType, FS_AddElement
<1>9. Cardinality(target \union {F}) <= Cardinality(Whole)
  BY <1>6, <1>7, FS_Subset
<1>10. Cardinality(Whole) > destination.capacity
  BY <1>4, <1>5, <1>6, <1>8, <1>9
<1>11. ReturnInv'
  <2>1. Whole' = Whole
    BY <1>1 DEF Whole
  <2>2. imported'.kind = "node_limit" /\ "node_limit" \notin MapKinds
    BY <1>1 DEF MapKinds
  <2> QED
    BY <1>1, <1>10, <2>1, <2>2 DEF ReturnInv
<1> QED
  BY <1>1, <1>11, ImportEnds

\* The roots that were built at the end are the nodes of the families.
LEMMA AllIsBuilt ==
  ASSUME ImportInv, held \in Seq(Family), passage = "build", work = << >>
  PROVE  /\ \A i \in DOMAIN families : Done(state, RootReferences[i])
         /\ target = Whole
<1>1. /\ DagOf(roots, nodes) /\ StackInv(roots, nodes, work, state)
      /\ DOMAIN roots = 1 .. Len(roots) /\ Len(roots) \in Nat
      /\ \A i \in DOMAIN roots : roots[i] \in HeldNodes /\ roots[i] \in Family /\ roots[i] \notin Terminals
  BY BuildFacts
<1>2. DOMAIN work = {} /\ Range(work) = {}
  <2>1. DOMAIN << >> = {}
    OBVIOUS
  <2> QED
    BY <2>1 DEF Range
<1>3. \A i \in DOMAIN families : Done(state, RootReferences[i])
  BY <1>2 DEF ImportInv, BuildInv
<1> DEFINE D == {roots[j] : j \in {m \in DOMAIN roots : state[m] = 2}}
<1>4. D \subseteq HeldNodes /\ D \in SUBSET Family
  BY <1>1
<1>5. ASSUME NEW r \in 0 .. Len(roots) + 1, Done(state, r)
      PROVE  FamilyAt(r, roots) \in D \union Terminals
  <2>1. CASE r = 0 \/ r = 1
    BY <2>1 DEF FamilyAt, Terminals
  <2>2. CASE r # 0 /\ r # 1
    <3>1. r >= 2 /\ r - 1 \in DOMAIN roots
      BY <1>1, <2>2
    <3>2. FamilyAt(r, roots) = roots[r - 1] /\ state[r - 1] = 2
      BY <1>5, <2>2, <3>1 DEF FamilyAt, Done
    <3> QED
      BY <3>1, <3>2
  <2> QED
    BY <2>1, <2>2
<1>6. Closed(D)
  <2> SUFFICES ASSUME NEW G \in D \ Terminals
               PROVE  Hi(TopVar(G), G) \in D \union Terminals /\ Lo(TopVar(G), G) \in D \union Terminals
    BY DEF Closed
  <2>1. PICK j \in DOMAIN roots : G = roots[j] /\ state[j] = 2
    OBVIOUS
  <2>2. Done(state, nodes[j].hi) /\ Done(state, nodes[j].lo)
    BY <1>1, <2>1 DEF StackInv
  <2>3. IsNodeOf(nodes[j], G, roots)
    BY <1>1, <2>1 DEF DagOf
  <2> QED
    BY <1>5, <2>2, <2>3 DEF IsNodeOf
<1> HIDE DEF D
<1>7. ASSUME NEW F \in Range(held)
      PROVE  NodesOf[F] \subseteq D
  <2>1. PICK i \in DOMAIN held : F = held[i]
    BY DEF Range
  <2>2. i \in DOMAIN families /\ RootReferences[i] \in 0 .. Len(roots) + 1 /\ FamilyAt(RootReferences[i], roots) = F
    <3>1. families = held
      BY BuildFacts
    <3> QED
      BY <2>1, <3>1, RootsStand DEF Running
  <2>3. F \in D \union Terminals
    BY <1>3, <1>5, <2>2
  <2> QED
    BY <1>4, <1>6, <2>3, ClosedHasNodes
<1>8. HeldNodes = D
  BY <1>4, <1>7 DEF HeldNodes, Nodes
<1>9. target = Ready \union D
  BY BuildFacts DEF D
<1>10. destination.holds \in SUBSET Family
  BY DEF ImportInv, RequestInv
<1> QED
  BY <1>3, <1>8, <1>9, <1>10, WholeParts

\* The import returns the copies.
LEMMA ImportFinishes ==
  ASSUME ImportInv, held \in Seq(Family), FinishImport, held' = held
  PROVE  ImportInv' /\ passage' = "returned"
<1>1. /\ passage = "build" /\ work = << >> /\ passage' = "returned"
      /\ UNCHANGED <<families, variable_map, destination, roots, nodes, copies, state, work, target, copied>>
      /\ \E result \in [DOMAIN families -> UNION {CopyOf(RootReferences[i]) : i \in DOMAIN families}] :
           /\ \A i \in DOMAIN families : CopyOf(RootReferences[i]) = {result[i]}
           /\ imported' = [kind |-> "ok", copies |-> result]
  BY DEF FinishImport, ImportReturns, request_vars, dag, build_vars
<1>2. PICK result : /\ DOMAIN result = DOMAIN families /\ result = [i \in DOMAIN families |-> result[i]]
                    /\ \A i \in DOMAIN families : CopyOf(RootReferences[i]) = {result[i]}
                    /\ imported' = [kind |-> "ok", copies |-> result]
  BY <1>1
<1>3. families = held /\ variable_map = Identity
  BY <1>1, BuildFacts
<1>4. ASSUME NEW i \in DOMAIN families
      PROVE  result[i] = held[i]
  <2>1. PICK r \in 0 .. Len(roots) + 1 : r = RootReferences[i] /\ FamilyAt(r, roots) = held[i] /\ Done(state, r)
    BY <1>1, AllIsBuilt, RootsStand DEF Running
  <2>2. CopyOf(r) = {held[i]}
    BY <1>1, <2>1, CopyOfDone
  <2> QED
    BY <1>2, <2>1, <2>2
<1>5. result = held
  <2>1. held = [i \in DOMAIN held |-> held[i]]
    OBVIOUS
  <2> QED
    BY <1>2, <1>3, <1>4, <2>1
<1>6. target = Whole
  BY <1>1, AllIsBuilt
<1>7. ReturnInv'
  <2>1. Whole' = Whole
    BY <1>1 DEF Whole
  <2>2. imported'.kind = "ok" /\ imported'.copies = held /\ "ok" \notin MapKinds
    BY <1>2, <1>5 DEF MapKinds
  <2> QED
    BY <1>1, <1>3, <1>6, <2>1, <2>2 DEF ReturnInv
<1> QED
  BY <1>1, <1>7, ImportEnds

\* Every step of the import keeps its invariant.
LEMMA ImportSteps ==
  ASSUME ImportInv, held \in Seq(Family), ImportStep, held' = held
  PROVE  ImportInv' /\ passage # "idle" /\ passage' # "idle"
<1>1. passage # "idle" /\ passage # "returned"
  BY DEF ImportStep, CopyNode, Copied, SkipReference, OpenNode, BuildNode, DestinationFull, FinishImport, AtNode
<1> QED
  BY <1>1, ImportCopy, ImportCopied, ImportSkips, ImportOpens, ImportBuilds, ImportFulls, ImportFinishes
     DEF ImportStep

----------------------------------------------------------------------------
(* The program.                                                            *)

IInv == FromInv /\ HeldInv /\ ImportInv

\* The space stays as it is while the program imports.
LEMMA FromSame ==
  ASSUME FromInv, UNCHANGED fromsets_vars
  PROVE  FromInv'
<1>1. UNCHANGED <<sets, stage, waiting, trie, terminals, node_index, siblings, edge, built,
                  store, before, created, built_from>>
  BY DEF fromsets_vars, trie_vars, reduce_vars
<1>2. TrieInv'
  BY <1>1 DEF FromInv, TrieInv
<1>3. ReduceInv'
  <2>1. Prefix' = Prefix /\ Quiet' = Quiet
    BY <1>1 DEF Prefix, Quiet
  <2>2. ChildVariables(Prefix)' = ChildVariables(Prefix)
    BY <1>1, <2>1 DEF ChildVariables
  <2> QED
    BY <1>1, <2>1, <2>2 DEF FromInv, ReduceInv
<1>4. StoreInv'
  BY <1>1 DEF FromInv, StoreInv
<1>5. AnswerInv'
  BY <1>1 DEF FromInv, AnswerInv
<1> QED
  BY <1>2, <1>3, <1>4, <1>5 DEF FromInv

\* Only a call that runs takes a step of the construction.
LEMMA FromRuns ==
  FromSetsStep => stage # "idle"
BY DEF FromSetsStep, InsertSet, StartReduce, AddChild, SpaceFull, CloseNode, CloseRoot, Adding

\* The program calls from_sets.
LEMMA StepConstruct ==
  ASSUME IInv, Construct
  PROVE  IInv'
<1>1. /\ stage = "idle" /\ passage = "idle" /\ calls < Len(Arguments)
      /\ calls' = calls + 1 /\ held' = held /\ asked' = asked /\ UNCHANGED import_vars
  BY DEF Construct, Idle
<1>2. PICK argument \in Arguments[calls + 1] : RefuseSets(argument) \/ CallFromSets(argument)
  BY DEF Construct
<1>3. argument \subseteq SUBSET (0 .. N)
  <2>1. calls \in Nat
    BY DEF IInv, HeldInv
  <2>2. Arguments \in Seq(SUBSET SUBSET SUBSET (0 .. N)) /\ Len(Arguments) \in Nat
    BY CompactionAssumption, LenProperties
  <2>3. calls + 1 \in 1 .. Len(Arguments)
    BY <1>1, <2>1, <2>2
  <2>4. Arguments[calls + 1] \in SUBSET SUBSET SUBSET (0 .. N)
    BY <2>2, <2>3, ElementOfSeq
  <2> QED
    BY <1>2, <2>4
<1>4. /\ FromInv' /\ store' = store /\ sets' = argument
      /\ stage' = "idle" => built_from'.kind = "invalid_element" /\ ~(UNION argument \subseteq Var)
  <2>1. CASE RefuseSets(argument)
    BY <2>1, FromRefuse DEF IInv
  <2>2. CASE CallFromSets(argument)
    BY <2>2, FromCall DEF IInv
  <2> QED
    BY <1>2, <2>1, <2>2
<1>5. passage' = passage
  BY <1>1 DEF import_vars
<1>6. calls' \in Nat
  BY <1>1 DEF IInv, HeldInv
<1>7. HeldInv'
  BY <1>1, <1>3, <1>4, <1>5, <1>6 DEF IInv, HeldInv
<1>8. ImportInv'
  BY <1>1, ImportIdle DEF IInv
<1> QED
  BY <1>4, <1>7, <1>8 DEF IInv

\* A call of from_sets takes a step.
LEMMA StepConstructing ==
  ASSUME IInv, Constructing
  PROVE  IInv'
<1>1. /\ FromSetsStep /\ UNCHANGED import_vars /\ calls' = calls
      /\ IF stage' = "idle" /\ built_from'.kind = "ok"
         THEN held' = Append(held, built_from'.value) /\ asked' = Append(asked, sets)
         ELSE held' = held /\ asked' = asked
  BY DEF Constructing
<1>2. stage # "idle"
  BY <1>1, FromRuns
<1>3. passage = "idle" /\ passage' = "idle"
  BY <1>1, <1>2 DEF IInv, HeldInv, import_vars
<1>4. FromInv' /\ StepFacts
  BY <1>1, FromStep DEF IInv
<1>5. ImportInv'
  BY <1>1, <1>3, ImportIdle DEF IInv
<1>6. /\ held = asked /\ held \in Seq(Family) /\ calls \in Nat
      /\ \A F \in Range(held) : NodesOf[F] \subseteq store
      /\ sets \subseteq SUBSET (0 .. N)
  BY DEF IInv, HeldInv
<1>7. held' = asked' /\ held' \in Seq(Family) /\ \A F \in Range(held') : NodesOf[F] \subseteq store'
  <2>1. CASE stage' = "idle" /\ built_from'.kind = "ok"
    <3>1. sets \in Family /\ NodesOf[sets] \subseteq store' /\ store \subseteq store'
      BY <1>4, <2>1 DEF StepFacts
    <3>2. held' = Append(held, sets) /\ asked' = Append(held, sets)
      BY <1>1, <1>4, <1>6, <2>1 DEF StepFacts
    <3>3. /\ held' \in Seq(Family) /\ Len(held') = Len(held) + 1 /\ Len(held) \in Nat
          /\ DOMAIN held = 1 .. Len(held) /\ DOMAIN held' = 1 .. Len(held) + 1
          /\ \A i \in 1 .. Len(held) : held'[i] = held[i]
          /\ held'[Len(held) + 1] = sets
      BY <1>6, <3>1, <3>2, AppendProperties, LenProperties
    <3>4. \A i \in DOMAIN held' : i \in 1 .. Len(held) \/ i = Len(held) + 1
      BY <3>3
    <3>5. \A F \in Range(held') : F \in Range(held) \/ F = sets
      BY <3>3, <3>4 DEF Range
    <3> QED
      BY <1>6, <3>1, <3>2, <3>3, <3>5
  <2>2. CASE ~(stage' = "idle" /\ built_from'.kind = "ok")
    <3>1. held' = held /\ asked' = asked /\ store \subseteq store'
      BY <1>1, <1>4, <2>2 DEF StepFacts
    <3> QED
      BY <1>6, <3>1
  <2> QED
    BY <2>1, <2>2
<1>8. HeldInv'
  BY <1>1, <1>3, <1>4, <1>6, <1>7 DEF HeldInv, StepFacts
<1> QED
  BY <1>4, <1>5, <1>8 DEF IInv

\* While the program imports, the rest stays as it is.
LEMMA StepImport ==
  ASSUME IInv, UNCHANGED <<fromsets_vars, calls, held, asked>>, ImportInv',
         passage' # "idle" => stage = "idle"
  PROVE  IInv'
<1>1. FromInv'
  BY FromSame DEF IInv
<1>2. UNCHANGED <<sets, stage, store, built_from>>
  BY DEF fromsets_vars
<1>3. HeldInv'
  BY <1>2 DEF IInv, HeldInv
<1> QED
  BY <1>1, <1>3 DEF IInv

\* The program calls import or compact.
LEMMA StepCall ==
  ASSUME IInv, Idle, UNCHANGED <<fromsets_vars, calls, held, asked>>,
         NEW m \in Seq(Nat), NEW d \in [variables : Nat, capacity : Nat, holds : SUBSET Family],
         ImportNothing(held, m, d) \/ StartImport(held, m, d)
  PROVE  IInv'
<1>1. ImportInv /\ held \in Seq(Family) /\ held' = held /\ stage = "idle"
  BY DEF IInv, HeldInv, Idle
<1>2. ImportInv'
  BY <1>1, ImportRefused, ImportStarts
<1> QED
  BY <1>1, <1>2, StepImport

\* Every step of the program keeps the invariant.
LEMMA Step ==
  IInv /\ [Next]_vars => IInv'
<1> SUFFICES ASSUME IInv, [Next]_vars PROVE IInv'
  OBVIOUS
<1>1. CASE Construct
  BY <1>1, StepConstruct
<1>2. CASE Compact
  <2>1. Identity \in Seq(Nat) /\ Fresh \in [variables : Nat, capacity : Nat, holds : SUBSET Family]
    BY IdentityAccepted, NAssumption, FromSetsAssumption DEF Fresh
  <2>2. PICK m \in Seq(Nat), d \in [variables : Nat, capacity : Nat, holds : SUBSET Family] :
          m = Identity /\ d = Fresh
    BY <2>1
  <2>3. /\ Idle /\ UNCHANGED <<fromsets_vars, calls, held, asked>>
        /\ ImportNothing(held, m, d) \/ StartImport(held, m, d)
    BY <1>2, <2>2 DEF Compact
  <2> QED
    BY <2>3, StepCall
<1>3. CASE CompactForeign
  <2>1. ImportInv' /\ stage = "idle" /\ UNCHANGED <<fromsets_vars, calls, held, asked>>
    BY <1>3, ImportForeign DEF CompactForeign, IInv, Idle
  <2> QED
    BY <2>1, StepImport
<1>4. CASE ImportElsewhere
  <2>1. PICK m \in Maps, d \in Destinations : ImportNothing(held, m, d) \/ StartImport(held, m, d)
    BY <1>4 DEF ImportElsewhere
  <2>2. m \in Seq(Nat) /\ d \in [variables : Nat, capacity : Nat, holds : SUBSET Family]
    BY CompactionAssumption
  <2>3. Idle /\ UNCHANGED <<fromsets_vars, calls, held, asked>>
    BY <1>4 DEF ImportElsewhere
  <2> QED
    BY <2>1, <2>2, <2>3, StepCall
<1>5. CASE Constructing
  BY <1>5, StepConstructing
<1>6. CASE Importing
  <2>1. ImportStep /\ UNCHANGED <<fromsets_vars, calls, held, asked>>
    BY <1>6 DEF Importing
  <2>2. ImportInv' /\ passage # "idle"
    BY <2>1, ImportSteps DEF IInv, HeldInv
  <2>3. stage = "idle"
    BY <2>2 DEF IInv, HeldInv
  <2> QED
    BY <2>1, <2>2, <2>3, StepImport
<1>7. CASE UNCHANGED vars
  <2>1. UNCHANGED <<fromsets_vars, calls, held, asked>> /\ UNCHANGED import_vars
    BY <1>7 DEF vars
  <2>2. UNCHANGED <<families, variable_map, destination, passage, roots, nodes,
                    copies, state, work, target, copied, imported>>
    BY <2>1 DEF import_vars, request_vars, dag, build_vars
  <2>3. ImportInv'
    <3>2. held' = held
      BY <2>1
    <3>1. RequestInv' /\ TypedInv'
      BY <2>2, <3>2 DEF IInv, ImportInv, RequestInv, TypedInv, Running
    <3>3. CopyInv'
      BY <2>2, <3>2 DEF IInv, ImportInv, CopyInv, Running, HeldNodes
    <3>4. BuildInv'
      <4>1. RootReferences' = RootReferences /\ Ready' = Ready
        BY <2>2 DEF RootReferences, Ready
      <4> QED
        BY <2>2, <4>1 DEF IInv, ImportInv, BuildInv
    <3>5. ReturnInv'
      BY <2>2, <3>2 DEF IInv, ImportInv, ReturnInv, Whole
    <3> QED
      BY <3>1, <3>3, <3>4, <3>5 DEF ImportInv
  <2>4. passage' # "idle" => stage = "idle"
    BY <2>2 DEF IInv, HeldInv
  <2> QED
    BY <2>1, <2>3, <2>4, StepImport
<1> QED
  BY <1>1, <1>2, <1>3, <1>4, <1>5, <1>6, <1>7 DEF Next, Work

\* The invariant of the program: its construction, what it holds, its import.
THEOREM Invariance == Spec => []IInv
<1>1. Init => IInv
  BY FromInit, ImportStart DEF IInv
<1> QED
  BY <1>1, Step, PTL DEF Spec

----------------------------------------------------------------------------
(* What the runs check.                                                    *)

\* The variables keep their types: the program never holds anything but
\* families of its space, and a call of from_sets or import that runs has a
\* trie, a list of roots and a stack of its own kind.
THEOREM TypeCorrect == Spec => []TypeOK
<1>1. IInv => TypeOK
  <2> SUFFICES ASSUME IInv PROVE TypeOK
    OBVIOUS
  <2>1. FromInv /\ HeldInv /\ ImportInv
    BY DEF IInv
  <2>2. sets \subseteq SUBSET (0 .. N) /\ held \in Seq(Family) /\ calls \in Nat
    BY <2>1 DEF HeldInv
  <2>3. store \subseteq Family \ Terminals /\ before \in Nat /\ created \in Nat
    BY <2>1 DEF FromInv, StoreInv
  <2>4. built_from \in [kind : Answers, value : Family]
    BY <2>1 DEF FromInv, AnswerInv
  <2>5. passage \in {"idle", "copy", "build", "returned"}
    BY <2>1 DEF ImportInv, RequestInv
  <2>6. /\ roots \in Seq(Family \ Terminals) /\ nodes \in Seq([variable : Var, hi : Nat, lo : Nat])
        /\ \A i \in DOMAIN copies : copies[i] \subseteq Family
        /\ \A i \in DOMAIN state : state[i] \in 0 .. 2
        /\ work \in Seq(Nat) /\ copied \in Nat
        /\ target \subseteq Family \ Terminals
    BY <2>1 DEF ImportInv, TypedInv
  <2>7. /\ stage \in {"idle", "trie", "reduce"}
        /\ waiting \subseteq SUBSET Var /\ trie \in Seq(SUBSET Var) /\ terminals \subseteq Range(trie)
    <3>1. TrieInv
      BY <2>1 DEF FromInv
    <3>2. CASE stage = "idle"
      <4>1. waiting = {} /\ trie = << >> /\ terminals = {}
        BY <3>1, <3>2 DEF TrieInv
      <4>2. << >> \in Seq(SUBSET Var)
        OBVIOUS
      <4> QED
        BY <3>1, <4>1, <4>2 DEF TrieInv
    <3>3. CASE stage # "idle"
      <4>1. sets \in Family /\ trie \in Seq(SUBSET Var)
        BY <3>1, <3>3, RunningFacts
      <4> QED
        BY <3>1, <3>3, <4>1 DEF TrieInv, Family
    <3> QED
      BY <3>2, <3>3
  <2>8. siblings \subseteq Var /\ edge \in Family /\ \A P \in DOMAIN built : P \in Range(trie) /\ built[P] \in Family
    <3>1. ReduceInv /\ TrieInv
      BY <2>1 DEF FromInv
    <3>2. CASE stage # "reduce"
      BY <3>1, <3>2, TerminalNodes DEF ReduceInv, Quiet, NothingBuilt
    <3>3. CASE stage = "reduce"
      <4>1. /\ node_index \in DOMAIN trie
            /\ built = [P \in {trie[j] : j \in node_index + 1 .. Len(trie)} |-> PartialOf(sets, P, {})]
            /\ siblings \subseteq ChildVariables(Prefix) /\ edge = PartialOf(sets, Prefix, siblings)
        BY <3>1, <3>3 DEF ReduceInv
      <4>2. sets \in Family /\ Len(trie) \in Nat /\ DOMAIN trie = 1 .. Len(trie)
        BY <3>1, <3>3, RunningFacts
      <4>3. siblings \subseteq Var
        BY <4>1 DEF ChildVariables
      <4>4. \A P : PartialOf(sets, P, {}) \in Family /\ PartialOf(sets, P, siblings) \in Family
        BY <4>2, PartialTyping
      <4>5. \A j \in node_index + 1 .. Len(trie) : j \in DOMAIN trie
        BY <4>1, <4>2
      <4>6. \A P \in DOMAIN built : P \in Range(trie)
        BY <4>1, <4>5 DEF Range
      <4>7. \A P \in DOMAIN built : built[P] \in Family
        BY <4>1, <4>4
      <4> QED
        BY <4>1, <4>3, <4>4, <4>6, <4>7
    <3> QED
      BY <3>2, <3>3
  <2> QED
    BY <2>2, <2>3, <2>4, <2>5, <2>6, <2>7, <2>8 DEF TypeOK
<1> QED
  BY <1>1, Invariance, PTL

\* The families that from_sets returned are those the program asked for, and it
\* refuses exactly the arguments with an element that is no variable.
THEOREM BuildsWhatIsAsked == Spec => []FamiliesAsAsked
<1>1. IInv => FamiliesAsAsked
  BY DEF IInv, HeldInv, FamiliesAsAsked
<1> QED
  BY <1>1, Invariance, PTL

\* The nodes that from_sets and import_dag ask the backend for have children of
\* later variables only, and the children are built before.
THEOREM NodesAreOrdered == Spec => []ChildrenBelow
<1>1. IInv => ChildrenBelow
  <2> SUFFICES ASSUME IInv PROVE ChildrenBelow
    OBVIOUS
  <2>1. FromInv /\ ImportInv /\ held \in Seq(Family)
    BY DEF IInv, HeldInv
  <2>2. ASSUME stage = "reduce", siblings # {}
        PROVE  /\ ChildPrefix \in DOMAIN built
               /\ \A w \in Support(edge) \union Support(built[ChildPrefix]) : NextVariable < w
    BY <2>1, <2>2, ChildFacts
  <2>3. ASSUME AtNode(1)
        PROVE  /\ Rebuilt # {}
               /\ \A F \in CopyOf(TopNode.hi) \union CopyOf(TopNode.lo) :
                    \A w \in Support(F) : Mapped(TopNode.variable) < w
    <3>1. PICK i, F : i = Top - 1 /\ F = roots[i]
      OBVIOUS
    <3>2. /\ F \in Family /\ F \notin Terminals /\ Rebuilt = {F} /\ Mapped(TopNode.variable) = TopVar(F)
          /\ CopyOf(TopNode.hi) = {Hi(TopVar(F), F)} /\ CopyOf(TopNode.lo) = {Lo(TopVar(F), F)}
      BY <2>1, <2>3, <3>1, TopRebuilt
    <3>3. \A w \in Support(Hi(TopVar(F), F)) \union Support(Lo(TopVar(F), F)) : TopVar(F) < w
      BY <3>2, Branching
    <3> QED
      BY <3>2, <3>3
  <2> QED
    BY <2>2, <2>3 DEF ChildrenBelow
<1> QED
  BY <1>1, Invariance, PTL

\* A call fails with the node limit only when what it builds does not fit, what
\* succeeds leaves the nodes of its result and no other, and compaction within
\* the limits of the space fails only for a family of another space.
THEOREM LimitsAreExact == Spec => []NodeLimitsExact
<1>1. IInv => NodeLimitsExact
  <2> SUFFICES ASSUME IInv PROVE NodeLimitsExact
    OBVIOUS
  <2>1. StoreInv /\ AnswerInv /\ ReturnInv /\ RequestInv /\ held \in Seq(Family)
        /\ \A F \in Range(held) : NodesOf[F] \subseteq store
    BY DEF IInv, HeldInv, FromInv, ImportInv
  <2>2. created = Cardinality(store) - before
    BY <2>1 DEF StoreInv
  <2>3. /\ built_from.kind = "node_limit" => Cardinality(store \union NodesOf[sets]) > Capacity
        /\ built_from.kind = "ok" => NodesOf[sets] \subseteq store /\ Cardinality(store) <= Capacity
    BY <2>1 DEF AnswerInv, StoreInv
  <2>4. /\ imported.kind = "node_limit" => Cardinality(Whole) > destination.capacity
        /\ imported.kind = "ok" /\ held # << >> => target = Whole
    BY <2>1 DEF ReturnInv
  <2>5. ASSUME destination = Fresh, variable_map = Identity
        PROVE  imported.kind \in {"none", "ok", "context_mismatch"}
    <3>1. imported.kind \in {"none", "ok", "node_limit", "context_mismatch"} \union MapKinds
      BY <2>1 DEF ReturnInv
    <3>2. imported.kind \notin MapKinds
      <4>1. destination.variables = N
        BY <2>5 DEF Fresh
      <4>2. MapError(variable_map, destination.variables) = {}
        BY <2>5, <4>1, IdentityAccepted
      <4> QED
        BY <2>1, <4>2 DEF ReturnInv
    <3>3. imported.kind # "node_limit"
      <4>1. destination.capacity = Capacity /\ destination.holds = {}
        BY <2>5 DEF Fresh
      <4>2. Whole \subseteq store
        <5>1. Nodes(ManagerRoots) \subseteq store
          BY <2>1 DEF StoreInv
        <5> QED
          BY <2>1, <4>1, <5>1 DEF Whole, Nodes
      <4>3. IsFiniteSet(store) /\ Cardinality(store) \in Nat
        BY <2>1, FamilySetsFinite DEF StoreInv
      <4>4. Cardinality(Whole) <= Cardinality(store) /\ Cardinality(store) <= Capacity
        BY <2>1, <4>2, <4>3, FS_Subset DEF StoreInv
      <4>5. Cardinality(Whole) \in Nat
        BY <2>1, WholeParts DEF RequestInv
      <4>6. ~(Cardinality(Whole) > Capacity)
        BY <4>3, <4>4, <4>5, FromSetsAssumption
      <4> QED
        BY <2>4, <4>1, <4>6
    <3> QED
      BY <3>1, <3>2, <3>3
  <2> QED
    BY <2>2, <2>3, <2>4, <2>5 DEF NodeLimitsExact, Whole
<1> QED
  BY <1>1, Invariance, PTL

\* Import returns each family with its variables renamed by a map that keeps
\* their order, and transfers a node that families share once.
THEOREM CopiesAreExact == Spec => []ImportExact
<1>1. IInv => ImportExact
  <2> SUFFICES ASSUME IInv PROVE ImportExact
    OBVIOUS
  <2>1. ImportInv /\ held \in Seq(Family)
    BY DEF IInv, HeldInv
  <2> DEFINE Renamed(F) == {{variable_map[v + 1] : v \in S} : S \in F}
  <2>2. ASSUME imported.kind = "ok"
        PROVE  /\ variable_map \in [1 .. N -> Var]
               /\ \A u, v \in Var : u < v => variable_map[u + 1] < variable_map[v + 1]
               /\ imported.copies = [i \in DOMAIN held |-> Renamed(held[i])]
    <3>1. variable_map = Identity /\ imported.copies = held
      BY <2>1, <2>2 DEF ImportInv, ReturnInv
    <3>2. N \in Nat /\ Var = 0 .. N - 1
      BY NAssumption DEF Var
    <3>3. \A i \in 1 .. N : i - 1 \in Var
      BY <3>2
    <3>4. variable_map \in [1 .. N -> Var]
      BY <3>1, <3>3 DEF Identity
    <3>5. \A v \in Var : v + 1 \in 1 .. N /\ (v + 1) - 1 = v
      BY <3>2
    <3>6. \A v \in Var : variable_map[v + 1] = v
      BY <3>1, <3>5 DEF Identity
    <3>7. \A u, v \in Var : u < v => variable_map[u + 1] < variable_map[v + 1]
      BY <3>6
    <3>8. \A F \in Family : Renamed(F) = F
      <4> SUFFICES ASSUME NEW F \in Family PROVE Renamed(F) = F
        OBVIOUS
      <4>1. \A S \in F : {variable_map[v + 1] : v \in S} = S
        <5> SUFFICES ASSUME NEW S \in F PROVE {variable_map[v + 1] : v \in S} = S
          OBVIOUS
        <5>1. \A v \in S : variable_map[v + 1] = v
          BY <3>6 DEF Family
        <5> QED
          BY <5>1
      <4>2. ASSUME NEW S \in F PROVE S \in Renamed(F)
        BY <4>1
      <4>3. ASSUME NEW x \in Renamed(F) PROVE x \in F
        <5>1. PICK S \in F : x = {variable_map[v + 1] : v \in S}
          BY <4>3
        <5> QED
          BY <5>1, <4>1
      <4> QED
        BY <4>2, <4>3
    <3> HIDE DEF Renamed
    <3>9. \A i \in DOMAIN held : held[i] \in Family
      BY <2>1, ElementOfSeq, LenProperties
    <3>10. held = [i \in DOMAIN held |-> held[i]]
      BY <2>1
    <3>11. held = [i \in DOMAIN held |-> Renamed(held[i])]
      BY <3>8, <3>9, <3>10
    <3> QED
      BY <3>1, <3>4, <3>7, <3>11
  <2>3. ASSUME passage = "build"
        PROVE  Len(nodes) = Cardinality(Nodes(Range(held)))
    <3>1. /\ DagOf(roots, nodes) /\ roots \in Seq(HeldNodes)
          /\ \A i \in DOMAIN roots : roots[i] \in HeldNodes /\ roots[i] \in Family
      BY <2>1, <2>3, BuildFacts
    <3>2. Distinct(roots) /\ Len(nodes) = Len(roots)
      BY <3>1 DEF DagOf
    <3>3. IsFiniteSet(HeldNodes)
      BY <2>1, HeldFacts
    <3> DEFINE D == {roots[i] : i \in DOMAIN roots}
    <3>4. Closed(D)
      <4> SUFFICES ASSUME NEW G \in D \ Terminals
                   PROVE  Hi(TopVar(G), G) \in D \union Terminals /\ Lo(TopVar(G), G) \in D \union Terminals
        BY DEF Closed
      <4>1. PICK j \in DOMAIN roots : G = roots[j]
        OBVIOUS
      <4>2. IsNodeOf(nodes[j], G, roots)
        BY <3>1, <4>1 DEF DagOf
      <4>3. \A r \in 0 .. Len(roots) + 1 : FamilyAt(r, roots) \in Listed(roots)
        BY <3>1, FamilyAtRange
      <4> QED
        BY <4>2, <4>3 DEF IsNodeOf, Listed
    <3>5. D \in SUBSET Family
      BY <3>1
    <3>6. \A F \in Range(held) : F \in D \union Terminals
      BY <2>1, <2>3 DEF ImportInv, CopyInv, Running, Listed
    <3> HIDE DEF D
    <3>7. HeldNodes \subseteq D
      <4>1. \A F \in Range(held) : NodesOf[F] \subseteq D
        BY <3>4, <3>5, <3>6, ClosedHasNodes
      <4> QED
        BY <4>1 DEF HeldNodes, Nodes
    <3>8. Len(roots) = Cardinality(HeldNodes)
      BY <3>1, <3>2, <3>3, <3>7, DistinctLength DEF D
    <3> QED
      BY <3>2, <3>8 DEF HeldNodes
  <2> HIDE DEF Renamed
  <2> QED
    BY <2>2, <2>3 DEF ImportExact, Renamed
<1> QED
  BY <1>1, Invariance, PTL
===============================================================================
