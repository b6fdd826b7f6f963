---------------------------- MODULE QueryProofs ----------------------------
(***************************************************************************)
(* Proofs about what a program reads from its families.                    *)
(*                                                                         *)
(* Queries: the snapshot is the diagram, its counts, the two limits, the   *)
(* samples and the order of the iterator are exact.                        *)
(* Edge families: seen as families of edges, the calls are those that      *)
(* EdgeFamilyCalls promises.                                               *)
(*                                                                         *)
(* The invariant of a query has four parts.  The snapshot's says what the  *)
(* references copied so far stand for; the counting's that every count     *)
(* kept is right and that what is missing is on the stack above the items  *)
(* that need it; the sampling's that the sets before the one walked to are *)
(* those left behind and those before it in the branch; the traversal's    *)
(* that the sets emitted and those the stack still stands for are the      *)
(* source, in order.                                                       *)
(***************************************************************************)
EXTENDS Query, EdgeFamilies, FamiliesProofs, SequenceTheorems, FiniteSetTheorems

----------------------------------------------------------------------------
(* Families and diagrams.                                                  *)

\* What holds of the HI children of roots and of a nonempty root holds of One.
LEMMA HiPathEndsInOne ==
  ASSUME NEW C, \A G \in C \ {One} : Hi(TopVar(G), G) \in C,
         NEW F \in C, F \in Family, F # Zero
  PROVE  One \in C
<1> DEFINE Good == {d \in 0 .. N : \A G \in C \intersect Family :
                      G # Zero /\ (\A w \in Support(G) : N - d <= w) => One \in C}
<1>1. 0 \in Good
  <2> SUFFICES ASSUME NEW G \in C \intersect Family, G # Zero, \A w \in Support(G) : N - 0 <= w
               PROVE  One \in C
    BY NAssumption
  <2>1. G \in Terminals
    <3> SUFFICES ASSUME G \notin Terminals PROVE FALSE
      OBVIOUS
    <3>1. TopVar(G) \in Var /\ TopVar(G) \in Support(G)
      BY TopExists DEF Terminals, IsTop
    <3> QED
      BY <3>1, NAssumption DEF Var
  <2> QED
    BY <2>1 DEF Terminals
<1>2. ASSUME NEW d \in Nat, d < N, d \in Good
      PROVE  d + 1 \in Good
  <2>1. d + 1 \in 0 .. N
    BY <1>2, NAssumption
  <2> SUFFICES ASSUME NEW G \in C \intersect Family, G # Zero, \A w \in Support(G) : N - (d + 1) <= w
               PROVE  One \in C
    BY <2>1
  <2>2. CASE G # One
    <3> DEFINE v == TopVar(G)
               hi == Hi(v, G)
    <3>1. /\ v \in Var /\ v \in Support(G) /\ hi \in Family /\ hi # Zero
          /\ \A w \in Support(hi) : v < w
      BY <2>2, Branching, TopExists DEF Terminals, IsTop
    <3>2. hi \in C
      BY <2>2
    <3> HIDE DEF v, hi
    <3>3. N - (d + 1) <= v
      BY <3>1
    <3>4. \A w \in Support(hi) : N - d <= w
      <4> SUFFICES ASSUME NEW w \in Support(hi) PROVE N - d <= w
        OBVIOUS
      <4>1. w \in Int /\ v \in Int /\ v < w
        BY <3>1, NAssumption DEF Support, Family, Var
      <4> QED
        BY <3>3, <4>1, <1>2, NAssumption
    <3> QED
      BY <1>2, <3>1, <3>2, <3>4
  <2> QED
    BY <2>2
<1> HIDE DEF Good
<1>3. 0 .. N \subseteq Good
  BY <1>1, <1>2, NAssumption, SetInduction
<1>4. N \in Good
  BY <1>3, NAssumption
<1>5. \A w \in Support(F) : N - N <= w
  BY NAssumption DEF Support, Family, Var
<1> QED
  BY <1>4, <1>5 DEF Good

----------------------------------------------------------------------------
(* Numbers: powers of two, the length of a number in bits, division.       *)

PowerUpTo(n, f) == f = [i \in 0 .. n |-> IF i = 0 THEN 1 ELSE 2 * f[i - 1]]

\* There is a table of the powers up to any exponent.
LEMMA PowerExists ==
  ASSUME NEW n \in Nat
  PROVE  \E f : PowerUpTo(n, f)
<1> DEFINE Good == {m \in Nat : \E f : PowerUpTo(m, f)}
<1>1. 0 \in Good
  <2> DEFINE f == [i \in 0 .. 0 |-> 1]
  <2>1. \A i \in 0 .. 0 : i = 0
    OBVIOUS
  <2>2. f = [i \in 0 .. 0 |-> IF i = 0 THEN 1 ELSE 2 * f[i - 1]]
    BY <2>1
  <2> QED
    BY <2>2 DEF PowerUpTo
<1>2. ASSUME NEW m \in Nat, m < n, m \in Good
      PROVE  m + 1 \in Good
  <2>1. PICK f : f = [i \in 0 .. m |-> IF i = 0 THEN 1 ELSE 2 * f[i - 1]]
    BY <1>2 DEF PowerUpTo
  <2> DEFINE g == [i \in 0 .. m + 1 |-> IF i = m + 1 THEN 2 * f[m] ELSE f[i]]
  <2>2. \A i \in 0 .. m + 1 : g[i] = IF i = 0 THEN 1 ELSE 2 * g[i - 1]
    <3> SUFFICES ASSUME NEW i \in 0 .. m + 1 PROVE g[i] = IF i = 0 THEN 1 ELSE 2 * g[i - 1]
      OBVIOUS
    <3>1. CASE i = m + 1
      <4>1. i # 0 /\ i - 1 = m /\ m \in 0 .. m + 1 /\ m # m + 1
        BY <3>1
      <4> QED
        BY <3>1, <4>1
    <3>2. CASE i = 0
      <4>1. i \in 0 .. m /\ i # m + 1
        BY <3>2
      <4> QED
        BY <2>1, <3>2, <4>1
    <3>3. CASE i # m + 1 /\ i # 0
      <4>1. i \in 0 .. m /\ i - 1 \in 0 .. m + 1 /\ i - 1 # m + 1
        BY <3>3
      <4> QED
        BY <2>1, <3>3, <4>1
    <3> QED
      BY <3>1, <3>2, <3>3
  <2>3. g = [i \in 0 .. m + 1 |-> g[i]]
    OBVIOUS
  <2> HIDE DEF g
  <2>4. g = [i \in 0 .. m + 1 |-> IF i = 0 THEN 1 ELSE 2 * g[i - 1]]
    BY <2>2, <2>3, Zenon
  <2>5. PowerUpTo(m + 1, g)
    BY <2>4 DEF PowerUpTo
  <2> QED
    BY <2>5
<1> HIDE DEF Good
<1>3. 0 .. n \subseteq Good
  BY <1>1, <1>2, SetInduction
<1>4. n \in Good
  BY <1>3
<1> QED
  BY <1>4 DEF Good

\* The prefixes of the powers agree.
LEMMA PowerUnique ==
  ASSUME NEW m \in Nat, NEW n \in Nat, NEW f, NEW g, PowerUpTo(m, f), PowerUpTo(n, g), NEW i \in Nat, i <= m, i <= n
  PROVE  f[i] = g[i]
<1> DEFINE Good == {k \in Nat : k <= m /\ k <= n => f[k] = g[k]}
<1>1. /\ \A k \in 0 .. m : f[k] = IF k = 0 THEN 1 ELSE 2 * f[k - 1]
      /\ \A k \in 0 .. n : g[k] = IF k = 0 THEN 1 ELSE 2 * g[k - 1]
  <2>1. f = [k \in 0 .. m |-> IF k = 0 THEN 1 ELSE 2 * f[k - 1]]
    BY DEF PowerUpTo
  <2>2. g = [k \in 0 .. n |-> IF k = 0 THEN 1 ELSE 2 * g[k - 1]]
    BY DEF PowerUpTo
  <2>3. \A k \in 0 .. m : f[k] = IF k = 0 THEN 1 ELSE 2 * f[k - 1]
    BY <2>1, Zenon
  <2>4. \A k \in 0 .. n : g[k] = IF k = 0 THEN 1 ELSE 2 * g[k - 1]
    BY <2>2, Zenon
  <2> QED
    BY <2>3, <2>4
<1>2. 0 \in Good
  BY <1>1
<1>3. ASSUME NEW k \in Nat, k < i, k \in Good
      PROVE  k + 1 \in Good
  <2>1. k + 1 \in 0 .. m /\ k + 1 \in 0 .. n /\ k + 1 # 0 /\ (k + 1) - 1 = k
    BY <1>3
  <2>2. f[k] = g[k]
    BY <1>3
  <2> QED
    BY <1>1, <2>1, <2>2
<1> HIDE DEF Good
<1>4. 0 .. i \subseteq Good
  BY <1>2, <1>3, SetInduction
<1>5. i \in Good
  BY <1>4
<1> QED
  BY <1>5 DEF Good

\* Powers of two.
LEMMA PowerUnfolds ==
  /\ Power[0] = 1
  /\ \A n \in Nat : Power[n + 1] = 2 * Power[n]
<1> DEFINE P == [n \in Nat |-> (CHOOSE f : PowerUpTo(n, f))[n]]
           F == CHOOSE p : p = [b \in Nat |-> IF b = 0 THEN 1 ELSE 2 * p[b - 1]]
<1>1. \A n \in Nat : PowerUpTo(n, CHOOSE f : PowerUpTo(n, f))
  BY PowerExists
<1>2. P[0] = 1
  <2>1. PICK f : f = CHOOSE h : PowerUpTo(0, h)
    OBVIOUS
  <2>2. PowerUpTo(0, f) /\ P[0] = f[0]
    BY <1>1, <2>1
  <2>3. f = [i \in 0 .. 0 |-> IF i = 0 THEN 1 ELSE 2 * f[i - 1]]
    BY <2>2 DEF PowerUpTo
  <2> QED
    BY <2>2, <2>3
<1>3. ASSUME NEW n \in Nat \ {0} PROVE P[n] = 2 * P[n - 1]
  <2>1. PICK f : f = CHOOSE h : PowerUpTo(n, h)
    OBVIOUS
  <2>2. PICK g : g = CHOOSE h : PowerUpTo(n - 1, h)
    OBVIOUS
  <2>3. n - 1 \in Nat /\ n \in 0 .. n /\ n - 1 <= n
    OBVIOUS
  <2>4. PowerUpTo(n, f) /\ P[n] = f[n] /\ PowerUpTo(n - 1, g) /\ P[n - 1] = g[n - 1]
    BY <1>1, <2>1, <2>2, <2>3
  <2> HIDE DEF P
  <2>5. f = [i \in 0 .. n |-> IF i = 0 THEN 1 ELSE 2 * f[i - 1]]
    BY <2>4 DEF PowerUpTo
  <2>6. \A i \in 0 .. n : f[i] = IF i = 0 THEN 1 ELSE 2 * f[i - 1]
    BY <2>5, Zenon
  <2>7. f[n] = 2 * f[n - 1]
    BY <2>3, <2>6
  <2>8. f[n - 1] = g[n - 1]
    BY <2>3, <2>4, PowerUnique
  <2> QED
    BY <2>4, <2>7, <2>8
<1>4. P = [n \in Nat |-> P[n]]
  OBVIOUS
<1> HIDE DEF P
<1>5. \A n \in Nat : P[n] = IF n = 0 THEN 1 ELSE 2 * P[n - 1]
  BY <1>2, <1>3
<1>6. P = [b \in Nat |-> IF b = 0 THEN 1 ELSE 2 * P[b - 1]]
  BY <1>4, <1>5, Zenon
<1>7. F = [b \in Nat |-> IF b = 0 THEN 1 ELSE 2 * F[b - 1]]
  BY <1>6, Zenon
<1>8. Power = F
  BY DEF Power
<1> HIDE DEF F
<1>9. \A b \in Nat : F[b] = IF b = 0 THEN 1 ELSE 2 * F[b - 1]
  BY <1>7, Zenon
<1>10. \A n \in Nat : n + 1 \in Nat /\ n + 1 # 0 /\ (n + 1) - 1 = n
  OBVIOUS
<1> QED
  BY <1>8, <1>9, <1>10

\* A power of two is positive and above its exponent.
LEMMA PowerGrows ==
  ASSUME NEW n \in Nat
  PROVE  Power[n] \in Nat \ {0} /\ n < Power[n]
<1> DEFINE Good == {k \in Nat : Power[k] \in Nat \ {0} /\ k < Power[k]}
<1>1. 0 \in Good
  BY PowerUnfolds
<1>2. ASSUME NEW k \in Nat, k < n, k \in Good
      PROVE  k + 1 \in Good
  BY <1>2, PowerUnfolds
<1> HIDE DEF Good
<1>3. 0 .. n \subseteq Good
  BY <1>1, <1>2, SetInduction
<1>4. n \in Good
  BY <1>3
<1> QED
  BY <1>4 DEF Good

\* The power of a sum.
LEMMA PowerOfSum ==
  ASSUME NEW a \in Nat, NEW b \in Nat
  PROVE  Power[a + b] = Power[a] * Power[b]
<1> DEFINE Good == {k \in Nat : Power[a + k] = Power[a] * Power[k]}
<1>1. 0 \in Good
  <2>1. a + 0 = a
    OBVIOUS
  <2> QED
    BY <2>1, PowerUnfolds, PowerGrows
<1>2. ASSUME NEW k \in Nat, k < b, k \in Good
      PROVE  k + 1 \in Good
  <2>1. a + (k + 1) = (a + k) + 1 /\ a + k \in Nat
    OBVIOUS
  <2>2. Power[a + (k + 1)] = 2 * Power[a + k] /\ Power[k + 1] = 2 * Power[k]
    BY <2>1, PowerUnfolds
  <2>3. PICK x, y : x = Power[a] /\ y = Power[k]
    OBVIOUS
  <2>4. x \in Nat /\ y \in Nat
    BY <2>3, PowerGrows
  <2>5. Power[a + k] = x * y
    BY <1>2, <2>3
  <2>6. 2 * (x * y) = x * (2 * y)
    BY <2>4
  <2> QED
    BY <2>2, <2>3, <2>5, <2>6
<1> HIDE DEF Good
<1>3. 0 .. b \subseteq Good
  BY <1>1, <1>2, SetInduction
<1>4. b \in Good
  BY <1>3
<1> QED
  BY <1>4 DEF Good

\* A number has a length, and the power of its length is above it.
LEMMA BitLengthBound ==
  ASSUME NEW n \in Nat
  PROVE  /\ BitLength(n) \in 0 .. n
         /\ n < Power[BitLength(n)]
         /\ n > 0 => BitLength(n) > 0
<1> DEFINE Fits(m, b) == m < Power[b] /\ (b = 0 \/ Power[b - 1] <= m)
           Good == {m \in Nat : \E b \in 0 .. m : Fits(m, b)}
<1>1. 0 \in Good
  BY PowerUnfolds
<1>2. ASSUME NEW m \in Nat, m < n, m \in Good
      PROVE  m + 1 \in Good
  <2>1. PICK b \in 0 .. m : Fits(m, b)
    BY <1>2
  <2>2. b \in Nat /\ Power[b] \in Nat /\ b \in 0 .. m + 1 /\ b + 1 \in 0 .. m + 1 /\ (b + 1) - 1 = b
    BY PowerGrows
  <2>3. CASE m + 1 < Power[b]
    <3>1. b # 0 => Power[b - 1] \in Nat
      BY <2>2, PowerGrows
    <3>2. Fits(m + 1, b)
      BY <2>1, <2>2, <2>3, <3>1
    <3> QED
      BY <2>2, <3>2
  <2>4. CASE ~(m + 1 < Power[b])
    <3>1. Power[b + 1] = 2 * Power[b]
      BY <2>2, PowerUnfolds
    <3>2. Fits(m + 1, b + 1)
      BY <2>1, <2>2, <2>4, <3>1
    <3> QED
      BY <2>2, <3>2
  <2> QED
    BY <2>3, <2>4
<1> HIDE DEF Good
<1>3. 0 .. n \subseteq Good
  BY <1>1, <1>2, SetInduction
<1>4. n \in Good
  BY <1>3
<1>5. \E b \in 0 .. n : Fits(n, b)
  BY <1>4 DEF Good
<1>6. BitLength(n) \in 0 .. n /\ n < Power[BitLength(n)]
  BY <1>5 DEF BitLength
<1> QED
  BY <1>6, PowerUnfolds

\* The length of the two terminal counts.
LEMMA BitLengthOfZero ==
  BitLength(0) = 0
BY BitLengthBound

\* Division with remainder.
LEMMA DivisionFacts ==
  ASSUME NEW x \in Nat, NEW y \in Nat \ {0}
  PROVE  x \div y \in Nat /\ x % y \in 0 .. y - 1 /\ x = y * (x \div y) + (x % y)
OBVIOUS

\* Quotient and remainder are unique.
LEMMA DivisionUnique ==
  ASSUME NEW q \in Int, NEW p \in Int, NEW y \in Nat \ {0}, NEW r \in 0 .. y - 1, NEW s \in 0 .. y - 1,
         y * q + r = y * p + s
  PROVE  q = p /\ r = s
<1>1. ASSUME NEW a \in Int, NEW b \in Int, NEW c \in 0 .. y - 1, NEW d \in 0 .. y - 1, y * a + c = y * b + d
      PROVE  a <= b
  <2> SUFFICES ASSUME b + 1 <= a PROVE FALSE
    BY <1>1
  <2>1. y * (b + 1) <= y * a
    OBVIOUS
  <2>2. y * (b + 1) = y * b + y
    OBVIOUS
  <2> DEFINE u == y * a
             w == y * b
  <2>3. u \in Int /\ w \in Int /\ w + y <= u /\ u + c = w + d
    BY <1>1, <2>1, <2>2
  <2> HIDE DEF u, w
  <2> QED
    BY <2>3
<1>2. q <= p /\ p <= q
  BY <1>1
<1>3. q = p
  BY <1>2
<1> QED
  BY <1>3

----------------------------------------------------------------------------
(* Counting the sets of a node.                                            *)

\* Adding a variable that no member has keeps their number.
LEMMA JoinedCardinality ==
  ASSUME NEW F, IsFiniteSet(F), NEW v, \A S \in F : v \notin S
  PROVE  /\ IsFiniteSet({S \union {v} : S \in F})
         /\ Cardinality({S \union {v} : S \in F}) = Cardinality(F)
<1> DEFINE G == {S \union {v} : S \in F}
           f == [S \in F |-> S \union {v}]
<1>1. f \in [F -> G] /\ \A T \in G : \E S \in F : f[S] = T
  OBVIOUS
<1>2. \A S, T \in F : f[S] = f[T] => S = T
  OBVIOUS
<1> HIDE DEF f, G
<1>3. f \in Bijection(F, G)
  BY <1>1, <1>2 DEF Bijection, Injection, Surjection, IsInjective
<1>4. ExistsBijection(F, G)
  BY <1>3 DEF ExistsBijection
<1>5. IsFiniteSet(G) /\ Cardinality(G) = Cardinality(F)
  BY <1>4, FS_Bijection
<1> QED
  BY <1>5 DEF G

\* A node has the sets of its two children.
LEMMA NodeCardinality ==
  ASSUME NEW v, NEW hi, NEW lo, IsFiniteSet(hi), IsFiniteSet(lo),
         v \notin Support(hi) \union Support(lo)
  PROVE  Cardinality(Node(v, hi, lo)) = Cardinality(hi) + Cardinality(lo)
<1> DEFINE G == {S \union {v} : S \in hi}
<1>1. IsFiniteSet(G) /\ Cardinality(G) = Cardinality(hi)
  <2>1. \A S \in hi : v \notin S
    BY DEF Support
  <2> QED
    BY <2>1, JoinedCardinality
<1>2. lo \intersect G = {}
  BY DEF Support
<1> HIDE DEF G
<1>3. Cardinality(lo \union G) = Cardinality(lo) + Cardinality(G) - 0
  BY <1>1, <1>2, FS_Union, FS_EmptySet
<1>4. Cardinality(lo) \in Nat /\ Cardinality(hi) \in Nat
  BY FS_CardinalityType
<1> QED
  BY <1>1, <1>3, <1>4 DEF Node, G

\* The bits of one more family.
LEMMA MoreBits ==
  ASSUME NEW K \in SUBSET Family, NEW F \in Family, F \notin K
  PROVE  /\ IsFiniteSet(BitPlaces(K)) /\ Cardinality(BitPlaces(K)) \in Nat
         /\ Cardinality(BitPlaces(K \union {F})) = Cardinality(BitPlaces(K)) + BitLength(Cardinality(F))
<1> DEFINE L(G) == 1 .. BitLength(Cardinality(G))
           B == {F} \X L(F)
<1>1. \A G \in Family : BitLength(Cardinality(G)) \in Nat
  BY FamiliesFinite, BitLengthBound
<1>2. \A G \in Family : IsFiniteSet({G} \X L(G)) /\ Cardinality({G} \X L(G)) = BitLength(Cardinality(G))
  <2> SUFFICES ASSUME NEW G \in Family
               PROVE  IsFiniteSet({G} \X L(G)) /\ Cardinality({G} \X L(G)) = BitLength(Cardinality(G))
    OBVIOUS
  <2>1. PICK n : n = BitLength(Cardinality(G))
    OBVIOUS
  <2>2. n \in Nat
    BY <1>1, <2>1
  <2>3. IsFiniteSet(1 .. n) /\ Cardinality(1 .. n) = n
    BY <2>2, FS_Interval
  <2>4. IsFiniteSet({G}) /\ Cardinality({G}) = 1
    BY FS_Singleton
  <2>5. PICK A, C : A = {G} /\ C = 1 .. n
    OBVIOUS
  <2>6. IsFiniteSet(A) /\ IsFiniteSet(C) /\ Cardinality(A) = 1 /\ Cardinality(C) = n
    BY <2>3, <2>4, <2>5
  <2>7. IsFiniteSet(A \X C) /\ Cardinality(A \X C) = 1 * n
    BY <2>6, FS_Product
  <2>8. A \X C = {G} \X L(G) /\ 1 * n = n
    BY <2>1, <2>2, <2>5
  <2> QED
    BY <2>1, <2>7, <2>8
<1> DEFINE Part(G) == {G} \X L(G)
           Parts == {Part(G) : G \in K}
<1>3. BitPlaces(K) = UNION Parts
  BY DEF BitPlaces
<1>4. IsFiniteSet(Parts)
  <2> DEFINE f == [G \in K |-> Part(G)]
  <2>1. f \in [K -> Parts] /\ \A P \in Parts : \E G \in K : f[G] = P
    OBVIOUS
  <2>2. IsFiniteSet(K)
    BY FamiliesFinite, FS_Subset
  <2> HIDE DEF f, Parts
  <2>3. f \in Surjection(K, Parts)
    BY <2>1 DEF Surjection
  <2> QED
    BY <2>2, <2>3, FS_Surjection
<1>5. IsFiniteSet(BitPlaces(K))
  <2>1. \A P \in Parts : IsFiniteSet(P)
    BY <1>2
  <2> HIDE DEF Parts
  <2> QED
    BY <1>3, <1>4, <2>1, FS_UNION
<1>6. BitPlaces(K \union {F}) = BitPlaces(K) \union B
  BY DEF BitPlaces
<1>7. BitPlaces(K) \intersect B = {}
  <2> SUFFICES ASSUME NEW G \in K, NEW p \in {G} \X L(G), p \in {F} \X L(F) PROVE FALSE
    BY DEF BitPlaces
  <2>1. p[1] = G /\ p[1] = F
    OBVIOUS
  <2> QED
    BY <2>1
<1>8. IsFiniteSet(B) /\ Cardinality(B) = BitLength(Cardinality(F))
  BY <1>2
<1> HIDE DEF B
<1>9. Cardinality(BitPlaces(K) \union B) = Cardinality(BitPlaces(K)) + Cardinality(B) - Cardinality({})
  BY <1>5, <1>7, <1>8, FS_Union
<1>10. Cardinality(BitPlaces(K)) \in Nat
  BY <1>5, FS_CardinalityType
<1>11. Cardinality({}) = 0 /\ BitLength(Cardinality(F)) \in Nat
  BY <1>1, FS_EmptySet
<1>12. PICK a, b : a = Cardinality(BitPlaces(K)) /\ b = BitLength(Cardinality(F))
  OBVIOUS
<1>13. Cardinality(BitPlaces(K \union {F})) = a + b - 0
  BY <1>6, <1>8, <1>9, <1>11, <1>12
<1>14. a + b - 0 = a + b
  BY <1>10, <1>11, <1>12
<1> QED
  BY <1>5, <1>10, <1>12, <1>13, <1>14

\* The bits of more families are not fewer.
LEMMA BitsGrow ==
  ASSUME NEW K \in SUBSET Family, NEW L \in SUBSET K
  PROVE  /\ Cardinality(BitPlaces(L)) <= Cardinality(BitPlaces(K))
         /\ Cardinality(BitPlaces(L)) \in Nat /\ Cardinality(BitPlaces(K)) \in Nat
<1>1. IsFiniteSet(BitPlaces(K))
  <2>1. CASE Zero \notin K
    BY <2>1, MoreBits, TerminalNodes
  <2>2. CASE Zero \in K
    <3>1. IsFiniteSet(BitPlaces(K \ {Zero}))
      BY MoreBits, TerminalNodes
    <3>2. Cardinality(Zero) = 0 /\ BitLength(0) = 0
      BY FS_EmptySet, BitLengthOfZero DEF Zero
    <3>3. {Zero} \X (1 .. BitLength(Cardinality(Zero))) = {}
      BY <3>2
    <3>4. BitPlaces(K) = BitPlaces(K \ {Zero})
      BY <3>3 DEF BitPlaces
    <3> QED
      BY <3>1, <3>4
  <2> QED
    BY <2>1, <2>2
<1>2. BitPlaces(L) \subseteq BitPlaces(K)
  BY DEF BitPlaces
<1> QED
  BY <1>1, <1>2, FS_Subset, FS_CardinalityType

\* No bits are kept for the empty family.
LEMMA NoBitsOfZero ==
  ASSUME NEW K
  PROVE  BitPlaces(K \ {Zero}) = BitPlaces(K)
<1>1. Cardinality(Zero) = 0 /\ BitLength(0) = 0
  BY FS_EmptySet, BitLengthOfZero DEF Zero
<1>2. {Zero} \X (1 .. BitLength(Cardinality(Zero))) = {}
  BY <1>1
<1> QED
  BY <1>2 DEF BitPlaces

----------------------------------------------------------------------------
(* The exclude-first order.                                                *)

\* The exclude-first order has no two sets both ways.
LEMMA PrecedesAsymmetric ==
  ASSUME NEW S \in SUBSET Int, NEW T \in SUBSET Int, Precedes(S, T)
  PROVE  ~Precedes(T, S)
<1> SUFFICES ASSUME Precedes(T, S) PROVE FALSE
  OBVIOUS
<1>1. PICK v \in T : v \in Differences(S, T) /\ \A w \in Differences(S, T) : v <= w
  BY DEF Precedes
<1>2. PICK u \in S : u \in Differences(T, S) /\ \A w \in Differences(T, S) : u <= w
  BY DEF Precedes
<1>3. Differences(S, T) = Differences(T, S)
  BY DEF Differences
<1>4. u <= v /\ v <= u /\ u \in Int /\ v \in Int
  BY <1>1, <1>2, <1>3
<1>5. u = v
  BY <1>4
<1> QED
  BY <1>1, <1>2, <1>5 DEF Differences

\* No set precedes itself.
LEMMA PrecedesIrreflexive ==
  ASSUME NEW S
  PROVE  ~Precedes(S, S)
BY DEF Precedes, Differences

\* A common part plays no role in the order.
LEMMA PrecedesJoint ==
  ASSUME NEW P, NEW S, NEW T, P \intersect (S \union T) = {}
  PROVE  Precedes(P \union S, P \union T) <=> Precedes(S, T)
<1>1. Differences(P \union S, P \union T) = Differences(S, T)
  BY DEF Differences
<1>2. \A v \in Differences(S, T) : v \in P \union T <=> v \in T
  BY DEF Differences
<1> QED
  BY <1>1, <1>2 DEF Precedes

\* Of sets of variables above v the ones without v come first.
LEMMA LoPrecedesHi ==
  ASSUME NEW v \in Int, NEW S \in SUBSET Int, NEW T \in SUBSET Int, \A w \in S \union T : v < w
  PROVE  Precedes(S, {v} \union T) /\ ~Precedes({v} \union T, S)
<1>1. v \in Differences(S, {v} \union T) /\ \A w \in Differences(S, {v} \union T) : v <= w
  <2>1. v \notin S
    OBVIOUS
  <2>2. \A w \in S \union T : v <= w
    OBVIOUS
  <2> QED
    BY <2>1, <2>2 DEF Differences
<1>2. Precedes(S, {v} \union T)
  BY <1>1 DEF Precedes
<1> QED
  BY <1>2, PrecedesAsymmetric

----------------------------------------------------------------------------
(* The inductive invariant of the snapshot: the roots discovered are       *)
(* different nodes of the diagram, and the nodes copied are theirs.        *)

FamilyOf(r) == FamilyAt(r, roots)

References == 0 .. Len(roots) + 1

StaticInv ==
  /\ source \in Family
  /\ limits \in [nodes : Nat, bits : Nat]
  /\ purpose \in {"index", "iterate"}
  /\ phase \in {"called", "copy", "count", "indexed", "walk", "sampled", "iterate", "failed"}
  /\ error \in {"none", "query_nodes", "count_bits"}
  /\ phase = "called" => roots = << >> /\ nodes = << >>

RootsInv ==
  /\ roots \in Seq(NodesOf[source])
  /\ Distinct(roots)
  /\ phase \notin {"called", "failed"} => source \in Listed(roots)
  /\ purpose = "index" => Len(roots) <= limits.nodes

NodesInv ==
  /\ nodes \in Seq([variable : Var, hi : Nat, lo : Nat])
  /\ Len(nodes) <= Len(roots)
  /\ \A i \in 1 .. Len(nodes) : IsNodeOf(nodes[i], roots[i], roots)
  /\ phase \notin {"called", "copy", "failed"} => Len(nodes) = Len(roots)

NodeLimitInv ==
  error = "query_nodes" =>
    purpose = "index" /\ phase = "failed" /\ Cardinality(NodesOf[source]) > limits.nodes

SnapshotInv == StaticInv /\ RootsInv /\ NodesInv /\ NodeLimitInv

----------------------------------------------------------------------------
(* Lists of roots.                                                         *)

\* A discovered root is in the list, which only grows.
LEMMA DiscoverFacts ==
  ASSUME NEW S, NEW q \in Seq(S), Distinct(q), NEW F, F \in Terminals \union S
  PROVE  /\ Discovered(F, q) \in Seq(S) /\ Distinct(Discovered(F, q))
         /\ Len(q) <= Len(Discovered(F, q)) /\ Len(Discovered(F, q)) \in Nat /\ Len(q) \in Nat
         /\ \A i \in 1 .. Len(q) : Discovered(F, q)[i] = q[i]
         /\ F \in Listed(Discovered(F, q))
<1>1. Len(q) \in Nat /\ DOMAIN q = 1 .. Len(q)
  BY LenProperties
<1>2. CASE F \in Listed(q)
  <2>1. Discovered(F, q) = q
    BY <1>2 DEF Discovered, Listed
  <2> QED
    BY <1>1, <1>2, <2>1
<1>3. CASE F \notin Listed(q)
  <2> DEFINE p == Append(q, F)
  <2>1. Discovered(F, q) = p
    BY <1>3 DEF Discovered, Listed
  <2>2. F \in S
    BY <1>3 DEF Listed
  <2>3. /\ p \in Seq(S) /\ Len(p) = Len(q) + 1
        /\ \A i \in 1 .. Len(q) : p[i] = q[i]
        /\ p[Len(q) + 1] = F
    BY <2>2, AppendProperties
  <2> HIDE DEF p
  <2>4. DOMAIN p = 1 .. Len(q) + 1
    BY <2>3, LenProperties
  <2>5. \A i \in 1 .. Len(q) : q[i] # F
    BY <1>1, <1>3 DEF Listed
  <2>6. \A i \in DOMAIN p : i \in 1 .. Len(q) \/ i = Len(q) + 1
    BY <1>1, <2>4
  <2>7. Distinct(p)
    BY <1>1, <2>3, <2>5, <2>6 DEF Distinct
  <2>8. Len(q) + 1 \in DOMAIN p
    BY <1>1, <2>4
  <2> QED
    BY <1>1, <2>1, <2>3, <2>7, <2>8 DEF Listed
<1> QED
  BY <1>2, <1>3

\* A root in the list has a reference that stands for it.
LEMMA ReferenceFacts ==
  ASSUME NEW S, NEW q \in Seq(S), NEW F, F \in Listed(q)
  PROVE  /\ Reference(F, q) \in 0 .. Len(q) + 1 /\ Reference(F, q) \in Nat
         /\ FamilyAt(Reference(F, q), q) = F
<1>1. Len(q) \in Nat /\ DOMAIN q = 1 .. Len(q)
  BY LenProperties
<1>2. CASE F \in Terminals
  <2>1. Zero # One
    BY DEF Zero, One
  <2> QED
    BY <1>1, <1>2, <2>1 DEF Reference, FamilyAt, Terminals
<1>3. CASE F \notin Terminals
  <2>1. Index(F, q) \in DOMAIN q /\ q[Index(F, q)] = F
    BY <1>3 DEF Index, Listed
  <2>2. Reference(F, q) = Index(F, q) + 1
    BY <1>3 DEF Reference, Terminals
  <2>3. PICK i : i = Index(F, q)
    OBVIOUS
  <2>4. i \in 1 .. Len(q) /\ q[i] = F /\ Reference(F, q) = i + 1
    BY <1>1, <2>1, <2>2, <2>3
  <2>5. (i + 1) - 1 = i /\ i + 1 # 0 /\ i + 1 # 1 /\ i + 1 \in 0 .. Len(q) + 1
    BY <1>1, <2>4
  <2> QED
    BY <2>4, <2>5 DEF FamilyAt
<1> QED
  BY <1>2, <1>3

----------------------------------------------------------------------------
(* The invariant holds.                                                    *)

\* The first state has the snapshot invariant.
LEMMA SnapshotInit ==
  Init => SnapshotInv
<1> SUFFICES ASSUME Init PROVE SnapshotInv
  OBVIOUS
<1> USE DEF Init
<1>1. StaticInv
  BY QueryAssumption DEF StaticInv
<1>2. Len(roots) = 0 /\ Len(nodes) = 0 /\ DOMAIN roots = {}
  <2>1. DOMAIN << >> = {}
    OBVIOUS
  <2> QED
    BY <2>1
<1>3. limits.nodes \in Nat
  BY <1>1 DEF StaticInv
<1>4. RootsInv
  BY <1>2, <1>3 DEF RootsInv, Distinct
<1>5. NodesInv
  BY <1>2 DEF NodesInv
<1> QED
  BY <1>1, <1>4, <1>5 DEF SnapshotInv, NodeLimitInv

\* The root is discovered.
LEMMA SnapshotBegin ==
  ASSUME SnapshotInv, Begin
  PROVE  SnapshotInv'
<1> DEFINE q == Discovered(source, << >>)
<1>1. /\ q \in Seq(NodesOf[source]) /\ Distinct(q)
      /\ source \in Listed(q)
      /\ Len(q) \in Nat
  <2>1. << >> \in Seq(NodesOf[source]) /\ Distinct(<< >>)
    <3>1. DOMAIN << >> = {}
      OBVIOUS
    <3> QED
      BY <3>1 DEF Distinct
  <2>2. source \in Terminals \union NodesOf[source]
    BY RootIsNode DEF SnapshotInv, StaticInv
  <2> QED
    BY <2>1, <2>2, DiscoverFacts
<1> HIDE DEF q
<1>2. roots' = q /\ phase' = "copy" /\ UNCHANGED <<source, limits, purpose, nodes, error>>
  BY DEF Begin, q
<1>3. purpose = "index" => Len(q) <= limits.nodes
  BY DEF Begin, FitsNodeLimit, q
<1>4. nodes = << >> /\ Len(nodes) = 0
  BY DEF Begin, SnapshotInv, StaticInv
<1>5. StaticInv'
  BY <1>2 DEF SnapshotInv, StaticInv
<1>6. RootsInv'
  BY <1>1, <1>2, <1>3 DEF RootsInv
<1>7. NodesInv'
  BY <1>1, <1>2, <1>4 DEF SnapshotInv, NodesInv
<1>8. NodeLimitInv'
  <2>1. error # "query_nodes"
    BY DEF SnapshotInv, NodeLimitInv, Begin
  <2> QED
    BY <1>2, <2>1 DEF NodeLimitInv
<1> QED
  BY <1>5, <1>6, <1>7, <1>8 DEF SnapshotInv

\* The list of roots after the children of the visited root are discovered.
LEMMA ChildrenDiscovered ==
  ASSUME SnapshotInv, Len(nodes) < Len(roots)
  PROVE  /\ Visited \in NodesOf[source] /\ Visited \in Family /\ Visited \notin Terminals
         /\ WithChildren \in Seq(NodesOf[source]) /\ Distinct(WithChildren)
         /\ Len(roots) <= Len(WithChildren) /\ Len(WithChildren) \in Nat
         /\ \A i \in 1 .. Len(roots) : WithChildren[i] = roots[i]
         /\ {Hi(TopVar(Visited), Visited), Lo(TopVar(Visited), Visited)}
              \subseteq Listed(WithChildren)
<1> DEFINE All == NodesOf[source]
           hi == Hi(TopVar(Visited), Visited)
           lo == Lo(TopVar(Visited), Visited)
           one == Discovered(hi, roots)
           both == Discovered(lo, one)
<1>1. roots \in Seq(All) /\ Distinct(roots) /\ source \in Family
  BY DEF SnapshotInv, RootsInv, StaticInv
<1>2. Len(roots) \in Nat /\ Len(nodes) \in Nat
  BY <1>1, LenProperties DEF SnapshotInv, NodesInv
<1>3. Visited \in All
  <2>1. Len(nodes) + 1 \in 1 .. Len(roots)
    BY <1>2
  <2> QED
    BY <1>1, <2>1, ElementOfSeq DEF Visited
<1>4. Visited \in Family /\ Visited \notin Terminals /\ hi \in Terminals \union All /\ lo \in Terminals \union All
  BY <1>1, <1>3, ChildrenAreNodes
<1>5. WithChildren = both
  BY DEF WithChildren
<1> HIDE DEF hi, lo, All
<1>11. hi \in Terminals \union All /\ lo \in Terminals \union All
  BY <1>4 DEF hi, lo, All
<1>6. /\ one \in Seq(All) /\ Distinct(one) /\ Len(roots) <= Len(one) /\ Len(one) \in Nat
      /\ \A i \in 1 .. Len(roots) : one[i] = roots[i]
      /\ hi \in Listed(one)
  <2>1. PICK S : S = All
    OBVIOUS
  <2>2. roots \in Seq(S) /\ Distinct(roots) /\ hi \in Terminals \union S
    BY <1>1, <1>11, <2>1 DEF All
  <2> QED
    BY <2>1, <2>2, DiscoverFacts
<1> HIDE DEF one
<1>7. /\ both \in Seq(All) /\ Distinct(both) /\ Len(one) <= Len(both) /\ Len(both) \in Nat
      /\ \A i \in 1 .. Len(one) : both[i] = one[i]
      /\ lo \in Listed(both)
  <2>1. PICK S : S = All
    OBVIOUS
  <2>2. PICK q \in Seq(S), G \in Terminals \union S : q = one /\ G = lo
    BY <1>6, <1>11, <2>1
  <2>3. Distinct(q)
    BY <1>6, <2>2
  <2>4. /\ Discovered(G, q) \in Seq(S) /\ Distinct(Discovered(G, q))
        /\ Len(q) <= Len(Discovered(G, q)) /\ Len(Discovered(G, q)) \in Nat
        /\ \A i \in 1 .. Len(q) : Discovered(G, q)[i] = q[i]
        /\ G \in Listed(Discovered(G, q))
    BY <2>3, DiscoverFacts
  <2>5. both = Discovered(G, q)
    BY <2>2
  <2> HIDE DEF both
  <2> QED
    BY <2>1, <2>2, <2>4, <2>5
<1> HIDE DEF both
<1>8. hi \in Listed(both)
  <2>1. DOMAIN one = 1 .. Len(one) /\ DOMAIN both = 1 .. Len(both)
    BY <1>6, <1>7, LenProperties
  <2> QED
    BY <1>6, <1>7, <2>1 DEF Listed
<1>9. \A i \in 1 .. Len(roots) : both[i] = roots[i]
  BY <1>2, <1>6, <1>7
<1>10. Len(roots) <= Len(both)
  BY <1>2, <1>6, <1>7
<1> QED
  BY <1>3, <1>4, <1>5, <1>7, <1>8, <1>9, <1>10 DEF hi, lo, All

\* A node is copied after its children are discovered.
LEMMA SnapshotCopyNode ==
  ASSUME SnapshotInv, CopyNode
  PROVE  SnapshotInv'
<1> DEFINE F == Visited
           v == TopVar(F)
           q == WithChildren
           new == [variable |-> v, hi |-> Reference(Hi(v, F), q), lo |-> Reference(Lo(v, F), q)]
<1>1. /\ F \in Family /\ F \notin Terminals /\ q \in Seq(NodesOf[source]) /\ Distinct(q)
      /\ Len(roots) <= Len(q) /\ Len(q) \in Nat
      /\ \A i \in 1 .. Len(roots) : q[i] = roots[i]
      /\ {Hi(v, F), Lo(v, F)} \subseteq Listed(q)
  BY ChildrenDiscovered DEF CopyNode
<1>2. /\ roots' = q /\ nodes' = Append(nodes, new)
      /\ UNCHANGED <<source, limits, purpose, phase, error>>
      /\ phase = "copy" /\ Len(nodes) < Len(roots)
      /\ purpose = "index" => Len(q) <= limits.nodes
  BY DEF CopyNode, FitsNodeLimit
<1>3. F = roots[Len(nodes) + 1]
  BY DEF Visited
<1>4. new \in [variable : Var, hi : Nat, lo : Nat] /\ IsNodeOf(new, F, q)
  <2>1. v \in Var
    BY <1>1, Branching
  <2>2. \A G \in {Hi(v, F), Lo(v, F)} : /\ Reference(G, q) \in 0 .. Len(q) + 1 /\ Reference(G, q) \in Nat
                                       /\ FamilyAt(Reference(G, q), q) = G
    BY <1>1, ReferenceFacts
  <2> HIDE DEF q
  <2> QED
    BY <2>1, <2>2 DEF IsNodeOf
<1> HIDE DEF F, q, new
<1>5. Len(nodes) \in Nat /\ Len(roots) \in Nat /\ nodes \in Seq([variable : Var, hi : Nat, lo : Nat])
  BY LenProperties DEF SnapshotInv, NodesInv, RootsInv
<1>6. /\ nodes' \in Seq([variable : Var, hi : Nat, lo : Nat]) /\ Len(nodes') = Len(nodes) + 1
      /\ \A i \in 1 .. Len(nodes) : nodes'[i] = nodes[i]
      /\ nodes'[Len(nodes) + 1] = new
  BY <1>2, <1>4, <1>5, AppendProperties
<1>7. StaticInv'
  BY <1>2 DEF SnapshotInv, StaticInv
<1>8. RootsInv'
  <2>1. source \in Listed(q)
    <3>1. source \in Listed(roots)
      BY <1>2 DEF SnapshotInv, RootsInv
    <3>2. DOMAIN q = 1 .. Len(q) /\ DOMAIN roots = 1 .. Len(roots)
      BY <1>1, LenProperties DEF SnapshotInv, RootsInv
    <3> QED
      BY <1>1, <1>5, <3>1, <3>2 DEF Listed
  <2> QED
    BY <1>1, <1>2, <2>1 DEF RootsInv
<1>9. NodesInv'
  <2>1. \A i \in 1 .. Len(nodes) : IsNodeOf(nodes[i], roots[i], roots)
    BY DEF SnapshotInv, NodesInv
  <2>2. \A r \in 0 .. Len(roots) + 1 : r \in 0 .. Len(q) + 1 /\ FamilyAt(r, q) = FamilyAt(r, roots)
    BY <1>1, <1>5, ReferencesStay
  <2>3. \A i \in 1 .. Len(nodes) : IsNodeOf(nodes[i], roots[i], q)
    BY <2>1, <2>2 DEF IsNodeOf
  <2>4. \A i \in 1 .. Len(nodes) + 1 : i \in 1 .. Len(nodes) \/ i = Len(nodes) + 1
    BY <1>5
  <2>5. Len(nodes) + 1 \in 1 .. Len(roots) /\ \A i \in 1 .. Len(nodes) : i \in 1 .. Len(roots)
    BY <1>2, <1>5
  <2>6. \A i \in 1 .. Len(nodes) + 1 : IsNodeOf(nodes'[i], q[i], q)
    BY <1>1, <1>3, <1>4, <1>6, <2>3, <2>4, <2>5
  <2>7. Len(nodes) + 1 <= Len(q)
    BY <1>1, <1>2, <1>5
  <2> QED
    BY <1>2, <1>6, <2>6, <2>7 DEF NodesInv
<1>10. NodeLimitInv'
  BY <1>2 DEF SnapshotInv, NodeLimitInv
<1> QED
  BY <1>7, <1>8, <1>9, <1>10 DEF SnapshotInv

\* The node limit fails only a diagram with more nodes.
LEMMA SnapshotOverNodeLimit ==
  ASSUME SnapshotInv, OverNodeLimit
  PROVE  SnapshotInv'
<1>1. PICK q \in Seq(NodesOf[source]) : Distinct(q) /\ ~FitsNodeLimit(q)
  <2>1. CASE phase = "called" /\ ~FitsNodeLimit(Discovered(source, << >>))
    <3>1. << >> \in Seq(NodesOf[source]) /\ Distinct(<< >>)
      <4>1. DOMAIN << >> = {}
        OBVIOUS
      <4> QED
        BY <4>1 DEF Distinct
    <3>2. source \in Terminals \union NodesOf[source]
      BY RootIsNode DEF SnapshotInv, StaticInv
    <3> QED
      BY <2>1, <3>1, <3>2, DiscoverFacts
  <2>2. CASE Len(nodes) < Len(roots) /\ ~FitsNodeLimit(WithChildren)
    BY <2>2, ChildrenDiscovered
  <2> QED
    BY <2>1, <2>2 DEF OverNodeLimit
<1>2. purpose = "index" /\ ~(Len(q) <= limits.nodes)
  BY <1>1 DEF FitsNodeLimit
<1>3. source \in Family /\ limits.nodes \in Nat
  BY DEF SnapshotInv, StaticInv
<1>4. Len(q) <= Cardinality(NodesOf[source]) /\ Cardinality(NodesOf[source]) \in Nat /\ Len(q) \in Nat
  BY <1>1, <1>3, DistinctLength, NodesFinite, LenProperties
<1>5. Cardinality(NodesOf[source]) > limits.nodes
  BY <1>2, <1>3, <1>4
<1>6. phase' = "failed" /\ error' = "query_nodes" /\ UNCHANGED <<source, limits, purpose, roots, nodes>>
  BY DEF OverNodeLimit, Fail, snapshot
<1>7. StaticInv' /\ RootsInv' /\ NodesInv'
  BY <1>6 DEF SnapshotInv, StaticInv, RootsInv, NodesInv
<1> QED
  BY <1>2, <1>5, <1>6, <1>7 DEF SnapshotInv, NodeLimitInv

\* The snapshot is complete when every root has its node.
LEMMA SnapshotCopied ==
  ASSUME SnapshotInv, Copied
  PROVE  SnapshotInv'
<1>1. /\ phase = "copy" /\ Len(nodes) = Len(roots) /\ phase' \in {"count", "iterate"}
      /\ UNCHANGED <<source, limits, purpose, roots, nodes, error>>
  BY DEF Copied, snapshot
<1> QED
  BY <1>1 DEF SnapshotInv, StaticInv, RootsInv, NodesInv, NodeLimitInv

\* The snapshot is complete.
Complete == phase \notin {"called", "copy", "failed"}

\* Once the snapshot is complete it stays.
LEMMA SnapshotLater ==
  ASSUME SnapshotInv, Complete, UNCHANGED <<snapshot, error>>,
         phase' \in {"count", "indexed", "walk", "sampled", "iterate"}
  PROVE  SnapshotInv'
BY DEF SnapshotInv, StaticInv, RootsInv, NodesInv, NodeLimitInv, Complete, snapshot

\* The failure of the bit limit leaves the snapshot alone.
LEMMA SnapshotOverBitLimit ==
  ASSUME SnapshotInv, OverBitLimit
  PROVE  SnapshotInv'
<1>1. phase' = "failed" /\ error' = "count_bits" /\ UNCHANGED <<source, limits, purpose, roots, nodes>>
  BY DEF OverBitLimit, Fail, snapshot
<1> QED
  BY <1>1 DEF SnapshotInv, StaticInv, RootsInv, NodesInv, NodeLimitInv

\* The steps on a complete snapshot.
Counts == CountKnown \/ CountExpand \/ StoreCount \/ CountDone
Samples == SampleNothing \/ Draw \/ Walk \/ SampleFound
Iterates == SkipZero \/ Yield \/ Branch \/ Include \/ Remove

\* Counting, sampling and iterating leave the snapshot alone.
LEMMA LaterSteps ==
  ASSUME SnapshotInv, Counts \/ Samples \/ Iterates
  PROVE  /\ Complete /\ UNCHANGED <<snapshot, error>>
         /\ phase' \in {"count", "indexed", "walk", "sampled", "iterate"}
<1>1. CASE Counts
  BY <1>1 DEF Counts, CountKnown, CountExpand, StoreCount, CountDone, Complete, Counting, Pending
<1>2. CASE Samples
  BY <1>2 DEF Samples, SampleNothing, Draw, Walk, SampleFound, Complete
<1>3. CASE Iterates
  BY <1>3 DEF Iterates, SkipZero, Yield, Branch, Include, Remove, Stepping, Complete
<1> QED
  BY <1>1, <1>2, <1>3

\* Every step keeps the snapshot invariant.
LEMMA SnapshotStep ==
  SnapshotInv /\ [Next]_vars => SnapshotInv'
<1> SUFFICES ASSUME SnapshotInv, [Next]_vars PROVE SnapshotInv'
  OBVIOUS
<1>1. CASE Begin
  BY <1>1, SnapshotBegin
<1>2. CASE CopyNode
  BY <1>2, SnapshotCopyNode
<1>3. CASE OverNodeLimit
  BY <1>3, SnapshotOverNodeLimit
<1>4. CASE Copied
  BY <1>4, SnapshotCopied
<1>5. CASE OverBitLimit
  BY <1>5, SnapshotOverBitLimit
<1>6. CASE Counts \/ Samples \/ Iterates
  BY <1>6, LaterSteps, SnapshotLater
<1>7. CASE UNCHANGED vars
  BY <1>7 DEF vars, snapshot, SnapshotInv, StaticInv, RootsInv, NodesInv, NodeLimitInv
<1> QED
  BY <1>1, <1>2, <1>3, <1>4, <1>5, <1>6, <1>7 DEF Next, Counts, Samples, Iterates

----------------------------------------------------------------------------
(* The complete snapshot is the diagram.                                   *)

\* The references of a snapshot: what they stand for is a family, a terminal
\* for the first two and a node of the diagram for the others.
LEMMA FamilyFacts ==
  ASSUME SnapshotInv, NEW r \in References
  PROVE  /\ FamilyOf(r) \in Family /\ FamilyOf(r) \in Listed(roots)
         /\ IsFiniteSet(FamilyOf(r)) /\ Cardinality(FamilyOf(r)) \in Nat
         /\ r < 2 => FamilyOf(r) \in Terminals
         /\ r >= 2 => /\ r - 1 \in 1 .. Len(roots) /\ FamilyOf(r) = roots[r - 1]
                      /\ FamilyOf(r) \in NodesOf[source] /\ FamilyOf(r) \notin Terminals
<1>1. roots \in Seq(NodesOf[source]) /\ Len(roots) \in Nat /\ source \in Family
  BY LenProperties DEF SnapshotInv, RootsInv, StaticInv
<1>2. r < 2 => FamilyOf(r) \in Terminals
  BY <1>1 DEF FamilyOf, FamilyAt, Terminals, References
<1>3. ASSUME r >= 2
      PROVE  /\ r - 1 \in 1 .. Len(roots) /\ FamilyOf(r) = roots[r - 1]
             /\ FamilyOf(r) \in NodesOf[source] /\ FamilyOf(r) \notin Terminals
             /\ FamilyOf(r) \in Family
  <2>1. r - 1 \in 1 .. Len(roots) /\ r # 0 /\ r # 1
    BY <1>1, <1>3 DEF References
  <2>2. FamilyOf(r) = roots[r - 1] /\ roots[r - 1] \in NodesOf[source]
    BY <1>1, <2>1, ElementOfSeq DEF FamilyOf, FamilyAt
  <2> QED
    BY <1>1, <2>1, <2>2, ChildrenAreNodes
<1>4. FamilyOf(r) \in Family
  <2>1. r \in Int
    BY <1>1 DEF References
  <2> QED
    BY <1>2, <1>3, <2>1, TerminalNodes DEF Terminals
<1>5. FamilyOf(r) \in Listed(roots)
  BY <1>1, FamilyAtRange DEF FamilyOf, References
<1> QED
  BY <1>2, <1>3, <1>4, <1>5, FamiliesFinite

\* The node under a reference: it is that of the root, and its children come
\* later in the order of the variables.
LEMMA NodeFacts ==
  ASSUME SnapshotInv, Len(nodes) = Len(roots), NEW r \in References, r >= 2
  PROVE  /\ NodeOf(r).variable = TopVar(FamilyOf(r)) /\ NodeOf(r).variable \in Var
         /\ NodeOf(r).hi \in References /\ FamilyOf(NodeOf(r).hi) = Hi(NodeOf(r).variable, FamilyOf(r))
         /\ NodeOf(r).lo \in References /\ FamilyOf(NodeOf(r).lo) = Lo(NodeOf(r).variable, FamilyOf(r))
         /\ FamilyOf(r) = Node(NodeOf(r).variable, FamilyOf(NodeOf(r).hi), FamilyOf(NodeOf(r).lo))
         /\ FamilyOf(NodeOf(r).hi) # Zero
         /\ \A w \in Support(FamilyOf(r)) : NodeOf(r).variable <= w
         /\ \A w \in Support(FamilyOf(NodeOf(r).hi)) \union Support(FamilyOf(NodeOf(r).lo)) :
              w \in Support(FamilyOf(r)) /\ NodeOf(r).variable < w
<1> DEFINE F == FamilyOf(r)
           node == nodes[r - 1]
<1>1. F \in Family /\ F \notin Terminals /\ F = roots[r - 1] /\ r - 1 \in 1 .. Len(roots)
  BY FamilyFacts
<1>2. IsNodeOf(node, F, roots)
  BY <1>1 DEF SnapshotInv, NodesInv
<1>3. NodeOf(r) = node
  BY DEF NodeOf
<1> HIDE DEF F, node
<1>4. /\ node.variable = TopVar(F)
      /\ node.hi \in References /\ FamilyOf(node.hi) = Hi(TopVar(F), F)
      /\ node.lo \in References /\ FamilyOf(node.lo) = Lo(TopVar(F), F)
  BY <1>2 DEF IsNodeOf, FamilyOf, References
<1>5. /\ TopVar(F) \in Var
      /\ Hi(TopVar(F), F) # Zero
      /\ F = Node(TopVar(F), Hi(TopVar(F), F), Lo(TopVar(F), F))
      /\ \A w \in Support(F) : TopVar(F) <= w
      /\ \A w \in Support(Hi(TopVar(F), F)) \union Support(Lo(TopVar(F), F)) :
           w \in Support(F) /\ TopVar(F) < w
  BY <1>1, Branching
<1> QED
  BY <1>3, <1>4, <1>5 DEF F

\* The references of the nodes.
LEMMA RootFacts ==
  ASSUME SnapshotInv, source \in Listed(roots)
  PROVE  RootReference \in References /\ FamilyOf(RootReference) = source
BY ReferenceFacts DEF SnapshotInv, RootsInv, RootReference, References, FamilyOf

\* A complete snapshot has a node for every root.
LEMMA CompleteFacts ==
  ASSUME SnapshotInv, Complete
  PROVE  Len(nodes) = Len(roots) /\ source \in Listed(roots) /\ References = 0 .. Len(nodes) + 1
BY DEF SnapshotInv, NodesInv, RootsInv, Complete, References

\* The roots of a complete snapshot are the nodes of the diagram.
LEMMA RootsAreNodes ==
  ASSUME SnapshotInv, Len(nodes) = Len(roots), source \in Listed(roots)
  PROVE  /\ NodesOf[source] = {roots[i] : i \in DOMAIN roots}
         /\ Len(roots) = Cardinality(NodesOf[source])
<1> DEFINE C == {roots[i] : i \in DOMAIN roots}
<1>1. /\ roots \in Seq(NodesOf[source]) /\ Distinct(roots) /\ source \in Family
      /\ Len(roots) \in Nat /\ DOMAIN roots = 1 .. Len(roots)
  BY LenProperties DEF SnapshotInv, RootsInv, StaticInv
<1>2. C \subseteq NodesOf[source]
  BY <1>1, ElementOfSeq
<1>3. C \subseteq Family
  BY <1>1, <1>2, NodesFinite
<1>4. Closed(C)
  <2> SUFFICES ASSUME NEW i \in 1 .. Len(roots)
               PROVE  {Hi(TopVar(roots[i]), roots[i]), Lo(TopVar(roots[i]), roots[i])} \subseteq C \union Terminals
    BY <1>1 DEF Closed
  <2>1. i + 1 \in References /\ i + 1 >= 2 /\ (i + 1) - 1 = i
    BY <1>1 DEF References
  <2>2. FamilyOf(i + 1) = roots[i]
    BY <2>1, FamilyFacts
  <2>3. PICK h \in References, l \in References :
          FamilyOf(h) = Hi(TopVar(roots[i]), roots[i]) /\ FamilyOf(l) = Lo(TopVar(roots[i]), roots[i])
    BY <2>1, <2>2, NodeFacts
  <2>4. FamilyOf(h) \in Listed(roots) /\ FamilyOf(l) \in Listed(roots)
    BY FamilyFacts
  <2> QED
    BY <2>3, <2>4 DEF Listed
<1>5. source \in C \union Terminals
  BY DEF Listed
<1> HIDE DEF C
<1>6. NodesOf[source] \subseteq C
  BY <1>3, <1>4, <1>5, ClosedHasNodes
<1>7. Len(roots) = Cardinality(NodesOf[source])
  BY <1>1, <1>6, NodesFinite, DistinctLength DEF C
<1> QED
  BY <1>2, <1>6, <1>7 DEF C

----------------------------------------------------------------------------
(* What is read from the nodes alone.                                      *)

Terminated == [r \in 0 .. Len(nodes) + 1 |-> IF r = 1 THEN One ELSE Zero]

IsWithin(n, f) == f = [d \in 0 .. n |-> IF d = 0 THEN Terminated ELSE Deeper(f[d - 1])]

\* The families of bounded paths exist for every bound.
LEMMA WithinExists ==
  ASSUME NEW n \in Nat
  PROVE  \E f : IsWithin(n, f)
<1> DEFINE Good == {m \in Nat : \E f : IsWithin(m, f)}
<1>1. 0 \in Good
  <2> DEFINE f == [d \in 0 .. 0 |-> Terminated]
  <2>1. \A d \in 0 .. 0 : d = 0
    OBVIOUS
  <2>2. f = [d \in 0 .. 0 |-> IF d = 0 THEN Terminated ELSE Deeper(f[d - 1])]
    BY <2>1
  <2>3. IsWithin(0, f)
    BY <2>2 DEF IsWithin
  <2> QED
    BY <2>3
<1>2. ASSUME NEW m \in Nat, m < n, m \in Good
      PROVE  m + 1 \in Good
  <2>1. PICK f : f = [d \in 0 .. m |-> IF d = 0 THEN Terminated ELSE Deeper(f[d - 1])]
    BY <1>2 DEF IsWithin
  <2> DEFINE g == [d \in 0 .. m + 1 |-> IF d = m + 1 THEN Deeper(f[m]) ELSE f[d]]
  <2>2. \A d \in 0 .. m + 1 : g[d] = IF d = 0 THEN Terminated ELSE Deeper(g[d - 1])
    <3> SUFFICES ASSUME NEW d \in 0 .. m + 1 PROVE g[d] = IF d = 0 THEN Terminated ELSE Deeper(g[d - 1])
      OBVIOUS
    <3>1. CASE d = m + 1
      <4>1. d # 0 /\ d - 1 = m /\ m \in 0 .. m + 1 /\ m # m + 1
        BY <3>1
      <4>2. g[m] = f[m] /\ g[d] = Deeper(f[m])
        BY <3>1, <4>1
      <4> QED
        BY <4>1, <4>2
    <3>2. CASE d = 0
      <4>1. d \in 0 .. m /\ d # m + 1
        BY <3>2
      <4> QED
        BY <2>1, <3>2, <4>1
    <3>3. CASE d # m + 1 /\ d # 0
      <4>1. d \in 0 .. m /\ d - 1 \in 0 .. m + 1 /\ d - 1 # m + 1
        BY <3>3
      <4>2. g[d] = f[d] /\ g[d - 1] = f[d - 1]
        BY <3>3, <4>1
      <4>3. f[d] = Deeper(f[d - 1])
        BY <2>1, <3>3, <4>1
      <4> QED
        BY <3>3, <4>2, <4>3
    <3> QED
      BY <3>1, <3>2, <3>3
  <2>3. g = [d \in 0 .. m + 1 |-> g[d]]
    OBVIOUS
  <2> HIDE DEF g
  <2>4. g = [d \in 0 .. m + 1 |-> IF d = 0 THEN Terminated ELSE Deeper(g[d - 1])]
    BY <2>2, <2>3, Zenon
  <2>5. IsWithin(m + 1, g)
    BY <2>4 DEF IsWithin
  <2> QED
    BY <2>5
<1> HIDE DEF Good
<1>3. 0 .. n \subseteq Good
  BY <1>1, <1>2, SetInduction
<1>4. n \in Good
  BY <1>3
<1> QED
  BY <1>4 DEF Good

\* Members is reached by N steps of Deeper.
LEMMA MembersUnfold ==
  \E f : /\ f[0] = Terminated
         /\ \A d \in 1 .. N : f[d] = Deeper(f[d - 1])
         /\ Members = f[N]
<1> DEFINE F == CHOOSE f : f = [d \in 0 .. N |-> IF d = 0 THEN Terminated ELSE Deeper(f[d - 1])]
<1>1. Members = F[N]
  BY DEF Members, Terminated
<1>2. \E f : f = [d \in 0 .. N |-> IF d = 0 THEN Terminated ELSE Deeper(f[d - 1])]
  BY NAssumption, WithinExists DEF IsWithin
<1>3. F = [d \in 0 .. N |-> IF d = 0 THEN Terminated ELSE Deeper(F[d - 1])]
  BY <1>2, Zenon
<1> HIDE DEF F
<1>4. \A d \in 0 .. N : F[d] = IF d = 0 THEN Terminated ELSE Deeper(F[d - 1])
  BY <1>3, Zenon
<1>5. F[0] = Terminated /\ \A d \in 1 .. N : F[d] = Deeper(F[d - 1])
  BY <1>4, NAssumption
<1> QED
  BY <1>1, <1>5

\* The members read from the nodes of a complete snapshot are those of the roots.
LEMMA MembersAreFamilies ==
  ASSUME SnapshotInv, Complete, NEW s \in References
  PROVE  Members[s] = FamilyOf(s)
<1>1. Len(nodes) = Len(roots) /\ References = 0 .. Len(nodes) + 1
  BY CompleteFacts
<1>2. PICK f : /\ f[0] = Terminated
               /\ \A d \in 1 .. N : f[d] = Deeper(f[d - 1])
               /\ Members = f[N]
  BY MembersUnfold
<1> DEFINE Good == {d \in 0 .. N : \A r \in References :
                      (\A w \in Support(FamilyOf(r)) : N - d <= w) => f[d][r] = FamilyOf(r)}
<1>3. 0 \in Good
  <2> SUFFICES ASSUME NEW r \in References, \A w \in Support(FamilyOf(r)) : N - 0 <= w
               PROVE  f[0][r] = FamilyOf(r)
    BY NAssumption
  <2>1. ~(r >= 2)
    <3> SUFFICES ASSUME r >= 2 PROVE FALSE
      OBVIOUS
    <3>1. FamilyOf(r) \in Family /\ FamilyOf(r) \notin Terminals
      BY FamilyFacts
    <3>2. TopVar(FamilyOf(r)) \in Var /\ TopVar(FamilyOf(r)) \in Support(FamilyOf(r))
      BY <3>1, TopExists DEF Terminals, IsTop
    <3> QED
      BY <3>2, NAssumption DEF Var
  <2>2. Len(nodes) \in Nat
    BY <1>1, LenProperties DEF SnapshotInv, NodesInv
  <2>3. r = 0 \/ r = 1
    BY <1>1, <2>1, <2>2
  <2> QED
    BY <1>1, <1>2, <2>3 DEF FamilyOf, FamilyAt, Terminated
<1>4. ASSUME NEW d \in Nat, d < N, d \in Good
      PROVE  d + 1 \in Good
  <2>1. d + 1 \in 0 .. N /\ d + 1 \in 1 .. N /\ (d + 1) - 1 = d
    BY <1>4, NAssumption
  <2> SUFFICES ASSUME NEW r \in References, \A w \in Support(FamilyOf(r)) : N - (d + 1) <= w
               PROVE  f[d + 1][r] = FamilyOf(r)
    BY <2>1
  <2>2. f[d + 1] = Deeper(f[d])
    BY <1>2, <2>1
  <2>3. f[d + 1][r] = IF r = 0 THEN Zero ELSE IF r = 1 THEN One
                      ELSE Node(NodeOf(r).variable, f[d][NodeOf(r).hi], f[d][NodeOf(r).lo])
    BY <1>1, <2>2 DEF Deeper
  <2>4. CASE r = 0 \/ r = 1
    BY <2>3, <2>4 DEF FamilyOf, FamilyAt
  <2>5. CASE r # 0 /\ r # 1
    <3> DEFINE v == NodeOf(r).variable
               h == NodeOf(r).hi
               l == NodeOf(r).lo
    <3>1. r >= 2
      BY <1>1, <2>5
    <3>2. /\ v \in Var /\ v = TopVar(FamilyOf(r)) /\ h \in References /\ l \in References
          /\ FamilyOf(r) = Node(v, FamilyOf(h), FamilyOf(l))
          /\ \A w \in Support(FamilyOf(h)) \union Support(FamilyOf(l)) : w \in Support(FamilyOf(r)) /\ v < w
      BY <1>1, <3>1, NodeFacts
    <3>3. v \in Support(FamilyOf(r)) /\ FamilyOf(r) \in Family
      BY <3>1, <3>2, FamilyFacts, TopExists DEF Terminals, IsTop
    <3> HIDE DEF v, h, l
    <3>4. N - (d + 1) <= v
      BY <3>3
    <3>5. \A w \in Support(FamilyOf(h)) \union Support(FamilyOf(l)) : N - d <= w
      <4> SUFFICES ASSUME NEW w \in Support(FamilyOf(h)) \union Support(FamilyOf(l)) PROVE N - d <= w
        OBVIOUS
      <4>1. w \in Int /\ v \in Int /\ v < w
        BY <3>2, <3>3, NAssumption DEF Support, Family, Var
      <4> QED
        BY <3>4, <4>1, <1>4, NAssumption
    <3>6. f[d][h] = FamilyOf(h) /\ f[d][l] = FamilyOf(l)
      BY <1>4, <3>2, <3>5
    <3> QED
      BY <2>3, <2>5, <3>2, <3>6 DEF v, h, l
  <2> QED
    BY <2>4, <2>5
<1> HIDE DEF Good
<1>5. 0 .. N \subseteq Good
  BY <1>3, <1>4, NAssumption, SetInduction
<1>6. N \in Good
  BY <1>5, NAssumption
<1>7. \A w \in Support(FamilyOf(s)) : N - N <= w
  <2>1. FamilyOf(s) \in Family
    BY FamilyFacts
  <2> QED
    BY <2>1, NAssumption DEF Support, Family, Var
<1> QED
  BY <1>2, <1>6, <1>7 DEF Good

\* SnapshotExact follows.
LEMMA SnapshotIsExact ==
  SnapshotInv => SnapshotExact
<1> SUFFICES ASSUME SnapshotInv, Complete
             PROVE  /\ Members[RootReference] = source
                    /\ Len(nodes) = Cardinality(NodesOf[source])
                    /\ \A i \in DOMAIN nodes : \A child \in {nodes[i].hi, nodes[i].lo} :
                         child >= 2 => nodes[i].variable < NodeOf(child).variable
  BY DEF SnapshotExact, Complete
<1>1. Len(nodes) = Len(roots) /\ source \in Listed(roots)
  BY CompleteFacts
<1>2. Members[RootReference] = source
  BY <1>1, RootFacts, MembersAreFamilies
<1>3. Len(nodes) = Cardinality(NodesOf[source])
  BY <1>1, RootsAreNodes
<1>4. ASSUME NEW i \in DOMAIN nodes, NEW child \in {nodes[i].hi, nodes[i].lo}, child >= 2
      PROVE  nodes[i].variable < NodeOf(child).variable
  <2>1. DOMAIN nodes = 1 .. Len(nodes) /\ Len(nodes) \in Nat
    BY LenProperties DEF SnapshotInv, NodesInv
  <2>2. i + 1 \in References /\ i + 1 >= 2 /\ (i + 1) - 1 = i
    BY <1>1, <2>1 DEF References
  <2>3. NodeOf(i + 1) = nodes[i]
    BY <2>2 DEF NodeOf
  <2>4. /\ child \in References
        /\ \A w \in Support(FamilyOf(child)) : nodes[i].variable < w
    BY <1>1, <2>2, <2>3, NodeFacts
  <2>5. NodeOf(child).variable = TopVar(FamilyOf(child))
    BY <1>1, <1>4, <2>4, NodeFacts
  <2>6. FamilyOf(child) \in Family /\ FamilyOf(child) \notin Terminals
    BY <1>4, <2>4, FamilyFacts
  <2>7. TopVar(FamilyOf(child)) \in Support(FamilyOf(child))
    BY <2>6, TopExists DEF Terminals, IsTop
  <2> QED
    BY <2>4, <2>5, <2>7
<1> QED
  BY <1>2, <1>3, <1>4

----------------------------------------------------------------------------
(* The inductive invariant of counting: the counts kept are right and kept *)
(* below every node that has one, their bits are added up, and what is     *)
(* still missing is on the stack above the items that need it.             *)

\* The count of r is there or comes before the k-th item of the work.
Due(c, w, r, k) == c[r] # None \/ \E j \in 1 .. k - 1 : w[j].reference = r

Item == [kind : {"visit", "finish"}, reference : References, variable : Int]

WorkInv(c, w) ==
  /\ w \in Seq(Item)
  /\ source = Zero => \A i \in 1 .. Len(w) : w[i].reference = 0
  /\ \A i \in 1 .. Len(w) : w[i].kind = "finish" =>
       /\ w[i].reference >= 2
       /\ Due(c, w, NodeOf(w[i].reference).hi, i)
       /\ Due(c, w, NodeOf(w[i].reference).lo, i)
  /\ Due(c, w, RootReference, Len(w) + 1)

CountedFamilies(c) == {FamilyOf(r) : r \in {s \in References : c[s] # None}}

CountsInv(c, b) ==
  /\ c \in [References -> Int]
  /\ \A r \in References : c[r] # None => c[r] = Cardinality(FamilyOf(r))
  /\ source = Zero => c[1] = None
  /\ \A r \in References : r >= 2 /\ c[r] # None => c[NodeOf(r).hi] # None /\ c[NodeOf(r).lo] # None
  /\ b = Cardinality(BitPlaces(CountedFamilies(c)))
  /\ b <= limits.bits

CountingInv ==
  /\ phase \in {"called", "copy", "iterate"} => counts = << >> /\ bits = 0 /\ error = "none"
  /\ phase \in {"count", "indexed", "walk", "sampled"} =>
       purpose = "index" /\ error = "none" /\ CountsInv(counts, bits)
  /\ phase = "count" => WorkInv(counts, work)
  /\ phase \in {"indexed", "walk", "sampled"} => counts[RootReference] # None
  /\ error = "count_bits" =>
       /\ phase = "failed"
       /\ Cardinality(NodesOf[source]) <= limits.nodes
       /\ BitsNeeded > limits.bits

----------------------------------------------------------------------------
(* Facts about counts.                                                     *)

\* Different references stand for different families.
LEMMA FamiliesDiffer ==
  ASSUME SnapshotInv, NEW r \in References, NEW s \in References, FamilyOf(r) = FamilyOf(s)
  PROVE  r = s
<1>1. Len(roots) \in Nat /\ DOMAIN roots = 1 .. Len(roots) /\ Distinct(roots)
  BY LenProperties DEF SnapshotInv, RootsInv
<1>2. r \in Nat /\ s \in Nat
  BY <1>1 DEF References
<1>3. CASE r >= 2 /\ s >= 2
  <2>1. r - 1 \in 1 .. Len(roots) /\ s - 1 \in 1 .. Len(roots) /\ roots[r - 1] = roots[s - 1]
    BY <1>3, FamilyFacts
  <2>2. r - 1 = s - 1
    BY <1>1, <2>1 DEF Distinct
  <2> QED
    BY <1>2, <2>2
<1>4. CASE r < 2 /\ s < 2
  <2>1. Zero # One
    BY DEF Zero, One
  <2>2. r \in {0, 1} /\ s \in {0, 1}
    BY <1>2, <1>4
  <2> QED
    BY <2>1, <2>2 DEF FamilyOf, FamilyAt
<1>5. CASE (r >= 2 /\ s < 2) \/ (r < 2 /\ s >= 2)
  BY <1>5, FamilyFacts
<1> QED
  BY <1>2, <1>3, <1>4, <1>5

\* The families that a complete index counts.
NeededFamilies == NodesOf[source] \union (IF source = Zero THEN {} ELSE {One})

\* No more is counted than a complete index has.
LEMMA CountedAreNeeded ==
  ASSUME SnapshotInv, NEW R \in SUBSET References, source = Zero => 1 \notin R
  PROVE  /\ {FamilyOf(r) : r \in R} \ {Zero} \subseteq NeededFamilies
         /\ {FamilyOf(r) : r \in R} \subseteq Family
         /\ NeededFamilies \subseteq Family
<1>1. source \in Family
  BY DEF SnapshotInv, StaticInv
<1>2. NeededFamilies \subseteq Family
  BY <1>1, NodesFinite, TerminalNodes DEF NeededFamilies
<1>3. {FamilyOf(r) : r \in R} \subseteq Family
  BY FamilyFacts
<1>4. ASSUME NEW r \in R, FamilyOf(r) # Zero PROVE FamilyOf(r) \in NeededFamilies
  <2>1. r \in Nat
    BY LenProperties DEF SnapshotInv, RootsInv, References
  <2>2. CASE r >= 2
    BY <2>2, FamilyFacts DEF NeededFamilies
  <2>3. CASE r = 0
    BY <1>4, <2>3 DEF FamilyOf, FamilyAt
  <2>4. CASE r = 1
    <3>1. FamilyOf(r) = One /\ source # Zero
      BY <2>4 DEF FamilyOf, FamilyAt
    <3> QED
      BY <3>1 DEF NeededFamilies
  <2> QED
    BY <2>1, <2>2, <2>3, <2>4
<1> QED
  BY <1>2, <1>3, <1>4

\* An index that has the count of the root has those of all nodes, and the bits
\* of a complete index.
LEMMA IndexIsComplete ==
  ASSUME SnapshotInv, Complete, NEW c, NEW b, CountsInv(c, b), c[RootReference] # None
  PROVE  /\ \A r \in References : r >= 2 => c[r] # None
         /\ BitsNeeded = b
<1> DEFINE K == CountedFamilies(c)
           C == {G \in K : G \notin Terminals}
<1>1. /\ Len(nodes) = Len(roots) /\ source \in Listed(roots) /\ source \in Family
      /\ RootReference \in References /\ FamilyOf(RootReference) = source
  BY CompleteFacts, RootFacts DEF SnapshotInv, StaticInv
<1>2. source \in K
  BY <1>1 DEF CountedFamilies
<1>3. \A G \in K \ Terminals : Hi(TopVar(G), G) \in K /\ Lo(TopVar(G), G) \in K
  <2> SUFFICES ASSUME NEW r \in References, c[r] # None, FamilyOf(r) \notin Terminals
               PROVE  Hi(TopVar(FamilyOf(r)), FamilyOf(r)) \in K /\ Lo(TopVar(FamilyOf(r)), FamilyOf(r)) \in K
    BY DEF CountedFamilies
  <2>1. r \in Nat
    BY LenProperties DEF SnapshotInv, RootsInv, References
  <2>2. r >= 2
    <3>1. r < 2 => FamilyOf(r) \in Terminals
      BY FamilyFacts
    <3> QED
      BY <2>1, <3>1
  <2>3. /\ NodeOf(r).hi \in References /\ FamilyOf(NodeOf(r).hi) = Hi(TopVar(FamilyOf(r)), FamilyOf(r))
        /\ NodeOf(r).lo \in References /\ FamilyOf(NodeOf(r).lo) = Lo(TopVar(FamilyOf(r)), FamilyOf(r))
    BY <1>1, <2>2, NodeFacts
  <2>4. c[NodeOf(r).hi] # None /\ c[NodeOf(r).lo] # None
    BY <2>2 DEF CountsInv
  <2> QED
    BY <2>3, <2>4 DEF CountedFamilies
<1>4. K \subseteq Family
  BY FamilyFacts DEF CountedFamilies
<1> HIDE DEF K
<1>5. C \subseteq Family /\ Closed(C) /\ source \in C \union Terminals
  BY <1>2, <1>3, <1>4 DEF Closed
<1>6. NodesOf[source] \subseteq C
  BY <1>5, ClosedHasNodes
<1>7. \A r \in References : r >= 2 => c[r] # None
  <2> SUFFICES ASSUME NEW r \in References, r >= 2 PROVE c[r] # None
    OBVIOUS
  <2>1. FamilyOf(r) \in K
    BY <1>6, FamilyFacts
  <2>2. PICK s \in References : c[s] # None /\ FamilyOf(s) = FamilyOf(r)
    BY <2>1 DEF K, CountedFamilies
  <2>3. s = r
    BY <2>2, FamiliesDiffer
  <2> QED
    BY <2>2, <2>3
<1>8. source # Zero => One \in K
  <2> SUFFICES ASSUME source # Zero PROVE One \in K
    OBVIOUS
  <2> DEFINE M == K \ {Zero}
  <2>1. \A G \in M \ {One} : Hi(TopVar(G), G) \in M
    <3> SUFFICES ASSUME NEW G \in M \ {One} PROVE Hi(TopVar(G), G) \in M
      OBVIOUS
    <3>1. G \in Family /\ G \notin Terminals
      BY <1>4 DEF Terminals
    <3>2. Hi(TopVar(G), G) \in K
      BY <1>3, <3>1
    <3>3. Hi(TopVar(G), G) # Zero
      BY <3>1, Branching
    <3> QED
      BY <3>2, <3>3
  <2>2. source \in M
    BY <1>2
  <2> HIDE DEF M
  <2>3. One \in M
    BY <1>1, <2>1, <2>2, HiPathEndsInOne
  <2> QED
    BY <2>3 DEF M
<1>9. NeededFamilies = K \ {Zero}
  <2> DEFINE R == {s \in References : c[s] # None}
  <2>1. source = Zero => 1 \notin R
    BY DEF CountsInv
  <2>2. K \ {Zero} \subseteq NeededFamilies
    BY <2>1, CountedAreNeeded DEF K, CountedFamilies
  <2>3. Zero \notin NeededFamilies
    BY <1>6 DEF NeededFamilies, Terminals, Zero, One
  <2>4. NeededFamilies \subseteq K
    BY <1>6, <1>8 DEF NeededFamilies
  <2> QED
    BY <2>2, <2>3, <2>4
<1>10. BitPlaces(NeededFamilies) = BitPlaces(K)
  BY <1>9, NoBitsOfZero
<1>11. BitsNeeded = b
  BY <1>10 DEF BitsNeeded, NeededFamilies, CountsInv, K
<1> QED
  BY <1>7, <1>11

\* The count that is stored is right, and what it needs is there.
LEMMA StoredCount ==
  ASSUME SnapshotInv, Complete, CountsInv(counts, bits), WorkInv(counts, work), Pending,
         NEW value \in CountToStore
  PROVE  /\ Ref \in References /\ counts[Ref] = None
         /\ value = Cardinality(FamilyOf(Ref)) /\ value \in Nat
         /\ source = Zero => Ref # 1
         /\ Ref >= 2 => counts[NodeOf(Ref).hi] # None /\ counts[NodeOf(Ref).lo] # None
<1>1. work \in Seq(Item) /\ work # << >> /\ counts[Ref] = None
  BY DEF WorkInv, Pending, Counting
<1>2. 1 \in 1 .. Len(work) /\ Head(work) = work[1] /\ work[1] \in Item
  <2>1. Len(work) \in Nat \ {0}
    BY <1>1, EmptySeq
  <2>2. 1 \in 1 .. Len(work)
    BY <2>1
  <2> QED
    BY <1>1, <2>2, ElementOfSeq
<1>3. Ref = work[1].reference /\ Ref \in References /\ work[1].kind \in {"visit", "finish"}
  BY <1>2 DEF Ref, Item
<1>4. source = Zero => Ref # 1
  BY <1>2, <1>3 DEF WorkInv
<1>5. Ref \in Nat /\ Len(nodes) = Len(roots)
  BY <1>3, CompleteFacts, LenProperties DEF SnapshotInv, RootsInv, References
<1>6. CASE work[1].kind = "visit"
  <2>1. value = Ref /\ Ref \in {0, 1}
    BY <1>2, <1>6 DEF CountToStore
  <2>2. Cardinality(Zero) = 0 /\ Cardinality(One) = 1
    BY FS_EmptySet, FS_Singleton DEF Zero, One
  <2> QED
    BY <1>1, <1>3, <1>4, <2>1, <2>2 DEF FamilyOf, FamilyAt
<1>7. CASE work[1].kind = "finish"
  <2> DEFINE h == NodeOf(Ref).hi
             l == NodeOf(Ref).lo
             v == NodeOf(Ref).variable
  <2>1. Ref >= 2 /\ Due(counts, work, h, 1) /\ Due(counts, work, l, 1)
    BY <1>2, <1>3, <1>7 DEF WorkInv
  <2>2. counts[h] # None /\ counts[l] # None
    BY <2>1 DEF Due
  <2>3. value = counts[l] + counts[h]
    BY <1>2, <1>7, <2>2 DEF CountToStore, ChildCounts
  <2>4. /\ h \in References /\ l \in References
        /\ FamilyOf(Ref) = Node(v, FamilyOf(h), FamilyOf(l))
        /\ v \in Var
        /\ \A w \in Support(FamilyOf(h)) \union Support(FamilyOf(l)) : v < w
    BY <1>3, <1>5, <2>1, NodeFacts
  <2> HIDE DEF h, l, v
  <2>5. v \notin Support(FamilyOf(h)) \union Support(FamilyOf(l))
    <3>1. v \in Int
      BY <2>4, NAssumption DEF Var
    <3> QED
      BY <2>4, <3>1
  <2>6. /\ IsFiniteSet(FamilyOf(h)) /\ IsFiniteSet(FamilyOf(l))
        /\ Cardinality(FamilyOf(h)) \in Nat /\ Cardinality(FamilyOf(l)) \in Nat
    BY <2>4, FamilyFacts
  <2>7. Cardinality(FamilyOf(Ref)) = Cardinality(FamilyOf(h)) + Cardinality(FamilyOf(l))
    BY <2>4, <2>5, <2>6, NodeCardinality
  <2>8. counts[h] = Cardinality(FamilyOf(h)) /\ counts[l] = Cardinality(FamilyOf(l))
    BY <2>2, <2>4 DEF CountsInv
  <2>9. value = Cardinality(FamilyOf(Ref)) /\ value \in Nat
    BY <2>3, <2>6, <2>7, <2>8
  <2> QED
    BY <1>1, <1>3, <1>4, <2>2, <2>9 DEF h, l
<1> QED
  BY <1>3, <1>6, <1>7

\* One more count.
LEMMA OneMoreCounted ==
  ASSUME SnapshotInv, NEW c \in [References -> Int], NEW r \in References, c[r] = None,
         NEW value \in Nat
  PROVE  /\ CountedFamilies([c EXCEPT ![r] = value]) = CountedFamilies(c) \union {FamilyOf(r)}
         /\ FamilyOf(r) \notin CountedFamilies(c) /\ FamilyOf(r) \in Family
         /\ CountedFamilies(c) \subseteq Family
<1> DEFINE R == {s \in References : c[s] # None}
           d == [c EXCEPT ![r] = value]
<1>1. {s \in References : d[s] # None} = R \union {r}
  BY DEF None
<1> HIDE DEF d
<1>2. CountedFamilies(d) = CountedFamilies(c) \union {FamilyOf(r)}
  BY <1>1 DEF CountedFamilies
<1>3. FamilyOf(r) \notin CountedFamilies(c)
  BY FamiliesDiffer DEF CountedFamilies
<1>4. CountedFamilies(c) \subseteq Family /\ FamilyOf(r) \in Family
  BY FamilyFacts DEF CountedFamilies
<1> QED
  BY <1>2, <1>3, <1>4 DEF d

----------------------------------------------------------------------------
(* The steps of counting.                                                  *)

\* What is put in front of a sequence.
LEMMA ThreeAhead ==
  ASSUME NEW S, NEW a \in S, NEW b \in S, NEW c \in S, NEW t \in Seq(S), NEW x, x = <<a, b, c>> \o t
  PROVE  /\ x \in Seq(S) /\ Len(x) = Len(t) + 3
         /\ x[1] = a /\ x[2] = b /\ x[3] = c
         /\ \A i \in 4 .. Len(t) + 3 : x[i] = t[i - 3]
<1>1. PICK q : q = <<a, b, c>>
  OBVIOUS
<1>2. q \in Seq(S) /\ Len(q) = 3 /\ q[1] = a /\ q[2] = b /\ q[3] = c
  BY <1>1
<1>3. /\ q \o t \in Seq(S) /\ Len(q \o t) = Len(q) + Len(t)
      /\ \A i \in 1 .. Len(q) + Len(t) : (q \o t)[i] = IF i <= Len(q) THEN q[i] ELSE t[i - Len(q)]
  <2>1. q \in Seq(S)
    BY <1>2
  <2> QED
    BY <2>1, ConcatProperties, Zenon
<1>4. Len(t) \in Nat
  BY LenProperties
<1>5. /\ x \in Seq(S) /\ Len(x) = 3 + Len(t)
      /\ \A i \in 1 .. 3 + Len(t) : x[i] = IF i <= 3 THEN q[i] ELSE t[i - 3]
  BY <1>1, <1>2, <1>3, Zenon
<1> QED
  BY <1>2, <1>4, <1>5

\* Two items in front of a sequence.
LEMMA TwoAhead ==
  ASSUME NEW S, NEW a \in S, NEW b \in S, NEW t \in Seq(S), NEW x, x = <<a, b>> \o t
  PROVE  /\ x \in Seq(S) /\ Len(x) = Len(t) + 2
         /\ x[1] = a /\ x[2] = b
         /\ \A i \in 3 .. Len(t) + 2 : x[i] = t[i - 2]
<1>1. PICK q : q = <<a, b>>
  OBVIOUS
<1>2. q \in Seq(S) /\ Len(q) = 2 /\ q[1] = a /\ q[2] = b
  BY <1>1
<1>3. /\ q \o t \in Seq(S) /\ Len(q \o t) = Len(q) + Len(t)
      /\ \A i \in 1 .. Len(q) + Len(t) : (q \o t)[i] = IF i <= Len(q) THEN q[i] ELSE t[i - Len(q)]
  <2>1. q \in Seq(S)
    BY <1>2
  <2> QED
    BY <2>1, ConcatProperties, Zenon
<1>4. Len(t) \in Nat
  BY LenProperties
<1>5. /\ x \in Seq(S) /\ Len(x) = 2 + Len(t)
      /\ \A i \in 1 .. 2 + Len(t) : x[i] = IF i <= 2 THEN q[i] ELSE t[i - 2]
  BY <1>1, <1>2, <1>3, Zenon
<1> QED
  BY <1>2, <1>4, <1>5

\* An item whose count is there may go.
LEMMA WorkTail ==
  ASSUME SnapshotInv, NEW c, NEW d, NEW w, WorkInv(c, w), w # << >>,
         \A r : c[r] # None => d[r] # None, d[w[1].reference] # None
  PROVE  WorkInv(d, Tail(w))
<1>1. w \in Seq(Item) /\ Len(w) \in Nat \ {0}
  BY EmptySeq DEF WorkInv
<1>2. /\ Tail(w) \in Seq(Item) /\ Len(Tail(w)) = Len(w) - 1
      /\ \A i \in 1 .. Len(Tail(w)) : Tail(w)[i] = w[i + 1]
  BY <1>1, HeadTailProperties
<1>3. ASSUME NEW r, NEW k \in 1 .. Len(w), Due(c, w, r, k + 1)
      PROVE  Due(d, Tail(w), r, k)
  <2>1. CASE c[r] # None
    BY <2>1 DEF Due
  <2>2. CASE c[r] = None
    <3>1. PICK j \in 1 .. (k + 1) - 1 : w[j].reference = r
      BY <1>3, <2>2 DEF Due
    <3>2. CASE j = 1
      BY <3>1, <3>2 DEF Due
    <3>3. CASE j # 1
      <4>1. j - 1 \in 1 .. k - 1 /\ j - 1 \in 1 .. Len(Tail(w)) /\ (j - 1) + 1 = j
        BY <1>1, <1>2, <3>1, <3>3
      <4>2. Tail(w)[j - 1].reference = r
        BY <1>2, <3>1, <4>1
      <4> QED
        BY <4>1, <4>2 DEF Due
    <3> QED
      BY <3>2, <3>3
  <2> QED
    BY <2>1, <2>2
<1>4. \A i \in 1 .. Len(Tail(w)) : i \in 1 .. Len(w) /\ i + 1 \in 1 .. Len(w)
  BY <1>1, <1>2
<1>5. Len(Tail(w)) + 1 \in 1 .. Len(w) /\ (Len(Tail(w)) + 1) + 1 = Len(w) + 1
  BY <1>1, <1>2
<1>6. Due(d, Tail(w), RootReference, Len(Tail(w)) + 1)
  BY <1>3, <1>5 DEF WorkInv
<1>7. source = Zero => \A i \in 1 .. Len(Tail(w)) : Tail(w)[i].reference = 0
  BY <1>2, <1>4 DEF WorkInv
<1>8. ASSUME NEW i \in 1 .. Len(Tail(w)), Tail(w)[i].kind = "finish"
      PROVE  /\ Tail(w)[i].reference >= 2
             /\ Due(d, Tail(w), NodeOf(Tail(w)[i].reference).hi, i)
             /\ Due(d, Tail(w), NodeOf(Tail(w)[i].reference).lo, i)
  <2>1. Tail(w)[i] = w[i + 1] /\ i \in 1 .. Len(w) /\ i + 1 \in 1 .. Len(w)
    BY <1>2, <1>4
  <2>2. /\ w[i + 1].reference >= 2
        /\ Due(c, w, NodeOf(w[i + 1].reference).hi, i + 1)
        /\ Due(c, w, NodeOf(w[i + 1].reference).lo, i + 1)
    BY <1>8, <2>1 DEF WorkInv
  <2> QED
    BY <1>3, <2>1, <2>2
<1> QED
  BY <1>2, <1>6, <1>7, <1>8 DEF WorkInv

\* A node waits below its two children.
LEMMA WorkExpand ==
  ASSUME SnapshotInv, Complete, NEW c, NEW w, WorkInv(c, w), w # << >>, w[1].reference >= 2,
         NEW first \in Item, first = Visit(NodeOf(w[1].reference).lo),
         NEW second \in Item, second = Visit(NodeOf(w[1].reference).hi),
         NEW last \in Item, last.reference = w[1].reference,
         NEW x, x = <<first, second, last>> \o Tail(w)
  PROVE  WorkInv(c, x)
<1> DEFINE r == w[1].reference
           lo == NodeOf(r).lo
           hi == NodeOf(r).hi
<1>1. w \in Seq(Item) /\ Len(w) \in Nat \ {0}
  BY EmptySeq DEF WorkInv
<1>2. /\ Tail(w) \in Seq(Item) /\ Len(Tail(w)) = Len(w) - 1
      /\ \A i \in 1 .. Len(Tail(w)) : Tail(w)[i] = w[i + 1]
  BY <1>1, HeadTailProperties
<1>3. r \in References
  <2>1. 1 \in 1 .. Len(w)
    BY <1>1
  <2>2. w[1] \in Item
    BY <1>1, <2>1, ElementOfSeq
  <2> QED
    BY <2>2 DEF Item
<1>4. r >= 2 /\ hi \in References /\ lo \in References
  BY <1>3, CompleteFacts, NodeFacts
<1>5. source # Zero
  <2>1. 1 \in 1 .. Len(w) /\ r \in Int
    BY <1>1, <1>3, LenProperties DEF References, SnapshotInv, RootsInv
  <2> QED
    BY <1>4, <2>1 DEF WorkInv
<1> HIDE DEF r, lo, hi
<1>9. /\ x \in Seq(Item) /\ Len(x) = Len(w) + 2
      /\ x[1] = first /\ x[2] = second /\ x[3] = last
      /\ \A i \in 4 .. Len(x) : x[i] = w[i - 2]
  <2>1. /\ x \in Seq(Item) /\ Len(x) = Len(Tail(w)) + 3
        /\ x[1] = first /\ x[2] = second /\ x[3] = last
        /\ \A i \in 4 .. Len(Tail(w)) + 3 : x[i] = Tail(w)[i - 3]
    BY <1>2, ThreeAhead
  <2>2. \A i \in 4 .. Len(Tail(w)) + 3 : i - 3 \in 1 .. Len(Tail(w)) /\ (i - 3) + 1 = i - 2
    BY <1>1, <1>2
  <2>3. \A i \in 4 .. Len(Tail(w)) + 3 : x[i] = w[i - 2]
    BY <1>2, <2>1, <2>2
  <2>4. Len(Tail(w)) + 3 = Len(w) + 2
    BY <1>1, <1>2
  <2> QED
    BY <2>1, <2>3, <2>4
<1>10. x[1].reference = lo /\ x[2].reference = hi /\ x[3].reference = r
       /\ x[1].kind = "visit" /\ x[2].kind = "visit"
  BY <1>9 DEF Visit, r, lo, hi
<1>11. ASSUME NEW s, NEW k \in 2 .. Len(w) + 1, Due(c, w, s, k)
       PROVE  Due(c, x, s, k + 2)
  <2>1. CASE c[s] # None
    BY <2>1 DEF Due
  <2>2. CASE c[s] = None
    <3>1. PICK j \in 1 .. k - 1 : w[j].reference = s
      BY <1>11, <2>2 DEF Due
    <3>2. CASE j = 1
      <4>1. s = r /\ 3 \in 1 .. (k + 2) - 1
        BY <1>1, <3>1, <3>2 DEF r
      <4> QED
        BY <1>10, <4>1 DEF Due
    <3>3. CASE j # 1
      <4>1. j + 2 \in 1 .. (k + 2) - 1 /\ j + 2 \in 4 .. Len(x) /\ (j + 2) - 2 = j
        BY <1>1, <1>9, <3>1, <3>3
      <4>2. x[j + 2].reference = s
        BY <1>9, <3>1, <4>1
      <4> QED
        BY <4>1, <4>2 DEF Due
    <3> QED
      BY <3>2, <3>3
  <2> QED
    BY <2>1, <2>2
<1>12. ASSUME NEW i \in 1 .. Len(x), x[i].kind = "finish"
       PROVE  /\ x[i].reference >= 2
              /\ Due(c, x, NodeOf(x[i].reference).hi, i)
              /\ Due(c, x, NodeOf(x[i].reference).lo, i)
  <2>1. CASE i <= 3
    <3>1. i \in {1, 2, 3}
      BY <1>1, <1>9, <2>1
    <3>2. i = 3
      BY <1>10, <1>12, <3>1
    <3>3. NodeOf(x[3].reference).hi = hi /\ NodeOf(x[3].reference).lo = lo
      BY <1>10 DEF hi, lo
    <3>4. 1 \in 1 .. 3 - 1 /\ 2 \in 1 .. 3 - 1
      OBVIOUS
    <3> QED
      BY <1>4, <1>10, <3>2, <3>3, <3>4 DEF Due
  <2>2. CASE ~(i <= 3)
    <3>1. i - 2 \in 2 .. Len(w) + 1 /\ i - 2 \in 1 .. Len(w) /\ (i - 2) + 2 = i
      BY <1>1, <1>9, <2>2
    <3>2. x[i] = w[i - 2]
      <4>1. i \in 4 .. Len(x)
        BY <1>1, <1>9, <2>2
      <4> QED
        BY <1>9, <4>1
    <3>3. /\ w[i - 2].reference >= 2
          /\ Due(c, w, NodeOf(w[i - 2].reference).hi, i - 2)
          /\ Due(c, w, NodeOf(w[i - 2].reference).lo, i - 2)
      BY <1>12, <3>1, <3>2 DEF WorkInv
    <3>4. PICK k : k = i - 2
      OBVIOUS
    <3>5. Due(c, x, NodeOf(w[k].reference).hi, k + 2) /\ Due(c, x, NodeOf(w[k].reference).lo, k + 2)
      BY <1>11, <3>1, <3>3, <3>4
    <3> QED
      BY <3>1, <3>2, <3>3, <3>4, <3>5
  <2> QED
    BY <1>9, <2>1, <2>2
<1>13. Due(c, x, RootReference, Len(x) + 1)
  <2>1. Len(w) + 1 \in 2 .. Len(w) + 1 /\ (Len(w) + 1) + 2 = Len(x) + 1
    BY <1>1, <1>9
  <2> QED
    BY <1>11, <2>1 DEF WorkInv
<1> QED
  BY <1>5, <1>9, <1>12, <1>13 DEF WorkInv

\* The top of the work.
LEMMA HeadFacts ==
  ASSUME NEW c, NEW w, WorkInv(c, w), w # << >>
  PROVE  Head(w) = w[1] /\ w[1] \in Item /\ 1 \in 1 .. Len(w) /\ w \in Seq(Item)
<1>1. w \in Seq(Item) /\ Len(w) \in Nat \ {0}
  BY EmptySeq DEF WorkInv
<1>2. 1 \in 1 .. Len(w)
  BY <1>1
<1> QED
  BY <1>1, <1>2, ElementOfSeq

\* The first state has the counting invariant.
LEMMA CountingInit ==
  Init => CountingInv
BY DEF Init, CountingInv

\* The index starts with no count and the root to visit.
LEMMA CountingCopied ==
  ASSUME SnapshotInv, CountingInv, Copied
  PROVE  CountingInv'
<1>1. phase = "copy" /\ counts = << >> /\ bits = 0 /\ error = "none"
  BY DEF CountingInv, Copied
<1>2. UNCHANGED <<source, limits, purpose, roots, nodes, bits, error>> /\ Len(nodes) = Len(roots)
  BY DEF Copied, snapshot
<1>3. CASE purpose # "index"
  <2>1. phase' = "iterate" /\ counts' = counts
    BY <1>3 DEF Copied
  <2> QED
    BY <1>1, <1>2, <2>1 DEF CountingInv
<1>4. CASE purpose = "index"
  <2> DEFINE c == [r \in 0 .. Len(nodes) + 1 |-> None]
             w == <<Visit(RootReference)>>
  <2>1. phase' = "count" /\ counts' = c /\ work' = w
    BY <1>4 DEF Copied
  <2>2. c \in [References -> Int] /\ \A r \in References : c[r] = None
    BY <1>2 DEF References, None
  <2>3. 1 \in References
    BY LenProperties DEF References, SnapshotInv, RootsInv
  <2>4. limits.bits \in Nat
    BY DEF SnapshotInv, StaticInv
  <2>5. source \in Listed(roots) /\ RootReference \in References
    BY <1>1, RootFacts DEF SnapshotInv, RootsInv
  <2>6. source = Zero => RootReference = 0
    BY DEF RootReference, Reference
  <2> HIDE DEF c
  <2>7. CountsInv(c, 0)
    <3>1. CountedFamilies(c) = {}
      BY <2>2 DEF CountedFamilies
    <3>2. Cardinality(BitPlaces({})) = 0
      BY FS_EmptySet DEF BitPlaces
    <3> QED
      BY <2>2, <2>3, <2>4, <3>1, <3>2 DEF CountsInv
  <2>8. WorkInv(c, w)
    <3>1. Visit(RootReference) \in Item /\ Visit(RootReference).reference = RootReference
          /\ Visit(RootReference).kind = "visit"
      BY <2>5 DEF Visit, Item, None
    <3>2. w \in Seq(Item) /\ Len(w) = 1 /\ \A i \in 1 .. Len(w) : w[i] = Visit(RootReference)
      BY <3>1
    <3>3. 1 \in 1 .. (Len(w) + 1) - 1 /\ w[1].reference = RootReference
      BY <3>1, <3>2
    <3> HIDE DEF w
    <3> QED
      BY <2>6, <3>1, <3>2, <3>3 DEF WorkInv, Due
  <2> HIDE DEF w
  <2>9. CountsInv(counts, bits)'
    BY <1>1, <1>2, <2>1, <2>7 DEF CountsInv, CountedFamilies, References, FamilyOf, FamilyAt, NodeOf
  <2>10. WorkInv(counts, work)'
    BY <1>2, <2>1, <2>8 DEF WorkInv, Due, Item, References, NodeOf, RootReference, Reference, Index
  <2> QED
    BY <1>1, <1>2, <1>4, <2>1, <2>9, <2>10 DEF CountingInv
<1> QED
  BY <1>3, <1>4

\* What the counting invariant says of the next state, when the snapshot stays.
LEMMA NextCounts ==
  ASSUME UNCHANGED snapshot, NEW c, NEW b, counts' = c, bits' = b, CountsInv(c, b)
  PROVE  CountsInv(counts, bits)'
<1>1. UNCHANGED <<source, limits, purpose, roots, nodes>>
  BY DEF snapshot
<1> QED
  BY <1>1 DEF CountsInv, CountedFamilies, References, FamilyOf, FamilyAt, NodeOf

\* The same of the work.
LEMMA NextWork ==
  ASSUME UNCHANGED snapshot, NEW c, NEW w, counts' = c, work' = w, WorkInv(c, w)
  PROVE  WorkInv(counts, work)'
<1>1. UNCHANGED <<source, limits, purpose, roots, nodes>>
  BY DEF snapshot
<1> QED
  BY <1>1 DEF WorkInv, Due, Item, References, NodeOf, RootReference, Reference, Index

\* A reference that has its count is skipped.
LEMMA CountingKnown ==
  ASSUME SnapshotInv, CountingInv, CountKnown
  PROVE  CountingInv'
<1>1. /\ phase = "count" /\ work # << >> /\ counts[Ref] # None
      /\ phase' = phase /\ error' = error /\ purpose' = purpose
      /\ UNCHANGED snapshot /\ UNCHANGED <<counts, bits>> /\ work' = Tail(work)
  BY DEF CountKnown, Counting, snapshot
<1>2. purpose = "index" /\ error = "none" /\ CountsInv(counts, bits) /\ WorkInv(counts, work)
  BY <1>1 DEF CountingInv
<1>3. Ref = work[1].reference
  BY <1>1, <1>2, HeadFacts DEF Ref
<1>4. PICK c, b, w : c = counts /\ b = bits /\ w = Tail(work)
  OBVIOUS
<1>5. WorkInv(c, w)
  BY <1>1, <1>2, <1>3, <1>4, WorkTail
<1>6. CountsInv(counts, bits)' /\ WorkInv(counts, work)'
  BY <1>1, <1>2, <1>4, <1>5, NextCounts, NextWork
<1> QED
  BY <1>1, <1>2, <1>6 DEF CountingInv

\* A node waits for its children.
LEMMA CountingExpand ==
  ASSUME SnapshotInv, CountingInv, CountExpand
  PROVE  CountingInv'
<1> DEFINE first == Visit(NodeOf(Ref).lo)
           second == Visit(NodeOf(Ref).hi)
           last == [Visit(Ref) EXCEPT !.kind = "finish"]
<1>1. /\ phase = "count" /\ work # << >> /\ Ref >= 2
      /\ phase' = phase /\ error' = error /\ purpose' = purpose
      /\ UNCHANGED snapshot /\ UNCHANGED <<counts, bits>>
      /\ work' = <<first, second, last>> \o Tail(work)
  BY DEF CountExpand, Pending, Counting, snapshot
<1>2. purpose = "index" /\ error = "none" /\ CountsInv(counts, bits) /\ WorkInv(counts, work)
  BY <1>1 DEF CountingInv
<1>3. Ref = work[1].reference /\ Ref \in References
  BY <1>1, <1>2, HeadFacts DEF Ref, Item
<1>4. Complete
  BY <1>1 DEF Complete
<1>5. NodeOf(Ref).lo \in References /\ NodeOf(Ref).hi \in References
  BY <1>1, <1>3, <1>4, CompleteFacts, NodeFacts
<1>6. first \in Item /\ second \in Item
  BY <1>5 DEF Visit, Item, None
<1>7. last = [kind |-> "finish", reference |-> Ref, variable |-> None]
  BY DEF Visit
<1>8. last \in Item /\ last.reference = Ref
  BY <1>3, <1>7 DEF Item, None
<1>9. PICK x : x = <<first, second, last>> \o Tail(work)
  OBVIOUS
<1>10. PICK f \in Item, s \in Item, l \in Item : f = first /\ s = second /\ l = last
  BY <1>6, <1>8
<1>11. f = Visit(NodeOf(work[1].reference).lo) /\ s = Visit(NodeOf(work[1].reference).hi)
       /\ l.reference = work[1].reference /\ x = <<f, s, l>> \o Tail(work) /\ work[1].reference >= 2
  BY <1>1, <1>3, <1>8, <1>9, <1>10
<1> HIDE DEF first, second, last
<1>12. WorkInv(counts, x)
  BY <1>1, <1>2, <1>4, <1>11, WorkExpand
<1>13. PICK c, b : c = counts /\ b = bits
  OBVIOUS
<1>14. CountsInv(counts, bits)' /\ WorkInv(counts, work)'
  BY <1>1, <1>2, <1>9, <1>12, <1>13, NextCounts, NextWork
<1> QED
  BY <1>1, <1>2, <1>14 DEF CountingInv

\* The count of the top item is stored.
LEMMA CountingStore ==
  ASSUME SnapshotInv, CountingInv, StoreCount
  PROVE  CountingInv'
<1>1. /\ phase = "count" /\ work # << >> /\ Pending
      /\ phase' = phase /\ error' = error /\ purpose' = purpose
      /\ UNCHANGED snapshot /\ work' = Tail(work)
  BY DEF StoreCount, Pending, Counting, snapshot
<1>2. purpose = "index" /\ error = "none" /\ CountsInv(counts, bits) /\ WorkInv(counts, work)
  BY <1>1 DEF CountingInv
<1>3. PICK value \in CountToStore :
        /\ bits + BitLength(value) <= limits.bits
        /\ counts' = [counts EXCEPT ![Ref] = value]
        /\ bits' = bits + BitLength(value)
  BY DEF StoreCount
<1>4. Complete
  BY <1>1 DEF Complete
<1>5. /\ Ref \in References /\ counts[Ref] = None
      /\ value = Cardinality(FamilyOf(Ref)) /\ value \in Nat
      /\ source = Zero => Ref # 1
      /\ Ref >= 2 => counts[NodeOf(Ref).hi] # None /\ counts[NodeOf(Ref).lo] # None
  BY <1>1, <1>2, <1>4, StoredCount
<1>6. Ref = work[1].reference
  BY <1>1, <1>2, HeadFacts DEF Ref
<1>7. PICK r \in References : r = Ref
  BY <1>5
<1>8. PICK c, d : c = counts /\ d = [c EXCEPT ![r] = value]
  OBVIOUS
<1>9. c \in [References -> Int] /\ c[r] = None /\ counts' = d
  BY <1>2, <1>3, <1>5, <1>7, <1>8 DEF CountsInv
<1>10. /\ d \in [References -> Int] /\ d[r] = value /\ \A s \in References \ {r} : d[s] = c[s]
  BY <1>5, <1>8, <1>9
<1>11. \A s : c[s] # None => d[s] # None
  BY <1>5, <1>8, <1>9 DEF None
<1>12. /\ CountedFamilies(d) = CountedFamilies(c) \union {FamilyOf(r)}
       /\ FamilyOf(r) \notin CountedFamilies(c) /\ FamilyOf(r) \in Family
       /\ CountedFamilies(c) \subseteq Family
  BY <1>5, <1>8, <1>9, OneMoreCounted
<1>13. bits + BitLength(value) = Cardinality(BitPlaces(CountedFamilies(d)))
  <2>1. bits = Cardinality(BitPlaces(CountedFamilies(c)))
    BY <1>2, <1>8 DEF CountsInv
  <2>2. value = Cardinality(FamilyOf(r))
    BY <1>5, <1>7
  <2> QED
    BY <1>12, <2>1, <2>2, MoreBits
<1>14. \A s \in References : d[s] # None => d[s] = Cardinality(FamilyOf(s))
  BY <1>2, <1>5, <1>7, <1>8, <1>10 DEF CountsInv
<1>15. source = Zero => d[1] = None
  <2>1. source = Zero => 1 # r /\ c[1] = None
    BY <1>2, <1>5, <1>7, <1>8 DEF CountsInv
  <2>2. 1 \in References
    BY LenProperties DEF References, SnapshotInv, RootsInv
  <2> QED
    BY <1>10, <2>1, <2>2
<1>16. \A s \in References : s >= 2 /\ d[s] # None => d[NodeOf(s).hi] # None /\ d[NodeOf(s).lo] # None
  <2> SUFFICES ASSUME NEW s \in References, s >= 2, d[s] # None
               PROVE  d[NodeOf(s).hi] # None /\ d[NodeOf(s).lo] # None
    OBVIOUS
  <2>1. c[NodeOf(s).hi] # None /\ c[NodeOf(s).lo] # None
    <3>1. CASE s = r
      BY <1>5, <1>7, <1>8, <3>1
    <3>2. CASE s # r
      BY <1>2, <1>8, <1>10, <3>2 DEF CountsInv
    <3> QED
      BY <3>1, <3>2
  <2> QED
    BY <1>11, <2>1
<1>17. PICK b : b = bits + BitLength(value)
  OBVIOUS
<1>18. CountsInv(d, b)
  BY <1>3, <1>10, <1>13, <1>14, <1>15, <1>16, <1>17 DEF CountsInv
<1>19. PICK w : w = Tail(work)
  OBVIOUS
<1>20. WorkInv(d, w)
  <2>1. d[work[1].reference] # None /\ WorkInv(c, work)
    BY <1>2, <1>5, <1>6, <1>7, <1>8, <1>10 DEF None
  <2> QED
    BY <1>1, <1>11, <1>19, <2>1, WorkTail
<1>21. CountsInv(counts, bits)' /\ WorkInv(counts, work)'
  BY <1>1, <1>3, <1>9, <1>17, <1>18, <1>19, <1>20, NextCounts, NextWork
<1> QED
  BY <1>1, <1>2, <1>21 DEF CountingInv

\* The bit limit fails only when a complete index needs more bits.
LEMMA CountingOverBitLimit ==
  ASSUME SnapshotInv, CountingInv, OverBitLimit
  PROVE  CountingInv'
<1>1. /\ phase = "count" /\ Pending /\ work # << >>
      /\ phase' = "failed" /\ error' = "count_bits"
      /\ UNCHANGED snapshot
  BY DEF OverBitLimit, Pending, Counting, Fail
<1>2. purpose = "index" /\ CountsInv(counts, bits) /\ WorkInv(counts, work)
  BY <1>1 DEF CountingInv
<1>3. PICK value \in CountToStore : bits + BitLength(value) > limits.bits
  BY DEF OverBitLimit
<1>4. Complete
  BY <1>1 DEF Complete
<1>5. /\ Ref \in References /\ counts[Ref] = None
      /\ value = Cardinality(FamilyOf(Ref)) /\ value \in Nat
      /\ source = Zero => Ref # 1
  BY <1>1, <1>2, <1>4, StoredCount
<1>6. Cardinality(NodesOf[source]) <= limits.nodes
  BY <1>2, <1>4, CompleteFacts, RootsAreNodes DEF SnapshotInv, RootsInv
<1>7. BitsNeeded > limits.bits
  <2>1. PICK r \in References : r = Ref
    BY <1>5
  <2>2. PICK c, d : c = counts /\ d = [c EXCEPT ![r] = value]
    OBVIOUS
  <2>3. c \in [References -> Int] /\ c[r] = None
    BY <1>2, <1>5, <2>1, <2>2 DEF CountsInv
  <2>4. /\ CountedFamilies(d) = CountedFamilies(c) \union {FamilyOf(r)}
        /\ FamilyOf(r) \notin CountedFamilies(c) /\ FamilyOf(r) \in Family
        /\ CountedFamilies(c) \subseteq Family
    BY <1>5, <2>2, <2>3, OneMoreCounted
  <2>5. bits + BitLength(value) = Cardinality(BitPlaces(CountedFamilies(d)))
    <3>1. bits = Cardinality(BitPlaces(CountedFamilies(c)))
      BY <1>2, <2>2 DEF CountsInv
    <3>2. value = Cardinality(FamilyOf(r))
      BY <1>5, <2>1
    <3> QED
      BY <2>4, <3>1, <3>2, MoreBits
  <2>6. PICK R \in SUBSET References : R = {s \in References : d[s] # None}
    OBVIOUS
  <2>7. CountedFamilies(d) = {FamilyOf(s) : s \in R}
    BY <2>6 DEF CountedFamilies
  <2>8. source = Zero => 1 \notin R
    <3>1. source = Zero => 1 # r /\ c[1] = None
      BY <1>2, <1>5, <2>1, <2>2 DEF CountsInv
    <3> QED
      BY <2>2, <2>3, <2>6, <3>1
  <2>9. CountedFamilies(d) \ {Zero} \subseteq NeededFamilies /\ NeededFamilies \subseteq Family
    BY <2>7, <2>8, CountedAreNeeded
  <2>10. PICK K \in SUBSET Family : K = NeededFamilies
    BY <2>9
  <2>11. PICK L \in SUBSET K : L = CountedFamilies(d) \ {Zero}
    BY <2>9, <2>10
  <2>12. Cardinality(BitPlaces(L)) <= Cardinality(BitPlaces(K))
    BY <2>10, <2>11, BitsGrow
  <2>13. BitPlaces(L) = BitPlaces(CountedFamilies(d)) /\ BitsNeeded = Cardinality(BitPlaces(K))
    BY <2>10, <2>11, NoBitsOfZero DEF BitsNeeded, NeededFamilies
  <2>14. BitsNeeded \in Nat /\ limits.bits \in Nat /\ Cardinality(BitPlaces(L)) \in Nat
    BY <2>10, <2>11, <2>13, BitsGrow DEF SnapshotInv, StaticInv
  <2> QED
    BY <1>3, <2>5, <2>12, <2>13, <2>14
<1>8. Cardinality(NodesOf[source])' <= limits'.nodes /\ BitsNeeded' > limits'.bits
  <2>1. source' = source /\ limits' = limits
    BY <1>1 DEF snapshot
  <2> QED
    BY <1>6, <1>7, <2>1 DEF BitsNeeded
<1> QED
  BY <1>1, <1>8 DEF CountingInv

\* The other steps keep the counting invariant.
LEMMA CountingOther ==
  ASSUME SnapshotInv, CountingInv,
         Begin \/ CopyNode \/ OverNodeLimit \/ CountDone \/ Samples \/ Iterates \/ UNCHANGED vars
  PROVE  CountingInv'
<1>1. CASE Begin \/ CopyNode
  <2>1. phase \in {"called", "copy"} /\ phase' = "copy" /\ UNCHANGED <<counts, bits, error>>
    BY <1>1 DEF Begin, CopyNode, counting
  <2> QED
    BY <2>1 DEF CountingInv
<1>2. CASE OverNodeLimit
  <2>1. phase' = "failed" /\ error' = "query_nodes"
    BY <1>2 DEF OverNodeLimit, Fail
  <2> QED
    BY <2>1 DEF CountingInv
<1>3. CASE CountDone
  <2>1. /\ phase = "count" /\ work = << >> /\ phase' = "indexed"
        /\ UNCHANGED snapshot /\ UNCHANGED counting /\ error' = error
    BY <1>3 DEF CountDone
  <2>2. purpose = "index" /\ error = "none" /\ CountsInv(counts, bits) /\ WorkInv(counts, work)
    BY <2>1 DEF CountingInv
  <2>3. counts[RootReference] # None
    <3>1. Due(counts, work, RootReference, Len(work) + 1) /\ Len(work) = 0
      BY <2>1, <2>2 DEF WorkInv
    <3>2. ~(\E j \in 1 .. (Len(work) + 1) - 1 : work[j].reference = RootReference)
      BY <3>1
    <3> QED
      BY <3>1, <3>2 DEF Due
  <2>4. PICK c, b : c = counts /\ b = bits
    OBVIOUS
  <2>5. CountsInv(counts, bits)'
    BY <2>1, <2>2, <2>4, NextCounts DEF counting
  <2>6. counts'[RootReference'] # None /\ purpose' = purpose
    BY <2>1, <2>3 DEF counting, snapshot, RootReference, Reference, Index
  <2> QED
    BY <2>1, <2>2, <2>5, <2>6 DEF CountingInv
<1>4. CASE Samples
  <2>1. /\ phase \in {"indexed", "walk"} /\ phase' \in {"walk", "sampled"}
        /\ UNCHANGED snapshot /\ UNCHANGED counting /\ error' = error
    BY <1>4 DEF Samples, SampleNothing, Draw, Walk, SampleFound
  <2>2. purpose = "index" /\ error = "none" /\ CountsInv(counts, bits) /\ counts[RootReference] # None
    BY <2>1 DEF CountingInv
  <2>4. PICK c, b : c = counts /\ b = bits
    OBVIOUS
  <2>5. CountsInv(counts, bits)'
    BY <2>1, <2>2, <2>4, NextCounts DEF counting
  <2>6. counts'[RootReference'] # None /\ purpose' = purpose
    BY <2>1, <2>2 DEF counting, snapshot, RootReference, Reference, Index
  <2> QED
    BY <2>1, <2>2, <2>5, <2>6 DEF CountingInv
<1>5. CASE Iterates
  <2>1. phase = "iterate" /\ phase' = "iterate" /\ UNCHANGED <<counts, bits, error>>
    BY <1>5 DEF Iterates, SkipZero, Yield, Branch, Include, Remove, Stepping, counting
  <2> QED
    BY <2>1 DEF CountingInv
<1>6. CASE UNCHANGED vars
  <2>1. /\ UNCHANGED <<snapshot, phase, error, work>> /\ UNCHANGED <<counts, bits>>
    BY <1>6 DEF vars, counting
  <2>2. PICK c, b, w : c = counts /\ b = bits /\ w = work
    OBVIOUS
  <2>3. CountsInv(counts, bits) => CountsInv(counts, bits)'
    BY <2>1, <2>2, NextCounts
  <2>4. WorkInv(counts, work) => WorkInv(counts, work)'
    BY <2>1, <2>2, NextWork
  <2>5. UNCHANGED <<purpose, limits, source>> /\ RootReference' = RootReference
    BY <2>1 DEF snapshot, RootReference, Reference, Index
  <2>6. BitsNeeded' = BitsNeeded
    BY <2>5 DEF BitsNeeded
  <2> QED
    BY <2>1, <2>3, <2>4, <2>5, <2>6 DEF CountingInv
<1> QED
  BY <1>1, <1>2, <1>3, <1>4, <1>5, <1>6

\* Every step keeps the counting invariant.
LEMMA CountingStep ==
  SnapshotInv /\ CountingInv /\ [Next]_vars => CountingInv'
<1> SUFFICES ASSUME SnapshotInv, CountingInv, [Next]_vars PROVE CountingInv'
  OBVIOUS
<1>1. Copied \/ CountKnown \/ CountExpand \/ StoreCount \/ OverBitLimit
      \/ Begin \/ CopyNode \/ OverNodeLimit \/ CountDone \/ Samples \/ Iterates \/ UNCHANGED vars
  BY DEF Next, Samples, Iterates
<1> QED
  BY <1>1, CountingCopied, CountingKnown, CountingExpand, CountingStore, CountingOverBitLimit, CountingOther

----------------------------------------------------------------------------
(* What the invariant says.                                                *)

\* The invariants imply the exactness of the counts.
LEMMA CountsAreExact ==
  SnapshotInv /\ CountingInv => CountsExact
<1> SUFFICES ASSUME SnapshotInv, CountingInv PROVE CountsExact
  OBVIOUS
<1>1. ASSUME phase \notin {"called", "copy", "failed"}, NEW r \in DOMAIN counts, counts[r] # None
      PROVE  phase # "iterate" => counts[r] = Cardinality(Members[r])
  <2> SUFFICES ASSUME phase # "iterate" PROVE counts[r] = Cardinality(Members[r])
    OBVIOUS
  <2>1. Complete /\ phase \in {"count", "indexed", "walk", "sampled"}
    BY <1>1 DEF Complete, SnapshotInv, StaticInv
  <2>2. CountsInv(counts, bits)
    BY <2>1 DEF CountingInv
  <2>3. r \in References /\ counts[r] = Cardinality(FamilyOf(r))
    BY <1>1, <2>2 DEF CountsInv
  <2> QED
    BY <2>1, <2>3, MembersAreFamilies
<1>2. phase = "iterate" => DOMAIN counts = {}
  <2>1. DOMAIN << >> = {}
    OBVIOUS
  <2> QED
    BY <2>1 DEF CountingInv
<1>3. ASSUME Pending, Head(work).kind = "finish"
      PROVE  None \notin ChildCounts
  <2>1. phase = "count" /\ work # << >>
    BY <1>3 DEF Pending, Counting
  <2>2. WorkInv(counts, work)
    BY <2>1 DEF CountingInv
  <2>3. Head(work) = work[1] /\ 1 \in 1 .. Len(work)
    BY <2>1, <2>2, HeadFacts
  <2>4. Due(counts, work, NodeOf(Ref).hi, 1) /\ Due(counts, work, NodeOf(Ref).lo, 1)
    BY <1>3, <2>2, <2>3 DEF WorkInv, Ref
  <2> QED
    BY <2>4 DEF Due, ChildCounts
<1>4. ASSUME phase \in {"indexed", "walk", "sampled"},
             NEW r \in {RootReference} \union UNION {{nodes[i].hi, nodes[i].lo} : i \in DOMAIN nodes}
      PROVE  counts[r] # None
  <2>1. CountsInv(counts, bits) /\ counts[RootReference] # None /\ Complete
    BY <1>4 DEF CountingInv, Complete
  <2>2. \A s \in References : s >= 2 => counts[s] # None
    BY <2>1, IndexIsComplete
  <2>3. Len(nodes) \in Nat /\ DOMAIN nodes = 1 .. Len(nodes) /\ References = 0 .. Len(nodes) + 1
    BY <2>1, CompleteFacts, LenProperties DEF SnapshotInv, NodesInv
  <2>4. ASSUME NEW i \in DOMAIN nodes
        PROVE  counts[nodes[i].hi] # None /\ counts[nodes[i].lo] # None
    <3>1. i + 1 \in References /\ i + 1 >= 2 /\ (i + 1) - 1 = i
      BY <2>3
    <3>2. counts[NodeOf(i + 1).hi] # None /\ counts[NodeOf(i + 1).lo] # None
      BY <2>1, <2>2, <3>1 DEF CountsInv
    <3> QED
      BY <3>1, <3>2 DEF NodeOf
  <2> QED
    BY <2>1, <2>4
<1> QED
  BY <1>1, <1>2, <1>3, <1>4 DEF CountsExact

\* The invariants imply the exactness of the limits.
LEMMA LimitsAreExact ==
  SnapshotInv /\ CountingInv => LimitsExact
<1> SUFFICES ASSUME SnapshotInv, CountingInv PROVE LimitsExact
  OBVIOUS
<1>1. /\ limits.nodes \in Nat /\ limits.bits \in Nat
      /\ Cardinality(NodesOf[source]) \in Nat
  BY NodesFinite DEF SnapshotInv, StaticInv
<1>2. error = "query_nodes" => purpose = "index" /\ Cardinality(NodesOf[source]) > limits.nodes
  BY DEF SnapshotInv, NodeLimitInv
<1>3. error = "count_bits" => ~(Cardinality(NodesOf[source]) > limits.nodes) /\ BitsNeeded > limits.bits
  BY <1>1 DEF CountingInv
<1>4. ASSUME phase \in {"indexed", "walk", "sampled"}
      PROVE  ~(Cardinality(NodesOf[source]) > limits.nodes) /\ BitsNeeded <= limits.bits
  <2>1. CountsInv(counts, bits) /\ counts[RootReference] # None /\ Complete /\ purpose = "index"
    BY <1>4 DEF CountingInv, Complete
  <2>2. BitsNeeded = bits /\ bits <= limits.bits
    BY <2>1, IndexIsComplete DEF CountsInv
  <2>3. Cardinality(NodesOf[source]) <= limits.nodes
    BY <2>1, CompleteFacts, RootsAreNodes DEF SnapshotInv, RootsInv
  <2> QED
    BY <1>1, <2>2, <2>3
<1> QED
  BY <1>2, <1>3, <1>4 DEF LimitsExact

----------------------------------------------------------------------------
(* The ranks are drawn uniformly.                                          *)

\* The numbers under t that leave the remainder r.
Residues(t, m, r) == {x \in 0 .. t - 1 : x % m = r}

\* Every remainder is met equally often.
LEMMA Remainders ==
  ASSUME NEW m \in Nat \ {0}, NEW k \in Nat \ {0}, NEW t, t = m * k, NEW r \in 0 .. m - 1
  PROVE  Cardinality(Residues(t, m, r)) = k
<1> DEFINE X == {x \in 0 .. t - 1 : x % m = r}
           f == [j \in 0 .. k - 1 |-> m * j + r]
<1>1. t \in Nat
  OBVIOUS
<1>2. ASSUME NEW j \in 0 .. k - 1
      PROVE  m * j + r \in X /\ m * j \in Nat
  <2>1. PICK a \in Nat, b \in Nat : a = m * j /\ b = m * (k - 1 - j)
    OBVIOUS
  <2>2. m * k = m * j + m * (k - 1 - j) + m
    OBVIOUS
  <2>3. a + r \in 0 .. t - 1 /\ a + r \in Nat
    BY <2>1, <2>2
  <2>4. PICK x \in Nat : x = a + r
    BY <2>3
  <2>5. x % m \in 0 .. m - 1 /\ x = m * (x \div m) + (x % m) /\ x \div m \in Nat
    BY <2>4, DivisionFacts
  <2>6. PICK d \in Nat, e \in 0 .. m - 1 : d = x \div m /\ e = x % m
    BY <2>5
  <2>7. x % m = r
    <3>1. m * d + e = m * j + r
      BY <2>1, <2>4, <2>5, <2>6
    <3>2. e = r
      BY <3>1, DivisionUnique
    <3> QED
      BY <2>6, <3>2
  <2> QED
    BY <2>1, <2>3, <2>4, <2>7
<1>3. ASSUME NEW x \in X
      PROVE  \E j \in 0 .. k - 1 : x = m * j + r
  <2>1. x \in Nat /\ x <= t - 1
    BY <1>1
  <2>2. x \div m \in Nat /\ x = m * (x \div m) + (x % m) /\ x % m = r
    BY <2>1, DivisionFacts
  <2>3. PICK j \in Nat : j = x \div m
    BY <2>2
  <2>4. x = m * j + r
    BY <2>2, <2>3
  <2>5. j < k
    <3> SUFFICES ASSUME k <= j PROVE FALSE
      BY <2>3
    <3>1. PICK d \in Nat : j = k + d
      <4>1. j - k \in Nat /\ j = k + (j - k)
        BY <2>3
      <4> QED
        BY <4>1
    <3>2. m * j = m * k + m * d /\ m * d \in Nat
      BY <3>1
    <3>3. PICK a \in Nat, b \in Nat : a = m * j /\ b = m * d
      OBVIOUS
    <3>4. a = t + b /\ x = a + r
      BY <2>4, <3>2, <3>3
    <3> QED
      BY <1>1, <2>1, <3>3, <3>4
  <2>6. j \in 0 .. k - 1
    BY <2>5
  <2> QED
    BY <2>4, <2>6
<1>4. ASSUME NEW i \in 0 .. k - 1, NEW j \in 0 .. k - 1, m * i + r = m * j + r
      PROVE  i = j
  BY <1>4, DivisionUnique
<1> HIDE DEF X
<1>5. f \in Bijection(0 .. k - 1, X)
  <2>1. f \in [0 .. k - 1 -> X] /\ \A j \in 0 .. k - 1 : f[j] = m * j + r
    BY <1>2
  <2> HIDE DEF f
  <2>2. f \in Surjection(0 .. k - 1, X)
    BY <1>3, <2>1 DEF Surjection
  <2>3. f \in Injection(0 .. k - 1, X)
    BY <1>4, <2>1 DEF Injection, IsInjective
  <2> QED
    BY <2>2, <2>3 DEF Bijection
<1>6. IsFiniteSet(0 .. k - 1) /\ Cardinality(0 .. k - 1) = k
  BY FS_Interval
<1> HIDE DEF f
<1>7. Cardinality(X) = Cardinality(0 .. k - 1)
  BY <1>5, <1>6, FS_Bijection DEF ExistsBijection
<1> QED
  BY <1>6, <1>7 DEF X, Residues

\* The bytes hold whole ranges of the masked bits.
LEMMA MaskedBytes ==
  ASSUME NEW n \in Nat, n > 1
  PROVE  \E m \in Nat \ {0}, k \in Nat \ {0} :
           /\ n <= m
           /\ Power[ByteBits * ByteCount(n)] = m * k
           /\ \A x \in RawBytes(n) : Masked(x, n) = x % m
<1> DEFINE b == RankBits(n)
           c == ByteCount(n)
           h == HighBits(n)
           q == b \div ByteBits
<1>1. b \in Nat /\ n - 1 < Power[b]
  BY BitLengthBound DEF RankBits
<1>2. ByteBits \in Nat \ {0}
  BY QueryAssumption
<1>3. q \in Nat /\ h \in 0 .. ByteBits - 1 /\ b = ByteBits * q + h
  BY <1>1, <1>2, DivisionFacts DEF HighBits
<1>4. c = (b + ByteBits - 1) \div ByteBits
  BY DEF ByteCount
<1>5. PICK m : m = Power[b]
  OBVIOUS
<1>6. m \in Nat \ {0} /\ n <= m
  BY <1>1, <1>5, PowerGrows
<1> HIDE DEF b, c, q, h
<1>7. PICK s \in Nat : s = b + ByteBits - 1
  BY <1>1, <1>2
<1>8. s \div ByteBits \in Nat /\ s = ByteBits * (s \div ByteBits) + (s % ByteBits) /\ s % ByteBits \in 0 .. ByteBits - 1
  BY <1>2, <1>7, DivisionFacts
<1>9. c \in Nat /\ s = ByteBits * c + (s % ByteBits)
  BY <1>4, <1>7, <1>8
<1>10. CASE h = 0
  <2>1. ByteBits - 1 \in 0 .. ByteBits - 1 /\ ByteBits * c + (s % ByteBits) = ByteBits * q + (ByteBits - 1)
    BY <1>2, <1>3, <1>7, <1>9, <1>10
  <2>2. c = q
    BY <1>2, <1>3, <1>8, <1>9, <2>1, DivisionUnique
  <2>3. ByteBits * c = b
    BY <1>2, <1>3, <1>10, <2>2
  <2>4. Power[ByteBits * ByteCount(n)] = m * 1
    BY <1>5, <1>6, <2>3 DEF c
  <2>5. RawBytes(n) = 0 .. m - 1
    BY <1>5, <2>3 DEF RawBytes, c
  <2>6. ASSUME NEW x \in 0 .. m - 1 PROVE x % m = x
    <3>1. x \in Nat
      BY <1>6
    <3>2. x = m * (x \div m) + (x % m) /\ x \div m \in Nat /\ x % m \in 0 .. m - 1
      BY <1>6, <3>1, DivisionFacts
    <3>3. m * (x \div m) + (x % m) = m * 0 + x
      BY <1>6, <3>1, <3>2
    <3> QED
      BY <1>6, <3>2, <3>3, DivisionUnique
  <2>7. \A x \in RawBytes(n) : Masked(x, n) = x % m
    BY <1>10, <2>5, <2>6 DEF Masked, h
  <2> QED
    BY <1>6, <2>4, <2>7
<1>11. CASE h # 0
  <2>1. h - 1 \in 0 .. ByteBits - 1 /\ q + 1 \in Nat
    BY <1>2, <1>3, <1>11
  <2>2. ByteBits * c + (s % ByteBits) = ByteBits * (q + 1) + (h - 1)
    <3>1. ByteBits * (q + 1) = ByteBits * q + ByteBits
      BY <1>2, <1>3
    <3>2. PICK u \in Int, w \in Int : u = ByteBits * q /\ w = ByteBits * (q + 1)
      BY <1>2, <1>3
    <3>3. b = u + h /\ w = u + ByteBits /\ s = b + ByteBits - 1
      BY <1>3, <1>7, <3>1, <3>2
    <3>4. s = w + (h - 1)
      BY <1>2, <1>3, <3>2, <3>3
    <3> QED
      BY <1>9, <3>2, <3>4
  <2>3. c = q + 1
    <3>1. PICK g \in 0 .. ByteBits - 1, l \in 0 .. ByteBits - 1, p \in Nat : g = s % ByteBits /\ l = h - 1 /\ p = q + 1
      BY <1>8, <2>1
    <3>2. ByteBits * c + g = ByteBits * p + l
      BY <2>2, <3>1
    <3>3. c = p
      BY <1>2, <1>9, <3>2, DivisionUnique
    <3> QED
      BY <3>1, <3>3
  <2>4. ByteBits * (c - 1) + h = b
    BY <1>3, <2>3
  <2>5. PICK d \in Nat : b + d = ByteBits * c
    <3>1. ByteBits * (q + 1) = ByteBits * q + ByteBits
      BY <1>2, <1>3
    <3>2. PICK u \in Int, w \in Int : u = ByteBits * q /\ w = ByteBits * (q + 1)
      BY <1>2, <1>3
    <3>3. b = u + h /\ w = u + ByteBits
      BY <1>3, <3>1, <3>2
    <3>4. ByteBits - h \in Nat /\ b + (ByteBits - h) = w
      BY <1>2, <1>3, <3>2, <3>3
    <3> QED
      BY <2>3, <3>2, <3>4
  <2>6. Power[ByteBits * ByteCount(n)] = m * Power[d]
    BY <1>1, <1>5, <2>5, PowerOfSum DEF c
  <2>7. \A x \in RawBytes(n) : Masked(x, n) = x % m
    BY <1>5, <1>11, <2>4 DEF Masked, h, c
  <2>8. Power[d] \in Nat \ {0}
    BY PowerGrows
  <2> QED
    BY <1>6, <2>6, <2>7, <2>8
<1> QED
  BY <1>10, <1>11

\* uniform_rank prefers no rank.
LEMMA UniformRanks ==
  ASSUME NEW n \in Nat, n > 1, NEW r \in 0 .. n - 1
  PROVE  LET strings(i) == Cardinality({x \in RawBytes(n) : Masked(x, n) = i})
         IN strings(r) > 0 /\ strings(r) = strings(0)
<1>1. PICK m \in Nat \ {0}, k \in Nat \ {0} :
        /\ n <= m
        /\ Power[ByteBits * ByteCount(n)] = m * k
        /\ \A x \in RawBytes(n) : Masked(x, n) = x % m
  BY MaskedBytes
<1>2. PICK t : t = m * k
  OBVIOUS
<1>3. RawBytes(n) = 0 .. t - 1
  BY <1>1, <1>2 DEF RawBytes
<1>4. \A i : {x \in RawBytes(n) : Masked(x, n) = i} = Residues(t, m, i)
  BY <1>1, <1>3 DEF Residues
<1>5. r \in 0 .. m - 1 /\ 0 \in 0 .. m - 1
  BY <1>1
<1>6. \A i \in 0 .. m - 1 : Cardinality(Residues(t, m, i)) = k
  BY <1>2, Remainders
<1>7. \A i \in 0 .. m - 1 : Cardinality({x \in RawBytes(n) : Masked(x, n) = i}) = k
  BY <1>4, <1>6
<1>8. Cardinality({x \in RawBytes(n) : Masked(x, n) = r}) = k
  BY <1>5, <1>7
<1>9. Cardinality({x \in RawBytes(n) : Masked(x, n) = 0}) = k
  BY <1>5, <1>7
<1> QED
  BY <1>8, <1>9

----------------------------------------------------------------------------
(* The inductive invariant of sampling: the sets that precede the one      *)
(* walked to are those left behind and those that precede it in what is    *)
(* left of the family.                                                     *)

Joint(P, F) == {P \union S : S \in F}

Before(S, F) == {T \in F : Precedes(T, S)}

Under(P, F) == \A u \in P : \A w \in Support(F) : u < w

\* A walk at F with the elements P, d sets behind it.
IsWalk(P, F, d, whole) ==
  /\ Under(P, F)
  /\ Joint(P, F) \subseteq whole
  /\ \A S \in F : Cardinality(Before(P \union S, whole)) = d + Cardinality(Before(S, F))

SamplingInv ==
  /\ phase \notin {"walk", "sampled"} => drawn = None
  /\ phase = "walk" => source # Zero
  /\ phase = "sampled" /\ source = Zero => drawn = None
  /\ phase = "walk" \/ (phase = "sampled" /\ source # Zero) =>
       /\ at \in References /\ current \in Seq(Var)
       /\ rank \in 0 .. Cardinality(FamilyOf(at)) - 1
       /\ drawn \in Nat
       /\ IsWalk(Elements(current), FamilyOf(at), drawn - rank, source)
  /\ phase = "sampled" /\ source # Zero => at < 2

----------------------------------------------------------------------------
(* Before a set of a node.                                                 *)

\* Before a set of the LO branch are only sets of that branch.
LEMMA BeforeLo ==
  ASSUME NEW v \in Var, NEW H \in Family, NEW L \in Family, NEW S \in L,
         \A w \in Support(H) \union Support(L) : v < w
  PROVE  Before(S, Node(v, H, L)) = Before(S, L)
<1>1. \A T \in H : ~Precedes(T \union {v}, S)
  <2> SUFFICES ASSUME NEW T \in H PROVE ~Precedes(T \union {v}, S)
    OBVIOUS
  <2>1. v \in Int /\ S \in SUBSET Int /\ T \in SUBSET Int
    BY NAssumption DEF Var, Family
  <2>2. \A w \in S \union T : v < w
    BY DEF Support
  <2>3. {v} \union T = T \union {v}
    OBVIOUS
  <2> QED
    BY <2>1, <2>2, <2>3, LoPrecedesHi
<1> QED
  BY <1>1 DEF Before, Node

\* Before a set of the HI branch are the LO branch and the sets before it in its own.
LEMMA BeforeHi ==
  ASSUME NEW v \in Var, NEW H \in Family, NEW L \in Family, NEW S \in H,
         \A w \in Support(H) \union Support(L) : v < w
  PROVE  Cardinality(Before(S \union {v}, Node(v, H, L))) = Cardinality(L) + Cardinality(Before(S, H))
<1>1. v \in Int /\ \A T \in H \union L : T \in SUBSET Int /\ v \notin T
  BY NAssumption DEF Var, Family, Support
<1>2. \A T \in L : Precedes(T, S \union {v})
  <2> SUFFICES ASSUME NEW T \in L PROVE Precedes(T, S \union {v})
    OBVIOUS
  <2>1. \A w \in T \union S : v < w
    BY DEF Support
  <2>2. {v} \union S = S \union {v}
    OBVIOUS
  <2> QED
    BY <1>1, <2>1, <2>2, LoPrecedesHi
<1>3. \A T \in H : Precedes(T \union {v}, S \union {v}) <=> Precedes(T, S)
  <2> SUFFICES ASSUME NEW T \in H PROVE Precedes(T \union {v}, S \union {v}) <=> Precedes(T, S)
    OBVIOUS
  <2>1. PICK P : P = {v}
    OBVIOUS
  <2>2. P \intersect (T \union S) = {} /\ P \union T = T \union {v} /\ P \union S = S \union {v}
    BY <1>1, <2>1
  <2> QED
    BY <2>2, PrecedesJoint
<1>4. Before(S \union {v}, Node(v, H, L)) = Node(v, Before(S, H), L)
  BY <1>2, <1>3 DEF Before, Node
<1>5. Before(S, H) \in SUBSET H /\ IsFiniteSet(H) /\ IsFiniteSet(L) /\ Cardinality(L) \in Nat
  BY FamiliesFinite DEF Before
<1>6. IsFiniteSet(Before(S, H)) /\ Cardinality(Before(S, H)) \in Nat
  BY <1>5, FS_Subset, FS_CardinalityType
<1>7. v \notin Support(Before(S, H)) \union Support(L)
  BY <1>1, <1>5 DEF Support
<1>8. Cardinality(Node(v, Before(S, H), L)) = Cardinality(Before(S, H)) + Cardinality(L)
  BY <1>5, <1>6, <1>7, NodeCardinality
<1> QED
  BY <1>4, <1>5, <1>6, <1>8

\* The walk into the LO child.
LEMMA WalkLo ==
  ASSUME NEW P, NEW whole, NEW d \in Int,
         NEW v \in Var, NEW H \in Family, NEW L \in Family,
         \A w \in Support(H) \union Support(L) : v < w,
         IsWalk(P, Node(v, H, L), d, whole)
  PROVE  IsWalk(P, L, d, whole)
<1>1. L \subseteq Node(v, H, L)
  BY DEF Node
<1>2. Under(P, L) /\ Joint(P, L) \subseteq whole
  BY <1>1 DEF IsWalk, Under, Joint, Support
<1>3. \A S \in L : Before(S, Node(v, H, L)) = Before(S, L)
  BY BeforeLo
<1>4. \A S \in L : Cardinality(Before(P \union S, whole)) = d + Cardinality(Before(S, L))
  BY <1>1, <1>3 DEF IsWalk
<1> QED
  BY <1>2, <1>4 DEF IsWalk

\* The walk into the HI child.
LEMMA WalkHi ==
  ASSUME NEW P, NEW whole, NEW d \in Int,
         NEW v \in Var, NEW H \in Family, NEW L \in Family,
         \A w \in Support(H) \union Support(L) : v < w,
         IsWalk(P, Node(v, H, L), d, whole)
  PROVE  IsWalk(P \union {v}, H, d + Cardinality(L), whole)
<1>1. \A S \in H : S \union {v} \in Node(v, H, L) /\ (P \union {v}) \union S = P \union (S \union {v})
  BY DEF Node
<1>2. \A w \in Support(H) : w \in Support(Node(v, H, L))
  <2> SUFFICES ASSUME NEW S \in H, NEW w \in S PROVE w \in Support(Node(v, H, L))
    BY DEF Support
  <2>1. S \union {v} \in Node(v, H, L) /\ w \in S \union {v}
    BY <1>1
  <2> QED
    BY <2>1 DEF Support
<1>3. Under(P \union {v}, H)
  <2>1. \A u \in P : \A w \in Support(H) : u < w
    BY <1>2 DEF IsWalk, Under
  <2> QED
    BY <2>1 DEF Under
<1>4. Joint(P \union {v}, H) \subseteq whole
  <2> SUFFICES ASSUME NEW S \in H PROVE (P \union {v}) \union S \in whole
    BY DEF Joint
  <2>1. P \union (S \union {v}) \in Joint(P, Node(v, H, L))
    BY <1>1 DEF Joint
  <2>2. P \union (S \union {v}) \in whole
    BY <2>1 DEF IsWalk
  <2> QED
    BY <1>1, <2>2
<1>5. ASSUME NEW S \in H
      PROVE  Cardinality(Before((P \union {v}) \union S, whole)) = (d + Cardinality(L)) + Cardinality(Before(S, H))
  <2>1. Cardinality(Before(P \union (S \union {v}), whole))
          = d + Cardinality(Before(S \union {v}, Node(v, H, L)))
    BY <1>1 DEF IsWalk
  <2>2. Cardinality(Before(S \union {v}, Node(v, H, L))) = Cardinality(L) + Cardinality(Before(S, H))
    BY BeforeHi
  <2>3. Cardinality(L) \in Nat /\ Cardinality(Before(S, H)) \in Nat
    <3>1. Before(S, H) \in SUBSET H /\ IsFiniteSet(H) /\ Cardinality(L) \in Nat
      BY FamiliesFinite DEF Before
    <3> QED
      BY <3>1, FS_Subset, FS_CardinalityType
  <2>4. PICK a, b : a = Cardinality(L) /\ b = Cardinality(Before(S, H))
    OBVIOUS
  <2>5. (P \union {v}) \union S = P \union (S \union {v})
    BY <1>1
  <2>6. Cardinality(Before((P \union {v}) \union S, whole)) = d + (a + b)
    BY <2>1, <2>2, <2>4, <2>5
  <2>7. d + (a + b) = (d + a) + b
    BY <2>3, <2>4
  <2> QED
    BY <2>4, <2>6, <2>7
<1> QED
  BY <1>3, <1>4, <1>5 DEF IsWalk

\* The elements of an extended buffer.
LEMMA ElementsOfAppend ==
  ASSUME NEW S, NEW q \in Seq(S), NEW v \in S
  PROVE  /\ Append(q, v) \in Seq(S)
         /\ Elements(Append(q, v)) = Elements(q) \union {v}
         /\ Elements(q) \subseteq S
<1>1. PICK p : p = Append(q, v)
  OBVIOUS
<1>2. /\ p \in Seq(S) /\ Len(p) = Len(q) + 1
      /\ \A i \in 1 .. Len(q) : p[i] = q[i]
      /\ p[Len(q) + 1] = v
  BY <1>1, AppendProperties
<1>3. Len(q) \in Nat /\ DOMAIN q = 1 .. Len(q) /\ DOMAIN p = 1 .. Len(q) + 1
  BY <1>2, LenProperties
<1>4. \A i \in 1 .. Len(q) + 1 : i \in 1 .. Len(q) \/ i = Len(q) + 1
  BY <1>3
<1>5. Elements(p) \subseteq Elements(q) \union {v}
  BY <1>2, <1>3, <1>4 DEF Elements
<1>6. 1 .. Len(q) \subseteq 1 .. Len(q) + 1 /\ Len(q) + 1 \in 1 .. Len(q) + 1
  BY <1>3
<1>7. Elements(q) \union {v} \subseteq Elements(p)
  BY <1>2, <1>3, <1>6 DEF Elements
<1>8. Elements(q) \subseteq S
  BY <1>3, ElementOfSeq DEF Elements
<1> QED
  BY <1>1, <1>2, <1>5, <1>7, <1>8

----------------------------------------------------------------------------
(* The steps of sampling.                                                  *)

\* The finished index has the count of the source.
LEMMA CountFacts ==
  ASSUME SnapshotInv, CountingInv, phase = "indexed"
  PROVE  /\ Count = Cardinality(source) /\ Count \in Nat
         /\ Count = 0 <=> source = Zero
         /\ RootReference \in References /\ FamilyOf(RootReference) = source
<1>1. CountsInv(counts, bits) /\ counts[RootReference] # None /\ Complete
  BY DEF CountingInv, Complete
<1>2. RootReference \in References /\ FamilyOf(RootReference) = source
  BY <1>1, CompleteFacts, RootFacts
<1>3. Count = Cardinality(source)
  BY <1>1, <1>2 DEF CountsInv, Count
<1>4. source \in Family /\ IsFiniteSet(source) /\ Cardinality(source) \in Nat
  BY FamiliesFinite DEF SnapshotInv, StaticInv
<1>5. Cardinality(source) = 0 <=> source = {}
  BY <1>4, FS_EmptySet
<1> QED
  BY <1>2, <1>3, <1>4, <1>5 DEF Zero

\* What the sampling invariant says of the next state, when the snapshot stays.
LEMMA NextWalk ==
  ASSUME UNCHANGED snapshot, NEW a, NEW c, NEW k, NEW d, at' = a, current' = c, rank' = k, drawn' = d,
         a \in References /\ c \in Seq(Var),
         k \in 0 .. Cardinality(FamilyOf(a)) - 1,
         d \in Nat,
         IsWalk(Elements(c), FamilyOf(a), d - k, source)
  PROVE  /\ at' \in References' /\ current' \in Seq(Var)
         /\ rank' \in 0 .. Cardinality(FamilyOf(at))' - 1
         /\ drawn' \in Nat
         /\ IsWalk(Elements(current), FamilyOf(at), drawn - rank, source)'
<1>1. source' = source /\ roots' = roots
  BY DEF snapshot
<1>2. FamilyOf(at)' = FamilyOf(a) /\ References' = References
  BY <1>1 DEF FamilyOf, FamilyAt, References
<1>3. Elements(current)' = Elements(c)
  BY DEF Elements
<1> QED
  BY <1>1, <1>2, <1>3 DEF IsWalk, Under, Joint, Before, Support, Precedes, Differences

\* The walk starts at the root with the drawn rank.
LEMMA SamplingDraw ==
  ASSUME SnapshotInv, CountingInv, SamplingInv, Draw
  PROVE  SamplingInv'
<1>1. /\ phase = "indexed" /\ phase' = "walk" /\ at' = RootReference /\ current' = << >>
      /\ UNCHANGED snapshot
  BY DEF Draw
<1>2. PICK r \in Draws : drawn' = r /\ rank' = r
  BY DEF Draw
<1>3. /\ Count = Cardinality(source) /\ Count \in Nat
      /\ Count = 0 <=> source = Zero
      /\ RootReference \in References /\ FamilyOf(RootReference) = source
  BY <1>1, CountFacts
<1>4. Count # 0 /\ r \in 0 .. Count - 1 /\ r \in Nat
  BY <1>2, <1>3 DEF Draws
<1>5. PICK a, c : a = RootReference /\ c = << >>
  OBVIOUS
<1>6. c \in Seq(Var) /\ Elements(c) = {}
  <2>1. DOMAIN << >> = {}
    OBVIOUS
  <2> QED
    BY <1>5, <2>1 DEF Elements
<1>7. IsWalk({}, source, r - r, source)
  <2>1. Under({}, source) /\ Joint({}, source) \subseteq source
    BY DEF Under, Joint
  <2>2. ASSUME NEW S \in source
        PROVE  Cardinality(Before({} \union S, source)) = (r - r) + Cardinality(Before(S, source))
    <3>1. Before(S, source) \in SUBSET source /\ IsFiniteSet(source)
      BY FamiliesFinite DEF Before, SnapshotInv, StaticInv
    <3>2. Cardinality(Before(S, source)) \in Nat
      BY <3>1, FS_Subset, FS_CardinalityType
    <3>3. {} \union S = S
      OBVIOUS
    <3>4. PICK n \in Nat : n = Cardinality(Before(S, source))
      BY <3>2
    <3>5. n = (r - r) + n
      BY <1>4
    <3> QED
      BY <3>3, <3>4, <3>5
  <2> QED
    BY <2>1, <2>2 DEF IsWalk
<1>8. /\ at' \in References' /\ current' \in Seq(Var)
      /\ rank' \in 0 .. Cardinality(FamilyOf(at))' - 1
      /\ drawn' \in Nat
      /\ IsWalk(Elements(current), FamilyOf(at), drawn - rank, source)'
  BY <1>1, <1>2, <1>3, <1>4, <1>5, <1>6, <1>7, NextWalk
<1>9. source' # Zero
  BY <1>1, <1>3, <1>4 DEF snapshot
<1> QED
  BY <1>1, <1>8, <1>9 DEF SamplingInv

\* The walk follows the rank.
LEMMA SamplingWalk ==
  ASSUME SnapshotInv, CountingInv, SamplingInv, Walk
  PROVE  SamplingInv'
<1> DEFINE v == NodeOf(at).variable
           h == NodeOf(at).hi
           l == NodeOf(at).lo
<1>1. phase = "walk" /\ at >= 2 /\ phase' = "walk" /\ UNCHANGED snapshot /\ drawn' = drawn /\ source' = source
  BY DEF Walk, snapshot
<1>2. /\ source # Zero
      /\ at \in References /\ current \in Seq(Var)
      /\ rank \in 0 .. Cardinality(FamilyOf(at)) - 1
      /\ drawn \in Nat
      /\ IsWalk(Elements(current), FamilyOf(at), drawn - rank, source)
  BY <1>1 DEF SamplingInv
<1>3. CountsInv(counts, bits) /\ counts[RootReference] # None /\ Complete
  BY <1>1 DEF CountingInv, Complete
<1>4. /\ v \in Var /\ h \in References /\ l \in References
      /\ FamilyOf(at) = Node(v, FamilyOf(h), FamilyOf(l))
      /\ \A w \in Support(FamilyOf(h)) \union Support(FamilyOf(l)) : v < w
  BY <1>1, <1>2, <1>3, CompleteFacts, NodeFacts
<1>5. FamilyOf(at) \in Family /\ FamilyOf(h) \in Family /\ FamilyOf(l) \in Family
  BY <1>2, <1>4, FamilyFacts
<1>6. counts[l] = Cardinality(FamilyOf(l))
  <2>1. counts[at] # None
    BY <1>1, <1>2, <1>3, IndexIsComplete
  <2>2. counts[l] # None
    BY <1>1, <1>2, <1>3, <2>1 DEF CountsInv
  <2> QED
    BY <1>3, <1>4, <2>2 DEF CountsInv
<1>7. /\ Cardinality(FamilyOf(l)) \in Nat /\ Cardinality(FamilyOf(h)) \in Nat
      /\ Cardinality(FamilyOf(at)) = Cardinality(FamilyOf(h)) + Cardinality(FamilyOf(l))
  <2>1. IsFiniteSet(FamilyOf(h)) /\ IsFiniteSet(FamilyOf(l))
        /\ Cardinality(FamilyOf(l)) \in Nat /\ Cardinality(FamilyOf(h)) \in Nat
    BY <1>5, FamiliesFinite
  <2>2. v \notin Support(FamilyOf(h)) \union Support(FamilyOf(l))
    <3>1. v \in Int
      BY <1>4, NAssumption DEF Var
    <3> QED
      BY <1>4, <3>1
  <2> HIDE DEF v, h, l
  <2> QED
    BY <1>4, <2>1, <2>2, NodeCardinality
<1>8. rank \in Nat /\ rank < Cardinality(FamilyOf(at)) /\ drawn - rank \in Int
  BY <1>2, <1>5, <1>7
<1>9. PICK d \in Int : d = drawn - rank
  BY <1>8
<1>10. PICK P : P = Elements(current)
  OBVIOUS
<1>11. PICK H \in Family, L \in Family : H = FamilyOf(h) /\ L = FamilyOf(l)
  BY <1>5
<1>12. PICK m \in Nat : m = Cardinality(L)
  BY <1>7, <1>11
<1>13. PICK u \in Var : u = v
  BY <1>4
<1>14. IsWalk(P, Node(u, H, L), d, source) /\ \A w \in Support(H) \union Support(L) : u < w
  BY <1>2, <1>4, <1>9, <1>10, <1>11, <1>13
<1>15. PICK i \in References, j \in References : i = h /\ j = l
  BY <1>4
<1>16. counts[NodeOf(at).lo] = m /\ NodeOf(at).lo = j /\ NodeOf(at).hi = i /\ NodeOf(at).variable = u
       /\ H = FamilyOf(i) /\ L = FamilyOf(j) /\ m = Cardinality(FamilyOf(j))
       /\ Cardinality(FamilyOf(at)) = Cardinality(FamilyOf(i)) + m
       /\ Cardinality(FamilyOf(i)) \in Nat
  BY <1>6, <1>7, <1>11, <1>12, <1>13, <1>15
<1> HIDE DEF v, h, l
<1>17. CASE rank < m
  <2>1. at' = j /\ rank' = rank /\ current' = current
    BY <1>16, <1>17 DEF Walk
  <2>2. IsWalk(P, L, d, source)
    BY <1>14, WalkLo
  <2>3. PICK c, k, e : c = current /\ k = rank /\ e = drawn
    OBVIOUS
  <2>4. /\ j \in References /\ c \in Seq(Var)
        /\ k \in 0 .. Cardinality(FamilyOf(j)) - 1
        /\ e \in Nat
        /\ IsWalk(Elements(c), FamilyOf(j), e - k, source)
    BY <1>2, <1>8, <1>9, <1>10, <1>15, <1>16, <1>17, <2>2, <2>3
  <2>5. /\ at' \in References' /\ current' \in Seq(Var)
        /\ rank' \in 0 .. Cardinality(FamilyOf(at))' - 1
        /\ drawn' \in Nat
        /\ IsWalk(Elements(current), FamilyOf(at), drawn - rank, source)'
    BY <1>1, <2>1, <2>3, <2>4, NextWalk
  <2> QED
    BY <1>1, <1>2, <2>5 DEF SamplingInv
<1>18. CASE ~(rank < m)
  <2>1. at' = i /\ rank' = rank - m /\ current' = Append(current, u)
    BY <1>16, <1>18 DEF Walk
  <2>2. IsWalk(P \union {u}, H, d + m, source)
    BY <1>12, <1>14, WalkHi
  <2>3. PICK c, k, e : c = Append(current, u) /\ k = rank - m /\ e = drawn
    OBVIOUS
  <2>4. c \in Seq(Var) /\ Elements(c) = P \union {u}
    BY <1>2, <1>10, <2>3, ElementsOfAppend
  <2>5. k \in 0 .. Cardinality(FamilyOf(i)) - 1
    BY <1>8, <1>16, <1>18, <2>3
  <2>6. e - k = d + m /\ e \in Nat
    BY <1>2, <1>8, <1>9, <2>3
  <2>7. IsWalk(Elements(c), FamilyOf(i), e - k, source)
    BY <1>16, <2>2, <2>4, <2>6
  <2>8. /\ at' \in References' /\ current' \in Seq(Var)
        /\ rank' \in 0 .. Cardinality(FamilyOf(at))' - 1
        /\ drawn' \in Nat
        /\ IsWalk(Elements(current), FamilyOf(at), drawn - rank, source)'
    BY <1>1, <1>15, <2>1, <2>3, <2>4, <2>5, <2>6, <2>7, NextWalk
  <2> QED
    BY <1>1, <1>2, <2>8 DEF SamplingInv
<1> QED
  BY <1>17, <1>18

\* The walk ends at a terminal.
LEMMA SamplingFound ==
  ASSUME SnapshotInv, CountingInv, SamplingInv, SampleFound
  PROVE  SamplingInv'
<1>1. /\ phase = "walk" /\ at < 2 /\ phase' = "sampled" /\ source' = source
      /\ UNCHANGED snapshot /\ UNCHANGED <<at, current, rank, drawn>>
  BY DEF SampleFound, snapshot, sampling
<1>2. /\ source # Zero
      /\ at \in References /\ current \in Seq(Var)
      /\ rank \in 0 .. Cardinality(FamilyOf(at)) - 1
      /\ drawn \in Nat
      /\ IsWalk(Elements(current), FamilyOf(at), drawn - rank, source)
  BY <1>1 DEF SamplingInv
<1>3. PICK a, c, k, d : a = at /\ c = current /\ k = rank /\ d = drawn
  OBVIOUS
<1>4. /\ at' \in References' /\ current' \in Seq(Var)
      /\ rank' \in 0 .. Cardinality(FamilyOf(at))' - 1
      /\ drawn' \in Nat
      /\ IsWalk(Elements(current), FamilyOf(at), drawn - rank, source)'
  BY <1>1, <1>2, <1>3, NextWalk
<1> QED
  BY <1>1, <1>2, <1>4 DEF SamplingInv

\* The other steps keep the sampling invariant.
LEMMA SamplingOther ==
  ASSUME SnapshotInv, CountingInv, SamplingInv,
         Begin \/ CopyNode \/ OverNodeLimit \/ Copied \/ Counts \/ OverBitLimit \/ SampleNothing \/ Iterates
         \/ UNCHANGED vars
  PROVE  SamplingInv'
<1>1. CASE Begin \/ CopyNode \/ OverNodeLimit \/ Copied \/ Counts \/ OverBitLimit \/ Iterates
  <2>1. phase \notin {"walk", "sampled"} /\ phase' \notin {"walk", "sampled"} /\ drawn' = drawn
    <3>1. CASE Begin \/ CopyNode \/ Copied
      BY <3>1 DEF Begin, CopyNode, Copied, sampling
    <3>2. CASE OverNodeLimit \/ OverBitLimit
      BY <3>2 DEF OverNodeLimit, OverBitLimit, Fail, Pending, Counting, sampling
    <3>3. CASE Counts
      BY <3>3 DEF Counts, CountKnown, CountExpand, StoreCount, CountDone, Pending, Counting, sampling
    <3>4. CASE Iterates
      BY <3>4 DEF Iterates, SkipZero, Yield, Branch, Include, Remove, Stepping, sampling
    <3> QED
      BY <1>1, <3>1, <3>2, <3>3, <3>4
  <2> QED
    BY <2>1 DEF SamplingInv
<1>2. CASE SampleNothing
  <2>1. phase = "indexed" /\ Count = 0 /\ phase' = "sampled" /\ source' = source /\ drawn' = drawn
    BY <1>2 DEF SampleNothing, snapshot, sampling
  <2>2. source = Zero /\ drawn = None
    BY <2>1, CountFacts DEF SamplingInv
  <2> QED
    BY <2>1, <2>2 DEF SamplingInv
<1>3. CASE UNCHANGED vars
  <2>1. UNCHANGED <<source, phase, at, current, rank, drawn>> /\ UNCHANGED snapshot
    BY <1>3 DEF vars, snapshot, sampling
  <2>2. PICK a, c, k, d : a = at /\ c = current /\ k = rank /\ d = drawn
    OBVIOUS
  <2>3. phase = "walk" \/ (phase = "sampled" /\ source # Zero) =>
       /\ at' \in References' /\ current' \in Seq(Var)
       /\ rank' \in 0 .. Cardinality(FamilyOf(at))' - 1
       /\ drawn' \in Nat
       /\ IsWalk(Elements(current), FamilyOf(at), drawn - rank, source)'
    BY <2>1, <2>2, NextWalk DEF SamplingInv
  <2> QED
    BY <2>1, <2>3 DEF SamplingInv
<1> QED
  BY <1>1, <1>2, <1>3

\* Every step keeps the sampling invariant.
LEMMA SamplingStep ==
  SnapshotInv /\ CountingInv /\ SamplingInv /\ [Next]_vars => SamplingInv'
<1> SUFFICES ASSUME SnapshotInv, CountingInv, SamplingInv, [Next]_vars PROVE SamplingInv'
  OBVIOUS
<1>1. Draw \/ Walk \/ SampleFound
      \/ Begin \/ CopyNode \/ OverNodeLimit \/ Copied \/ Counts \/ OverBitLimit \/ SampleNothing \/ Iterates
      \/ UNCHANGED vars
  BY DEF Next, Counts, Iterates
<1> QED
  BY <1>1, SamplingDraw, SamplingWalk, SamplingFound, SamplingOther

\* The first state has the sampling invariant.
LEMMA SamplingInit ==
  Init => SamplingInv
BY DEF Init, SamplingInv

\* The invariants imply that samples are uniform.
LEMMA SamplesAreUniform ==
  SnapshotInv /\ CountingInv /\ SamplingInv => SamplesUniform
<1> SUFFICES ASSUME SnapshotInv, CountingInv, SamplingInv PROVE SamplesUniform
  OBVIOUS
<1>1. ASSUME phase = "sampled", source # Zero
      PROVE  /\ at = 1
             /\ Elements(current) \in source
             /\ Cardinality({T \in source : Precedes(T, Elements(current))}) = drawn
  <2>1. /\ at \in References
        /\ rank \in 0 .. Cardinality(FamilyOf(at)) - 1
        /\ drawn \in Nat
        /\ IsWalk(Elements(current), FamilyOf(at), drawn - rank, source)
        /\ at < 2
    BY <1>1 DEF SamplingInv
  <2>2. at \in {0, 1}
    BY <2>1, LenProperties DEF References, SnapshotInv, RootsInv
  <2>3. at = 1
    <3>1. Cardinality(Zero) = 0
      BY FS_EmptySet DEF Zero
    <3> QED
      BY <2>1, <2>2, <3>1 DEF FamilyOf, FamilyAt
  <2>4. FamilyOf(at) = One /\ {} \in One /\ Cardinality(One) = 1
    <3>1. FamilyOf(at) = One
      BY <2>3 DEF FamilyOf, FamilyAt
    <3>2. {} \in One
      BY DEF One
    <3>3. Cardinality({{}}) = 1
      BY FS_Singleton
    <3> QED
      BY <3>1, <3>2, <3>3 DEF One
  <2>5. rank = 0
    BY <2>1, <2>4
  <2>6. Before({}, One) = {}
    BY PrecedesIrreflexive DEF Before, One
  <2>7. Elements(current) \union {} = Elements(current)
    OBVIOUS
  <2>8. Elements(current) \in source
    BY <2>1, <2>4, <2>7 DEF IsWalk, Joint
  <2>9. Cardinality(Before(Elements(current) \union {}, source)) = (drawn - rank) + Cardinality(Before({}, One))
    BY <2>1, <2>4 DEF IsWalk
  <2>10. Cardinality(Before(Elements(current), source)) = drawn
    <3>1. Cardinality({}) = 0
      BY FS_EmptySet
    <3> QED
      BY <2>1, <2>5, <2>6, <2>7, <2>9, <3>1
  <2> QED
    BY <2>3, <2>8, <2>10 DEF Before
<1>2. phase = "sampled" /\ source = Zero => drawn = None
  BY DEF SamplingInv
<1>3. ASSUME phase = "indexed", Count > 1
      PROVE  LET strings(r) == Cardinality({x \in RawBytes(Count) : Masked(x, Count) = r})
             IN \A r \in 0 .. Count - 1 : strings(r) > 0 /\ strings(r) = strings(0)
  <2>1. PICK n \in Nat : n = Count
    BY <1>3, CountFacts
  <2>2. \A r \in 0 .. n - 1 :
          LET strings(i) == Cardinality({x \in RawBytes(n) : Masked(x, n) = i})
          IN strings(r) > 0 /\ strings(r) = strings(0)
    BY <1>3, <2>1, UniformRanks
  <2> QED
    BY <2>1, <2>2
<1> QED
  BY <1>1, <1>2, <1>3 DEF SamplesUniform

----------------------------------------------------------------------------
(* The inductive invariant of the traversal: the sets that the items of    *)
(* the stack are still to yield, each from the buffer as it will be when   *)
(* the item comes up, follow the emitted ones and each other in            *)
(* exclude-first order, and together they are the source.                  *)

StackItem == [kind : {"visit", "include", "remove"}, reference : Int, variable : Int]

\* The buffer after an item and all that it pushes.
After(item, q) == IF item.kind = "remove" THEN SubSeq(q, 1, Len(q) - 1) ELSE q

\* F is what the item is still to yield from the buffer q.
IsPart(item, q, F) ==
  /\ item.kind = "visit" =>
       /\ item.reference \in References
       /\ Under(Elements(q), FamilyOf(item.reference))
       /\ F = Joint(Elements(q), FamilyOf(item.reference))
  /\ item.kind = "include" =>
       /\ item.reference \in References /\ item.variable \in Var
       /\ \A u \in Elements(q) : u < item.variable
       /\ Under(Elements(q) \union {item.variable}, FamilyOf(item.reference))
       /\ F = Joint(Elements(q) \union {item.variable}, FamilyOf(item.reference))
  /\ item.kind = "remove" => F = {}

AllBefore(F, G) == \A S \in F, T \in G : Precedes(S, T)

\* The emitted sets and the n parts left are the whole family in order.
InOrder(p, n, em, whole) ==
  /\ \A i, j \in 1 .. n : i < j => AllBefore(p[i], p[j])
  /\ \A k \in 1 .. Len(em) : \A i \in 1 .. n : AllBefore({Elements(em[k])}, p[i])
  /\ \A k, l \in 1 .. Len(em) : k < l => Precedes(Elements(em[k]), Elements(em[l]))
  /\ \A S : S \in whole <=> \/ \E k \in 1 .. Len(em) : S = Elements(em[k])
                            \/ \E i \in 1 .. n : S \in p[i]

Buffers(c, p, st) ==
  /\ st \in Seq(StackItem)
  /\ c[Len(st) + 1] = << >>
  /\ \A i \in 1 .. Len(st) + 1 : c[i] \in Seq(Var) /\ Ascending(c[i])
  /\ \A i \in 1 .. Len(st) : c[i + 1] = After(st[i], c[i]) /\ IsPart(st[i], c[i], p[i])

Traversal(c, p, st, em) ==
  /\ Buffers(c, p, st)
  /\ InOrder(p, Len(st), em, source)
  /\ em \in Seq(Seq(Var)) /\ \A k \in 1 .. Len(em) : Ascending(em[k])

IterationInv ==
  /\ phase \in {"called", "copy"} => current = << >> /\ emitted = << >>
  /\ phase = "iterate" => \E c, p : c[1] = current /\ Traversal(c, p, stack, emitted)

----------------------------------------------------------------------------
(* Parts in order.                                                         *)

\* A first part that is empty goes.
LEMMA OrderDrop ==
  ASSUME NEW n \in Nat \ {0}, NEW em, NEW whole, NEW p, InOrder(p, n, em, whole), p[1] = {},
         NEW x, \A i \in 1 .. n - 1 : x[i] = p[i + 1]
  PROVE  InOrder(x, n - 1, em, whole)
<1>1. \A i \in 1 .. n - 1 : i + 1 \in 1 .. n
  OBVIOUS
<1>2. \A i, j \in 1 .. n - 1 : i < j => AllBefore(x[i], x[j])
  <2> SUFFICES ASSUME NEW i \in 1 .. n - 1, NEW j \in 1 .. n - 1, i < j PROVE AllBefore(x[i], x[j])
    OBVIOUS
  <2>1. i + 1 < j + 1
    OBVIOUS
  <2> QED
    BY <1>1, <2>1 DEF InOrder
<1>3. \A k \in 1 .. Len(em) : \A i \in 1 .. n - 1 : AllBefore({Elements(em[k])}, x[i])
  BY <1>1 DEF InOrder
<1>4. ASSUME NEW S, NEW i \in 1 .. n, S \in p[i]
      PROVE  \E j \in 1 .. n - 1 : S \in x[j]
  <2>1. i # 1
    BY <1>4
  <2>2. i - 1 \in 1 .. n - 1 /\ (i - 1) + 1 = i
    BY <2>1
  <2> QED
    BY <1>4, <2>2
<1>5. ASSUME NEW S, NEW i \in 1 .. n - 1, S \in x[i]
      PROVE  \E j \in 1 .. n : S \in p[j]
  BY <1>1, <1>5
<1>6. \A S : S \in whole <=> \/ \E k \in 1 .. Len(em) : S = Elements(em[k])
                             \/ \E i \in 1 .. n - 1 : S \in x[i]
  BY <1>4, <1>5 DEF InOrder
<1>7. \A k, l \in 1 .. Len(em) : k < l => Precedes(Elements(em[k]), Elements(em[l]))
  BY DEF InOrder
<1> QED
  BY <1>2, <1>3, <1>6, <1>7 DEF InOrder

\* A first part of one set is emitted.
LEMMA OrderYield ==
  ASSUME NEW n \in Nat \ {0}, NEW E, NEW em \in Seq(E), NEW q \in E, NEW whole, NEW p,
         InOrder(p, n, em, whole), p[1] = {Elements(q)},
         NEW x, \A i \in 1 .. n - 1 : x[i] = p[i + 1]
  PROVE  InOrder(x, n - 1, Append(em, q), whole)
<1> DEFINE S0 == Elements(q)
<1>1. PICK d : d = Append(em, q)
  OBVIOUS
<1>2. PICK m \in Nat : m = Len(em)
  BY LenProperties
<1>3. /\ Len(d) = m + 1
      /\ \A k \in 1 .. m : d[k] = em[k]
      /\ d[m + 1] = q
  BY <1>1, <1>2, AppendProperties
<1>4. \A k \in 1 .. m + 1 : k \in 1 .. m \/ k = m + 1
  OBVIOUS
<1>5. \A i \in 1 .. n - 1 : i + 1 \in 1 .. n /\ 1 < i + 1
  OBVIOUS
<1>6. 1 \in 1 .. n /\ p[1] = {S0}
  OBVIOUS
<1> HIDE DEF S0
<1>7. \A i, j \in 1 .. n - 1 : i < j => AllBefore(x[i], x[j])
  <2> SUFFICES ASSUME NEW i \in 1 .. n - 1, NEW j \in 1 .. n - 1, i < j PROVE AllBefore(x[i], x[j])
    OBVIOUS
  <2>1. i + 1 < j + 1
    OBVIOUS
  <2> QED
    BY <1>5, <2>1 DEF InOrder
<1>8. ASSUME NEW k \in 1 .. m + 1, NEW i \in 1 .. n - 1
      PROVE  AllBefore({Elements(d[k])}, x[i])
  <2>1. CASE k \in 1 .. m
    BY <1>2, <1>3, <1>5, <2>1 DEF InOrder
  <2>2. CASE k = m + 1
    <3>1. AllBefore(p[1], p[i + 1])
      BY <1>5, <1>6 DEF InOrder
    <3> QED
      BY <1>3, <1>6, <2>2, <3>1 DEF S0
  <2> QED
    BY <1>4, <2>1, <2>2
<1>9. ASSUME NEW k \in 1 .. m + 1, NEW l \in 1 .. m + 1, k < l
      PROVE  Precedes(Elements(d[k]), Elements(d[l]))
  <2>1. k \in 1 .. m
    BY <1>9
  <2>2. CASE l \in 1 .. m
    BY <1>2, <1>3, <1>9, <2>1, <2>2 DEF InOrder
  <2>3. CASE l = m + 1
    <3>1. AllBefore({Elements(em[k])}, p[1])
      BY <1>2, <1>6, <2>1 DEF InOrder
    <3>2. Precedes(Elements(em[k]), S0)
      BY <1>6, <3>1 DEF AllBefore
    <3> QED
      BY <1>3, <2>1, <2>3, <3>2 DEF S0
  <2> QED
    BY <1>4, <2>2, <2>3
<1>10. ASSUME NEW S, S \in whole
       PROVE  (\E k \in 1 .. m + 1 : S = Elements(d[k])) \/ (\E i \in 1 .. n - 1 : S \in x[i])
  <2>1. CASE \E k \in 1 .. m : S = Elements(em[k])
    <3>1. PICK k \in 1 .. m : S = Elements(em[k])
      BY <2>1
    <3>2. k \in 1 .. m + 1 /\ d[k] = em[k]
      BY <1>3
    <3> QED
      BY <3>1, <3>2
  <2>2. CASE \E i \in 1 .. n : S \in p[i]
    <3>1. PICK i \in 1 .. n : S \in p[i]
      BY <2>2
    <3>2. CASE i = 1
      <4>1. S = Elements(d[m + 1]) /\ m + 1 \in 1 .. m + 1
        BY <1>3, <1>6, <3>1, <3>2 DEF S0
      <4> QED
        BY <4>1
    <3>3. CASE i # 1
      <4>1. i - 1 \in 1 .. n - 1 /\ (i - 1) + 1 = i
        BY <3>3
      <4>2. S \in x[i - 1]
        BY <3>1, <4>1
      <4> QED
        BY <4>1, <4>2
    <3> QED
      BY <3>2, <3>3
  <2> QED
    BY <1>2, <1>10, <2>1, <2>2 DEF InOrder
<1>11. ASSUME NEW S, (\E k \in 1 .. m + 1 : S = Elements(d[k])) \/ (\E i \in 1 .. n - 1 : S \in x[i])
       PROVE  S \in whole
  <2>1. ASSUME NEW k \in 1 .. m, S = Elements(em[k]) PROVE S \in whole
    BY <1>2, <2>1 DEF InOrder
  <2>2. ASSUME NEW i \in 1 .. n, S \in p[i] PROVE S \in whole
    BY <2>2 DEF InOrder
  <2>3. ASSUME NEW k \in 1 .. m + 1, S = Elements(d[k]) PROVE S \in whole
    <3>1. CASE k \in 1 .. m
      BY <1>3, <2>1, <2>3, <3>1
    <3>2. CASE k = m + 1
      <4>1. S \in p[1]
        BY <1>3, <1>6, <2>3, <3>2 DEF S0
      <4> QED
        BY <1>6, <2>2, <4>1
    <3> QED
      BY <1>4, <3>1, <3>2
  <2>4. ASSUME NEW i \in 1 .. n - 1, S \in x[i] PROVE S \in whole
    BY <1>5, <2>2, <2>4
  <2> QED
    BY <1>11, <2>3, <2>4
<1>12. InOrder(x, n - 1, d, whole)
  BY <1>3, <1>7, <1>8, <1>9, <1>10, <1>11 DEF InOrder
<1> QED
  BY <1>1, <1>12

\* A first part is split into two that are in order.
LEMMA OrderSplit ==
  ASSUME NEW n \in Nat \ {0}, NEW em, NEW whole, NEW p, InOrder(p, n, em, whole),
         NEW A, NEW B, p[1] = A \union B, AllBefore(A, B),
         NEW x, x[1] = A, x[2] = B, \A i \in 3 .. n + 1 : x[i] = p[i - 1]
  PROVE  InOrder(x, n + 1, em, whole)
<1>1. \A i \in 1 .. n + 1 : i \in {1, 2} \/ (i \in 3 .. n + 1 /\ i - 1 \in 1 .. n /\ 1 < i - 1)
  OBVIOUS
<1>2. 1 \in 1 .. n
  OBVIOUS
<1>3. \A i \in {1, 2} : x[i] \subseteq p[1]
  OBVIOUS
<1>4. ASSUME NEW i \in 1 .. n + 1, NEW j \in 1 .. n + 1, i < j
      PROVE  AllBefore(x[i], x[j])
  <2>1. CASE i \in {1, 2} /\ j \in {1, 2}
    BY <1>4, <2>1
  <2>2. CASE i \in {1, 2} /\ j \in 3 .. n + 1
    <3>1. PICK h \in 1 .. n : h = j - 1 /\ 1 < h
      BY <2>2
    <3>2. AllBefore(p[1], p[h])
      BY <1>2, <3>1 DEF InOrder
    <3>3. x[j] = p[h] /\ x[i] \subseteq p[1]
      BY <1>3, <2>2, <3>1
    <3> QED
      BY <3>2, <3>3 DEF AllBefore
  <2>3. CASE i \in 3 .. n + 1 /\ j \in 3 .. n + 1
    <3>1. i - 1 \in 1 .. n /\ j - 1 \in 1 .. n /\ i - 1 < j - 1
      BY <1>4, <2>3
    <3>2. AllBefore(p[i - 1], p[j - 1])
      BY <3>1 DEF InOrder
    <3> QED
      BY <2>3, <3>2
  <2> QED
    BY <1>1, <1>4, <2>1, <2>2, <2>3
<1>5. ASSUME NEW k \in 1 .. Len(em), NEW i \in 1 .. n + 1
      PROVE  AllBefore({Elements(em[k])}, x[i])
  <2>1. CASE i \in {1, 2}
    <3>1. AllBefore({Elements(em[k])}, p[1])
      BY <1>2 DEF InOrder
    <3> QED
      BY <1>3, <2>1, <3>1 DEF AllBefore
  <2>2. CASE i \in 3 .. n + 1
    <3>1. PICK h \in 1 .. n : h = i - 1
      BY <2>2
    <3>2. AllBefore({Elements(em[k])}, p[h])
      BY DEF InOrder
    <3> QED
      BY <2>2, <3>1, <3>2
  <2> QED
    BY <1>1, <2>1, <2>2
<1>6. ASSUME NEW S, NEW i \in 1 .. n, S \in p[i]
      PROVE  \E j \in 1 .. n + 1 : S \in x[j]
  <2>1. CASE i = 1
    <3>1. S \in x[1] \/ S \in x[2]
      BY <1>6, <2>1
    <3>2. 1 \in 1 .. n + 1 /\ 2 \in 1 .. n + 1
      OBVIOUS
    <3> QED
      BY <3>1, <3>2
  <2>2. CASE i # 1
    <3>1. i + 1 \in 3 .. n + 1 /\ i + 1 \in 1 .. n + 1 /\ (i + 1) - 1 = i
      BY <2>2
    <3>2. S \in x[i + 1]
      BY <1>6, <3>1
    <3> QED
      BY <3>1, <3>2
  <2> QED
    BY <2>1, <2>2
<1>7. ASSUME NEW S, NEW i \in 1 .. n + 1, S \in x[i]
      PROVE  \E j \in 1 .. n : S \in p[j]
  <2>1. CASE i \in {1, 2}
    BY <1>2, <1>3, <1>7, <2>1
  <2>2. CASE i \in 3 .. n + 1
    BY <1>1, <1>7, <2>2
  <2> QED
    BY <1>1, <2>1, <2>2
<1>8. \A S : S \in whole <=> \/ \E k \in 1 .. Len(em) : S = Elements(em[k])
                             \/ \E i \in 1 .. n + 1 : S \in x[i]
  BY <1>6, <1>7 DEF InOrder
<1>9. \A k, l \in 1 .. Len(em) : k < l => Precedes(Elements(em[k]), Elements(em[l]))
  BY DEF InOrder
<1> QED
  BY <1>4, <1>5, <1>8, <1>9 DEF InOrder

----------------------------------------------------------------------------
(* The steps of the traversal.                                             *)

\* The top of the stack.
LEMMA StackHead ==
  ASSUME NEW st \in Seq(StackItem), st # << >>
  PROVE  /\ Len(st) \in Nat \ {0} /\ 1 \in 1 .. Len(st)
         /\ Head(st) = st[1] /\ st[1] \in StackItem
         /\ Tail(st) \in Seq(StackItem) /\ Len(Tail(st)) = Len(st) - 1
         /\ \A i \in 1 .. Len(Tail(st)) : Tail(st)[i] = st[i + 1]
<1>1. Len(st) \in Nat \ {0}
  BY EmptySeq
<1>2. 1 \in 1 .. Len(st)
  BY <1>1
<1>3. st[1] \in StackItem
  BY <1>2, ElementOfSeq
<1>4. /\ Tail(st) \in Seq(StackItem) /\ Len(Tail(st)) = Len(st) - 1
      /\ \A i \in 1 .. Len(Tail(st)) : Tail(st)[i] = st[i + 1]
  BY HeadTailProperties
<1> QED
  BY <1>1, <1>2, <1>3, <1>4

\* The top item is gone.
LEMMA PopBuffers ==
  ASSUME NEW c, NEW p, NEW st, Buffers(c, p, st), st # << >>
  PROVE  \E d, x : /\ d[1] = After(st[1], c[1])
                   /\ Buffers(d, x, Tail(st))
                   /\ \A i \in 1 .. Len(st) - 1 : x[i] = p[i + 1]
<1>1. st \in Seq(StackItem)
  BY DEF Buffers
<1>2. PICK n \in Nat : n = Len(st) - 1
  BY <1>1, StackHead
<1>3. PICK y : y = Tail(st)
  OBVIOUS
<1>4. /\ Len(st) = n + 1 /\ y \in Seq(StackItem) /\ Len(y) = n
      /\ \A i \in 1 .. n : y[i] = st[i + 1]
  <2>1. /\ Len(st) \in Nat \ {0} /\ Tail(st) \in Seq(StackItem) /\ Len(Tail(st)) = Len(st) - 1
        /\ \A i \in 1 .. Len(Tail(st)) : Tail(st)[i] = st[i + 1]
    BY <1>1, StackHead
  <2> QED
    BY <1>2, <1>3, <2>1
<1>5. PICK d : d = [i \in 1 .. n + 1 |-> c[i + 1]]
  OBVIOUS
<1>6. PICK x : x = [i \in 1 .. n |-> p[i + 1]]
  OBVIOUS
<1>7. \A i \in 1 .. n + 1 : d[i] = c[i + 1] /\ i \in 1 .. Len(st) /\ i + 1 \in 1 .. Len(st) + 1
  BY <1>4, <1>5
<1>8. \A i \in 1 .. n : x[i] = p[i + 1] /\ i \in 1 .. n + 1 /\ i + 1 \in 1 .. n + 1 /\ i + 1 \in 1 .. Len(st)
  BY <1>4, <1>6
<1>9. n + 1 \in 1 .. n + 1 /\ 1 \in 1 .. n + 1 /\ 1 + 1 = 2
  OBVIOUS
<1>10. d[n + 1] = << >>
  BY <1>4, <1>7, <1>9 DEF Buffers
<1>11. \A i \in 1 .. n + 1 : d[i] \in Seq(Var) /\ Ascending(d[i])
  BY <1>7 DEF Buffers
<1>12. ASSUME NEW i \in 1 .. n
       PROVE  d[i + 1] = After(y[i], d[i]) /\ IsPart(y[i], d[i], x[i])
  <2>1. PICK j \in 1 .. Len(st) : j = i + 1
    BY <1>8
  <2>2. c[j + 1] = After(st[j], c[j]) /\ IsPart(st[j], c[j], p[j])
    BY DEF Buffers
  <2>3. d[i + 1] = c[j + 1] /\ d[i] = c[j] /\ y[i] = st[j] /\ x[i] = p[j]
    BY <1>4, <1>7, <1>8, <2>1
  <2> QED
    BY <2>2, <2>3
<1>13. Buffers(d, x, y)
  BY <1>4, <1>10, <1>11, <1>12 DEF Buffers
<1>14. d[1] = After(st[1], c[1])
  BY <1>4, <1>7, <1>9 DEF Buffers
<1>15. \A i \in 1 .. Len(st) - 1 : x[i] = p[i + 1]
  BY <1>2, <1>8
<1> QED
  BY <1>3, <1>13, <1>14, <1>15

\* Two items take the place of the top one.
IsPushed(y, a, b, st) ==
  /\ y \in Seq(StackItem) /\ Len(y) = Len(st) + 1
  /\ y[1] = a /\ y[2] = b
  /\ \A i \in 3 .. Len(y) : y[i] = st[i - 1]

\* Two items in front of the rest of the stack.
LEMMA PushedStack ==
  ASSUME NEW st \in Seq(StackItem), st # << >>, NEW a \in StackItem, NEW b \in StackItem,
         NEW t \in Seq(StackItem), t = Tail(st), NEW y, y = <<a, b>> \o t
  PROVE  IsPushed(y, a, b, st)
<1>1. /\ y \in Seq(StackItem) /\ Len(y) = Len(t) + 2
      /\ y[1] = a /\ y[2] = b
      /\ \A i \in 3 .. Len(t) + 2 : y[i] = t[i - 2]
  BY TwoAhead
<1>2. /\ Len(st) \in Nat \ {0} /\ Len(t) = Len(st) - 1
      /\ \A i \in 1 .. Len(t) : t[i] = st[i + 1]
  BY StackHead, Zenon
<1>3. PICK n, k, l : n = Len(t) /\ k = Len(st) /\ l = Len(y)
  OBVIOUS
<1>4. \A i \in 3 .. n + 2 : y[i] = t[i - 2]
  BY <1>1, <1>3, Zenon
<1>5. \A i \in 1 .. n : t[i] = st[i + 1]
  BY <1>2, <1>3, Zenon
<1>6. l = n + 2 /\ k \in Nat \ {0} /\ n = k - 1 
  BY <1>1, <1>2, <1>3, Zenon
<1>7. l = k + 1 /\ \A i \in 3 .. l : i \in 3 .. n + 2 /\ i - 2 \in 1 .. n /\ (i - 2) + 1 = i - 1
  BY <1>6
<1>8. \A i \in 3 .. l : y[i] = st[i - 1]
  BY <1>4, <1>5, <1>7, Zenon
<1> QED
  BY <1>1, <1>3, <1>7, <1>8, Zenon DEF IsPushed

\* The buffers when two items take the place of the top one.
LEMMA PushBuffers ==
  ASSUME NEW c, NEW p, NEW st, Buffers(c, p, st), st # << >>,
         NEW a \in StackItem, NEW b \in StackItem, NEW q \in Seq(Var), Ascending(q),
         After(a, q) = q, After(b, q) = After(st[1], c[1]),
         NEW A, NEW B, IsPart(a, q, A), IsPart(b, q, B),
         NEW y, IsPushed(y, a, b, st)
  PROVE  \E d, x : /\ d[1] = q /\ x[1] = A /\ x[2] = B
                   /\ Buffers(d, x, y)
                   /\ \A i \in 3 .. Len(st) + 1 : x[i] = p[i - 1]
<1>1. st \in Seq(StackItem)
  BY DEF Buffers
<1>2. PICK n \in Nat : n = Len(st) - 1
  <2>1. Len(st) \in Nat \ {0}
    BY <1>1, StackHead
  <2> QED
    BY <2>1
<1>3. /\ Len(st) = n + 1 /\ Tail(st) \in Seq(StackItem) /\ Len(Tail(st)) = n
      /\ \A i \in 1 .. n : Tail(st)[i] = st[i + 1]
  <2>1. /\ Len(st) \in Nat \ {0} /\ Tail(st) \in Seq(StackItem) /\ Len(Tail(st)) = Len(st) - 1
        /\ \A i \in 1 .. Len(Tail(st)) : Tail(st)[i] = st[i + 1]
    BY <1>1, StackHead
  <2> QED
    BY <1>2, <2>1
<1>5. /\ y \in Seq(StackItem) /\ Len(y) = n + 2
      /\ y[1] = a /\ y[2] = b
  BY <1>3 DEF IsPushed
<1>6. \A i \in 3 .. n + 2 : y[i] = st[i - 1] /\ i - 1 \in 1 .. Len(st)
  BY <1>3, <1>5 DEF IsPushed
<1>7. PICK d : d = [i \in 1 .. n + 3 |-> IF i <= 2 THEN q ELSE c[i - 1]]
  OBVIOUS
<1>8. PICK x : x = [i \in 1 .. n + 2 |-> IF i = 1 THEN A ELSE IF i = 2 THEN B ELSE p[i - 1]]
  OBVIOUS
<1>9. d[1] = q /\ d[2] = q /\ \A i \in 3 .. n + 3 : d[i] = c[i - 1] /\ i - 1 \in 1 .. Len(st) + 1
  BY <1>3, <1>7
<1>10. x[1] = A /\ x[2] = B /\ \A i \in 3 .. n + 2 : x[i] = p[i - 1]
  BY <1>8
<1>11. c[2] = After(st[1], c[1])
  <2>1. 1 \in 1 .. Len(st) /\ 1 + 1 = 2
    BY <1>1, StackHead
  <2> QED
    BY <2>1 DEF Buffers
<1>12. d[n + 3] = << >>
  <2>1. n + 3 \in 3 .. n + 3 /\ (n + 3) - 1 = Len(st) + 1
    BY <1>3
  <2> QED
    BY <1>9, <2>1 DEF Buffers
<1>13. \A i \in 1 .. n + 3 : d[i] \in Seq(Var) /\ Ascending(d[i])
  <2>1. \A i \in 1 .. n + 3 : i \in {1, 2} \/ i \in 3 .. n + 3
    OBVIOUS
  <2> QED
    BY <1>9, <2>1 DEF Buffers
<1>14. ASSUME NEW i \in 1 .. n + 2
       PROVE  d[i + 1] = After(y[i], d[i]) /\ IsPart(y[i], d[i], x[i])
  <2>1. CASE i = 1
    <3>1. d[1 + 1] = q
      BY <1>9
    <3> QED
      BY <1>5, <1>9, <1>10, <2>1, <3>1
  <2>2. CASE i = 2
    <3>1. 3 \in 3 .. n + 3 /\ 3 - 1 = 2 /\ 2 + 1 = 3
      OBVIOUS
    <3>2. d[2 + 1] = c[2]
      BY <1>9, <3>1
    <3> QED
      BY <1>5, <1>9, <1>10, <1>11, <2>2, <3>2
  <2>3. CASE i # 1 /\ i # 2
    <3>1. PICK j \in 1 .. Len(st) : j = i - 1
      BY <1>3, <2>3
    <3>2. c[j + 1] = After(st[j], c[j]) /\ IsPart(st[j], c[j], p[j])
      BY DEF Buffers
    <3>3. i \in 3 .. n + 2 /\ i \in 3 .. n + 3 /\ i + 1 \in 3 .. n + 3 /\ (i + 1) - 1 = j + 1
      BY <2>3, <3>1
    <3>4. d[i + 1] = c[j + 1] /\ d[i] = c[j] /\ y[i] = st[j] /\ x[i] = p[j]
      BY <1>6, <1>9, <1>10, <3>1, <3>3
    <3> QED
      BY <3>2, <3>4
  <2> QED
    BY <2>1, <2>2, <2>3
<1>15. Len(y) = Len(st) + 1 /\ Len(y) + 1 = n + 3 /\ 3 .. Len(st) + 1 = 3 .. n + 2
  BY <1>3, <1>5
<1>16. Buffers(d, x, y)
  <2>1. d[Len(y) + 1] = << >>
    BY <1>12, <1>15
  <2>2. \A i \in 1 .. Len(y) + 1 : d[i] \in Seq(Var) /\ Ascending(d[i])
    BY <1>13, <1>15
  <2>3. \A i \in 1 .. Len(y) : d[i + 1] = After(y[i], d[i]) /\ IsPart(y[i], d[i], x[i])
    BY <1>5, <1>14
  <2> QED
    BY <1>5, <2>1, <2>2, <2>3 DEF Buffers
<1>17. \A i \in 3 .. Len(st) + 1 : x[i] = p[i - 1]
  BY <1>10, <1>15
<1> QED
  BY <1>9, <1>10, <1>15, <1>16, <1>17

\* What the traversal invariant says of the next state, when the snapshot stays.
LEMMA NextTraversal ==
  ASSUME UNCHANGED snapshot, NEW c, NEW p, NEW st, NEW em, stack' = st, emitted' = em, c[1] = current',
         Traversal(c, p, st, em)
  PROVE  (\E d, x : d[1] = current /\ Traversal(d, x, stack, emitted))'
<1>1. source' = source /\ roots' = roots
  BY DEF snapshot
<1>2. Traversal(c, p, stack, emitted)'
  BY <1>1 DEF Traversal, Buffers, IsPart, References, FamilyOf, FamilyAt
<1> QED
  BY <1>2

\* The walk of the stack, from the top item on.
LEMMA TopPart ==
  ASSUME NEW c, NEW p, NEW st, NEW em, Traversal(c, p, st, em), st # << >>
  PROVE  /\ Buffers(c, p, st) /\ InOrder(p, Len(st), em, source) /\ em \in Seq(Seq(Var))
         /\ \A k \in 1 .. Len(em) : Ascending(em[k])
         /\ st \in Seq(StackItem) /\ Len(st) \in Nat \ {0}
         /\ Head(st) = st[1] /\ st[1] \in StackItem
         /\ c[1] \in Seq(Var) /\ Ascending(c[1])
         /\ IsPart(st[1], c[1], p[1])
<1>1. /\ Buffers(c, p, st) /\ InOrder(p, Len(st), em, source)
      /\ em \in Seq(Seq(Var)) /\ st \in Seq(StackItem)
      /\ \A k \in 1 .. Len(em) : Ascending(em[k])
  BY DEF Traversal, Buffers
<1>2. /\ Len(st) \in Nat \ {0} /\ 1 \in 1 .. Len(st)
      /\ Head(st) = st[1] /\ st[1] \in StackItem
  BY <1>1, StackHead
<1>3. 1 \in 1 .. Len(st) + 1
  BY <1>2
<1>4. c[1] \in Seq(Var) /\ Ascending(c[1]) /\ IsPart(st[1], c[1], p[1])
  BY <1>1, <1>2, <1>3 DEF Buffers
<1> QED
  BY <1>1, <1>2, <1>4

\* A buffer extended by a later variable, and cut back.
LEMMA AscendingAppend ==
  ASSUME NEW q \in Seq(Var), Ascending(q), NEW v \in Var, \A u \in Elements(q) : u < v
  PROVE  /\ Ascending(Append(q, v))
         /\ SubSeq(Append(q, v), 1, Len(Append(q, v)) - 1) = q
<1>1. PICK p : p = Append(q, v)
  OBVIOUS
<1>2. PICK m \in Nat : m = Len(q)
  BY LenProperties
<1>3. /\ p \in Seq(Var) /\ Len(p) = m + 1
      /\ \A i \in 1 .. m : p[i] = q[i]
      /\ p[m + 1] = v
  BY <1>1, <1>2, AppendProperties
<1>4. DOMAIN q = 1 .. m /\ DOMAIN p = 1 .. m + 1
  BY <1>2, <1>3, LenProperties
<1>5. \A i \in 1 .. m : p[i] < v
  BY <1>3, <1>4 DEF Elements
<1>6. Ascending(p)
  <2> SUFFICES ASSUME NEW i \in 1 .. m + 1, NEW j \in 1 .. m + 1, i < j PROVE p[i] < p[j]
    BY <1>4 DEF Ascending
  <2>1. i \in 1 .. m
    OBVIOUS
  <2>2. CASE j \in 1 .. m
    BY <1>3, <1>4, <2>1, <2>2 DEF Ascending
  <2>3. CASE j = m + 1
    BY <1>3, <1>5, <2>1, <2>3
  <2> QED
    BY <2>2, <2>3
<1>7. SubSeq(p, 1, m) = q
  <2>1. \A i \in 1 .. m : p[i] \in Var
    <3>1. \A i \in 1 .. m : i \in 1 .. Len(p)
      BY <1>3
    <3> QED
      BY <1>3, <3>1, ElementOfSeq
  <2>2. PICK s : s = SubSeq(p, 1, m)
    OBVIOUS
  <2>3. /\ s \in Seq(Var) /\ Len(s) = IF 1 <= m THEN m - 1 + 1 ELSE 0
        /\ \A i \in 1 .. m - 1 + 1 : s[i] = p[1 + i - 1]
    BY <2>1, <2>2, SubSeqProperties
  <2>4. Len(s) = m
    BY <2>3
  <2>5. \A i \in 1 .. m : s[i] = q[i]
    <3> SUFFICES ASSUME NEW i \in 1 .. m PROVE s[i] = q[i]
      OBVIOUS
    <3>1. i \in 1 .. m - 1 + 1 /\ 1 + i - 1 = i
      OBVIOUS
    <3> QED
      BY <1>3, <2>3, <3>1
  <2>6. s = q
    BY <1>2, <2>3, <2>4, <2>5, SeqEqual
  <2> QED
    BY <2>2, <2>6
<1>8. Len(p) - 1 = m
  BY <1>3
<1> QED
  BY <1>1, <1>6, <1>7, <1>8

\* An item that yields nothing goes.
LEMMA Dropped ==
  ASSUME NEW c, NEW p, NEW st, NEW em, Traversal(c, p, st, em), st # << >>, p[1] = {}
  PROVE  \E d, x : d[1] = After(st[1], c[1]) /\ Traversal(d, x, Tail(st), em)
<1>1. /\ Buffers(c, p, st) /\ InOrder(p, Len(st), em, source) /\ em \in Seq(Seq(Var))
      /\ \A k \in 1 .. Len(em) : Ascending(em[k])
      /\ st \in Seq(StackItem) /\ Len(st) \in Nat \ {0}
  BY TopPart
<1>2. PICK d, x : /\ d[1] = After(st[1], c[1])
                  /\ Buffers(d, x, Tail(st))
                  /\ \A i \in 1 .. Len(st) - 1 : x[i] = p[i + 1]
  BY <1>1, PopBuffers
<1>3. InOrder(x, Len(st) - 1, em, source)
  BY <1>1, <1>2, OrderDrop
<1>4. Len(Tail(st)) = Len(st) - 1
  BY <1>1, StackHead
<1>5. Traversal(d, x, Tail(st), em)
  BY <1>1, <1>2, <1>3, <1>4 DEF Traversal
<1> QED
  BY <1>2, <1>5

\* An item that yields the buffer goes.
LEMMA YieldedTop ==
  ASSUME NEW c, NEW p, NEW st, NEW em, Traversal(c, p, st, em), st # << >>, p[1] = {Elements(c[1])}
  PROVE  \E d, x : d[1] = After(st[1], c[1]) /\ Traversal(d, x, Tail(st), Append(em, c[1]))
<1>1. /\ Buffers(c, p, st) /\ InOrder(p, Len(st), em, source) /\ em \in Seq(Seq(Var))
      /\ \A k \in 1 .. Len(em) : Ascending(em[k])
      /\ st \in Seq(StackItem) /\ Len(st) \in Nat \ {0}
      /\ c[1] \in Seq(Var) /\ Ascending(c[1])
  BY TopPart
<1>2. PICK d, x : /\ d[1] = After(st[1], c[1])
                  /\ Buffers(d, x, Tail(st))
                  /\ \A i \in 1 .. Len(st) - 1 : x[i] = p[i + 1]
  BY <1>1, PopBuffers
<1>3. InOrder(x, Len(st) - 1, Append(em, c[1]), source)
  BY <1>1, <1>2, OrderYield
<1>4. Len(Tail(st)) = Len(st) - 1
  BY <1>1, StackHead
<1>5. PICK n, q, e : n = Len(em) /\ q = c[1] /\ e = Append(em, q) /\ n \in Nat /\ q \in Seq(Var)
  BY <1>1, LenProperties
<1>6. /\ e \in Seq(Seq(Var)) /\ Len(e) = n + 1
      /\ \A i \in 1 .. n : e[i] = em[i]
      /\ e[n + 1] = q
  BY <1>1, <1>5, AppendProperties
<1>7. \A k \in 1 .. n + 1 : k \in 1 .. n \/ k = n + 1
  BY <1>5
<1>8. \A k \in 1 .. Len(e) : Ascending(e[k])
  BY <1>1, <1>5, <1>6, <1>7
<1>9. Traversal(d, x, Tail(st), e)
  BY <1>2, <1>3, <1>4, <1>5, <1>6, <1>8 DEF Traversal
<1> QED
  BY <1>2, <1>5, <1>9

\* An item is split in two.
LEMMA SplitTop ==
  ASSUME NEW c, NEW p, NEW st, NEW em, Traversal(c, p, st, em), st # << >>,
         NEW a \in StackItem, NEW b \in StackItem, NEW q \in Seq(Var), Ascending(q),
         After(a, q) = q, After(b, q) = After(st[1], c[1]),
         NEW A, NEW B, IsPart(a, q, A), IsPart(b, q, B),
         p[1] = A \union B, AllBefore(A, B),
         NEW y, IsPushed(y, a, b, st)
  PROVE  \E d, x : d[1] = q /\ Traversal(d, x, y, em)
<1>1. /\ Buffers(c, p, st) /\ InOrder(p, Len(st), em, source) /\ em \in Seq(Seq(Var))
      /\ \A k \in 1 .. Len(em) : Ascending(em[k])
      /\ st \in Seq(StackItem) /\ Len(st) \in Nat \ {0}
  BY TopPart
<1>2. PICK d, x : /\ d[1] = q /\ x[1] = A /\ x[2] = B
                  /\ Buffers(d, x, y)
                  /\ \A i \in 3 .. Len(st) + 1 : x[i] = p[i - 1]
  BY <1>1, PushBuffers
<1>3. InOrder(x, Len(st) + 1, em, source)
  BY <1>1, <1>2, OrderSplit
<1>4. Traversal(d, x, y, em)
  BY <1>1, <1>2, <1>3 DEF Traversal, IsPushed
<1> QED
  BY <1>2, <1>4

\* What is left of a node's family splits into its LO branch and its HI branch.
LEMMA NodeParts ==
  ASSUME NEW P \in SUBSET Var, NEW v \in Var, NEW H \in Family, NEW L \in Family, H # Zero,
         \A w \in Support(H) \union Support(L) : v < w,
         Under(P, Node(v, H, L))
  PROVE  /\ Joint(P, Node(v, H, L)) = Joint(P, L) \union Joint(P \union {v}, H)
         /\ AllBefore(Joint(P, L), Joint(P \union {v}, H))
         /\ Under(P, L)
         /\ \A u \in P : u < v
         /\ Under(P \union {v}, H)
<1> DEFINE F == Node(v, H, L)
<1>1. /\ \A S \in L : S \in F
      /\ \A S \in H : S \union {v} \in F
  BY DEF Node
<1>2. v \in Support(F)
  <2>1. PICK S : S \in H
    BY DEF Zero
  <2>2. S \union {v} \in F /\ v \in S \union {v}
    BY <1>1, <2>1
  <2> HIDE DEF F
  <2> QED
    BY <2>2 DEF Support
<1>3. Support(L) \subseteq Support(F)
  <2> HIDE DEF F
  <2> QED
    BY <1>1 DEF Support
<1>4. Support(H) \subseteq Support(F)
  <2> SUFFICES ASSUME NEW S \in H, NEW w \in S PROVE w \in Support(F)
    BY DEF Support
  <2>1. S \union {v} \in F /\ w \in S \union {v}
    BY <1>1
  <2> HIDE DEF F
  <2> QED
    BY <2>1 DEF Support
<1>5. Joint(P, F) = Joint(P, L) \union Joint(P \union {v}, H)
  <2>1. \A S : P \union (S \union {v}) = (P \union {v}) \union S
    OBVIOUS
  <2>2. ASSUME NEW X \in Joint(P, F) PROVE X \in Joint(P, L) \union Joint(P \union {v}, H)
    <3>1. PICK T \in F : X = P \union T
      BY <2>2 DEF Joint
    <3>2. CASE T \in L
      BY <3>1, <3>2 DEF Joint
    <3>3. CASE T \notin L
      <4>1. PICK S \in H : T = S \union {v}
        BY <3>1, <3>3 DEF Node
      <4>2. X = (P \union {v}) \union S
        BY <2>1, <3>1, <4>1
      <4> QED
        BY <4>2 DEF Joint
    <3> QED
      BY <3>2, <3>3
  <2>3. ASSUME NEW X \in Joint(P, L) PROVE X \in Joint(P, F)
    <3>1. PICK S \in L : X = P \union S
      BY <2>3 DEF Joint
    <3> HIDE DEF F
    <3> QED
      BY <1>1, <3>1 DEF Joint
  <2>4. ASSUME NEW X \in Joint(P \union {v}, H) PROVE X \in Joint(P, F)
    <3>1. PICK S \in H : X = (P \union {v}) \union S
      BY <2>4 DEF Joint
    <3>2. X = P \union (S \union {v}) /\ S \union {v} \in F
      BY <1>1, <2>1, <3>1
    <3> HIDE DEF F
    <3> QED
      BY <3>2 DEF Joint
  <2> HIDE DEF F
  <2> QED
    BY <2>2, <2>3, <2>4
<1> HIDE DEF F
<1>6. Under(P, F)
  BY DEF F
<1>7. Under(P, L) /\ \A u \in P : u < v
  BY <1>2, <1>3, <1>6 DEF Under
<1>8. Under(P \union {v}, H)
  BY <1>4, <1>6 DEF Under
<1>9. AllBefore(Joint(P, L), Joint(P \union {v}, H))
  <2> SUFFICES ASSUME NEW S \in L, NEW T \in H
               PROVE  Precedes(P \union S, (P \union {v}) \union T)
    BY DEF AllBefore, Joint
  <2>1. v \in Int /\ S \in SUBSET Int /\ T \in SUBSET Int /\ P \in SUBSET Int
    BY NAssumption DEF Var, Family
  <2>2. \A w \in S \union T : v < w
    BY DEF Support
  <2>3. Precedes(S, {v} \union T)
    BY <2>1, <2>2, LoPrecedesHi
  <2>4. P \intersect (S \union ({v} \union T)) = {}
    <3> SUFFICES ASSUME NEW u \in P, u \in S \union ({v} \union T) PROVE FALSE
      OBVIOUS
    <3>1. u \in Support(F)
      BY <1>2, <1>3, <1>4 DEF Support
    <3>2. u < u
      BY <1>6, <3>1 DEF Under
    <3> QED
      BY <2>1, <3>2
  <2>5. Precedes(P \union S, P \union ({v} \union T))
    BY <2>3, <2>4, PrecedesJoint
  <2>6. P \union ({v} \union T) = (P \union {v}) \union T
    OBVIOUS
  <2> QED
    BY <2>5, <2>6
<1> QED
  BY <1>5, <1>7, <1>8, <1>9 DEF F

\* What a step of the traversal starts from.
LEMMA TraversalNow ==
  ASSUME IterationInv, phase = "iterate", stack # << >>
  PROVE  \E c, p : /\ c[1] = current /\ Traversal(c, p, stack, emitted)
                   /\ current \in Seq(Var) /\ Ascending(current)
                   /\ stack \in Seq(StackItem)
                   /\ Head(stack) = stack[1] /\ stack[1] \in StackItem
                   /\ IsPart(stack[1], current, p[1])
<1>1. PICK c, p : c[1] = current /\ Traversal(c, p, stack, emitted)
  BY DEF IterationInv
<1>2. /\ stack \in Seq(StackItem)
      /\ Head(stack) = stack[1] /\ stack[1] \in StackItem
      /\ current \in Seq(Var) /\ Ascending(current)
      /\ IsPart(stack[1], current, p[1])
  <2>1. /\ stack \in Seq(StackItem)
        /\ Head(stack) = stack[1] /\ stack[1] \in StackItem
        /\ c[1] \in Seq(Var) /\ Ascending(c[1])
        /\ IsPart(stack[1], c[1], p[1])
    BY <1>1, TopPart
  <2> QED
    BY <1>1, <2>1
<1> QED
  BY <1>1, <1>2

\* The empty family yields nothing.
LEMMA IterationSkipZero ==
  ASSUME SnapshotInv, IterationInv, SkipZero
  PROVE  IterationInv'
<1>1. /\ phase = "iterate" /\ stack # << >> /\ Head(stack).kind = "visit" /\ Head(stack).reference = 0
      /\ phase' = phase /\ UNCHANGED snapshot /\ current' = current /\ emitted' = emitted
      /\ stack' = Tail(stack)
  BY DEF SkipZero, Stepping
<1>2. PICK c, p : /\ c[1] = current /\ Traversal(c, p, stack, emitted)
                  /\ Head(stack) = stack[1] /\ IsPart(stack[1], current, p[1])
  BY <1>1, TraversalNow
<1>3. p[1] = {} /\ After(stack[1], c[1]) = current
  BY <1>1, <1>2 DEF IsPart, FamilyOf, FamilyAt, Joint, Zero, After
<1>4. PICK d, x : d[1] = current /\ Traversal(d, x, Tail(stack), emitted)
  BY <1>1, <1>2, <1>3, Dropped
<1>5. PICK st, em : st = Tail(stack) /\ em = emitted
  OBVIOUS
<1>6. (\E e, y : e[1] = current /\ Traversal(e, y, stack, emitted))'
  BY <1>1, <1>4, <1>5, NextTraversal
<1> QED
  BY <1>1, <1>6 DEF IterationInv

\* The buffer is cut back.
LEMMA IterationRemove ==
  ASSUME SnapshotInv, IterationInv, Remove
  PROVE  IterationInv'
<1>1. /\ phase = "iterate" /\ stack # << >> /\ Head(stack).kind = "remove"
      /\ phase' = phase /\ UNCHANGED snapshot /\ emitted' = emitted
      /\ current' = SubSeq(current, 1, Len(current) - 1)
      /\ stack' = Tail(stack)
  BY DEF Remove, Stepping
<1>2. PICK c, p : /\ c[1] = current /\ Traversal(c, p, stack, emitted)
                  /\ Head(stack) = stack[1] /\ IsPart(stack[1], current, p[1])
  BY <1>1, TraversalNow
<1>3. p[1] = {} /\ After(stack[1], c[1]) = current'
  BY <1>1, <1>2 DEF IsPart, After
<1>4. PICK d, x : d[1] = After(stack[1], c[1]) /\ Traversal(d, x, Tail(stack), emitted)
  BY <1>1, <1>2, <1>3, Dropped
<1>5. PICK st, em : st = Tail(stack) /\ em = emitted
  OBVIOUS
<1>6. (\E e, y : e[1] = current /\ Traversal(e, y, stack, emitted))'
  BY <1>1, <1>3, <1>4, <1>5, NextTraversal
<1> QED
  BY <1>1, <1>6 DEF IterationInv

\* The unit family yields the buffer.
LEMMA IterationYield ==
  ASSUME SnapshotInv, IterationInv, Yield
  PROVE  IterationInv'
<1>1. /\ phase = "iterate" /\ stack # << >> /\ Head(stack).kind = "visit" /\ Head(stack).reference = 1
      /\ phase' = phase /\ UNCHANGED snapshot /\ current' = current
      /\ emitted' = Append(emitted, current)
      /\ stack' = Tail(stack)
  BY DEF Yield, Stepping
<1>2. PICK c, p : /\ c[1] = current /\ Traversal(c, p, stack, emitted)
                  /\ Head(stack) = stack[1] /\ IsPart(stack[1], current, p[1])
  BY <1>1, TraversalNow
<1>3. p[1] = {Elements(c[1])} /\ After(stack[1], c[1]) = current
  <2>1. FamilyOf(1) = One
    BY DEF FamilyOf, FamilyAt
  <2>2. p[1] = Joint(Elements(current), One)
    BY <1>1, <1>2, <2>1 DEF IsPart
  <2>3. Joint(Elements(current), One) = {Elements(current)}
    BY DEF Joint, One
  <2>4. After(stack[1], c[1]) = current
    BY <1>1, <1>2 DEF After
  <2> QED
    BY <1>2, <2>2, <2>3, <2>4
<1>4. PICK d, x : d[1] = current /\ Traversal(d, x, Tail(stack), Append(emitted, c[1]))
  BY <1>1, <1>2, <1>3, YieldedTop
<1>5. PICK st, em : st = Tail(stack) /\ em = Append(emitted, current)
  OBVIOUS
<1>6. Traversal(d, x, st, em)
  BY <1>2, <1>4, <1>5
<1>7. (\E e, y : e[1] = current /\ Traversal(e, y, stack, emitted))'
  BY <1>1, <1>4, <1>5, <1>6, NextTraversal
<1> QED
  BY <1>1, <1>7 DEF IterationInv

\* A node is split into its LO branch and its HI branch.
LEMMA IterationBranch ==
  ASSUME SnapshotInv, IterationInv, Branch
  PROVE  IterationInv'
<1> DEFINE r == Head(stack).reference
           v == NodeOf(r).variable
           h == NodeOf(r).hi
           l == NodeOf(r).lo
           a == Visit(l)
           b == IncludeItem(NodeOf(r))
           P == Elements(current)
<1>1. /\ phase = "iterate" /\ stack # << >> /\ Head(stack).kind = "visit" /\ r >= 2
      /\ phase' = phase /\ UNCHANGED snapshot /\ current' = current /\ emitted' = emitted
      /\ stack' = <<a, b>> \o Tail(stack)
  BY DEF Branch, Stepping
<1>2. PICK c, p : /\ c[1] = current /\ Traversal(c, p, stack, emitted)
                  /\ current \in Seq(Var) /\ Ascending(current)
                  /\ stack \in Seq(StackItem)
                  /\ Head(stack) = stack[1] /\ stack[1] \in StackItem
                  /\ IsPart(stack[1], current, p[1])
  BY <1>1, TraversalNow
<1>3. /\ r \in References /\ Under(P, FamilyOf(r)) /\ p[1] = Joint(P, FamilyOf(r))
      /\ stack[1].kind = "visit"
  BY <1>1, <1>2 DEF IsPart
<1>4. Complete
  BY <1>1 DEF Complete
<1>5. /\ v \in Var /\ h \in References /\ l \in References
      /\ FamilyOf(r) = Node(v, FamilyOf(h), FamilyOf(l))
      /\ FamilyOf(h) # Zero
      /\ \A w \in Support(FamilyOf(h)) \union Support(FamilyOf(l)) : v < w
  BY <1>1, <1>3, <1>4, CompleteFacts, NodeFacts
<1>6. h \in Int /\ l \in Int /\ v \in Int
  BY <1>5, NAssumption, LenProperties DEF References, SnapshotInv, RootsInv, Var
<1>7. /\ a = [kind |-> "visit", reference |-> l, variable |-> None]
      /\ b = [kind |-> "include", reference |-> h, variable |-> v]
  BY DEF Visit, IncludeItem
<1>8. a \in StackItem /\ b \in StackItem
  BY <1>6, <1>7 DEF StackItem, None
<1> HIDE DEF v, h, l
<1>9. PICK H \in Family, L \in Family : H = FamilyOf(h) /\ L = FamilyOf(l)
  BY <1>5, FamilyFacts
<1>10. P \in SUBSET Var
  <2>1. \A i \in DOMAIN current : current[i] \in Var
    BY <1>2, LenProperties, ElementOfSeq
  <2> QED
    BY <2>1 DEF Elements
<1> HIDE DEF P
<1>11. PICK u \in Var : u = v
  BY <1>5
<1>12. H # Zero /\ (\A w \in Support(H) \union Support(L) : u < w) /\ Under(P, Node(u, H, L))
  BY <1>3, <1>5, <1>9, <1>11
<1>13. /\ Joint(P, Node(u, H, L)) = Joint(P, L) \union Joint(P \union {u}, H)
       /\ AllBefore(Joint(P, L), Joint(P \union {u}, H))
       /\ Under(P, L)
       /\ \A w \in P : w < u
       /\ Under(P \union {u}, H)
  BY <1>10, <1>12, NodeParts
<1>14. PICK A, B : A = Joint(P, L) /\ B = Joint(P \union {u}, H)
  OBVIOUS
<1>15. p[1] = A \union B /\ AllBefore(A, B)
  BY <1>3, <1>5, <1>9, <1>11, <1>13, <1>14
<1>16. PICK f \in StackItem, g \in StackItem : f = a /\ g = b
  BY <1>8
<1>17. IsPart(f, current, A)
  BY <1>5, <1>7, <1>9, <1>13, <1>14, <1>16 DEF IsPart, P
<1>18. IsPart(g, current, B)
  BY <1>5, <1>7, <1>9, <1>11, <1>13, <1>14, <1>16 DEF IsPart, P
<1>19. After(f, current) = current /\ After(g, current) = current /\ After(stack[1], c[1]) = current
  BY <1>2, <1>3, <1>7, <1>16 DEF After
<1>20. PICK t \in Seq(StackItem) : t = Tail(stack)
  BY <1>1, <1>2, StackHead
<1>21. PICK y : y = <<f, g>> \o t
  OBVIOUS
<1>22. IsPushed(y, f, g, stack) /\ stack' = y
  <2>1. IsPushed(y, f, g, stack)
    BY <1>1, <1>2, <1>20, <1>21, PushedStack
  <2> QED
    BY <1>1, <1>16, <1>20, <1>21, <2>1
<1>23. PICK d, x : d[1] = current /\ Traversal(d, x, y, emitted)
  <2>1. /\ Traversal(c, p, stack, emitted) /\ stack # << >> /\ current \in Seq(Var) /\ Ascending(current)
        /\ After(f, current) = current /\ After(g, current) = After(stack[1], c[1])
        /\ IsPart(f, current, A) /\ IsPart(g, current, B)
        /\ p[1] = A \union B /\ AllBefore(A, B) /\ IsPushed(y, f, g, stack)
    BY <1>1, <1>2, <1>15, <1>17, <1>18, <1>19, <1>22
  <2> QED
    BY <2>1, SplitTop
<1>24. PICK em : em = emitted
  OBVIOUS
<1>25. (\E e, z : e[1] = current /\ Traversal(e, z, stack, emitted))'
  BY <1>1, <1>22, <1>23, <1>24, NextTraversal
<1> QED
  BY <1>1, <1>25 DEF IterationInv

\* The variable of the HI branch enters the buffer.
LEMMA IterationInclude ==
  ASSUME SnapshotInv, IterationInv, Include
  PROVE  IterationInv'
<1> DEFINE r == Head(stack).reference
           v == Head(stack).variable
           a == Visit(r)
           b == RemoveItem
           P == Elements(current)
<1>1. /\ phase = "iterate" /\ stack # << >> /\ Head(stack).kind = "include"
      /\ phase' = phase /\ UNCHANGED snapshot /\ current' = Append(current, v) /\ emitted' = emitted
      /\ stack' = <<a, b>> \o Tail(stack)
  BY DEF Include, Stepping
<1>2. PICK c, p : /\ c[1] = current /\ Traversal(c, p, stack, emitted)
                  /\ current \in Seq(Var) /\ Ascending(current)
                  /\ stack \in Seq(StackItem)
                  /\ Head(stack) = stack[1] /\ stack[1] \in StackItem
                  /\ IsPart(stack[1], current, p[1])
  BY <1>1, TraversalNow
<1>3. /\ r \in References /\ v \in Var /\ \A u \in P : u < v
      /\ Under(P \union {v}, FamilyOf(r)) /\ p[1] = Joint(P \union {v}, FamilyOf(r))
      /\ stack[1].kind = "include"
  BY <1>1, <1>2 DEF IsPart
<1>4. /\ a = [kind |-> "visit", reference |-> r, variable |-> None]
      /\ b = [kind |-> "remove", reference |-> None, variable |-> None]
      /\ r \in Int
  BY <1>3, LenProperties DEF Visit, RemoveItem, References, SnapshotInv, RootsInv
<1>5. PICK f \in StackItem, g \in StackItem : f = a /\ g = b
  BY <1>4 DEF StackItem, None
<1>6. PICK q \in Seq(Var) : q = Append(current, v)
  BY <1>2, <1>3, AppendProperties
<1>7. Elements(q) = P \union {v}
  BY <1>2, <1>3, <1>6, ElementsOfAppend
<1>8. Ascending(q) /\ SubSeq(q, 1, Len(q) - 1) = current
  BY <1>2, <1>3, <1>6, AscendingAppend
<1>9. PICK A, B : A = p[1] /\ B = {}
  OBVIOUS
<1>10. p[1] = A \union B /\ AllBefore(A, B)
  BY <1>9 DEF AllBefore
<1>11. IsPart(f, q, A)
  BY <1>3, <1>4, <1>5, <1>7, <1>9 DEF IsPart
<1>12. IsPart(g, q, B)
  BY <1>4, <1>5, <1>9 DEF IsPart
<1>13. After(f, q) = q /\ After(g, q) = After(stack[1], c[1])
  BY <1>2, <1>3, <1>4, <1>5, <1>8 DEF After
<1>14. PICK t \in Seq(StackItem) : t = Tail(stack)
  BY <1>1, <1>2, StackHead
<1>15. PICK y : y = <<f, g>> \o t
  OBVIOUS
<1>16. IsPushed(y, f, g, stack) /\ stack' = y
  <2>1. IsPushed(y, f, g, stack)
    BY <1>1, <1>2, <1>14, <1>15, PushedStack
  <2> QED
    BY <1>1, <1>5, <1>14, <1>15, <2>1
<1>17. PICK d, x : d[1] = q /\ Traversal(d, x, y, emitted)
  <2>1. /\ Traversal(c, p, stack, emitted) /\ stack # << >> /\ Ascending(q)
        /\ After(f, q) = q /\ After(g, q) = After(stack[1], c[1])
        /\ IsPart(f, q, A) /\ IsPart(g, q, B)
        /\ p[1] = A \union B /\ AllBefore(A, B) /\ IsPushed(y, f, g, stack)
    BY <1>1, <1>2, <1>8, <1>10, <1>11, <1>12, <1>13, <1>16
  <2> QED
    BY <2>1, SplitTop
<1>18. PICK em : em = emitted
  OBVIOUS
<1>19. (\E e, z : e[1] = current /\ Traversal(e, z, stack, emitted))'
  BY <1>1, <1>6, <1>16, <1>17, <1>18, NextTraversal
<1> QED
  BY <1>1, <1>19 DEF IterationInv

\* The traversal starts at the root with an empty buffer.
LEMMA IterationCopied ==
  ASSUME SnapshotInv, IterationInv, Copied
  PROVE  IterationInv'
<1>1. /\ phase = "copy" /\ Len(nodes) = Len(roots) /\ UNCHANGED snapshot
      /\ phase' \in {"count", "iterate"}
      /\ phase' = "iterate" => stack' = <<Visit(RootReference)>>
      /\ current' = current /\ emitted' = emitted
  BY DEF Copied
<1>2. current = << >> /\ emitted = << >>
  BY <1>1 DEF IterationInv
<1>3. ASSUME phase' = "iterate"
      PROVE  (\E c, p : c[1] = current /\ Traversal(c, p, stack, emitted))'
  <2>1. source \in Listed(roots)
    BY <1>1 DEF SnapshotInv, RootsInv
  <2>2. RootReference \in References /\ FamilyOf(RootReference) = source
    BY <2>1, RootFacts
  <2>3. PICK item : item = Visit(RootReference)
    OBVIOUS
  <2>4. /\ item.kind = "visit" /\ item.reference = RootReference
        /\ item \in StackItem
    <3>1. RootReference \in Int
      BY <2>2, LenProperties DEF References, SnapshotInv, RootsInv
    <3> QED
      BY <2>3, <3>1 DEF Visit, StackItem, None
  <2>5. PICK st : st = <<item>>
    OBVIOUS
  <2>6. st \in Seq(StackItem) /\ Len(st) = 1 /\ st[1] = item
    BY <2>4, <2>5
  <2>7. PICK empty : empty = << >>
    OBVIOUS
  <2>8. /\ empty \in Seq(Var) /\ Elements(empty) = {} /\ Ascending(empty)
        /\ empty \in Seq(Seq(Var)) /\ Len(empty) = 0
    <3>1. DOMAIN << >> = {}
      OBVIOUS
    <3>2. empty \in Seq(Var) /\ empty \in Seq(Seq(Var)) /\ Len(empty) = 0
      BY <2>7
    <3> QED
      BY <2>7, <3>1, <3>2 DEF Elements, Ascending
  <2>9. PICK c : c = [i \in 1 .. 2 |-> empty]
    OBVIOUS
  <2>10. PICK p : p = [i \in 1 .. 1 |-> source]
    OBVIOUS
  <2>11. c[1] = empty /\ c[2] = empty /\ c[1 + 1] = empty /\ p[1] = source
    BY <2>9, <2>10
  <2>12. IsPart(item, empty, source)
    <3>1. Under({}, source) /\ Joint({}, source) = source
      <4>1. \A S : {} \union S = S
        OBVIOUS
      <4> QED
        BY <4>1 DEF Under, Joint
    <3> QED
      BY <2>2, <2>4, <2>8, <3>1 DEF IsPart
  <2>13. After(item, empty) = empty
    BY <2>4 DEF After
  <2>14. Buffers(c, p, st)
    <3>1. \A i \in 1 .. 1 : i = 1
      OBVIOUS
    <3>2. \A i \in 1 .. 1 + 1 : i = 1 \/ i = 2
      OBVIOUS
    <3>3. \A i \in 1 .. Len(st) + 1 : c[i] \in Seq(Var) /\ Ascending(c[i])
      BY <2>6, <2>8, <2>11, <3>2
    <3>4. \A i \in 1 .. Len(st) : c[i + 1] = After(st[i], c[i]) /\ IsPart(st[i], c[i], p[i])
      BY <2>6, <2>11, <2>12, <2>13, <3>1
    <3>5. c[Len(st) + 1] = << >>
      BY <2>6, <2>7, <2>11
    <3> QED
      BY <2>6, <3>3, <3>4, <3>5 DEF Buffers
  <2>15. InOrder(p, Len(st), empty, source)
    <3>1. 1 .. Len(st) = {1} /\ 1 .. Len(empty) = {}
      BY <2>6, <2>8
    <3> QED
      BY <2>11, <3>1 DEF InOrder
  <2>16. Traversal(c, p, st, empty)
    <3>1. 1 .. Len(empty) = {}
      BY <2>8
    <3> QED
      BY <2>8, <2>14, <2>15, <3>1 DEF Traversal
  <2>17. stack' = st /\ emitted' = empty /\ c[1] = current'
    BY <1>1, <1>2, <1>3, <2>3, <2>5, <2>7, <2>11
  <2> QED
    BY <1>1, <2>16, <2>17, NextTraversal
<1> QED
  BY <1>1, <1>3 DEF IterationInv

\* The other steps keep the traversal invariant.
LEMMA IterationOther ==
  ASSUME SnapshotInv, IterationInv,
         Begin \/ CopyNode \/ OverNodeLimit \/ Counts \/ OverBitLimit \/ Samples \/ UNCHANGED vars
  PROVE  IterationInv'
<1>1. CASE Begin \/ CopyNode
  <2>1. phase \in {"called", "copy"} /\ phase' = "copy" /\ current' = current /\ emitted' = emitted
    BY <1>1 DEF Begin, CopyNode, traversal
  <2> QED
    BY <2>1 DEF IterationInv
<1>2. CASE OverNodeLimit \/ OverBitLimit \/ Counts \/ Samples
  <2>1. phase' \in {"failed", "count", "indexed", "walk", "sampled"}
    <3>1. CASE OverNodeLimit \/ OverBitLimit
      BY <3>1 DEF OverNodeLimit, OverBitLimit, Fail
    <3>2. CASE Counts
      BY <3>2 DEF Counts, CountKnown, CountExpand, StoreCount, CountDone, Pending, Counting
    <3>3. CASE Samples
      BY <3>3 DEF Samples, SampleNothing, Draw, Walk, SampleFound
    <3> QED
      BY <1>2, <3>1, <3>2, <3>3
  <2> QED
    BY <2>1 DEF IterationInv
<1>3. CASE UNCHANGED vars
  <2>1. UNCHANGED <<phase, current, stack, emitted>> /\ UNCHANGED snapshot
    BY <1>3 DEF vars, traversal
  <2>2. ASSUME phase = "iterate"
        PROVE  (\E c, p : c[1] = current /\ Traversal(c, p, stack, emitted))'
    <3>1. PICK c, p : c[1] = current /\ Traversal(c, p, stack, emitted)
      BY <2>2 DEF IterationInv
    <3>2. PICK st, em : st = stack /\ em = emitted
      OBVIOUS
    <3> QED
      BY <2>1, <3>1, <3>2, NextTraversal
  <2> QED
    BY <2>1, <2>2 DEF IterationInv
<1> QED
  BY <1>1, <1>2, <1>3

\* Every step keeps the traversal invariant.
LEMMA IterationStep ==
  SnapshotInv /\ IterationInv /\ [Next]_vars => IterationInv'
<1> SUFFICES ASSUME SnapshotInv, IterationInv, [Next]_vars PROVE IterationInv'
  OBVIOUS
<1>1. SkipZero \/ Yield \/ Branch \/ Include \/ Remove \/ Copied
      \/ Begin \/ CopyNode \/ OverNodeLimit \/ Counts \/ OverBitLimit \/ Samples \/ UNCHANGED vars
  BY DEF Next, Counts, Samples
<1> QED
  BY <1>1, IterationSkipZero, IterationYield, IterationBranch, IterationInclude, IterationRemove,
     IterationCopied, IterationOther

\* The first state has the traversal invariant.
LEMMA IterationInit ==
  Init => IterationInv
BY DEF Init, IterationInv

\* No set is yielded twice.
LEMMA YieldedOnce ==
  ASSUME NEW p, NEW m, NEW em, NEW whole, InOrder(p, m, em, whole), NEW n \in Nat, n <= Len(em), Len(em) \in Nat
  PROVE  Cardinality({Elements(em[k]) : k \in 1 .. n}) = n
<1> DEFINE f == [k \in 1 .. n |-> Elements(em[k])]
           T == {Elements(em[k]) : k \in 1 .. n}
<1>1. f \in [1 .. n -> T] /\ \A k \in 1 .. n : f[k] = Elements(em[k])
  OBVIOUS
<1>2. \A S \in T : \E k \in 1 .. n : Elements(em[k]) = S
  OBVIOUS
<1>3. ASSUME NEW k \in 1 .. n, NEW l \in 1 .. n, Elements(em[k]) = Elements(em[l])
      PROVE  k = l
  <2>1. \A i, j \in 1 .. Len(em) : i < j => Elements(em[i]) # Elements(em[j])
    BY PrecedesIrreflexive DEF InOrder
  <2>2. k \in 1 .. Len(em) /\ l \in 1 .. Len(em)
    OBVIOUS
  <2>3. ~(k < l) /\ ~(l < k)
    BY <1>3, <2>1, <2>2
  <2> QED
    BY <2>3
<1> HIDE DEF f, T
<1>4. f \in Bijection(1 .. n, T)
  <2>1. f \in Surjection(1 .. n, T)
    BY <1>1, <1>2 DEF Surjection
  <2>2. f \in Injection(1 .. n, T)
    BY <1>1, <1>3 DEF Injection, IsInjective
  <2> QED
    BY <2>1, <2>2 DEF Bijection
<1>5. Cardinality(T) = n
  BY <1>4, FS_CountingElements DEF ExistsBijection
<1> QED
  BY <1>5 DEF T

\* The invariants imply the exactness of the iterator.
LEMMA IterationIsExact ==
  SnapshotInv /\ IterationInv => IterationExact
<1> SUFFICES ASSUME SnapshotInv, IterationInv, phase = "iterate"
             PROVE  /\ \A i \in DOMAIN emitted : Ascending(emitted[i])
                    /\ \A i \in DOMAIN emitted :
                         LET S == Elements(emitted[i])
                         IN S \in source /\ Cardinality({T \in source : Precedes(T, S)}) = i - 1
                    /\ stack = << >> => Len(emitted) = Cardinality(source) /\ current = << >>
  BY DEF IterationExact
<1>1. PICK c, p : c[1] = current /\ Traversal(c, p, stack, emitted)
  BY DEF IterationInv
<1>2. /\ Buffers(c, p, stack) /\ InOrder(p, Len(stack), emitted, source)
      /\ emitted \in Seq(Seq(Var)) /\ \A k \in 1 .. Len(emitted) : Ascending(emitted[k])
  BY <1>1 DEF Traversal
<1>3. DOMAIN emitted = 1 .. Len(emitted) /\ Len(emitted) \in Nat
  BY <1>2, LenProperties
<1>4. PICK m, n : m \in Nat /\ m = Len(emitted) /\ n = Len(stack)
  BY <1>3
<1>5. PICK w, em : w = source /\ em = emitted
  OBVIOUS
<1>6. InOrder(p, n, em, w) /\ Len(em) = m
  BY <1>2, <1>4, <1>5
<1>7. \A S \in w : S \in SUBSET Int
  <2>1. w \in Family
    BY <1>5 DEF SnapshotInv, StaticInv
  <2> QED
    BY <2>1, NAssumption DEF Family, Var
<1>8. ASSUME NEW i \in 1 .. m
      PROVE  Elements(em[i]) \in w /\ Cardinality({T \in w : Precedes(T, Elements(em[i]))}) = i - 1
  <2> DEFINE S == Elements(em[i])
  <2>1. S \in w
    BY <1>6 DEF InOrder
  <2>2. {T \in w : Precedes(T, S)} = {Elements(em[k]) : k \in 1 .. i - 1}
    <3>1. ASSUME NEW T \in w, Precedes(T, S)
          PROVE  \E k \in 1 .. i - 1 : T = Elements(em[k])
      <4>1. ~Precedes(S, T)
        BY <1>7, <2>1, <3>1, PrecedesAsymmetric
      <4>2. ~(\E j \in 1 .. n : T \in p[j])
        <5>1. \A j \in 1 .. n : AllBefore({S}, p[j])
          BY <1>6 DEF InOrder
        <5> HIDE DEF S
        <5> QED
          BY <4>1, <5>1 DEF AllBefore
      <4>3. PICK k \in 1 .. m : T = Elements(em[k])
        BY <1>6, <4>2 DEF InOrder
      <4>4. k # i
        BY <3>1, <4>3, PrecedesIrreflexive
      <4>5. ~(i < k)
        <5>1. i < k => Precedes(S, Elements(em[k]))
          BY <1>6 DEF InOrder
        <5> QED
          BY <4>1, <4>3, <5>1
      <4>6. k \in 1 .. i - 1
        BY <4>4, <4>5
      <4> QED
        BY <4>3, <4>6
    <3>2. ASSUME NEW k \in 1 .. i - 1
          PROVE  Elements(em[k]) \in w /\ Precedes(Elements(em[k]), S)
      <4>1. k \in 1 .. m /\ k < i
        BY <1>4
      <4> QED
        BY <1>6, <4>1 DEF InOrder
    <3> HIDE DEF S
    <3> QED
      BY <3>1, <3>2
  <2>3. i - 1 \in Nat /\ i - 1 <= Len(em) /\ Len(em) \in Nat
    BY <1>6
  <2>4. PICK h \in Nat : h = i - 1
    BY <2>3
  <2>5. Cardinality({Elements(em[k]) : k \in 1 .. h}) = h
    BY <1>6, <2>3, <2>4, YieldedOnce
  <2> QED
    BY <2>1, <2>2, <2>4, <2>5
<1>9. ASSUME stack = << >>
      PROVE  Len(emitted) = Cardinality(source) /\ current = << >>
  <2>1. n = 0
    BY <1>4, <1>9
  <2>2. c[0 + 1] = << >>
    BY <1>2, <1>4, <2>1 DEF Buffers
  <2>3. w = {Elements(em[k]) : k \in 1 .. m}
    <3>1. 1 .. n = {}
      BY <2>1
    <3>2. \A S : S \in w <=> \E k \in 1 .. m : S = Elements(em[k])
      BY <1>6, <3>1 DEF InOrder
    <3> QED
      BY <3>2
  <2>4. Cardinality(w) = m
    BY <1>6, <2>3, YieldedOnce
  <2> QED
    BY <1>1, <1>4, <1>5, <2>2, <2>4
<1> QED
  BY <1>2, <1>3, <1>4, <1>5, <1>8, <1>9

----------------------------------------------------------------------------
(* The theorems.                                                           *)

IInv == SnapshotInv /\ CountingInv /\ SamplingInv /\ IterationInv

\* Every reachable state of a query has the inductive invariant, for any number
\* of variables, any sources and limits and any width of a byte.
THEOREM Invariance == Spec => []IInv
<1>1. Init => IInv
  BY SnapshotInit, CountingInit, SamplingInit, IterationInit DEF IInv
<1>2. IInv /\ [Next]_vars => IInv'
  BY SnapshotStep, CountingStep, SamplingStep, IterationStep DEF IInv
<1> QED
  BY <1>1, <1>2, PTL DEF Spec

\* query_snapshot copies exactly the diagram of the queried family: the root
\* reference stands for the family, there is one node for each node of the
\* diagram, and children follow their parents' variables.
THEOREM SnapshotsAreExact == Spec => []SnapshotExact
<1>1. IInv => SnapshotExact
  BY SnapshotIsExact DEF IInv
<1> QED
  BY <1>1, Invariance, PTL

\* CountIndex::from_dag counts every reference exactly, has the counts of both
\* children whenever it sums a node, so that its `expect` calls cannot panic,
\* and leaves out no count that a later look-up needs.
THEOREM IndexIsExact == Spec => []CountsExact
<1>1. IInv => CountsExact
  BY CountsAreExact DEF IInv
<1> QED
  BY <1>1, Invariance, PTL

\* count_index fails with the node limit exactly when the diagram has too many
\* nodes, and with the bit limit exactly when all its counts need too many bits.
THEOREM QueryLimitsAreExact == Spec => []LimitsExact
<1>1. IInv => LimitsExact
  BY LimitsAreExact DEF IInv
<1> QED
  BY <1>1, Invariance, PTL

\* SolutionTraversal yields the sets of the source in exclude-first order, each
\* once and each ascending, and all of them by the time its stack is empty.
THEOREM TraversalIsExact == Spec => []IterationExact
<1>1. IInv => IterationExact
  BY IterationIsExact DEF IInv
<1> QED
  BY <1>1, Invariance, PTL

\* A sample is the set at the drawn place of the exclude-first order, and the
\* draw favours no rank, whatever the number of bits of the count.
THEOREM SamplingIsUniform == Spec => []SamplesUniform
<1>1. IInv => SamplesUniform
  BY SamplesAreUniform DEF IInv
<1> QED
  BY <1>1, Invariance, PTL

----------------------------------------------------------------------------
(* Edge families.  Seen through the maps of its space a family of sets of  *)
(* variables is one of sets of edges; the invariant says that the lists    *)
(* mapped so far are the variables of the edges listed, and that a walk    *)
(* under way will give the right answer.                                   *)

(* Ascending lists.                                                        *)

\* The list q has the elements of S in ascending order, each once.
Ascends(q, S) ==
  /\ q \in Seq(S)
  /\ Len(q) = Cardinality(S)
  /\ \A x \in S : \E i \in DOMAIN q : q[i] = x
  /\ \A i, j \in DOMAIN q : i < j => q[i] < q[j]

\* A finite set of numbers that is not empty has a greatest one.
LEMMA GreatestVariable ==
  ASSUME NEW S \in SUBSET Var, S # {}
  PROVE  \E v \in S : \A w \in S : w <= v
<1> DEFINE Rest == {N - 1 - v : v \in S}
<1>1. \A v \in S : v \in Int /\ 0 <= v /\ v <= N - 1 /\ N - 1 - v \in Var
  BY NAssumption DEF Var
<1>2. Rest \in SUBSET Var /\ Rest # {}
  BY <1>1
<1>3. PICK r \in Rest : \A s \in Rest : r <= s
  BY <1>2, LeastVariable
<1>4. PICK v \in S : r = N - 1 - v
  BY <1>3
<1>5. \A w \in S : w <= v
  <2> SUFFICES ASSUME NEW w \in S PROVE w <= v
    OBVIOUS
  <2>1. N - 1 - w \in Rest
    OBVIOUS
  <2>2. N - 1 - v <= N - 1 - w
    BY <1>3, <1>4, <2>1
  <2> QED
    BY <1>1, <2>2, NAssumption
<1> QED
  BY <1>5

\* Sets of variables are finite.
LEMMA VariablesFinite ==
  ASSUME NEW S \in SUBSET Var
  PROVE  IsFiniteSet(S) /\ Cardinality(S) \in Nat
<1>1. IsFiniteSet(Var)
  BY NAssumption, FS_Interval DEF Var
<1> QED
  BY <1>1, FS_Subset, FS_CardinalityType

\* Every set of variables has an ascending list.
LEMMA AscendingExists ==
  ASSUME NEW S \in SUBSET Var
  PROVE  \E q : Ascends(q, S)
<1> DEFINE Good == {n \in Nat : \A T \in SUBSET Var : Cardinality(T) = n => \E q : Ascends(q, T)}
<1>1. 0 \in Good
  <2> SUFFICES ASSUME NEW T \in SUBSET Var, Cardinality(T) = 0 PROVE \E q : Ascends(q, T)
    OBVIOUS
  <2>1. T = {}
    BY VariablesFinite, FS_EmptySet
  <2>2. Ascends(<< >>, T)
    BY <2>1, FS_EmptySet DEF Ascends
  <2> QED
    BY <2>2
<1>2. ASSUME NEW n \in Nat, n \in Good PROVE n + 1 \in Good
  <2> SUFFICES ASSUME NEW T \in SUBSET Var, Cardinality(T) = n + 1 PROVE \E q : Ascends(q, T)
    OBVIOUS
  <2>1. T # {} /\ IsFiniteSet(T)
    BY VariablesFinite, FS_EmptySet
  <2>2. PICK v \in T : \A w \in T : w <= v
    BY <2>1, GreatestVariable
  <2> DEFINE R == T \ {v}
  <2>3. Cardinality(R) = n /\ R \in SUBSET Var
    BY <2>1, FS_RemoveElement
  <2>4. PICK q : Ascends(q, R)
    BY <1>2, <2>3
  <2> DEFINE r == Append(q, v)
  <2>5. q \in Seq(T) /\ Len(q) = n /\ DOMAIN q = 1 .. n /\ q \in Seq(R)
    BY <2>3, <2>4 DEF Ascends
  <2>6. r \in Seq(T) /\ Len(r) = n + 1 /\ DOMAIN r = 1 .. n + 1
    BY <2>5
  <2>7. r[n + 1] = v /\ \A i \in 1 .. n : r[i] = q[i] /\ q[i] \in R
    BY <2>5
  <2>8. \A x \in R : \E i \in 1 .. n : q[i] = x
    BY <2>4, <2>5 DEF Ascends
  <2>9. \A i, j \in 1 .. n : i < j => q[i] < q[j]
    BY <2>4, <2>5 DEF Ascends
  <2>10. \A w \in R : w < v
    BY <2>2, NAssumption DEF Var
  <2> HIDE DEF r
  <2>11. \A x \in T : \E i \in DOMAIN r : r[i] = x
    <3> SUFFICES ASSUME NEW x \in T PROVE \E i \in DOMAIN r : r[i] = x
      OBVIOUS
    <3>1. CASE x = v
      BY <3>1, <2>6, <2>7
    <3>2. CASE x \in R
      <4>1. PICK i \in 1 .. n : q[i] = x
        BY <2>8, <3>2
      <4> QED
        BY <4>1, <2>6, <2>7
    <3> QED
      BY <3>1, <3>2
  <2>12. \A i, j \in DOMAIN r : i < j => r[i] < r[j]
    <3> SUFFICES ASSUME NEW i \in 1 .. n + 1, NEW j \in 1 .. n + 1, i < j PROVE r[i] < r[j]
      BY <2>6
    <3>1. i \in 1 .. n
      OBVIOUS
    <3>2. CASE j = n + 1
      BY <3>1, <3>2, <2>7, <2>10
    <3>3. CASE j \in 1 .. n
      BY <3>1, <3>3, <2>7, <2>9
    <3> QED
      BY <3>2, <3>3
  <2>13. Ascends(r, T)
    BY <2>6, <2>11, <2>12 DEF Ascends
  <2> QED
    BY <2>13
<1> HIDE DEF Good
<1>3. Cardinality(S) \in Nat
  BY VariablesFinite
<1>4. 0 .. Cardinality(S) \subseteq Good
  BY <1>1, <1>2, <1>3, SetInduction
<1>5. Cardinality(S) \in Good
  BY <1>3, <1>4
<1> QED
  BY <1>5 DEF Good

\* Sorted gives it.
LEMMA SortedAscends ==
  ASSUME NEW S \in SUBSET Var
  PROVE  Ascends(Sorted(S), S)
<1> DEFINE n == Cardinality(S)
           IsOrder(q) == \A i, j \in DOMAIN q : i < j => q[i] < q[j]
<1>1. PICK q : Ascends(q, S)
  BY AscendingExists
<1>2. n \in Nat /\ IsFiniteSet(S)
  BY VariablesFinite
<1>3. q \in [1 .. n -> S] /\ IsOrder(q)
  BY <1>1, <1>2 DEF Ascends
<1>4. Sorted(S) \in [1 .. n -> S] /\ IsOrder(Sorted(S))
  BY <1>3 DEF Sorted
<1> DEFINE s == Sorted(S)
<1> HIDE DEF n, s
<1>5. s \in [1 .. n -> S] /\ \A i, j \in 1 .. n : i < j => s[i] < s[j]
  BY <1>4 DEF s
<1>6. \A x \in S : x \in Int
  BY NAssumption DEF Var
<1>7. \A i, j \in 1 .. n : s[i] = s[j] => i = j
  <2> SUFFICES ASSUME NEW i \in 1 .. n, NEW j \in 1 .. n, i # j PROVE s[i] # s[j]
    OBVIOUS
  <2>1. i < j \/ j < i
    OBVIOUS
  <2> QED
    BY <2>1, <1>5, <1>6
<1>8. \A x \in S : \E i \in 1 .. n : s[i] = x
  <2>1. IsFiniteSet(1 .. n) /\ Cardinality(1 .. n) = n
    BY <1>2, FS_Interval
  <2>2. s \in Injection(1 .. n, S)
    BY <1>5, <1>7 DEF Injection, IsInjective
  <2> QED
    BY <1>2, <2>1, <2>2, FS_Injection DEF n, Surjection
<1>9. s \in Seq(S) /\ Len(s) = n /\ DOMAIN s = 1 .. n
  BY <1>2, <1>5, LenProperties
<1> QED
  BY <1>5, <1>8, <1>9 DEF Ascends, n, s

----------------------------------------------------------------------------
(* From variables to edges and back.                                       *)

Maps == Bijection(Var, Edge)

Image(m, S) == {m[v] : v \in S}
ImageOf(m, F) == {Image(m, S) : S \in F}

\* A map is a function on the edges that has an inverse.
LEMMA MapFacts ==
  ASSUME NEW m \in Maps
  PROVE  /\ m \in [Var -> Var]
         /\ \A v, w \in Var : m[v] = m[w] => v = w
         /\ \A e \in Var : \E v \in Var : m[v] = e
<1>1. m \in Injection(Var, Var) /\ m \in Surjection(Var, Var)
  BY DEF Maps, Bijection, Edge
<1> QED
  BY <1>1 DEF Injection, Surjection, IsInjective

\* Sets of variables and sets of edges correspond.
LEMMA ImageFacts ==
  ASSUME NEW m \in Maps, NEW S \in SUBSET Var, NEW T \in SUBSET Var
  PROVE  /\ Image(m, S) \in SUBSET Var
         /\ \A v \in Var : v \in S <=> m[v] \in Image(m, S)
         /\ S \subseteq T <=> Image(m, S) \subseteq Image(m, T)
         /\ S = T <=> Image(m, S) = Image(m, T)
         /\ Cardinality(Image(m, S)) = Cardinality(S)
<1>1. m \in [Var -> Var] /\ \A v, w \in Var : m[v] = m[w] => v = w
  BY MapFacts
<1>2. Image(m, S) \in SUBSET Var
  BY <1>1 DEF Image
<1>3. \A v \in Var : v \in S <=> m[v] \in Image(m, S)
  BY <1>1 DEF Image
<1>4. \A v \in Var : v \in T <=> m[v] \in Image(m, T)
  BY <1>1 DEF Image
<1>5. S \subseteq T <=> Image(m, S) \subseteq Image(m, T)
  <2>1. S \subseteq T => Image(m, S) \subseteq Image(m, T)
    BY DEF Image
  <2>2. ASSUME Image(m, S) \subseteq Image(m, T), NEW v \in S PROVE v \in T
    BY <1>3, <1>4, <2>2
  <2> QED
    BY <2>1, <2>2
<1>6. S = T <=> Image(m, S) = Image(m, T)
  <2>1. ASSUME Image(m, S) = Image(m, T), NEW v \in Var PROVE v \in S <=> v \in T
    BY <1>3, <1>4, <2>1
  <2> QED
    BY <2>1
<1>7. Cardinality(Image(m, S)) = Cardinality(S)
  <2> DEFINE f == [v \in S |-> m[v]]
  <2>1. f \in Injection(S, Image(m, S)) /\ f \in Surjection(S, Image(m, S))
    <3>1. f \in [S -> Image(m, S)] /\ IsInjective(f)
      BY <1>1 DEF Image, IsInjective
    <3>2. \A e \in Image(m, S) : \E v \in S : f[v] = e
      BY DEF Image
    <3> QED
      BY <3>1, <3>2 DEF Injection, Surjection
  <2> HIDE DEF f
  <2>2. IsFiniteSet(S) /\ IsFiniteSet(Image(m, S))
    BY <1>2, VariablesFinite
  <2> QED
    BY <2>1, <2>2, FS_Injection
<1> QED
  BY <1>2, <1>3, <1>5, <1>6, <1>7

\* Every set of edges is that of one set of variables.
LEMMA ImageOnto ==
  ASSUME NEW m \in Maps, NEW E \in SUBSET Var
  PROVE  \E S \in SUBSET Var : Image(m, S) = E
<1> DEFINE S == {v \in Var : m[v] \in E}
<1>1. Image(m, S) = E
  BY MapFacts DEF Image
<1> QED
  BY <1>1

\* So do families.
LEMMA FamilyImages ==
  ASSUME NEW m \in Maps, NEW F \in Family, NEW G \in Family
  PROVE  /\ ImageOf(m, F) \in Family
         /\ \A S \in SUBSET Var : S \in F <=> Image(m, S) \in ImageOf(m, F)
         /\ F \subseteq G <=> ImageOf(m, F) \subseteq ImageOf(m, G)
         /\ F = G <=> ImageOf(m, F) = ImageOf(m, G)
<1>1. \A S, T \in SUBSET Var : Image(m, S) \in SUBSET Var /\ (S = T <=> Image(m, S) = Image(m, T))
  BY ImageFacts
<1>2. \A S \in F : S \in SUBSET Var
  BY DEF Family
<1>3. \A S \in G : S \in SUBSET Var
  BY DEF Family
<1>4. ImageOf(m, F) \in Family
  BY <1>1, <1>2 DEF ImageOf, Family
<1>5. \A S \in SUBSET Var : S \in F <=> Image(m, S) \in ImageOf(m, F)
  BY <1>1, <1>2 DEF ImageOf
<1>6. \A S \in SUBSET Var : S \in G <=> Image(m, S) \in ImageOf(m, G)
  BY <1>1, <1>3 DEF ImageOf
<1>7. F \subseteq G <=> ImageOf(m, F) \subseteq ImageOf(m, G)
  <2>1. F \subseteq G => ImageOf(m, F) \subseteq ImageOf(m, G)
    BY DEF ImageOf
  <2>2. ASSUME ImageOf(m, F) \subseteq ImageOf(m, G), NEW S \in F PROVE S \in G
    BY <1>2, <1>5, <1>6, <2>2
  <2> QED
    BY <2>1, <2>2
<1>8. F = G <=> ImageOf(m, F) = ImageOf(m, G)
  <2>1. ASSUME ImageOf(m, F) = ImageOf(m, G), NEW S \in SUBSET Var PROVE S \in F <=> S \in G
    BY <1>5, <1>6, <2>1
  <2> QED
    BY <2>1, <1>2, <1>3
<1> QED
  BY <1>4, <1>5, <1>7, <1>8

\* The set operations mean the same for variables and for edges.
LEMMA DenoteImages ==
  ASSUME NEW m \in Maps, NEW F \in Family, NEW G \in Family, NEW op \in Ops
  PROVE  ImageOf(m, Denote(op, F, G)) = Denote(op, ImageOf(m, F), ImageOf(m, G))
<1>1. \A S \in SUBSET Var : S \in F <=> Image(m, S) \in ImageOf(m, F)
  BY FamilyImages
<1>2. \A S \in SUBSET Var : S \in G <=> Image(m, S) \in ImageOf(m, G)
  BY FamilyImages
<1>3. F \in SUBSET SUBSET Var /\ G \in SUBSET SUBSET Var
  BY DEF Family
<1>4. \A x \in ImageOf(m, F) : \E S \in F : x = Image(m, S)
  BY DEF ImageOf
<1>5. \A x \in ImageOf(m, G) : \E S \in G : x = Image(m, S)
  BY DEF ImageOf
<1>6. ImageOf(m, F \union G) = ImageOf(m, F) \union ImageOf(m, G)
  BY DEF ImageOf
<1>7. ImageOf(m, F \intersect G) = ImageOf(m, F) \intersect ImageOf(m, G)
  BY <1>1, <1>2, <1>3, <1>4 DEF ImageOf
<1>8. ImageOf(m, F \ G) = ImageOf(m, F) \ ImageOf(m, G)
  BY <1>1, <1>2, <1>3, <1>4 DEF ImageOf
<1>9. ImageOf(m, G \ F) = ImageOf(m, G) \ ImageOf(m, F)
  BY <1>1, <1>2, <1>3, <1>5 DEF ImageOf
<1>10. ImageOf(m, (F \ G) \union (G \ F)) = ImageOf(m, F \ G) \union ImageOf(m, G \ F)
  BY DEF ImageOf
<1> QED
  BY <1>6, <1>7, <1>8, <1>9, <1>10 DEF Denote, Ops

\* All sets of variables stand for all sets of edges.
LEMMA PowersetImage ==
  ASSUME NEW m \in Maps
  PROVE  ImageOf(m, Powerset) = SUBSET Edge
<1>1. \A S \in SUBSET Var : Image(m, S) \in SUBSET Var
  BY ImageFacts
<1>2. \A E \in SUBSET Var : \E S \in SUBSET Var : Image(m, S) = E
  BY ImageOnto
<1> QED
  BY <1>1, <1>2 DEF ImageOf, Powerset, Edge

\* The variables of a list of edges.
LEMMA ListFacts ==
  ASSUME spaces \in Seq(Maps), call.space \in DOMAIN spaces, NEW q \in Seq(Nat), Range(q) \subseteq Edge
  PROVE  /\ Variables(q) \in Seq(Var)
         /\ Len(Variables(q)) = Len(q)
         /\ \A i \in DOMAIN q : Variables(q)[i] \in Var /\ spaces[call.space][Variables(q)[i]] = q[i]
         /\ Range(Variables(q)) \in SUBSET Var
         /\ Image(spaces[call.space], Range(Variables(q))) = Range(q)
<1> DEFINE m == spaces[call.space]
           back(e) == CHOOSE v \in Var : m[v] = e
           r == Variables(q)
<1>1. m \in Maps
  OBVIOUS
<1>2. \A e \in Edge : back(e) \in Var /\ m[back(e)] = e
  BY <1>1, MapFacts DEF Edge
<1>3. DOMAIN q = 1 .. Len(q) /\ Len(q) \in Nat /\ \A i \in DOMAIN q : q[i] \in Edge
  BY DEF Range
<1>4. r = [i \in DOMAIN q |-> back(q[i])]
  BY DEF Variables, EdgeToVariable
<1> HIDE DEF back, r, m
<1>5. \A i \in DOMAIN q : r[i] \in Var /\ m[r[i]] = q[i]
  BY <1>2, <1>3, <1>4
<1>6. r \in [1 .. Len(q) -> Var]
  BY <1>3, <1>4, <1>5
<1>7. r \in Seq(Var) /\ Len(r) = Len(q) /\ DOMAIN r = DOMAIN q
  BY <1>3, <1>6, LenProperties
<1>8. Range(r) \in SUBSET Var
  BY <1>5, <1>7 DEF Range
<1>9. Image(m, Range(r)) = Range(q)
  <2>1. \A e \in Range(q) : e \in Image(m, Range(r))
    <3> SUFFICES ASSUME NEW i \in DOMAIN q PROVE q[i] \in Image(m, Range(r))
      BY DEF Range
    <3>1. r[i] \in Range(r) /\ m[r[i]] = q[i]
      BY <1>5, <1>7 DEF Range
    <3> QED
      BY <3>1 DEF Image
  <2>2. \A e \in Image(m, Range(r)) : e \in Range(q)
    <3> SUFFICES ASSUME NEW v \in Range(r) PROVE m[v] \in Range(q)
      BY DEF Image
    <3>1. PICK i \in DOMAIN q : v = r[i]
      BY <1>7 DEF Range
    <3> QED
      BY <3>1, <1>5 DEF Range
  <2> QED
    BY <2>1, <2>2
<1> QED
  BY <1>5, <1>7, <1>8, <1>9 DEF r, m

\* What the promise takes from the libraries is what the module itself takes.
LEMMA SameOperators ==
  ASSUME NEW S, NEW T
  PROVE  /\ Calls!Cardinality(S) = Cardinality(S)
         /\ Calls!Range(S) = Range(S)
         /\ Calls!Bijection(S, T) = Bijection(S, T)
<1>1. Calls!Cardinality(S) = Cardinality(S)
  BY DEF Calls!Cardinality, Cardinality
<1>2. Calls!Range(S) = Range(S)
  BY DEF Calls!Range, Range
<1>3. Calls!Bijection(S, T) = Bijection(S, T)
  BY DEF Calls!Bijection, Bijection, Calls!Injection, Injection, Calls!Surjection, Surjection,
         Calls!IsInjective, IsInjective
<1> QED
  BY <1>1, <1>2, <1>3

\* What is handed out is the list of the edges of a solution in the order of its space.
LEMMA SolutionIsListing ==
  ASSUME spaces \in Seq(Maps), NEW c \in DOMAIN spaces, NEW S \in SUBSET Var
  PROVE  EdgeSolution(c, S) \in Calls!Listings(c, Image(spaces[c], S))
<1> DEFINE m == spaces[c]
           s == Sorted(S)
           n == Cardinality(S)
           E == Image(m, S)
           q == EdgeSolution(c, S)
<1>1. m \in Maps /\ m \in [Var -> Var]
  BY MapFacts
<1>2. Ascends(s, S) /\ n \in Nat
  BY SortedAscends, VariablesFinite
<1>3. s \in Seq(S) /\ DOMAIN s = 1 .. n /\ \A i \in 1 .. n : s[i] \in S
  BY <1>2 DEF Ascends
<1>4. \A i, j \in 1 .. n : i < j => s[i] < s[j]
  BY <1>2, <1>3 DEF Ascends
<1>5. Cardinality(E) = n
  BY <1>1, ImageFacts
<1>6. q = [i \in 1 .. n |-> m[s[i]]]
  BY <1>3 DEF EdgeSolution
<1> HIDE DEF q, n, s, m, E
<1>7. q \in [1 .. Cardinality(E) -> E]
  BY <1>3, <1>5, <1>6 DEF Image, E
<1>8. \A i, j \in DOMAIN q : i < j => Calls!IsAhead(c, q[i], q[j])
  <2> SUFFICES ASSUME NEW i \in 1 .. n, NEW j \in 1 .. n, i < j PROVE Calls!IsAhead(c, q[i], q[j])
    BY <1>6
  <2> DEFINE order == [k \in 1 .. N |-> m[k - 1]]
             a == s[i] + 1
             b == s[j] + 1
  <2>1. s[i] \in Var /\ s[j] \in Var /\ s[i] < s[j]
    BY <1>3, <1>4
  <2>2. a \in 1 .. N /\ b \in 1 .. N /\ a < b /\ a - 1 = s[i] /\ b - 1 = s[j]
    BY <2>1, NAssumption DEF Var
  <2>3. order[a] = q[i] /\ order[b] = q[j]
    BY <2>2, <1>6
  <2>4. SeenOrders[c] = order
    BY DEF SeenOrders, VariableToEdge, m
  <2> HIDE DEF order, a, b
  <2> QED
    BY <2>2, <2>3, <2>4 DEF Calls!IsAhead
<1>9. q \in Calls!Listings(c, E)
  <2>1. Calls!Cardinality(E) = Cardinality(E)
    BY SameOperators
  <2> QED
    BY <1>7, <1>8, <2>1 DEF Calls!Listings
<1> QED
  BY <1>9 DEF q, E, m

----------------------------------------------------------------------------
(* The invariant.                                                          *)

Wrapped == [space : DOMAIN spaces, family : Family]

Filters == Calls!ListFilters \union Calls!EdgeFilters \union {"cardinality"}

Operations ==
  {"empty", "unit", "powerset", "from_edge_sets", "build", "contains", "sample", "compact"}
    \union Ops \union Calls!Comparisons \union Filters

CallTypes ==
  [op : Operations, space : Int, on : Seq(held), lists : Seq(Seq(Nat)), range : Ranges \union {Calls!NoRange},
   target : SUBSET SUBSET Edge]

EdgeTypes ==
  /\ spaces \in Seq(Maps)
  /\ held \in SUBSET Wrapped
  /\ call \in CallTypes
  /\ iterator \in SUBSET [space : DOMAIN spaces, left : Family]
  /\ stage \in {"idle", "map", "run", "walk"}

\* The operands and lists that an operation needs.
Suits(op, on, lists) ==
  /\ op \in Ops \union Calls!Comparisons => Len(on) = 2
  /\ op \in Filters \union {"contains", "sample"} => Len(on) = 1
  /\ op \in Calls!ListFilters \union Calls!EdgeFilters \union {"contains"} => Len(lists) = 1
  /\ op \in Calls!EdgeFilters => Len(lists[1]) = 1

Given == call.space \in DOMAIN spaces /\ Suits(call.op, call.on, call.lists)

\* The lists mapped so far are known edges, and are their variables.
MapsSound ==
  /\ mapped \in Seq(Seq(Var))
  /\ Len(mapped) <= Len(call.lists)
  /\ \A i \in 1 .. Len(mapped) :
       Range(call.lists[i]) \subseteq Edge /\ mapped[i] = Variables(call.lists[i])

\* What is left of the list is in the family walked to exactly when the whole
\* list is in the family asked.
WalkSound ==
  /\ walk \in [remainder : Family, index : Nat]
  /\ walk.index <= Len(Wanted)
  /\ Range(Remaining) \in walk.remainder <=> Range(Wanted) \in Operand(1)

EdgeInv ==
  /\ EdgeTypes
  /\ stage = "idle" => mapped = << >>
  /\ stage # "idle" => Given /\ MapsSound
  /\ stage \in {"run", "walk"} => SameContext /\ Len(mapped) = Len(call.lists)
  /\ stage = "walk" => call.op = "contains" /\ WalkSound
  /\ stage = "run" => call.op # "contains"

----------------------------------------------------------------------------
(* The calls that can be made.                                             *)

MakesFixed(r, k) ==
  \E op \in {"empty", "unit", "powerset"}, c \in 1 .. k : r = Calls!Plain(op, c, << >>)
MakesSets(r, k) ==
  \E q \in SetLists, c \in 1 .. k : r = Calls!Listing("from_edge_sets", c, << >>, q)
MakesBuild(r, k) ==
  \E F \in Solutions, c \in 1 .. k :
    r = Calls!Request("build", c, << >>, << >>, Calls!NoRange, F)
MakesBinary(r, H) ==
  \E op \in Calls!Ops \union Calls!Comparisons, f, g \in H : r = Calls!Plain(op, f.space, <<f, g>>)
MakesListing(r, H) ==
  \E op \in Calls!ListFilters \union {"contains"}, f \in H, q \in EdgeLists :
    r = Calls!Listing(op, f.space, <<f>>, <<q>>)
MakesEdgeFilter(r, H) ==
  \E op \in Calls!EdgeFilters, f \in H, e \in 0 .. N :
    r = Calls!Listing(op, f.space, <<f>>, <<<<e>>>>)
MakesCardinality(r, H) ==
  \E f \in H, b \in Ranges : r = Calls!Request("cardinality", f.space, <<f>>, << >>, b, Calls!Zero)
MakesSample(r, H) ==
  \E f \in H : r = Calls!Plain("sample", f.space, <<f>>)
MakesCompact(r, H, k) ==
  \E c \in 1 .. k, on \in Calls!BoundedSeq(H, 2) : r = Calls!Plain("compact", c, on)

\* They are of nine kinds.
LEMMA RequestKinds ==
  ASSUME NEW r, NEW H, NEW k
  PROVE  r \in Calls!Requests(H, k) <=>
           \/ MakesFixed(r, k) \/ MakesSets(r, k) \/ MakesBuild(r, k)
           \/ MakesBinary(r, H) \/ MakesListing(r, H) \/ MakesEdgeFilter(r, H)
           \/ MakesCardinality(r, H) \/ MakesSample(r, H) \/ MakesCompact(r, H, k)
BY DEF Calls!Requests, MakesFixed, MakesSets, MakesBuild, MakesBinary, MakesListing,
       MakesEdgeFilter, MakesCardinality, MakesSample, MakesCompact

SeenOn(on) == [i \in DOMAIN on |-> EdgeFamily(on[i])]

\* What the caller sees of a call, field by field.
LEMMA SeenRequest ==
  ASSUME NEW op, NEW c, NEW on, NEW lists, NEW range, NEW target,
         call = Calls!Request(op, c, on, lists, range, target)
  PROVE  SeenCall = Calls!Request(op, c, SeenOn(on), lists, range, target)
BY DEF SeenCall, Calls!Request, SeenOn

\* The operands the caller sees are families it sees.
LEMMA SeenOperands ==
  ASSUME TRUE
  PROVE  /\ SeenOn(<< >>) = << >>
         /\ \A f : SeenOn(<<f>>) = <<EdgeFamily(f)>>
         /\ \A f, g : SeenOn(<<f, g>>) = <<EdgeFamily(f), EdgeFamily(g)>>
         /\ \A f \in held : EdgeFamily(f) \in SeenHeld /\ EdgeFamily(f).space = f.space
         /\ \A on \in Calls!BoundedSeq(held, 2) : SeenOn(on) \in Calls!BoundedSeq(SeenHeld, 2)
<1>1. SeenOn(<< >>) = << >>
  BY DEF SeenOn
<1>2. \A f : SeenOn(<<f>>) = <<EdgeFamily(f)>>
  BY DEF SeenOn
<1>3. \A f, g : SeenOn(<<f, g>>) = <<EdgeFamily(f), EdgeFamily(g)>>
  BY DEF SeenOn
<1>4. \A f \in held : EdgeFamily(f) \in SeenHeld /\ EdgeFamily(f).space = f.space
  BY DEF SeenHeld, EdgeFamily
<1>5. \A on \in Calls!BoundedSeq(held, 2) : SeenOn(on) \in Calls!BoundedSeq(SeenHeld, 2)
  <2> SUFFICES ASSUME NEW on \in Calls!BoundedSeq(held, 2) PROVE SeenOn(on) \in Calls!BoundedSeq(SeenHeld, 2)
    OBVIOUS
  <2>1. PICK n \in 0 .. 2 : on \in [1 .. n -> held]
    BY DEF Calls!BoundedSeq, Calls!SeqOf
  <2>2. SeenOn(on) \in [1 .. n -> SeenHeld]
    BY <1>4, <2>1 DEF SeenOn
  <2> QED
    BY <2>2 DEF Calls!BoundedSeq, Calls!SeqOf
<1> QED
  BY <1>1, <1>2, <1>3, <1>4, <1>5

\* The orders the caller sees.
LEMMA OrdersSeen ==
  ASSUME spaces \in Seq(Maps)
  PROVE  /\ SeenOrders \in Seq(Bijection(1 .. N, Edge))
         /\ Len(SeenOrders) = Len(spaces)
         /\ DOMAIN SeenOrders = DOMAIN spaces
<1>1. DOMAIN spaces = 1 .. Len(spaces) /\ Len(spaces) \in Nat /\ \A c \in DOMAIN spaces : spaces[c] \in Maps
  OBVIOUS
<1>2. ASSUME NEW c \in DOMAIN spaces PROVE VariableToEdge(c) \in Bijection(1 .. N, Edge)
  <2> DEFINE m == spaces[c]
             order == [i \in 1 .. N |-> m[i - 1]]
  <2>1. /\ m \in [Var -> Var]
        /\ \A v, w \in Var : m[v] = m[w] => v = w
        /\ \A e \in Var : \E v \in Var : m[v] = e
    BY <1>1, MapFacts
  <2> HIDE DEF m
  <2>2. \A i \in 1 .. N : i - 1 \in Var
    BY NAssumption DEF Var
  <2>3. \A v \in Var : v + 1 \in 1 .. N /\ (v + 1) - 1 = v
    BY NAssumption DEF Var
  <2>4. order \in [1 .. N -> Edge]
    BY <2>1, <2>2 DEF Edge
  <2>5. \A i, j \in 1 .. N : order[i] = order[j] => i = j
    <3> SUFFICES ASSUME NEW i \in 1 .. N, NEW j \in 1 .. N, order[i] = order[j] PROVE i = j
      OBVIOUS
    <3>1. i - 1 = j - 1
      BY <2>1, <2>2
    <3> QED
      BY <3>1
  <2>6. \A e \in Edge : \E i \in 1 .. N : order[i] = e
    <3> SUFFICES ASSUME NEW e \in Edge PROVE \E i \in 1 .. N : order[i] = e
      OBVIOUS
    <3>1. PICK v \in Var : m[v] = e
      BY <2>1 DEF Edge
    <3>2. order[v + 1] = e /\ v + 1 \in 1 .. N
      BY <2>3, <3>1
    <3> QED
      BY <3>2
  <2>7. VariableToEdge(c) = order
    BY DEF VariableToEdge, m
  <2> HIDE DEF order
  <2>8. IsInjective(order)
    BY <2>4, <2>5 DEF IsInjective
  <2> QED
    BY <2>4, <2>6, <2>7, <2>8 DEF Bijection, Injection, Surjection
<1>3. SeenOrders \in [1 .. Len(spaces) -> Bijection(1 .. N, Edge)]
  BY <1>1, <1>2 DEF SeenOrders
<1> QED
  BY <1>1, <1>3, LenProperties

\* A call with arguments of the right kind is typed.
LEMMA RequestTyped ==
  ASSUME NEW op \in Operations, NEW c \in Int, NEW on \in Seq(held), NEW lists \in Seq(Seq(Nat)),
         NEW range \in Ranges \union {Calls!NoRange}, NEW target \in SUBSET SUBSET Edge
  PROVE  Calls!Request(op, c, on, lists, range, target) \in CallTypes
BY DEF CallTypes, Calls!Request

\* The program starts as promised.
LEMMA EdgeInitSimulates ==
  ASSUME EdgeInit
  PROVE  Calls!Init /\ EdgeInv
<1>1. spaces \in Seq(Maps)
  BY SpacesAssumption DEF EdgeInit, Maps
<1>2. SeenOrders \in Seq(Calls!Bijection(1 .. N, Calls!Edge))
  BY <1>1, OrdersSeen, SameOperators DEF Calls!Edge, Edge, Var
<1>3. SeenHeld = {} /\ SeenIterator = {}
  BY DEF SeenHeld, SeenIterator, EdgeInit
<1>4. SeenCall = Calls!Plain("empty", 1, << >>)
  BY SeenRequest, SeenOperands DEF EdgeInit, Calls!Plain
<1>5. SeenAnswer = Calls!NoAnswer
  BY DEF SeenAnswer, EdgeInit, Calls!NoAnswer, Calls!Answer
<1>6. EdgeTypes
  <2> DEFINE none == << >>
             op == "empty"
             c == 1
  <2>1. none \in Seq(held) /\ none \in Seq(Seq(Nat)) /\ Calls!Zero \in SUBSET SUBSET Edge
    BY DEF Calls!Zero
  <2>2. Calls!Plain(op, c, none) = Calls!Request(op, c, none, none, Calls!NoRange, Calls!Zero)
    BY DEF Calls!Plain
  <2>3. op \in Operations /\ c \in Int
    BY DEF Operations
  <2>5. call = Calls!Plain(op, c, none)
    BY DEF EdgeInit
  <2> HIDE DEF none, op, c
  <2>4. call \in CallTypes
    BY <2>1, <2>2, <2>3, <2>5, RequestTyped
  <2> QED
    BY <1>1, <2>4 DEF EdgeTypes, EdgeInit
<1> QED
  BY <1>2, <1>3, <1>4, <1>5, <1>6 DEF Calls!Init, EdgeInv, EdgeInit

\* A new call, as the caller sees it.
LEMMA BeginSimulates ==
  ASSUME EdgeInv, BeginCall
  PROVE  Calls!Ask
<1>1. /\ EdgeTypes /\ stage = "idle" /\ stage' = "map" /\ calls < MaxCalls /\ calls' = calls + 1
      /\ answer' = Calls!NoAnswer /\ UNCHANGED <<spaces, held, iterator>>
      /\ call' \in Calls!Requests(held, Len(spaces))
  BY DEF EdgeInv, BeginCall
<1>2. UNCHANGED <<SeenOrders, SeenHeld, SeenIterator>>
  BY <1>1 DEF SeenOrders, VariableToEdge, SeenHeld, EdgeFamily, EdgesOf, SeenIterator, EdgeIterator
<1>3. SeenAnswer' = Calls!NoAnswer
  BY <1>1 DEF SeenAnswer, Calls!NoAnswer, Calls!Answer
<1>4. Len(SeenOrders) = Len(spaces)
  BY <1>1, OrdersSeen DEF EdgeTypes
<1> DEFINE sees(op, c, on, lists, range, target) ==
             call' = Calls!Request(op, c, on, lists, range, target)
               => SeenCall' = Calls!Request(op, c, SeenOn(on), lists, range, target)
<1>5. \A op, c, on, lists, range, target : sees(op, c, on, lists, range, target)
  <2> SUFFICES ASSUME NEW op, NEW c, NEW on, NEW lists, NEW range, NEW target,
                      call' = Calls!Request(op, c, on, lists, range, target)
               PROVE  SeenCall' = Calls!Request(op, c, SeenOn(on), lists, range, target)
    OBVIOUS
  <2>1. \A f : EdgeFamily(f)' = EdgeFamily(f)
    BY <1>1 DEF EdgeFamily, EdgesOf
  <2>2. SeenCall' = [call' EXCEPT !.on = [i \in DOMAIN @ |-> EdgeFamily(@[i])]]
    BY <2>1 DEF SeenCall
  <2> QED
    BY <2>2 DEF Calls!Request, SeenOn
<1>6. ASSUME NEW op, NEW c, NEW on, call' = Calls!Plain(op, c, on)
      PROVE  SeenCall' = Calls!Plain(op, c, SeenOn(on))
  <2> DEFINE none == << >>
  <2>1. sees(op, c, on, none, Calls!NoRange, Calls!Zero)
    BY <1>5
  <2> QED
    BY <1>6, <2>1 DEF Calls!Plain
<1>7. ASSUME NEW op, NEW c, NEW on, NEW lists, call' = Calls!Listing(op, c, on, lists)
      PROVE  SeenCall' = Calls!Listing(op, c, SeenOn(on), lists)
  <2>1. sees(op, c, on, lists, Calls!NoRange, Calls!Zero)
    BY <1>5
  <2> QED
    BY <1>7, <2>1 DEF Calls!Listing
<1> HIDE DEF sees
<1>8. /\ SeenOn(<< >>) = << >>
      /\ \A f : SeenOn(<<f>>) = <<EdgeFamily(f)>>
      /\ \A f, g : SeenOn(<<f, g>>) = <<EdgeFamily(f), EdgeFamily(g)>>
      /\ \A f \in held : EdgeFamily(f) \in SeenHeld /\ EdgeFamily(f).space = f.space
      /\ \A on \in Calls!BoundedSeq(held, 2) : SeenOn(on) \in Calls!BoundedSeq(SeenHeld, 2)
  BY SeenOperands
<1> DEFINE k == Len(spaces)
<1> SUFFICES SeenCall' \in Calls!Requests(SeenHeld, k)
  BY <1>1, <1>2, <1>3, <1>4 DEF Calls!Ask
<1>9. CASE MakesFixed(call', k)
  <2>1. PICK op \in {"empty", "unit", "powerset"}, c \in 1 .. k : call' = Calls!Plain(op, c, << >>)
    BY <1>9 DEF MakesFixed
  <2>2. SeenCall' = Calls!Plain(op, c, << >>)
    BY <1>6, <1>8, <2>1
  <2>3. MakesFixed(SeenCall', k)
    BY <2>2 DEF MakesFixed
  <2> QED
    BY <2>3, RequestKinds
<1>10. CASE MakesSets(call', k)
  <2>1. PICK q \in SetLists, c \in 1 .. k : call' = Calls!Listing("from_edge_sets", c, << >>, q)
    BY <1>10 DEF MakesSets
  <2>2. SeenCall' = Calls!Listing("from_edge_sets", c, << >>, q)
    BY <1>7, <1>8, <2>1
  <2>3. MakesSets(SeenCall', k)
    BY <2>2 DEF MakesSets
  <2> QED
    BY <2>3, RequestKinds
<1>11. CASE MakesBuild(call', k)
  <2>1. PICK F \in Solutions, c \in 1 .. k : call' = Calls!Request("build", c, << >>, << >>, Calls!NoRange, F)
    BY <1>11 DEF MakesBuild
  <2>2. SeenCall' = Calls!Request("build", c, << >>, << >>, Calls!NoRange, F)
    BY <1>5, <1>8, <2>1 DEF sees
  <2>3. MakesBuild(SeenCall', k)
    BY <2>2 DEF MakesBuild
  <2> QED
    BY <2>3, RequestKinds
<1>12. CASE MakesBinary(call', held)
  <2>1. PICK op \in Calls!Ops \union Calls!Comparisons, f \in held, g \in held : call' = Calls!Plain(op, f.space, <<f, g>>)
    BY <1>12 DEF MakesBinary
  <2>2. SeenCall' = Calls!Plain(op, EdgeFamily(f).space, <<EdgeFamily(f), EdgeFamily(g)>>)
    BY <1>6, <1>8, <2>1
  <2>3. MakesBinary(SeenCall', SeenHeld)
    BY <1>8, <2>2 DEF MakesBinary
  <2> QED
    BY <2>3, RequestKinds
<1>13. CASE MakesListing(call', held)
  <2>1. PICK op \in Calls!ListFilters \union {"contains"}, f \in held, q \in EdgeLists : call' = Calls!Listing(op, f.space, <<f>>, <<q>>)
    BY <1>13 DEF MakesListing
  <2>2. SeenCall' = Calls!Listing(op, EdgeFamily(f).space, <<EdgeFamily(f)>>, <<q>>)
    BY <1>7, <1>8, <2>1
  <2>3. MakesListing(SeenCall', SeenHeld)
    BY <1>8, <2>2 DEF MakesListing
  <2> QED
    BY <2>3, RequestKinds
<1>14. CASE MakesEdgeFilter(call', held)
  <2>1. PICK op \in Calls!EdgeFilters, f \in held, e \in 0 .. N : call' = Calls!Listing(op, f.space, <<f>>, <<<<e>>>>)
    BY <1>14 DEF MakesEdgeFilter
  <2>2. SeenCall' = Calls!Listing(op, EdgeFamily(f).space, <<EdgeFamily(f)>>, <<<<e>>>>)
    BY <1>7, <1>8, <2>1
  <2>3. MakesEdgeFilter(SeenCall', SeenHeld)
    BY <1>8, <2>2 DEF MakesEdgeFilter
  <2> QED
    BY <2>3, RequestKinds
<1>15. CASE MakesCardinality(call', held)
  <2>1. PICK f \in held, b \in Ranges : call' = Calls!Request("cardinality", f.space, <<f>>, << >>, b, Calls!Zero)
    BY <1>15 DEF MakesCardinality
  <2>2. SeenCall' = Calls!Request("cardinality", EdgeFamily(f).space, <<EdgeFamily(f)>>, << >>, b, Calls!Zero)
    BY <1>5, <1>8, <2>1 DEF sees
  <2>3. MakesCardinality(SeenCall', SeenHeld)
    BY <1>8, <2>2 DEF MakesCardinality
  <2> QED
    BY <2>3, RequestKinds
<1>16. CASE MakesSample(call', held)
  <2>1. PICK f \in held : call' = Calls!Plain("sample", f.space, <<f>>)
    BY <1>16 DEF MakesSample
  <2>2. SeenCall' = Calls!Plain("sample", EdgeFamily(f).space, <<EdgeFamily(f)>>)
    BY <1>6, <1>8, <2>1
  <2>3. MakesSample(SeenCall', SeenHeld)
    BY <1>8, <2>2 DEF MakesSample
  <2> QED
    BY <2>3, RequestKinds
<1>17. CASE MakesCompact(call', held, k)
  <2>1. PICK c \in 1 .. k, on \in Calls!BoundedSeq(held, 2) : call' = Calls!Plain("compact", c, on)
    BY <1>17 DEF MakesCompact
  <2>2. SeenCall' = Calls!Plain("compact", c, SeenOn(on))
    BY <1>6, <1>8, <2>1
  <2>3. MakesCompact(SeenCall', SeenHeld, k)
    BY <1>8, <2>2 DEF MakesCompact
  <2> QED
    BY <2>3, RequestKinds
<1> QED
  BY <1>1, <1>9, <1>10, <1>11, <1>12, <1>13, <1>14, <1>15, <1>16, <1>17, RequestKinds

\* The call r suits its operation.
Good(r) == r \in CallTypes /\ r.space \in DOMAIN spaces /\ Suits(r.op, r.on, r.lists)

\* A request with arguments of the right kind is one.
LEMMA GoodRequest ==
  ASSUME spaces \in Seq(Maps),
         NEW op \in Operations, NEW c \in DOMAIN spaces, NEW on \in Seq(held), NEW lists \in Seq(Seq(Nat)),
         NEW range \in Ranges \union {Calls!NoRange}, NEW target \in SUBSET SUBSET Edge,
         Suits(op, on, lists)
  PROVE  Good(Calls!Request(op, c, on, lists, range, target))
<1> DEFINE r == Calls!Request(op, c, on, lists, range, target)
<1>1. c \in Int
  OBVIOUS
<1>2. r \in CallTypes
  BY <1>1, RequestTyped
<1>3. r.op = op /\ r.space = c /\ r.on = on /\ r.lists = lists
  BY DEF Calls!Request
<1>4. Good(r)
  <2> HIDE DEF r
  <2> QED
    BY <1>2, <1>3 DEF Good
<1> QED
  BY <1>4

\* Every call that can be made is.
LEMMA RequestsGood ==
  ASSUME EdgeTypes, NEW r \in Calls!Requests(held, Len(spaces))
  PROVE  Good(r)
<1> DEFINE k == Len(spaces)
           none == << >>
<1>1. spaces \in Seq(Maps) /\ held \in SUBSET Wrapped
  BY DEF EdgeTypes
<1>2. none \in Seq(held) /\ none \in Seq(Seq(Nat)) /\ Calls!Zero \in SUBSET SUBSET Edge
  BY DEF Calls!Zero
<1>3. DOMAIN spaces = 1 .. k /\ \A f \in held : f.space \in DOMAIN spaces
  BY <1>1 DEF Wrapped
<1>4. \A f \in held : <<f>> \in Seq(held) /\ Len(<<f>>) = 1
  OBVIOUS
<1>5. \A f, g \in held : <<f, g>> \in Seq(held) /\ Len(<<f, g>>) = 2
  OBVIOUS
<1>6. \A q \in Seq(Nat) : <<q>> \in Seq(Seq(Nat)) /\ Len(<<q>>) = 1
  OBVIOUS
<1>7. \A e \in 0 .. N : <<e>> \in Seq(Nat) /\ Len(<<e>>) = 1 /\ <<<<e>>>> \in Seq(Seq(Nat)) /\ Len(<<<<e>>>>) = 1 /\ <<<<e>>>>[1] = <<e>>
  BY NAssumption
<1>8. Ops = Calls!Ops
  BY DEF Ops, Calls!Ops
<1>9. Calls!NoRange \in Ranges \union {Calls!NoRange} /\ \A b \in Ranges : b \in Ranges \union {Calls!NoRange}
  OBVIOUS
<1>10. \A ops \in Calls!BoundedSeq(held, 2) : ops \in Seq(held)
  <2> SUFFICES ASSUME NEW ops \in Calls!BoundedSeq(held, 2) PROVE ops \in Seq(held)
    OBVIOUS
  <2>1. PICK n \in 0 .. 2 : ops \in [1 .. n -> held]
    BY DEF Calls!BoundedSeq, Calls!SeqOf
  <2> QED
    BY <2>1
<1>11. \A F \in Solutions : F \in SUBSET SUBSET Edge
  BY ArgumentsAssumption
<1>12. /\ \A q \in EdgeLists : <<q>> \in Seq(Seq(Nat)) /\ Len(<<q>>) = 1
       /\ \A q \in SetLists : q \in Seq(Seq(Nat))
  BY <1>6, ArgumentsAssumption
<1> HIDE DEF none
<1>21. CASE MakesFixed(r, k)
  <2>1. PICK op \in {"empty", "unit", "powerset"}, c0 \in 1 .. k : r = Calls!Plain(op, c0, << >>)
    BY <1>21 DEF MakesFixed
  <2> DEFINE o == op
             on == << >>
             lists == << >>
             range == Calls!NoRange
             target == Calls!Zero
             c == c0
  <2>2. r = Calls!Request(o, c, on, lists, range, target)
    BY <2>1 DEF Calls!Plain, Calls!Listing
  <2>3. c \in DOMAIN spaces
    BY <2>1, <1>3
  <2>4. on \in Seq(held) /\ lists \in Seq(Seq(Nat))
    BY <2>1, <1>2, <1>4, <1>5, <1>7, <1>10, <1>12 DEF none
  <2>5. range \in Ranges \union {Calls!NoRange} /\ target \in SUBSET SUBSET Edge
    BY <2>1, <1>2, <1>9, <1>11
  <2>6. o \in Operations
    BY <2>1, <1>8 DEF Operations, Filters
  <2>7. Suits(o, on, lists)
    BY <2>1, <1>4, <1>5, <1>7, <1>8, <1>12
       DEF Suits, Ops, Filters, Calls!Comparisons, Calls!ListFilters, Calls!EdgeFilters
  <2> HIDE DEF o, on, lists, range, target, c
  <2> QED
    BY ONLY <1>1, <2>2, <2>3, <2>4, <2>5, <2>6, <2>7, GoodRequest
<1>22. CASE MakesSets(r, k)
  <2>1. PICK q \in SetLists, c0 \in 1 .. k : r = Calls!Listing("from_edge_sets", c0, << >>, q)
    BY <1>22 DEF MakesSets
  <2> DEFINE o == "from_edge_sets"
             on == << >>
             lists == q
             range == Calls!NoRange
             target == Calls!Zero
             c == c0
  <2>2. r = Calls!Request(o, c, on, lists, range, target)
    BY <2>1 DEF Calls!Plain, Calls!Listing
  <2>3. c \in DOMAIN spaces
    BY <2>1, <1>3
  <2>4. on \in Seq(held) /\ lists \in Seq(Seq(Nat))
    BY <2>1, <1>2, <1>4, <1>5, <1>7, <1>10, <1>12 DEF none
  <2>5. range \in Ranges \union {Calls!NoRange} /\ target \in SUBSET SUBSET Edge
    BY <2>1, <1>2, <1>9, <1>11
  <2>6. o \in Operations
    BY <2>1, <1>8 DEF Operations, Filters
  <2>7. Suits(o, on, lists)
    BY <2>1, <1>4, <1>5, <1>7, <1>8, <1>12
       DEF Suits, Ops, Filters, Calls!Comparisons, Calls!ListFilters, Calls!EdgeFilters
  <2> HIDE DEF o, on, lists, range, target, c
  <2> QED
    BY ONLY <1>1, <2>2, <2>3, <2>4, <2>5, <2>6, <2>7, GoodRequest
<1>23. CASE MakesBuild(r, k)
  <2>1. PICK F \in Solutions, c0 \in 1 .. k : r = Calls!Request("build", c0, << >>, << >>, Calls!NoRange, F)
    BY <1>23 DEF MakesBuild
  <2> DEFINE o == "build"
             on == << >>
             lists == << >>
             range == Calls!NoRange
             target == F
             c == c0
  <2>2. r = Calls!Request(o, c, on, lists, range, target)
    BY <2>1 DEF Calls!Plain, Calls!Listing
  <2>3. c \in DOMAIN spaces
    BY <2>1, <1>3
  <2>4. on \in Seq(held) /\ lists \in Seq(Seq(Nat))
    BY <2>1, <1>2, <1>4, <1>5, <1>7, <1>10, <1>12 DEF none
  <2>5. range \in Ranges \union {Calls!NoRange} /\ target \in SUBSET SUBSET Edge
    BY <2>1, <1>2, <1>9, <1>11
  <2>6. o \in Operations
    BY <2>1, <1>8 DEF Operations, Filters
  <2>7. Suits(o, on, lists)
    BY <2>1, <1>4, <1>5, <1>7, <1>8, <1>12
       DEF Suits, Ops, Filters, Calls!Comparisons, Calls!ListFilters, Calls!EdgeFilters
  <2> HIDE DEF o, on, lists, range, target, c
  <2> QED
    BY ONLY <1>1, <2>2, <2>3, <2>4, <2>5, <2>6, <2>7, GoodRequest
<1>24. CASE MakesBinary(r, held)
  <2>1. PICK op \in Calls!Ops \union Calls!Comparisons, f \in held, g \in held : r = Calls!Plain(op, f.space, <<f, g>>)
    BY <1>24 DEF MakesBinary
  <2> DEFINE o == op
             on == <<f, g>>
             lists == << >>
             range == Calls!NoRange
             target == Calls!Zero
             c == f.space
  <2>2. r = Calls!Request(o, c, on, lists, range, target)
    BY <2>1 DEF Calls!Plain, Calls!Listing
  <2>3. c \in DOMAIN spaces
    BY <2>1, <1>3
  <2>4. on \in Seq(held) /\ lists \in Seq(Seq(Nat))
    BY <2>1, <1>2, <1>4, <1>5, <1>7, <1>10, <1>12 DEF none
  <2>5. range \in Ranges \union {Calls!NoRange} /\ target \in SUBSET SUBSET Edge
    BY <2>1, <1>2, <1>9, <1>11
  <2>6. o \in Operations
    BY <2>1, <1>8 DEF Operations, Filters
  <2>7. Suits(o, on, lists)
    BY <2>1, <1>4, <1>5, <1>7, <1>8, <1>12
       DEF Suits, Ops, Filters, Calls!Comparisons, Calls!ListFilters, Calls!EdgeFilters
  <2> HIDE DEF o, on, lists, range, target, c
  <2> QED
    BY ONLY <1>1, <2>2, <2>3, <2>4, <2>5, <2>6, <2>7, GoodRequest
<1>25. CASE MakesListing(r, held)
  <2>1. PICK op \in Calls!ListFilters \union {"contains"}, f \in held, q \in EdgeLists : r = Calls!Listing(op, f.space, <<f>>, <<q>>)
    BY <1>25 DEF MakesListing
  <2> DEFINE o == op
             on == <<f>>
             lists == <<q>>
             range == Calls!NoRange
             target == Calls!Zero
             c == f.space
  <2>2. r = Calls!Request(o, c, on, lists, range, target)
    BY <2>1 DEF Calls!Plain, Calls!Listing
  <2>3. c \in DOMAIN spaces
    BY <2>1, <1>3
  <2>4. on \in Seq(held) /\ lists \in Seq(Seq(Nat))
    BY <2>1, <1>2, <1>4, <1>5, <1>7, <1>10, <1>12 DEF none
  <2>5. range \in Ranges \union {Calls!NoRange} /\ target \in SUBSET SUBSET Edge
    BY <2>1, <1>2, <1>9, <1>11
  <2>6. o \in Operations
    BY <2>1, <1>8 DEF Operations, Filters
  <2>7. Suits(o, on, lists)
    BY <2>1, <1>4, <1>5, <1>7, <1>8, <1>12
       DEF Suits, Ops, Filters, Calls!Comparisons, Calls!ListFilters, Calls!EdgeFilters
  <2> HIDE DEF o, on, lists, range, target, c
  <2> QED
    BY ONLY <1>1, <2>2, <2>3, <2>4, <2>5, <2>6, <2>7, GoodRequest
<1>26. CASE MakesEdgeFilter(r, held)
  <2>1. PICK op \in Calls!EdgeFilters, f \in held, e \in 0 .. N : r = Calls!Listing(op, f.space, <<f>>, <<<<e>>>>)
    BY <1>26 DEF MakesEdgeFilter
  <2> DEFINE o == op
             on == <<f>>
             lists == <<<<e>>>>
             range == Calls!NoRange
             target == Calls!Zero
             c == f.space
  <2>2. r = Calls!Request(o, c, on, lists, range, target)
    BY <2>1 DEF Calls!Plain, Calls!Listing
  <2>3. c \in DOMAIN spaces
    BY <2>1, <1>3
  <2>4. on \in Seq(held) /\ lists \in Seq(Seq(Nat))
    BY <2>1, <1>2, <1>4, <1>5, <1>7, <1>10, <1>12 DEF none
  <2>5. range \in Ranges \union {Calls!NoRange} /\ target \in SUBSET SUBSET Edge
    BY <2>1, <1>2, <1>9, <1>11
  <2>6. o \in Operations
    BY <2>1, <1>8 DEF Operations, Filters
  <2>7. Suits(o, on, lists)
    BY <2>1, <1>4, <1>5, <1>7, <1>8, <1>12
       DEF Suits, Ops, Filters, Calls!Comparisons, Calls!ListFilters, Calls!EdgeFilters
  <2> HIDE DEF o, on, lists, range, target, c
  <2> QED
    BY ONLY <1>1, <2>2, <2>3, <2>4, <2>5, <2>6, <2>7, GoodRequest
<1>27. CASE MakesCardinality(r, held)
  <2>1. PICK f \in held, b \in Ranges : r = Calls!Request("cardinality", f.space, <<f>>, << >>, b, Calls!Zero)
    BY <1>27 DEF MakesCardinality
  <2> DEFINE o == "cardinality"
             on == <<f>>
             lists == << >>
             range == b
             target == Calls!Zero
             c == f.space
  <2>2. r = Calls!Request(o, c, on, lists, range, target)
    BY <2>1 DEF Calls!Plain, Calls!Listing
  <2>3. c \in DOMAIN spaces
    BY <2>1, <1>3
  <2>4. on \in Seq(held) /\ lists \in Seq(Seq(Nat))
    BY <2>1, <1>2, <1>4, <1>5, <1>7, <1>10, <1>12 DEF none
  <2>5. range \in Ranges \union {Calls!NoRange} /\ target \in SUBSET SUBSET Edge
    BY <2>1, <1>2, <1>9, <1>11
  <2>6. o \in Operations
    BY <2>1, <1>8 DEF Operations, Filters
  <2>7. Suits(o, on, lists)
    BY <2>1, <1>4, <1>5, <1>7, <1>8, <1>12
       DEF Suits, Ops, Filters, Calls!Comparisons, Calls!ListFilters, Calls!EdgeFilters
  <2> HIDE DEF o, on, lists, range, target, c
  <2> QED
    BY ONLY <1>1, <2>2, <2>3, <2>4, <2>5, <2>6, <2>7, GoodRequest
<1>28. CASE MakesSample(r, held)
  <2>1. PICK f \in held : r = Calls!Plain("sample", f.space, <<f>>)
    BY <1>28 DEF MakesSample
  <2> DEFINE o == "sample"
             on == <<f>>
             lists == << >>
             range == Calls!NoRange
             target == Calls!Zero
             c == f.space
  <2>2. r = Calls!Request(o, c, on, lists, range, target)
    BY <2>1 DEF Calls!Plain, Calls!Listing
  <2>3. c \in DOMAIN spaces
    BY <2>1, <1>3
  <2>4. on \in Seq(held) /\ lists \in Seq(Seq(Nat))
    BY <2>1, <1>2, <1>4, <1>5, <1>7, <1>10, <1>12 DEF none
  <2>5. range \in Ranges \union {Calls!NoRange} /\ target \in SUBSET SUBSET Edge
    BY <2>1, <1>2, <1>9, <1>11
  <2>6. o \in Operations
    BY <2>1, <1>8 DEF Operations, Filters
  <2>7. Suits(o, on, lists)
    BY <2>1, <1>4, <1>5, <1>7, <1>8, <1>12
       DEF Suits, Ops, Filters, Calls!Comparisons, Calls!ListFilters, Calls!EdgeFilters
  <2> HIDE DEF o, on, lists, range, target, c
  <2> QED
    BY ONLY <1>1, <2>2, <2>3, <2>4, <2>5, <2>6, <2>7, GoodRequest
<1>29. CASE MakesCompact(r, held, k)
  <2>1. PICK c0 \in 1 .. k, ops \in Calls!BoundedSeq(held, 2) : r = Calls!Plain("compact", c0, ops)
    BY <1>29 DEF MakesCompact
  <2> DEFINE o == "compact"
             on == ops
             lists == << >>
             range == Calls!NoRange
             target == Calls!Zero
             c == c0
  <2>2. r = Calls!Request(o, c, on, lists, range, target)
    BY <2>1 DEF Calls!Plain, Calls!Listing
  <2>3. c \in DOMAIN spaces
    BY <2>1, <1>3
  <2>4. on \in Seq(held) /\ lists \in Seq(Seq(Nat))
    BY <2>1, <1>2, <1>4, <1>5, <1>7, <1>10, <1>12 DEF none
  <2>5. range \in Ranges \union {Calls!NoRange} /\ target \in SUBSET SUBSET Edge
    BY <2>1, <1>2, <1>9, <1>11
  <2>6. o \in Operations
    BY <2>1, <1>8 DEF Operations, Filters
  <2>7. Suits(o, on, lists)
    BY <2>1, <1>4, <1>5, <1>7, <1>8, <1>12
       DEF Suits, Ops, Filters, Calls!Comparisons, Calls!ListFilters, Calls!EdgeFilters
  <2> HIDE DEF o, on, lists, range, target, c
  <2> QED
    BY ONLY <1>1, <2>2, <2>3, <2>4, <2>5, <2>6, <2>7, GoodRequest
<1> HIDE DEF k
<1> QED
  BY <1>21, <1>22, <1>23, <1>24, <1>25, <1>26, <1>27, <1>28, <1>29, RequestKinds DEF k

\* A new call is given what its operation needs.
LEMMA BeginKeeps ==
  ASSUME EdgeInv, BeginCall
  PROVE  EdgeInv'
<1>1. /\ EdgeTypes /\ stage = "idle" /\ stage' = "map" /\ mapped = << >>
      /\ UNCHANGED <<spaces, held, iterator, mapped>>
      /\ call' \in Calls!Requests(held, Len(spaces))
  BY DEF EdgeInv, BeginCall
<1>2. Good(call')
  BY <1>1, RequestsGood
<1>3. call' \in CallTypes /\ call'.space \in DOMAIN spaces /\ Suits(call'.op, call'.on, call'.lists)
  BY <1>2 DEF Good
<1>4. CallTypes' = CallTypes
  BY <1>1 DEF CallTypes
<1>5. EdgeTypes'
  BY <1>1, <1>3, <1>4 DEF EdgeTypes, Wrapped
<1>6. Given'
  BY <1>1, <1>3 DEF Given
<1>7. MapsSound'
  <2>1. call'.lists \in Seq(Seq(Nat))
    BY <1>3 DEF CallTypes
  <2> QED
    BY <1>1, <2>1 DEF MapsSound
<1> QED
  BY <1>1, <1>5, <1>6, <1>7 DEF EdgeInv


----------------------------------------------------------------------------
(* What the caller sees of the state.                                      *)

\* While the spaces stay, what does not change is seen not to change.
LEMMA SeenSame ==
  ASSUME UNCHANGED spaces
  PROVE  /\ SeenOrders' = SeenOrders
         /\ held' = held => SeenHeld' = SeenHeld
         /\ call' = call => SeenCall' = SeenCall
         /\ answer' = answer => SeenAnswer' = SeenAnswer
         /\ iterator' = iterator => SeenIterator' = SeenIterator
         /\ \A f : EdgeFamily(f)' = EdgeFamily(f)
         /\ \A it : EdgeIterator(it)' = EdgeIterator(it)
<1>1. SeenOrders' = SeenOrders
  BY DEF SeenOrders, VariableToEdge
<1>2. \A f : EdgeFamily(f)' = EdgeFamily(f)
  BY DEF EdgeFamily, EdgesOf
<1>3. \A it : EdgeIterator(it)' = EdgeIterator(it)
  BY DEF EdgeIterator, EdgesOf
<1>4. held' = held => SeenHeld' = SeenHeld
  BY <1>2 DEF SeenHeld
<1>5. call' = call => SeenCall' = SeenCall
  BY <1>2 DEF SeenCall
<1>6. answer' = answer => SeenAnswer' = SeenAnswer
  BY <1>2 DEF SeenAnswer
<1>7. iterator' = iterator => SeenIterator' = SeenIterator
  BY <1>3 DEF SeenIterator
<1> QED
  BY <1>1, <1>2, <1>3, <1>4, <1>5, <1>6, <1>7

\* Answers without families are seen as they are.
LEMMA PlainAnswers ==
  ASSUME TRUE
  PROVE  /\ answer' = Calls!NoAnswer => SeenAnswer' = Calls!NoAnswer
         /\ \A kind : answer' = Calls!Error(kind) => SeenAnswer' = Calls!Error(kind)
         /\ \A b : answer' = Calls!Truth(b) => SeenAnswer' = Calls!Truth(b)
         /\ \A kind, q : answer' = Calls!Solution(kind, q) => SeenAnswer' = Calls!Solution(kind, q)
<1>1. ASSUME NEW kind, NEW b, NEW q, answer' = Calls!Answer(kind, << >>, b, q)
      PROVE  SeenAnswer' = Calls!Answer(kind, << >>, b, q)
  BY <1>1 DEF SeenAnswer, Calls!Answer
<1>2. answer' = Calls!NoAnswer => SeenAnswer' = Calls!NoAnswer
  BY <1>1 DEF Calls!NoAnswer
<1>3. ASSUME NEW kind, answer' = Calls!Error(kind) PROVE SeenAnswer' = Calls!Error(kind)
  BY <1>1, <1>3 DEF Calls!Error
<1>4. ASSUME NEW b, answer' = Calls!Truth(b) PROVE SeenAnswer' = Calls!Truth(b)
  BY <1>1, <1>4 DEF Calls!Truth
<1>5. ASSUME NEW kind, NEW q, answer' = Calls!Solution(kind, q) PROVE SeenAnswer' = Calls!Solution(kind, q)
  BY <1>1, <1>5 DEF Calls!Solution
<1> QED
  BY <1>2, <1>3, <1>4, <1>5

\* The fields of the call.
LEMMA SeenFields ==
  ASSUME EdgeTypes
  PROVE  /\ SeenCall.op = call.op
         /\ SeenCall.space = call.space
         /\ SeenCall.on = SeenOn(call.on)
         /\ SeenCall.lists = call.lists
         /\ SeenCall.range = call.range
         /\ SeenCall.target = call.target
<1>1. call \in CallTypes
  BY DEF EdgeTypes
<1> QED
  BY <1>1 DEF SeenCall, CallTypes, SeenOn

\* The operands are held.
LEMMA OperandsHeld ==
  ASSUME EdgeTypes
  PROVE  /\ DOMAIN call.on = 1 .. Len(call.on) /\ Len(call.on) \in Nat
         /\ \A i \in DOMAIN call.on :
              call.on[i] \in held /\ call.on[i].space \in DOMAIN spaces /\ Operand(i) \in Family
<1>1. call.on \in Seq(held)
  BY DEF EdgeTypes, CallTypes
<1>2. held \in SUBSET Wrapped
  BY DEF EdgeTypes
<1>3. \A i \in DOMAIN call.on : call.on[i] \in held
  BY <1>1
<1>4. \A f \in held : f.space \in DOMAIN spaces /\ f.family \in Family
  BY <1>2 DEF Wrapped
<1> QED
  BY <1>1, <1>3, <1>4 DEF Operand

\* The caller sees a context mismatch when there is one.
LEMMA ContextSeen ==
  ASSUME EdgeTypes
  PROVE  Calls!Mismatch <=> ~SameContext
<1>1. SeenCall.on = SeenOn(call.on) /\ SeenCall.space = call.space
  BY SeenFields
<1>2. DOMAIN SeenOn(call.on) = DOMAIN call.on /\ \A i \in DOMAIN call.on : SeenOn(call.on)[i].space = call.on[i].space
  BY DEF SeenOn, EdgeFamily
<1>3. Calls!Range(SeenCall.on) = {SeenCall.on[i] : i \in DOMAIN SeenCall.on}
  BY DEF Calls!Range
<1> QED
  BY <1>1, <1>2, <1>3 DEF Calls!Mismatch, SameContext, Range

\* The operands, as the caller sees them.
LEMMA OperandSeen ==
  ASSUME EdgeTypes, SameContext, NEW i \in DOMAIN call.on
  PROVE  /\ call.on[i].space = call.space
         /\ Calls!Operand(i) = ImageOf(spaces[call.space], Operand(i))
<1>1. SeenCall.on = SeenOn(call.on)
  BY SeenFields
<1>2. SeenOn(call.on)[i] = EdgeFamily(call.on[i])
  BY DEF SeenOn
<1>3. call.on[i].space = call.space
  BY DEF SameContext, Range
<1> QED
  BY <1>1, <1>2, <1>3 DEF Calls!Operand, EdgeFamily, ImageOf, Image, EdgesOf, Operand

\* The caller sees an unknown edge when there is one.
LEMMA UnknownSeen ==
  ASSUME EdgeTypes
  PROVE  Calls!Unknown = {} <=> \A i \in DOMAIN call.lists : Range(call.lists[i]) \subseteq Edge
<1>1. SeenCall.lists = call.lists
  BY SeenFields
<1>2. Calls!Unknown = (UNION {Range(q) : q \in Range(call.lists)}) \ Edge
  BY <1>1, SameOperators DEF Calls!Unknown, Calls!Edge, Edge, Var
<1>3. \A q : q \in Range(call.lists) <=> \E i \in DOMAIN call.lists : q = call.lists[i]
  BY DEF Range
<1>4. Calls!Unknown = {} <=> \A q \in Range(call.lists) : Range(q) \subseteq Edge
  <2>1. \A e : e \in Calls!Unknown <=> e \notin Edge /\ \E q \in Range(call.lists) : e \in Range(q)
    BY <1>2
  <2>2. ASSUME Calls!Unknown = {}, NEW q \in Range(call.lists), NEW e \in Range(q) PROVE e \in Edge
    BY <2>1, <2>2
  <2>3. ASSUME \A q \in Range(call.lists) : Range(q) \subseteq Edge, NEW e \in Calls!Unknown PROVE FALSE
    BY <2>1, <2>3
  <2> QED
    BY <2>2, <2>3
<1> QED
  BY <1>3, <1>4

\* Only a call that can be carried out gets past the mapping.
LEMMA ValidSeen ==
  ASSUME EdgeInv, stage \in {"run", "walk"}
  PROVE  Calls!Valid /\ call.space \in DOMAIN spaces
<1>1. EdgeTypes /\ Given /\ MapsSound /\ SameContext /\ Len(mapped) = Len(call.lists)
  BY DEF EdgeInv
<1>2. ~Calls!Mismatch
  BY <1>1, ContextSeen
<1>3. call.lists \in Seq(Seq(Nat))
  BY <1>1 DEF EdgeTypes, CallTypes
<1>4. DOMAIN call.lists = 1 .. Len(mapped)
  BY <1>1, <1>3
<1>5. \A i \in DOMAIN call.lists : Range(call.lists[i]) \subseteq Edge
  BY <1>1, <1>4 DEF MapsSound
<1>6. Calls!Unknown = {}
  BY <1>1, <1>5, UnknownSeen
<1> QED
  BY <1>1, <1>2, <1>6 DEF Calls!Valid, Given

----------------------------------------------------------------------------
(* The steps.                                                              *)

\* A call that returns leaves a state in which the next one can be made.
LEMMA ReturnKeeps ==
  ASSUME EdgeInv, stage' = "idle", mapped' = << >>, UNCHANGED <<spaces, held, call, iterator>>
  PROVE  EdgeInv'
<1>1. EdgeTypes'
  BY DEF EdgeInv, EdgeTypes, Wrapped, CallTypes
<1> QED
  BY <1>1 DEF EdgeInv

\* A family of another space is refused.
LEMMA RefuseContextStep ==
  ASSUME EdgeInv, RefuseContext
  PROVE  Calls!Refuse /\ EdgeInv'
<1>1. /\ stage = "map" /\ ~SameContext /\ answer' = Calls!Error("context_mismatch")
      /\ stage' = "idle" /\ mapped' = << >>
      /\ spaces' = spaces /\ held' = held /\ call' = call /\ calls' = calls /\ iterator' = iterator
  BY DEF RefuseContext, Return
<1>2. EdgeTypes
  BY DEF EdgeInv
<1>3. Calls!Mismatch
  BY <1>1, <1>2, ContextSeen
<1>4. SeenAnswer' = Calls!Error("context_mismatch")
  BY <1>1, PlainAnswers
<1>5. UNCHANGED <<SeenOrders, SeenHeld, SeenCall, SeenIterator, calls>>
  BY <1>1, SeenSame
<1>6. EdgeInv'
  BY <1>1, ReturnKeeps
<1> QED
  BY <1>1, <1>3, <1>4, <1>5, <1>6 DEF Calls!Refuse

\* An unknown edge is refused.
LEMMA RefuseEdgeStep ==
  ASSUME EdgeInv, RefuseEdge
  PROVE  Calls!Refuse /\ EdgeInv'
<1>1. /\ stage = "map" /\ SameContext /\ Len(mapped) < Len(call.lists)
      /\ ~(Range(CurrentList) \subseteq Edge) /\ answer' = Calls!Error("invalid_edge")
      /\ stage' = "idle" /\ mapped' = << >>
      /\ spaces' = spaces /\ held' = held /\ call' = call /\ calls' = calls /\ iterator' = iterator
  BY DEF RefuseEdge, Return, Mapping
<1>2. EdgeTypes /\ MapsSound
  BY <1>1 DEF EdgeInv
<1>3. ~Calls!Mismatch
  BY <1>1, <1>2, ContextSeen
<1>4. SeenAnswer' = Calls!Error("invalid_edge")
  BY <1>1, PlainAnswers
<1>5. UNCHANGED <<SeenOrders, SeenHeld, SeenCall, SeenIterator, calls>>
  BY <1>1, SeenSame
<1>6. EdgeInv'
  BY <1>1, ReturnKeeps
<1>7. Calls!Unknown # {}
  <2>1. call.lists \in Seq(Seq(Nat)) /\ mapped \in Seq(Seq(Var))
    BY <1>2 DEF EdgeTypes, CallTypes, MapsSound
  <2>2. Len(mapped) + 1 \in DOMAIN call.lists
    BY <1>1, <2>1
  <2>3. ~(Range(call.lists[Len(mapped) + 1]) \subseteq Edge)
    BY <1>1 DEF CurrentList
  <2> QED
    BY <1>2, <2>2, <2>3, UnknownSeen
<1> QED
  BY <1>1, <1>3, <1>4, <1>5, <1>6, <1>7 DEF Calls!Refuse

\* The caller does not see a list being mapped.
LEMMA MapEdgesStep ==
  ASSUME EdgeInv, MapEdges
  PROVE  UNCHANGED Calls!vars /\ EdgeInv'
<1>1. /\ stage = "map" /\ SameContext /\ Len(mapped) < Len(call.lists)
      /\ Range(CurrentList) \subseteq Edge /\ mapped' = Append(mapped, Variables(CurrentList))
      /\ spaces' = spaces /\ held' = held /\ call' = call /\ calls' = calls /\ iterator' = iterator
      /\ stage' = stage /\ walk' = walk /\ answer' = answer
  BY DEF MapEdges, Mapping
<1>2. EdgeTypes /\ MapsSound /\ Given
  BY <1>1 DEF EdgeInv
<1>3. UNCHANGED Calls!vars
  <2>1. UNCHANGED <<SeenOrders, SeenHeld, SeenCall, SeenAnswer, SeenIterator>>
    BY <1>1, SeenSame
  <2> QED
    BY <1>1, <2>1 DEF Calls!vars
<1>4. EdgeTypes' /\ Given'
  BY <1>1, <1>2 DEF EdgeTypes, Wrapped, CallTypes, Given
<1>5. MapsSound'
  <2> DEFINE q == CurrentList
             n == Len(mapped)
             r == Variables(q)
  <2>1. call.lists \in Seq(Seq(Nat)) /\ mapped \in Seq(Seq(Var)) /\ n \in Nat
    BY <1>2 DEF EdgeTypes, CallTypes, MapsSound
  <2>2. n + 1 \in DOMAIN call.lists /\ q = call.lists[n + 1] /\ q \in Seq(Nat)
    BY <1>1, <2>1 DEF CurrentList
  <2>3. spaces \in Seq(Maps) /\ call.space \in DOMAIN spaces
    BY <1>2 DEF EdgeTypes, Given
  <2>4. Range(q) \subseteq Edge
    BY <1>1
  <2>5. \A p : Variables(p)' = Variables(p)
    BY <1>1 DEF Variables, EdgeToVariable
  <2> HIDE DEF q, n, r
  <2>6. r \in Seq(Var)
    BY <2>2, <2>3, <2>4, ListFacts DEF r
  <2>7. mapped' = Append(mapped, r)
    BY <1>1 DEF r, q
  <2>8. mapped' \in Seq(Seq(Var)) /\ Len(mapped') = n + 1 /\ mapped'[n + 1] = r
    BY <2>1, <2>6, <2>7 DEF n
  <2>9. \A i \in 1 .. n : mapped'[i] = mapped[i]
    BY <2>1, <2>6, <2>7 DEF n
  <2>10. \A i \in 1 .. n : Range(call.lists[i]) \subseteq Edge /\ mapped[i] = Variables(call.lists[i])
    BY <1>2 DEF MapsSound, n
  <2>11. \A i \in 1 .. n + 1 : Range(call.lists[i]) \subseteq Edge /\ mapped'[i] = Variables(call.lists[i])
    <3> SUFFICES ASSUME NEW i \in 1 .. n + 1
                 PROVE  Range(call.lists[i]) \subseteq Edge /\ mapped'[i] = Variables(call.lists[i])
      OBVIOUS
    <3>1. CASE i = n + 1
      BY <3>1, <2>2, <2>4, <2>8 DEF r
    <3>2. CASE i \in 1 .. n
      BY <3>2, <2>9, <2>10
    <3> QED
      BY <3>1, <3>2, <2>1
  <2>12. n + 1 <= Len(call.lists)
    BY <1>1, <2>1 DEF n
  <2> QED
    BY <1>1, <2>5, <2>8, <2>11, <2>12 DEF MapsSound
<1> QED
  BY <1>1, <1>3, <1>4, <1>5 DEF EdgeInv

----------------------------------------------------------------------------
(* The membership test.                                                    *)

\* The elements of the list w after the first k.
Past(w, k) == {w[i] : i \in k + 1 .. Len(w)}

\* What is left of an ascending list of variables.
LEMMA RestOfList ==
  ASSUME NEW W \in SUBSET Var, NEW w, Ascends(w, W), NEW k \in 0 .. Len(w)
  PROVE  /\ Range(SubSeq(w, k + 1, Len(w))) = Past(w, k)
         /\ Past(w, k) \in SUBSET Var
         /\ k = Len(w) => SubSeq(w, k + 1, Len(w)) = << >> /\ Past(w, k) = {}
         /\ k < Len(w) => /\ Upcoming(SubSeq(w, k + 1, Len(w))) = {w[k + 1]}
                          /\ SubSeq(w, k + 1, Len(w)) # << >>
                          /\ w[k + 1] \in Past(w, k)
                          /\ \A v \in Past(w, k) : w[k + 1] <= v
                          /\ Past(w, k + 1) = Past(w, k) \ {w[k + 1]}
<1> DEFINE n == Len(w)
           r == SubSeq(w, k + 1, n)
<1>1. w \in Seq(W) /\ n \in Nat /\ DOMAIN w = 1 .. n /\ k \in Nat /\ k <= n
  BY DEF Ascends
<1>2. \A i \in 1 .. n : w[i] \in W /\ w[i] \in Int
  <2>1. \A x \in W : x \in Int
    BY NAssumption DEF Var
  <2>2. \A i \in 1 .. n : w[i] \in W
    BY <1>1
  <2> QED
    BY <2>1, <2>2
<1>3. \A i, j \in 1 .. n : i < j => w[i] < w[j]
  BY <1>1 DEF Ascends
<1>4. /\ Len(r) = IF k + 1 <= n THEN n - (k + 1) + 1 ELSE 0
      /\ \A i \in 1 .. n - (k + 1) + 1 : r[i] = w[k + 1 + i - 1]
      /\ r \in Seq(W)
  <2>1. k + 1 \in Int /\ n \in Int /\ \A i \in k + 1 .. n : w[i] \in W
    BY <1>1, <1>2
  <2> QED
    BY <2>1, SubSeqProperties
<1> HIDE DEF n, r
<1>5. Len(r) = n - k /\ DOMAIN r = 1 .. n - k
  BY <1>1, <1>4
<1>6. \A i \in 1 .. n - k : r[i] = w[k + i] /\ k + i \in k + 1 .. n
  <2> SUFFICES ASSUME NEW i \in 1 .. n - k PROVE r[i] = w[k + i] /\ k + i \in k + 1 .. n
    OBVIOUS
  <2>1. k + 1 + i - 1 = k + i /\ i \in 1 .. n - (k + 1) + 1 /\ k + i \in k + 1 .. n
    BY <1>1
  <2> QED
    BY <2>1, <1>4
<1>7. \A j \in k + 1 .. n : j - k \in 1 .. n - k /\ r[j - k] = w[j]
  <2> SUFFICES ASSUME NEW j \in k + 1 .. n PROVE j - k \in 1 .. n - k /\ r[j - k] = w[j]
    OBVIOUS
  <2>1. j - k \in 1 .. n - k /\ k + (j - k) = j
    BY <1>1
  <2> QED
    BY <2>1, <1>6
<1>8. Past(w, k) = {w[i] : i \in k + 1 .. n} /\ Past(w, k + 1) = {w[i] : i \in (k + 1) + 1 .. n}
  BY DEF Past, n
<1>9. Range(r) = Past(w, k)
  <2>1. \A x \in Range(r) : x \in Past(w, k)
    BY <1>5, <1>6, <1>8 DEF Range
  <2>2. \A x \in Past(w, k) : x \in Range(r)
    BY <1>5, <1>7, <1>8 DEF Range
  <2> QED
    BY <2>1, <2>2
<1>10. k + 1 .. n \subseteq 1 .. n
  BY <1>1
<1>11. Past(w, k) \in SUBSET Var
  BY <1>2, <1>8, <1>10
<1>12. ASSUME k = n PROVE r = << >> /\ Past(w, k) = {}
  <2>1. k + 1 .. n = {} /\ n - k = 0
    BY <1>1, <1>12
  <2> QED
    BY <2>1, <1>4, <1>5, <1>8
<1>13. ASSUME k < n
       PROVE  /\ Upcoming(r) = {w[k + 1]} /\ r # << >> /\ w[k + 1] \in Past(w, k)
              /\ \A v \in Past(w, k) : w[k + 1] <= v
              /\ Past(w, k + 1) = Past(w, k) \ {w[k + 1]}
  <2>1. 1 \in 1 .. n - k /\ k + 1 \in k + 1 .. n /\ Len(r) # 0
    BY <1>1, <1>5, <1>13
  <2>2. r # << >> /\ r[1] = w[k + 1] /\ Head(r) = r[1]
    BY <2>1, <1>4, <1>6
  <2>3. Upcoming(r) = {w[k + 1]}
    BY <2>2 DEF Upcoming
  <2>4. w[k + 1] \in Past(w, k)
    BY <2>1, <1>8
  <2>5. \A i \in k + 1 .. n : i = k + 1 \/ (i \in (k + 1) + 1 .. n /\ w[k + 1] < w[i])
    <3> SUFFICES ASSUME NEW i \in k + 1 .. n, i # k + 1 PROVE i \in (k + 1) + 1 .. n /\ w[k + 1] < w[i]
      OBVIOUS
    <3>1. k + 1 < i /\ i \in (k + 1) + 1 .. n /\ i \in 1 .. n /\ k + 1 \in 1 .. n
      BY <1>1
    <3> QED
      BY <3>1, <1>3
  <2>6. \A v \in Past(w, k) : w[k + 1] <= v
    <3> SUFFICES ASSUME NEW i \in k + 1 .. n PROVE w[k + 1] <= w[i]
      BY <1>8
    <3>1. w[k + 1] \in Int /\ w[i] \in Int
      BY <2>1, <1>2, <1>10
    <3> QED
      BY <3>1, <2>5
  <2>7. \A i \in (k + 1) + 1 .. n : i \in k + 1 .. n /\ w[i] # w[k + 1]
    <3> SUFFICES ASSUME NEW i \in (k + 1) + 1 .. n PROVE i \in k + 1 .. n /\ w[i] # w[k + 1]
      OBVIOUS
    <3>1. i \in k + 1 .. n /\ i \in 1 .. n /\ k + 1 \in 1 .. n /\ k + 1 < i
      BY <1>1
    <3>2. w[k + 1] < w[i] /\ w[k + 1] \in Int /\ w[i] \in Int
      BY <3>1, <1>2, <1>3
    <3> QED
      BY <3>1, <3>2
  <2>8. Past(w, k + 1) = Past(w, k) \ {w[k + 1]}
    BY <1>8, <2>5, <2>7
  <2> QED
    BY <2>2, <2>3, <2>4, <2>6, <2>8
<1> QED
  BY <1>9, <1>11, <1>12, <1>13 DEF r, n

\* The list of a filter or a membership test, when it is mapped.
LEMMA ListMapped ==
  ASSUME EdgeTypes, Given, MapsSound, Len(mapped) = Len(call.lists), Len(call.lists) = 1
  PROVE  /\ Wanting \in SUBSET Var
         /\ Ascends(Wanted, Wanting)
         /\ Range(Wanted) = Wanting
         /\ Image(spaces[call.space], Wanting) = Calls!Listed(1)
         /\ mapped[1] \in Seq(Var) /\ Len(mapped[1]) = Len(call.lists[1])
<1> DEFINE q == call.lists[1]
<1>1. call.lists \in Seq(Seq(Nat)) /\ spaces \in Seq(Maps) /\ call.space \in DOMAIN spaces
  BY DEF EdgeTypes, CallTypes, Given
<1>2. Range(q) \subseteq Edge /\ mapped[1] = Variables(q)
  BY DEF MapsSound
<1>3. q \in Seq(Nat)
  BY <1>1
<1>4. SeenCall.lists = call.lists
  BY SeenFields
<1>5. Calls!Listed(1) = Range(q)
  BY <1>4, SameOperators DEF Calls!Listed
<1> HIDE DEF q
<1>6. /\ Variables(q) \in Seq(Var) /\ Len(Variables(q)) = Len(q)
      /\ Range(Variables(q)) \in SUBSET Var
      /\ Image(spaces[call.space], Range(Variables(q))) = Range(q)
  BY <1>1, <1>2, <1>3, ListFacts
<1>7. Wanting \in SUBSET Var
  BY <1>2, <1>6 DEF Wanting
<1>8. Wanted = Sorted(Wanting)
  BY DEF Wanted, Normalized, Wanting
<1>9. Ascends(Wanted, Wanting)
  BY <1>7, <1>8, SortedAscends
<1>10. Range(Wanted) = Wanting
  BY <1>9 DEF Ascends, Range
<1> QED
  BY <1>2, <1>5, <1>6, <1>7, <1>9, <1>10 DEF Wanting, q

\* The list w to walk along, the step k of the walk, the set R that is asked
\* for and what is left of it.
Walking(w, k, R, left) ==
  /\ w = Wanted /\ k = walk.index /\ R = Range(w) /\ left = Past(w, k)
  /\ k \in Nat /\ k <= Len(w) /\ Len(w) \in Nat
  /\ R = Wanting /\ R \in SUBSET Var /\ Ascends(w, R)
  /\ left = Range(Remaining) /\ left \in SUBSET Var
  /\ Len(call.lists) = 1 /\ Len(call.on) = 1
  /\ walk.remainder \in Family
  /\ left \in walk.remainder <=> R \in Operand(1)
  /\ k = Len(w) => Remaining = << >> /\ left = {}
  /\ k < Len(w) => /\ Upcoming(Remaining) = {w[k + 1]} /\ Remaining # << >>
                   /\ w[k + 1] \in left /\ \A v \in left : w[k + 1] <= v
                   /\ Past(w, k + 1) = left \ {w[k + 1]}

\* A walk is a walk along such a list.
LEMMA WalkFacts ==
  ASSUME EdgeInv, stage = "walk"
  PROVE  \E w, k, R, left : Walking(w, k, R, left)
<1>1. /\ EdgeTypes /\ Given /\ MapsSound /\ Len(mapped) = Len(call.lists)
      /\ call.op = "contains" /\ WalkSound
  BY DEF EdgeInv
<1>2. Len(call.lists) = 1 /\ Len(call.on) = 1
  BY <1>1 DEF Given, Suits
<1>3. Wanting \in SUBSET Var /\ Ascends(Wanted, Wanting) /\ Range(Wanted) = Wanting
  BY <1>1, <1>2, ListMapped
<1>4. PICK w, k : w = Wanted /\ k = walk.index
  OBVIOUS
<1>5. k \in Nat /\ k <= Len(w) /\ walk.remainder \in Family
  BY <1>1, <1>4 DEF WalkSound
<1>6. Len(w) \in Nat
  BY <1>3, <1>4 DEF Ascends
<1>7. k \in 0 .. Len(w)
  BY <1>5, <1>6
<1>8. Remaining = SubSeq(w, k + 1, Len(w))
  BY <1>4 DEF Remaining
<1>9. Ascends(w, Wanting)
  BY <1>3, <1>4
<1>10. /\ Range(Remaining) = Past(w, k)
       /\ Past(w, k) \in SUBSET Var
       /\ k = Len(w) => Remaining = << >> /\ Past(w, k) = {}
       /\ k < Len(w) => /\ Upcoming(Remaining) = {w[k + 1]}
                        /\ Remaining # << >>
                        /\ w[k + 1] \in Past(w, k)
                        /\ \A v \in Past(w, k) : w[k + 1] <= v
                        /\ Past(w, k + 1) = Past(w, k) \ {w[k + 1]}
  BY <1>3, <1>7, <1>8, <1>9, RestOfList
<1>11. Past(w, k) \in walk.remainder <=> Range(w) \in Operand(1)
  BY <1>1, <1>4, <1>10 DEF WalkSound
<1>12. Range(w) = Wanting
  BY <1>3, <1>4
<1> QED
  BY <1>2, <1>3, <1>4, <1>5, <1>6, <1>9, <1>10, <1>11, <1>12 DEF Walking

\* The caller asks for the set that is walked for.
LEMMA MembershipSeen ==
  ASSUME EdgeInv, stage = "walk"
  PROVE  /\ Calls!Valid /\ SeenCall.op = "contains"
         /\ Calls!Listed(1) \in Calls!Operand(1) <=> Wanting \in Operand(1)
<1>1. /\ EdgeTypes /\ Given /\ MapsSound /\ SameContext /\ Len(mapped) = Len(call.lists)
      /\ call.op = "contains"
  BY DEF EdgeInv
<1>2. Len(call.lists) = 1 /\ Len(call.on) = 1
  BY <1>1 DEF Given, Suits
<1>3. Calls!Valid /\ call.space \in DOMAIN spaces
  BY ValidSeen
<1>4. SeenCall.op = "contains"
  BY <1>1, SeenFields
<1> DEFINE one == 1
<1>5. one \in DOMAIN call.on /\ Operand(one) \in Family
  BY <1>1, <1>2, OperandsHeld
<1> HIDE DEF one
<1>6. Calls!Operand(one) = ImageOf(spaces[call.space], Operand(one))
  BY <1>1, <1>5, OperandSeen
<1>7. Wanting \in SUBSET Var /\ Image(spaces[call.space], Wanting) = Calls!Listed(1)
  BY <1>1, <1>2, ListMapped
<1>8. PICK m \in Maps : m = spaces[call.space]
  BY <1>1, <1>3 DEF EdgeTypes
<1>9. PICK F \in Family : F = Operand(one)
  BY <1>5
<1>10. Wanting \in F <=> Image(m, Wanting) \in ImageOf(m, F)
  BY <1>7, FamilyImages
<1> QED
  BY <1>3, <1>4, <1>6, <1>7, <1>8, <1>9, <1>10 DEF one

\* A walk that ends has the answer the caller expects.
LEMMA WalkAnswers ==
  ASSUME EdgeInv, stage = "walk", NEW b \in BOOLEAN, b <=> Wanting \in Operand(1),
         answer' = Calls!Truth(b), stage' = "idle", mapped' = << >>,
         spaces' = spaces, held' = held, call' = call, calls' = calls, iterator' = iterator
  PROVE  Calls!Compare /\ EdgeInv'
<1>1. Calls!Valid /\ SeenCall.op = "contains"
  BY MembershipSeen
<1>2. Calls!Listed(1) \in Calls!Operand(1) <=> b
  BY MembershipSeen
<1>3. SeenAnswer' = Calls!Truth(b)
  BY PlainAnswers
<1>4. (Calls!Listed(1) \in Calls!Operand(1)) = b
  BY <1>2
<1>5. SeenAnswer' = Calls!Truth(Calls!Listed(1) \in Calls!Operand(1))
  BY <1>3, <1>4
<1>6. UNCHANGED <<SeenOrders, SeenHeld, SeenCall, SeenIterator, calls>>
  BY SeenSame
<1>7. EdgeInv'
  BY ReturnKeeps
<1> QED
  BY <1>1, <1>5, <1>6, <1>7 DEF Calls!Compare

\* A walk that cannot go on answers no.
LEMMA WalkMissStep ==
  ASSUME EdgeInv, WalkMiss
  PROVE  Calls!Compare /\ EdgeInv'
<1>1. /\ stage = "walk" /\ answer' = Calls!Truth(FALSE) /\ stage' = "idle" /\ mapped' = << >>
      /\ spaces' = spaces /\ held' = held /\ call' = call /\ calls' = calls /\ iterator' = iterator
      /\ \/ walk.remainder = Zero
         \/ walk.remainder = One /\ Remaining # << >>
         \/ walk.remainder \notin Terminals /\ \E v \in Upcoming(Remaining) : v < TopVar(walk.remainder)
  BY DEF WalkMiss, Return
<1>2. PICK w, k, R, left : Walking(w, k, R, left)
  BY <1>1, WalkFacts
<1>3. left \notin walk.remainder
  <2>1. CASE walk.remainder = Zero
    BY <2>1 DEF Zero
  <2>2. CASE walk.remainder = One /\ Remaining # << >>
    BY <1>2, <2>2 DEF One, Walking
  <2>3. CASE walk.remainder \notin Terminals /\ \E v \in Upcoming(Remaining) : v < TopVar(walk.remainder)
    <3> DEFINE F == walk.remainder
               top == TopVar(F)
    <3>1. F \in Family /\ F # Zero /\ F # One
      BY <1>2, <2>3 DEF Terminals, Walking
    <3>2. PICK v \in Upcoming(Remaining) : v < top
      BY <2>3
    <3>3. k < Len(w)
      BY <1>2, <3>2 DEF Upcoming, Walking
    <3>4. v \in left
      BY <1>2, <3>2, <3>3 DEF Walking
    <3> HIDE DEF F
    <3>5. top \in Var /\ \A x \in Support(F) : top <= x
      BY <3>1, TopExists DEF IsTop
    <3>6. v \in Var /\ v \notin Support(F)
      <4>1. v \in Var
        BY <1>2, <3>4 DEF Walking
      <4>2. v \in Int /\ top \in Int
        BY <3>5, <4>1, NAssumption DEF Var
      <4> HIDE DEF top
      <4> QED
        BY <4>1, <4>2, <3>2, <3>5
    <3>7. left \notin F
      BY <3>4, <3>6 DEF Support
    <3> QED
      BY <3>7 DEF F
  <2> QED
    BY <1>1, <2>1, <2>2, <2>3
<1>4. ~(Wanting \in Operand(1))
  BY <1>2, <1>3 DEF Walking
<1>5. PICK b \in BOOLEAN : b = FALSE
  OBVIOUS
<1> QED
  BY <1>1, <1>4, <1>5, WalkAnswers

\* A walk that ends with the list answers yes.
LEMMA WalkHitStep ==
  ASSUME EdgeInv, WalkHit
  PROVE  Calls!Compare /\ EdgeInv'
<1>1. /\ stage = "walk" /\ answer' = Calls!Truth(TRUE) /\ stage' = "idle" /\ mapped' = << >>
      /\ spaces' = spaces /\ held' = held /\ call' = call /\ calls' = calls /\ iterator' = iterator
      /\ walk.remainder = One /\ Remaining = << >>
  BY DEF WalkHit, Return
<1>2. PICK w, k, R, left : Walking(w, k, R, left)
  BY <1>1, WalkFacts
<1>3. left = {}
  BY <1>1, <1>2 DEF Walking
<1>4. Wanting \in Operand(1)
  BY <1>1, <1>2, <1>3 DEF One, Walking
<1>5. PICK b \in BOOLEAN : b = TRUE
  OBVIOUS
<1> QED
  BY <1>1, <1>4, <1>5, WalkAnswers

\* Nor does it see the walk begin: all of the list is in the family asked or not.
LEMMA EnterFamilyStep ==
  ASSUME EdgeInv, EnterFamily
  PROVE  UNCHANGED Calls!vars /\ EdgeInv'
<1>1. /\ stage = "map" /\ SameContext /\ Len(mapped) = Len(call.lists)
      /\ stage' = IF call.op = "contains" THEN "walk" ELSE "run"
      /\ walk' = IF call.op = "contains" THEN [remainder |-> call.on[1].family, index |-> 0] ELSE NoWalk
      /\ spaces' = spaces /\ held' = held /\ call' = call /\ calls' = calls /\ iterator' = iterator
      /\ mapped' = mapped /\ answer' = answer
  BY DEF EnterFamily
<1>2. EdgeTypes /\ MapsSound /\ Given
  BY <1>1 DEF EdgeInv
<1>3. UNCHANGED Calls!vars
  <2>1. UNCHANGED <<SeenOrders, SeenHeld, SeenCall, SeenAnswer, SeenIterator>>
    BY <1>1, SeenSame
  <2> QED
    BY <1>1, <2>1 DEF Calls!vars
<1>4. EdgeTypes' /\ Given' /\ SameContext'
  BY <1>1, <1>2 DEF EdgeTypes, Wrapped, CallTypes, Given, SameContext
<1>5. MapsSound'
  <2>1. \A q : Variables(q)' = Variables(q)
    BY <1>1 DEF Variables, EdgeToVariable
  <2> QED
    BY <1>1, <1>2, <2>1 DEF MapsSound
<1>6. ASSUME call.op = "contains" PROVE WalkSound'
  <2>1. Len(call.lists) = 1 /\ Len(call.on) = 1
    BY <1>2, <1>6 DEF Given, Suits
  <2> DEFINE w == Wanted
             F == call.on[1].family
  <2>2. Ascends(w, Wanting)
    BY <1>1, <1>2, <2>1, ListMapped
  <2>3. w \in Seq(Wanting) /\ Len(w) \in Nat
    BY <2>2 DEF Ascends
  <2>4. F \in Family
    BY <1>2, <2>1, OperandsHeld DEF Operand
  <2>5. walk'.remainder = F /\ walk'.index = 0 /\ walk' \in [remainder : Family, index : Nat]
    BY <1>1, <1>6, <2>4
  <2>6. Wanted' = w /\ Operand(1)' = F
    BY <1>1 DEF Wanted, Operand
  <2> HIDE DEF w, F
  <2>7. SubSeq(w, 0 + 1, Len(w)) = w
    BY <2>3, SubSeqFull
  <2>8. Remaining' = w
    BY <2>5, <2>6, <2>7 DEF Remaining
  <2> QED
    BY <2>3, <2>5, <2>6, <2>8 DEF WalkSound
<1> QED
  BY <1>1, <1>3, <1>4, <1>5, <1>6 DEF EdgeInv

\* A step down keeps the answer.
LEMMA WalkDownStep ==
  ASSUME EdgeInv, WalkDown
  PROVE  UNCHANGED Calls!vars /\ EdgeInv'
<1> DEFINE F == walk.remainder
           top == TopVar(F)
<1>1. /\ stage = "walk" /\ F \notin Terminals /\ \A v \in Upcoming(Remaining) : v >= top
      /\ walk' = IF top \in Upcoming(Remaining)
                 THEN [remainder |-> Hi(top, F), index |-> walk.index + 1]
                 ELSE [walk EXCEPT !.remainder = Lo(top, @)]
      /\ spaces' = spaces /\ held' = held /\ call' = call /\ calls' = calls /\ iterator' = iterator
      /\ mapped' = mapped /\ answer' = answer /\ stage' = stage
  BY DEF WalkDown
<1>2. PICK w, k, R, left : Walking(w, k, R, left)
  BY <1>1, WalkFacts
<1>3. /\ EdgeTypes /\ Given /\ MapsSound /\ SameContext /\ Len(mapped) = Len(call.lists)
      /\ call.op = "contains" /\ WalkSound
  BY <1>1 DEF EdgeInv
<1>4. UNCHANGED Calls!vars
  <2>1. UNCHANGED <<SeenOrders, SeenHeld, SeenCall, SeenAnswer, SeenIterator>>
    BY <1>1, SeenSame
  <2> QED
    BY <1>1, <2>1 DEF Calls!vars
<1>5. EdgeTypes' /\ Given' /\ SameContext'
  BY <1>1, <1>3 DEF EdgeTypes, Wrapped, CallTypes, Given, SameContext
<1>6. MapsSound'
  BY <1>1, <1>3 DEF MapsSound, Variables, EdgeToVariable
<1>7. F \in Family /\ F # Zero /\ F # One
  BY <1>1, <1>2 DEF Terminals, Walking
<1>8. walk = [remainder |-> F, index |-> k]
  BY <1>2, <1>3 DEF WalkSound, Walking
<1>9. walk' = IF top \in Upcoming(Remaining)
              THEN [remainder |-> Hi(top, F), index |-> k + 1]
              ELSE [remainder |-> Lo(top, F), index |-> k]
  BY <1>1, <1>8
<1>10. Wanted' = w /\ Operand(1)' = Operand(1)
  BY <1>1, <1>2 DEF Wanted, Operand, Walking
<1> HIDE DEF F
<1>11. top \in Var /\ \A x \in Support(F) : top <= x
  BY <1>7, TopExists DEF IsTop
<1> HIDE DEF top
<1>12. Hi(top, F) \in Family /\ Lo(top, F) \in Family
  BY <1>7, <1>11, CofactorTyping
<1>13. left \in F <=> R \in Operand(1)
  BY <1>2 DEF Walking, F
<1>14. PICK G, j : /\ walk' = [remainder |-> G, index |-> j]
                   /\ G \in Family /\ j \in 0 .. Len(w)
                   /\ Past(w, j) \in G <=> left \in F
  <2>1. CASE k < Len(w) /\ w[k + 1] = top
    <3>1. walk' = [remainder |-> Hi(top, F), index |-> k + 1]
      BY <1>2, <1>9, <2>1 DEF Walking
    <3>2. k + 1 \in 0 .. Len(w)
      BY <1>2, <2>1 DEF Walking
    <3>3. Past(w, k + 1) = left \ {top} /\ top \in left
      BY <1>2, <2>1 DEF Walking
    <3>4. top \notin left \ {top} /\ (left \ {top}) \union {top} = left
      BY <3>3
    <3> DEFINE T == left \ {top}
    <3>5. T \in Hi(top, F) <=> top \notin T /\ T \union {top} \in F
      BY HiMembership
    <3>6. T \in Hi(top, F) <=> left \in F
      BY <3>4, <3>5
    <3>7. Past(w, k + 1) \in Hi(top, F) <=> left \in F
      BY <3>3, <3>6
    <3>8. PICK G, j : G = Hi(top, F) /\ j = k + 1
      OBVIOUS
    <3>9. /\ walk' = [remainder |-> G, index |-> j] /\ G \in Family /\ j \in 0 .. Len(w)
          /\ Past(w, j) \in G <=> left \in F
      BY <1>12, <3>1, <3>2, <3>7, <3>8
    <3> QED
      BY <3>9
  <2>2. CASE ~(k < Len(w) /\ w[k + 1] = top)
    <3>1. top \notin Upcoming(Remaining) /\ top \notin left
      <4>1. CASE k = Len(w)
        BY <1>2, <4>1 DEF Walking, Upcoming
      <4>2. CASE k < Len(w)
        <5>1. Upcoming(Remaining) = {w[k + 1]} /\ w[k + 1] # top /\ w[k + 1] \in left
              /\ \A v \in left : w[k + 1] <= v
          BY <1>2, <2>2, <4>2 DEF Walking
        <5>2. w[k + 1] >= top
          BY <1>1, <5>1 DEF top, F
        <5>3. w[k + 1] \in Int /\ top \in Int
          BY <1>2, <1>11, <5>1, NAssumption DEF Walking, Var
        <5>4. top \notin left
          BY <5>1, <5>2, <5>3
        <5> QED
          BY <5>1, <5>4
      <4>3. k = Len(w) \/ k < Len(w)
        BY <1>2 DEF Walking
      <4> QED
        BY <4>1, <4>2, <4>3
    <3>2. walk' = [remainder |-> Lo(top, F), index |-> k]
      BY <1>9, <3>1
    <3>3. left \in Lo(top, F) <=> left \in F
      BY <3>1 DEF Lo
    <3>4. k \in 0 .. Len(w) /\ left = Past(w, k)
      BY <1>2 DEF Walking
    <3> QED
      BY <1>12, <3>2, <3>3, <3>4
  <2> QED
    BY <2>1, <2>2
<1>15. WalkSound'
  <2>1. Remaining' = SubSeq(w, j + 1, Len(w))
    BY <1>10, <1>14 DEF Remaining
  <2>2. R \in SUBSET Var /\ Ascends(w, R) /\ R = Range(w)
    BY <1>2 DEF Walking
  <2>3. Range(SubSeq(w, j + 1, Len(w))) = Past(w, j)
    BY <1>14, <2>2, RestOfList
  <2>4. walk' \in [remainder : Family, index : Nat] /\ walk'.index <= Len(w) /\ walk'.remainder = G
    BY <1>2, <1>14 DEF Walking
  <2> QED
    BY <1>10, <1>13, <1>14, <2>1, <2>2, <2>3, <2>4 DEF WalkSound
<1> QED
  BY <1>1, <1>3, <1>4, <1>5, <1>6, <1>15 DEF EdgeInv

----------------------------------------------------------------------------
(* The calls on the set family.                                            *)

\* What holds while the set family works.
LEMMA RunFacts ==
  ASSUME EdgeInv, stage = "run"
  PROVE  /\ EdgeTypes /\ Given /\ MapsSound /\ SameContext /\ Len(mapped) = Len(call.lists)
         /\ Calls!Valid /\ call.space \in DOMAIN spaces /\ spaces[call.space] \in Maps
         /\ call.op \in Operations /\ call.op # "contains"
<1>1. EdgeTypes /\ Given /\ MapsSound /\ SameContext /\ Len(mapped) = Len(call.lists) /\ call.op # "contains"
  BY DEF EdgeInv
<1>2. Calls!Valid /\ call.space \in DOMAIN spaces
  BY ValidSeen
<1>3. spaces \in Seq(Maps) /\ call.op \in Operations
  BY <1>1 DEF EdgeTypes, CallTypes
<1> QED
  BY <1>1, <1>2, <1>3

\* A limit of the space.
LEMMA FamilyLimitStep ==
  ASSUME EdgeInv, FamilyLimit
  PROVE  Calls!Fail /\ EdgeInv'
<1>1. /\ stage = "run" /\ call.op \notin Calls!Infallible /\ answer' = Calls!Error("limit")
      /\ stage' = "idle" /\ mapped' = << >>
      /\ spaces' = spaces /\ held' = held /\ call' = call /\ calls' = calls /\ iterator' = iterator
  BY DEF FamilyLimit, Return
<1>2. EdgeTypes /\ Calls!Valid
  BY <1>1, RunFacts
<1>3. SeenCall.op = call.op
  BY <1>2, SeenFields
<1>4. SeenAnswer' = Calls!Error("limit")
  BY <1>1, PlainAnswers
<1>5. UNCHANGED <<SeenOrders, SeenHeld, SeenCall, SeenIterator, calls>>
  BY <1>1, SeenSame
<1>6. EdgeInv'
  BY <1>1, ReturnKeeps
<1> QED
  BY <1>1, <1>2, <1>3, <1>4, <1>5, <1>6 DEF Calls!Fail

\* A filter keeps a set of variables when the caller expects its edges.
LEMMA KeepsSeen ==
  ASSUME EdgeInv, stage = "run", call.op \in Filters, NEW S \in SUBSET Var
  PROVE  Keeps(S) <=> Calls!Selected(Image(spaces[call.space], S))
<1>1. /\ EdgeTypes /\ Given /\ MapsSound /\ SameContext /\ Len(mapped) = Len(call.lists)
      /\ spaces[call.space] \in Maps
  BY RunFacts
<1>2. PICK m \in Maps : m = spaces[call.space]
  BY <1>1
<1>3. SeenCall.op = call.op /\ SeenCall.range = call.range
  BY <1>1, SeenFields
<1>4. CASE call.op = "cardinality"
  <2>1. Calls!Cardinality(Image(m, S)) = Cardinality(S)
    <3>1. Cardinality(Image(m, S)) = Cardinality(S)
      BY ImageFacts
    <3>2. PICK T : T = Image(m, S)
      OBVIOUS
    <3>3. Calls!Cardinality(T) = Cardinality(T)
      BY SameOperators
    <3> QED
      BY <3>1, <3>2, <3>3
  <2>2. Keeps(S) <=> HasCardinality(S)
    BY <1>4 DEF Keeps
  <2>3. Calls!Selected(Image(m, S)) <=> call.range[1] <= Cardinality(S) /\ Cardinality(S) <= call.range[2]
    BY <1>3, <1>4, <2>1 DEF Calls!Selected
  <2> QED
    BY <1>2, <2>2, <2>3 DEF HasCardinality
<1>5. CASE call.op # "cardinality"
  <2>1. Len(call.lists) = 1
    BY <1>1, <1>5 DEF Given, Suits, Filters
  <2>2. PICK W \in SUBSET Var : W = Wanting
    BY <1>1, <2>1, ListMapped
  <2>3. Calls!Listed(1) = Image(m, W) /\ mapped[1] \in Seq(Var) /\ Len(mapped[1]) = Len(call.lists[1])
    BY <1>1, <1>2, <2>1, <2>2, ListMapped
  <2> DEFINE E == Image(m, S)
             L == Image(m, W)
  <2>4. /\ \A v \in Var : v \in S <=> m[v] \in E
        /\ S \subseteq W <=> E \subseteq L
    BY ImageFacts
  <2>5. /\ \A v \in Var : v \in W <=> m[v] \in L
        /\ W \subseteq S <=> L \subseteq E
    BY ImageFacts
  <2>6. L = {m[v] : v \in W}
    BY DEF Image
  <2> HIDE DEF E, L
  <2>7. CASE call.op = "filter_subsets_of"
    <3>1. Keeps(S) <=> S \subseteq Wanting
      BY <2>7 DEF Keeps
    <3>2. Calls!Selected(E) <=> E \subseteq Calls!Listed(1)
      BY <1>3, <2>7 DEF Calls!Selected
    <3> QED
      BY <1>2, <2>2, <2>3, <2>4, <3>1, <3>2 DEF E, L
  <2>8. CASE call.op = "filter_supersets_of"
    <3>1. Keeps(S) <=> Wanting \subseteq S
      BY <2>8 DEF Keeps
    <3>2. Calls!Selected(E) <=> Calls!Listed(1) \subseteq E
      BY <1>3, <2>8 DEF Calls!Selected
    <3> QED
      BY <1>2, <2>2, <2>3, <2>5, <3>1, <3>2 DEF E, L
  <2>9. CASE call.op \in Calls!EdgeFilters
    <3>1. Len(mapped[1]) = 1
      BY <1>1, <2>3, <2>9 DEF Given, Suits
    <3>2. PICK x \in Var : x = mapped[1][1]
      BY <2>3, <3>1
    <3>3. W = {x}
      <4>1. DOMAIN mapped[1] = {1}
        BY <2>3, <3>1
      <4> QED
        BY <2>2, <3>2, <4>1 DEF Wanting, Range
    <3>4. L = {m[x]}
      BY <2>6, <3>3
    <3>5. x \in S <=> m[x] \in E
      BY <2>4
    <3>6. CASE call.op = "filter_contains"
      <4>1. Keeps(S) <=> x \in S
        BY <3>2, <3>6 DEF Keeps
      <4>2. Calls!Selected(E) <=> Calls!Listed(1) \subseteq E
        BY <1>3, <3>6 DEF Calls!Selected
      <4>3. L \subseteq E <=> m[x] \in E
        BY <3>4
      <4>4. Calls!Listed(1) = L /\ Image(spaces[call.space], S) = E
        BY <1>2, <2>3 DEF E, L
      <4> QED
        BY <3>5, <4>1, <4>2, <4>3, <4>4
    <3>7. CASE call.op = "filter_excludes"
      <4>1. Keeps(S) <=> x \notin S
        BY <3>2, <3>7 DEF Keeps
      <4>2. Calls!Selected(E) <=> Calls!Listed(1) \intersect E = {}
        BY <1>3, <3>7 DEF Calls!Selected
      <4>3. L \intersect E = {} <=> m[x] \notin E
        BY <3>4
      <4>4. Calls!Listed(1) = L /\ Image(spaces[call.space], S) = E
        BY <1>2, <2>3 DEF E, L
      <4> QED
        BY <3>5, <4>1, <4>2, <4>3, <4>4
    <3> QED
      BY <2>9, <3>6, <3>7 DEF Calls!EdgeFilters
  <2> QED
    BY <1>5, <2>7, <2>8, <2>9 DEF Filters, Calls!ListFilters
<1> QED
  BY <1>4, <1>5

\* The operations that yield a family.
LEMMA ProducingKinds ==
  ASSUME call.op \in Calls!Producing
  PROVE  call.op \in {"empty", "unit", "powerset", "from_edge_sets", "build"} \/ call.op \in Ops \/ call.op \in Filters
BY DEF Calls!Producing, Ops, Calls!Ops, Filters

\* Each result is a family of sets of variables, and of the edges the caller
\* expects.
LEMMA ResultSeen ==
  ASSUME EdgeInv, stage = "run", call.op \in Calls!Producing
  PROVE  /\ FamilyResult \in Family
         /\ ImageOf(spaces[call.space], FamilyResult) = Calls!Value
<1>1. /\ EdgeTypes /\ Given /\ MapsSound /\ SameContext /\ Len(mapped) = Len(call.lists)
      /\ spaces[call.space] \in Maps /\ call.space \in DOMAIN spaces /\ spaces \in Seq(Maps)
  BY RunFacts DEF EdgeTypes
<1>2. PICK m \in Maps : m = spaces[call.space]
  BY <1>1
<1>3. SeenCall.op = call.op /\ SeenCall.lists = call.lists /\ SeenCall.target = call.target
  BY <1>1, SeenFields
<1> SUFFICES FamilyResult \in Family /\ ImageOf(m, FamilyResult) = Calls!Value
  BY <1>2
<1>4. CASE call.op = "empty"
  <2>1. FamilyResult = {} /\ Calls!Value = {}
    BY <1>3, <1>4 DEF FamilyResult, Calls!Value, Zero, Calls!Zero, Ops, Calls!Ops
  <2> QED
    BY <2>1 DEF Family, ImageOf
<1>5. CASE call.op = "unit"
  <2>1. FamilyResult = {{}} /\ Calls!Value = {{}}
    BY <1>3, <1>5 DEF FamilyResult, Calls!Value, One, Calls!One, Ops, Calls!Ops
  <2>2. Image(m, {}) = {}
    BY DEF Image
  <2> QED
    BY <2>1, <2>2 DEF Family, ImageOf
<1>6. CASE call.op = "powerset"
  <2>1. FamilyResult = Powerset /\ Calls!Value = SUBSET Edge
    BY <1>3, <1>6 DEF FamilyResult, Calls!Value, Calls!Edge, Edge, Var, Ops, Calls!Ops
  <2> QED
    BY <2>1, PowersetImage DEF Family, Powerset
<1>7. CASE call.op = "from_edge_sets"
  <2> DEFINE V(i) == Range(mapped[i])
             E(i) == Range(call.lists[i])
             k == Len(mapped)
  <2>1. FamilyResult = {Range(q) : q \in Range(mapped)} /\ Calls!Value = {Calls!Listed(i) : i \in DOMAIN call.lists}
    BY <1>3, <1>7 DEF FamilyResult, Calls!Value, Ops, Calls!Ops
  <2>2. DOMAIN mapped = 1 .. k /\ DOMAIN call.lists = 1 .. k /\ call.lists \in Seq(Seq(Nat))
    BY <1>1 DEF MapsSound, EdgeTypes, CallTypes
  <2>3. FamilyResult = {V(i) : i \in 1 .. k}
    <3>1. \A q : q \in Range(mapped) <=> \E i \in 1 .. k : q = mapped[i]
      BY <2>2 DEF Range
    <3>2. \A S : S \in FamilyResult <=> \E q \in Range(mapped) : S = Range(q)
      BY <2>1
    <3> HIDE DEF k
    <3>3. \A S : S \in FamilyResult <=> \E i \in 1 .. k : S = V(i)
      BY <3>1, <3>2
    <3> QED
      BY <3>3
  <2>4. \A i : Calls!Listed(i) = E(i)
    BY <1>3, SameOperators DEF Calls!Listed
  <2>5. Calls!Value = {E(i) : i \in 1 .. k}
    BY <2>1, <2>2, <2>4
  <2>6. \A i \in 1 .. k : V(i) \in SUBSET Var /\ Image(m, V(i)) = E(i)
    <3> SUFFICES ASSUME NEW i \in 1 .. k PROVE V(i) \in SUBSET Var /\ Image(m, V(i)) = E(i)
      OBVIOUS
    <3>1. PICK q \in Seq(Nat) : q = call.lists[i]
      BY <2>2
    <3>2. Range(q) \subseteq Edge /\ mapped[i] = Variables(q)
      BY <1>1, <3>1 DEF MapsSound
    <3>3. Range(Variables(q)) \in SUBSET Var /\ Image(spaces[call.space], Range(Variables(q))) = Range(q)
      BY <1>1, <3>2, ListFacts
    <3> QED
      BY <1>2, <3>1, <3>2, <3>3
  <2> HIDE DEF V, E, k
  <2>7. FamilyResult \in Family
    BY <2>3, <2>6 DEF Family
  <2>8. ImageOf(m, FamilyResult) = {Image(m, S) : S \in FamilyResult}
    BY DEF ImageOf
  <2>9. ImageOf(m, FamilyResult) = {E(i) : i \in 1 .. k}
    BY <2>3, <2>6, <2>8
  <2> QED
    BY <2>5, <2>7, <2>9
<1>8. CASE call.op = "build"
  <2>1. FamilyResult = {S \in Powerset : EdgesOf(call.space, S) \in call.target} /\ Calls!Value = call.target
    BY <1>3, <1>8 DEF FamilyResult, Calls!Value, Ops, Calls!Ops
  <2>2. \A S : EdgesOf(call.space, S) = Image(m, S)
    BY <1>2 DEF EdgesOf, Image
  <2>3. FamilyResult = {S \in SUBSET Var : Image(m, S) \in call.target}
    BY <2>1, <2>2 DEF Powerset
  <2>4. call.target \in SUBSET SUBSET Var
    BY <1>1 DEF EdgeTypes, CallTypes, Edge
  <2>5. \A E \in SUBSET Var : \E S \in SUBSET Var : Image(m, S) = E
    BY ImageOnto
  <2>6. ImageOf(m, FamilyResult) = {Image(m, S) : S \in FamilyResult}
    BY DEF ImageOf
  <2>7. \A E : E \in call.target <=> \E S \in FamilyResult : Image(m, S) = E
    BY <2>3, <2>4, <2>5
  <2>8. ImageOf(m, FamilyResult) = call.target
    BY <2>6, <2>7
  <2> QED
    BY <2>1, <2>3, <2>8 DEF Family
<1>9. CASE call.op \in Ops
  <2>1. Len(call.on) = 2
    BY <1>1, <1>9 DEF Given, Suits
  <2>2. DOMAIN call.on = 1 .. 2
    BY <1>1, <2>1, OperandsHeld
  <2>3. PICK i \in DOMAIN call.on, j \in DOMAIN call.on : i = 1 /\ j = 2
    BY <2>2
  <2>4. PICK F \in Family, G \in Family : F = Operand(i) /\ G = Operand(j)
    BY <1>1, OperandsHeld
  <2>5. Calls!Operand(i) = ImageOf(m, F) /\ Calls!Operand(j) = ImageOf(m, G)
    BY <1>1, <1>2, <2>4, OperandSeen
  <2>6. FamilyResult = Denote(call.op, F, G)
    BY <1>9, <2>3, <2>4 DEF FamilyResult, Ops
  <2>7. Calls!Value = Calls!Denote(call.op, Calls!Operand(1), Calls!Operand(2))
    BY <1>3, <1>9 DEF Calls!Value, Calls!Ops, Ops
  <2>8. Calls!Value = Denote(call.op, ImageOf(m, F), ImageOf(m, G))
    BY <2>3, <2>5, <2>7 DEF Calls!Denote, Denote
  <2> QED
    BY <1>9, <2>6, <2>8, DenoteImages, DenoteTyping
<1>10. CASE call.op \in Filters
  <2>1. Len(call.on) = 1
    BY <1>1, <1>10 DEF Given, Suits
  <2>2. DOMAIN call.on = 1 .. 1
    BY <1>1, <2>1, OperandsHeld
  <2>3. PICK i \in DOMAIN call.on : i = 1
    BY <2>2
  <2>4. PICK F \in Family : F = Operand(i)
    BY <1>1, OperandsHeld
  <2>5. Calls!Operand(i) = ImageOf(m, F)
    BY <1>1, <1>2, <2>4, OperandSeen
  <2>6. call.op \notin Ops /\ call.op \notin {"empty", "unit", "powerset", "from_edge_sets", "build"}
    BY <1>10 DEF Ops, Filters, Calls!ListFilters, Calls!EdgeFilters
  <2>7. FamilyResult = {S \in F : Keeps(S)}
    BY <2>3, <2>4, <2>6 DEF FamilyResult
  <2>8. call.op \notin Calls!Ops
    BY <2>6 DEF Ops, Calls!Ops
  <2>9. Calls!Value = {E \in ImageOf(m, F) : Calls!Selected(E)}
    BY <1>3, <2>3, <2>5, <2>6, <2>8 DEF Calls!Value
  <2>10. \A S \in F : S \in SUBSET Var
    BY DEF Family
  <2>11. \A S \in SUBSET Var : Keeps(S) <=> Calls!Selected(Image(m, S))
    BY <1>2, <1>10, KeepsSeen
  <2>12. ImageOf(m, FamilyResult) = {Image(m, S) : S \in FamilyResult} /\ ImageOf(m, F) = {Image(m, S) : S \in F}
    BY DEF ImageOf
  <2>13. \A E : E \in ImageOf(m, FamilyResult) <=> E \in ImageOf(m, F) /\ Calls!Selected(E)
    BY <2>7, <2>10, <2>11, <2>12
  <2>14. ImageOf(m, FamilyResult) = Calls!Value
    BY <2>9, <2>13
  <2> QED
    BY <2>7, <2>10, <2>14 DEF Family
<1> QED
  BY <1>4, <1>5, <1>6, <1>7, <1>8, <1>9, <1>10, ProducingKinds

\* Families of a longer list of spaces: the old ones are seen as before.
Grows == spaces' \in Seq(Maps) /\ \A c \in DOMAIN spaces : c \in DOMAIN spaces' /\ spaces'[c] = spaces[c]

\* Such families, calls and iterators.
LEMMA SeenGrows ==
  ASSUME EdgeTypes, Grows
  PROVE  /\ \A f \in held : EdgeFamily(f)' = EdgeFamily(f)
         /\ call' = call => SeenCall' = SeenCall
         /\ iterator' = iterator => SeenIterator' = SeenIterator
<1>1. ASSUME NEW c \in DOMAIN spaces, NEW S PROVE EdgesOf(c, S)' = EdgesOf(c, S)
  BY DEF EdgesOf, Grows
<1>2. \A f \in held : f.space \in DOMAIN spaces
  BY DEF EdgeTypes, Wrapped
<1>3. \A f \in held : EdgeFamily(f)' = EdgeFamily(f)
  BY <1>1, <1>2 DEF EdgeFamily
<1>4. ASSUME call' = call PROVE SeenCall' = SeenCall
  <2>1. DOMAIN call.on = 1 .. Len(call.on) /\ \A i \in DOMAIN call.on : call.on[i] \in held
    BY OperandsHeld
  <2>2. [i \in DOMAIN call.on |-> EdgeFamily(call.on[i])]' = [i \in DOMAIN call.on |-> EdgeFamily(call.on[i])]
    BY <1>3, <1>4, <2>1
  <2> QED
    BY <1>4, <2>2 DEF SeenCall
<1>5. ASSUME iterator' = iterator PROVE SeenIterator' = SeenIterator
  <2>1. \A it \in iterator : it.space \in DOMAIN spaces
    BY DEF EdgeTypes
  <2>2. \A it \in iterator : EdgeIterator(it)' = EdgeIterator(it)
    BY <1>1, <2>1 DEF EdgeIterator
  <2> QED
    BY <1>5, <2>2 DEF SeenIterator
<1> QED
  BY <1>3, <1>4, <1>5

\* Lists of families stay lists of families when more are held.
LEMMA SeqGrows ==
  ASSUME NEW S, NEW T, S \subseteq T, NEW s \in Seq(S)
  PROVE  s \in Seq(T)
<1>1. s \in [1 .. Len(s) -> S] /\ Len(s) \in Nat
  OBVIOUS
<1>2. s \in [1 .. Len(s) -> T]
  BY <1>1
<1> QED
  BY <1>1, <1>2

\* The families that a call yields are the caller's.
LEMMA OwnStep ==
  ASSUME EdgeInv, NEW fs \in Seq([space : DOMAIN spaces', family : Family]), Own(fs), Grows,
         call' = call, iterator' = iterator
  PROVE  /\ EdgeInv'
         /\ SeenCall' = SeenCall /\ SeenIterator' = SeenIterator
         /\ SeenAnswer' = Calls!Gives([i \in DOMAIN fs |-> EdgeFamily(fs[i])'])
         /\ SeenHeld' = SeenHeld \union {EdgeFamily(fs[i])' : i \in DOMAIN fs}
<1>1. /\ answer' = Calls!Gives(fs) /\ held' = held \union Range(fs)
      /\ stage' = "idle" /\ mapped' = << >>
  BY DEF Own, Return
<1>2. EdgeTypes
  BY DEF EdgeInv
<1>3. \A i \in DOMAIN fs : fs[i] \in [space : DOMAIN spaces', family : Family]
  BY LenProperties
<1>4. Range(fs) = {fs[i] : i \in DOMAIN fs}
  BY DEF Range
<1>5. EdgeTypes'
  <2>1. held \in SUBSET [space : DOMAIN spaces', family : Family]
    BY <1>2 DEF EdgeTypes, Wrapped, Grows
  <2>2. held' \in SUBSET [space : DOMAIN spaces', family : Family]
    BY <1>1, <1>3, <1>4, <2>1
  <2>3. call \in CallTypes
    BY <1>2 DEF EdgeTypes
  <2>4. call' \in CallTypes'
    <3>1. call.on \in Seq(held)
      BY <2>3 DEF CallTypes
    <3>2. held \subseteq held'
      BY <1>1
    <3>3. call.on \in Seq(held')
      BY <3>1, <3>2, SeqGrows
    <3>4. call = [op |-> call.op, space |-> call.space, on |-> call.on, lists |-> call.lists,
                  range |-> call.range, target |-> call.target]
      BY <2>3 DEF CallTypes
    <3>5. /\ call.op \in Operations /\ call.space \in Int /\ call.lists \in Seq(Seq(Nat))
          /\ call.range \in Ranges \union {Calls!NoRange} /\ call.target \in SUBSET SUBSET Edge
      BY <2>3 DEF CallTypes
    <3> QED
      BY <3>3, <3>4, <3>5 DEF CallTypes
  <2>5. iterator' \in SUBSET [space : DOMAIN spaces', left : Family]
    BY <1>2 DEF EdgeTypes, Grows
  <2> QED
    BY <1>1, <2>2, <2>4, <2>5 DEF EdgeTypes, Wrapped, Grows
<1>6. EdgeInv'
  BY <1>1, <1>5 DEF EdgeInv
<1>7. SeenCall' = SeenCall /\ SeenIterator' = SeenIterator /\ \A f \in held : EdgeFamily(f)' = EdgeFamily(f)
  BY <1>2, SeenGrows
<1>8. SeenAnswer' = Calls!Gives([i \in DOMAIN fs |-> EdgeFamily(fs[i])'])
  <2> DEFINE next(f) == [space |-> f.space, family |-> {{spaces'[f.space][v] : v \in S} : S \in f.family}]
  <2>1. SeenAnswer' = [answer' EXCEPT !.families = [i \in DOMAIN @ |-> next(@[i])]]
    BY DEF SeenAnswer, EdgeFamily, EdgesOf
  <2>2. \A f : EdgeFamily(f)' = next(f)
    BY DEF EdgeFamily, EdgesOf
  <2> HIDE DEF next
  <2>3. SeenAnswer' = Calls!Gives([i \in DOMAIN fs |-> next(fs[i])])
    BY <1>1, <2>1 DEF Calls!Gives, Calls!Answer
  <2>4. [i \in DOMAIN fs |-> next(fs[i])] = [i \in DOMAIN fs |-> EdgeFamily(fs[i])']
    BY <2>2
  <2> QED
    BY <2>3, <2>4
<1>9. SeenHeld' = SeenHeld \union {EdgeFamily(fs[i])' : i \in DOMAIN fs}
  <2>1. SeenHeld' = {EdgeFamily(f)' : f \in held'}
    BY DEF SeenHeld
  <2>2. SeenHeld = {EdgeFamily(f) : f \in held}
    BY DEF SeenHeld
  <2> QED
    BY <1>1, <1>4, <1>7, <2>1, <2>2
<1> QED
  BY <1>6, <1>7, <1>8, <1>9

\* An operation yields the family of edges that the caller expects.
LEMMA MakeFamilyStep ==
  ASSUME EdgeInv, MakeFamily
  PROVE  Calls!Produce /\ EdgeInv'
<1> DEFINE c == call.space
           F == FamilyResult
           seen == [space |-> c, family |-> Calls!Value]
<1>16. PICK f : f = Wrap(c, F)
  OBVIOUS
<1>1. /\ stage = "run" /\ call.op \in Calls!Producing /\ Own(<<f>>)
      /\ spaces' = spaces /\ call' = call /\ calls' = calls /\ iterator' = iterator
  BY <1>16 DEF MakeFamily
<1>2. EdgeTypes /\ Calls!Valid /\ c \in DOMAIN spaces /\ spaces \in Seq(Maps)
  BY <1>1, RunFacts DEF EdgeTypes
<1>3. F \in Family /\ ImageOf(spaces[c], F) = Calls!Value
  BY <1>1, ResultSeen
<1>4. SeenCall.op = call.op /\ SeenCall.space = c
  BY <1>2, SeenFields
<1>5. EdgeFamily(f)' = seen
  <2>1. EdgeFamily(f)' = EdgeFamily(f)
    BY <1>1, SeenSame
  <2>2. f.space = c /\ f.family = F
    BY <1>16 DEF Wrap
  <2>3. EdgeFamily(f) = [space |-> c, family |-> ImageOf(spaces[c], F)]
    BY <2>2 DEF EdgeFamily, ImageOf, Image, EdgesOf
  <2> QED
    BY <1>3, <2>1, <2>3
<1>6. f \in [space : DOMAIN spaces', family : Family]
  BY <1>1, <1>2, <1>3, <1>16 DEF Wrap
<1>7. Grows
  BY <1>1, <1>2 DEF Grows
<1>8. stage' = "idle"
  BY <1>1 DEF Own, Return
<1> HIDE DEF seen
<1>9. PICK fs \in Seq([space : DOMAIN spaces', family : Family]) : fs = <<f>>
  <2> DEFINE T == [space : DOMAIN spaces', family : Family]
  <2>1. f \in T
    BY <1>6
  <2> HIDE DEF T
  <2>2. <<f>> \in Seq(T)
    BY <2>1
  <2> QED
    BY <2>2 DEF T
<1>10. /\ EdgeInv' /\ SeenCall' = SeenCall /\ SeenIterator' = SeenIterator
       /\ SeenAnswer' = Calls!Gives([i \in DOMAIN fs |-> EdgeFamily(fs[i])'])
       /\ SeenHeld' = SeenHeld \union {EdgeFamily(fs[i])' : i \in DOMAIN fs}
  BY <1>1, <1>7, <1>9, OwnStep
<1>11. DOMAIN fs = {1} /\ fs[1] = f
  BY <1>9
<1>12. [i \in DOMAIN fs |-> EdgeFamily(fs[i])'] = <<seen>> /\ {EdgeFamily(fs[i])' : i \in DOMAIN fs} = {seen}
  BY <1>5, <1>11
<1>13. Calls!Range(<<seen>>) = {seen}
  BY DEF Calls!Range
<1>14. Calls!Give(<<seen>>)
  BY <1>10, <1>12, <1>13 DEF Calls!Give
<1>15. SeenOrders' = SeenOrders
  BY <1>1, SeenSame
<1> QED
  BY <1>1, <1>2, <1>4, <1>8, <1>10, <1>14, <1>15 DEF Calls!Produce, seen

\* Families of variables are equal or included when their edges are.
LEMMA CompareFamiliesStep ==
  ASSUME EdgeInv, CompareFamilies
  PROVE  Calls!Compare /\ EdgeInv'
<1>1. /\ stage = "run" /\ stage' = "idle" /\ mapped' = << >>
      /\ spaces' = spaces /\ held' = held /\ call' = call /\ calls' = calls /\ iterator' = iterator
      /\ \/ call.op = "equivalent" /\ answer' = Calls!Truth(Operand(1) = Operand(2))
         \/ call.op = "is_subset_of" /\ answer' = Calls!Truth(Denote("difference", Operand(1), Operand(2)) = Zero)
  BY DEF CompareFamilies, Return
<1>2. /\ EdgeTypes /\ Given /\ SameContext /\ Calls!Valid /\ call.space \in DOMAIN spaces
      /\ spaces[call.space] \in Maps
  BY <1>1, RunFacts
<1>3. SeenCall.op = call.op
  BY <1>2, SeenFields
<1>4. Len(call.on) = 2
  BY <1>1, <1>2 DEF Given, Suits, Calls!Comparisons
<1>5. PICK i \in DOMAIN call.on, j \in DOMAIN call.on : i = 1 /\ j = 2
  BY <1>2, <1>4, OperandsHeld
<1>6. PICK m \in Maps : m = spaces[call.space]
  BY <1>2
<1>7. PICK F \in Family, G \in Family : F = Operand(i) /\ G = Operand(j)
  BY <1>2, OperandsHeld
<1>8. Calls!Operand(i) = ImageOf(m, F) /\ Calls!Operand(j) = ImageOf(m, G)
  BY <1>2, <1>6, <1>7, OperandSeen
<1>9. F \subseteq G <=> ImageOf(m, F) \subseteq ImageOf(m, G)
  BY FamilyImages
<1>10. F = G <=> ImageOf(m, F) = ImageOf(m, G)
  BY FamilyImages
<1>11. UNCHANGED <<SeenOrders, SeenHeld, SeenCall, SeenIterator, calls>>
  BY <1>1, SeenSame
<1>12. EdgeInv'
  BY <1>1, ReturnKeeps
<1>13. CASE call.op = "equivalent"
  <2>1. answer' = Calls!Truth(F = G)
    BY <1>1, <1>5, <1>7, <1>13
  <2>2. SeenAnswer' = Calls!Truth(F = G)
    BY <2>1, PlainAnswers
  <2>3. (F = G) = (ImageOf(m, F) = ImageOf(m, G))
    BY <1>10
  <2>4. SeenAnswer' = Calls!Truth(Calls!Operand(1) = Calls!Operand(2))
    BY <1>5, <1>8, <2>2, <2>3
  <2> QED
    BY <1>1, <1>2, <1>3, <1>11, <1>12, <1>13, <2>4 DEF Calls!Compare
<1>14. CASE call.op = "is_subset_of"
  <2>1. Denote("difference", F, G) = F \ G
    BY DEF Denote
  <2>2. (Denote("difference", F, G) = Zero) = (F \subseteq G)
    BY <2>1 DEF Zero
  <2>3. answer' = Calls!Truth(F \subseteq G)
    BY <1>1, <1>5, <1>7, <1>14, <2>2
  <2>4. SeenAnswer' = Calls!Truth(F \subseteq G)
    BY <2>3, PlainAnswers
  <2>5. (F \subseteq G) = (ImageOf(m, F) \subseteq ImageOf(m, G))
    BY <1>9
  <2>6. SeenAnswer' = Calls!Truth(Calls!Operand(1) \subseteq Calls!Operand(2))
    BY <1>5, <1>8, <2>4, <2>5
  <2> QED
    BY <1>1, <1>2, <1>3, <1>11, <1>12, <1>14, <2>6 DEF Calls!Compare
<1> QED
  BY <1>1, <1>13, <1>14

\* A sample is a member, its edges in the order of the space.
LEMMA SampleFamilyStep ==
  ASSUME EdgeInv, SampleFamily
  PROVE  Calls!Sample /\ EdgeInv'
<1>1. /\ stage = "run" /\ call.op = "sample" /\ stage' = "idle" /\ mapped' = << >>
      /\ spaces' = spaces /\ held' = held /\ call' = call /\ calls' = calls /\ iterator' = iterator
      /\ \/ Operand(1) = Zero /\ answer' = Calls!Solution("no_solution", << >>)
         \/ \E S \in Operand(1) : answer' = Calls!Solution("solution", EdgeSolution(call.space, S))
  BY DEF SampleFamily, Return
<1>2. /\ EdgeTypes /\ Given /\ SameContext /\ Calls!Valid /\ call.space \in DOMAIN spaces
      /\ spaces \in Seq(Maps) /\ spaces[call.space] \in Maps
  BY <1>1, RunFacts DEF EdgeTypes
<1>3. SeenCall.op = call.op /\ SeenCall.space = call.space
  BY <1>2, SeenFields
<1>4. Len(call.on) = 1
  BY <1>1, <1>2 DEF Given, Suits
<1>5. PICK i \in DOMAIN call.on : i = 1
  BY <1>2, <1>4, OperandsHeld
<1>6. PICK F \in Family : F = Operand(i)
  BY <1>2, OperandsHeld
<1>7. Calls!Operand(i) = ImageOf(spaces[call.space], F)
  BY <1>2, <1>6, OperandSeen
<1>8. UNCHANGED <<SeenOrders, SeenHeld, SeenCall, SeenIterator, calls>>
  BY <1>1, SeenSame
<1>9. EdgeInv'
  BY <1>1, ReturnKeeps
<1>10. CASE Operand(1) = Zero /\ answer' = Calls!Solution("no_solution", << >>)
  <2>1. SeenAnswer' = Calls!Solution("no_solution", << >>)
    BY <1>10, PlainAnswers
  <2>2. Calls!Operand(1) = Calls!Zero
    BY <1>5, <1>6, <1>7, <1>10 DEF ImageOf, Zero, Calls!Zero
  <2> QED
    BY <1>1, <1>2, <1>3, <1>8, <1>9, <2>1, <2>2 DEF Calls!Sample
<1>11. CASE \E S \in Operand(1) : answer' = Calls!Solution("solution", EdgeSolution(call.space, S))
  <2>1. PICK S \in F : answer' = Calls!Solution("solution", EdgeSolution(call.space, S))
    BY <1>5, <1>6, <1>11
  <2>2. SeenAnswer' = Calls!Solution("solution", EdgeSolution(call.space, S))
    BY <2>1, PlainAnswers
  <2>3. S \in SUBSET Var
    BY DEF Family
  <2>4. EdgeSolution(call.space, S) \in Calls!Listings(call.space, Image(spaces[call.space], S))
    BY <1>2, <2>3, SolutionIsListing
  <2>5. Image(spaces[call.space], S) \in Calls!Operand(1)
    BY <1>5, <1>7 DEF ImageOf
  <2> QED
    BY <1>1, <1>2, <1>3, <1>8, <1>9, <2>2, <2>4, <2>5 DEF Calls!Sample
<1> QED
  BY <1>1, <1>10, <1>11

\* The new space has the order of the old one, so its families have the same edges.
LEMMA CompactFamiliesStep ==
  ASSUME EdgeInv, CompactFamilies
  PROVE  Calls!Compact /\ EdgeInv'
<1>1. PICK c, k : c = call.space /\ k = Len(spaces)
  OBVIOUS
<1>2. PICK fs : fs = [i \in DOMAIN call.on |-> Wrap(k + 1, Operand(i))]
  OBVIOUS
<1>3. /\ stage = "run" /\ call.op = "compact" /\ spaces' = Append(spaces, spaces[c])
      /\ Own(fs) /\ call' = call /\ calls' = calls /\ iterator' = iterator
  BY <1>1, <1>2 DEF CompactFamilies
<1>4. /\ EdgeTypes /\ SameContext /\ Calls!Valid /\ c \in DOMAIN spaces
      /\ spaces \in Seq(Maps) /\ spaces[c] \in Maps
  BY <1>1, <1>3, RunFacts DEF EdgeTypes
<1>5. SeenCall.op = call.op /\ SeenCall.space = c /\ SeenCall.on = SeenOn(call.on)
  BY <1>1, <1>4, SeenFields
<1>6. stage' = "idle"
  BY <1>3 DEF Own, Return
<1>7. k \in Nat /\ DOMAIN spaces = 1 .. k
  BY <1>1, <1>4
<1>8. spaces' \in Seq(Maps) /\ DOMAIN spaces' = 1 .. k + 1
  BY <1>1, <1>3, <1>4, <1>7
<1>9. spaces'[k + 1] = spaces[c] /\ \A d \in 1 .. k : spaces'[d] = spaces[d]
  BY <1>1, <1>3, <1>4, <1>7
<1>10. Grows
  BY <1>7, <1>8, <1>9 DEF Grows
<1>11. /\ DOMAIN call.on = 1 .. Len(call.on) /\ Len(call.on) \in Nat
       /\ \A i \in DOMAIN call.on : Operand(i) \in Family
  BY <1>4, OperandsHeld
<1>12. DOMAIN fs = DOMAIN call.on
  BY <1>2
<1>23. ASSUME NEW i \in DOMAIN call.on, NEW F, F = Operand(i)
       PROVE  fs[i] = [space |-> k + 1, family |-> F]
  BY <1>2, <1>23 DEF Wrap
<1>13. fs \in Seq([space : DOMAIN spaces', family : Family])
  <2> DEFINE T == [space : DOMAIN spaces', family : Family]
  <2>1. k + 1 \in DOMAIN spaces'
    BY <1>7, <1>8
  <2>2. \A i \in DOMAIN fs : fs[i] \in T
    <3> SUFFICES ASSUME NEW i \in DOMAIN call.on PROVE fs[i] \in T
      BY <1>12
    <3>1. PICK F \in Family : F = Operand(i)
      BY <1>11
    <3>2. fs[i] = [space |-> k + 1, family |-> F]
      BY <1>23, <3>1
    <3> QED
      BY <2>1, <3>2
  <2> HIDE DEF T
  <2>3. fs \in [1 .. Len(call.on) -> T]
    BY <1>2, <1>11, <1>12, <2>2
  <2>4. fs \in Seq(T)
    BY <1>11, <2>3
  <2> QED
    BY <2>4 DEF T
<1>14. /\ EdgeInv' /\ SeenCall' = SeenCall /\ SeenIterator' = SeenIterator
       /\ SeenAnswer' = Calls!Gives([i \in DOMAIN fs |-> EdgeFamily(fs[i])'])
       /\ SeenHeld' = SeenHeld \union {EdgeFamily(fs[i])' : i \in DOMAIN fs}
  BY <1>3, <1>10, <1>13, OwnStep
<1>15. \A i \in DOMAIN fs : EdgeFamily(fs[i])' = [space |-> k + 1, family |-> Calls!Operand(i)]
  <2> SUFFICES ASSUME NEW i \in DOMAIN fs
               PROVE  EdgeFamily(fs[i])' = [space |-> k + 1, family |-> Calls!Operand(i)]
    OBVIOUS
  <2>1. PICK F \in Family : F = Operand(i)
    BY <1>11, <1>12
  <2>2. Calls!Operand(i) = ImageOf(spaces[c], F)
    BY <1>1, <1>4, <1>12, <2>1, OperandSeen
  <2>3. PICK f : f = fs[i]
    OBVIOUS
  <2>4. f.space = k + 1 /\ f.family = F
    <3>1. f = [space |-> k + 1, family |-> F]
      BY <1>12, <1>23, <2>1, <2>3
    <3> QED
      BY <3>1
  <2>5. EdgeFamily(f)' = [space |-> k + 1, family |-> {{spaces'[k + 1][v] : v \in S} : S \in F}]
    BY <2>4 DEF EdgeFamily, EdgesOf
  <2>6. EdgeFamily(f)' = [space |-> k + 1, family |-> ImageOf(spaces[c], F)]
    BY <1>9, <2>5 DEF ImageOf, Image
  <2> QED
    BY <2>2, <2>3, <2>6
<1>16. Len(SeenOrders) = k /\ DOMAIN SeenOrders = 1 .. k /\ SeenOrders \in Seq(Bijection(1 .. N, Edge))
  BY <1>1, <1>4, <1>7, OrdersSeen
<1>17. DOMAIN SeenOn(call.on) = DOMAIN fs
  BY <1>12 DEF SeenOn
<1> DEFINE gs == [i \in DOMAIN SeenCall.on |-> [space |-> Len(SeenOrders) + 1, family |-> Calls!Operand(i)]]
<1>18. gs = [i \in DOMAIN fs |-> EdgeFamily(fs[i])']
  BY <1>5, <1>15, <1>16, <1>17
<1>19. Calls!Range(gs) = {gs[i] : i \in DOMAIN gs}
  BY DEF Calls!Range
<1>20. DOMAIN gs = DOMAIN fs /\ \A i \in DOMAIN fs : gs[i] = EdgeFamily(fs[i])'
  BY <1>18
<1> HIDE DEF gs
<1>21. SeenAnswer' = Calls!Gives(gs) /\ SeenHeld' = SeenHeld \union Calls!Range(gs)
  BY <1>14, <1>18, <1>19, <1>20
<1>22. SeenOrders' = Append(SeenOrders, SeenOrders[c])
  <2> DEFINE order(d) == [i \in 1 .. N |-> spaces[d][i - 1]]
             order1(d) == [i \in 1 .. N |-> spaces'[d][i - 1]]
  <2>1. SeenOrders' = [d \in DOMAIN spaces' |-> order1(d)]
    BY DEF SeenOrders, VariableToEdge
  <2>2. SeenOrders = [d \in DOMAIN spaces |-> order(d)]
    BY DEF SeenOrders, VariableToEdge
  <2>3. order1(k + 1) = order(c) /\ \A d \in 1 .. k : order1(d) = order(d)
    BY <1>9
  <2> HIDE DEF order, order1
  <2>4. \A d \in 1 .. k : SeenOrders[d] = order(d)
    BY <1>7, <2>2
  <2>5. Append(SeenOrders, SeenOrders[c]) = [d \in 1 .. k + 1 |-> IF d = k + 1 THEN SeenOrders[c] ELSE SeenOrders[d]]
    BY <1>7, <1>16
  <2>6. \A d \in 1 .. k + 1 : order1(d) = IF d = k + 1 THEN SeenOrders[c] ELSE SeenOrders[d]
    <3> SUFFICES ASSUME NEW d \in 1 .. k + 1
                 PROVE  order1(d) = IF d = k + 1 THEN SeenOrders[c] ELSE SeenOrders[d]
      OBVIOUS
    <3>1. CASE d = k + 1
      BY <1>4, <1>7, <2>3, <2>4, <3>1
    <3>2. CASE d # k + 1
      <4>1. d \in 1 .. k
        BY <1>7, <3>2
      <4> QED
        BY <2>3, <2>4, <3>2, <4>1
    <3> QED
      BY <3>1, <3>2
  <2> QED
    BY <1>8, <2>1, <2>5, <2>6
<1> QED
  BY <1>3, <1>4, <1>5, <1>6, <1>14, <1>21, <1>22 DEF Calls!Compact, Calls!Give, gs

\* An iterator starts with all of the family.
LEMMA IterateStep ==
  ASSUME EdgeInv, Iterate
  PROVE  Calls!Iterate /\ EdgeInv'
<1>1. /\ stage = "idle" /\ calls < MaxCalls /\ answer' = Calls!NoAnswer /\ calls' = calls + 1
      /\ spaces' = spaces /\ held' = held /\ call' = call /\ stage' = stage /\ mapped' = mapped
  BY DEF Iterate
<1>2. PICK f \in held : iterator' = {[space |-> f.space, left |-> f.family]}
  BY DEF Iterate
<1>3. EdgeTypes /\ mapped = << >>
  BY <1>1 DEF EdgeInv
<1>4. UNCHANGED <<SeenOrders, SeenHeld, SeenCall>>
  BY <1>1, SeenSame
<1>5. SeenAnswer' = Calls!NoAnswer
  BY <1>1, PlainAnswers
<1>6. f.space \in DOMAIN spaces /\ f.family \in Family
  BY <1>3 DEF EdgeTypes, Wrapped
<1>7. PICK it : it = [space |-> f.space, left |-> f.family]
  OBVIOUS
<1>8. SeenIterator' = {EdgeIterator(it)'}
  BY <1>2, <1>7 DEF SeenIterator
<1>9. EdgeIterator(it)' = EdgeIterator(it)
  BY <1>1, SeenSame
<1>10. EdgeIterator(it) = [space |-> EdgeFamily(f).space, left |-> EdgeFamily(f).family]
  BY <1>7 DEF EdgeIterator, EdgeFamily
<1>11. EdgeFamily(f) \in SeenHeld
  BY DEF SeenHeld
<1>12. EdgeTypes'
  BY <1>1, <1>2, <1>3, <1>6 DEF EdgeTypes, Wrapped, CallTypes
<1>13. EdgeInv'
  BY <1>1, <1>3, <1>12 DEF EdgeInv
<1> QED
  BY <1>1, <1>4, <1>5, <1>8, <1>9, <1>10, <1>11, <1>13 DEF Calls!Iterate

\* Each solution comes once, its edges in the order of the space.
LEMMA NextSolutionStep ==
  ASSUME EdgeInv, NextSolution
  PROVE  Calls!NextSolution /\ EdgeInv'
<1>1. /\ stage = "idle" /\ calls' = calls
      /\ spaces' = spaces /\ held' = held /\ call' = call /\ stage' = stage /\ mapped' = mapped
  BY DEF NextSolution
<1>22. PICK it \in iterator : \E S \in it.left :
         /\ answer' = Calls!Solution("solution", EdgeSolution(it.space, S))
         /\ iterator' = {[it EXCEPT !.left = @ \ {S}]}
  BY DEF NextSolution
<1>2. PICK S \in it.left :
        /\ answer' = Calls!Solution("solution", EdgeSolution(it.space, S))
        /\ iterator' = {[it EXCEPT !.left = @ \ {S}]}
  BY <1>22
<1>3. EdgeTypes /\ mapped = << >> /\ spaces \in Seq(Maps)
  BY <1>1 DEF EdgeInv, EdgeTypes
<1>4. UNCHANGED <<SeenOrders, SeenHeld, SeenCall>>
  BY <1>1, SeenSame
<1>5. SeenAnswer' = Calls!Solution("solution", EdgeSolution(it.space, S))
  BY <1>2, PlainAnswers
<1>6. PICK c \in DOMAIN spaces, F \in Family : it = [space |-> c, left |-> F]
  BY <1>3 DEF EdgeTypes
<1>7. PICK m \in Maps : m = spaces[c]
  BY <1>3
<1>8. S \in F /\ S \in SUBSET Var
  BY <1>6 DEF Family
<1>9. PICK jt : jt = [space |-> c, left |-> F \ {S}]
  OBVIOUS
<1>10. iterator' = {jt}
  BY <1>2, <1>6, <1>9
<1>11. SeenIterator' = {EdgeIterator(jt)'}
  BY <1>10 DEF SeenIterator
<1>12. EdgeIterator(jt)' = EdgeIterator(jt)
  BY <1>1, SeenSame
<1>13. EdgeIterator(jt) = [space |-> c, left |-> ImageOf(m, F \ {S})]
  BY <1>7, <1>9 DEF EdgeIterator, ImageOf, Image, EdgesOf
<1>14. EdgeIterator(it) = [space |-> c, left |-> ImageOf(m, F)]
  BY <1>6, <1>7 DEF EdgeIterator, ImageOf, Image, EdgesOf
<1>15. ImageOf(m, F \ {S}) = ImageOf(m, F) \ {Image(m, S)}
  <2>1. \A T \in SUBSET Var : T = S <=> Image(m, T) = Image(m, S)
    BY <1>8, ImageFacts
  <2>2. \A T \in F : T \in SUBSET Var
    BY DEF Family
  <2> QED
    BY <2>1, <2>2 DEF ImageOf
<1>16. EdgeSolution(c, S) \in Calls!Listings(c, Image(m, S))
  BY <1>3, <1>7, <1>8, SolutionIsListing
<1> DEFINE seen == EdgeIterator(it)
           E == Image(m, S)
<1>17. seen \in SeenIterator /\ E \in seen.left /\ seen.space = c
  BY <1>8, <1>14 DEF SeenIterator, ImageOf
<1>18. SeenIterator' = {[seen EXCEPT !.left = @ \ {E}]}
  <2>1. PICK G : G = ImageOf(m, F)
    OBVIOUS
  <2>2. seen = [space |-> c, left |-> G] /\ EdgeIterator(jt) = [space |-> c, left |-> G \ {E}]
    BY <1>13, <1>14, <1>15, <2>1
  <2>3. SeenIterator' = {EdgeIterator(jt)}
    BY <1>11, <1>12
  <2> HIDE DEF seen, E
  <2>4. [seen EXCEPT !.left = @ \ {E}] = [space |-> c, left |-> G \ {E}]
    BY <2>2
  <2> QED
    BY <2>2, <2>3, <2>4
<1>19. SeenAnswer' = Calls!Solution("solution", EdgeSolution(c, S)) /\ EdgeSolution(c, S) \in Calls!Listings(seen.space, E)
  BY <1>5, <1>6, <1>16, <1>17
<1>20. EdgeTypes'
  <2>1. F \ {S} \in Family
    BY DEF Family
  <2> QED
    BY <1>1, <1>3, <1>9, <1>10, <2>1 DEF EdgeTypes, Wrapped, CallTypes
<1>21. EdgeInv'
  BY <1>1, <1>3, <1>20 DEF EdgeInv
<1> HIDE DEF seen, E
<1> QED
  BY <1>1, <1>4, <1>17, <1>18, <1>19, <1>21 DEF Calls!NextSolution

\* An iterator ends when nothing is left.
LEMMA ExhaustStep ==
  ASSUME EdgeInv, Exhaust
  PROVE  Calls!Exhaust /\ EdgeInv'
<1>1. /\ stage = "idle" /\ calls' = calls /\ iterator' = {} /\ answer' = Calls!Solution("no_solution", << >>)
      /\ spaces' = spaces /\ held' = held /\ call' = call /\ stage' = stage /\ mapped' = mapped
  BY DEF Exhaust
<1>2. PICK it \in iterator : it.left = {}
  BY DEF Exhaust
<1>3. EdgeTypes /\ mapped = << >>
  BY <1>1 DEF EdgeInv
<1>4. UNCHANGED <<SeenOrders, SeenHeld, SeenCall>>
  BY <1>1, SeenSame
<1>5. SeenAnswer' = Calls!Solution("no_solution", << >>) /\ SeenIterator' = {}
  BY <1>1, PlainAnswers DEF SeenIterator
<1>6. EdgeIterator(it) \in SeenIterator /\ EdgeIterator(it).left = {}
  BY <1>2 DEF SeenIterator, EdgeIterator
<1>7. EdgeTypes'
  BY <1>1, <1>3 DEF EdgeTypes, Wrapped, CallTypes
<1>8. EdgeInv'
  BY <1>1, <1>3, <1>7 DEF EdgeInv
<1> QED
  BY <1>1, <1>4, <1>5, <1>6, <1>8 DEF Calls!Exhaust

----------------------------------------------------------------------------
(* The theorems.                                                           *)

\* A step that changes nothing.
LEMMA EdgeStutter ==
  ASSUME EdgeInv, UNCHANGED edgeVars
  PROVE  UNCHANGED Calls!vars /\ EdgeInv'
<1>1. /\ spaces' = spaces /\ held' = held /\ call' = call /\ calls' = calls /\ stage' = stage
      /\ mapped' = mapped /\ walk' = walk /\ answer' = answer /\ iterator' = iterator
  BY DEF edgeVars
<1>2. UNCHANGED Calls!vars
  <2>1. UNCHANGED <<SeenOrders, SeenHeld, SeenCall, SeenAnswer, SeenIterator>>
    BY <1>1, SeenSame
  <2> QED
    BY <1>1, <2>1 DEF Calls!vars
<1>3. EdgeInv'
  <2>1. EdgeTypes' <=> EdgeTypes
    BY <1>1 DEF EdgeTypes, Wrapped, CallTypes
  <2>2. (Given' <=> Given) /\ (SameContext' <=> SameContext)
    BY <1>1 DEF Given, SameContext
  <2>6. \A q : Variables(q)' = Variables(q)
    BY <1>1 DEF Variables, EdgeToVariable
  <2>3. MapsSound' <=> MapsSound
    BY <1>1, <2>6 DEF MapsSound
  <2>4. Wanted' = Wanted /\ Remaining' = Remaining /\ Operand(1)' = Operand(1)
    BY <1>1 DEF Wanted, Remaining, Operand
  <2>5. WalkSound' <=> WalkSound
    BY <1>1, <2>4 DEF WalkSound
  <2> QED
    BY <1>1, <2>1, <2>2, <2>3, <2>5 DEF EdgeInv
<1> QED
  BY <1>2, <1>3

\* Every step is one that the caller expects, or one that it does not see.
LEMMA EdgeStep ==
  ASSUME EdgeInv, [EdgeNext]_edgeVars
  PROVE  [Calls!Next]_(Calls!vars) /\ EdgeInv'
<1>1. CASE BeginCall
  BY <1>1, BeginSimulates, BeginKeeps DEF Calls!Next
<1>2. CASE RefuseContext
  BY <1>2, RefuseContextStep DEF Calls!Next, Calls!Respond
<1>3. CASE RefuseEdge
  BY <1>3, RefuseEdgeStep DEF Calls!Next, Calls!Respond
<1>4. CASE MapEdges
  BY <1>4, MapEdgesStep
<1>5. CASE EnterFamily
  BY <1>5, EnterFamilyStep
<1>6. CASE WalkMiss
  BY <1>6, WalkMissStep DEF Calls!Next, Calls!Respond
<1>7. CASE WalkHit
  BY <1>7, WalkHitStep DEF Calls!Next, Calls!Respond
<1>8. CASE WalkDown
  BY <1>8, WalkDownStep
<1>9. CASE FamilyLimit
  BY <1>9, FamilyLimitStep DEF Calls!Next, Calls!Respond
<1>10. CASE MakeFamily
  BY <1>10, MakeFamilyStep DEF Calls!Next, Calls!Respond
<1>11. CASE CompareFamilies
  BY <1>11, CompareFamiliesStep DEF Calls!Next, Calls!Respond
<1>12. CASE SampleFamily
  BY <1>12, SampleFamilyStep DEF Calls!Next, Calls!Respond
<1>13. CASE CompactFamilies
  BY <1>13, CompactFamiliesStep DEF Calls!Next, Calls!Respond
<1>14. CASE Iterate
  BY <1>14, IterateStep DEF Calls!Next
<1>15. CASE NextSolution
  BY <1>15, NextSolutionStep DEF Calls!Next
<1>16. CASE Exhaust
  BY <1>16, ExhaustStep DEF Calls!Next
<1>17. CASE UNCHANGED edgeVars
  BY <1>17, EdgeStutter
<1> QED
  BY <1>1, <1>2, <1>3, <1>4, <1>5, <1>6, <1>7, <1>8, <1>9, <1>10, <1>11, <1>12, <1>13, <1>14, <1>15, <1>16, <1>17
     DEF EdgeNext, Work

\* In every reachable state the argument lists mapped so far are the variables
\* of the edges that were listed, calls get past the mapping only with known
\* edges and families of one space, and a membership test that is under way
\* will give the right answer.
THEOREM EdgeInvariance == EdgeSpec => []EdgeInv
<1>1. EdgeInit => EdgeInv
  BY EdgeInitSimulates
<1>2. EdgeInv /\ [EdgeNext]_edgeVars => EdgeInv'
  BY EdgeStep
<1> QED
  BY <1>1, <1>2, PTL DEF EdgeSpec

\* Seen as families of edges, every behaviour of the calls on edge families is
\* one that EdgeFamilyCalls promises: whatever order each space has, and for
\* every number of edges, every list of arguments and every number of calls.
THEOREM EdgeFamiliesImplementCalls == EdgeSpec => Calls!Spec
<1>1. EdgeInit => Calls!Init
  BY EdgeInitSimulates
<1>2. EdgeInv /\ [EdgeNext]_edgeVars => [Calls!Next]_(Calls!vars)
  BY EdgeStep
<1> QED
  BY <1>1, <1>2, EdgeInvariance, PTL DEF EdgeSpec, Calls!Spec
=============================================================================
