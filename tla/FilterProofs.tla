---------------------------- MODULE FilterProofs ----------------------------
(***************************************************************************)
(* The exactness of the filters for any number of variables, any source    *)
(* family, any request and any memo limit.                                 *)
(***************************************************************************)
EXTENDS Filter, FamiliesProofs, SequenceTheorems, FiniteSetTheorems

----------------------------------------------------------------------------
(* Variables and sets of variables.                                        *)

\* The members of a family are finite sets of at most N variables.
LEMMA MembersFinite ==
  ASSUME NEW F \in Family, NEW S \in F
  PROVE  /\ S \subseteq Var /\ S \subseteq Nat
         /\ IsFiniteSet(S) /\ Cardinality(S) \in Nat /\ Cardinality(S) <= N
<1>1. S \subseteq Var /\ Var \subseteq Nat
  BY NAssumption DEF Family, Var
<1>2. IsFiniteSet(Var) /\ Cardinality(Var) = N
  BY NAssumption, FS_Interval DEF Var
<1>3. IsFiniteSet(S) /\ Cardinality(S) <= N
  BY <1>1, <1>2, FS_Subset
<1> QED
  BY <1>1, <1>3, FS_CardinalityType

\* The elements of E from a position on, counted in ascending order.
From(E, p) == {e \in E : Cardinality({d \in E : d < e}) >= p}

\* From the first position on there are all elements.
LEMMA FromStart ==
  ASSUME NEW E, IsFiniteSet(E)
  PROVE  From(E, 0) = E
<1>1. ASSUME NEW e \in E
      PROVE  Cardinality({d \in E : d < e}) >= 0
  <2>1. IsFiniteSet({d \in E : d < e})
    BY FS_Subset
  <2>2. Cardinality({d \in E : d < e}) \in Nat
    BY <2>1, FS_CardinalityType
  <2> QED
    BY <2>2
<1> QED
  BY <1>1 DEF From

\* A bounded nonempty set of naturals has a greatest element.
LEMMA GreatestElement ==
  ASSUME NEW b \in Nat, NEW E \in SUBSET (0 .. b), E # {}
  PROVE  \E x \in E : \A d \in E : d <= x
<1> DEFINE D == {b - e : e \in E}
<1>1. D \subseteq Nat /\ D # {}
  <2>1. \A e \in E : b - e \in Nat
    OBVIOUS
  <2>2. \E e : e \in E
    OBVIOUS
  <2> QED
    BY <2>1, <2>2
<1>2. PICK y \in D : \A z \in D : ~ (<<z, y>> \in OpToRel(<, Nat))
  BY <1>1, NatLessThanWellFounded, WFMin, Zenon
<1>3. PICK x \in E : y = b - x
  BY <1>2
<1>4. ASSUME NEW d \in E PROVE d <= x
  <2>1. b - d \in D /\ b - d \in Nat /\ y \in Nat
    BY <1>1, <1>2
  <2>2. ~(b - d < y)
    <3> SUFFICES ASSUME b - d < y PROVE FALSE
      OBVIOUS
    <3>1. <<b - d, y>> \in Nat \X Nat /\ <<b - d, y>>[1] = b - d /\ <<b - d, y>>[2] = y
      BY <2>1
    <3>2. <<b - d, y>> \in OpToRel(<, Nat)
      BY <3>1, Zenon DEF OpToRel
    <3> QED
      BY <1>2, <2>1, <3>2, Zenon
  <2> QED
    BY <1>3, <2>1, <2>2
<1> QED
  BY <1>4

\* Leaving the least of the remaining elements behind is one position more.
LEMMA FromNext ==
  ASSUME NEW E \in SUBSET Nat, IsFiniteSet(E), NEW p \in Nat,
         NEW m \in From(E, p), \A e \in From(E, p) : m <= e
  PROVE  From(E, p + 1) = From(E, p) \ {m}
<1> DEFINE Under(e) == {d \in E : d < e}
<1>1. \A e \in E : IsFiniteSet(Under(e)) /\ Cardinality(Under(e)) \in Nat
  BY FS_Subset, FS_CardinalityType
<1>2. m \in E /\ m \in Nat
  BY DEF From
<1>3. Cardinality(Under(m)) = p
  <2>1. Cardinality(Under(m)) >= p
    BY DEF From
  <2>2. ASSUME Cardinality(Under(m)) > p PROVE FALSE
    <3>1. Under(m) # {}
      BY <2>2, <1>2, FS_EmptySet
    <3>2. PICK x \in Under(m) : \A d \in Under(m) : d <= x
      <4>1. Under(m) \in SUBSET (0 .. m)
        <5>1. \A d \in E : d < m => d \in 0 .. m
          BY <1>2
        <5> QED
          BY <5>1
      <4> HIDE DEF Under
      <4> QED
        BY <1>2, <3>1, <4>1, GreatestElement
    <3>3. x \in E /\ x \in Nat /\ x < m
      BY <3>2
    <3>4. Under(m) = Under(x) \union {x} /\ x \notin Under(x)
      <4>1. \A d \in E : d < x => d < m
        BY <1>2, <3>3
      <4>2. \A d \in Under(m) : d < x \/ d = x
        BY <3>2, <3>3
      <4>3. ~(x < x)
        BY <3>3
      <4>4. Under(x) \union {x} \subseteq Under(m)
        BY <3>3, <4>1
      <4>5. Under(m) \subseteq Under(x) \union {x}
        BY <4>2
      <4> QED
        BY <4>3, <4>4, <4>5
    <3>5. Cardinality(Under(m)) = Cardinality(Under(x)) + 1
      BY <1>1, <3>3, <3>4, FS_AddElement
    <3>6. Cardinality(Under(x)) >= p
      BY <1>1, <1>2, <2>2, <3>3, <3>5
    <3>7. x \in From(E, p)
      BY <3>3, <3>6 DEF From
    <3> QED
      BY <1>2, <3>3, <3>7
  <2> QED
    BY <1>1, <1>2, <2>1, <2>2
<1>4. ASSUME NEW e \in From(E, p), e # m
      PROVE  Cardinality(Under(e)) >= p + 1
  <2>1. e \in E /\ e \in Nat /\ m < e
    BY <1>2, <1>4 DEF From
  <2>2. Under(m) \union {m} \subseteq Under(e) /\ m \notin Under(m)
    <3>1. \A d \in E : d \in Nat /\ (d < m => d < e)
      BY <1>2, <2>1
    <3>2. ~(m < m)
      BY <1>2
    <3> QED
      BY <1>2, <2>1, <3>1, <3>2
  <2>3. Cardinality(Under(m) \union {m}) = p + 1
    BY <1>1, <1>2, <1>3, <2>2, FS_AddElement
  <2>4. Cardinality(Under(m) \union {m}) <= Cardinality(Under(e))
    BY <1>1, <2>1, <2>2, FS_Subset
  <2> QED
    BY <2>3, <2>4
<1>5. ASSUME NEW e \in From(E, p + 1)
      PROVE  e \in From(E, p) /\ e # m
  <2>1. e \in E /\ Cardinality(Under(e)) >= p + 1
    BY DEF From
  <2>2. Cardinality(Under(e)) >= p
    BY <1>1, <2>1
  <2> QED
    BY <1>3, <2>1, <2>2 DEF From
<1>6. ASSUME NEW e \in From(E, p), e # m
      PROVE  e \in From(E, p + 1)
  BY <1>4, <1>6 DEF From
<1> QED
  BY <1>5, <1>6

----------------------------------------------------------------------------
(* What keys stand for.                                                    *)

\* The requests have finite sets of elements.
LEMMA RequestTyping ==
  ASSUME request \in Request
  PROVE  /\ request.elements \in SUBSET Nat /\ IsFiniteSet(request.elements)
         /\ request.lower \in Nat /\ request.upper \in Nat
         /\ request.kind \in {"contains", "excludes", "subsets", "supersets", "at_most", "at_least", "between"}
<1>1. 0 .. N \subseteq Nat /\ IsFiniteSet(0 .. N)
  BY NAssumption, FS_Interval
<1>2. /\ request.elements \subseteq 0 .. N
      /\ request.lower \in Nat /\ request.upper \in Nat
      /\ request.kind \in {"contains", "excludes", "subsets", "supersets", "at_most", "at_least", "between"}
  BY DEF Request
<1> QED
  BY <1>1, <1>2, FS_Subset

\* The meaning of a key, by predicate.
LEMMA Meanings ==
  ASSUME NEW k
  PROVE  /\ Requires => Meaning(k) = {S \in k.root : Missing(k) \subseteq S}
         /\ request.kind = "excludes" => Meaning(k) = {S \in k.root : request.elements \intersect S = {}}
         /\ request.kind = "subsets" => Meaning(k) = {S \in k.root : S \subseteq request.elements}
         /\ CountsElements => Meaning(k) = {S \in k.root : Cardinality(S) \in k.lower .. k.upper}
BY DEF Meaning, Requires, CountsElements

\* The meaning of a key is a family.
LEMMA MeaningTyping ==
  ASSUME NEW k \in Key
  PROVE  Meaning(k) \in Family
<1>1. Meaning(k) \subseteq k.root
  BY DEF Meaning
<1> QED
  BY <1>1 DEF Key, Family

\* Four kinds of predicate.
LEMMA Kinds ==
  ASSUME request \in Request
  PROVE  \/ Requires /\ ~CountsElements /\ request.kind # "excludes" /\ request.kind # "subsets"
         \/ request.kind = "excludes" /\ ~Requires /\ ~CountsElements
         \/ request.kind = "subsets" /\ ~Requires /\ ~CountsElements
         \/ CountsElements /\ ~Requires /\ request.kind # "excludes" /\ request.kind # "subsets"
BY RequestTyping DEF Requires, CountsElements

\* A key that is answered without a memo entry is answered exactly.
LEMMA TerminalExact ==
  ASSUME request \in Request, NEW k \in Key, NEW x \in TerminalResult(k)
  PROVE  x = Meaning(k)
<1>1. k.root \in Family /\ k.lower \in Nat /\ k.upper \in Nat
  BY DEF Key
<1>2. CASE k.root = Zero
  <2>1. Meaning(k) = {}
    BY <1>2 DEF Meaning, Zero
  <2> QED
    BY <1>2, <2>1 DEF TerminalResult, Zero
<1>3. CASE k.root # Zero /\ Requires /\ Missing(k) = {}
  <2>1. x = k.root
    BY <1>3 DEF TerminalResult
  <2>2. Meaning(k) = {S \in k.root : Missing(k) \subseteq S} /\ Missing(k) = {}
    BY <1>3, Meanings
  <2>3. {S \in k.root : {} \subseteq S} = k.root
    OBVIOUS
  <2> QED
    BY <2>1, <2>2, <2>3, Zenon
<1>4. CASE k.root # Zero /\ ~(Requires /\ Missing(k) = {})
  <2>1. k.root = One /\ x = IF Requires \/ (CountsElements /\ k.lower # 0) THEN Zero ELSE One
    BY <1>4 DEF TerminalResult
  <2>2. Cardinality({}) = 0
    BY FS_EmptySet
  <2>3. CASE Requires
    BY <1>4, <2>1, <2>3, Meanings DEF One, Zero
  <2>4. CASE request.kind = "excludes"
    BY <2>1, <2>4, Meanings DEF One, Requires, CountsElements
  <2>5. CASE request.kind = "subsets"
    BY <2>1, <2>5, Meanings DEF One, Requires, CountsElements
  <2>6. CASE CountsElements /\ ~Requires
    <3>1. Meaning(k) = {S \in {{}} : Cardinality(S) \in k.lower .. k.upper}
      BY <2>1, <2>6, Meanings DEF One
    <3>2. 0 \in k.lower .. k.upper <=> k.lower = 0
      BY <1>1
    <3>3. CASE k.lower = 0
      BY <2>1, <2>2, <2>6, <3>1, <3>2, <3>3 DEF One
    <3>4. CASE k.lower # 0
      BY <2>1, <2>2, <2>6, <3>1, <3>2, <3>4 DEF Zero
    <3> QED
      BY <3>3, <3>4
  <2> QED
    BY <2>3, <2>4, <2>5, <2>6, Kinds
<1> QED
  BY <1>2, <1>3, <1>4

\* A key that is not terminal has a node: the engine reads its variable and
\* its two children.
LEMMA OpenKey ==
  ASSUME NEW k \in Key, TerminalResult(k) = {}
  PROVE  /\ k.root \in Family /\ k.position \in Nat /\ k.lower \in Nat /\ k.upper \in Nat
         /\ Top(k) \in Var /\ IsTop(Top(k), k.root)
         /\ Requires => Missing(k) # {}
<1>1. k.root \in Family /\ k.position \in Nat /\ k.lower \in Nat /\ k.upper \in Nat
  BY DEF Key
<1>2. k.root # Zero /\ (Requires => Missing(k) # {}) /\ k.root # One
  BY DEF TerminalResult
<1> QED
  BY <1>1, <1>2, TopExists DEF Top

\* A key that its variable alone decides is decided exactly: no member of its
\* root has a variable below the branching one.
LEMMA DecidedExact ==
  ASSUME request \in Request, NEW k \in Key, TerminalResult(k) = {}, NEW x \in Decided(k)
  PROVE  x = Meaning(k)
<1>1. k.root \in Family /\ Top(k) \in Var /\ IsTop(Top(k), k.root)
  BY OpenKey
<1>2. Top(k) \in Nat /\ request.elements \subseteq Nat
  BY <1>1, NAssumption, RequestTyping DEF Var
<1>3. \A S \in k.root : \A e \in request.elements : e < Top(k) => e \notin S
  BY <1>1, <1>2 DEF IsTop, Support
<1>4. CASE Requires /\ \E e \in Missing(k) : e < Top(k)
  <2>1. x = Zero
    BY <1>4 DEF Decided, Requires
  <2>2. \A S \in k.root : ~(Missing(k) \subseteq S)
    BY <1>3, <1>4 DEF Missing
  <2> QED
    BY <1>4, <2>1, <2>2, Meanings DEF Zero
<1>5. CASE request.kind = "excludes" /\ ~(Requires /\ \E e \in Missing(k) : e < Top(k))
  <2>1. x = k.root /\ \A e \in request.elements : e < Top(k)
    BY <1>5 DEF Decided
  <2>2. \A S \in k.root : request.elements \intersect S = {}
    BY <1>3, <2>1
  <2>3. Meaning(k) = {S \in k.root : request.elements \intersect S = {}}
    BY <1>5, Meanings
  <2>4. Meaning(k) = k.root
    BY <2>2, <2>3
  <2> QED
    BY <2>1, <2>4, Zenon
<1> QED
  BY <1>4, <1>5 DEF Decided

\* The set of a split key, with and without its variable.
LEMMA WithAndWithout ==
  ASSUME NEW v, NEW S, v \in S
  PROVE  (S \ {v}) \union {v} = S
OBVIOUS

\* A key whose variable is not allowed stands for what its LO child stands for.
LEMMA AliasExact ==
  ASSUME request \in Request, NEW k \in Key, TerminalResult(k) = {}, Dropped(k)
  PROVE  LoKey(k) \in Key /\ Meaning(LoKey(k)) = Meaning(k)
<1> DEFINE v == Top(k)
           F == k.root
<1>1. F \in Family /\ v \in Var
  BY OpenKey
<1>2. ~Requires /\ ~IsWanted(k)
  BY DEF Dropped, Requires, IsWanted
<1>3. LoKey(k) = [k EXCEPT !.root = Lo(v, F)]
  BY <1>2 DEF LoKey, Same
<1>4. Lo(v, F) \in Family
  BY <1>1, CofactorTyping
<1>5. LoKey(k) \in Key /\ LoKey(k).root = Lo(v, F)
  BY <1>3, <1>4 DEF Key
<1>6. CASE request.kind = "excludes"
  <2>1. v \in request.elements
    BY <1>6 DEF Dropped
  <2>2. Meaning(LoKey(k)) = {S \in Lo(v, F) : request.elements \intersect S = {}}
    BY <1>5, <1>6, Meanings
  <2>3. Meaning(k) = {S \in F : request.elements \intersect S = {}}
    BY <1>6, Meanings
  <2> HIDE DEF v, F
  <2> QED
    BY <1>5, <2>1, <2>2, <2>3 DEF Lo
<1>7. CASE request.kind = "subsets"
  <2>1. v \notin request.elements
    BY <1>7 DEF Dropped
  <2>2. Meaning(LoKey(k)) = {S \in Lo(v, F) : S \subseteq request.elements}
    BY <1>5, <1>7, Meanings
  <2>3. Meaning(k) = {S \in F : S \subseteq request.elements}
    BY <1>7, Meanings
  <2> HIDE DEF v, F
  <2> QED
    BY <1>5, <2>1, <2>2, <2>3 DEF Lo
<1> QED
  BY <1>6, <1>7 DEF Dropped

\* G is split at v into hi and lo.
Halves(G, v, hi, lo) ==
  /\ \A S \in G : (v \in S => S \ {v} \in hi) /\ (v \notin S => S \in lo)
  /\ \A S \in hi : S \union {v} \in G
  /\ lo \subseteq G

\* A family that is split at v is the node of its halves.
LEMMA NodeMembership ==
  ASSUME NEW v, NEW hi, NEW lo, NEW G, Halves(G, v, hi, lo)
  PROVE  G = Node(v, hi, lo)
<1>0. /\ \A S \in G : (v \in S => S \ {v} \in hi) /\ (v \notin S => S \in lo)
      /\ \A S \in hi : S \union {v} \in G
      /\ lo \subseteq G
  BY DEF Halves
<1>1. ASSUME NEW S \in G PROVE S \in Node(v, hi, lo)
  <2>1. CASE v \in S
    <3>1. S \ {v} \in hi /\ S = (S \ {v}) \union {v}
      BY <1>0, <2>1
    <3> QED
      BY <3>1 DEF Node
  <2>2. CASE v \notin S
    BY <1>0, <2>2 DEF Node
  <2> QED
    BY <2>1, <2>2
<1>2. ASSUME NEW S \in Node(v, hi, lo) PROVE S \in G
  BY <1>0, <1>2 DEF Node
<1> QED
  BY <1>1, <1>2

\* The two cofactors, by member.
LEMMA CofactorMembers ==
  ASSUME NEW v, NEW F
  PROVE  /\ \A S \in F : (v \in S => S \ {v} \in Hi(v, F)) /\ (v \notin S => S \in Lo(v, F))
         /\ \A S \in Hi(v, F) : v \notin S /\ S \union {v} \in F
         /\ \A S \in Lo(v, F) : v \notin S /\ S \in F
<1>1. \A S \in Hi(v, F) : v \notin S /\ S \union {v} \in F
  BY HiMembership
<1>2. ASSUME NEW S \in F, v \in S PROVE S \ {v} \in Hi(v, F)
  BY <1>2 DEF Hi
<1> QED
  BY <1>1, <1>2 DEF Lo

\* Taking the variable a key waits for.
LEMMA WantedExact ==
  ASSUME request \in Request, NEW k \in Key, TerminalResult(k) = {}, IsWanted(k)
  PROVE  /\ HiKey(k) \in Key /\ LoKey(k) \in Key
         /\ Meaning(k) = Node(Top(k), Meaning(HiKey(k)), Meaning(LoKey(k)))
<1> DEFINE v == Top(k)
           F == k.root
           h == HiKey(k)
           l == LoKey(k)
           E == request.elements
           p == k.position
<1>1. F \in Family /\ v \in Var /\ p \in Nat
  BY OpenKey
<1>2. Requires /\ v \in Missing(k) /\ \A e \in Missing(k) : v <= e
  BY DEF IsWanted
<1>3. h = [root |-> Hi(v, F), position |-> p + 1, lower |-> 0, upper |-> 0]
  <2>1. ~CountsElements
    BY <1>2 DEF Requires, CountsElements
  <2> QED
    BY <2>1 DEF HiKey
<1>4. l = [k EXCEPT !.root = Zero]
  BY DEF LoKey, Same
<1>5. Hi(v, F) \in Family /\ Zero \in Family
  BY <1>1, CofactorTyping DEF Family, Zero
<1>6. h \in Key /\ l \in Key /\ h.root = Hi(v, F) /\ h.position = p + 1 /\ l.root = Zero
  BY <1>1, <1>3, <1>4, <1>5 DEF Key
<1>7. Missing(k) = From(E, p) /\ Missing(h) = From(E, p + 1)
  BY <1>6 DEF Missing, From
<1>8. Missing(h) = Missing(k) \ {v}
  <2>1. E \in SUBSET Nat /\ IsFiniteSet(E)
    BY RequestTyping
  <2> HIDE DEF v, E, p, h
  <2> QED
    BY <1>1, <1>2, <1>7, <2>1, FromNext
<1>9. /\ Meaning(k) = {S \in F : Missing(k) \subseteq S}
      /\ Meaning(h) = {S \in Hi(v, F) : Missing(k) \ {v} \subseteq S}
      /\ Meaning(l) = {}
  BY <1>2, <1>6, <1>8, Meanings DEF Zero
<1> HIDE DEF v, F, h, l, E, p
<1>10. Meaning(k) = Node(v, Meaning(h), Meaning(l))
  <2>1. \A S \in Meaning(k) : v \in S /\ S \ {v} \in Meaning(h)
    BY <1>2, <1>9, CofactorMembers
  <2>2. \A S \in Meaning(h) : S \union {v} \in Meaning(k)
    BY <1>9, CofactorMembers
  <2> QED
    <3>1. \A S \in Meaning(k) : (v \in S => S \ {v} \in Meaning(h)) /\ (v \notin S => S \in Meaning(l))
      BY <2>1
    <3>2. Meaning(l) \subseteq Meaning(k)
      BY <1>9
    <3>3. Halves(Meaning(k), v, Meaning(h), Meaning(l))
      BY <2>2, <3>1, <3>2 DEF Halves
    <3> QED
      BY <3>3, NodeMembership
<1> QED
  BY <1>6, <1>10 DEF v, h, l

\* Taking or leaving a variable a key does not wait for, for the predicates
\* about elements.
LEMMA ElementsExact ==
  ASSUME request \in Request, NEW k \in Key, TerminalResult(k) = {}, Decided(k) = {},
         ~Dropped(k), ~IsWanted(k), ~CountsElements
  PROVE  /\ HiKey(k) \in Key /\ LoKey(k) \in Key
         /\ Meaning(k) = Node(Top(k), Meaning(HiKey(k)), Meaning(LoKey(k)))
<1> DEFINE v == Top(k)
           F == k.root
           h == HiKey(k)
           l == LoKey(k)
           E == request.elements
<1>1. F \in Family /\ v \in Var
  BY OpenKey
<1>2. h = [k EXCEPT !.root = Hi(v, F)] /\ l = [k EXCEPT !.root = Lo(v, F)]
  BY DEF HiKey, LoKey, Same
<1>3. Hi(v, F) \in Family /\ Lo(v, F) \in Family
  BY <1>1, CofactorTyping
<1>4. h \in Key /\ l \in Key /\ h.root = Hi(v, F) /\ l.root = Lo(v, F)
      /\ h.position = k.position /\ l.position = k.position
  BY <1>2, <1>3 DEF Key
<1>5. Missing(h) = Missing(k) /\ Missing(l) = Missing(k)
  BY <1>4 DEF Missing
<1>6. CASE Requires
  <2>1. v \notin Missing(k)
    <3>1. \A e \in Missing(k) : ~(e < v)
      BY <1>6 DEF Decided, Requires
    <3>2. Missing(k) \subseteq Nat /\ v \in Nat
      BY <1>1, RequestTyping, NAssumption DEF Missing, Var
    <3> HIDE DEF v
    <3>3. \A e \in Missing(k) : v <= e
      BY <3>1, <3>2
    <3> QED
      BY <1>6, <3>3 DEF IsWanted, v
  <2>2. /\ Meaning(k) = {S \in F : Missing(k) \subseteq S}
        /\ Meaning(h) = {S \in Hi(v, F) : Missing(k) \subseteq S}
        /\ Meaning(l) = {S \in Lo(v, F) : Missing(k) \subseteq S}
    BY <1>4, <1>5, <1>6, Meanings
  <2> HIDE DEF v, F, h, l, E
  <2>3. Meaning(k) = Node(v, Meaning(h), Meaning(l))
    <3>1. \A S \in Meaning(k) : (v \in S => S \ {v} \in Meaning(h)) /\ (v \notin S => S \in Meaning(l))
      BY <2>1, <2>2, CofactorMembers
    <3>2. \A S \in Meaning(h) : S \union {v} \in Meaning(k)
      BY <2>1, <2>2, CofactorMembers
    <3>3. Meaning(l) \subseteq Meaning(k)
      BY <2>2, CofactorMembers
    <3>4. Halves(Meaning(k), v, Meaning(h), Meaning(l))
      BY <3>1, <3>2, <3>3 DEF Halves
    <3> QED
      BY <3>4, NodeMembership
  <2> QED
    BY <1>4, <2>3 DEF v, h, l
<1>7. CASE request.kind = "excludes"
  <2>1. v \notin E
    BY <1>7 DEF Dropped
  <2>2. /\ Meaning(k) = {S \in F : E \intersect S = {}}
        /\ Meaning(h) = {S \in Hi(v, F) : E \intersect S = {}}
        /\ Meaning(l) = {S \in Lo(v, F) : E \intersect S = {}}
    BY <1>4, <1>7, Meanings
  <2> HIDE DEF v, F, h, l, E
  <2>3. Meaning(k) = Node(v, Meaning(h), Meaning(l))
    <3>1. \A S \in Meaning(k) : (v \in S => S \ {v} \in Meaning(h)) /\ (v \notin S => S \in Meaning(l))
      BY <2>1, <2>2, CofactorMembers
    <3>2. \A S \in Meaning(h) : S \union {v} \in Meaning(k)
      BY <2>1, <2>2, CofactorMembers
    <3>3. Meaning(l) \subseteq Meaning(k)
      BY <2>2, CofactorMembers
    <3>4. Halves(Meaning(k), v, Meaning(h), Meaning(l))
      BY <3>1, <3>2, <3>3 DEF Halves
    <3> QED
      BY <3>4, NodeMembership
  <2> QED
    BY <1>4, <2>3 DEF v, h, l
<1>8. CASE request.kind = "subsets"
  <2>1. v \in E
    BY <1>8 DEF Dropped
  <2>2. /\ Meaning(k) = {S \in F : S \subseteq E}
        /\ Meaning(h) = {S \in Hi(v, F) : S \subseteq E}
        /\ Meaning(l) = {S \in Lo(v, F) : S \subseteq E}
    BY <1>4, <1>8, Meanings
  <2> HIDE DEF v, F, h, l, E
  <2>3. Meaning(k) = Node(v, Meaning(h), Meaning(l))
    <3>1. \A S \in Meaning(k) : (v \in S => S \ {v} \in Meaning(h)) /\ (v \notin S => S \in Meaning(l))
      BY <2>1, <2>2, CofactorMembers
    <3>2. \A S \in Meaning(h) : S \union {v} \in Meaning(k)
      BY <2>1, <2>2, CofactorMembers
    <3>3. Meaning(l) \subseteq Meaning(k)
      BY <2>2, CofactorMembers
    <3>4. Halves(Meaning(k), v, Meaning(h), Meaning(l))
      BY <3>1, <3>2, <3>3 DEF Halves
    <3> QED
      BY <3>4, NodeMembership
  <2> QED
    BY <1>4, <2>3 DEF v, h, l
<1> QED
  BY <1>6, <1>7, <1>8, Kinds

\* Taking or leaving a variable when elements are counted: the bounds follow.
LEMMA CountsExact ==
  ASSUME request \in Request, NEW k \in Key, TerminalResult(k) = {}, CountsElements
  PROVE  /\ HiKey(k) \in Key /\ LoKey(k) \in Key
         /\ Meaning(k) = Node(Top(k), Meaning(HiKey(k)), Meaning(LoKey(k)))
<1> DEFINE v == Top(k)
           F == k.root
           h == HiKey(k)
           l == LoKey(k)
           a == k.lower
           b == k.upper
           c == IF a = 0 THEN 0 ELSE a - 1
<1>1. F \in Family /\ v \in Var /\ a \in Nat /\ b \in Nat
  BY OpenKey
<1>2. ~Requires /\ ~IsWanted(k)
  BY DEF CountsElements, Requires, IsWanted
<1>3. l = [k EXCEPT !.root = Lo(v, F)]
  BY <1>2 DEF LoKey, Same
<1>4. Hi(v, F) \in Family /\ Lo(v, F) \in Family /\ Zero \in Family
  BY <1>1, CofactorTyping DEF Family, Zero
<1>5. l \in Key /\ l.root = Lo(v, F) /\ l.lower = a /\ l.upper = b
  BY <1>3, <1>4 DEF Key
<1>6. Meaning(k) = {S \in F : Cardinality(S) \in a .. b} /\ Meaning(l) = {S \in Lo(v, F) : Cardinality(S) \in a .. b}
  BY <1>5, Meanings
<1>7. \A S \in F : IsFiniteSet(S) /\ Cardinality(S) \in Nat
  BY <1>1, MembersFinite
<1>8. ASSUME NEW S \in F, v \in S
      PROVE  Cardinality(S) = Cardinality(S \ {v}) + 1 /\ Cardinality(S \ {v}) \in Nat
  <2>1. Cardinality(S \ {v}) = Cardinality(S) - 1 /\ IsFiniteSet(S \ {v})
    BY <1>7, <1>8, FS_RemoveElement
  <2>2. Cardinality(S \ {v}) \in Nat
    BY <2>1, FS_CardinalityType
  <2> QED
    BY <1>7, <2>1, <2>2
<1>9. \A S \in Hi(v, F) : S \union {v} \in F /\ (S \union {v}) \ {v} = S
  BY CofactorMembers
<1>10. CASE b = 0
  <2>1. h = [root |-> Zero, position |-> 0, lower |-> 0, upper |-> 0]
    BY <1>2, <1>10 DEF HiKey
  <2>2. h \in Key /\ h.root = Zero
    BY <1>4, <2>1 DEF Key
  <2>3. Meaning(h) = {}
    BY <2>2 DEF Meaning, Zero
  <2> HIDE DEF v, F, h, l, a, b, c
  <2>4. \A S \in Meaning(k) : v \notin S
    <3> SUFFICES ASSUME NEW S \in Meaning(k), v \in S PROVE FALSE
      OBVIOUS
    <3>1. S \in F /\ Cardinality(S) \in a .. 0
      BY <1>6, <1>10
    <3>2. Cardinality(S) = Cardinality(S \ {v}) + 1 /\ Cardinality(S \ {v}) \in Nat
      BY <1>8, <3>1
    <3> QED
      BY <1>1, <3>1, <3>2
  <2>5. Meaning(k) = Node(v, Meaning(h), Meaning(l))
    <3>1. \A S \in Meaning(k) : (v \in S => S \ {v} \in Meaning(h)) /\ (v \notin S => S \in Meaning(l))
      BY <1>6, <2>4, CofactorMembers
    <3>2. Meaning(l) \subseteq Meaning(k)
      BY <1>6, CofactorMembers
    <3>3. \A S \in Meaning(h) : S \union {v} \in Meaning(k)
      BY <2>3
    <3>4. Halves(Meaning(k), v, Meaning(h), Meaning(l))
      BY <3>1, <3>2, <3>3 DEF Halves
    <3> QED
      BY <3>4, NodeMembership
  <2> QED
    BY <1>5, <2>2, <2>5 DEF v, h, l
<1>11. CASE b # 0
  <2>1. h = [root |-> Hi(v, F), position |-> 0, lower |-> c, upper |-> b - 1]
    BY <1>2, <1>11 DEF HiKey
  <2>2. c \in Nat /\ b - 1 \in Nat
    BY <1>1, <1>11
  <2>3. h \in Key /\ h.root = Hi(v, F) /\ h.lower = c /\ h.upper = b - 1
    BY <1>4, <2>1, <2>2 DEF Key
  <2>4. Meaning(h) = {S \in Hi(v, F) : Cardinality(S) \in c .. b - 1}
    BY <2>3, Meanings
  <2>5. \A n \in Nat : n + 1 \in a .. b <=> n \in c .. b - 1
    BY <1>1, <1>11
  <2> HIDE DEF v, F, h, l, a, b, c
  <2>6. ASSUME NEW S \in Meaning(k)
        PROVE  (v \in S => S \ {v} \in Meaning(h)) /\ (v \notin S => S \in Meaning(l))
    <3>1. S \in F /\ Cardinality(S) \in a .. b
      BY <1>6
    <3>2. ASSUME v \in S PROVE S \ {v} \in Meaning(h)
      <4>1. S \ {v} \in Hi(v, F)
        BY <3>1, <3>2, CofactorMembers
      <4>2. Cardinality(S \ {v}) \in c .. b - 1
        BY <1>8, <2>5, <3>1, <3>2
      <4> QED
        BY <2>4, <4>1, <4>2
    <3>3. ASSUME v \notin S PROVE S \in Meaning(l)
      BY <1>6, <3>1, <3>3, CofactorMembers
    <3> QED
      BY <3>2, <3>3
  <2>7. ASSUME NEW S \in Meaning(h)
        PROVE  S \union {v} \in Meaning(k)
    <3>1. S \in Hi(v, F) /\ Cardinality(S) \in c .. b - 1
      BY <2>4
    <3>2. S \union {v} \in F /\ (S \union {v}) \ {v} = S /\ v \in S \union {v}
      BY <1>9, <3>1
    <3>3. Cardinality(S \union {v}) = Cardinality(S) + 1 /\ Cardinality(S) \in Nat
      BY <1>8, <3>2
    <3> QED
      BY <1>6, <2>5, <3>1, <3>2, <3>3
  <2>8. Meaning(l) \subseteq Meaning(k)
    BY <1>6, CofactorMembers
  <2>9. Meaning(k) = Node(v, Meaning(h), Meaning(l))
    <3>1. Halves(Meaning(k), v, Meaning(h), Meaning(l))
      BY <2>6, <2>7, <2>8 DEF Halves
    <3> QED
      BY <3>1, NodeMembership
  <2> QED
    BY <1>5, <2>3, <2>9 DEF v, h, l
<1> QED
  BY <1>10, <1>11

----------------------------------------------------------------------------
(* The calls.                                                              *)

Wanted == {S \in source : Satisfies(S, request)}

BadRange == request.kind = "between" /\ request.lower > request.upper

\* The outcome o is the right one for the call.
Right(o) ==
  /\ o \in Outcome
  /\ o.kind = "ok" => o.value = Wanted
  /\ o.kind = "invalid_element" <=> InvalidElement(request)
  /\ o.kind = "invalid_range" <=> BadRange

\* The fields a request does not use.
LEMMA RequestFields ==
  ASSUME request \in Request
  PROVE  CountsElements => request.elements = {} /\ ~InvalidElement(request)
<1>1. CountsElements => request.elements = {}
  BY DEF Request, CountsElements
<1>2. {} \subseteq Var
  OBVIOUS
<1> QED
  BY <1>1, <1>2 DEF InvalidElement

\* The answers given at once are right.
LEMMA AnswersRight ==
  ASSUME request \in Request, source \in Family, NEW o \in AnsweredAtOnce(request)
  PROVE  Right(o)
<1> DEFINE r == request
<1>1. /\ r.lower \in Nat /\ r.upper \in Nat /\ N \in Nat
      /\ r.kind \in {"contains", "excludes", "subsets", "supersets", "at_most", "at_least", "between"}
  BY RequestTyping, NAssumption
<1>2. \A S \in source : Cardinality(S) \in Nat /\ Cardinality(S) <= N
  BY MembersFinite
<1>3. Zero \in Family /\ Wanted \in Family
  BY DEF Zero, Family, Wanted
<1>4. CountsElements => ~InvalidElement(r)
  BY RequestFields
<1>5. CASE InvalidElement(r)
  <2>1. ~CountsElements /\ r.elements # {}
    BY <1>4, <1>5 DEF InvalidElement
  <2>2. o = Failed("invalid_element")
    BY <1>5, <2>1 DEF AnsweredAtOnce, CountsElements
  <2>3. ~BadRange
    BY <2>1 DEF BadRange, CountsElements
  <2> QED
    BY <1>3, <1>5, <2>2, <2>3 DEF Right, Failed, Outcome
<1>6. CASE ~InvalidElement(r) /\ BadRange
  <2>1. o = Failed("invalid_range")
    BY <1>1, <1>6 DEF AnsweredAtOnce, BadRange
  <2> QED
    BY <1>3, <1>6, <2>1 DEF Right, Failed, Outcome
<1>7. CASE ~InvalidElement(r) /\ ~BadRange
  <2>1. o = Ok(Wanted)
    <3>1. CASE r.kind = "supersets"
      <4>1. o = Ok(source) /\ r.elements = {}
        BY <1>7, <3>1 DEF AnsweredAtOnce
      <4>2. \A S \in source : Satisfies(S, r)
        BY <3>1, <4>1 DEF Satisfies
      <4>3. Wanted = source
        BY <4>2 DEF Wanted
      <4> QED
        BY <4>1, <4>3, Zenon
    <3>2. CASE r.kind = "at_most"
      <4>1. o = Ok(source) /\ r.upper >= N
        BY <1>7, <3>2 DEF AnsweredAtOnce
      <4>2. \A S \in source : Satisfies(S, r)
        BY <1>1, <1>2, <3>2, <4>1 DEF Satisfies
      <4>3. Wanted = source
        BY <4>2 DEF Wanted
      <4> QED
        BY <4>1, <4>3, Zenon
    <3>3. CASE r.kind = "at_least" /\ r.lower = 0
      <4>1. o = Ok(source)
        BY <1>1, <1>7, <3>3 DEF AnsweredAtOnce
      <4>2. \A S \in source : Satisfies(S, r)
        BY <1>1, <1>2, <3>3, <4>1 DEF Satisfies
      <4>3. Wanted = source
        BY <4>2 DEF Wanted
      <4> QED
        BY <4>1, <4>3, Zenon
    <3>4. CASE r.kind = "at_least" /\ r.lower # 0
      <4>1. o = Ok(Zero) /\ r.lower > N
        BY <1>1, <1>7, <3>4 DEF AnsweredAtOnce
      <4>2. \A S \in source : ~Satisfies(S, r)
        BY <1>1, <1>2, <3>4, <4>1 DEF Satisfies
      <4>3. Wanted = Zero
        BY <4>2 DEF Wanted, Zero
      <4> QED
        BY <4>1, <4>3, Zenon
    <3>5. CASE r.kind = "between"
      <4>1. o = Ok(Zero) /\ r.lower > N
        BY <1>1, <1>7, <3>5 DEF AnsweredAtOnce, BadRange
      <4>2. \A S \in source : ~Satisfies(S, r)
        BY <1>1, <1>2, <3>5, <4>1 DEF Satisfies
      <4>3. Wanted = Zero
        BY <4>2 DEF Wanted, Zero
      <4> QED
        BY <4>1, <4>3, Zenon
    <3>6. CASE r.kind \in {"contains", "excludes", "subsets"}
      <4>1. AnsweredAtOnce(r) = {}
        BY <1>7, <3>6 DEF AnsweredAtOnce
      <4> QED
        BY <4>1
    <3> QED
      BY <1>1, <3>1, <3>2, <3>3, <3>4, <3>5, <3>6
  <2> QED
    BY <1>3, <1>7, <2>1 DEF Right, Ok, Outcome
<1> QED
  BY <1>5, <1>6, <1>7

\* A call that is not answered at once has proper arguments.
LEMMA Proper ==
  ASSUME request \in Request, AnsweredAtOnce(request) = {}
  PROVE  ~InvalidElement(request) /\ ~BadRange
<1>1. CountsElements => ~InvalidElement(request)
  BY RequestFields
<1>2. ~InvalidElement(request)
  <2> SUFFICES ASSUME InvalidElement(request) PROVE FALSE
    OBVIOUS
  <2>1. ~CountsElements /\ request.elements # {}
    BY <1>1 DEF InvalidElement
  <2> QED
    BY <2>1 DEF AnsweredAtOnce, CountsElements
<1>3. ~BadRange
  BY <1>2, RequestTyping DEF AnsweredAtOnce, BadRange
<1> QED
  BY <1>2, <1>3

\* The root key stands for what the call asks for.
LEMMA RootExact ==
  ASSUME request \in Request, source \in Family, AnsweredAtOnce(request) = {}
  PROVE  RootKey \in Key /\ Meaning(RootKey) = Wanted
<1> DEFINE r == request
           k == RootKey
<1>1. /\ r.lower \in Nat /\ r.upper \in Nat /\ N \in Nat /\ IsFiniteSet(r.elements)
      /\ r.kind \in {"contains", "excludes", "subsets", "supersets", "at_most", "at_least", "between"}
  BY RequestTyping, NAssumption
<1>2. \A S \in source : Cardinality(S) \in Nat /\ Cardinality(S) <= N
  BY MembersFinite
<1>3. k.root = source /\ k.position = 0 /\ k.lower = Bounds(r)[1] /\ k.upper = Bounds(r)[2]
  BY DEF RootKey
<1>4. Bounds(r)[1] \in Nat /\ Bounds(r)[2] \in Nat
  BY <1>1 DEF Bounds, Least
<1>5. k \in Key
  BY <1>4 DEF Key, RootKey
<1>6. CASE Requires
  <2>1. Missing(k) = From(r.elements, 0)
    BY <1>3 DEF Missing, From
  <2>2. Missing(k) = r.elements
    BY <1>1, <2>1, FromStart
  <2>3. Meaning(k) = {S \in source : r.elements \subseteq S}
    BY <1>3, <1>6, <2>2, Meanings
  <2>4. \A S : Satisfies(S, r) <=> r.elements \subseteq S
    BY <1>6 DEF Requires, Satisfies
  <2> QED
    BY <1>5, <2>3, <2>4 DEF Wanted
<1>7. CASE r.kind = "excludes"
  <2>1. Meaning(k) = {S \in source : r.elements \intersect S = {}}
    BY <1>3, <1>7, Meanings
  <2>2. \A S : Satisfies(S, r) <=> r.elements \intersect S = {}
    BY <1>7 DEF Satisfies
  <2> QED
    BY <1>5, <2>1, <2>2 DEF Wanted
<1>8. CASE r.kind = "subsets"
  <2>1. Meaning(k) = {S \in source : S \subseteq r.elements}
    BY <1>3, <1>8, Meanings
  <2>2. \A S : Satisfies(S, r) <=> S \subseteq r.elements
    BY <1>8 DEF Satisfies
  <2> QED
    BY <1>5, <2>1, <2>2 DEF Wanted
<1>9. CASE CountsElements
  <2>1. Meaning(k) = {S \in source : Cardinality(S) \in Bounds(r)[1] .. Bounds(r)[2]}
    BY <1>3, <1>9, Meanings
  <2>2. ASSUME NEW S \in source
        PROVE  Satisfies(S, r) <=> Cardinality(S) \in Bounds(r)[1] .. Bounds(r)[2]
    <3>1. Cardinality(S) \in Nat /\ Cardinality(S) <= N
      BY <1>2
    <3>2. CASE r.kind = "at_most"
      BY <1>1, <3>1, <3>2 DEF Satisfies, Bounds
    <3>3. CASE r.kind = "at_least"
      BY <1>1, <3>1, <3>3 DEF Satisfies, Bounds
    <3>4. CASE r.kind = "between"
      BY <1>1, <3>1, <3>4 DEF Satisfies, Bounds, Least
    <3> QED
      BY <1>9, <3>2, <3>3, <3>4 DEF CountsElements
  <2> QED
    BY <1>5, <2>1, <2>2 DEF Wanted
<1> QED
  BY <1>6, <1>7, <1>8, <1>9, Kinds

----------------------------------------------------------------------------
(* The inductive invariant: the results recorded so far are exact, and the *)
(* stack carries the promise that every item on it records an exact one.   *)

SoundItem ==
  {w \in WorkItem :
     /\ w.kind = "make_node" => Meaning(w.key) = Node(w.variable, Meaning(w.hi), Meaning(w.lo))
     /\ w.kind = "alias" => Meaning(w.key) = Meaning(w.child)}

ResultsExact == \A k \in DOMAIN results : results[k] = Meaning(k)

Progress ==
  CASE pc = "called" -> outcome = Failed("none")
    [] pc = "work" -> outcome = Failed("none") /\ AnsweredAtOnce(request) = {}
    [] pc = "returned" -> Right(outcome)

IInv == TypeOK /\ work \in Seq(SoundItem) /\ ResultsExact /\ Progress

\* The expansion of a key is sound work.
LEMMA ExpandSound ==
  ASSUME request \in Request, NEW k \in Key, TerminalResult(k) = {}, Decided(k) = {}
  PROVE  Expand(k) \in Seq(SoundItem)
<1>1. Top(k) \in Var
  BY OpenKey
<1>2. CASE Dropped(k)
  <2>1. LoKey(k) \in Key /\ Meaning(LoKey(k)) = Meaning(k)
    BY <1>2, AliasExact
  <2>2. Visit(LoKey(k)) \in WorkItem /\ AliasItem(k) \in WorkItem
    BY <2>1 DEF Visit, AliasItem, WorkItem
  <2>3. Visit(LoKey(k)) \in SoundItem /\ AliasItem(k) \in SoundItem
    BY <2>1, <2>2 DEF Visit, AliasItem, SoundItem
  <2> QED
    BY <1>2, <2>3 DEF Expand
<1>3. CASE ~Dropped(k)
  <2>1. /\ HiKey(k) \in Key /\ LoKey(k) \in Key
        /\ Meaning(k) = Node(Top(k), Meaning(HiKey(k)), Meaning(LoKey(k)))
    <3>1. CASE IsWanted(k)
      BY <3>1, WantedExact
    <3>2. CASE CountsElements
      BY <3>2, CountsExact
    <3>3. CASE ~IsWanted(k) /\ ~CountsElements
      BY <1>3, <3>3, ElementsExact
    <3> QED
      BY <3>1, <3>2, <3>3
  <2>2. Visit(LoKey(k)) \in WorkItem /\ Visit(HiKey(k)) \in WorkItem /\ MakeItem(k) \in WorkItem
    BY <1>1, <2>1 DEF Visit, MakeItem, WorkItem
  <2>3. Visit(LoKey(k)) \in SoundItem /\ Visit(HiKey(k)) \in SoundItem /\ MakeItem(k) \in SoundItem
    BY <2>1, <2>2 DEF Visit, MakeItem, SoundItem
  <2> QED
    BY <1>3, <2>3 DEF Expand
<1> QED
  BY <1>2, <1>3

\* What is on top of the stack and below it.
LEMMA TopOfStack ==
  ASSUME work \in Seq(SoundItem), NEW kind, Doing(kind)
  PROVE  /\ pc = "work"
         /\ Head(work) \in SoundItem /\ Head(work) \in WorkItem
         /\ Head(work).kind = kind
         /\ Current \in Key
         /\ Tail(work) \in Seq(SoundItem)
<1>1. pc = "work" /\ work # << >> /\ Head(work).kind = kind
  BY DEF Doing
<1>2. Head(work) \in SoundItem /\ Tail(work) \in Seq(SoundItem)
  BY <1>1
<1>3. Head(work) \in WorkItem
  BY <1>2 DEF SoundItem
<1>4. Current \in Key
  BY <1>3 DEF Current, WorkItem
<1> QED
  BY <1>1, <1>2, <1>3, <1>4

\* The call and its predicate stay what they are.
LEMMA CallKept ==
  ASSUME UNCHANGED <<source, request>>
  PROVE  /\ SoundItem' = SoundItem
         /\ \A k : Meaning(k)' = Meaning(k)
         /\ \A o : Right(o)' <=> Right(o)
         /\ AnsweredAtOnce(request)' = AnsweredAtOnce(request)
<1>1. \A k : Meaning(k)' = Meaning(k)
  BY DEF Meaning, Requires, CountsElements, Missing
<1> QED
  BY <1>1 DEF SoundItem, Right, Wanted, BadRange, AnsweredAtOnce, Ok

\* The steps of the engine that pop, push and record.
LEMMA WorkStep ==
  ASSUME IInv, pc = "work", UNCHANGED <<source, request, pc, outcome>>,
         NEW w \in Seq(SoundItem), work' = w, memo' \subseteq Key,
         results' = results \/ \E k \in Key : results' = Put(results, k, Meaning(k))
  PROVE  IInv'
<1>1. SoundItem' = SoundItem /\ (\A k : Meaning(k)' = Meaning(k))
      /\ AnsweredAtOnce(request)' = AnsweredAtOnce(request)
  BY CallKept
<1>2. work' \in Seq(SoundItem)'
  BY <1>1
<1>3. work' \in Seq(WorkItem)
  <2>1. SoundItem \subseteq WorkItem
    BY DEF SoundItem
  <2> QED
    BY <2>1, SeqMonotonic, Zenon
<1>4. DOMAIN results' \subseteq Key /\ \A k \in DOMAIN results' : results'[k] = Meaning(k)
  <2>1. CASE results' = results
    BY <2>1 DEF IInv, TypeOK, ResultsExact
  <2>2. CASE \E k \in Key : results' = Put(results, k, Meaning(k))
    <3>1. PICK k \in Key : results' = Put(results, k, Meaning(k))
      BY <2>2
    <3>2. DOMAIN results' = DOMAIN results \union {k}
      BY <3>1 DEF Put
    <3>3. \A j \in DOMAIN results' : results'[j] = IF j = k THEN Meaning(k) ELSE results[j]
      BY <3>1, <3>2 DEF Put
    <3> QED
      BY <3>2, <3>3 DEF IInv, TypeOK, ResultsExact
  <2> QED
    BY <2>1, <2>2
<1>5. ResultsExact' /\ \A k \in DOMAIN results' : results'[k] \in Family
  BY <1>1, <1>4, MeaningTyping DEF ResultsExact
<1>6. TypeOK'
  BY <1>3, <1>4, <1>5 DEF IInv, TypeOK
<1>7. Progress'
  BY <1>1 DEF IInv, Progress
<1> QED
  BY <1>2, <1>5, <1>6, <1>7 DEF IInv

\* A call that returns the right outcome.
LEMMA ReturnStep ==
  ASSUME IInv, NEW o, Right(o), Return(o)
  PROVE  IInv'
<1>1. /\ UNCHANGED <<source, request>> /\ pc' = "returned" /\ memo' = {} /\ results' = Empty
      /\ work' = << >> /\ outcome' = o
  BY DEF Return
<1>2. Right(o)'
  BY <1>1, CallKept
<1>3. DOMAIN results' = {}
  BY <1>1 DEF Empty
<1>4. o \in Outcome
  BY DEF Right
<1>5. TypeOK'
  BY <1>1, <1>3, <1>4 DEF IInv, TypeOK
<1>6. work' \in Seq(SoundItem)' /\ ResultsExact' /\ Progress'
  BY <1>1, <1>2, <1>3 DEF ResultsExact, Progress
<1> QED
  BY <1>5, <1>6 DEF IInv

\* A limit is a right outcome of a call with proper arguments.
LEMMA LimitRight ==
  ASSUME IInv, pc = "work", NEW kind \in {"memo_limit", "node_limit"}
  PROVE  Right(Failed(kind))
<1>1. ~InvalidElement(request) /\ ~BadRange
  BY Proper DEF IInv, TypeOK, Progress
<1>2. Zero \in Family
  BY DEF Zero, Family
<1> QED
  BY <1>1, <1>2 DEF Right, Failed, Outcome

\* Every step keeps the invariant.
LEMMA StepIInv ==
  ASSUME IInv, [Next]_vars
  PROVE  IInv'
<1>0. /\ request \in Request /\ source \in Family /\ work \in Seq(SoundItem) /\ memo \subseteq Key
      /\ DOMAIN results \subseteq Key
  BY DEF IInv, TypeOK
<1>1. CASE AnswerAtOnce
  BY <1>0, <1>1, AnswersRight, ReturnStep DEF AnswerAtOnce
<1>2. CASE Start
  <2>1. /\ AnsweredAtOnce(request) = {} /\ pc' = "work" /\ work' = <<Visit(RootKey)>> /\ outcome = Failed("none")
        /\ UNCHANGED <<source, request, memo, results, outcome>>
    BY <1>2 DEF Start, IInv, Progress
  <2>2. RootKey \in Key
    BY <1>0, <2>1, RootExact
  <2>3. Visit(RootKey) \in WorkItem
    BY <2>2 DEF Visit, WorkItem
  <2>4. Visit(RootKey) \in SoundItem
    BY <2>3 DEF Visit, SoundItem
  <2>5. SoundItem' = SoundItem /\ (\A k : Meaning(k)' = Meaning(k))
        /\ AnsweredAtOnce(request)' = AnsweredAtOnce(request)
    BY <2>1, CallKept
  <2>6. work' \in Seq(SoundItem)' /\ work' \in Seq(WorkItem)
    BY <2>1, <2>3, <2>4, <2>5
  <2>7. TypeOK'
    BY <2>1, <2>6 DEF IInv, TypeOK
  <2>8. ResultsExact' /\ Progress'
    BY <2>1, <2>5 DEF IInv, ResultsExact, Progress
  <2> QED
    BY <2>6, <2>7, <2>8 DEF IInv
<1>3. CASE VisitKnown
  <2>1. pc = "work" /\ Tail(work) \in Seq(SoundItem)
    BY <1>0, <1>3, TopOfStack DEF VisitKnown
  <2>2. work' = Tail(work) /\ UNCHANGED <<source, request, pc, memo, results, outcome>>
    BY <1>3 DEF VisitKnown
  <2> QED
    BY <1>0, <2>1, <2>2, WorkStep
<1>4. CASE VisitTerminal
  <2>1. pc = "work" /\ Tail(work) \in Seq(SoundItem) /\ Current \in Key
    BY <1>0, <1>4, TopOfStack DEF VisitTerminal
  <2>2. PICK x \in TerminalResult(Current) : Record(x)
    BY <1>4 DEF VisitTerminal
  <2>3. x = Meaning(Current)
    BY <1>0, <2>1, TerminalExact
  <2>4. /\ work' = Tail(work) /\ results' = Put(results, Current, Meaning(Current))
        /\ UNCHANGED <<source, request, pc, memo, outcome>>
    BY <1>4, <2>2, <2>3 DEF VisitTerminal, Record
  <2> QED
    BY <1>0, <2>1, <2>4, WorkStep
<1>5. CASE OverMemoLimit
  <2>1. pc = "work" /\ Return(Failed("memo_limit"))
    BY <1>5 DEF OverMemoLimit, Undecided, Doing
  <2> QED
    BY <2>1, LimitRight, ReturnStep
<1>6. CASE VisitDecided
  <2>1. /\ pc = "work" /\ Tail(work) \in Seq(SoundItem) /\ Current \in Key
        /\ TerminalResult(Current) = {}
    BY <1>0, <1>6, TopOfStack DEF VisitDecided, Undecided
  <2>2. PICK x \in Decided(Current) : Record(x)
    BY <1>6 DEF VisitDecided
  <2>3. x = Meaning(Current)
    BY <1>0, <2>1, DecidedExact
  <2>4. /\ work' = Tail(work) /\ results' = Put(results, Current, Meaning(Current))
        /\ memo' = memo \union {Current}
        /\ UNCHANGED <<source, request, pc, outcome>>
    BY <1>6, <2>2, <2>3 DEF VisitDecided, Record
  <2>5. memo' \subseteq Key
    BY <1>0, <2>1, <2>4
  <2> QED
    BY <1>0, <2>1, <2>4, <2>5, WorkStep
<1>7. CASE VisitExpand
  <2>1. /\ pc = "work" /\ Tail(work) \in Seq(SoundItem) /\ Current \in Key
        /\ TerminalResult(Current) = {} /\ Decided(Current) = {}
    BY <1>0, <1>7, TopOfStack DEF VisitExpand, Undecided
  <2>2. Expand(Current) \in Seq(SoundItem)
    BY <1>0, <2>1, ExpandSound
  <2>3. Expand(Current) \o Tail(work) \in Seq(SoundItem)
    BY <2>1, <2>2, ConcatProperties
  <2>4. /\ work' = Expand(Current) \o Tail(work) /\ memo' = memo \union {Current}
        /\ UNCHANGED <<source, request, pc, results, outcome>>
    BY <1>7 DEF VisitExpand
  <2>5. memo' \subseteq Key
    BY <1>0, <2>1, <2>4
  <2> QED
    BY <2>1, <2>3, <2>4, <2>5, WorkStep
<1>8. CASE MakeNode
  <2>1. /\ pc = "work" /\ Tail(work) \in Seq(SoundItem) /\ Current \in Key
        /\ Head(work) \in SoundItem /\ Head(work).kind = "make_node"
    BY <1>0, <1>8, TopOfStack DEF MakeNode, Combining
  <2>2. Combined = Meaning(Current)
    <3>1. Meaning(Current) = Node(Head(work).variable, Meaning(Head(work).hi), Meaning(Head(work).lo))
      BY <2>1 DEF SoundItem, Current
    <3>2. Head(work).hi \in DOMAIN results /\ Head(work).lo \in DOMAIN results
      BY <1>8 DEF MakeNode, Combining
    <3> QED
      BY <3>1, <3>2 DEF Combined, IInv, ResultsExact
  <2>3. /\ work' = Tail(work) /\ results' = Put(results, Current, Meaning(Current))
        /\ UNCHANGED <<source, request, pc, memo, outcome>>
    BY <1>8, <2>2 DEF MakeNode, Record
  <2> QED
    BY <1>0, <2>1, <2>3, WorkStep
<1>9. CASE OverNodeLimit
  <2>1. pc = "work" /\ Return(Failed("node_limit"))
    BY <1>9 DEF OverNodeLimit, Combining, Doing
  <2> QED
    BY <2>1, LimitRight, ReturnStep
<1>10. CASE FollowAlias
  <2>1. /\ pc = "work" /\ Tail(work) \in Seq(SoundItem) /\ Current \in Key
        /\ Head(work) \in SoundItem /\ Head(work).kind = "alias"
    BY <1>0, <1>10, TopOfStack DEF FollowAlias
  <2>2. results[Head(work).child] = Meaning(Current)
    <3>1. Meaning(Current) = Meaning(Head(work).child)
      BY <2>1 DEF SoundItem, Current
    <3>2. Head(work).child \in DOMAIN results
      BY <1>10 DEF FollowAlias
    <3> QED
      BY <3>1, <3>2 DEF IInv, ResultsExact
  <2>3. /\ work' = Tail(work) /\ results' = Put(results, Current, Meaning(Current))
        /\ UNCHANGED <<source, request, pc, memo, outcome>>
    BY <1>10, <2>2 DEF FollowAlias, Record
  <2> QED
    BY <1>0, <2>1, <2>3, WorkStep
<1>11. CASE Finish
  <2>1. pc = "work" /\ RootKey \in DOMAIN results /\ Return(Ok(results[RootKey]))
    BY <1>11 DEF Finish
  <2>2. AnsweredAtOnce(request) = {}
    BY <2>1 DEF IInv, Progress
  <2>3. results[RootKey] = Wanted
    BY <1>0, <2>1, <2>2, RootExact DEF IInv, ResultsExact
  <2>4. Wanted \in Family
    BY <1>0 DEF Wanted, Family
  <2>5. Right(Ok(results[RootKey]))
    BY <1>0, <2>2, <2>3, <2>4, Proper DEF Right, Ok, Outcome
  <2> QED
    BY <2>1, <2>5, ReturnStep
<1>12. CASE UNCHANGED vars
  <2>1. UNCHANGED <<source, request>> /\ UNCHANGED <<pc, memo, results, work, outcome>>
    BY <1>12 DEF vars
  <2>2. /\ SoundItem' = SoundItem /\ (\A k : Meaning(k)' = Meaning(k))
        /\ (\A o : Right(o)' <=> Right(o))
        /\ AnsweredAtOnce(request)' = AnsweredAtOnce(request)
    BY <2>1, CallKept
  <2>3. work' \in Seq(SoundItem)' /\ ResultsExact' /\ Progress' /\ TypeOK'
    BY <2>1, <2>2 DEF IInv, ResultsExact, Progress, TypeOK
  <2> QED
    BY <2>3 DEF IInv
<1> QED
  BY <1>1, <1>2, <1>3, <1>4, <1>5, <1>6, <1>7, <1>8, <1>9, <1>10, <1>11, <1>12 DEF Next

\* The invariant holds when the method is called.
LEMMA InitIInv ==
  ASSUME Init
  PROVE  IInv
<1>1. Zero \in Family
  BY DEF Zero, Family
<1>2. DOMAIN results = {} /\ work = << >> /\ memo = {} /\ pc = "called" /\ outcome = Failed("none")
  BY DEF Init, Empty
<1>3. Failed("none") \in Outcome
  BY <1>1 DEF Failed, Outcome
<1>4. source \in Family /\ request \in Request
  BY FilterAssumption DEF Init
<1>5. TypeOK
  BY <1>2, <1>3, <1>4 DEF TypeOK
<1> QED
  BY <1>2, <1>5 DEF IInv, ResultsExact, Progress

\* The inductive invariant holds in every reachable state of every instance.
THEOREM Invariance == Spec => []IInv
<1>1. Init => IInv
  BY InitIInv
<1>2. IInv /\ [Next]_vars => IInv'
  BY StepIInv
<1> QED
  BY <1>1, <1>2, PTL DEF Spec

\* The variables of a filter call keep their types.
THEOREM TypeCorrect == Spec => []TypeOK
BY Invariance, PTL DEF IInv

\* Every filter returns exactly the sets of its source that satisfy the
\* predicate, every entry of its table is exact for the position or bounds of
\* its key, and exactly the calls with bad arguments are refused.
THEOREM FiltersAreExact == Spec => []FilterExact
<1>1. IInv => FilterExact
  <2> SUFFICES ASSUME IInv PROVE FilterExact
    OBVIOUS
  <2>1. pc \in {"called", "work", "returned"}
    BY DEF IInv, TypeOK
  <2>2. CASE pc = "returned"
    BY <2>2 DEF IInv, ResultsExact, Progress, Right, Wanted, BadRange, FilterExact
  <2>3. CASE pc # "returned"
    <3>1. outcome = Failed("none")
      BY <2>1, <2>3 DEF IInv, Progress
    <3>2. outcome.kind # "ok"
      BY <3>1 DEF Failed
    <3> QED
      BY <2>3, <3>2 DEF IInv, ResultsExact, FilterExact
  <2> QED
    BY <2>2, <2>3
<1> QED
  BY <1>1, Invariance, PTL
----------------------------------------------------------------------------
(* The memo limit.                                                         *)

\* One more level of what a call needs.
More(K) == K \union UNION {Needs(k) : k \in K}

\* The levels up to n exist.
LEMMA LevelsExist ==
  ASSUME NEW n \in Nat
  PROVE  \E f : f = [i \in 0 .. n |-> IF i = 0 THEN {RootKey} ELSE More(f[i - 1])]
<1> DEFINE Good == {m \in Nat : \E f : f = [i \in 0 .. m |-> IF i = 0 THEN {RootKey} ELSE More(f[i - 1])]}
<1>1. 0 \in Good
  <2> DEFINE g == [i \in 0 .. 0 |-> {RootKey}]
  <2>1. g = [i \in 0 .. 0 |-> IF i = 0 THEN {RootKey} ELSE More(g[i - 1])]
    OBVIOUS
  <2> QED
    BY <2>1
<1>2. ASSUME NEW m \in Nat, m \in Good
      PROVE  m + 1 \in Good
  <2>1. PICK f : f = [i \in 0 .. m |-> IF i = 0 THEN {RootKey} ELSE More(f[i - 1])]
    BY <1>2
  <2> DEFINE g == [i \in 0 .. m + 1 |-> IF i = m + 1 THEN More(f[m]) ELSE f[i]]
  <2>2. \A i \in 0 .. m + 1 : g[i] = IF i = 0 THEN {RootKey} ELSE More(g[i - 1])
    <3> TAKE i \in 0 .. m + 1
    <3>1. CASE i = m + 1
      <4>1. g[i] = More(f[m]) /\ i # 0 /\ i - 1 = m /\ m \in 0 .. m + 1 /\ m # m + 1
        BY <3>1
      <4>2. g[m] = f[m]
        BY <4>1
      <4> HIDE DEF g
      <4> QED
        BY <4>1, <4>2
    <3>2. CASE i = 0
      <4>1. 0 \in 0 .. m + 1 /\ 0 # m + 1 /\ 0 \in 0 .. m
        OBVIOUS
      <4>2. g[0] = f[0]
        BY <4>1
      <4>3. f[0] = {RootKey}
        BY <2>1, <4>1
      <4> HIDE DEF g
      <4> QED
        BY <3>2, <4>2, <4>3
    <3>3. CASE i # m + 1 /\ i # 0
      <4>1. i \in 0 .. m /\ i - 1 \in 0 .. m + 1 /\ i - 1 # m + 1
        BY <3>3
      <4>2. g[i] = f[i] /\ g[i - 1] = f[i - 1]
        BY <3>3, <4>1
      <4>3. f[i] = More(f[i - 1])
        BY <2>1, <3>3, <4>1
      <4> HIDE DEF g
      <4> QED
        BY <3>3, <4>2, <4>3
    <3> QED
      BY <3>1, <3>2, <3>3
  <2>3. g = [i \in 0 .. m + 1 |-> g[i]]
    OBVIOUS
  <2> HIDE DEF g
  <2>4. g = [i \in 0 .. m + 1 |-> IF i = 0 THEN {RootKey} ELSE More(g[i - 1])]
    BY <2>2, <2>3, Zenon
  <2> QED
    BY <2>4
<1> HIDE DEF Good
<1>3. 0 .. n \subseteq Good
  BY <1>1, <1>2, SetInduction
<1>4. n \in Good
  BY <1>3
<1> QED
  BY <1>4 DEF Good

\* What a call needs is found level by level.
LEMMA ReachedLevels ==
  /\ Reached[0] = {RootKey}
  /\ \A i \in 1 .. N : Reached[i] = More(Reached[i - 1])
<1> DEFINE Def(f) == f = [i \in 0 .. N |-> IF i = 0 THEN {RootKey} ELSE More(f[i - 1])]
<1>1. \E f : Def(f)
  BY NAssumption, LevelsExist
<1>2. Reached = CHOOSE f : Def(f)
  BY DEF Reached, More
<1>3. Def(Reached)
  BY <1>1, <1>2, Zenon
<1>4. 0 \in 0 .. N /\ \A i \in 1 .. N : i \in 0 .. N /\ i # 0
  BY NAssumption
<1> QED
  BY <1>3, <1>4

\* Later levels keep what earlier ones found.
LEMMA ReachedGrows ==
  ASSUME NEW i \in 0 .. N, NEW j \in 0 .. N, i <= j
  PROVE  Reached[i] \subseteq Reached[j]
<1> DEFINE Good == {d \in Nat : i + d <= N => Reached[i] \subseteq Reached[i + d]}
<1>1. 0 \in Good
  OBVIOUS
<1>2. ASSUME NEW d \in Nat, d \in Good
      PROVE  d + 1 \in Good
  <2> SUFFICES ASSUME i + (d + 1) <= N PROVE Reached[i] \subseteq Reached[i + (d + 1)]
    OBVIOUS
  <2>1. i + d <= N /\ i + (d + 1) \in 1 .. N /\ (i + (d + 1)) - 1 = i + d
    BY NAssumption
  <2>2. Reached[i] \subseteq Reached[i + d]
    BY <1>2, <2>1
  <2>3. Reached[i + (d + 1)] = More(Reached[i + d])
    BY <2>1, ReachedLevels
  <2> QED
    BY <2>2, <2>3 DEF More
<1> HIDE DEF Good
<1>3. j - i \in Nat /\ i + (j - i) = j /\ j <= N
  BY NAssumption
<1>4. j - i \in 0 .. j - i /\ 0 .. j - i \subseteq Good
  BY <1>1, <1>2, <1>3, SetInduction
<1>5. j - i \in Good
  BY <1>4
<1> QED
  BY <1>3, <1>5 DEF Good

\* The keys needed for a key.
LEMMA NeedsTyping ==
  ASSUME request \in Request, NEW k \in Key
  PROVE  /\ Needs(k) \subseteq Key /\ IsFiniteSet(Needs(k))
         /\ TerminalResult(k) # {} => Needs(k) = {}
<1>1. CASE TerminalResult(k) # {} \/ Decided(k) # {}
  BY <1>1, FS_EmptySet DEF Needs
<1>2. CASE TerminalResult(k) = {} /\ Decided(k) = {}
  <2>1. LoKey(k) \in Key /\ (~Dropped(k) => HiKey(k) \in Key)
    BY <1>2, AliasExact, WantedExact, CountsExact, ElementsExact
  <2>2. IsFiniteSet({LoKey(k)}) /\ IsFiniteSet({HiKey(k)})
    BY FS_Singleton
  <2>3. {HiKey(k), LoKey(k)} = {HiKey(k)} \union {LoKey(k)}
    OBVIOUS
  <2>4. IsFiniteSet({HiKey(k), LoKey(k)})
    BY <2>2, <2>3, FS_Union
  <2> QED
    BY <1>2, <2>1, <2>2, <2>4 DEF Needs
<1> QED
  BY <1>1, <1>2

\* Only finitely many keys are needed.
LEMMA ReachedFinite ==
  ASSUME request \in Request, RootKey \in Key
  PROVE  Reached[N] \subseteq Key /\ IsFiniteSet(Reached[N])
<1> DEFINE Good == {i \in Nat : i <= N => Reached[i] \subseteq Key /\ IsFiniteSet(Reached[i])}
<1>1. 0 \in Good
  BY ReachedLevels, FS_Singleton
<1>2. ASSUME NEW i \in Nat, i \in Good
      PROVE  i + 1 \in Good
  <2> SUFFICES ASSUME i + 1 <= N PROVE Reached[i + 1] \subseteq Key /\ IsFiniteSet(Reached[i + 1])
    OBVIOUS
  <2>1. i <= N /\ i + 1 \in 1 .. N /\ (i + 1) - 1 = i
    BY NAssumption
  <2>2. Reached[i] \subseteq Key /\ IsFiniteSet(Reached[i])
    BY <1>2, <2>1
  <2>3. Reached[i + 1] = Reached[i] \union UNION {Needs(k) : k \in Reached[i]}
    BY <2>1, ReachedLevels DEF More
  <2>4. \A k \in Reached[i] : Needs(k) \subseteq Key /\ IsFiniteSet(Needs(k))
    BY <2>2, NeedsTyping
  <2> DEFINE K == Reached[i]
             T == {Needs(k) : k \in K}
             f == [k \in K |-> Needs(k)]
  <2>5. f \in Surjection(K, T)
    BY DEF Surjection
  <2>6. IsFiniteSet(T)
    BY <2>2, <2>5, FS_Surjection
  <2>7. IsFiniteSet(UNION T)
    BY <2>4, <2>6, FS_UNION
  <2>8. IsFiniteSet(K \union UNION T)
    BY <2>2, <2>7, FS_Union
  <2> QED
    BY <2>2, <2>3, <2>4, <2>8
<1> HIDE DEF Good
<1>3. N \in Nat /\ N \in 0 .. N /\ N <= N
  BY NAssumption
<1>4. 0 .. N \subseteq Good
  BY <1>1, <1>2, <1>3, SetInduction
<1>5. N \in Good
  BY <1>3, <1>4
<1> QED
  BY <1>3, <1>5 DEF Good

\* The level a root is met at: its variable, and the last level for a terminal.
Level(F) == IF F \in Terminals THEN N ELSE TopVar(F)


\* A root over variables after v is met at a later level than v.
LEMMA LevelBound ==
  ASSUME NEW F \in Family
  PROVE  /\ Level(F) \in 0 .. N
         /\ \A v \in Var : (\A w \in Support(F) : v < w) => v + 1 <= Level(F)
<1>1. CASE F \in Terminals
  <2>1. Level(F) = N
    BY <1>1 DEF Level
  <2> QED
    BY <2>1, NAssumption DEF Var
<1>2. CASE F \notin Terminals
  <2>1. TopVar(F) \in Var /\ TopVar(F) \in Support(F)
    BY <1>2, TopExists DEF Terminals, IsTop
  <2> QED
    BY <1>2, <2>1, NAssumption DEF Level, Var
<1> QED
  BY <1>1, <1>2

\* What a key needs is met at later levels.
LEMMA NeedsLater ==
  ASSUME request \in Request, NEW k \in Key, k \in Reached[Level(k.root)], NEW c \in Needs(k)
  PROVE  c \in Key /\ c \in Reached[Level(c.root)]
<1> DEFINE F == k.root
           v == Top(k)
<1>1. TerminalResult(k) = {} /\ Decided(k) = {} /\ c \in {HiKey(k), LoKey(k)}
  BY DEF Needs
<1>2. c \in Key
  BY NeedsTyping
<1>3. F \in Family /\ v \in Var /\ IsTop(v, F) /\ Level(F) = v
  <2>1. F \in Family /\ v \in Var /\ IsTop(v, F)
    BY <1>1, OpenKey
  <2>2. F # Zero /\ F # One
    BY <2>1 DEF IsTop, Support, Zero, One
  <2> QED
    BY <2>1, <2>2 DEF Level, Terminals, Top
<1>4. c.root \in {Hi(v, F), Lo(v, F), Zero}
  <2>1. LoKey(k) = Same(k, Zero) \/ LoKey(k) = Same(k, Lo(v, F))
    BY DEF LoKey
  <2>2. \/ HiKey(k) = [root |-> Hi(v, F), position |-> k.position + 1, lower |-> 0, upper |-> 0]
        \/ HiKey(k) = [root |-> Zero, position |-> 0, lower |-> 0, upper |-> 0]
        \/ HiKey(k) = [root |-> Hi(v, F), position |-> 0,
                       lower |-> IF k.lower = 0 THEN 0 ELSE k.lower - 1, upper |-> k.upper - 1]
        \/ HiKey(k) = Same(k, Hi(v, F))
    BY DEF HiKey
  <2>3. Same(k, Zero).root = Zero /\ Same(k, Hi(v, F)).root = Hi(v, F) /\ Same(k, Lo(v, F)).root = Lo(v, F)
    BY DEF Same, Key
  <2> QED
    BY <1>1, <2>1, <2>2, <2>3
<1>5. \A w \in Support(c.root) : v < w
  <2>1. \A w \in Support(F) : v <= w /\ w \in Nat
    BY <1>3, NAssumption DEF IsTop, Support, Family, Var
  <2>2. \A w \in Support(c.root) : w \in Support(F) /\ w # v
    BY <1>4 DEF Support, Hi, Lo, Zero
  <2> QED
    BY <1>3, <2>1, <2>2, NAssumption DEF Var
<1>6. c.root \in Family
  BY <1>2 DEF Key
<1> HIDE DEF F, v
<1>7. v + 1 <= Level(c.root) /\ Level(c.root) \in 0 .. N /\ v + 1 \in 1 .. N /\ (v + 1) - 1 = v
  BY <1>3, <1>5, <1>6, LevelBound, NAssumption DEF Var
<1>8. c \in Reached[v + 1]
  <2>1. Reached[v + 1] = More(Reached[v])
    BY <1>7, ReachedLevels
  <2>2. k \in Reached[v]
    BY <1>3 DEF F
  <2> QED
    BY <2>1, <2>2 DEF More
<1>9. Reached[v + 1] \subseteq Reached[Level(c.root)]
  BY <1>7, ReachedGrows
<1> QED
  BY <1>2, <1>8, <1>9

\* A set of keys that has the root key and all that its open keys need has
\* everything the call needs.
LEMMA ClosedHasAll ==
  ASSUME NEW K, RootKey \in K, \A k \in K : Needs(k) \subseteq K
  PROVE  Reached[N] \subseteq K
<1> DEFINE Good == {i \in Nat : i <= N => Reached[i] \subseteq K}
<1>1. 0 \in Good
  BY ReachedLevels
<1>2. ASSUME NEW i \in Nat, i \in Good
      PROVE  i + 1 \in Good
  <2> SUFFICES ASSUME i + 1 <= N PROVE Reached[i + 1] \subseteq K
    OBVIOUS
  <2>1. i <= N /\ i + 1 \in 1 .. N /\ (i + 1) - 1 = i
    BY NAssumption
  <2>2. Reached[i] \subseteq K
    BY <1>2, <2>1
  <2>3. Reached[i + 1] = More(Reached[i])
    BY <2>1, ReachedLevels
  <2> QED
    BY <2>2, <2>3 DEF More
<1> HIDE DEF Good
<1>3. N \in Nat /\ N \in 0 .. N /\ N <= N
  BY NAssumption
<1>4. 0 .. N \subseteq Good
  BY <1>1, <1>2, <1>3, SetInduction
<1>5. N \in Good
  BY <1>3, <1>4
<1> QED
  BY <1>3, <1>5 DEF Good

\* The levels, as a predicate of a state.
LevelsSound ==
  /\ Reached[0] = {RootKey}
  /\ \A i \in 1 .. N : Reached[i] = Reached[i - 1] \union UNION {Needs(k) : k \in Reached[i - 1]}

\* The levels of the next state.
LEMMA ReachedLevelsNext ==
  /\ Reached'[0] = {RootKey'}
  /\ \A i \in 1 .. N : Reached'[i] = Reached'[i - 1] \union UNION {Needs(k)' : k \in Reached'[i - 1]}
<1>1. LevelsSound
  BY ReachedLevels DEF LevelsSound, More
<1>2. LevelsSound'
  BY <1>1, PTL
<1> QED
  BY <1>2 DEF LevelsSound

\* What a call needs does not change while it runs.
LEMMA NeedsKept ==
  ASSUME UNCHANGED <<source, request>>
  PROVE  /\ RootKey' = RootKey
         /\ \A k : TerminalResult(k)' = TerminalResult(k) /\ Needs(k)' = Needs(k)
         /\ Reached'[N] = Reached[N]
         /\ Subproblems' = Subproblems
         /\ \A i \in 0 .. N : Reached'[i] = Reached[i]
<1>1. RootKey' = RootKey
  BY DEF RootKey, Bounds
<1>2. Requires' = Requires /\ CountsElements' = CountsElements /\ \A k : Missing(k)' = Missing(k)
  BY DEF Requires, CountsElements, Missing
<1>3. \A k : TerminalResult(k)' = TerminalResult(k)
  BY <1>2 DEF TerminalResult
<1>4. \A k : IsWanted(k)' = IsWanted(k) /\ Decided(k)' = Decided(k) /\ Dropped(k)' = Dropped(k)
  BY <1>2 DEF IsWanted, Decided, Dropped
<1>5. \A k : HiKey(k)' = HiKey(k) /\ LoKey(k)' = LoKey(k)
  BY <1>2, <1>4 DEF HiKey, LoKey
<1>6. \A k : Needs(k)' = Needs(k)
  BY <1>3, <1>4, <1>5 DEF Needs
<1>7. \A K : K \union UNION {Needs(k)' : k \in K} = More(K)
  BY <1>6 DEF More
<1> DEFINE Good == {i \in Nat : i <= N => Reached'[i] = Reached[i]}
<1>8. 0 \in Good
  BY <1>1, ReachedLevels, ReachedLevelsNext
<1>9. ASSUME NEW i \in Nat, i \in Good
      PROVE  i + 1 \in Good
  <2> SUFFICES ASSUME i + 1 <= N PROVE Reached'[i + 1] = Reached[i + 1]
    OBVIOUS
  <2>1. i <= N /\ i + 1 \in 1 .. N /\ (i + 1) - 1 = i
    BY NAssumption
  <2>2. Reached'[i] = Reached[i]
    BY <1>9, <2>1
  <2>3. Reached'[i + 1] = Reached'[i] \union UNION {Needs(k)' : k \in Reached'[i]}
    BY <2>1, ReachedLevelsNext
  <2>4. Reached[i + 1] = More(Reached[i])
    BY <2>1, ReachedLevels
  <2> QED
    BY <1>7, <2>2, <2>3, <2>4
<1> HIDE DEF Good
<1>10. 0 .. N \subseteq Good
  BY <1>8, <1>9, NAssumption, SetInduction
<1>11. \A i \in 0 .. N : Reached'[i] = Reached[i]
  BY <1>10, NAssumption DEF Good
<1>12. Reached'[N] = Reached[N]
  BY <1>11, NAssumption
<1> QED
  BY <1>1, <1>3, <1>6, <1>11, <1>12 DEF Subproblems

\* A visit of c waits on the stack w.
Waiting(w, c) == \E i \in DOMAIN w : w[i] = Visit(c)

\* A key that the memo has or need not have.
Settled(m, c) == c \in m \/ TerminalResult(c) # {}

\* The keys of the stack w and of the memo m are needed for the call, the keys
\* with a result (d) are settled, and nothing that is needed for a key of the
\* memo is lost.
Memoised(w, m, d) ==
  /\ \A i \in DOMAIN w : w[i].key \in Reached[Level(w[i].key.root)]
  /\ \A i \in DOMAIN w : w[i].kind = "visit" \/ w[i].key \in m
  /\ m \subseteq Subproblems
  /\ \A k \in d : Settled(m, k)
  /\ Settled(m, RootKey) \/ Waiting(w, RootKey)
  /\ \A k \in m : \A c \in Needs(k) : Settled(m, c) \/ Waiting(w, c)

MemoInv ==
  /\ pc = "called" => memo = {} /\ DOMAIN results = {}
  /\ pc = "work" => Memoised(work, memo, DOMAIN results) /\ Cardinality(memo) <= MemoLimit
  /\ MemoLimitExact

\* What is left on the stack after its top is popped.
LEMMA PopItems ==
  ASSUME NEW w \in Seq(WorkItem), w # << >>
  PROVE  /\ \A i \in DOMAIN Tail(w) : \E j \in DOMAIN w : Tail(w)[i] = w[j]
         /\ \A j \in DOMAIN w : w[j] = Head(w) \/ \E i \in DOMAIN Tail(w) : Tail(w)[i] = w[j]
         /\ \E j \in DOMAIN w : Head(w) = w[j]
<1> DEFINE n == Len(w)
           t == Tail(w)
<1>1. n \in Nat /\ n # 0 /\ DOMAIN w = 1 .. n
  BY LenProperties, EmptySeq
<1>2. /\ t \in Seq(WorkItem) /\ Len(t) = n - 1 /\ Head(w) = w[1]
      /\ \A i \in 1 .. n - 1 : t[i] = w[i + 1]
  BY <1>1, HeadTailProperties
<1>3. DOMAIN t = 1 .. n - 1
  BY <1>2, LenProperties
<1> HIDE DEF n, t
<1>4. \A i \in 1 .. n - 1 : i + 1 \in 1 .. n
  BY <1>1
<1>5. \A j \in 1 .. n : j = 1 \/ (j - 1 \in 1 .. n - 1 /\ (j - 1) + 1 = j)
  BY <1>1
<1>6. 1 \in 1 .. n
  BY <1>1
<1> QED
  BY <1>1, <1>2, <1>3, <1>4, <1>5, <1>6 DEF t

\* The stack u has the items of x and of w.
Pushed(u, x, w) ==
  /\ \A i \in DOMAIN u : (\E j \in DOMAIN x : u[i] = x[j]) \/ (\E j \in DOMAIN w : u[i] = w[j])
  /\ \A j \in DOMAIN x : \E i \in DOMAIN u : u[i] = x[j]
  /\ \A j \in DOMAIN w : \E i \in DOMAIN u : u[i] = w[j]

\* What is on the stack after items are pushed.
LEMMA PushItems ==
  ASSUME NEW x \in Seq(WorkItem), NEW w \in Seq(WorkItem), NEW u, u = x \o w
  PROVE  Pushed(u, x, w)
<1> DEFINE n == Len(x)
           m == Len(w)
<1>1. n \in Nat /\ m \in Nat /\ DOMAIN x = 1 .. n /\ DOMAIN w = 1 .. m
  BY LenProperties
<1>2. /\ x \o w \in Seq(WorkItem) /\ Len(x \o w) = n + m
      /\ \A i \in 1 .. n + m : (x \o w)[i] = IF i <= n THEN x[i] ELSE w[i - n]
  BY ConcatProperties, Zenon
<1>3. /\ u \in Seq(WorkItem) /\ Len(u) = n + m
      /\ \A i \in 1 .. n + m : u[i] = IF i <= n THEN x[i] ELSE w[i - n]
  BY <1>2, Zenon
<1>4. DOMAIN u = 1 .. n + m
  BY <1>3, LenProperties
<1> HIDE DEF n, m
<1>5. \A i \in 1 .. n + m : (i <= n /\ i \in 1 .. n) \/ (~(i <= n) /\ i - n \in 1 .. m)
  BY <1>1
<1>6. \A j \in 1 .. n : j \in 1 .. n + m /\ j <= n
  BY <1>1
<1>7. \A j \in 1 .. m : j + n \in 1 .. n + m /\ ~(j + n <= n) /\ (j + n) - n = j
  BY <1>1
<1>8. \A i \in DOMAIN u : (\E j \in DOMAIN x : u[i] = x[j]) \/ (\E j \in DOMAIN w : u[i] = w[j])
  BY <1>1, <1>3, <1>4, <1>5
<1>9. \A j \in DOMAIN x : \E i \in DOMAIN u : u[i] = x[j]
  BY <1>1, <1>3, <1>4, <1>6
<1>10. ASSUME NEW j \in DOMAIN w
       PROVE  \E i \in DOMAIN u : u[i] = w[j]
  <2>1. u[j + n] = w[j] /\ j + n \in DOMAIN u
    <3>1. j + n \in 1 .. n + m /\ ~(j + n <= n) /\ (j + n) - n = j
      BY <1>1, <1>7
    <3>2. u[j + n] = w[(j + n) - n]
      BY <1>3, <3>1
    <3>3. w[(j + n) - n] = w[j]
      BY <3>1, Zenon
    <3> QED
      BY <1>4, <3>1, <3>2, <3>3
  <2> QED
    BY <2>1
<1> QED
  BY <1>8, <1>9, <1>10 DEF Pushed

\* The top of the stack is popped: its key is settled, if it was a visit.
LEMMA PopMemoised ==
  ASSUME NEW w \in Seq(WorkItem), w # << >>, NEW m, NEW n, NEW d, NEW e, Memoised(w, m, d),
         m \subseteq n, n \subseteq m \union {Head(w).key}, n \subseteq Subproblems,
         e \subseteq d \union {Head(w).key},
         Settled(n, Head(w).key),
         \A k \in n \ m : Needs(k) = {}
  PROVE  Memoised(Tail(w), n, e)
<1>1. /\ \A i \in DOMAIN Tail(w) : \E j \in DOMAIN w : Tail(w)[i] = w[j]
      /\ \A j \in DOMAIN w : w[j] = Head(w) \/ \E i \in DOMAIN Tail(w) : Tail(w)[i] = w[j]
  BY PopItems
<1>2. \A c : Settled(m, c) => Settled(n, c)
  BY DEF Settled
<1>3. \A c : Waiting(w, c) => Waiting(Tail(w), c) \/ Settled(n, c)
  <2> SUFFICES ASSUME NEW c, Waiting(w, c), ~Waiting(Tail(w), c) PROVE Settled(n, c)
    OBVIOUS
  <2>1. PICK j \in DOMAIN w : w[j] = Visit(c)
    BY DEF Waiting
  <2>2. w[j] = Head(w)
    BY <1>1, <2>1 DEF Waiting
  <2>3. Head(w).key = c
    BY <2>1, <2>2 DEF Visit
  <2> QED
    BY <2>3
<1>4. \A i \in DOMAIN Tail(w) : Tail(w)[i].key \in Reached[Level(Tail(w)[i].key.root)]
  BY <1>1 DEF Memoised
<1>5. \A i \in DOMAIN Tail(w) : Tail(w)[i].kind = "visit" \/ Tail(w)[i].key \in n
  BY <1>1 DEF Memoised
<1>6. \A k \in e : Settled(n, k)
  BY <1>2 DEF Memoised
<1>7. Settled(n, RootKey) \/ Waiting(Tail(w), RootKey)
  BY <1>2, <1>3 DEF Memoised
<1>8. \A k \in n : \A c \in Needs(k) : Settled(n, c) \/ Waiting(Tail(w), c)
  BY <1>2, <1>3 DEF Memoised
<1> QED
  BY <1>4, <1>5, <1>6, <1>7, <1>8 DEF Memoised

\* The items a key is expanded into.
LEMMA ExpandItems ==
  ASSUME request \in Request, NEW k \in Key, TerminalResult(k) = {}, Decided(k) = {}
  PROVE  /\ Expand(k) \in Seq(WorkItem)
         /\ \A i \in DOMAIN Expand(k) :
              \/ \E c \in Needs(k) : Expand(k)[i] = Visit(c)
              \/ Expand(k)[i].kind # "visit" /\ Expand(k)[i].key = k
         /\ \A c \in Needs(k) : Waiting(Expand(k), c)
<1>1. Expand(k) \in Seq(WorkItem)
  <2>1. Expand(k) \in Seq(SoundItem)
    BY ExpandSound
  <2>2. SoundItem \subseteq WorkItem
    BY DEF SoundItem
  <2> QED
    BY <2>1, <2>2, SeqMonotonic, Zenon
<1>2. CASE Dropped(k)
  <2>1. Expand(k) = <<Visit(LoKey(k)), AliasItem(k)>> /\ Needs(k) = {LoKey(k)}
    BY <1>2 DEF Expand, Needs
  <2>2. AliasItem(k).kind # "visit" /\ AliasItem(k).key = k
    BY DEF AliasItem
  <2>3. DOMAIN Expand(k) = {1, 2} /\ Expand(k)[1] = Visit(LoKey(k)) /\ Expand(k)[2] = AliasItem(k)
    BY <2>1
  <2> QED
    BY <1>1, <2>1, <2>2, <2>3 DEF Waiting
<1>3. CASE ~Dropped(k)
  <2>1. Expand(k) = <<Visit(LoKey(k)), Visit(HiKey(k)), MakeItem(k)>> /\ Needs(k) = {HiKey(k), LoKey(k)}
    BY <1>3 DEF Expand, Needs
  <2>2. MakeItem(k).kind # "visit" /\ MakeItem(k).key = k
    BY DEF MakeItem
  <2>3. /\ DOMAIN Expand(k) = {1, 2, 3}
        /\ Expand(k)[1] = Visit(LoKey(k)) /\ Expand(k)[2] = Visit(HiKey(k)) /\ Expand(k)[3] = MakeItem(k)
    BY <2>1
  <2> QED
    BY <1>1, <2>1, <2>2, <2>3 DEF Waiting
<1> QED
  BY <1>2, <1>3

\* The key on top is put in the memo and expanded.
LEMMA ExpandMemoised ==
  ASSUME request \in Request, NEW w \in Seq(WorkItem), w # << >>, NEW m, NEW d, Memoised(w, m, d),
         NEW k \in Key, Head(w) = Visit(k), TerminalResult(k) = {}, Decided(k) = {}
  PROVE  Memoised(Expand(k) \o Tail(w), m \union {k}, d) /\ k \in Subproblems
<1> DEFINE t == Tail(w)
           x == Expand(k)
           n == m \union {k}
<1>0. PICK u : u = x \o t
  OBVIOUS
<1>1. /\ \A i \in DOMAIN t : \E j \in DOMAIN w : t[i] = w[j]
      /\ \A j \in DOMAIN w : w[j] = Head(w) \/ \E i \in DOMAIN t : t[i] = w[j]
      /\ \E j \in DOMAIN w : Head(w) = w[j]
      /\ t \in Seq(WorkItem)
  BY PopItems, HeadTailProperties
<1>2. /\ x \in Seq(WorkItem)
      /\ \A i \in DOMAIN x : \/ \E c \in Needs(k) : x[i] = Visit(c)
                             \/ x[i].kind # "visit" /\ x[i].key = k
      /\ \A c \in Needs(k) : Waiting(x, c)
  BY ExpandItems
<1> HIDE DEF t, x, n
<1>3. /\ \A i \in DOMAIN u : (\E j \in DOMAIN x : u[i] = x[j]) \/ (\E j \in DOMAIN t : u[i] = t[j])
      /\ \A j \in DOMAIN x : \E i \in DOMAIN u : u[i] = x[j]
      /\ \A j \in DOMAIN t : \E i \in DOMAIN u : u[i] = t[j]
  <2>1. Pushed(u, x, t)
    BY <1>0, <1>1, <1>2, PushItems
  <2> QED
    BY <2>1 DEF Pushed
<1>4. Head(w).kind = "visit" /\ Head(w).key = k /\ \A c : Visit(c).kind = "visit" /\ Visit(c).key = c
  BY DEF Visit
<1>5. k \in Reached[Level(k.root)]
  BY <1>1, <1>4 DEF Memoised
<1>6. k \in Subproblems
  <2>1. k.root \in Family /\ N \in 0 .. N
    BY NAssumption DEF Key
  <2>2. Level(k.root) \in 0 .. N /\ Level(k.root) <= N
    BY <2>1, LevelBound
  <2>3. k \in Reached[N]
    BY <1>5, <2>1, <2>2, ReachedGrows
  <2> QED
    BY <2>3 DEF Subproblems
<1>7. \A c : Settled(m, c) => Settled(n, c)
  BY DEF Settled, n
<1>8. \A c : Waiting(w, c) => Waiting(u, c) \/ Settled(n, c)
  <2> SUFFICES ASSUME NEW c, Waiting(w, c), c # k PROVE Waiting(u, c)
    BY DEF Settled, n
  <2>1. PICK j \in DOMAIN w : w[j] = Visit(c)
    BY DEF Waiting
  <2>2. w[j] # Head(w)
    BY <1>4, <2>1
  <2> QED
    BY <1>1, <1>3, <2>1, <2>2 DEF Waiting
<1>9. \A c \in Needs(k) : Waiting(u, c)
  BY <1>2, <1>3 DEF Waiting
<1>10. \A i \in DOMAIN u : u[i].key \in Reached[Level(u[i].key.root)]
  <2> TAKE i \in DOMAIN u
  <2>1. CASE \E j \in DOMAIN t : u[i] = t[j]
    BY <1>1, <2>1 DEF Memoised
  <2>2. CASE \E j \in DOMAIN x : u[i] = x[j]
    <3>1. u[i].key = k \/ \E c \in Needs(k) : u[i].key = c
      BY <1>2, <1>4, <2>2
    <3> QED
      BY <1>5, <3>1, NeedsLater
  <2> QED
    BY <1>3, <2>1, <2>2
<1>11. \A i \in DOMAIN u : u[i].kind = "visit" \/ u[i].key \in n
  <2> TAKE i \in DOMAIN u
  <2>1. CASE \E j \in DOMAIN t : u[i] = t[j]
    BY <1>1, <2>1 DEF Memoised, n
  <2>2. CASE \E j \in DOMAIN x : u[i] = x[j]
    BY <1>2, <1>4, <2>2 DEF n
  <2> QED
    BY <1>3, <2>1, <2>2
<1>12. n \subseteq Subproblems /\ \A j \in d : Settled(n, j)
  BY <1>6, <1>7 DEF Memoised, n
<1>13. Settled(n, RootKey) \/ Waiting(u, RootKey)
  BY <1>7, <1>8 DEF Memoised
<1>14. \A j \in n : \A c \in Needs(j) : Settled(n, c) \/ Waiting(u, c)
  BY <1>7, <1>8, <1>9 DEF Memoised, n
<1>15. Memoised(u, n, d)
  BY <1>10, <1>11, <1>12, <1>13, <1>14 DEF Memoised
<1> QED
  BY <1>0, <1>6, <1>15 DEF x, t, n

\* The step of a running call that keeps it running.
LEMMA MemoStep ==
  ASSUME IInv, IInv', MemoInv, pc = "work", pc' = "work", UNCHANGED <<source, request, outcome>>,
         Memoised(work', memo', DOMAIN results'), Cardinality(memo') <= MemoLimit
  PROVE  MemoInv'
<1>1. /\ RootKey' = RootKey
      /\ \A k : TerminalResult(k)' = TerminalResult(k) /\ Needs(k)' = Needs(k)
      /\ Subproblems' = Subproblems
      /\ \A i \in 0 .. N : Reached'[i] = Reached[i]
  BY NeedsKept
<1>2. outcome = Failed("none")
  BY DEF IInv, Progress
<1>3. outcome'.kind = "none"
  BY <1>2 DEF Failed
<1>4. Memoised(work, memo, DOMAIN results)'
  <2>1. \A i \in DOMAIN work' : work'[i].key \in Reached[Level(work'[i].key.root)]
    BY DEF Memoised
  <2>2. \A i \in DOMAIN work' : Level(work'[i].key.root) \in 0 .. N
    <3> TAKE i \in DOMAIN work'
    <3>1. work' \in Seq(WorkItem)
      BY DEF IInv, TypeOK
    <3>2. work'[i] \in WorkItem
      BY <3>1
    <3>3. work'[i].key.root \in Family
      BY <3>2 DEF WorkItem, Key
    <3> QED
      BY <3>3, LevelBound
  <2>3. \A i \in DOMAIN work' : work'[i].key \in Reached'[Level(work'[i].key.root)]
    BY <1>1, <2>1, <2>2
  <2>4. \A m, c : Settled(m, c)' <=> Settled(m, c)
    BY <1>1 DEF Settled
  <2>5. /\ \A i \in DOMAIN work' : work'[i].kind = "visit" \/ work'[i].key \in memo'
        /\ memo' \subseteq Subproblems'
        /\ \A k \in DOMAIN results' : Settled(memo', k)
        /\ Settled(memo', RootKey') \/ Waiting(work', RootKey')
        /\ \A k \in memo' : \A c \in Needs(k)' : Settled(memo', c) \/ Waiting(work', c)
    BY <1>1 DEF Memoised
  <2> QED
    BY <1>1, <2>3, <2>4, <2>5 DEF Memoised, Settled
<1>5. MemoLimitExact'
  BY <1>3 DEF MemoLimitExact
<1> QED
  BY <1>4, <1>5 DEF MemoInv

\* A call returns: what it needs stays what it is.
LEMMA MemoReturn ==
  ASSUME MemoInv, NEW o, Return(o),
         o.kind = "memo_limit" => Cardinality(Subproblems) > MemoLimit,
         o.kind = "ok" /\ AnsweredAtOnce(request) = {} => Cardinality(Subproblems) <= MemoLimit
  PROVE  MemoInv'
<1>1. UNCHANGED <<source, request>> /\ pc' = "returned" /\ outcome' = o
  BY DEF Return
<1>2. Subproblems' = Subproblems /\ AnsweredAtOnce(request)' = AnsweredAtOnce(request)
  BY <1>1, NeedsKept, CallKept
<1>3. MemoLimitExact'
  BY <1>1, <1>2 DEF MemoLimitExact
<1> QED
  BY <1>1, <1>3 DEF MemoInv

\* The visit on top that needs a memo entry is a subproblem not counted yet.
LEMMA UndecidedCounts ==
  ASSUME IInv, MemoInv, Undecided
  PROVE  /\ pc = "work" /\ work \in Seq(WorkItem) /\ work # << >>
         /\ Current \in Key /\ Head(work) = Visit(Current) /\ TerminalResult(Current) = {}
         /\ Memoised(work, memo, DOMAIN results)
         /\ Current \in Subproblems /\ Current \notin memo
         /\ IsFiniteSet(Subproblems) /\ memo \subseteq Subproblems /\ IsFiniteSet(memo)
<1>1. /\ pc = "work" /\ work \in Seq(WorkItem) /\ work \in Seq(SoundItem) /\ work # << >>
      /\ TerminalResult(Current) = {} /\ Current \notin memo /\ Head(work).kind = "visit"
      /\ request \in Request /\ source \in Family /\ AnsweredAtOnce(request) = {}
  BY DEF IInv, TypeOK, Progress, Undecided, Doing, Known
<1>2. Head(work) \in WorkItem /\ Current \in Key
  BY <1>1, TopOfStack DEF Undecided
<1>3. Head(work) = Visit(Current)
  BY <1>1, <1>2 DEF WorkItem, Visit, Current
<1>4. Memoised(work, memo, DOMAIN results)
  BY <1>1 DEF MemoInv
<1>5. Current \in Subproblems
  <2>1. PICK j \in DOMAIN work : Head(work) = work[j]
    BY <1>1, PopItems
  <2>2. Current \in Reached[Level(Current.root)]
    BY <1>4, <2>1 DEF Memoised, Current
  <2>3. Level(Current.root) \in 0 .. N /\ N \in 0 .. N
    BY <1>2, LevelBound, NAssumption DEF Key
  <2>4. Level(Current.root) <= N
    BY <2>3
  <2>5. Current \in Reached[N]
    BY <2>2, <2>3, <2>4, ReachedGrows
  <2> QED
    BY <1>1, <2>5 DEF Subproblems
<1>6. IsFiniteSet(Subproblems)
  <2>1. IsFiniteSet(Reached[N])
    BY <1>1, RootExact, ReachedFinite
  <2> QED
    BY <2>1, FS_Subset DEF Subproblems
<1>7. memo \subseteq Subproblems /\ IsFiniteSet(memo)
  BY <1>4, <1>6, FS_Subset DEF Memoised
<1> QED
  BY <1>1, <1>2, <1>3, <1>4, <1>5, <1>6, <1>7

\* One more key than the limit: the limit is really too small.
LEMMA OneTooMany ==
  ASSUME NEW D, NEW m \in SUBSET D, NEW k \in D, k \notin m, IsFiniteSet(D), Cardinality(m) = MemoLimit
  PROVE  Cardinality(D) > MemoLimit
<1>1. IsFiniteSet(m)
  BY FS_Subset
<1>2. Cardinality(m \union {k}) = MemoLimit + 1
  BY <1>1, FS_AddElement
<1>3. m \union {k} \in SUBSET D
  OBVIOUS
<1>4. Cardinality(m \union {k}) <= Cardinality(D) /\ Cardinality(D) \in Nat
  BY <1>3, FS_Subset, FS_CardinalityType
<1> QED
  BY <1>2, <1>4, FilterAssumption

\* A key that still fits the memo.
LEMMA OneMoreFits ==
  ASSUME NEW m, NEW k, k \notin m, IsFiniteSet(m), Cardinality(m) <= MemoLimit, Cardinality(m) # MemoLimit
  PROVE  Cardinality(m \union {k}) <= MemoLimit
<1>1. Cardinality(m) \in Nat
  BY FS_CardinalityType
<1>2. Cardinality(m \union {k}) = Cardinality(m) + 1
  BY FS_AddElement
<1> QED
  BY <1>1, <1>2, FilterAssumption

\* A finished call had everything it needs in its memo.
LEMMA FinishedHasAll ==
  ASSUME request \in Request, RootKey \in Key, NEW m, NEW d, Memoised(<< >>, m, d), Cardinality(m) <= MemoLimit
  PROVE  Cardinality(Subproblems) <= MemoLimit
<1> DEFINE K == m \union {c \in Reached[N] : TerminalResult(c) # {}}
<1>1. IsFiniteSet(Reached[N]) /\ Reached[N] \subseteq Key
  BY ReachedFinite
<1>2. m \subseteq Subproblems /\ \A c : ~Waiting(<< >>, c)
  BY DEF Memoised, Waiting
<1>3. RootKey \in Reached[N]
  <2>1. 0 \in 0 .. N /\ N \in 0 .. N /\ 0 <= N
    BY NAssumption
  <2> QED
    BY <2>1, ReachedLevels, ReachedGrows
<1>4. RootKey \in m \/ TerminalResult(RootKey) # {}
  BY <1>2 DEF Memoised, Settled
<1>5. \A k \in Reached[N] : k \in m \/ TerminalResult(k) # {} => k \in m \union {c \in Key : TerminalResult(c) # {}}
  BY <1>1
<1> DEFINE J == m \union {c \in Key : TerminalResult(c) # {}}
<1>6. RootKey \in J
  BY <1>4
<1>7. \A k \in J : Needs(k) \subseteq J
  <2> SUFFICES ASSUME NEW k \in J, NEW c \in Needs(k) PROVE c \in J
    OBVIOUS
  <2>1. CASE k \in m
    <3>1. Settled(m, c)
      BY <1>2, <2>1 DEF Memoised
    <3>2. k \in Key
      BY <1>1, <1>2, <2>1 DEF Subproblems
    <3>3. c \in Key
      BY <3>2, NeedsTyping
    <3> QED
      BY <3>1, <3>3 DEF Settled
  <2>2. CASE k \in Key /\ TerminalResult(k) # {}
    BY <2>2, NeedsTyping
  <2> QED
    BY <2>1, <2>2
<1> HIDE DEF J
<1>8. Reached[N] \subseteq J
  BY <1>6, <1>7, ClosedHasAll
<1>9. Subproblems \subseteq m
  BY <1>8 DEF Subproblems, J
<1>10. Subproblems = m
  BY <1>2, <1>9
<1> QED
  BY <1>10

\* Every step keeps the invariant of the memo.
LEMMA StepMemoInv ==
  ASSUME IInv, IInv', MemoInv, [Next]_vars
  PROVE  MemoInv'
<1>0. /\ request \in Request /\ source \in Family /\ work \in Seq(WorkItem) /\ work \in Seq(SoundItem)
  BY DEF IInv, TypeOK
<1>1. CASE AnswerAtOnce
  <2>1. PICK o \in AnsweredAtOnce(request) : Return(o)
    BY <1>1 DEF AnswerAtOnce
  <2>2. o.kind # "memo_limit"
    <3>1. o \in {Failed("invalid_element"), Ok(source), Ok(Zero), Failed("invalid_range")}
      BY DEF AnsweredAtOnce
    <3> QED
      BY <3>1 DEF Failed, Ok
  <2> QED
    BY <2>1, <2>2, MemoReturn
<1>2. CASE Start
  <2>1. /\ pc = "called" /\ AnsweredAtOnce(request) = {} /\ pc' = "work" /\ work' = <<Visit(RootKey)>>
        /\ UNCHANGED <<source, request, memo, results, outcome>>
    BY <1>2 DEF Start
  <2>2. memo = {} /\ DOMAIN results = {}
    BY <2>1 DEF MemoInv
  <2>3. RootKey \in Key /\ RootKey.root \in Family
    BY <1>0, <2>1, RootExact DEF Key
  <2>4. RootKey \in Reached[Level(RootKey.root)]
    <3>1. Level(RootKey.root) \in 0 .. N /\ 0 \in 0 .. N
      BY <2>3, LevelBound, NAssumption
    <3>2. 0 <= Level(RootKey.root)
      BY <3>1
    <3> QED
      BY <3>1, <3>2, ReachedLevels, ReachedGrows
  <2>5. DOMAIN work' = {1} /\ work'[1] = Visit(RootKey) /\ work'[1].kind = "visit" /\ work'[1].key = RootKey
    BY <2>1 DEF Visit
  <2>6. Memoised(work', memo', DOMAIN results')
    BY <2>1, <2>2, <2>4, <2>5 DEF Memoised, Waiting
  <2>7. Cardinality(memo') <= MemoLimit
    BY <2>1, <2>2, FS_EmptySet, FilterAssumption
  <2>8. /\ RootKey' = RootKey
        /\ \A k : TerminalResult(k)' = TerminalResult(k) /\ Needs(k)' = Needs(k)
        /\ Subproblems' = Subproblems
        /\ \A i \in 0 .. N : Reached'[i] = Reached[i]
    BY <2>1, NeedsKept
  <2>9. Memoised(work, memo, DOMAIN results)'
    <3>1. Level(RootKey.root) \in 0 .. N
      BY <2>3, LevelBound
    <3>2. RootKey \in Reached'[Level(RootKey.root)]
      BY <2>4, <2>8, <3>1
    <3> QED
      BY <2>1, <2>2, <2>5, <2>8, <3>2 DEF Memoised, Waiting
  <2>10. outcome'.kind = "none"
    BY <2>1 DEF IInv, Progress, Failed
  <2> QED
    BY <2>1, <2>7, <2>9, <2>10 DEF MemoInv, MemoLimitExact
<1>3. CASE VisitKnown
  <2>1. /\ pc = "work" /\ pc' = "work" /\ work # << >> /\ Head(work).kind = "visit"
        /\ Current \in memo \union DOMAIN results
        /\ work' = Tail(work) /\ UNCHANGED <<source, request, memo, results, outcome>>
    BY <1>3 DEF VisitKnown, Doing, Known
  <2>2. Memoised(work, memo, DOMAIN results) /\ Cardinality(memo) <= MemoLimit
    BY <2>1 DEF MemoInv
  <2>3. Settled(memo, Head(work).key)
    BY <2>1, <2>2 DEF Memoised, Settled, Current
  <2>4. memo \subseteq Subproblems
    BY <2>2 DEF Memoised
  <2>5. Memoised(Tail(work), memo, DOMAIN results)
    BY <1>0, <2>1, <2>2, <2>3, <2>4, PopMemoised
  <2> QED
    BY <2>1, <2>2, <2>5, MemoStep
<1>4. CASE VisitTerminal
  <2>1. /\ pc = "work" /\ pc' = "work" /\ work # << >>
        /\ TerminalResult(Current) # {}
        /\ work' = Tail(work) /\ DOMAIN results' = DOMAIN results \union {Current}
        /\ UNCHANGED <<source, request, memo, outcome>>
    BY <1>4 DEF VisitTerminal, Doing, Record, Put
  <2>2. Memoised(work, memo, DOMAIN results) /\ Cardinality(memo) <= MemoLimit
    BY <2>1 DEF MemoInv
  <2>3. Settled(memo, Head(work).key)
    BY <2>1 DEF Settled, Current
  <2>4. memo \subseteq Subproblems
    BY <2>2 DEF Memoised
  <2>5. Memoised(Tail(work), memo, DOMAIN results')
    BY <1>0, <2>1, <2>2, <2>3, <2>4, PopMemoised DEF Current
  <2> QED
    BY <2>1, <2>2, <2>5, MemoStep
<1>5. CASE OverMemoLimit
  <2>1. Undecided /\ Cardinality(memo) = MemoLimit /\ Return(Failed("memo_limit"))
    BY <1>5 DEF OverMemoLimit
  <2>2. Cardinality(Subproblems) > MemoLimit
    BY <2>1, UndecidedCounts, OneTooMany
  <2>3. Failed("memo_limit").kind = "memo_limit"
    BY DEF Failed
  <2> QED
    BY <2>1, <2>2, <2>3, MemoReturn
<1>6. CASE VisitDecided
  <2>1. /\ Undecided /\ Cardinality(memo) # MemoLimit /\ Decided(Current) # {}
        /\ memo' = memo \union {Current} /\ pc' = pc
        /\ work' = Tail(work) /\ DOMAIN results' = DOMAIN results \union {Current}
        /\ UNCHANGED <<source, request, outcome>>
    BY <1>6 DEF VisitDecided, Record, Put
  <2>2. /\ pc = "work" /\ work # << >> /\ Memoised(work, memo, DOMAIN results)
        /\ Current \in Subproblems /\ Current \notin memo /\ memo \subseteq Subproblems /\ IsFiniteSet(memo)
    BY <2>1, UndecidedCounts
  <2>3. Cardinality(memo) <= MemoLimit
    BY <2>2 DEF MemoInv
  <2>4. Cardinality(memo') <= MemoLimit
    BY <2>1, <2>2, <2>3, OneMoreFits
  <2>5. Needs(Current) = {}
    BY <2>1 DEF Needs
  <2>6. memo' \subseteq Subproblems /\ Settled(memo', Head(work).key)
    BY <2>1, <2>2 DEF Settled, Current
  <2>7. Memoised(Tail(work), memo', DOMAIN results')
    <3>1. /\ memo \subseteq memo' /\ memo' \subseteq memo \union {Head(work).key}
          /\ DOMAIN results' \subseteq DOMAIN results \union {Head(work).key}
          /\ \A k \in memo' \ memo : Needs(k) = {}
      BY <2>1, <2>5 DEF Current
    <3> QED
      BY <1>0, <2>2, <2>6, <3>1, PopMemoised
  <2> QED
    BY <2>1, <2>2, <2>4, <2>7, MemoStep
<1>7. CASE VisitExpand
  <2>1. /\ Undecided /\ Cardinality(memo) # MemoLimit /\ Decided(Current) = {}
        /\ memo' = memo \union {Current} /\ pc' = pc
        /\ work' = Expand(Current) \o Tail(work)
        /\ UNCHANGED <<source, request, results, outcome>>
    BY <1>7 DEF VisitExpand
  <2>2. /\ pc = "work" /\ work # << >> /\ Memoised(work, memo, DOMAIN results)
        /\ Current \in Key /\ Head(work) = Visit(Current) /\ TerminalResult(Current) = {}
        /\ Current \notin memo /\ IsFiniteSet(memo)
    BY <2>1, UndecidedCounts
  <2>3. Cardinality(memo) <= MemoLimit
    BY <2>2 DEF MemoInv
  <2>4. Cardinality(memo') <= MemoLimit
    BY <2>1, <2>2, <2>3, OneMoreFits
  <2>5. Memoised(Expand(Current) \o Tail(work), memo \union {Current}, DOMAIN results)
    BY <1>0, <2>1, <2>2, ExpandMemoised
  <2>6. Memoised(work', memo', DOMAIN results')
    BY <2>1, <2>5
  <2> QED
    BY <2>1, <2>2, <2>4, <2>6, MemoStep
<1>8. CASE MakeNode \/ FollowAlias
  <2>1. /\ pc = "work" /\ pc' = "work" /\ work # << >> /\ Head(work).kind # "visit"
        /\ work' = Tail(work) /\ DOMAIN results' = DOMAIN results \union {Current}
        /\ UNCHANGED <<source, request, memo, outcome>>
    BY <1>8 DEF MakeNode, FollowAlias, Combining, Doing, Record, Put
  <2>2. Memoised(work, memo, DOMAIN results) /\ Cardinality(memo) <= MemoLimit
    BY <2>1 DEF MemoInv
  <2>3. PICK j \in DOMAIN work : Head(work) = work[j]
    BY <1>0, <2>1, PopItems
  <2>4. Settled(memo, Head(work).key) /\ memo \subseteq Subproblems
    BY <2>1, <2>2, <2>3 DEF Memoised, Settled
  <2>5. Memoised(Tail(work), memo, DOMAIN results')
    BY <1>0, <2>1, <2>2, <2>4, PopMemoised DEF Current
  <2> QED
    BY <2>1, <2>2, <2>5, MemoStep
<1>9. CASE OverNodeLimit
  <2>1. Return(Failed("node_limit")) /\ Failed("node_limit").kind = "node_limit"
    BY <1>9 DEF OverNodeLimit, Failed
  <2> QED
    BY <2>1, MemoReturn
<1>10. CASE Finish
  <2>1. pc = "work" /\ work = << >> /\ Return(Ok(results[RootKey])) /\ AnsweredAtOnce(request) = {}
    BY <1>10 DEF Finish, IInv, Progress
  <2>2. Memoised(<< >>, memo, DOMAIN results) /\ Cardinality(memo) <= MemoLimit
    BY <2>1 DEF MemoInv
  <2>3. RootKey \in Key
    BY <1>0, <2>1, RootExact
  <2>4. Cardinality(Subproblems) <= MemoLimit
    BY <1>0, <2>2, <2>3, FinishedHasAll
  <2>5. Ok(results[RootKey]).kind = "ok"
    BY DEF Ok
  <2> QED
    BY <2>1, <2>4, <2>5, MemoReturn
<1>11. CASE UNCHANGED vars
  <2>1. UNCHANGED <<source, request>> /\ UNCHANGED <<pc, memo, results, work, outcome>>
    BY <1>11 DEF vars
  <2>2. /\ RootKey' = RootKey
        /\ Subproblems' = Subproblems
        /\ AnsweredAtOnce(request)' = AnsweredAtOnce(request)
    BY <2>1, NeedsKept, CallKept
  <2>3. MemoLimitExact'
    BY <2>1, <2>2 DEF MemoInv, MemoLimitExact
  <2>4. CASE pc = "work"
    <3>1. outcome = Failed("none")
      BY <2>4 DEF IInv, Progress
    <3>2. Memoised(work', memo', DOMAIN results') /\ Cardinality(memo') <= MemoLimit
      BY <2>1, <2>4 DEF MemoInv
    <3> QED
      BY <2>1, <2>4, <3>2, MemoStep
  <2>5. CASE pc # "work"
    BY <2>1, <2>3, <2>5 DEF MemoInv
  <2> QED
    BY <2>4, <2>5
<1> QED
  BY <1>1, <1>2, <1>3, <1>4, <1>5, <1>6, <1>7, <1>8, <1>9, <1>10, <1>11 DEF Next

\* The memo limit of a filter is exact in every instance: a call fails with it
\* exactly when it has more distinct open subproblems than the limit.
THEOREM MemoLimitsAreExact == Spec => []MemoLimitExact
<1>1. Init => MemoInv
  BY DEF Init, MemoInv, MemoLimitExact, Empty, Failed
<1>2. IInv /\ IInv' /\ MemoInv /\ [Next]_vars => MemoInv'
  BY StepMemoInv
<1>3. MemoInv => MemoLimitExact
  BY DEF MemoInv
<1> QED
  BY <1>1, <1>2, <1>3, Invariance, PTL DEF Spec
====
