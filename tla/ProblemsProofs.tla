--------------------------- MODULE ProblemsProofs ---------------------------
(***************************************************************************)
(* The three built-in problems, on any graph in any edge order: the runs   *)
(* of the matching, the cycle and the path problem accept exactly the      *)
(* matchings, the cycles and the paths of the graph.  So nothing has to be *)
(* assumed of them in the theorems on the builder.                         *)
(***************************************************************************)
EXTENDS FrontierBuilderProofs, MatchingProblem, CycleProblem, PathProblem

----------------------------------------------------------------------------
(* What the states of the built-in problems keep: an entry per slot.       *)

\* The position of the slot of v in a state.
Place(v) == slots[v] + 1

\* A step names the ends of its edge, their positions, and who enters or leaves.
LEMMA StepAt ==
  ASSUME PlanDone, NEW n \in 1 .. Len(edges)
  PROVE  /\ edges[n] \in Vertex \X Vertex /\ edges[n][1] # edges[n][2]
         /\ Ends(n) = {edges[n][1], edges[n][2]}
         /\ steps[n].endpoints = edges[n]
         /\ Position(steps[n], 1) = Place(edges[n][1]) /\ Position(steps[n], 2) = Place(edges[n][2])
         /\ steps[n].remaining_incident = <<EdgesAfter(edges[n][1], n), EdgesAfter(edges[n][2], n)>>
         /\ \A v : IsListed(v, steps[n].introduced) <=> v \in AtWork(n) \ Boundary(n - 1)
         /\ \A v : IsListed(v, steps[n].forgotten) <=> v \in AtWork(n) \ Boundary(n)
<1>1. edges \in Orders /\ Len(steps) = Len(edges)
  BY StepsOfPlan
<1>2. edges[n] \in Vertex \X Vertex /\ edges[n][1] # edges[n][2]
  BY <1>1, EdgeTyping
<1>3. Describes(steps[n], n)
  BY <1>1, <1>2 DEF PlanDone, DInv, StepsExact
<1>4. /\ steps[n].endpoints = edges[n]
      /\ steps[n].endpoint_slots = <<slots[edges[n][1]], slots[edges[n][2]]>>
      /\ steps[n].remaining_incident = <<EdgesAfter(edges[n][1], n), EdgesAfter(edges[n][2], n)>>
  BY <1>3 DEF Describes
<1>5. Position(steps[n], 1) = Place(edges[n][1]) /\ Position(steps[n], 2) = Place(edges[n][2])
  BY <1>4 DEF Position, Place
<1>6. Ends(n) = {edges[n][1], edges[n][2]}
  BY DEF Ends
<1>7. \A v, q : IsListed(v, q) <=> v \in Elements(q)
  BY DEF IsListed, Elements
<1>8. /\ Elements(steps[n].introduced) = AtWork(n) \ Boundary(n - 1)
      /\ Elements(steps[n].forgotten) = AtWork(n) \ Boundary(n)
  BY StepsOfPlan
<1> QED
  BY <1>2, <1>4, <1>5, <1>6, <1>7, <1>8

\* The vertices at work are those of the frontier before or after and the ends
\* of the edge; each has a place of its own.
LEMMA WorkAt ==
  ASSUME PlanDone, NEW n \in 1 .. Len(edges)
  PROVE  /\ AtWork(n) \subseteq Vertex
         /\ Boundary(n - 1) \union Ends(n) = AtWork(n)
         /\ Boundary(n) \union Ends(n) = AtWork(n)
         /\ \A v \in AtWork(n) : slots[v] \in Nat /\ Place(v) \in 1 .. MaxWorkingWidth
         /\ \A u, v \in AtWork(n) : Place(u) = Place(v) => u = v
         /\ \A v \in Ends(n) \ Boundary(n - 1) : \A j \in Incident(v) : j >= n
         /\ \A v \in Ends(n) \ Boundary(n) : \A j \in Incident(v) : j <= n
         /\ \A v \in Ends(n) : n \in Incident(v)
<1>1. edges \in Orders /\ Len(edges) \in Nat /\ Levels = 1 .. Len(edges)
  BY StepsOfPlan
<1>2. Ends(n) \subseteq Vertex
  BY <1>1, EdgeTyping
<1>3. \A v \in Vertex : v \in Ends(n) <=> n \in Incident(v)
  BY <1>1 DEF Incident, Levels
<1>4. \A v \in Vertex : Incident(v) \subseteq 1 .. Len(edges)
  BY <1>1 DEF Incident, Levels
<1>5. \A v \in Vertex : Needed(v, n) /\ ~Needed(v, n + 1) => \A j \in Incident(v) : j <= n
  BY <1>4 DEF Needed
<1>6. \A v \in Vertex : Needed(v, n) /\ ~Needed(v, n - 1) => \A j \in Incident(v) : j >= n
  BY <1>4 DEF Needed
<1>7. \A v \in Ends(n) : Needed(v, n)
  BY <1>2, <1>3, <1>4 DEF Needed
<1>8. (n - 1) + 1 = n /\ n \in Int
  BY <1>1
<1>9. \A v \in AtWork(n) : v \in Boundary(n) \/ v \in Ends(n)
  <2> SUFFICES ASSUME NEW v \in Vertex, Needed(v, n), ~Needed(v, n + 1) PROVE v \in Ends(n)
    BY DEF Boundary, AtWork
  <2>1. PICK j \in Incident(v) : j >= n
    BY DEF Needed
  <2>2. j <= n /\ j \in 1 .. Len(edges)
    BY <1>4, <1>5
  <2> QED
    BY <1>3, <1>8, <2>1, <2>2
<1>10. \A v \in AtWork(n) : v \in Boundary(n - 1) \/ v \in Ends(n)
  <2> SUFFICES ASSUME NEW v \in Vertex, Needed(v, n), ~Needed(v, n - 1) PROVE v \in Ends(n)
    BY <1>8 DEF Boundary, AtWork
  <2>1. PICK j \in Incident(v) : j <= n
    BY DEF Needed
  <2>2. j >= n /\ j \in 1 .. Len(edges)
    BY <1>4, <1>6
  <2> QED
    BY <1>3, <1>8, <2>1, <2>2
<1>11. Boundary(n) \subseteq AtWork(n) /\ Boundary(n - 1) \subseteq AtWork(n) /\ Ends(n) \subseteq AtWork(n)
  BY <1>2, <1>7, <1>8 DEF Boundary, AtWork
<1>12. \A v \in Ends(n) \ Boundary(n - 1) : \A j \in Incident(v) : j >= n
  BY <1>2, <1>6, <1>7, <1>8 DEF Boundary
<1>13. \A v \in Ends(n) \ Boundary(n) : \A j \in Incident(v) : j <= n
  BY <1>2, <1>5, <1>7 DEF Boundary
<1>14. AtWork(n) \subseteq Vertex
  BY DEF AtWork
<1>15. \A v \in AtWork(n) : slots[v] \in Nat /\ slots[v] < MaxWorkingWidth
  <2> SUFFICES ASSUME NEW v \in AtWork(n) PROVE slots[v] \in Nat /\ slots[v] < MaxWorkingWidth
    OBVIOUS
  <2>1. IInv /\ phase = "done" /\ level = Len(edges) + 1
    BY DEF PlanDone
  <2>2. first \in [Vertex -> Slot] /\ last \in [Vertex -> Slot] /\ v \in Vertex
    BY <1>14, <2>1 DEF IInv, Types
  <2>3. v \in Entered(n)
    <3>1. {u \in Vertex : Needed(u, n)} = {u \in Entered(n) : last[u] >= n}
      BY <1>1, <2>1, BoundaryStays
    <3> QED
      BY <3>1 DEF AtWork
  <2>4. Planned = Len(edges)
    BY <1>1, <2>1 DEF Planned
  <2>5. v \in Entered(Planned)
    BY <1>1, <2>2, <2>3, <2>4 DEF Entered, Slot, None
  <2>6. /\ slots \in [Vertex -> Slot] /\ slots[v] # None /\ slots[v] < next_slot /\ next_slot \in Nat
    BY <2>1, <2>2, <2>5 DEF IInv, SoundAllocator, Allocator
  <2>7. next_slot <= MaxWorkingWidth /\ MaxWorkingWidth \in Nat
    BY <2>1, SlotsFit
  <2>8. slots[v] \in Nat
    BY <2>2, <2>6 DEF Slot
  <2> QED
    BY <2>6, <2>7, <2>8
<1>16. \A u, v \in AtWork(n) : slots[u] = slots[v] => u = v
  <2>1. \A v \in AtWork(n) : slots[v] # None
    BY <1>15 DEF None
  <2> QED
    BY <2>1, WorkingApart
<1>17. MaxWorkingWidth \in Nat
  BY SlotsFit DEF PlanDone
<1>18. \A v \in AtWork(n) : Place(v) \in 1 .. MaxWorkingWidth
  BY <1>15, <1>17 DEF Place
<1>19. \A u, v \in AtWork(n) : Place(u) = Place(v) => u = v
  BY <1>15, <1>16 DEF Place
<1>20. Boundary(n - 1) \union Ends(n) = AtWork(n) /\ Boundary(n) \union Ends(n) = AtWork(n)
  BY <1>9, <1>10, <1>11
<1>21. \A v \in Ends(n) : n \in Incident(v)
  BY <1>2, <1>3
<1> QED
  BY <1>12, <1>13, <1>14, <1>15, <1>18, <1>19, <1>20, <1>21

\* The frontier is empty before the first and after the last edge.
LEMMA OuterBoundaries ==
  ASSUME PlanDone
  PROVE  Boundary(0) = {} /\ Boundary(Len(edges)) = {}
<1>1. Len(edges) \in Nat /\ DOMAIN edges = 1 .. Len(edges)
  BY StepsOfPlan DEF Levels
<1> QED
  BY <1>1 DEF Boundary, Needed, Incident

\* The sequence q of entries shows what f says of the vertices of W, each at its
\* place, and nothing else.
Shows(q, W, f, d, D) ==
  /\ q \in Seq(D)
  /\ \A v \in W : Place(v) \in 1 .. Len(q) /\ q[Place(v)] = f[v]
  /\ \A p \in 1 .. Len(q) : (\A v \in W : Place(v) # p) => q[p] = d

\* The greatest of three numbers.
LEMMA MaxOfThree ==
  ASSUME NEW a \in Nat, NEW b \in Nat, NEW c \in Nat
  PROVE  /\ Max({a, b} \union {c}) \in {a, b, c}
         /\ a <= Max({a, b} \union {c}) /\ b <= Max({a, b} \union {c}) /\ c <= Max({a, b} \union {c})
<1> DEFINE S == {a, b} \union {c}
<1>1. \E x \in S : \A y \in S : y <= x
  <2>1. CASE a <= b /\ c <= b
    BY <2>1
  <2>2. CASE b <= a /\ c <= a
    BY <2>2
  <2>3. CASE a <= c /\ b <= c
    BY <2>3
  <2> QED
    BY <2>1, <2>2, <2>3
<1>2. PICK x \in S : \A y \in S : y <= x
  BY <1>1
<1>3. Max(S) = x
  BY <1>2, MaxIsGreatest
<1> QED
  BY <1>2, <1>3

\* A bounded set of numbers has a maximum.
LEMMA MaxOfBounded ==
  ASSUME NEW S \in SUBSET Nat, S # {}, NEW n \in Nat, \A s \in S : s <= n
  PROVE  Max(S) \in S /\ \A s \in S : s <= Max(S)
<1>1. MaxOf(S) \in S /\ \A s \in S : s <= MaxOf(S)
  BY GreatestNatural
<1>2. Max(S) = MaxOf(S)
  BY <1>1, MaxIsGreatest
<1> QED
  BY <1>1, <1>2

\* The entries grown for a step show the vertices at work, those that enter with
\* the default; a further reset of the entries that enter changes nothing.
LEMMA GrowShows ==
  ASSUME PlanDone, NEW n \in 1 .. Len(edges), NEW D, NEW d \in D, NEW f, NEW g, NEW q,
         Shows(q, Boundary(n - 1), f, d, D),
         \A v \in Boundary(n - 1) : g[v] = f[v],
         \A v \in Ends(n) \ Boundary(n - 1) : g[v] = d
  PROVE  /\ Shows(Grow(q, steps[n], d), AtWork(n), g, d, D)
         /\ Introduced(q, steps[n], d) = Grow(q, steps[n], d)
<1> DEFINE a == Place(edges[n][1])
           b == Place(edges[n][2])
           m == Max({a, b} \union {Len(q)})
           r == Grow(q, steps[n], d)
<1>1. /\ edges[n][1] \in Ends(n) /\ edges[n][2] \in Ends(n)
      /\ Ends(n) = {edges[n][1], edges[n][2]}
      /\ EndPositions(steps[n]) = {a, b}
      /\ steps[n].endpoints = edges[n]
      /\ Position(steps[n], 1) = a /\ Position(steps[n], 2) = b
      /\ \A v : IsListed(v, steps[n].introduced) <=> v \in AtWork(n) \ Boundary(n - 1)
  BY StepAt DEF EndPositions
<1>2. /\ Boundary(n - 1) \union Ends(n) = AtWork(n)
      /\ \A v \in AtWork(n) : Place(v) \in Nat \ {0}
      /\ \A u, v \in AtWork(n) : Place(u) = Place(v) => u = v
  BY WorkAt
<1>3. /\ q \in Seq(D) /\ Len(q) \in Nat /\ \A p \in 1 .. Len(q) : q[p] \in D
      /\ \A v \in Boundary(n - 1) : Place(v) \in 1 .. Len(q) /\ q[Place(v)] = f[v]
      /\ \A p \in 1 .. Len(q) : (\A v \in Boundary(n - 1) : Place(v) # p) => q[p] = d
  BY DEF Shows
<1>4. a \in Nat \ {0} /\ b \in Nat \ {0}
  BY <1>1, <1>2
<1>5. m \in Nat /\ a <= m /\ b <= m /\ Len(q) <= m /\ m \in {a, b, Len(q)}
  BY <1>3, <1>4, MaxOfThree
<1>6. r = [p \in 1 .. m |-> IF p <= Len(q) THEN q[p] ELSE d]
  BY <1>1 DEF Grow
<1> HIDE DEF m, a, b
<1>7. r \in Seq(D) /\ Len(r) = m
  <2>1. \A p \in 1 .. m : (IF p <= Len(q) THEN q[p] ELSE d) \in D
    BY <1>3, <1>5
  <2> QED
    BY <1>5, <1>6, <2>1
<1>8. \A p \in 1 .. m : r[p] = IF p <= Len(q) THEN q[p] ELSE d
  BY <1>6
<1> HIDE DEF r
<1>9. ASSUME NEW v \in AtWork(n)
      PROVE  Place(v) \in 1 .. m /\ r[Place(v)] = g[v]
  <2>1. CASE v \in Boundary(n - 1)
    BY <1>3, <1>5, <1>8, <2>1
  <2>2. CASE v \notin Boundary(n - 1)
    <3>1. v \in Ends(n) /\ g[v] = d
      BY <1>2, <2>2
    <3>2. Place(v) \in 1 .. m
      BY <1>1, <1>2, <1>4, <1>5, <3>1 DEF a, b
    <3>3. \A u \in Boundary(n - 1) : Place(u) # Place(v)
      BY <1>2, <2>2
    <3> QED
      BY <1>3, <1>8, <3>1, <3>2, <3>3
  <2> QED
    BY <2>1, <2>2
<1>10. \A p \in 1 .. m : (\A v \in AtWork(n) : Place(v) # p) => r[p] = d
  BY <1>2, <1>3, <1>8
<1>11. Shows(r, AtWork(n), g, d, D)
  BY <1>7, <1>9, <1>10 DEF Shows
<1>12. Introduced(q, steps[n], d) = r
  <2> DEFINE In == PositionsOf(steps[n], steps[n].introduced)
  <2>1. \A p \in In : \E v \in AtWork(n) \ Boundary(n - 1) : p = Place(v)
    <3> SUFFICES ASSUME NEW k \in 1 .. 2, IsListed(edges[n][k], steps[n].introduced)
                 PROVE  \E v \in AtWork(n) \ Boundary(n - 1) : Position(steps[n], k) = Place(v)
      BY <1>1 DEF PositionsOf
    <3>1. edges[n][k] \in AtWork(n) \ Boundary(n - 1) /\ Position(steps[n], k) = Place(edges[n][k])
      BY <1>1 DEF a, b
    <3> QED
      BY <3>1
  <2>2. \A v \in AtWork(n) \ Boundary(n - 1) : g[v] = d
    BY <1>2
  <2>3. \A p \in In : p \in 1 .. m /\ r[p] = d
    BY <1>9, <2>1, <2>2
  <2> HIDE DEF In
  <2>4. DOMAIN r = 1 .. m /\ r = [p \in 1 .. m |-> r[p]]
    BY <1>7
  <2>5. Introduced(q, steps[n], d) = [p \in DOMAIN r |-> IF p \in In THEN d ELSE r[p]]
    BY DEF Introduced, In, r
  <2> QED
    BY <2>3, <2>4, <2>5
<1> QED
  BY <1>11, <1>12 DEF r

\* Where the vertices are that leave at level n.
Out(n) == PositionsOf(steps[n], steps[n].forgotten)

\* They are those at work that are not in the frontier behind.
LEMMA OutAt ==
  ASSUME PlanDone, NEW n \in 1 .. Len(edges)
  PROVE  /\ Out(n) = {Place(v) : v \in AtWork(n) \ Boundary(n)}
         /\ AtWork(n) \ Boundary(n) = Ends(n) \ Boundary(n)
         /\ \A v \in AtWork(n) : Place(v) \in Out(n) <=> v \notin Boundary(n)
<1>1. /\ Ends(n) = {edges[n][1], edges[n][2]}
      /\ steps[n].endpoints = edges[n]
      /\ Position(steps[n], 1) = Place(edges[n][1]) /\ Position(steps[n], 2) = Place(edges[n][2])
      /\ \A v : IsListed(v, steps[n].forgotten) <=> v \in AtWork(n) \ Boundary(n)
  BY StepAt
<1>2. /\ Boundary(n) \union Ends(n) = AtWork(n)
      /\ \A u, v \in AtWork(n) : Place(u) = Place(v) => u = v
  BY WorkAt
<1>3. AtWork(n) \ Boundary(n) = Ends(n) \ Boundary(n)
  BY <1>2
<1>4. \A p : p \in Out(n) <=> \E k \in 1 .. 2 : edges[n][k] \in AtWork(n) \ Boundary(n) /\ p = Place(edges[n][k])
  BY <1>1 DEF Out, PositionsOf
<1>5. \A p : p \in Out(n) <=> \E v \in AtWork(n) \ Boundary(n) : p = Place(v)
  <2> SUFFICES ASSUME NEW p
               PROVE  p \in Out(n) <=> \E v \in AtWork(n) \ Boundary(n) : p = Place(v)
    OBVIOUS
  <2>1. ASSUME p \in Out(n) PROVE \E v \in AtWork(n) \ Boundary(n) : p = Place(v)
    BY <1>4, <2>1
  <2>2. ASSUME NEW v \in AtWork(n) \ Boundary(n), p = Place(v) PROVE p \in Out(n)
    <3>1. \E k \in 1 .. 2 : v = edges[n][k]
      BY <1>1, <1>3
    <3> QED
      BY <1>4, <2>2, <3>1
  <2> QED
    BY <2>1, <2>2
<1>6. Out(n) = {Place(v) : v \in AtWork(n) \ Boundary(n)}
  BY <1>5
<1>7. \A v \in AtWork(n) : Place(v) \in Out(n) <=> v \notin Boundary(n)
  BY <1>2, <1>5
<1> QED
  BY <1>3, <1>6, <1>7

\* Entries reset where vertices leave show the frontier behind.
LEMMA ForgetShows ==
  ASSUME PlanDone, NEW n \in 1 .. Len(edges), NEW D, NEW d \in D, NEW f, NEW q,
         Shows(q, AtWork(n), f, d, D)
  PROVE  Shows([p \in DOMAIN q |-> IF p \in Out(n) THEN d ELSE q[p]], Boundary(n), f, d, D)
<1> DEFINE r == [p \in DOMAIN q |-> IF p \in Out(n) THEN d ELSE q[p]]
<1>1. /\ q \in Seq(D) /\ Len(q) \in Nat /\ \A p \in 1 .. Len(q) : q[p] \in D /\ DOMAIN q = 1 .. Len(q)
      /\ \A v \in AtWork(n) : Place(v) \in 1 .. Len(q) /\ q[Place(v)] = f[v]
      /\ \A p \in 1 .. Len(q) : (\A v \in AtWork(n) : Place(v) # p) => q[p] = d
  BY DEF Shows
<1>2. DOMAIN q = 1 .. Len(q)
  BY <1>1
<1>3. r \in Seq(D) /\ Len(r) = Len(q)
  BY <1>1, <1>2
<1>4. \A p \in 1 .. Len(q) : r[p] = IF p \in Out(n) THEN d ELSE q[p]
  BY <1>2
<1> HIDE DEF r
<1>5. Boundary(n) \subseteq AtWork(n)
  BY WorkAt
<1>6. \A v \in Boundary(n) : Place(v) \in 1 .. Len(r) /\ r[Place(v)] = f[v]
  BY <1>1, <1>3, <1>4, <1>5, OutAt
<1>7. ASSUME NEW p \in 1 .. Len(r), \A v \in Boundary(n) : Place(v) # p
      PROVE  r[p] = d
  <2>1. CASE p \in Out(n)
    BY <1>3, <1>4, <2>1
  <2>2. CASE p \notin Out(n)
    <3>1. \A v \in AtWork(n) : Place(v) # p
      BY <1>7, <2>2, OutAt
    <3> QED
      BY <1>1, <1>3, <1>4, <2>2, <3>1
  <2> QED
    BY <2>1, <2>2
<1> QED
  BY <1>3, <1>6, <1>7 DEF Shows, r

\* Truncation to the slots in use cuts off defaults only.
LEMMA TruncateShows ==
  ASSUME PlanDone, NEW n \in 0 .. Len(edges), NEW D, NEW d \in D, NEW f, NEW q,
         Shows(q, Boundary(n), f, d, D)
  PROVE  Shows(Truncate(q, BoundaryView(n)), Boundary(n), f, d, D)
<1> DEFINE w == BoundaryView(n)
           used == {s + 1 : s \in {s \in DOMAIN w : w[s] # NoComponent}} \union {0}
           k == Max(used)
           r == Truncate(q, w)
<1>1. /\ q \in Seq(D) /\ Len(q) \in Nat /\ \A p \in 1 .. Len(q) : q[p] \in D
      /\ \A v \in Boundary(n) : Place(v) \in 1 .. Len(q) /\ q[Place(v)] = f[v]
      /\ \A p \in 1 .. Len(q) : (\A v \in Boundary(n) : Place(v) # p) => q[p] = d
  BY DEF Shows
<1>2. \A v \in Boundary(n) : v \in Vertex /\ slots[v] \in Nat /\ Place(v) \in 1 .. MaxWorkingWidth
  <2>1. CASE n = 0
    BY <2>1, OuterBoundaries
  <2>2. CASE n # 0
    <3>1. n \in 1 .. Len(edges)
      BY <2>2, StepsOfPlan
    <3> QED
      BY <3>1, WorkAt
  <2> QED
    BY <2>1, <2>2
<1>3. MaxWorkingWidth \in Nat
  BY SlotsFit DEF PlanDone
<1>4. \A v \in Boundary(n) : slots[v] + 1 \in 1 .. MaxWorkingWidth
  BY <1>2 DEF Place
<1>5. \A s \in DOMAIN w : w[s] # NoComponent <=> \E v \in Boundary(n) : slots[v] = s
  <2>1. DOMAIN w = 0 .. MaxWorkingWidth - 1
    BY DEF BoundaryView
  <2>2. \A v \in Boundary(n) : v # NoComponent
    BY <1>2, FrontierPlanAssumption DEF Vertex, NoComponent
  <2>3. ASSUME NEW s \in DOMAIN w, \E v \in Boundary(n) : slots[v] = s
        PROVE  w[s] # NoComponent
    <3>1. w[s] = CHOOSE v \in Boundary(n) : slots[v] = s
      BY <2>1, <2>3 DEF BoundaryView
    <3> HIDE DEF w
    <3>2. w[s] \in Boundary(n)
      BY <2>3, <3>1
    <3> QED
      BY <2>2, <3>2
  <2>4. ASSUME NEW s \in DOMAIN w, ~ \E v \in Boundary(n) : slots[v] = s
        PROVE  w[s] = NoComponent
    BY <2>1, <2>4 DEF BoundaryView, None, NoComponent
  <2> QED
    BY <2>3, <2>4
<1>6. DOMAIN w = 0 .. MaxWorkingWidth - 1
  BY DEF BoundaryView
<1> HIDE DEF w
<1>7. \A v \in Boundary(n) : Place(v) \in used
  <2> SUFFICES ASSUME NEW v \in Boundary(n) PROVE Place(v) \in used
    OBVIOUS
  <2>1. slots[v] \in 0 .. MaxWorkingWidth - 1
    BY <1>2, <1>3, <1>4
  <2>2. slots[v] \in {s \in DOMAIN w : w[s] # NoComponent}
    BY <1>5, <1>6, <2>1
  <2>3. Place(v) = slots[v] + 1
    BY DEF Place
  <2> QED
    BY <2>2, <2>3
<1>8. ASSUME NEW u \in used, u # 0
      PROVE  \E v \in Boundary(n) : Place(v) = u
  <2>1. PICK s \in {s \in DOMAIN w : w[s] # NoComponent} : u = s + 1
    BY <1>8
  <2>2. PICK v \in Boundary(n) : slots[v] = s
    BY <1>5, <2>1
  <2> QED
    BY <2>1, <2>2 DEF Place
<1>9. 0 \in used
  OBVIOUS
<1> HIDE DEF used
<1>10. used \in SUBSET Nat /\ \A u \in used : u <= Len(q)
  <2>1. ASSUME NEW u \in used PROVE u \in Nat /\ u <= Len(q)
    <3>1. CASE u = 0
      BY <1>1, <3>1
    <3>2. CASE u # 0
      BY <1>1, <1>8, <3>2
    <3> QED
      BY <3>1, <3>2
  <2> QED
    BY <2>1
<1>11. k \in used /\ \A u \in used : u <= k
  BY <1>1, <1>9, <1>10, MaxOfBounded
<1>12. k \in Nat /\ k <= Len(q)
  BY <1>10, <1>11
<1> HIDE DEF k
<1>13. Min({k, Len(q)}) = k
  <2>1. Min({k, Len(q)}) \in {k, Len(q)} /\ \A y \in {k, Len(q)} : Min({k, Len(q)}) <= y
    BY <1>1, <1>12, MinIsLeast
  <2> QED
    BY <1>12, <2>1
<1>14. r = SubSeq(q, 1, k)
  BY <1>13 DEF Truncate, r, k, used
<1> HIDE DEF r
<1>15. r \in Seq(D) /\ Len(r) = k /\ \A p \in 1 .. k : r[p] = q[p]
  BY <1>1, <1>12, <1>14
<1>16. \A v \in Boundary(n) : Place(v) \in 1 .. k /\ r[Place(v)] = f[v]
  <2> SUFFICES ASSUME NEW v \in Boundary(n) PROVE Place(v) \in 1 .. k /\ r[Place(v)] = f[v]
    OBVIOUS
  <2>1. Place(v) \in 1 .. Len(q) /\ Place(v) <= k /\ q[Place(v)] = f[v]
    BY <1>1, <1>7, <1>11
  <2> QED
    BY <1>1, <1>12, <1>15, <2>1
<1>17. \A p \in 1 .. k : (\A v \in Boundary(n) : Place(v) # p) => r[p] = d
  BY <1>1, <1>12, <1>15
<1> QED
  BY <1>15, <1>16, <1>17 DEF Shows, r, w

\* Entries changed at the places of the vertices at work show what they changed to.
LEMMA ChangeShows ==
  ASSUME NEW n, NEW D, NEW d, NEW f, NEW g, NEW q, NEW r \in Seq(D),
         Shows(q, AtWork(n), f, d, D), Len(r) = Len(q),
         \A v \in AtWork(n) : r[Place(v)] = g[v],
         \A p \in 1 .. Len(q) : (\A v \in AtWork(n) : Place(v) # p) => r[p] = q[p]
  PROVE  Shows(r, AtWork(n), g, d, D)
BY DEF Shows

\* The choices of S for the first n levels.
UpTo(S, n) == {i \in S : i <= n}

\* What a selection says of the vertices at a level.
LEMMA UpToNext ==
  ASSUME PlanDone, NEW n \in 1 .. Len(edges), NEW S \in SUBSET Levels
  PROVE  /\ UpTo(S, n) = IF n \in S THEN UpTo(S, n - 1) \union {n} ELSE UpTo(S, n - 1)
         /\ UpTo(S, n - 1) \subseteq 1 .. n - 1
         /\ n \notin UpTo(S, n - 1)
<1>1. Len(edges) \in Nat /\ Levels = 1 .. Len(edges)
  BY StepsOfPlan
<1>2. \A i \in S : i \in Int /\ 1 <= i
  BY <1>1
<1>3. n \in Int
  BY <1>1
<1>4. UpTo(S, n - 1) \subseteq 1 .. n - 1 /\ n \notin UpTo(S, n - 1)
  BY <1>2, <1>3 DEF UpTo
<1>5. \A i : i \in UpTo(S, n) <=> i \in UpTo(S, n - 1) \/ (i = n /\ n \in S)
  <2>1. \A i \in S : i <= n <=> i <= n - 1 \/ i = n
    BY <1>2, <1>3
  <2> QED
    BY <1>3, <2>1 DEF UpTo
<1> QED
  BY <1>4, <1>5

\* A selection is decided before the first level and after the last.
LEMMA UpToEnds ==
  ASSUME PlanDone, NEW S \in SUBSET Levels
  PROVE  UpTo(S, 0) = {} /\ UpTo(S, Len(edges)) = S
<1>1. Len(edges) \in Nat /\ Levels = 1 .. Len(edges)
  BY StepsOfPlan
<1>2. \A i \in S : i \in Int /\ 1 <= i /\ i <= Len(edges)
  BY <1>1
<1>3. \A i \in S : ~(i <= 0)
  BY <1>2
<1> QED
  BY <1>2, <1>3 DEF UpTo

\* A vertex outside the frontier has no earlier edges when it enters and no
\* later ones when it has left.
LEMMA TouchedAtWork ==
  ASSUME PlanDone, NEW n \in 1 .. Len(edges), NEW S \in SUBSET Levels, NEW v \in Ends(n) \ Boundary(n - 1)
  PROVE  v \notin Touched(edges, UpTo(S, n - 1))
<1>1. Len(edges) \in Nat /\ Levels = 1 .. Len(edges)
  BY StepsOfPlan
<1>2. \A j \in Incident(v) : j >= n
  BY WorkAt
<1>3. \A i \in UpTo(S, n - 1) : i \in DOMAIN edges /\ i < n /\ i \in Int
  BY <1>1 DEF UpTo, Levels
<1> QED
  BY <1>2, <1>3 DEF Touched, EndsOf, Incident, Ends

\* The vertices that leave are the ends without later edges.
LEMMA NoneAfter ==
  ASSUME PlanDone, NEW n \in 1 .. Len(edges), NEW v \in Ends(n)
  PROVE  EdgesAfter(v, n) = 0 <=> v \notin Boundary(n)
<1>1. edges \in Orders /\ Len(edges) \in Nat /\ DOMAIN edges = 1 .. Len(edges)
  BY StepsOfPlan DEF Levels
<1>2. v \in Vertex /\ n \in Incident(v)
  BY WorkAt
<1> DEFINE later == {j \in Incident(v) : j > n}
<1>3. IsFiniteSet(later) /\ EdgesAfter(v, n) = Cardinality(later)
  BY <1>1, <1>2, IncidentFinite DEF EdgesAfter
<1>4. EdgesAfter(v, n) = 0 <=> later = {}
  BY <1>3, FS_EmptySet
<1>5. Incident(v) \subseteq 1 .. Len(edges)
  BY <1>1 DEF Incident
<1>6. v \in Boundary(n) <=> Needed(v, n + 1)
  BY <1>2, <1>5 DEF Boundary, Needed
<1>7. Needed(v, n + 1) <=> later # {}
  BY <1>2, <1>5 DEF Needed
<1> QED
  BY <1>4, <1>6, <1>7

----------------------------------------------------------------------------
(* Matchings.                                                              *)

\* The builder is used with the matching problem.
SolvesMatchings ==
  /\ \A p \in Problems : \A order \in Orders :
       /\ InitialState(p, V, order) = MatchInitial(p, V, order)
       /\ ~Refuses(p, V, order)
       /\ \A S : Accepts(p, order, S) <=> MatchAccepts(p, order, S)
  /\ \A p \in Problems : \A state, step, choice :
       /\ Transition(p, state, step, choice) = MatchTransition(p, state, step, choice)
       /\ ~TransitionFails(p, state, step, choice)
  /\ \A state, w : Canonicalize(state, w) = MatchCanonicalize(state, w)
  /\ \A state : Finalize(state) = MatchFinalize(state) /\ ~FinalizeFails(state)

\* Whether a vertex is matched by the first n choices of S.
Matched(S, n) == [v \in Vertex |-> IF v \in Touched(edges, UpTo(S, n)) THEN TRUE ELSE FALSE]

\* The state s tells what the first n choices of S have matched.
TellsMatched(s, S, n) == Shows(s, Boundary(n), Matched(S, n), FALSE, BOOLEAN)

\* An edge can be added to a matching that does not touch its ends.
LEMMA MatchingGrows ==
  ASSUME PlanDone, NEW n \in 1 .. Len(edges), NEW S \in SUBSET Levels
  PROVE  /\ IsMatching(edges, UpTo(S, n)) <=>
              /\ IsMatching(edges, UpTo(S, n - 1))
              /\ n \in S => Ends(n) \intersect Touched(edges, UpTo(S, n - 1)) = {}
         /\ Touched(edges, UpTo(S, n)) =
              Touched(edges, UpTo(S, n - 1)) \union (IF n \in S THEN Ends(n) ELSE {})
<1> DEFINE T == UpTo(S, n - 1)
<1>1. UpTo(S, n) = (IF n \in S THEN T \union {n} ELSE T) /\ n \notin T
  BY UpToNext
<1>2. \A i : EndsOf(edges, i) = Ends(i)
  BY DEF EndsOf, Ends
<1> HIDE DEF T
<1>3. CASE n \in S
  <2>1. UpTo(S, n) = T \union {n}
    BY <1>1, <1>3
  <2>2. Touched(edges, T \union {n}) = Touched(edges, T) \union Ends(n)
    BY <1>2 DEF Touched
  <2>3. IsMatching(edges, T \union {n}) <=>
          IsMatching(edges, T) /\ \A i \in T : Ends(n) \intersect Ends(i) = {}
    BY <1>1, <1>2 DEF IsMatching
  <2>4. (\A i \in T : Ends(n) \intersect Ends(i) = {}) <=> Ends(n) \intersect Touched(edges, T) = {}
    BY <1>2 DEF Touched
  <2> QED
    BY <1>3, <2>1, <2>2, <2>3, <2>4 DEF T
<1>4. CASE n \notin S
  BY <1>1, <1>4 DEF T
<1> QED
  BY <1>3, <1>4

\* A choice that keeps the matching leads to the state that tells so; the other
\* one is rejected.
LEMMA MatchStep ==
  ASSUME PlanDone, NEW n \in 1 .. Len(edges), NEW S \in SUBSET Levels, NEW s, NEW p,
         TellsMatched(s, S, n - 1)
  PROVE  LET next == MatchTransition(p, s, steps[n], ChoiceAt(S, n))
         IN IF n \in S /\ Ends(n) \intersect Touched(edges, UpTo(S, n - 1)) # {}
            THEN next = {}
            ELSE \E r : next = {r} /\ TellsMatched(Truncate(r, BoundaryView(n)), S, n)
<1> DEFINE before == Matched(S, n - 1)
           after == Matched(S, n)
           grown == Grow(s, steps[n], FALSE)
           ends == EndPositions(steps[n])
           choice == ChoiceAt(S, n)
           taken == [x \in DOMAIN grown |-> grown[x] \/ (choice = "include" /\ x \in ends)]
           gone == {Position(steps[n], k) : k \in {j \in 1 .. 2 : steps[n].remaining_incident[j] = 0}}
           r == [x \in DOMAIN grown |-> taken[x] /\ x \notin gone]
           a == edges[n][1]
           b == edges[n][2]
<1>1. /\ Ends(n) = {a, b} /\ a # b
      /\ ends = {Place(a), Place(b)}
      /\ Position(steps[n], 1) = Place(a) /\ Position(steps[n], 2) = Place(b)
      /\ steps[n].remaining_incident = <<EdgesAfter(a, n), EdgesAfter(b, n)>>
  BY StepAt DEF EndPositions
<1>2. /\ AtWork(n) \subseteq Vertex
      /\ Boundary(n - 1) \union Ends(n) = AtWork(n)
      /\ Boundary(n) \union Ends(n) = AtWork(n)
      /\ \A u, v \in AtWork(n) : Place(u) = Place(v) => u = v
  BY WorkAt
<1>3. choice = "include" <=> n \in S
  BY DEF ChoiceAt
<1>4. MatchTransition(p, s, steps[n], choice) =
        IF choice = "include" /\ \E x \in ends : grown[x] THEN {} ELSE {r}
  BY DEF MatchTransition
<1>5. gone = Out(n)
  <2>1. \A x : x \in gone <=> \E v \in {a, b} : x = Place(v) /\ EdgesAfter(v, n) = 0
    <3>1. \A x : x \in gone <=> \E k \in 1 .. 2 : steps[n].remaining_incident[k] = 0 /\ x = Position(steps[n], k)
      OBVIOUS
    <3>2. \A k \in 1 .. 2 : k = 1 \/ k = 2
      OBVIOUS
    <3>3. \A x : x \in gone <=> \/ EdgesAfter(a, n) = 0 /\ x = Place(a)
                                \/ EdgesAfter(b, n) = 0 /\ x = Place(b)
      BY <1>1, <3>1, <3>2
    <3> QED
      BY <3>3
  <2>2. \A x : x \in gone <=> \E v \in Ends(n) \ Boundary(n) : x = Place(v)
    BY <1>1, <2>1, NoneAfter
  <2>3. Out(n) = {Place(v) : v \in Ends(n) \ Boundary(n)}
    BY OutAt
  <2> HIDE DEF gone
  <2> QED
    BY <2>2, <2>3
<1> HIDE DEF gone
<1>6. Shows(grown, AtWork(n), before, FALSE, BOOLEAN)
  <2>1. \A v \in Ends(n) \ Boundary(n - 1) : before[v] = FALSE
    <3> SUFFICES ASSUME NEW v \in Ends(n) \ Boundary(n - 1) PROVE before[v] = FALSE
      OBVIOUS
    <3>1. v \in Vertex /\ before[v] = IF v \in Touched(edges, UpTo(S, n - 1)) THEN TRUE ELSE FALSE
      BY <1>2 DEF Matched
    <3>2. ~(v \in Touched(edges, UpTo(S, n - 1)))
      BY TouchedAtWork
    <3> HIDE DEF before
    <3> QED
      BY <3>1, <3>2
  <2>2. FALSE \in BOOLEAN
    OBVIOUS
  <2> HIDE DEF before, grown
  <2>3. Shows(s, Boundary(n - 1), before, FALSE, BOOLEAN)
    BY DEF TellsMatched, before
  <2> QED
    BY <2>1, <2>2, <2>3, GrowShows DEF grown
<1>7. \A v \in AtWork(n) :
        /\ Place(v) \in 1 .. Len(grown)
        /\ grown[Place(v)] = IF v \in Touched(edges, UpTo(S, n - 1)) THEN TRUE ELSE FALSE
  BY <1>2, <1>6 DEF Shows, Matched
<1>8. grown \in Seq(BOOLEAN)
  BY <1>6 DEF Shows
<1> HIDE DEF grown
<1>9. (\E x \in ends : grown[x]) <=> Ends(n) \intersect Touched(edges, UpTo(S, n - 1)) # {}
  BY <1>1, <1>2, <1>7
<1>10. Shows(taken, AtWork(n), after, FALSE, BOOLEAN)
  <2>1. DOMAIN grown = 1 .. Len(grown) /\ Len(grown) \in Nat
    BY <1>8
  <2>2. \A x \in 1 .. Len(grown) : taken[x] = (grown[x] \/ (choice = "include" /\ x \in ends))
    BY <2>1
  <2>3. taken \in Seq(BOOLEAN) /\ Len(taken) = Len(grown)
    BY <2>1
  <2>4. \A x \in 1 .. Len(grown) : (\A v \in AtWork(n) : Place(v) # x) => taken[x] = grown[x]
    <3> SUFFICES ASSUME NEW x \in 1 .. Len(grown), \A v \in AtWork(n) : Place(v) # x PROVE taken[x] = grown[x]
      OBVIOUS
    <3>1. x \notin ends
      BY <1>1, <1>2
    <3>2. grown[x] \in BOOLEAN
      BY <1>8
    <3> QED
      BY <2>2, <3>1, <3>2
  <2>5. \A v \in AtWork(n) : taken[Place(v)] = after[v]
    <3> SUFFICES ASSUME NEW v \in AtWork(n) PROVE taken[Place(v)] = after[v]
      OBVIOUS
    <3>1. Place(v) \in ends <=> v \in Ends(n)
      BY <1>1, <1>2
    <3>2. after[v] = IF v \in Touched(edges, UpTo(S, n - 1)) \/ (n \in S /\ v \in Ends(n)) THEN TRUE ELSE FALSE
      <4>1. v \in Vertex
        BY <1>2
      <4>2. v \in Touched(edges, UpTo(S, n)) <=>
              v \in Touched(edges, UpTo(S, n - 1)) \/ (n \in S /\ v \in Ends(n))
        BY MatchingGrows
      <4> QED
        BY <4>1, <4>2 DEF Matched
    <3>3. Place(v) \in 1 .. Len(grown) /\ grown[Place(v)] = IF v \in Touched(edges, UpTo(S, n - 1)) THEN TRUE ELSE FALSE
      BY <1>7
    <3>4. taken[Place(v)] = (grown[Place(v)] \/ (choice = "include" /\ Place(v) \in ends))
      BY <2>2, <3>3
    <3> HIDE DEF taken, after, choice, ends
    <3> QED
      <4>1. CASE v \in Touched(edges, UpTo(S, n - 1))
        BY <3>2, <3>3, <3>4, <4>1
      <4>2. CASE v \notin Touched(edges, UpTo(S, n - 1)) /\ n \in S /\ v \in Ends(n)
        BY <1>3, <3>1, <3>2, <3>3, <3>4, <4>2
      <4>3. CASE v \notin Touched(edges, UpTo(S, n - 1)) /\ ~(n \in S /\ v \in Ends(n))
        BY <1>3, <3>1, <3>2, <3>3, <3>4, <4>3
      <4> QED
        BY <4>1, <4>2, <4>3
  <2> HIDE DEF taken, after
  <2> QED
    BY <1>6, <2>3, <2>4, <2>5 DEF Shows
<1>11. r = [x \in DOMAIN taken |-> IF x \in Out(n) THEN FALSE ELSE taken[x]]
  <2>1. taken \in Seq(BOOLEAN) /\ DOMAIN taken = DOMAIN grown
    BY <1>10 DEF Shows
  <2>2. \A x \in DOMAIN taken : taken[x] \in BOOLEAN
    BY <2>1
  <2> HIDE DEF taken
  <2>3. \A x \in DOMAIN taken : (taken[x] /\ x \notin gone) = IF x \in Out(n) THEN FALSE ELSE taken[x]
    BY <1>5, <2>2
  <2>4. r = [x \in DOMAIN taken |-> taken[x] /\ x \notin gone]
    BY <2>1
  <2> QED
    BY <2>3, <2>4
<1>12. Shows(r, Boundary(n), after, FALSE, BOOLEAN)
  <2>1. FALSE \in BOOLEAN
    OBVIOUS
  <2> HIDE DEF taken, after, r
  <2> QED
    BY <1>10, <1>11, <2>1, ForgetShows
<1>13. TellsMatched(Truncate(r, BoundaryView(n)), S, n)
  <2>1. FALSE \in BOOLEAN /\ n \in 0 .. Len(edges)
    OBVIOUS
  <2> HIDE DEF r, after
  <2>2. Shows(Truncate(r, BoundaryView(n)), Boundary(n), after, FALSE, BOOLEAN)
    BY <1>12, <2>1, TruncateShows
  <2> QED
    BY <2>2 DEF TellsMatched, after
<1> HIDE DEF r, ends, choice
<1> QED
  BY <1>3, <1>4, <1>9, <1>13 DEF choice

\* After n levels the run of S is rejected, or in the state that tells what is matched.
MatchTold(S, n) ==
  IF IsMatching(edges, UpTo(S, n))
  THEN \E s : Run(S)[n] = {s} /\ TellsMatched(s, S, n)
  ELSE Run(S)[n] = {}

\* The canonical form of one state.
LEMMA CanonicalOfOne ==
  ASSUME NEW s, NEW w
  PROVE  Canonical({s}, w) = {Canonicalize(s, w)} /\ Canonical({}, w) = {}
<1>1. (CHOOSE state \in {s} : TRUE) = s
  OBVIOUS
<1>2. {s} # {}
  OBVIOUS
<1> QED
  BY <1>1, <1>2 DEF Canonical

\* The run of a selection is rejected at the first edge that touches another.
LEMMA MatchingRuns ==
  ASSUME PlanDone, SolvesMatchings, problem \in Problems, NEW S \in SUBSET Levels
  PROVE  \A n \in 0 .. Len(edges) : MatchTold(S, n)
<1>1. Len(edges) \in Nat /\ Levels = 1 .. Len(edges) /\ edges \in Orders
  BY StepsOfPlan
<1>2. /\ Run(S)[0] = FirstState
      /\ \A n \in 1 .. Len(edges) : Run(S)[n] = Follow(Run(S)[n - 1], n, ChoiceAt(S, n))
  BY <1>1, RunUnfolds DEF RunNext
<1>3. MatchTold(S, 0)
  <2>1. UpTo(S, 0) = {}
    BY UpToEnds
  <2>2. IsMatching(edges, {})
    BY DEF IsMatching
  <2>3. InitialState(problem, V, edges) = {<< >>}
    BY <1>1 DEF SolvesMatchings, MatchInitial
  <2>4. FirstState = {Truncate(<< >>, BoundaryView(0))}
    BY <2>3, CanonicalOfOne, FirstView DEF FirstState, SolvesMatchings, MatchCanonicalize
  <2>5. Shows(<< >>, Boundary(0), Matched(S, 0), FALSE, BOOLEAN)
    BY OuterBoundaries DEF Shows
  <2>6. 0 \in 0 .. Len(edges) /\ FALSE \in BOOLEAN
    BY <1>1
  <2>7. TellsMatched(Truncate(<< >>, BoundaryView(0)), S, 0)
    BY <2>5, <2>6, TruncateShows DEF TellsMatched
  <2> QED
    BY <1>2, <2>1, <2>2, <2>4, <2>7 DEF MatchTold
<1>4. ASSUME NEW n \in Nat, n < Len(edges), MatchTold(S, n)
      PROVE  MatchTold(S, n + 1)
  <2>1. n + 1 \in 1 .. Len(edges) /\ (n + 1) - 1 = n
    BY <1>1, <1>4
  <2>2. PICK m : m = n + 1
    OBVIOUS
  <2>3. m \in 1 .. Len(edges) /\ m - 1 = n
    BY <2>1, <2>2
  <2>4. IsMatching(edges, UpTo(S, m)) <=>
          /\ IsMatching(edges, UpTo(S, m - 1))
          /\ m \in S => Ends(m) \intersect Touched(edges, UpTo(S, m - 1)) = {}
    BY <2>3, MatchingGrows
  <2>5. Run(S)[m] = Follow(Run(S)[m - 1], m, ChoiceAt(S, m))
    BY <1>2, <2>3
  <2>6. CASE ~IsMatching(edges, UpTo(S, m - 1))
    <3>1. Run(S)[m - 1] = {}
      BY <1>4, <2>3, <2>6 DEF MatchTold
    <3>2. Run(S)[m] = {}
      BY <2>5, <3>1, FollowOption
    <3> QED
      BY <2>2, <2>4, <2>6, <3>2 DEF MatchTold
  <2>7. CASE IsMatching(edges, UpTo(S, m - 1))
    <3>1. PICK s : Run(S)[m - 1] = {s} /\ TellsMatched(s, S, m - 1)
      BY <1>4, <2>3, <2>7 DEF MatchTold
    <3>2. PICK next : next = MatchTransition(problem, s, steps[m], ChoiceAt(S, m))
      OBVIOUS
    <3>3. Run(S)[m] = Canonical(next, BoundaryView(m))
      <4>1. Transition(problem, s, steps[m], ChoiceAt(S, m)) = next
        BY <3>2 DEF SolvesMatchings
      <4> QED
        BY <2>5, <3>1, <4>1, FollowOption
    <3>4. IF m \in S /\ Ends(m) \intersect Touched(edges, UpTo(S, m - 1)) # {}
          THEN next = {}
          ELSE \E r : next = {r} /\ TellsMatched(Truncate(r, BoundaryView(m)), S, m)
      BY <2>3, <3>1, <3>2, MatchStep
    <3>5. CASE m \in S /\ Ends(m) \intersect Touched(edges, UpTo(S, m - 1)) # {}
      BY <2>2, <2>4, <3>3, <3>4, <3>5, CanonicalOfOne DEF MatchTold
    <3>6. CASE ~(m \in S /\ Ends(m) \intersect Touched(edges, UpTo(S, m - 1)) # {})
      <4>1. PICK r : next = {r} /\ TellsMatched(Truncate(r, BoundaryView(m)), S, m)
        BY <3>4, <3>6
      <4>2. Run(S)[m] = {Truncate(r, BoundaryView(m))}
        BY <3>3, <4>1, CanonicalOfOne DEF SolvesMatchings, MatchCanonicalize
      <4>3. IsMatching(edges, UpTo(S, m))
        BY <2>4, <2>7, <3>6
      <4> QED
        BY <2>2, <4>1, <4>2, <4>3 DEF MatchTold
    <3> QED
      BY <3>5, <3>6
  <2> QED
    BY <2>6, <2>7
<1> DEFINE Good == {n \in 0 .. Len(edges) : MatchTold(S, n)}
<1>5. 0 \in Good
  BY <1>1, <1>3
<1>6. ASSUME NEW n \in Nat, n < Len(edges), n \in Good
      PROVE  n + 1 \in Good
  BY <1>1, <1>4, <1>6
<1>7. 0 .. Len(edges) \subseteq Good
  <2> HIDE DEF Good
  <2> QED
    BY <1>1, <1>5, <1>6, SetInduction
<1> QED
  BY <1>7

\* On every plan the matching problem accepts exactly the matchings of the graph.
LEMMA MatchingsDecided ==
  ASSUME PlanDone, SolvesMatchings, problem \in Problems
  PROVE  Decides
<1>1. Len(edges) \in Nat /\ Levels = 1 .. Len(edges) /\ edges \in Orders
  BY StepsOfPlan
<1>2. ~Refuses(problem, V, edges) /\ FirstState # {}
  <2>1. InitialState(problem, V, edges) = {<< >>}
    BY <1>1 DEF SolvesMatchings, MatchInitial
  <2>2. FirstState # {}
    <3>1. FirstState = {Canonicalize(<< >>, EmptyView)}
      BY <2>1, CanonicalOfOne DEF FirstState
    <3> QED
      BY <3>1
  <2> QED
    BY <1>1, <2>2 DEF SolvesMatchings
<1>3. \A S : ~RunFails(S)
  BY DEF RunFails, SolvesMatchings
<1>4. ASSUME NEW S \in SUBSET Levels
      PROVE  RunAccepts(S) <=> Accepts(problem, edges, S)
  <2>1. Len(edges) \in 0 .. Len(edges) /\ UpTo(S, Len(edges)) = S
    BY <1>1, UpToEnds
  <2>2. MatchTold(S, Len(edges))
    BY <2>1, MatchingRuns
  <2>3. Run(S)[Len(edges)] # {} <=> IsMatching(edges, S)
    BY <2>1, <2>2 DEF MatchTold
  <2>4. RunAccepts(S) <=> Run(S)[Len(edges)] # {}
    BY DEF RunAccepts, SolvesMatchings, MatchFinalize
  <2> QED
    BY <1>1, <2>3, <2>4 DEF SolvesMatchings, MatchAccepts
<1> QED
  BY <1>2, <1>3, <1>4 DEF Decides

\* The matching problem decides matchings, on every graph in every edge order.
THEOREM MatchingsKeepTheContract == SolvesMatchings /\ Spec => []RunsDecide
<1>1. SolvesMatchings /\ BuildInv /\ Configured => RunsDecide
  <2> SUFFICES ASSUME SolvesMatchings, BuildInv, Configured, ToStart PROVE Decides
    BY DEF RunsDecide
  <2>1. PlanDone
    BY DEF BuildInv, PlanSound, ToStart, PlanDone
  <2> QED
    BY <2>1, MatchingsDecided DEF Configured
<1>2. SolvesMatchings => []SolvesMatchings
  OBVIOUS
<1> QED
  BY <1>1, <1>2, Invariance, ConfiguredAlways, PTL

----------------------------------------------------------------------------
(* Degrees and connection.                                                 *)

Degree(T, v) == DegreeIn(edges, T, v)

\* The edges of T at v.
EdgesAt(T, v) == {i \in T : v \in Ends(i)}

\* The degree of a vertex is the number of its edges.
LEMMA DegreeIsCount ==
  ASSUME edges \in Orders, NEW T \in SUBSET Levels, NEW v
  PROVE  IsFiniteSet(EdgesAt(T, v)) /\ Degree(T, v) = Cardinality(EdgesAt(T, v)) /\ Degree(T, v) \in Nat
<1>1. IsFiniteSet(Levels)
  BY EdgeTyping, FS_Interval DEF Levels
<1>2. EdgesAt(T, v) \subseteq Levels
  BY DEF EdgesAt
<1>3. IsFiniteSet(EdgesAt(T, v)) /\ Cardinality(EdgesAt(T, v)) \in Nat
  BY <1>1, <1>2, FS_Subset, FS_CardinalityType
<1>4. Degree(T, v) = Cardinality(EdgesAt(T, v))
  BY DEF Degree, DegreeIn, EdgesAt, EndsOf, Ends
<1> QED
  BY <1>3, <1>4

\* Only a vertex without edges has degree zero.
LEMMA DegreeZero ==
  ASSUME edges \in Orders, NEW T \in SUBSET Levels, NEW v
  PROVE  /\ Degree(T, v) = 0 <=> \A i \in T : v \notin Ends(i)
         /\ Degree(T, v) = 0 <=> v \notin Touched(edges, T)
<1>1. Degree(T, v) = 0 <=> EdgesAt(T, v) = {}
  BY DegreeIsCount, FS_EmptySet
<1> QED
  BY <1>1 DEF EdgesAt, Touched, EndsOf, Ends

\* More edges make no degree less.
LEMMA DegreeGrows ==
  ASSUME edges \in Orders, NEW S \in SUBSET Levels, NEW T \in SUBSET S, NEW v
  PROVE  /\ Degree(T, v) <= Degree(S, v)
         /\ \A i \in S \ T : v \in Ends(i) => Degree(T, v) + 1 <= Degree(S, v)
         /\ (\A i \in S \ T : v \notin Ends(i)) => Degree(T, v) = Degree(S, v)
<1>1. EdgesAt(T, v) \subseteq EdgesAt(S, v)
  BY DEF EdgesAt
<1>2. /\ IsFiniteSet(EdgesAt(S, v)) /\ Degree(S, v) = Cardinality(EdgesAt(S, v)) /\ Degree(S, v) \in Nat
      /\ IsFiniteSet(EdgesAt(T, v)) /\ Degree(T, v) = Cardinality(EdgesAt(T, v)) /\ Degree(T, v) \in Nat
  <2>1. T \in SUBSET Levels
    OBVIOUS
  <2> QED
    BY <2>1, DegreeIsCount
<1>3. Degree(T, v) <= Degree(S, v)
  BY <1>1, <1>2, FS_Subset
<1>4. ASSUME NEW i \in S \ T, v \in Ends(i)
      PROVE  Degree(T, v) + 1 <= Degree(S, v)
  <2>1. EdgesAt(T, v) \subseteq EdgesAt(S, v) \ {i} /\ i \in EdgesAt(S, v)
    BY <1>4 DEF EdgesAt
  <2>2. /\ IsFiniteSet(EdgesAt(S, v) \ {i})
        /\ Cardinality(EdgesAt(S, v) \ {i}) = Cardinality(EdgesAt(S, v)) - 1
    BY <1>2, <2>1, FS_RemoveElement
  <2>3. Cardinality(EdgesAt(T, v)) <= Cardinality(EdgesAt(S, v) \ {i})
    BY <2>1, <2>2, FS_Subset
  <2> QED
    BY <1>2, <2>2, <2>3
<1>5. (\A i \in S \ T : v \notin Ends(i)) => EdgesAt(T, v) = EdgesAt(S, v)
  BY DEF EdgesAt
<1> QED
  BY <1>2, <1>3, <1>4, <1>5

\* One more edge.
LEMMA DegreeAdds ==
  ASSUME edges \in Orders, NEW T \in SUBSET Levels, NEW n \in Levels \ T, NEW v
  PROVE  Degree(T \union {n}, v) = IF v \in Ends(n) THEN Degree(T, v) + 1 ELSE Degree(T, v)
<1>1. IsFiniteSet(EdgesAt(T, v)) /\ Degree(T, v) = Cardinality(EdgesAt(T, v))
  BY DegreeIsCount
<1>2. Degree(T \union {n}, v) = Cardinality(EdgesAt(T \union {n}, v))
  <2>1. T \union {n} \in SUBSET Levels
    OBVIOUS
  <2> QED
    BY <2>1, DegreeIsCount
<1>3. EdgesAt(T \union {n}, v) = IF v \in Ends(n) THEN EdgesAt(T, v) \union {n} ELSE EdgesAt(T, v)
  BY DEF EdgesAt
<1>4. n \notin EdgesAt(T, v)
  BY DEF EdgesAt
<1>5. Cardinality(EdgesAt(T, v) \union {n}) = Cardinality(EdgesAt(T, v)) + 1
  BY <1>1, <1>4, FS_AddElement
<1> QED
  BY <1>1, <1>2, <1>3, <1>5

\* A part whose vertices have no other edges of S is all of a connected S.
LEMMA ClosedPart ==
  ASSUME edges \in Orders, NEW S \in SUBSET Levels, NEW C \in SUBSET S, C # {}, IsConnected(edges, S),
         \A v \in Touched(edges, C) : Degree(S, v) <= Degree(C, v)
  PROVE  C = S
<1> SUFFICES ASSUME C # S PROVE FALSE
  OBVIOUS
<1>1. C \in (SUBSET S) \ {{}, S}
  OBVIOUS
<1>2. Touched(edges, C) \intersect Touched(edges, S \ C) # {}
  BY <1>1 DEF IsConnected
<1>3. PICK v \in Touched(edges, C) : v \in Touched(edges, S \ C)
  BY <1>2
<1>4. PICK i \in S \ C : v \in Ends(i)
  BY <1>3 DEF Touched, EndsOf, Ends
<1>5. Degree(C, v) + 1 <= Degree(S, v) /\ Degree(S, v) <= Degree(C, v)
  BY <1>3, <1>4, DegreeGrows
<1>6. Degree(C, v) \in Nat /\ Degree(S, v) \in Nat
  <2>1. C \in SUBSET Levels
    OBVIOUS
  <2> QED
    BY <2>1, DegreeIsCount
<1> QED
  BY <1>5, <1>6

----------------------------------------------------------------------------
(* Selections of disjoint open paths, with a label for each.               *)

Labels == Nat \union {NoComponent}

ClassOf(T, lab, c) == {i \in T : lab[edges[i][1]] = c}

\* The vertices of the label c are inner ones and two loose ends.
IsOpen(T, lab, c) ==
  \E u, w \in Vertex :
    /\ u # w
    /\ lab[u] = c /\ Degree(T, u) = 1
    /\ lab[w] = c /\ Degree(T, w) = 1
    /\ \A v \in Vertex : lab[v] = c => v = u \/ v = w \/ Degree(T, v) = 2

\* A label for exactly the vertices that T touches, the same at both ends of an edge.
Labelled(T, lab) ==
  /\ lab \in [Vertex -> Labels]
  /\ \A v \in Vertex : lab[v] = NoComponent <=> Degree(T, v) = 0

IsUsed(lab, c) == \E v \in Vertex : lab[v] = c

Strands(T, lab) ==
  /\ T \in SUBSET Levels
  /\ Labelled(T, lab)
  /\ \A i \in T : lab[edges[i][1]] = lab[edges[i][2]]
  /\ \A c \in Nat : IsUsed(lab, c) => IsOpen(T, lab, c) /\ IsConnected(edges, ClassOf(T, lab, c))

\* The ends of an edge.
LEMMA EndsAre ==
  ASSUME edges \in Orders, NEW i \in Levels
  PROVE  /\ edges[i][1] \in Vertex /\ edges[i][2] \in Vertex /\ edges[i][1] # edges[i][2]
         /\ Ends(i) = {edges[i][1], edges[i][2]} /\ Ends(i) \subseteq Vertex
         /\ EndsOf(edges, i) = Ends(i)
<1>1. i \in 1 .. Len(edges)
  BY EdgeTyping DEF Levels
<1>2. edges[i] \in Vertex \X Vertex /\ edges[i][1] # edges[i][2]
  BY <1>1, EdgeTyping
<1> QED
  BY <1>2 DEF Ends, EndsOf

\* An edge of T belongs to the label of any vertex it touches.
LEMMA ClassMembers ==
  ASSUME edges \in Orders, NEW T, NEW lab, Strands(T, lab), NEW i \in T, NEW v \in Ends(i)
  PROVE  /\ v \in Vertex /\ lab[v] \in Nat /\ lab[v] # NoComponent
         /\ i \in ClassOf(T, lab, lab[v])
         /\ \A c : i \in ClassOf(T, lab, c) <=> lab[v] = c
<1>1. T \in SUBSET Levels /\ i \in Levels
  BY DEF Strands
<1>2. Ends(i) = {edges[i][1], edges[i][2]} /\ v \in Vertex
  BY <1>1, EndsAre
<1>3. Degree(T, v) # 0
  BY <1>1, DegreeZero
<1>4. lab[v] # NoComponent /\ lab[v] \in Nat
  BY <1>2, <1>3 DEF Strands, Labelled, Labels
<1>5. lab[v] = lab[edges[i][1]]
  BY <1>2 DEF Strands
<1> QED
  BY <1>2, <1>4, <1>5 DEF ClassOf

\* A class has all the edges at its vertices.
LEMMA ClassDegree ==
  ASSUME edges \in Orders, NEW T, NEW lab, Strands(T, lab), NEW v \in Vertex
  PROVE  Degree(ClassOf(T, lab, lab[v]), v) = Degree(T, v)
<1> DEFINE C == ClassOf(T, lab, lab[v])
<1>1. T \in SUBSET Levels /\ C \in SUBSET T
  BY DEF Strands, ClassOf
<1>2. \A i \in T \ C : v \notin Ends(i)
  BY ClassMembers
<1> HIDE DEF C
<1>3. Degree(C, v) = Degree(T, v)
  BY <1>1, <1>2, DegreeGrows
<1> QED
  BY <1>3 DEF C

\* A vertex of degree at most one has the other loose end of its path, or is alone.
FarEnd(T, lab, a, e) ==
  \/ Degree(T, a) = 0 /\ e = a
  \/ /\ Degree(T, a) = 1 /\ Degree(T, e) = 1
     /\ e \in Vertex /\ e # a /\ lab[e] = lab[a]
     /\ \A v \in Vertex : lab[v] = lab[a] => v = a \/ v = e \/ Degree(T, v) = 2

\* The path that starts at a has another end.
LEMMA FarEndExists ==
  ASSUME edges \in Orders, NEW T, NEW lab, Strands(T, lab), NEW a \in Vertex, Degree(T, a) <= 1
  PROVE  \E e \in Vertex : FarEnd(T, lab, a, e)
<1>1. Degree(T, a) \in Nat
  BY DegreeIsCount DEF Strands
<1>2. CASE Degree(T, a) = 0
  BY <1>2 DEF FarEnd
<1>3. CASE Degree(T, a) = 1
  <2>1. lab[a] \in Nat
    BY <1>3 DEF Strands, Labelled, Labels
  <2>2. IsOpen(T, lab, lab[a])
    BY <2>1 DEF Strands, IsUsed
  <2>3. PICK u, w \in Vertex :
          /\ u # w
          /\ lab[u] = lab[a] /\ Degree(T, u) = 1
          /\ lab[w] = lab[a] /\ Degree(T, w) = 1
          /\ \A v \in Vertex : lab[v] = lab[a] => v = u \/ v = w \/ Degree(T, v) = 2
    BY <2>2 DEF IsOpen
  <2>4. a = u \/ a = w
    BY <1>3, <2>3
  <2> QED
    BY <1>3, <2>3, <2>4 DEF FarEnd
<1> QED
  BY <1>1, <1>2, <1>3

\* The vertices that T touches are those with a label.
LEMMA TouchedIsLabelled ==
  ASSUME edges \in Orders, NEW T, NEW lab, Strands(T, lab), NEW c \in Nat
  PROVE  \A v : v \in Touched(edges, ClassOf(T, lab, c)) <=> v \in Vertex /\ lab[v] = c
<1>1. T \in SUBSET Levels
  BY DEF Strands
<1>2. ASSUME NEW v \in Touched(edges, ClassOf(T, lab, c)) PROVE v \in Vertex /\ lab[v] = c
  <2>1. PICK i \in ClassOf(T, lab, c) : v \in EndsOf(edges, i)
    BY <1>2 DEF Touched
  <2>2. i \in T /\ v \in Ends(i)
    BY <2>1 DEF ClassOf, EndsOf, Ends
  <2> QED
    BY <2>1, <2>2, ClassMembers
<1>3. ASSUME NEW v \in Vertex, lab[v] = c PROVE v \in Touched(edges, ClassOf(T, lab, c))
  <2>1. Degree(T, v) # 0
    BY <1>3 DEF Strands, Labelled, NoComponent
  <2>2. PICK i \in T : v \in Ends(i)
    BY <1>1, <2>1, DegreeZero
  <2>3. i \in ClassOf(T, lab, c)
    BY <1>3, <2>2, ClassMembers
  <2> QED
    BY <2>2, <2>3 DEF Touched, EndsOf, Ends
<1> QED
  BY <1>2, <1>3

\* Connected parts that share a vertex are connected together.
LEMMA ConnectedUnion ==
  ASSUME NEW A, NEW B, IsConnected(edges, A), IsConnected(edges, B),
         A = {} \/ B = {} \/ Touched(edges, A) \intersect Touched(edges, B) # {}
  PROVE  IsConnected(edges, A \union B)
<1> SUFFICES ASSUME NEW X \in (SUBSET (A \union B)) \ {{}, A \union B}
             PROVE  Touched(edges, X) \intersect Touched(edges, (A \union B) \ X) # {}
  BY DEF IsConnected
<1> DEFINE Y == (A \union B) \ X
<1>1. \A P, Q : P \subseteq Q => Touched(edges, P) \subseteq Touched(edges, Q)
  BY DEF Touched
<1>2. ASSUME NEW P, P = A \/ P = B, P \intersect X # {}, P \intersect X # P
      PROVE  Touched(edges, X) \intersect Touched(edges, Y) # {}
  <2>1. P \intersect X \in (SUBSET P) \ {{}, P} /\ IsConnected(edges, P)
    BY <1>2
  <2>2. Touched(edges, P \intersect X) \intersect Touched(edges, P \ (P \intersect X)) # {}
    BY <2>1 DEF IsConnected
  <2>3. Touched(edges, P \intersect X) \subseteq Touched(edges, X)
    BY <1>1
  <2>4. P \ (P \intersect X) \subseteq Y
    BY <1>2
  <2>5. Touched(edges, P \ (P \intersect X)) \subseteq Touched(edges, Y)
    BY <1>1, <2>4
  <2> QED
    BY <2>2, <2>3, <2>5
<1>3. CASE A \intersect X \in {{}, A} /\ B \intersect X \in {{}, B}
  <2>1. X \subseteq A \union B /\ X # {} /\ X # A \union B
    OBVIOUS
  <2>2. A \subseteq X \/ A \intersect X = {}
    BY <1>3
  <2>3. B \subseteq X \/ B \intersect X = {}
    BY <1>3
  <2>4. \/ A \subseteq X /\ B \intersect X = {}
        \/ B \subseteq X /\ A \intersect X = {}
    BY <2>1, <2>2, <2>3
  <2>5. (X = A /\ Y = B) \/ (X = B /\ Y = A)
    BY <2>1, <2>4
  <2>6. A # {} /\ B # {}
    BY <2>1, <2>5
  <2>7. Touched(edges, A) \intersect Touched(edges, B) # {}
    BY <2>6
  <2> HIDE DEF Y
  <2>8. CASE X = A /\ Y = B
    BY <2>7, <2>8 DEF Y
  <2>9. CASE X = B /\ Y = A
    BY <2>7, <2>9 DEF Y
  <2> QED
    BY <2>5, <2>8, <2>9
<1> HIDE DEF Y
<1> QED
  BY <1>2, <1>3 DEF Y

\* One edge is connected.
LEMMA ConnectedEdge ==
  ASSUME NEW n
  PROVE  IsConnected(edges, {n}) /\ IsConnected(edges, {})
BY DEF IsConnected

\* The labels after the edge between a and b joined their paths.
Joins(lab, a, b, v) == v = a \/ v = b \/ (lab[v] # NoComponent /\ (lab[v] = lab[a] \/ lab[v] = lab[b]))

JoinedLabels(lab, n, label) ==
  [v \in Vertex |-> IF Joins(lab, edges[n][1], edges[n][2], v) THEN label ELSE lab[v]]

\* An edge n may join the paths of its ends under the label.
Joinable(T, lab, n, label) ==
  /\ n \in Levels \ T
  /\ Degree(T, edges[n][1]) <= 1 /\ Degree(T, edges[n][2]) <= 1
  /\ lab[edges[n][1]] = NoComponent \/ lab[edges[n][1]] # lab[edges[n][2]]
  /\ label \in Nat
  /\ IsUsed(lab, label) => label \in {lab[edges[n][1]], lab[edges[n][2]]}

\* After joining, the labels are those of exactly the touched vertices.
LEMMA JoinKeepsLabels ==
  ASSUME edges \in Orders, NEW T, NEW lab, Strands(T, lab), NEW n, NEW label, Joinable(T, lab, n, label)
  PROVE  /\ Labelled(T \union {n}, JoinedLabels(lab, n, label))
         /\ \A i \in T \union {n} :
              JoinedLabels(lab, n, label)[edges[i][1]] = JoinedLabels(lab, n, label)[edges[i][2]]
<1> DEFINE a == edges[n][1]
           b == edges[n][2]
           next == JoinedLabels(lab, n, label)
<1>1. n \in Levels \ T /\ label \in Nat /\ T \in SUBSET Levels
  BY DEF Joinable, Strands
<1>2. a \in Vertex /\ b \in Vertex /\ a # b /\ Ends(n) = {a, b}
  BY <1>1, EndsAre
<1>3. \A v \in Vertex : Degree(T \union {n}, v) = IF v \in {a, b} THEN Degree(T, v) + 1 ELSE Degree(T, v)
  BY <1>1, <1>2, DegreeAdds
<1>4. \A v \in Vertex : Degree(T, v) \in Nat
  BY <1>1, DegreeIsCount
<1> HIDE DEF a, b
<1>5. \A v \in Vertex : next[v] = IF Joins(lab, a, b, v) THEN label ELSE lab[v]
  BY DEF JoinedLabels, a, b
<1>6. \A v \in Vertex : lab[v] \in Labels /\ (lab[v] = NoComponent <=> Degree(T, v) = 0)
  BY DEF Strands, Labelled
<1>7. next \in [Vertex -> Labels]
  BY <1>1, <1>6 DEF JoinedLabels, Labels
<1>8. label # NoComponent
  BY <1>1 DEF NoComponent
<1> HIDE DEF next
<1>9. ASSUME NEW v \in Vertex PROVE next[v] = NoComponent <=> Degree(T \union {n}, v) = 0
  BY <1>3, <1>4, <1>5, <1>6, <1>8 DEF Joins
<1>10. ASSUME NEW i \in T PROVE next[edges[i][1]] = next[edges[i][2]]
  <2>1. i \in Levels
    BY <1>1
  <2>2. edges[i][1] \in Vertex /\ edges[i][2] \in Vertex
        /\ edges[i][1] \in Ends(i) /\ edges[i][2] \in Ends(i)
    BY <2>1, EndsAre
  <2>3. lab[edges[i][1]] = lab[edges[i][2]] /\ lab[edges[i][1]] # NoComponent
    BY <2>2, ClassMembers DEF Strands
  <2>4. Joins(lab, a, b, edges[i][1]) <=> Joins(lab, a, b, edges[i][2])
    BY <2>3 DEF Joins
  <2> QED
    BY <1>5, <2>2, <2>3, <2>4
<1>11. next[a] = next[b]
  BY <1>2, <1>5 DEF Joins
<1> QED
  BY <1>7, <1>9, <1>10, <1>11 DEF Labelled, next, a, b

JoinedClasses(T, lab, n, label, a, b, next) ==
  /\ \A v \in Vertex : next[v] = label <=> Joins(lab, a, b, v)
  /\ ClassOf(T \union {n}, next, label) =
       {n} \union (IF lab[a] = NoComponent THEN {} ELSE ClassOf(T, lab, lab[a]))
           \union (IF lab[b] = NoComponent THEN {} ELSE ClassOf(T, lab, lab[b]))
  /\ \A c \in Nat : c # label /\ IsUsed(next, c) =>
       /\ ClassOf(T \union {n}, next, c) = ClassOf(T, lab, c)
       /\ \A v \in Vertex : next[v] = c <=> lab[v] = c
       /\ \A v \in Vertex : next[v] = c => v # a /\ v # b

\* The class of the joined label is the edge with the classes of its ends; the
\* other classes stay.
LEMMA JoinClasses ==
  ASSUME edges \in Orders, NEW T, NEW lab, Strands(T, lab), NEW n, NEW label, Joinable(T, lab, n, label)
  PROVE  JoinedClasses(T, lab, n, label, edges[n][1], edges[n][2], JoinedLabels(lab, n, label))
<1> DEFINE a == edges[n][1]
           b == edges[n][2]
           next == JoinedLabels(lab, n, label)
<1>1. n \in Levels \ T /\ label \in Nat /\ T \in SUBSET Levels
  BY DEF Joinable, Strands
<1>2. a \in Vertex /\ b \in Vertex
  BY <1>1, EndsAre
<1>3. IsUsed(lab, label) => label = lab[a] \/ label = lab[b]
  BY DEF Joinable
<1>4. \A i \in T : edges[i][1] \in Vertex /\ lab[edges[i][1]] # NoComponent
  <2> SUFFICES ASSUME NEW i \in T PROVE edges[i][1] \in Vertex /\ lab[edges[i][1]] # NoComponent
    OBVIOUS
  <2>1. i \in Levels
    BY <1>1
  <2>2. edges[i][1] \in Ends(i)
    BY <2>1, EndsAre
  <2> QED
    BY <2>2, ClassMembers
<1>5. label # NoComponent
  BY <1>1 DEF NoComponent
<1>6. n \notin T /\ edges[n][1] = a
  BY <1>1
<1> HIDE DEF a, b
<1>7. \A v \in Vertex : next[v] = IF Joins(lab, a, b, v) THEN label ELSE lab[v]
  BY DEF JoinedLabels, a, b
<1> HIDE DEF next
<1>8. \A v \in Vertex : next[v] = label <=> Joins(lab, a, b, v)
  BY <1>3, <1>5, <1>7 DEF Joins, IsUsed
<1>9. \A i : i \in ClassOf(T \union {n}, next, label) <=>
             \/ i = n
             \/ lab[a] # NoComponent /\ i \in ClassOf(T, lab, lab[a])
             \/ lab[b] # NoComponent /\ i \in ClassOf(T, lab, lab[b])
             \/ i \in T /\ (edges[i][1] = a \/ edges[i][1] = b)
  <2> SUFFICES ASSUME NEW i
               PROVE  i \in ClassOf(T \union {n}, next, label) <=>
                        \/ i = n
                        \/ lab[a] # NoComponent /\ i \in ClassOf(T, lab, lab[a])
                        \/ lab[b] # NoComponent /\ i \in ClassOf(T, lab, lab[b])
                        \/ i \in T /\ (edges[i][1] = a \/ edges[i][1] = b)
    OBVIOUS
  <2>1. CASE i = n
    <3>1. next[a] = label
      BY <1>2, <1>8 DEF Joins
    <3> QED
      BY <1>6, <2>1, <3>1 DEF ClassOf
  <2>2. CASE i # n /\ i \in T
    <3>1. i \in ClassOf(T \union {n}, next, label) <=> Joins(lab, a, b, edges[i][1])
      BY <1>4, <1>8, <2>2 DEF ClassOf
    <3> QED
      BY <1>4, <2>2, <3>1 DEF ClassOf, Joins
  <2>3. CASE i # n /\ i \notin T
    BY <2>3 DEF ClassOf
  <2> QED
    BY <2>1, <2>2, <2>3
<1>10. \A i \in T : /\ edges[i][1] = a => lab[a] # NoComponent /\ i \in ClassOf(T, lab, lab[a])
                    /\ edges[i][1] = b => lab[b] # NoComponent /\ i \in ClassOf(T, lab, lab[b])
  BY <1>4 DEF ClassOf
<1>11. ClassOf(T \union {n}, next, label) =
         {n} \union (IF lab[a] = NoComponent THEN {} ELSE ClassOf(T, lab, lab[a]))
             \union (IF lab[b] = NoComponent THEN {} ELSE ClassOf(T, lab, lab[b]))
  <2>1. \A i : i \in ClassOf(T \union {n}, next, label) <=>
             \/ i = n
             \/ lab[a] # NoComponent /\ i \in ClassOf(T, lab, lab[a])
             \/ lab[b] # NoComponent /\ i \in ClassOf(T, lab, lab[b])
    BY <1>9, <1>10
  <2> QED
    BY <2>1
<1>12. ASSUME NEW c \in Nat, c # label, IsUsed(next, c)
       PROVE  /\ \A v \in Vertex : next[v] = c <=> lab[v] = c
              /\ \A v \in Vertex : next[v] = c => v # a /\ v # b
  <2>1. c # NoComponent
    BY DEF NoComponent
  <2>2. \A v \in Vertex : next[v] = c => lab[v] = c /\ ~Joins(lab, a, b, v)
    BY <1>7, <1>12
  <2>3. PICK u \in Vertex : lab[u] = c /\ ~Joins(lab, a, b, u)
    BY <1>12, <2>2 DEF IsUsed
  <2>4. c # lab[a] /\ c # lab[b]
    BY <2>1, <2>3 DEF Joins
  <2>5. \A v \in Vertex : lab[v] = c => ~Joins(lab, a, b, v)
    BY <2>1, <2>4 DEF Joins
  <2> QED
    BY <1>7, <2>2, <2>5 DEF Joins
<1>13. ASSUME NEW c \in Nat, c # label, IsUsed(next, c)
       PROVE  ClassOf(T \union {n}, next, c) = ClassOf(T, lab, c)
  <2>1. next[a] # c
    BY <1>2, <1>12, <1>13
  <2>2. \A i \in T : next[edges[i][1]] = c <=> lab[edges[i][1]] = c
    BY <1>4, <1>12, <1>13
  <2> QED
    BY <1>6, <2>1, <2>2 DEF ClassOf
<1> QED
  BY <1>8, <1>11, <1>12, <1>13 DEF JoinedClasses, next, a, b

\* Joined paths are open again.
LEMMA JoinedIsOpen ==
  ASSUME edges \in Orders, NEW T, NEW lab, Strands(T, lab), NEW n, NEW label, Joinable(T, lab, n, label)
  PROVE  IsOpen(T \union {n}, JoinedLabels(lab, n, label), label)
<1> DEFINE a == edges[n][1]
           b == edges[n][2]
           next == JoinedLabels(lab, n, label)
<1>1. n \in Levels \ T /\ T \in SUBSET Levels
  BY DEF Joinable, Strands
<1>2. a \in Vertex /\ b \in Vertex /\ a # b /\ Ends(n) = {a, b}
  BY <1>1, EndsAre
<1>3. \A v \in Vertex : Degree(T \union {n}, v) = IF v \in {a, b} THEN Degree(T, v) + 1 ELSE Degree(T, v)
  BY <1>1, <1>2, DegreeAdds
<1>4. \A v \in Vertex : next[v] = label <=> Joins(lab, a, b, v)
  <2>1. JoinedClasses(T, lab, n, label, a, b, next)
    BY JoinClasses
  <2> QED
    BY <2>1 DEF JoinedClasses
<1>5. Degree(T, a) <= 1 /\ Degree(T, b) <= 1 /\ (lab[a] = NoComponent \/ lab[a] # lab[b])
  BY DEF Joinable
<1> HIDE DEF a, b, next
<1>6. PICK e \in Vertex : FarEnd(T, lab, a, e)
  BY <1>2, <1>5, FarEndExists
<1>7. PICK f \in Vertex : FarEnd(T, lab, b, f)
  BY <1>2, <1>5, FarEndExists
<1>8. \A v \in Vertex : (lab[v] = NoComponent <=> Degree(T, v) = 0)
  BY DEF Strands, Labelled
<1>9. e # f /\ e # b /\ f # a
  BY <1>2, <1>5, <1>6, <1>7, <1>8 DEF FarEnd
<1>10. next[e] = label /\ next[f] = label
  <2>1. Joins(lab, a, b, e) /\ Joins(lab, a, b, f)
    BY <1>2, <1>6, <1>7, <1>8 DEF FarEnd, Joins
  <2> QED
    BY <1>4, <2>1
<1>11. Degree(T \union {n}, e) = 1 /\ Degree(T \union {n}, f) = 1
  <2>1. e \in {a, b} => e = a /\ Degree(T, e) = 0
    BY <1>6, <1>9 DEF FarEnd
  <2>2. f \in {a, b} => f = b /\ Degree(T, f) = 0
    BY <1>7, <1>9 DEF FarEnd
  <2>3. e \notin {a, b} => Degree(T, e) = 1
    BY <1>6 DEF FarEnd
  <2>4. f \notin {a, b} => Degree(T, f) = 1
    BY <1>7 DEF FarEnd
  <2> QED
    BY <1>3, <2>1, <2>2, <2>3, <2>4
<1>12. ASSUME NEW v \in Vertex, next[v] = label, v # e, v # f
       PROVE  Degree(T \union {n}, v) = 2
  <2>1. Joins(lab, a, b, v)
    BY <1>4, <1>12
  <2>2. CASE v = a
    BY <1>3, <1>6, <1>12, <2>2 DEF FarEnd
  <2>3. CASE v = b
    BY <1>3, <1>7, <1>12, <2>3 DEF FarEnd
  <2>4. CASE v \notin {a, b} /\ lab[v] # NoComponent /\ lab[v] = lab[a]
    <3>1. Degree(T, v) = 2
      BY <1>2, <1>6, <1>8, <1>12, <2>4 DEF FarEnd
    <3> QED
      BY <1>3, <2>4, <3>1
  <2>5. CASE v \notin {a, b} /\ lab[v] # NoComponent /\ lab[v] = lab[b]
    <3>1. Degree(T, v) = 2
      BY <1>2, <1>7, <1>8, <1>12, <2>5 DEF FarEnd
    <3> QED
      BY <1>3, <2>5, <3>1
  <2> QED
    BY <2>1, <2>2, <2>3, <2>4, <2>5 DEF Joins
<1>13. IsOpen(T \union {n}, next, label)
  BY <1>9, <1>10, <1>11, <1>12 DEF IsOpen
<1> QED
  BY <1>13 DEF next, a, b

\* An edge between loose ends of different paths, or to new vertices, joins them.
LEMMA JoinStrands ==
  ASSUME edges \in Orders, NEW T, NEW lab, Strands(T, lab), NEW n, NEW label, Joinable(T, lab, n, label)
  PROVE  Strands(T \union {n}, JoinedLabels(lab, n, label))
<1> DEFINE a == edges[n][1]
           b == edges[n][2]
           next == JoinedLabels(lab, n, label)
<1>1. n \in Levels \ T /\ T \in SUBSET Levels /\ label \in Nat
  BY DEF Joinable, Strands
<1>2. a \in Vertex /\ b \in Vertex /\ a # b /\ EndsOf(edges, n) = {a, b}
  BY <1>1, EndsAre
<1>3. \A v \in Vertex : lab[v] \in Labels
  BY DEF Strands, Labelled
<1>4. Labelled(T \union {n}, next) /\ \A i \in T \union {n} : next[edges[i][1]] = next[edges[i][2]]
  BY JoinKeepsLabels
<1>5. ASSUME NEW x \in {a, b}
      PROVE  LET A == IF lab[x] = NoComponent THEN {} ELSE ClassOf(T, lab, lab[x])
             IN IsConnected(edges, A) /\ (A = {} \/ x \in Touched(edges, A))
  <2>1. CASE lab[x] = NoComponent
    BY <2>1, ConnectedEdge
  <2>2. CASE lab[x] # NoComponent
    <3>1. x \in Vertex /\ lab[x] \in Nat
      BY <1>2, <1>3, <2>2 DEF Labels
    <3>2. IsConnected(edges, ClassOf(T, lab, lab[x]))
      BY <3>1 DEF Strands, IsUsed
    <3>3. x \in Touched(edges, ClassOf(T, lab, lab[x]))
      BY <3>1, TouchedIsLabelled
    <3> QED
      BY <2>2, <3>2, <3>3
  <2> QED
    BY <2>1, <2>2
<1>6. Touched(edges, {n}) = {a, b}
  BY <1>2 DEF Touched
<1>7. /\ ClassOf(T \union {n}, next, label) =
           {n} \union (IF lab[a] = NoComponent THEN {} ELSE ClassOf(T, lab, lab[a]))
               \union (IF lab[b] = NoComponent THEN {} ELSE ClassOf(T, lab, lab[b]))
      /\ \A c \in Nat : c # label /\ IsUsed(next, c) =>
           /\ ClassOf(T \union {n}, next, c) = ClassOf(T, lab, c)
           /\ \A v \in Vertex : next[v] = c <=> lab[v] = c
           /\ \A v \in Vertex : next[v] = c => v # a /\ v # b
  <2>1. JoinedClasses(T, lab, n, label, a, b, next)
    BY JoinClasses
  <2> HIDE DEF a, b, next
  <2> QED
    BY <2>1 DEF JoinedClasses
<1>8. IsOpen(T \union {n}, next, label)
  BY JoinedIsOpen
<1>9. \A v \in Vertex : v # a /\ v # b => Degree(T \union {n}, v) = Degree(T, v)
  <2>1. Ends(n) = {a, b}
    BY <1>1, EndsAre
  <2> QED
    BY <1>1, <2>1, DegreeAdds
<1> HIDE DEF a, b, next
<1>10. IsConnected(edges, ClassOf(T \union {n}, next, label))
  <2> DEFINE A == IF lab[a] = NoComponent THEN {} ELSE ClassOf(T, lab, lab[a])
             B == IF lab[b] = NoComponent THEN {} ELSE ClassOf(T, lab, lab[b])
  <2>1. IsConnected(edges, A) /\ (A = {} \/ a \in Touched(edges, A))
    BY <1>5
  <2>2. IsConnected(edges, B) /\ (B = {} \/ b \in Touched(edges, B))
    BY <1>5
  <2> HIDE DEF A, B
  <2>3. IsConnected(edges, {n})
    BY ConnectedEdge
  <2>4. A = {} \/ Touched(edges, {n}) \intersect Touched(edges, A) # {}
    BY <1>6, <2>1
  <2>5. IsConnected(edges, {n} \union A)
    BY <2>1, <2>3, <2>4, ConnectedUnion
  <2>6. b \in Touched(edges, {n} \union A)
    BY <1>6 DEF Touched
  <2>7. B = {} \/ Touched(edges, {n} \union A) \intersect Touched(edges, B) # {}
    BY <2>2, <2>6
  <2>8. IsConnected(edges, ({n} \union A) \union B)
    BY <2>2, <2>5, <2>7, ConnectedUnion
  <2> QED
    BY <1>7, <2>8 DEF A, B
<1>11. ASSUME NEW c \in Nat, IsUsed(next, c)
       PROVE  IsOpen(T \union {n}, next, c) /\ IsConnected(edges, ClassOf(T \union {n}, next, c))
  <2>1. CASE c = label
    BY <1>8, <1>10, <2>1
  <2>2. CASE c # label
    <3>1. /\ ClassOf(T \union {n}, next, c) = ClassOf(T, lab, c)
          /\ \A v \in Vertex : next[v] = c <=> lab[v] = c
          /\ \A v \in Vertex : next[v] = c => v # a /\ v # b
      BY <1>7, <1>11, <2>2
    <3>2. IsUsed(lab, c)
      BY <1>11, <3>1 DEF IsUsed
    <3>3. IsOpen(T, lab, c) /\ IsConnected(edges, ClassOf(T, lab, c))
      BY <3>2 DEF Strands
    <3>4. \A v \in Vertex : lab[v] = c => Degree(T \union {n}, v) = Degree(T, v)
      BY <1>9, <3>1
    <3>5. IsOpen(T \union {n}, next, c)
      BY <3>1, <3>3, <3>4 DEF IsOpen
    <3> QED
      BY <3>1, <3>3, <3>5
  <2> QED
    BY <2>1, <2>2
<1>12. T \union {n} \in SUBSET Levels
  BY <1>1
<1> QED
  BY <1>4, <1>11, <1>12 DEF Strands, next, a, b

\* An edge between the loose ends of one path closes a cycle.
LEMMA CloseStrand ==
  ASSUME edges \in Orders, NEW T, NEW lab, Strands(T, lab), NEW n \in Levels \ T, NEW c \in Nat,
         lab[edges[n][1]] = c, lab[edges[n][2]] = c,
         Degree(T, edges[n][1]) <= 1, Degree(T, edges[n][2]) <= 1
  PROVE  LET C == ClassOf(T, lab, c) \union {n}
         IN IsCycle(edges, C) /\ \A v \in Touched(edges, C) : Degree(C, v) = 2
<1> DEFINE a == edges[n][1]
           b == edges[n][2]
           A == ClassOf(T, lab, c)
           C == A \union {n}
<1>1. T \in SUBSET Levels /\ A \in SUBSET Levels /\ n \in Levels \ A
  BY DEF Strands, ClassOf
<1>2. a \in Vertex /\ b \in Vertex /\ a # b /\ Ends(n) = {a, b} /\ EndsOf(edges, n) = {a, b}
  BY EndsAre
<1>3. lab[a] = c /\ lab[b] = c /\ Degree(T, a) <= 1 /\ Degree(T, b) <= 1
  OBVIOUS
<1>4. Degree(T, a) = 1 /\ Degree(T, b) = 1
  <2>1. c # NoComponent
    BY DEF NoComponent
  <2>2. Degree(T, a) # 0 /\ Degree(T, b) # 0
    BY <1>2, <1>3, <2>1 DEF Strands, Labelled
  <2>3. Degree(T, a) \in Nat /\ Degree(T, b) \in Nat
    BY <1>1, DegreeIsCount
  <2> QED
    BY <1>3, <2>2, <2>3
<1>5. IsUsed(lab, c)
  BY <1>2, <1>3 DEF IsUsed
<1>6. IsOpen(T, lab, c) /\ IsConnected(edges, A)
  BY <1>5 DEF Strands
<1>7. \A v : v \in Touched(edges, A) <=> v \in Vertex /\ lab[v] = c
  BY TouchedIsLabelled
<1>8. \A v \in Vertex : lab[v] = c => Degree(A, v) = Degree(T, v)
  BY ClassDegree
<1>9. \A v \in Vertex : Degree(C, v) = IF v \in {a, b} THEN Degree(A, v) + 1 ELSE Degree(A, v)
  BY <1>1, <1>2, DegreeAdds
<1> HIDE DEF a, b, A
<1>10. Touched(edges, {n}) = {a, b} /\ Touched(edges, C) = Touched(edges, A) \union {a, b}
  BY <1>2 DEF Touched
<1>11. IsConnected(edges, C)
  <2>1. Touched(edges, A) \intersect Touched(edges, {n}) # {}
    BY <1>2, <1>3, <1>7, <1>10
  <2>2. IsConnected(edges, {n})
    BY ConnectedEdge
  <2> QED
    BY <1>6, <2>1, <2>2, ConnectedUnion
<1>12. ASSUME NEW v \in Touched(edges, C) PROVE Degree(C, v) = 2
  <2>1. v \in Vertex /\ lab[v] = c
    BY <1>2, <1>3, <1>7, <1>10, <1>12
  <2>2. PICK u, w \in Vertex :
          /\ u # w
          /\ lab[u] = c /\ Degree(T, u) = 1
          /\ lab[w] = c /\ Degree(T, w) = 1
          /\ \A x \in Vertex : lab[x] = c => x = u \/ x = w \/ Degree(T, x) = 2
    BY <1>6 DEF IsOpen
  <2>3. a \in {u, w} /\ b \in {u, w}
    BY <1>2, <1>3, <1>4, <2>2
  <2>4. v \in {a, b} \/ Degree(T, v) = 2
    BY <1>2, <2>1, <2>2, <2>3
  <2>5. Degree(A, v) = Degree(T, v)
    BY <1>8, <2>1
  <2>6. Degree(C, v) = IF v \in {a, b} THEN Degree(A, v) + 1 ELSE Degree(A, v)
    BY <1>9, <2>1
  <2> QED
    BY <1>4, <2>4, <2>5, <2>6
<1>13. C # {}
  OBVIOUS
<1> HIDE DEF C
<1>14. IsCycle(edges, C)
  BY <1>11, <1>12, <1>13 DEF IsCycle, Degree
<1> QED
  BY <1>12, <1>14 DEF C, A

----------------------------------------------------------------------------
(* Renamed labels.                                                         *)

Renamed(lab, ren) == [v \in Vertex |-> IF lab[v] = NoComponent THEN NoComponent ELSE ren[lab[v]]]

\* Labels keep apart what they kept apart.
KeepsApart(lab, ren) ==
  \A u, v \in Vertex : lab[u] # NoComponent /\ lab[v] # NoComponent /\ ren[lab[u]] = ren[lab[v]] => lab[u] = lab[v]

\* Renamed labels are labels of the same vertices.
LEMMA RenamedLabels ==
  ASSUME edges \in Orders, NEW T, NEW lab, Labelled(T, lab), NEW ren \in [Nat -> Nat]
  PROVE  Labelled(T, Renamed(lab, ren))
<1>1. \A v \in Vertex : lab[v] \in Labels /\ (lab[v] = NoComponent <=> Degree(T, v) = 0)
  BY DEF Labelled
<1>2. \A v \in Vertex : lab[v] # NoComponent => ren[lab[v]] \in Nat /\ ren[lab[v]] # NoComponent
  <2> SUFFICES ASSUME NEW v \in Vertex, lab[v] # NoComponent
               PROVE  ren[lab[v]] \in Nat /\ ren[lab[v]] # NoComponent
    OBVIOUS
  <2>1. lab[v] \in Nat
    BY <1>1 DEF Labels
  <2>2. ren[lab[v]] \in Nat
    BY <2>1
  <2> QED
    BY <2>2 DEF NoComponent
<1>3. \A v \in Vertex : Renamed(lab, ren)[v] = IF lab[v] = NoComponent THEN NoComponent ELSE ren[lab[v]]
  BY DEF Renamed
<1>4. Renamed(lab, ren) \in [Vertex -> Labels]
  BY <1>2 DEF Renamed, Labels
<1> QED
  BY <1>1, <1>2, <1>3, <1>4 DEF Labelled

\* Strands stay strands under labels that keep them apart.
LEMMA RenamedStrands ==
  ASSUME edges \in Orders, NEW T, NEW lab, Strands(T, lab), NEW ren \in [Nat -> Nat], KeepsApart(lab, ren)
  PROVE  Strands(T, Renamed(lab, ren))
<1> DEFINE next == Renamed(lab, ren)
<1>1. T \in SUBSET Levels /\ Labelled(T, lab)
  BY DEF Strands
<1>2. Labelled(T, next)
  BY <1>1, RenamedLabels
<1>3. \A v \in Vertex : next[v] = IF lab[v] = NoComponent THEN NoComponent ELSE ren[lab[v]]
  BY DEF Renamed
<1>4. \A i \in T : edges[i][1] \in Vertex /\ edges[i][2] \in Vertex
  BY <1>1, EndsAre
<1> HIDE DEF next
<1>5. \A i \in T : next[edges[i][1]] = next[edges[i][2]]
  BY <1>3, <1>4 DEF Strands
<1>6. ASSUME NEW c \in Nat, IsUsed(next, c)
      PROVE  IsOpen(T, next, c) /\ IsConnected(edges, ClassOf(T, next, c))
  <2>1. PICK u \in Vertex : next[u] = c
    BY <1>6 DEF IsUsed
  <2>2. c # NoComponent
    BY DEF NoComponent
  <2>3. lab[u] # NoComponent /\ ren[lab[u]] = c
    BY <1>3, <2>1, <2>2
  <2>4. lab[u] \in Nat
    BY <1>1, <2>3 DEF Labelled, Labels
  <2>5. PICK d \in Nat : d = lab[u]
    BY <2>4
  <2>6. \A v \in Vertex : next[v] = c <=> lab[v] = d
    BY <1>3, <2>2, <2>3, <2>5 DEF KeepsApart
  <2>7. IsOpen(T, lab, d) /\ IsConnected(edges, ClassOf(T, lab, d))
    BY <2>5 DEF Strands, IsUsed
  <2>8. ClassOf(T, next, c) = ClassOf(T, lab, d)
    BY <1>4, <2>6 DEF ClassOf
  <2>9. IsOpen(T, next, c)
    BY <2>6, <2>7 DEF IsOpen
  <2> QED
    BY <2>7, <2>8, <2>9
<1> QED
  BY <1>1, <1>2, <1>5, <1>6 DEF Strands, next

----------------------------------------------------------------------------
(* Component labels in the slots.                                          *)

\* D are entries with a component that can be renamed.
HasComponents(D) ==
  \A e \in D : e.component \in Labels /\ \A c \in Nat : [e EXCEPT !.component = c] \in D

\* The labels of a sequence of entries.
LEMMA ComponentsTyped ==
  ASSUME NEW D, HasComponents(D), NEW q \in Seq(D)
  PROVE  /\ Components(q) \subseteq Nat
         /\ IsFiniteSet(Components(q)) /\ Cardinality(Components(q)) \in Nat
         /\ \A c : c \in Components(q) <=> c # NoComponent /\ \E p \in 1 .. Len(q) : q[p].component = c
<1>1. Len(q) \in Nat /\ DOMAIN q = 1 .. Len(q) /\ \A p \in 1 .. Len(q) : q[p] \in D
  OBVIOUS
<1>2. \A p \in 1 .. Len(q) : q[p].component \in Nat \union {NoComponent}
  BY <1>1 DEF HasComponents, Labels
<1>3. \A c : c \in Components(q) <=> c # NoComponent /\ \E p \in 1 .. Len(q) : q[p].component = c
  BY <1>1 DEF Components
<1>4. Components(q) \subseteq Nat
  BY <1>2, <1>3
<1> DEFINE of == [p \in 1 .. Len(q) |-> q[p].component]
           all == {of[p] : p \in 1 .. Len(q)}
<1>5. IsFiniteSet(1 .. Len(q))
  BY <1>1, FS_Interval
<1>6. IsFiniteSet(all)
  <2>1. of \in Surjection(1 .. Len(q), all)
    BY DEF Surjection
  <2> HIDE DEF of, all
  <2> QED
    BY <1>5, <2>1, FS_Surjection
<1>7. Components(q) \subseteq all
  BY <1>3
<1> HIDE DEF all
<1>8. IsFiniteSet(Components(q)) /\ Cardinality(Components(q)) \in Nat
  BY <1>6, <1>7, FS_Subset, FS_CardinalityType
<1> QED
  BY <1>3, <1>4, <1>8

\* The labels of entries that show vertices are those of the vertices.
LEMMA ComponentsShown ==
  ASSUME NEW D, HasComponents(D), NEW d, d.component = NoComponent, NEW W, NEW f, NEW q, NEW lab,
         Shows(q, W, f, d, D), \A v \in W : f[v].component = lab[v]
  PROVE  \A c : c \in Components(q) <=> c # NoComponent /\ \E v \in W : lab[v] = c
<1>1. /\ q \in Seq(D)
      /\ \A v \in W : Place(v) \in 1 .. Len(q) /\ q[Place(v)] = f[v]
      /\ \A p \in 1 .. Len(q) : (\A v \in W : Place(v) # p) => q[p] = d
  BY DEF Shows
<1>2. \A c : c \in Components(q) <=> c # NoComponent /\ \E p \in 1 .. Len(q) : q[p].component = c
  BY <1>1, ComponentsTyped
<1>3. ASSUME NEW p \in 1 .. Len(q), q[p].component # NoComponent
      PROVE  \E v \in W : lab[v] = q[p].component
  BY <1>1, <1>3
<1>4. ASSUME NEW v \in W
      PROVE  \E p \in 1 .. Len(q) : q[p].component = lab[v]
  BY <1>1, <1>4
<1> QED
  BY <1>2, <1>3, <1>4

\* A bound for the labels.
LEMMA ComponentsBounded ==
  ASSUME NEW D, HasComponents(D), NEW q \in Seq(D)
  PROVE  \E m \in Nat : \A c \in Components(q) : c <= m
<1> DEFINE Has(k) == \E m \in Nat : \A p \in 1 .. k : q[p].component <= m
           Good == {k \in 0 .. Len(q) : Has(k)}
<1>1. Len(q) \in Nat
  OBVIOUS
<1>2. \A p \in 1 .. Len(q) : q[p].component \in Nat \union {-1}
  BY DEF HasComponents, Labels, NoComponent
<1>3. 0 \in Good
  <2>1. \A p \in 1 .. 0 : q[p].component <= 0
    OBVIOUS
  <2>2. Has(0)
    BY <2>1
  <2> HIDE DEF Has
  <2> QED
    BY <1>1, <2>2
<1>4. ASSUME NEW k \in Nat, k < Len(q), k \in Good PROVE k + 1 \in Good
  <2>1. PICK m \in Nat : \A p \in 1 .. k : q[p].component <= m
    BY <1>1, <1>4
  <2>2. k + 1 \in 1 .. Len(q)
    BY <1>1, <1>4
  <2>3. PICK x : x = q[k + 1].component
    OBVIOUS
  <2>4. x \in Nat \union {-1}
    BY <1>2, <2>2, <2>3
  <2>5. PICK y \in Nat : m <= y /\ x <= y
    <3>1. CASE x <= m
      BY <3>1
    <3>2. CASE ~(x <= m)
      <4>1. x \in Nat /\ m <= x
        BY <2>4, <3>2
      <4> QED
        BY <4>1
    <3> QED
      BY <3>1, <3>2
  <2>6. \A p \in 1 .. k + 1 : q[p].component <= y
    <3> SUFFICES ASSUME NEW p \in 1 .. k + 1 PROVE q[p].component <= y
      OBVIOUS
    <3>1. CASE p = k + 1
      BY <2>3, <2>5, <3>1
    <3>2. CASE p # k + 1
      <4>1. p \in 1 .. k /\ p \in 1 .. Len(q)
        BY <1>1, <1>4, <3>2
      <4>2. PICK z : z = q[p].component
        OBVIOUS
      <4>3. z \in Nat \union {-1} /\ z <= m
        BY <1>2, <2>1, <4>1, <4>2
      <4>4. z <= y
        BY <2>5, <4>3
      <4> QED
        BY <4>2, <4>4
    <3> QED
      BY <3>1, <3>2
  <2>7. Has(k + 1)
    BY <2>6
  <2>8. k + 1 \in 0 .. Len(q)
    BY <1>1, <1>4
  <2> HIDE DEF Has
  <2> QED
    BY <2>7, <2>8
<1>5. Len(q) \in Good
  <2> HIDE DEF Good
  <2>1. 0 .. Len(q) \subseteq Good
    BY <1>1, <1>3, <1>4, SetInduction
  <2> QED
    BY <1>1, <2>1
<1>6. PICK m \in Nat : \A p \in 1 .. Len(q) : q[p].component <= m
  BY <1>1, <1>5
<1> QED
  BY <1>6, ComponentsTyped

\* A new label is not in use.
LEMMA NextIsFresh ==
  ASSUME NEW D, HasComponents(D), NEW q \in Seq(D)
  PROVE  NextComponent(q) \in Nat /\ NextComponent(q) \notin Components(q)
<1>1. Components(q) \in SUBSET Nat
  BY ComponentsTyped
<1>2. CASE Components(q) = {}
  BY <1>2 DEF NextComponent
<1>3. CASE Components(q) # {}
  <2>1. PICK n \in Nat : \A c \in Components(q) : c <= n
    BY ComponentsBounded
  <2>2. PICK C : C = Components(q)
    OBVIOUS
  <2>3. PICK m : m = Max(C)
    OBVIOUS
  <2>4. m \in C /\ \A c \in C : c <= m
    BY <1>1, <1>3, <2>1, <2>2, <2>3, MaxOfBounded
  <2>5. m \in Nat /\ m + 1 \notin C
    BY <1>1, <2>2, <2>4
  <2> QED
    BY <1>3, <2>2, <2>3, <2>5 DEF NextComponent
<1> QED
  BY <1>2, <1>3

\* The first position of a label, and the number of labels before it.
FirstAt(q, c) == Min({p \in DOMAIN q : q[p].component = c})
RankOf(q, c) == Cardinality(Components(SubSeq(q, 1, FirstAt(q, c) - 1)))

\* The first position of a label.
LEMMA FirstAtIsFirst ==
  ASSUME NEW D, HasComponents(D), NEW q \in Seq(D), NEW c \in Components(q)
  PROVE  /\ FirstAt(q, c) \in 1 .. Len(q) /\ q[FirstAt(q, c)].component = c
         /\ \A p \in 1 .. Len(q) : q[p].component = c => FirstAt(q, c) <= p
<1> DEFINE A == {p \in DOMAIN q : q[p].component = c}
<1>1. Len(q) \in Nat /\ DOMAIN q = 1 .. Len(q)
  OBVIOUS
<1>2. \E p \in 1 .. Len(q) : q[p].component = c
  BY ComponentsTyped
<1>3. A \in SUBSET Nat /\ A # {} /\ A \subseteq 1 .. Len(q)
  BY <1>1, <1>2
<1>4. \A p \in 1 .. Len(q) : p \in A <=> q[p].component = c
  BY <1>1
<1>5. FirstAt(q, c) = Min(A)
  BY DEF FirstAt
<1> HIDE DEF A
<1>6. Min(A) \in A /\ \A y \in A : Min(A) <= y
  BY <1>3, MinIsLeast
<1> QED
  BY <1>3, <1>4, <1>5, <1>6

\* The labels before a position.
LEMMA ComponentsBefore ==
  ASSUME NEW D, HasComponents(D), NEW q \in Seq(D), NEW k \in 1 .. Len(q)
  PROVE  /\ SubSeq(q, 1, k - 1) \in Seq(D)
         /\ \A c : c \in Components(SubSeq(q, 1, k - 1)) <=>
                     c # NoComponent /\ \E p \in 1 .. k - 1 : q[p].component = c
<1>1. Len(q) \in Nat /\ k \in Nat /\ k - 1 \in Nat /\ k - 1 <= Len(q)
  OBVIOUS
<1>2. PICK j \in Nat : j = k - 1
  BY <1>1
<1>3. j <= Len(q)
  BY <1>1, <1>2
<1>4. PICK r : r = SubSeq(q, 1, j)
  OBVIOUS
<1>5. r \in Seq(D) /\ Len(r) = j /\ \A p \in 1 .. j : r[p] = q[p]
  BY <1>1, <1>3, <1>4
<1>6. \A c : c \in Components(r) <=> c # NoComponent /\ \E p \in 1 .. Len(r) : r[p].component = c
  BY <1>5, ComponentsTyped
<1>7. \A c : c \in Components(r) <=> c # NoComponent /\ \E p \in 1 .. j : q[p].component = c
  BY <1>5, <1>6
<1> QED
  BY <1>2, <1>4, <1>5, <1>7

\* A label that comes first later has a higher rank.
LEMMA RankGrows ==
  ASSUME NEW D, HasComponents(D), NEW q \in Seq(D), NEW c \in Components(q), NEW e \in Components(q),
         FirstAt(q, c) < FirstAt(q, e)
  PROVE  RankOf(q, c) < RankOf(q, e)
<1>1. PICK i : i = FirstAt(q, c)
  OBVIOUS
<1>2. PICK j : j = FirstAt(q, e)
  OBVIOUS
<1>3. /\ i \in 1 .. Len(q) /\ q[i].component = c
      /\ \A p \in 1 .. Len(q) : q[p].component = c => i <= p
  BY <1>1, FirstAtIsFirst
<1>4. j \in 1 .. Len(q) /\ i < j /\ Len(q) \in Nat
  BY <1>1, <1>2, FirstAtIsFirst
<1>5. PICK A : A = Components(SubSeq(q, 1, i - 1))
  OBVIOUS
<1>6. PICK B : B = Components(SubSeq(q, 1, j - 1))
  OBVIOUS
<1>7. \A x : x \in A <=> x # NoComponent /\ \E p \in 1 .. i - 1 : q[p].component = x
  BY <1>3, <1>5, ComponentsBefore
<1>8. \A x : x \in B <=> x # NoComponent /\ \E p \in 1 .. j - 1 : q[p].component = x
  BY <1>4, <1>6, ComponentsBefore
<1>9. c \notin A
  <2>1. \A p \in 1 .. i - 1 : p \in 1 .. Len(q) /\ ~(i <= p)
    BY <1>3, <1>4
  <2> QED
    BY <1>3, <1>7, <2>1
<1>10. c \in B
  <2>1. i \in 1 .. j - 1
    BY <1>3, <1>4
  <2>2. c # NoComponent
    BY ComponentsTyped
  <2> QED
    BY <1>3, <1>8, <2>1, <2>2
<1>11. A \subseteq B \ {c}
  <2>1. \A p \in 1 .. i - 1 : p \in 1 .. j - 1
    BY <1>3, <1>4
  <2> QED
    BY <1>7, <1>8, <1>9, <2>1
<1>12. IsFiniteSet(B) /\ Cardinality(B) \in Nat
  <2>1. SubSeq(q, 1, j - 1) \in Seq(D)
    BY <1>4, ComponentsBefore
  <2> QED
    BY <1>6, <2>1, ComponentsTyped
<1>13. IsFiniteSet(B \ {c}) /\ Cardinality(B \ {c}) = Cardinality(B) - 1
  BY <1>10, <1>12, FS_RemoveElement
<1>14. Cardinality(A) <= Cardinality(B \ {c}) /\ Cardinality(A) \in Nat
  BY <1>11, <1>13, FS_Subset, FS_CardinalityType
<1>15. Cardinality(A) < Cardinality(B)
  BY <1>12, <1>13, <1>14
<1> QED
  BY <1>1, <1>2, <1>5, <1>6, <1>15 DEF RankOf

\* Different labels have different ranks.
LEMMA RanksDiffer ==
  ASSUME NEW D, HasComponents(D), NEW q \in Seq(D), NEW c \in Components(q)
  PROVE  RankOf(q, c) \in Nat /\ \A e \in Components(q) : RankOf(q, c) = RankOf(q, e) => c = e
<1>1. ASSUME NEW e \in Components(q) PROVE RankOf(q, e) \in Nat
  <2>1. SubSeq(q, 1, FirstAt(q, e) - 1) \in Seq(D)
    <3>1. FirstAt(q, e) \in 1 .. Len(q)
      BY FirstAtIsFirst
    <3> QED
      BY <3>1, ComponentsBefore
  <2> QED
    BY <2>1, ComponentsTyped DEF RankOf
<1>2. ASSUME NEW e \in Components(q), c # e PROVE RankOf(q, c) # RankOf(q, e)
  <2>1. FirstAt(q, c) \in Nat /\ FirstAt(q, e) \in Nat /\ FirstAt(q, c) # FirstAt(q, e)
    <3>1. /\ FirstAt(q, c) \in 1 .. Len(q) /\ q[FirstAt(q, c)].component = c
          /\ FirstAt(q, e) \in 1 .. Len(q) /\ q[FirstAt(q, e)].component = e
      BY FirstAtIsFirst
    <3> QED
      BY <1>2, <3>1
  <2>2. RankOf(q, c) \in Nat /\ RankOf(q, e) \in Nat
    BY <1>1
  <2>3. CASE FirstAt(q, c) < FirstAt(q, e)
    BY <2>2, <2>3, RankGrows
  <2>4. CASE FirstAt(q, e) < FirstAt(q, c)
    BY <2>2, <2>4, RankGrows
  <2> QED
    BY <2>1, <2>3, <2>4
<1> QED
  BY <1>1, <1>2

\* The new labels of a renumbering.
Ranks(q) == [c \in Nat |-> IF c \in Components(q) THEN RankOf(q, c) ELSE 0]

\* f has the label lab, and g the label that ren makes of it.
Relabels(f, g, lab, ren, W) ==
  \A v \in W : /\ f[v].component = lab[v]
               /\ g[v] = IF lab[v] = NoComponent THEN f[v] ELSE [f[v] EXCEPT !.component = ren[lab[v]]]

\* ren keeps apart what lab keeps apart in W.
ApartIn(W, lab, ren) ==
  \A u, v \in W : lab[u] # NoComponent /\ lab[v] # NoComponent /\ ren[lab[u]] = ren[lab[v]] => lab[u] = lab[v]

\* Renumbered entries show the vertices under other labels that keep apart what
\* the entries kept apart.
LEMMA RenumberShows ==
  ASSUME NEW D, HasComponents(D), NEW d \in D, d.component = NoComponent,
         NEW W, NEW f, NEW g, NEW q, NEW lab, Shows(q, W, f, d, D), Relabels(f, g, lab, Ranks(q), W)
  PROVE  Shows(Renumbered(q), W, g, d, D) /\ Ranks(q) \in [Nat -> Nat] /\ ApartIn(W, lab, Ranks(q))
<1> DEFINE r == Renumbered(q)
           ren == Ranks(q)
<1>0. /\ \A v \in W : f[v].component = lab[v]
      /\ \A v \in W : g[v] = IF lab[v] = NoComponent THEN f[v] ELSE [f[v] EXCEPT !.component = ren[lab[v]]]
      /\ ren = [c \in Nat |-> IF c \in Components(q) THEN RankOf(q, c) ELSE 0]
  BY DEF Relabels, Ranks
<1> HIDE DEF ren
<1>1. /\ q \in Seq(D) /\ Len(q) \in Nat /\ DOMAIN q = 1 .. Len(q) /\ \A p \in 1 .. Len(q) : q[p] \in D
      /\ \A v \in W : Place(v) \in 1 .. Len(q) /\ q[Place(v)] = f[v]
      /\ \A p \in 1 .. Len(q) : (\A v \in W : Place(v) # p) => q[p] = d
  BY DEF Shows
<1>2. \A c : c \in Components(q) <=> c # NoComponent /\ \E p \in 1 .. Len(q) : q[p].component = c
  BY <1>1, ComponentsTyped
<1>3. Components(q) \subseteq Nat
  BY <1>1, ComponentsTyped
<1>4. ren \in [Nat -> Nat] /\ \A c \in Components(q) : ren[c] = RankOf(q, c)
  <2>1. \A c \in Components(q) : RankOf(q, c) \in Nat
    BY <1>1, RanksDiffer
  <2> QED
    BY <1>0, <1>3, <2>1
<1>5. \A c, e \in Components(q) : ren[c] = ren[e] => c = e
  BY <1>1, <1>4, RanksDiffer
<1>6. \A v \in W : lab[v] # NoComponent => lab[v] \in Components(q)
  BY <1>0, <1>1, <1>2
<1>7. r = [p \in DOMAIN q |-> IF q[p].component = NoComponent THEN q[p]
                              ELSE [q[p] EXCEPT !.component = RankOf(q, q[p].component)]]
  BY DEF Renumbered, RankOf, FirstAt
<1> HIDE DEF r
<1>8. \A p \in 1 .. Len(q) : r[p] = IF q[p].component = NoComponent THEN q[p]
                                    ELSE [q[p] EXCEPT !.component = ren[q[p].component]]
  BY <1>1, <1>2, <1>4, <1>7
<1>9. \A p \in 1 .. Len(q) : r[p] \in D
  <2> SUFFICES ASSUME NEW p \in 1 .. Len(q) PROVE r[p] \in D
    OBVIOUS
  <2>1. CASE q[p].component = NoComponent
    BY <1>1, <1>8, <2>1
  <2>2. CASE q[p].component # NoComponent
    <3>1. PICK c : c = ren[q[p].component]
      OBVIOUS
    <3>2. c \in Nat
      BY <1>2, <1>3, <1>4, <2>2, <3>1
    <3>3. [q[p] EXCEPT !.component = c] \in D
      BY <1>1, <3>2 DEF HasComponents
    <3> QED
      BY <1>8, <2>2, <3>1, <3>3
  <2> QED
    BY <2>1, <2>2
<1>10. DOMAIN r = 1 .. Len(q)
  BY <1>1, <1>7
<1>11. r \in Seq(D) /\ Len(r) = Len(q)
  <2>1. r = [p \in 1 .. Len(q) |-> r[p]]
    BY <1>1, <1>7, <1>10
  <2> QED
    BY <1>1, <1>9, <2>1
<1>12. \A v \in W : Place(v) \in 1 .. Len(r) /\ r[Place(v)] = g[v]
  <2> SUFFICES ASSUME NEW v \in W PROVE Place(v) \in 1 .. Len(r) /\ r[Place(v)] = g[v]
    OBVIOUS
  <2>1. Place(v) \in 1 .. Len(q) /\ q[Place(v)] = f[v] /\ f[v].component = lab[v]
    BY <1>0, <1>1
  <2>2. r[Place(v)] = IF lab[v] = NoComponent THEN f[v] ELSE [f[v] EXCEPT !.component = ren[lab[v]]]
    BY <1>8, <2>1
  <2> QED
    BY <1>0, <1>11, <2>1, <2>2
<1>13. \A p \in 1 .. Len(r) : (\A v \in W : Place(v) # p) => r[p] = d
  BY <1>1, <1>8, <1>11
<1>14. Shows(r, W, g, d, D)
  BY <1>11, <1>12, <1>13 DEF Shows
<1>15. ApartIn(W, lab, ren)
  BY <1>5, <1>6 DEF ApartIn
<1> QED
  BY <1>4, <1>14, <1>15 DEF r, ren

\* The label of joined components is theirs, or new.
LEMMA JoinedIsFree ==
  ASSUME NEW D, HasComponents(D), NEW q \in Seq(D), NEW lab, NEW i \in 1 .. Len(q), NEW j \in 1 .. Len(q),
         \A c \in Nat : IsUsed(lab, c) => c \in Components(q)
  PROVE  /\ JoinedComponent(q, i, j) \in Nat
         /\ IsUsed(lab, JoinedComponent(q, i, j)) =>
              JoinedComponent(q, i, j) \in {q[i].component, q[j].component}
<1>1. NextComponent(q) \in Nat /\ NextComponent(q) \notin Components(q)
  BY NextIsFresh
<1>2. q[i].component \in Labels /\ q[j].component \in Labels
  <2>1. q[i] \in D /\ q[j] \in D
    OBVIOUS
  <2> QED
    BY <2>1 DEF HasComponents
<1> QED
  BY <1>1, <1>2 DEF JoinedComponent, Labels

\* A vertex that T touches and that is not in the frontier has all its edges.
LEMMA SettledDegree ==
  ASSUME PlanDone, NEW n \in 0 .. Len(edges), NEW S \in SUBSET Levels, NEW v \in Vertex \ Boundary(n),
         Degree(UpTo(S, n), v) # 0
  PROVE  Degree(S, v) = Degree(UpTo(S, n), v)
<1>1. Len(edges) \in Nat /\ Levels = 1 .. Len(edges) /\ edges \in Orders
  BY StepsOfPlan
<1>2. UpTo(S, n) \in SUBSET S /\ UpTo(S, n) \in SUBSET Levels
  BY DEF UpTo
<1>3. PICK i \in UpTo(S, n) : v \in Ends(i)
  BY <1>1, <1>2, DegreeZero
<1>4. i \in Incident(v) /\ i <= n /\ i \in Nat /\ n \in Nat
  BY <1>1, <1>3 DEF UpTo, Incident, Levels
<1>5. ASSUME NEW j \in S \ UpTo(S, n) PROVE v \notin Ends(j)
  <2> SUFFICES ASSUME v \in Ends(j) PROVE FALSE
    OBVIOUS
  <2>1. j \in Levels /\ j \in Incident(v)
    BY DEF Incident, Levels
  <2>2. j \in Nat /\ ~(j <= n)
    BY <1>1, <2>1 DEF UpTo
  <2>3. Needed(v, n) /\ Needed(v, n + 1)
    BY <1>4, <2>1, <2>2 DEF Needed
  <2> QED
    BY <2>3 DEF Boundary
<1> QED
  BY <1>1, <1>2, <1>5, DegreeGrows

\* So has a vertex that leaves.
LEMMA LeavingDegree ==
  ASSUME PlanDone, NEW n \in 1 .. Len(edges), NEW S \in SUBSET Levels, NEW v \in AtWork(n) \ Boundary(n)
  PROVE  Degree(S, v) = Degree(UpTo(S, n), v)
<1>1. Len(edges) \in Nat /\ Levels = 1 .. Len(edges) /\ edges \in Orders
  BY StepsOfPlan
<1>2. UpTo(S, n) \in SUBSET S
  BY DEF UpTo
<1>3. v \in Ends(n) \ Boundary(n)
  BY OutAt
<1>4. \A j \in Incident(v) : j <= n
  BY <1>3, WorkAt
<1>5. ASSUME NEW j \in S \ UpTo(S, n) PROVE v \notin Ends(j)
  <2>1. ~(j <= n) /\ j \in DOMAIN edges
    BY <1>1 DEF UpTo, Levels
  <2> QED
    BY <1>4, <2>1 DEF Incident
<1> QED
  BY <1>1, <1>2, <1>5, DegreeGrows

\* A vertex that enters has no edges yet.
LEMMA EnteringDegree ==
  ASSUME PlanDone, NEW n \in 1 .. Len(edges), NEW S \in SUBSET Levels, NEW v \in Ends(n) \ Boundary(n - 1)
  PROVE  Degree(UpTo(S, n - 1), v) = 0
<1>1. UpTo(S, n - 1) \in SUBSET Levels /\ edges \in Orders
  BY StepsOfPlan DEF UpTo
<1> QED
  BY <1>1, TouchedAtWork, DegreeZero

----------------------------------------------------------------------------
(* Cycles.                                                                 *)

\* The builder is used with the cycle problem.
SolvesCycles ==
  /\ \A p \in Problems : \A order \in Orders :
       /\ InitialState(p, V, order) = CycleInitial(p, V, order)
       /\ ~Refuses(p, V, order)
       /\ \A S : Accepts(p, order, S) <=> CycleAccepts(p, order, S)
  /\ \A p \in Problems : \A state, step, choice :
       /\ Transition(p, state, step, choice) = CycleTransition(p, state, step, choice)
       /\ ~TransitionFails(p, state, step, choice)
  /\ \A state, w : Canonicalize(state, w) = CycleCanonicalize(state, w)
  /\ \A state : Finalize(state) = CycleFinalize(state) /\ ~FinalizeFails(state)

CycleEntries == [degree : Nat, component : Labels]

\* What an entry says of a vertex.
CycleEntry(T, lab) == [v \in Vertex |-> [degree |-> Degree(T, v), component |-> lab[v]]]

\* The state s tells of the selection T at the vertices W: T is a cycle, or open
\* paths whose loose ends are among W.
TellsCycle(s, T, lab, W) ==
  /\ s \in [slots : Seq(CycleEntries), done : BOOLEAN]
  /\ Shows(s.slots, W, CycleEntry(T, lab), CycleSlot, CycleEntries)
  /\ T \in SUBSET Levels
  /\ Labelled(T, lab)
  /\ s.done => IsCycle(edges, T)
  /\ ~s.done => Strands(T, lab) /\ \A v \in Vertex : Degree(T, v) = 1 => v \in W

\* The entries of the cycle problem have components.
LEMMA CycleEntriesAre ==
  HasComponents(CycleEntries) /\ CycleSlot \in CycleEntries /\ CycleSlot.component = NoComponent
BY DEF HasComponents, CycleEntries, CycleSlot, Labels

\* A selection that has a cycle and more is no cycle.
LEMMA CycleIsAll ==
  ASSUME edges \in Orders, NEW S \in SUBSET Levels, NEW C \in SUBSET S, IsCycle(edges, C), IsCycle(edges, S)
  PROVE  C = S
<1>1. C # {} /\ IsConnected(edges, S)
  BY DEF IsCycle
<1>2. \A v \in Touched(edges, C) : v \in Touched(edges, S)
  BY DEF Touched
<1>3. \A v \in Touched(edges, C) : Degree(C, v) = 2 /\ Degree(S, v) = 2
  BY <1>2 DEF IsCycle, Degree
<1> QED
  BY <1>1, <1>3, ClosedPart

\* The vertices that enter are shown with the default.
LEMMA CycleEnters ==
  ASSUME PlanDone, NEW n \in 1 .. Len(edges), NEW S \in SUBSET Levels, NEW s, NEW lab,
         TellsCycle(s, UpTo(S, n - 1), lab, Boundary(n - 1))
  PROVE  TellsCycle([s EXCEPT !.slots = Introduced(s.slots, steps[n], CycleSlot)],
                    UpTo(S, n - 1), lab, AtWork(n))
<1> DEFINE T == UpTo(S, n - 1)
           f == CycleEntry(T, lab)
           q == Introduced(s.slots, steps[n], CycleSlot)
           r == [s EXCEPT !.slots = q]
<1>1. /\ AtWork(n) \subseteq Vertex
      /\ Boundary(n - 1) \union Ends(n) = AtWork(n)
  BY WorkAt
<1>2. \A v \in Ends(n) \ Boundary(n - 1) : f[v] = CycleSlot
  <2> SUFFICES ASSUME NEW v \in Ends(n) \ Boundary(n - 1) PROVE f[v] = CycleSlot
    OBVIOUS
  <2>1. Degree(T, v) = 0 /\ v \in Vertex
    BY <1>1, EnteringDegree
  <2>2. lab[v] = NoComponent
    BY <2>1 DEF TellsCycle, Labelled
  <2>3. f[v] = [degree |-> Degree(T, v), component |-> lab[v]]
    BY <2>1 DEF CycleEntry
  <2> HIDE DEF f, T
  <2> QED
    BY <2>1, <2>2, <2>3 DEF CycleSlot
<1>3. Shows(s.slots, Boundary(n - 1), f, CycleSlot, CycleEntries)
  BY DEF TellsCycle
<1>4. Shows(q, AtWork(n), f, CycleSlot, CycleEntries)
  <2> HIDE DEF f
  <2> QED
    BY <1>2, <1>3, CycleEntriesAre, GrowShows
<1>5. s \in [slots : Seq(CycleEntries), done : BOOLEAN]
  BY DEF TellsCycle
<1> HIDE DEF q
<1>6. r \in [slots : Seq(CycleEntries), done : BOOLEAN] /\ r.slots = q /\ r.done = s.done
  <2>1. q \in Seq(CycleEntries)
    BY <1>4 DEF Shows
  <2> QED
    BY <1>5, <2>1
<1> HIDE DEF r, f
<1>7. TellsCycle(r, T, lab, AtWork(n))
  BY <1>1, <1>4, <1>6 DEF TellsCycle, f
<1> QED
  BY <1>7 DEF r, q, T

\* An edge at a vertex of degree two, or besides a closed cycle, leads to no cycle.
LEMMA TooManyEdges ==
  ASSUME edges \in Orders, NEW S \in SUBSET Levels, NEW T \in SUBSET S, NEW n \in S \ T,
         IsCycle(edges, T) \/ \E v \in Ends(n) : Degree(T, v) >= 2
  PROVE  ~IsCycle(edges, S)
<1>1. CASE IsCycle(edges, T)
  BY <1>1, CycleIsAll
<1>2. ASSUME NEW v \in Ends(n), Degree(T, v) >= 2, IsCycle(edges, S) PROVE FALSE
  <2>1. v \in Touched(edges, S)
    BY DEF Touched, EndsOf, Ends
  <2>2. Degree(S, v) = 2
    BY <1>2, <2>1 DEF IsCycle, Degree
  <2>3. Degree(T, v) + 1 <= Degree(S, v)
    BY DegreeGrows
  <2>4. Degree(T, v) \in Nat
    <3>1. T \in SUBSET Levels
      OBVIOUS
    <3> QED
      BY <3>1, DegreeIsCount
  <2> QED
    BY <1>2, <2>2, <2>3, <2>4
<1> QED
  BY <1>1, <1>2

\* Closing a path while another one is open leads to no cycle, closing the only
\* one is a cycle.
LEMMA CloseDecides ==
  ASSUME edges \in Orders, NEW S \in SUBSET Levels, NEW T \in SUBSET S, NEW n \in S \ T,
         NEW lab, Strands(T, lab), NEW c \in Nat,
         lab[edges[n][1]] = c, lab[edges[n][2]] = c,
         Degree(T, edges[n][1]) <= 1, Degree(T, edges[n][2]) <= 1
  PROVE  /\ (\E v \in Vertex : lab[v] \notin {c, NoComponent}) => ~IsCycle(edges, S)
         /\ (\A v \in Vertex : lab[v] \in {c, NoComponent}) => IsCycle(edges, T \union {n})
<1> DEFINE C == ClassOf(T, lab, c) \union {n}
<1>1. T \in SUBSET Levels /\ n \in Levels \ T
  OBVIOUS
<1>2. IsCycle(edges, C)
  BY <1>1, CloseStrand
<1>3. C \in SUBSET S /\ C \subseteq T \union {n}
  BY DEF ClassOf
<1>4. \A i \in T : i \in C <=> lab[edges[i][1]] = c
  BY DEF ClassOf
<1>5. \A i \in T : edges[i][1] \in Vertex /\ lab[edges[i][1]] # NoComponent
  <2> SUFFICES ASSUME NEW i \in T PROVE edges[i][1] \in Vertex /\ lab[edges[i][1]] # NoComponent
    OBVIOUS
  <2>1. edges[i][1] \in Ends(i)
    BY <1>1, EndsAre
  <2> QED
    BY <2>1, ClassMembers
<1> HIDE DEF C
<1>6. ASSUME NEW v \in Vertex, lab[v] \notin {c, NoComponent} PROVE ~IsCycle(edges, S)
  <2>1. Degree(T, v) # 0
    BY <1>6 DEF Strands, Labelled
  <2>2. PICK i \in T : v \in Ends(i)
    BY <1>1, <2>1, DegreeZero
  <2>3. i \in ClassOf(T, lab, lab[v])
    BY <2>2, ClassMembers
  <2>4. i \notin C
    BY <1>4, <1>6, <2>2, <2>3 DEF ClassOf
  <2>5. C # S
    BY <2>2, <2>4
  <2> QED
    BY <1>2, <1>3, <2>5, CycleIsAll
<1>7. ASSUME \A v \in Vertex : lab[v] \in {c, NoComponent} PROVE IsCycle(edges, T \union {n})
  <2>1. T \subseteq C
    BY <1>4, <1>5, <1>7
  <2>2. C = T \union {n}
    BY <1>3, <2>1 DEF C
  <2> QED
    BY <1>2, <2>2
<1> QED
  BY <1>6, <1>7

\* Every label in use is shown.
LEMMA CycleLabelsShown ==
  ASSUME NEW s, NEW T, NEW lab, NEW W \in SUBSET Vertex, TellsCycle(s, T, lab, W)
  PROVE  /\ \A c : c \in Components(s.slots) <=> c # NoComponent /\ \E v \in W : lab[v] = c
         /\ ~s.done => \A c \in Nat : IsUsed(lab, c) => c \in Components(s.slots)
<1>1. Shows(s.slots, W, CycleEntry(T, lab), CycleSlot, CycleEntries)
  BY DEF TellsCycle
<1>2. \A v \in W : CycleEntry(T, lab)[v].component = lab[v]
  BY DEF CycleEntry
<1>3. \A c : c \in Components(s.slots) <=> c # NoComponent /\ \E v \in W : lab[v] = c
  BY <1>1, <1>2, CycleEntriesAre, ComponentsShown
<1>4. ASSUME ~s.done, NEW c \in Nat, IsUsed(lab, c) PROVE c \in Components(s.slots)
  <2>1. IsOpen(T, lab, c)
    BY <1>4 DEF TellsCycle, Strands
  <2>2. PICK u \in Vertex : lab[u] = c /\ Degree(T, u) = 1
    BY <2>1 DEF IsOpen
  <2>3. u \in W
    BY <1>4, <2>2 DEF TellsCycle
  <2>4. c # NoComponent
    BY DEF NoComponent
  <2> QED
    BY <1>3, <2>2, <2>3, <2>4
<1> QED
  BY <1>3, <1>4

\* Where the ends of an edge are, and what is there.
LEMMA CycleEnds ==
  ASSUME PlanDone, NEW n \in 1 .. Len(edges), NEW T, NEW lab, NEW s, TellsCycle(s, T, lab, AtWork(n))
  PROVE  LET a == edges[n][1]
             b == edges[n][2]
             q == s.slots
         IN /\ a \in AtWork(n) /\ b \in AtWork(n) /\ a # b /\ Ends(n) = {a, b}
            /\ Position(steps[n], 1) = Place(a) /\ Position(steps[n], 2) = Place(b)
            /\ q \in Seq(CycleEntries) /\ Place(a) \in 1 .. Len(q) /\ Place(b) \in 1 .. Len(q)
            /\ \A v \in AtWork(n) : /\ v \in Vertex /\ Place(v) \in 1 .. Len(q)
                                    /\ q[Place(v)] = [degree |-> Degree(T, v), component |-> lab[v]]
                                    /\ Place(v) = Place(a) <=> v = a
                                    /\ Place(v) = Place(b) <=> v = b
<1> DEFINE a == edges[n][1]
           b == edges[n][2]
<1>1. /\ a # b /\ Ends(n) = {a, b}
      /\ Position(steps[n], 1) = Place(a) /\ Position(steps[n], 2) = Place(b)
  BY StepAt
<1>2. /\ AtWork(n) \subseteq Vertex /\ Ends(n) \subseteq AtWork(n)
      /\ \A u, v \in AtWork(n) : Place(u) = Place(v) => u = v
  BY WorkAt
<1>3. Shows(s.slots, AtWork(n), CycleEntry(T, lab), CycleSlot, CycleEntries)
  BY DEF TellsCycle
<1>4. /\ s.slots \in Seq(CycleEntries)
      /\ \A v \in AtWork(n) : Place(v) \in 1 .. Len(s.slots) /\ s.slots[Place(v)] = CycleEntry(T, lab)[v]
  BY <1>3 DEF Shows
<1>5. \A v \in AtWork(n) : CycleEntry(T, lab)[v] = [degree |-> Degree(T, v), component |-> lab[v]]
  BY <1>2 DEF CycleEntry
<1> HIDE DEF a, b
<1>6. a \in AtWork(n) /\ b \in AtWork(n)
  BY <1>1, <1>2
<1> QED
  BY <1>1, <1>2, <1>4, <1>5, <1>6 DEF a, b

\* The closing step.
LEMMA CycleCloses ==
  ASSUME PlanDone, NEW n \in 1 .. Len(edges), NEW S \in SUBSET Levels, n \in S, NEW lab, NEW s,
         TellsCycle(s, UpTo(S, n - 1), lab, AtWork(n)), ~s.done,
         Degree(UpTo(S, n - 1), edges[n][1]) <= 1, Degree(UpTo(S, n - 1), edges[n][2]) <= 1,
         lab[edges[n][1]] # NoComponent, lab[edges[n][1]] = lab[edges[n][2]]
  PROVE  LET next == CloseCycle(s.slots, Place(edges[n][1]), Place(edges[n][2]))
         IN \/ next = {} /\ ~IsCycle(edges, S)
            \/ \E r : next = {r} /\ TellsCycle(r, UpTo(S, n), lab, AtWork(n))
<1> DEFINE T == UpTo(S, n - 1)
           a == edges[n][1]
           b == edges[n][2]
           q == s.slots
           c == lab[a]
           next == CloseCycle(q, Place(a), Place(b))
<1>1. edges \in Orders /\ n \in Levels
  BY StepsOfPlan
<1>2. T \in SUBSET S /\ n \in S \ T /\ UpTo(S, n) = T \union {n}
  BY UpToNext DEF UpTo
<1>3. a \in AtWork(n) /\ b \in AtWork(n) /\ a # b /\ Ends(n) = {a, b}
      /\ q \in Seq(CycleEntries) /\ Place(a) \in 1 .. Len(q) /\ Place(b) \in 1 .. Len(q)
      /\ \A v \in AtWork(n) : /\ v \in Vertex /\ Place(v) \in 1 .. Len(q)
                              /\ q[Place(v)] = [degree |-> Degree(T, v), component |-> lab[v]]
                              /\ Place(v) = Place(a) <=> v = a
                              /\ Place(v) = Place(b) <=> v = b
  BY CycleEnds
<1>4. Strands(T, lab) /\ Labelled(T, lab)
  BY DEF TellsCycle
<1>5. Degree(T, a) <= 1 /\ Degree(T, b) <= 1 /\ c # NoComponent /\ lab[a] = c /\ lab[b] = c
  OBVIOUS
<1> HIDE DEF T, q, c
<1>6. c \in Nat /\ a \in Vertex /\ b \in Vertex
  <2>1. a \in Vertex /\ b \in Vertex
    BY <1>3
  <2> HIDE DEF a, b
  <2> QED
    BY <2>1, <1>4, <1>5 DEF Labelled, Labels
<1>7. /\ (\E v \in Vertex : lab[v] \notin {c, NoComponent}) => ~IsCycle(edges, S)
      /\ (\A v \in Vertex : lab[v] \in {c, NoComponent}) => IsCycle(edges, T \union {n})
  <2>1. S \in SUBSET Levels /\ T \in SUBSET S /\ n \in S \ T
    BY <1>2
  <2> QED
    BY <2>1, <1>1, <1>4, <1>5, <1>6, CloseDecides
<1>8. /\ \A x : x \in Components(q) <=> x # NoComponent /\ \E v \in AtWork(n) : lab[v] = x
      /\ \A x \in Nat : IsUsed(lab, x) => x \in Components(q)
  <2>1. AtWork(n) \in SUBSET Vertex
    BY WorkAt
  <2>2. TellsCycle(s, T, lab, AtWork(n)) /\ ~s.done
    BY DEF T
  <2>3. \A x : x \in Components(s.slots) <=> x # NoComponent /\ \E v \in AtWork(n) : lab[v] = x
    BY ONLY <2>1, <2>2, CycleLabelsShown
  <2>4. \A x \in Nat : IsUsed(lab, x) => x \in Components(s.slots)
    BY ONLY <2>1, <2>2, CycleLabelsShown
  <2> QED
    BY <2>3, <2>4 DEF q
<1> HIDE DEF a, b, next
<1>9. c \in Components(q)
  BY <1>3, <1>5, <1>8
<1>10. q[Place(a)].component = c
  <2>1. q[Place(a)] = [degree |-> Degree(T, a), component |-> lab[a]]
    BY <1>3
  <2> QED
    BY <1>5, <2>1
<1>11. next = IF Components(q) # {c} THEN {}
              ELSE {[slots |-> [p \in DOMAIN q |->
                                  IF p \in {Place(a), Place(b)} THEN [q[p] EXCEPT !.degree = @ + 1] ELSE q[p]],
                     done |-> TRUE]}
  BY <1>10 DEF CloseCycle, next
<1>12. CASE Components(q) # {c}
  <2>1. PICK x \in Components(q) : x # c
    BY <1>9, <1>12
  <2>2. x # NoComponent /\ \E v \in AtWork(n) : lab[v] = x
    BY <1>8, <2>1
  <2>3. PICK v \in AtWork(n) : lab[v] = x
    BY <2>2
  <2>4. v \in Vertex /\ lab[v] \notin {c, NoComponent}
    BY <1>3, <2>1, <2>2, <2>3
  <2> QED
    BY <1>7, <1>11, <1>12, <2>4 DEF next, q, a, b
<1>13. CASE Components(q) = {c}
  <2> DEFINE r == [p \in DOMAIN q |->
                     IF p \in {Place(a), Place(b)} THEN [q[p] EXCEPT !.degree = @ + 1] ELSE q[p]]
             f == CycleEntry(T, lab)
             g == CycleEntry(T \union {n}, lab)
  <2>1. \A v \in Vertex : lab[v] \in {c, NoComponent}
    <3> SUFFICES ASSUME NEW v \in Vertex, lab[v] # NoComponent PROVE lab[v] = c
      OBVIOUS
    <3>1. lab[v] \in Nat
      BY <1>4 DEF Labelled, Labels
    <3>2. lab[v] \in Components(q)
      BY <1>8, <3>1 DEF IsUsed
    <3> QED
      BY <1>13, <3>2
  <2>2. IsCycle(edges, T \union {n})
    BY <1>7, <2>1
  <2>3. \A v \in Vertex : Degree(T \union {n}, v) = IF v \in {a, b} THEN Degree(T, v) + 1 ELSE Degree(T, v)
    <3>1. T \in SUBSET Levels /\ n \in Levels \ T
      BY <1>1, <1>2
    <3> QED
      BY <1>1, <1>3, <3>1, DegreeAdds
  <2>4. \A v \in Vertex : Degree(T, v) \in Nat
    <3>1. T \in SUBSET Levels
      BY <1>2
    <3> QED
      BY <1>1, <3>1, DegreeIsCount
  <2>5. Labelled(T \union {n}, lab)
    <3>1. lab \in [Vertex -> Labels] /\ \A v \in Vertex : lab[v] = NoComponent <=> Degree(T, v) = 0
      BY <1>4 DEF Labelled
    <3>2. \A v \in Vertex : lab[v] = NoComponent <=> Degree(T \union {n}, v) = 0
      <4> SUFFICES ASSUME NEW v \in Vertex PROVE lab[v] = NoComponent <=> Degree(T \union {n}, v) = 0
        OBVIOUS
      <4>1. CASE v \in {a, b}
        <5>1. lab[v] # NoComponent
          BY <1>5, <4>1
        <5>2. Degree(T \union {n}, v) = Degree(T, v) + 1 /\ Degree(T, v) \in Nat
          BY <2>3, <2>4, <4>1
        <5>3. Degree(T \union {n}, v) # 0
          BY <5>2
        <5> QED
          BY <5>1, <5>3
      <4>2. CASE v \notin {a, b}
        BY <2>3, <3>1, <4>2
      <4> QED
        BY <4>1, <4>2
    <3> QED
      BY <3>1, <3>2 DEF Labelled
  <2>6. Len(q) \in Nat /\ DOMAIN q = 1 .. Len(q)
    BY <1>3
  <2>7. \A p \in 1 .. Len(q) : r[p] = IF p \in {Place(a), Place(b)} THEN [q[p] EXCEPT !.degree = @ + 1] ELSE q[p]
    BY <2>6
  <2>8. r \in Seq(CycleEntries) /\ Len(r) = Len(q)
    <3>1. \A p \in 1 .. Len(q) : q[p] \in CycleEntries
      BY <1>3
    <3>2. \A e \in CycleEntries : [e EXCEPT !.degree = @ + 1] \in CycleEntries
      BY DEF CycleEntries
    <3>3. \A p \in 1 .. Len(q) : r[p] \in CycleEntries
      BY <2>7, <3>1, <3>2
    <3>4. r = [p \in 1 .. Len(q) |-> r[p]]
      BY <2>6
    <3> HIDE DEF r
    <3> QED
      BY <2>6, <3>3, <3>4
  <2> HIDE DEF r
  <2>9. \A v \in AtWork(n) : r[Place(v)] = g[v]
    <3> SUFFICES ASSUME NEW v \in AtWork(n) PROVE r[Place(v)] = g[v]
      OBVIOUS
    <3>1. g[v] = [degree |-> Degree(T \union {n}, v), component |-> lab[v]]
      BY <1>3 DEF CycleEntry
    <3>2. q[Place(v)] = [degree |-> Degree(T, v), component |-> lab[v]] /\ Place(v) \in 1 .. Len(q) /\ v \in Vertex
      BY <1>3
    <3> HIDE DEF g
    <3>3. CASE v \in {a, b}
      <4>1. r[Place(v)] = [q[Place(v)] EXCEPT !.degree = @ + 1]
        BY <1>3, <2>7, <3>2, <3>3
      <4> QED
        BY <2>3, <3>1, <3>2, <3>3, <4>1
    <3>4. CASE v \notin {a, b}
      <4>1. r[Place(v)] = q[Place(v)]
        BY <1>3, <2>7, <3>2, <3>4
      <4> QED
        BY <2>3, <3>1, <3>2, <3>4, <4>1
    <3> QED
      BY <3>3, <3>4
  <2>10. \A p \in 1 .. Len(q) : (\A v \in AtWork(n) : Place(v) # p) => r[p] = q[p]
    BY <1>3, <2>7
  <2>11. Shows(q, AtWork(n), f, CycleSlot, CycleEntries)
    BY DEF TellsCycle, q, T
  <2>12. Shows(r, AtWork(n), g, CycleSlot, CycleEntries)
    <3> HIDE DEF f, g
    <3> QED
      BY <2>8, <2>9, <2>10, <2>11, ChangeShows
  <2>13. PICK x : x = [slots |-> r, done |-> TRUE]
    OBVIOUS
  <2>14. x \in [slots : Seq(CycleEntries), done : BOOLEAN] /\ x.slots = r /\ x.done = TRUE
    BY <2>8, <2>13
  <2>15. T \union {n} \in SUBSET Levels
    BY <1>1, <1>2
  <2>16. TellsCycle(x, T \union {n}, lab, AtWork(n))
    BY <2>2, <2>5, <2>12, <2>14, <2>15 DEF TellsCycle
  <2>17. next = {x}
    BY <1>11, <1>13, <2>13 DEF r
  <2>18. TellsCycle(x, UpTo(S, n), lab, AtWork(n))
    BY <1>2, <2>16
  <2> QED
    BY <2>17, <2>18 DEF next, q, a, b
<1> QED
  BY <1>12, <1>13

\* The joining step.
LEMMA CycleJoins ==
  ASSUME PlanDone, NEW n \in 1 .. Len(edges), NEW S \in SUBSET Levels, n \in S, NEW lab, NEW s,
         TellsCycle(s, UpTo(S, n - 1), lab, AtWork(n)), ~s.done,
         Degree(UpTo(S, n - 1), edges[n][1]) <= 1, Degree(UpTo(S, n - 1), edges[n][2]) <= 1,
         lab[edges[n][1]] = NoComponent \/ lab[edges[n][1]] # lab[edges[n][2]]
  PROVE  \E next : TellsCycle([slots |-> JoinCycle(s.slots, Place(edges[n][1]), Place(edges[n][2])), done |-> s.done],
                              UpTo(S, n), next, AtWork(n))
<1> DEFINE T == UpTo(S, n - 1)
           a == edges[n][1]
           b == edges[n][2]
           q == s.slots
           label == JoinedComponent(q, Place(a), Place(b))
           next == JoinedLabels(lab, n, label)
           r == JoinCycle(q, Place(a), Place(b))
           f == CycleEntry(T, lab)
           g == CycleEntry(T \union {n}, next)
<1>1. edges \in Orders /\ n \in Levels
  BY StepsOfPlan
<1>2. T \in SUBSET S /\ n \in S \ T /\ UpTo(S, n) = T \union {n}
  BY UpToNext DEF UpTo
<1>3. a \in AtWork(n) /\ b \in AtWork(n) /\ a # b /\ Ends(n) = {a, b}
      /\ q \in Seq(CycleEntries) /\ Place(a) \in 1 .. Len(q) /\ Place(b) \in 1 .. Len(q)
      /\ \A v \in AtWork(n) : /\ v \in Vertex /\ Place(v) \in 1 .. Len(q)
                              /\ q[Place(v)] = [degree |-> Degree(T, v), component |-> lab[v]]
                              /\ Place(v) = Place(a) <=> v = a
                              /\ Place(v) = Place(b) <=> v = b
  BY CycleEnds
<1>4. Strands(T, lab) /\ Shows(q, AtWork(n), f, CycleSlot, CycleEntries)
      /\ \A v \in Vertex : Degree(T, v) = 1 => v \in AtWork(n)
  BY DEF TellsCycle
<1>5. Degree(T, a) <= 1 /\ Degree(T, b) <= 1 /\ (lab[a] = NoComponent \/ lab[a] # lab[b])
  OBVIOUS
<1>6. \A x \in Nat : IsUsed(lab, x) => x \in Components(q)
  <2>1. AtWork(n) \in SUBSET Vertex
    BY WorkAt
  <2>2. TellsCycle(s, T, lab, AtWork(n)) /\ ~s.done
    OBVIOUS
  <2> HIDE DEF T
  <2> QED
    BY <2>1, <2>2, CycleLabelsShown
<1>7. next = [v \in Vertex |-> IF Joins(lab, a, b, v) THEN label ELSE lab[v]]
  BY DEF JoinedLabels
<1>8. s.done = FALSE
  BY DEF TellsCycle
<1> HIDE DEF T, q, label, a, b, next
<1>9. /\ q[Place(a)] = [degree |-> Degree(T, a), component |-> lab[a]]
      /\ q[Place(b)] = [degree |-> Degree(T, b), component |-> lab[b]]
      /\ a \in Vertex /\ b \in Vertex
  BY <1>3
<1>10. q[Place(a)].component = lab[a] /\ q[Place(b)].component = lab[b]
  BY <1>9
<1>11. label \in Nat /\ (IsUsed(lab, label) => label \in {lab[a], lab[b]})
  BY <1>3, <1>6, <1>10, CycleEntriesAre, JoinedIsFree DEF label
<1>12. lab[a] # NoComponent => label = lab[a]
  BY <1>10 DEF JoinedComponent, label
<1>13. Joinable(T, lab, n, label)
  BY <1>1, <1>2, <1>5, <1>11 DEF Joinable, a, b
<1>14. Strands(T \union {n}, next)
  BY <1>1, <1>4, <1>13, JoinStrands DEF next
<1>15. T \in SUBSET Levels /\ n \in Levels \ T
  BY <1>1, <1>2
<1>16. \A v : Degree(T \union {n}, v) = IF v \in {a, b} THEN Degree(T, v) + 1 ELSE Degree(T, v)
  BY <1>1, <1>3, <1>15, DegreeAdds
<1>17. \A v \in Vertex : Degree(T, v) \in Nat
  BY <1>1, <1>15, DegreeIsCount
<1>18. r = [p \in DOMAIN q |->
              IF p \in {Place(a), Place(b)} THEN [degree |-> q[p].degree + 1, component |-> label]
              ELSE IF lab[b] # NoComponent /\ q[p].component = lab[b]
                   THEN [q[p] EXCEPT !.component = label]
                   ELSE q[p]]
  BY <1>10 DEF JoinCycle, label
<1> HIDE DEF r
<1>19. Len(q) \in Nat /\ DOMAIN q = 1 .. Len(q) /\ \A p \in 1 .. Len(q) : q[p] \in CycleEntries
  BY <1>3
<1>20. \A p \in 1 .. Len(q) :
         r[p] = IF p \in {Place(a), Place(b)} THEN [degree |-> q[p].degree + 1, component |-> label]
                ELSE IF lab[b] # NoComponent /\ q[p].component = lab[b]
                     THEN [q[p] EXCEPT !.component = label]
                     ELSE q[p]
  BY <1>18, <1>19
<1>21. r \in Seq(CycleEntries) /\ Len(r) = Len(q)
  <2>1. \A e \in CycleEntries : /\ [degree |-> e.degree + 1, component |-> label] \in CycleEntries
                                /\ [e EXCEPT !.component = label] \in CycleEntries
    BY <1>11 DEF CycleEntries, Labels
  <2>2. \A p \in 1 .. Len(q) : r[p] \in CycleEntries
    BY <1>19, <1>20, <2>1
  <2>3. r = [p \in 1 .. Len(q) |-> r[p]]
    BY <1>18, <1>19
  <2> QED
    BY <1>19, <2>2, <2>3
<1>22. \A v \in AtWork(n) : r[Place(v)] = g[v]
  <2> SUFFICES ASSUME NEW v \in AtWork(n) PROVE r[Place(v)] = g[v]
    OBVIOUS
  <2>1. q[Place(v)] = [degree |-> Degree(T, v), component |-> lab[v]] /\ Place(v) \in 1 .. Len(q) /\ v \in Vertex
    BY <1>3
  <2>2. g[v] = [degree |-> Degree(T \union {n}, v), component |-> next[v]]
    BY <2>1 DEF CycleEntry
  <2>3. next[v] = IF Joins(lab, a, b, v) THEN label ELSE lab[v]
    BY <1>7, <2>1
  <2> HIDE DEF g
  <2>4. q[Place(v)].degree = Degree(T, v) /\ q[Place(v)].component = lab[v]
    BY <2>1
  <2>5. CASE v \in {a, b}
    <3>1. r[Place(v)] = [degree |-> Degree(T, v) + 1, component |-> label]
      BY <1>20, <2>1, <2>4, <2>5
    <3>2. next[v] = label
      BY <2>3, <2>5 DEF Joins
    <3> QED
      BY <1>16, <2>2, <2>5, <3>1, <3>2
  <2>6. CASE v \notin {a, b} /\ lab[b] # NoComponent /\ lab[v] = lab[b]
    <3>1. r[Place(v)] = [q[Place(v)] EXCEPT !.component = label]
      BY <1>3, <1>20, <2>1, <2>4, <2>6
    <3>2. r[Place(v)] = [degree |-> Degree(T, v), component |-> label]
      BY <2>1, <3>1
    <3>3. next[v] = label
      BY <2>3, <2>6 DEF Joins
    <3> QED
      BY <1>16, <2>2, <2>6, <3>2, <3>3
  <2>7. CASE v \notin {a, b} /\ ~(lab[b] # NoComponent /\ lab[v] = lab[b])
    <3>1. r[Place(v)] = q[Place(v)]
      BY <1>3, <1>20, <2>1, <2>4, <2>7
    <3>2. next[v] = lab[v]
      BY <1>12, <2>3, <2>7 DEF Joins
    <3> QED
      BY <1>16, <2>1, <2>2, <2>7, <3>1, <3>2
  <2> QED
    BY <2>5, <2>6, <2>7
<1>23. \A p \in 1 .. Len(q) : (\A v \in AtWork(n) : Place(v) # p) => r[p] = q[p]
  <2> SUFFICES ASSUME NEW p \in 1 .. Len(q), \A v \in AtWork(n) : Place(v) # p PROVE r[p] = q[p]
    OBVIOUS
  <2>1. p \notin {Place(a), Place(b)}
    BY <1>3
  <2>2. q[p] = CycleSlot
    BY <1>4 DEF Shows
  <2>3. q[p].component = NoComponent
    BY <2>2 DEF CycleSlot
  <2> QED
    BY <1>20, <2>1, <2>3
<1>24. Shows(r, AtWork(n), g, CycleSlot, CycleEntries)
  <2> HIDE DEF f, g
  <2> QED
    BY <1>4, <1>21, <1>22, <1>23, ChangeShows
<1>25. \A v \in Vertex : Degree(T \union {n}, v) = 1 => v \in AtWork(n)
  BY <1>3, <1>4, <1>16
<1>26. PICK x : x = [slots |-> r, done |-> s.done]
  OBVIOUS
<1>27. x \in [slots : Seq(CycleEntries), done : BOOLEAN] /\ x.slots = r /\ x.done = FALSE
  BY <1>8, <1>21, <1>26
<1>28. T \union {n} \in SUBSET Levels /\ Labelled(T \union {n}, next)
  BY <1>14 DEF Strands
<1>29. TellsCycle(x, T \union {n}, next, AtWork(n))
  BY <1>14, <1>24, <1>25, <1>27, <1>28 DEF TellsCycle
<1>30. TellsCycle([slots |-> r, done |-> s.done], UpTo(S, n), next, AtWork(n))
  BY <1>2, <1>26, <1>29
<1> QED
  BY <1>30 DEF r, q, a, b

\* What the states after a step tell of the next selection: rejected only when
\* it leads to no cycle.
CycleGoes(next, S, n, W) ==
  \/ next = {} /\ ~IsCycle(edges, S)
  \/ \E r, lab : next = {r} /\ TellsCycle(r, UpTo(S, n), lab, W)

\* Including an edge rejects no cycle.
LEMMA CycleIncludes ==
  ASSUME PlanDone, NEW n \in 1 .. Len(edges), NEW S \in SUBSET Levels, n \in S, NEW lab, NEW s,
         TellsCycle(s, UpTo(S, n - 1), lab, AtWork(n))
  PROVE  CycleGoes(CycleInclude(s.slots, s.done, steps[n]), S, n, AtWork(n))
<1> DEFINE T == UpTo(S, n - 1)
           a == edges[n][1]
           b == edges[n][2]
           q == s.slots
           next == CycleInclude(q, s.done, steps[n])
<1>1. edges \in Orders /\ n \in Levels
  BY StepsOfPlan
<1>2. T \in SUBSET S /\ n \in S \ T
  BY UpToNext DEF UpTo
<1>3. a \in AtWork(n) /\ b \in AtWork(n) /\ a # b /\ Ends(n) = {a, b}
      /\ Position(steps[n], 1) = Place(a) /\ Position(steps[n], 2) = Place(b)
      /\ \A v \in AtWork(n) : /\ v \in Vertex /\ Place(v) \in 1 .. Len(q)
                              /\ q[Place(v)] = [degree |-> Degree(T, v), component |-> lab[v]]
  BY CycleEnds
<1>4. TellsCycle(s, T, lab, AtWork(n))
  OBVIOUS
<1> HIDE DEF T, a, b, q, next
<1>5. /\ q[Place(a)].degree = Degree(T, a) /\ q[Place(a)].component = lab[a]
      /\ q[Place(b)].degree = Degree(T, b) /\ q[Place(b)].component = lab[b]
  <2>1. /\ q[Place(a)] = [degree |-> Degree(T, a), component |-> lab[a]]
        /\ q[Place(b)] = [degree |-> Degree(T, b), component |-> lab[b]]
    BY <1>3
  <2> QED
    BY <2>1
<1>6. next = IF s.done \/ Degree(T, a) >= 2 \/ Degree(T, b) >= 2 THEN {}
             ELSE IF lab[a] # NoComponent /\ lab[a] = lab[b] THEN CloseCycle(q, Place(a), Place(b))
             ELSE {[slots |-> JoinCycle(q, Place(a), Place(b)), done |-> s.done]}
  BY <1>3, <1>5 DEF CycleInclude, next
<1>7. Degree(T, a) \in Nat /\ Degree(T, b) \in Nat
  <2>1. T \in SUBSET Levels
    BY <1>2
  <2> QED
    BY <1>1, <2>1, DegreeIsCount
<1>8. CASE s.done \/ Degree(T, a) >= 2 \/ Degree(T, b) >= 2
  <2>1. IsCycle(edges, T) \/ \E v \in Ends(n) : Degree(T, v) >= 2
    BY <1>3, <1>4, <1>8 DEF TellsCycle
  <2>2. ~IsCycle(edges, S)
    BY <1>1, <1>2, <2>1, TooManyEdges
  <2>3. CycleGoes(next, S, n, AtWork(n))
    BY <1>6, <1>8, <2>2 DEF CycleGoes
  <2> QED
    BY <2>3 DEF next, q
<1>9. CASE ~(s.done \/ Degree(T, a) >= 2 \/ Degree(T, b) >= 2)
  <2>1. Degree(T, a) <= 1 /\ Degree(T, b) <= 1 /\ ~s.done
    BY <1>7, <1>9
  <2>2. Degree(UpTo(S, n - 1), edges[n][1]) <= 1 /\ Degree(UpTo(S, n - 1), edges[n][2]) <= 1
    BY <2>1 DEF T, a, b
  <2>3. CASE lab[a] # NoComponent /\ lab[a] = lab[b]
    <3>1. PICK x : x = CloseCycle(s.slots, Place(edges[n][1]), Place(edges[n][2]))
      OBVIOUS
    <3>2. lab[edges[n][1]] # NoComponent /\ lab[edges[n][1]] = lab[edges[n][2]]
      BY <2>3 DEF a, b
    <3>3. \/ x = {} /\ ~IsCycle(edges, S)
          \/ \E r : x = {r} /\ TellsCycle(r, UpTo(S, n), lab, AtWork(n))
      BY <2>1, <2>2, <3>1, <3>2, CycleCloses
    <3>4. next = x
      BY <1>6, <1>9, <2>3, <3>1 DEF q, a, b
    <3> QED
      BY <3>3, <3>4 DEF CycleGoes, next, q
  <2>4. CASE ~(lab[a] # NoComponent /\ lab[a] = lab[b])
    <3>1. PICK x : x = [slots |-> JoinCycle(s.slots, Place(edges[n][1]), Place(edges[n][2])), done |-> s.done]
      OBVIOUS
    <3>2. lab[edges[n][1]] = NoComponent \/ lab[edges[n][1]] # lab[edges[n][2]]
      BY <2>4 DEF a, b
    <3>3. \E y : TellsCycle(x, UpTo(S, n), y, AtWork(n))
      BY <2>1, <2>2, <3>1, <3>2, CycleJoins
    <3>4. next = {x}
      BY <1>6, <1>9, <2>4, <3>1 DEF q, a, b
    <3> QED
      BY <3>3, <3>4 DEF CycleGoes, next, q
  <2> QED
    BY <2>3, <2>4
<1> QED
  BY <1>8, <1>9

\* Who leaves must have two edges or none.
LEMMA CycleForgets ==
  ASSUME PlanDone, NEW n \in 1 .. Len(edges), NEW S \in SUBSET Levels, NEW lab, NEW s,
         TellsCycle(s, UpTo(S, n), lab, AtWork(n))
  PROVE  CycleGoes(CycleForget(s, steps[n]), S, n, Boundary(n))
<1> DEFINE T == UpTo(S, n)
           q == s.slots
           cut == [p \in DOMAIN q |-> IF p \in Out(n) THEN CycleSlot ELSE q[p]]
           closing == {q[p].component : p \in Out(n)} \ {NoComponent}
           next == CycleForget(s, steps[n])
           f == CycleEntry(T, lab)
           r == [s EXCEPT !.slots = cut]
<1>1. edges \in Orders /\ n \in Levels
  BY StepsOfPlan
<1>2. T \in SUBSET S /\ T \in SUBSET Levels
  BY DEF UpTo
<1>3. next = IF \/ \E p \in Out(n) : q[p].degree \notin {0, 2}
                \/ ~s.done /\ ~(closing \subseteq Components(cut))
             THEN {} ELSE {r}
  BY DEF CycleForget, Out
<1>4. AtWork(n) \subseteq Vertex /\ Boundary(n) \subseteq AtWork(n)
  BY WorkAt
<1>5. Shows(q, AtWork(n), f, CycleSlot, CycleEntries)
  BY DEF TellsCycle
<1>6. \A v \in AtWork(n) : /\ q[Place(v)].degree = Degree(T, v) /\ q[Place(v)].component = lab[v]
  <2> SUFFICES ASSUME NEW v \in AtWork(n)
               PROVE  q[Place(v)].degree = Degree(T, v) /\ q[Place(v)].component = lab[v]
    OBVIOUS
  <2>1. q[Place(v)] = [degree |-> Degree(T, v), component |-> lab[v]]
    BY <1>4, <1>5 DEF Shows, CycleEntry
  <2> QED
    BY <2>1
<1>7. Out(n) = {Place(v) : v \in AtWork(n) \ Boundary(n)}
  BY OutAt
<1>8. Labelled(T, lab) /\ s \in [slots : Seq(CycleEntries), done : BOOLEAN]
      /\ (s.done => IsCycle(edges, T))
      /\ (~s.done => Strands(T, lab) /\ \A v \in Vertex : Degree(T, v) = 1 => v \in AtWork(n))
  BY DEF TellsCycle
<1>9. Shows(cut, Boundary(n), f, CycleSlot, CycleEntries)
  <2> HIDE DEF f
  <2> QED
    BY <1>5, CycleEntriesAre, ForgetShows
<1> HIDE DEF T, q, cut, closing, next
<1>10. CASE \E p \in Out(n) : q[p].degree \notin {0, 2}
  <2>1. PICK v \in AtWork(n) \ Boundary(n) : Degree(T, v) \notin {0, 2}
    BY <1>6, <1>7, <1>10
  <2>2. Degree(S, v) = Degree(T, v)
    BY LeavingDegree DEF T
  <2>3. v \in Touched(edges, S)
    BY <1>1, <2>1, <2>2, DegreeZero
  <2>4. ~IsCycle(edges, S)
    BY <2>1, <2>2, <2>3 DEF IsCycle, Degree
  <2> QED
    BY <1>3, <1>10, <2>4 DEF CycleGoes, next
<1>11. CASE ~(\E p \in Out(n) : q[p].degree \notin {0, 2})
  <2>1. \A v \in AtWork(n) \ Boundary(n) : Degree(T, v) \in {0, 2}
    <3> SUFFICES ASSUME NEW v \in AtWork(n) \ Boundary(n) PROVE Degree(T, v) \in {0, 2}
      OBVIOUS
    <3>1. Place(v) \in Out(n) /\ q[Place(v)].degree = Degree(T, v)
      BY <1>6, <1>7
    <3> QED
      BY <1>11, <3>1
  <2>2. ~s.done => \A v \in Vertex : Degree(T, v) = 1 => v \in Boundary(n)
    BY <1>8, <2>1
  <2>3. ASSUME NEW cuts, cuts = cut
        PROVE  r \in [slots : Seq(CycleEntries), done : BOOLEAN] /\ r.slots = cuts /\ r.done = s.done
    <3>1. cuts \in Seq(CycleEntries)
      BY <1>9, <2>3 DEF Shows
    <3> QED
      BY <1>8, <2>3, <3>1
  <2>4. TellsCycle(r, T, lab, Boundary(n))
    <3>1. r \in [slots : Seq(CycleEntries), done : BOOLEAN] /\ r.slots = cut /\ r.done = s.done
      BY <2>3
    <3> HIDE DEF r
    <3> QED
      BY <1>2, <1>8, <1>9, <2>2, <3>1 DEF TellsCycle
  <2>5. ~s.done => closing \subseteq Components(cut)
    <3> SUFFICES ASSUME ~s.done, NEW c \in closing PROVE c \in Components(cut)
      OBVIOUS
    <3>1. PICK p \in Out(n) : c = q[p].component /\ c # NoComponent
      BY DEF closing
    <3>2. PICK v \in AtWork(n) : p = Place(v)
      BY <1>7
    <3>3. lab[v] = c /\ v \in Vertex
      BY <1>4, <1>6, <3>1, <3>2
    <3>4. c \in Nat /\ IsUsed(lab, c)
      BY <1>8, <3>1, <3>3 DEF Labelled, Labels, IsUsed
    <3>5. r.slots = cut /\ r.done = s.done
      BY <2>3
    <3>6. Boundary(n) \in SUBSET Vertex
      BY <1>4
    <3> HIDE DEF r
    <3>7. c \in Components(r.slots)
      BY <2>4, <3>4, <3>5, <3>6, CycleLabelsShown
    <3> QED
      BY <3>5, <3>7
  <2> HIDE DEF r
  <2>6. next = {r}
    BY <1>3, <1>11, <2>5
  <2> QED
    BY <2>4, <2>6 DEF CycleGoes, next, T
<1> QED
  BY <1>10, <1>11

\* The canonical state tells the same under other labels.
LEMMA CycleCanonical ==
  ASSUME PlanDone, NEW n \in 0 .. Len(edges), NEW T, NEW lab, NEW s, TellsCycle(s, T, lab, Boundary(n))
  PROVE  \E next : TellsCycle(CycleCanonicalize(s, BoundaryView(n)), T, next, Boundary(n))
<1> DEFINE W == Boundary(n)
           q == Truncate(s.slots, BoundaryView(n))
           r == Renumbered(q)
           ren == Ranks(q)
           next == Renamed(lab, ren)
           f == CycleEntry(T, lab)
           g == CycleEntry(T, next)
           t == [s EXCEPT !.slots = q]
           x == [s EXCEPT !.slots = r]
<1>1. edges \in Orders
  BY StepsOfPlan
<1>2. /\ s \in [slots : Seq(CycleEntries), done : BOOLEAN]
      /\ Shows(s.slots, W, f, CycleSlot, CycleEntries)
      /\ T \in SUBSET Levels
      /\ Labelled(T, lab)
      /\ s.done => IsCycle(edges, T)
      /\ ~s.done => Strands(T, lab) /\ \A v \in Vertex : Degree(T, v) = 1 => v \in W
  BY DEF TellsCycle
<1>3. W \in SUBSET Vertex
  BY DEF Boundary
<1>4. Shows(q, W, f, CycleSlot, CycleEntries)
  <2> HIDE DEF f
  <2> QED
    BY <1>2, CycleEntriesAre, TruncateShows
<1>5. CycleCanonicalize(s, BoundaryView(n)) = x
  BY <1>2 DEF CycleCanonicalize
<1> HIDE DEF W, q
<1>6. t \in [slots : Seq(CycleEntries), done : BOOLEAN] /\ t.slots = q /\ t.done = s.done
  <2>1. q \in Seq(CycleEntries)
    BY <1>4 DEF Shows
  <2> QED
    BY <1>2, <2>1
<1> HIDE DEF t
<1>7. TellsCycle(t, T, lab, W)
  BY <1>2, <1>4, <1>6 DEF TellsCycle
<1>8. /\ \A c : c \in Components(q) <=> c # NoComponent /\ \E v \in W : lab[v] = c
      /\ ~s.done => \A c \in Nat : IsUsed(lab, c) => c \in Components(q)
  <2> HIDE DEF r, ren, next, f, g, x
  <2>1. \A c : c \in Components(t.slots) <=> c # NoComponent /\ \E v \in W : lab[v] = c
    BY ONLY <1>3, <1>7, CycleLabelsShown
  <2>2. ~t.done => \A c \in Nat : IsUsed(lab, c) => c \in Components(t.slots)
    BY <1>3, <1>7, CycleLabelsShown
  <2> QED
    BY <1>6, <2>1, <2>2
<1>9. \A v \in W : f[v] = [degree |-> Degree(T, v), component |-> lab[v]] /\ f[v].component = lab[v]
  BY <1>3 DEF CycleEntry
<1>10. \A v \in W : g[v] = IF lab[v] = NoComponent THEN f[v] ELSE [f[v] EXCEPT !.component = ren[lab[v]]]
  <2> SUFFICES ASSUME NEW v \in W
               PROVE  g[v] = IF lab[v] = NoComponent THEN f[v] ELSE [f[v] EXCEPT !.component = ren[lab[v]]]
    OBVIOUS
  <2>1. g[v] = [degree |-> Degree(T, v), component |-> next[v]]
    BY <1>3 DEF CycleEntry
  <2>2. next[v] = IF lab[v] = NoComponent THEN NoComponent ELSE ren[lab[v]]
    BY <1>3 DEF Renamed
  <2>3. f[v] = [degree |-> Degree(T, v), component |-> lab[v]]
    BY <1>9
  <2> HIDE DEF f, g, next, ren
  <2> QED
    BY <2>1, <2>2, <2>3
<1> HIDE DEF f, g, r, next
<1>11. PICK m : m = Ranks(q)
  OBVIOUS
<1>12. Shows(r, W, g, CycleSlot, CycleEntries) /\ m \in [Nat -> Nat] /\ ApartIn(W, lab, m)
  <2>1. Relabels(f, g, lab, m, W)
    BY <1>9, <1>10, <1>11 DEF Relabels
  <2> QED
    BY <1>4, <1>11, <2>1, CycleEntriesAre, RenumberShows DEF r
<1>13. next = Renamed(lab, m)
  BY <1>11 DEF next
<1>14. Labelled(T, next)
  BY <1>1, <1>2, <1>12, <1>13, RenamedLabels
<1>15. ~s.done => Strands(T, next)
  <2> SUFFICES ASSUME ~s.done PROVE Strands(T, next)
    OBVIOUS
  <2>1. ASSUME NEW u \in Vertex, lab[u] # NoComponent
        PROVE  \E w \in W : lab[w] = lab[u]
    <3>1. lab[u] \in Nat /\ IsUsed(lab, lab[u])
      BY <1>2, <2>1 DEF Labelled, Labels, IsUsed
    <3> QED
      BY <1>8, <3>1
  <2>2. KeepsApart(lab, m)
    <3> SUFFICES ASSUME NEW u \in Vertex, NEW v \in Vertex, lab[u] # NoComponent, lab[v] # NoComponent,
                        m[lab[u]] = m[lab[v]]
                 PROVE  lab[u] = lab[v]
      BY DEF KeepsApart
    <3>1. PICK w \in W : lab[w] = lab[u]
      BY <2>1
    <3>2. PICK y \in W : lab[y] = lab[v]
      BY <2>1
    <3> QED
      BY <1>12, <3>1, <3>2 DEF ApartIn
  <2> QED
    BY <1>1, <1>2, <1>12, <1>13, <2>2, RenamedStrands
<1>16. x \in [slots : Seq(CycleEntries), done : BOOLEAN] /\ x.slots = r /\ x.done = s.done
  <2>1. r \in Seq(CycleEntries)
    BY <1>12 DEF Shows
  <2> QED
    BY <1>2, <2>1
<1> HIDE DEF x
<1>17. TellsCycle(x, T, next, W)
  BY <1>2, <1>12, <1>14, <1>15, <1>16 DEF TellsCycle, g
<1> QED
  BY <1>5, <1>17 DEF W

\* A whole step.
LEMMA CycleStep ==
  ASSUME PlanDone, NEW n \in 1 .. Len(edges), NEW S \in SUBSET Levels, NEW lab, NEW s, NEW p,
         TellsCycle(s, UpTo(S, n - 1), lab, Boundary(n - 1))
  PROVE  CycleGoes(CycleTransition(p, s, steps[n], ChoiceAt(S, n)), S, n, Boundary(n))
<1> DEFINE q == Introduced(s.slots, steps[n], CycleSlot)
           t == [s EXCEPT !.slots = q]
           chosen == IF ChoiceAt(S, n) = "include" THEN CycleInclude(q, s.done, steps[n]) ELSE {t}
           next == CycleTransition(p, s, steps[n], ChoiceAt(S, n))
<1>1. TellsCycle(t, UpTo(S, n - 1), lab, AtWork(n))
  BY CycleEnters
<1>2. t.slots = q /\ t.done = s.done
  <2>1. s \in [slots : Seq(CycleEntries), done : BOOLEAN]
    BY DEF TellsCycle
  <2> HIDE DEF q
  <2> QED
    BY <2>1
<1>3. next = UNION {CycleForget(c, steps[n]) : c \in chosen}
  BY DEF CycleTransition
<1>4. ChoiceAt(S, n) = "include" <=> n \in S
  BY DEF ChoiceAt
<1> HIDE DEF q, t, next
<1>5. CycleGoes(chosen, S, n, AtWork(n))
  <2>1. CASE n \in S
    <3>1. CycleGoes(CycleInclude(t.slots, t.done, steps[n]), S, n, AtWork(n))
      BY <1>1, <2>1, CycleIncludes
    <3> QED
      BY <1>2, <1>4, <2>1, <3>1
  <2>2. CASE n \notin S
    <3>1. UpTo(S, n) = UpTo(S, n - 1)
      BY <2>2, UpToNext
    <3>2. chosen = {t}
      BY <1>4, <2>2
    <3> QED
      BY <1>1, <3>1, <3>2 DEF CycleGoes
  <2> QED
    BY <2>1, <2>2
<1> HIDE DEF chosen
<1>6. CASE chosen = {} /\ ~IsCycle(edges, S)
  <2>1. next = {}
    BY <1>3, <1>6
  <2> QED
    BY <1>6, <2>1 DEF CycleGoes, next
<1>7. CASE \E r, y : chosen = {r} /\ TellsCycle(r, UpTo(S, n), y, AtWork(n))
  <2>1. PICK r, y : chosen = {r} /\ TellsCycle(r, UpTo(S, n), y, AtWork(n))
    BY <1>7
  <2>2. next = CycleForget(r, steps[n])
    BY <1>3, <2>1
  <2>3. CycleGoes(CycleForget(r, steps[n]), S, n, Boundary(n))
    BY <2>1, CycleForgets
  <2> QED
    BY <2>2, <2>3 DEF next
<1> QED
  BY <1>5, <1>6, <1>7 DEF CycleGoes

\* The first state tells of no edges.
LEMMA CycleStarts ==
  ASSUME PlanDone, NEW S \in SUBSET Levels
  PROVE  \E lab : TellsCycle([slots |-> << >>, done |-> FALSE], UpTo(S, 0), lab, Boundary(0))
<1> DEFINE lab == [v \in Vertex |-> NoComponent]
           s == [slots |-> << >>, done |-> FALSE]
<1>1. edges \in Orders /\ UpTo(S, 0) = {} /\ Boundary(0) = {}
  BY StepsOfPlan, UpToEnds, OuterBoundaries
<1>2. {} \in SUBSET Levels
  OBVIOUS
<1>3. \A v \in Vertex : Degree({}, v) = 0
  BY <1>1, <1>2, DegreeZero
<1>4. Labelled({}, lab)
  BY <1>3 DEF Labelled, Labels
<1>5. ~ \E c \in Nat : IsUsed(lab, c)
  BY DEF IsUsed, NoComponent
<1>6. Strands({}, lab)
  BY <1>2, <1>4, <1>5 DEF Strands
<1>7. Shows(<< >>, {}, CycleEntry({}, lab), CycleSlot, CycleEntries)
  BY DEF Shows
<1>8. s \in [slots : Seq(CycleEntries), done : BOOLEAN] /\ s.slots = << >> /\ s.done = FALSE
  OBVIOUS
<1> HIDE DEF s, lab
<1>9. TellsCycle(s, {}, lab, {})
  BY <1>2, <1>3, <1>4, <1>6, <1>7, <1>8 DEF TellsCycle
<1> QED
  BY <1>1, <1>9 DEF s

\* The run of a selection is rejected only if it is no cycle, and tells what it
\* has selected.
LEMMA CycleRuns ==
  ASSUME PlanDone, SolvesCycles, problem \in Problems, NEW S \in SUBSET Levels
  PROVE  \A n \in 0 .. Len(edges) : CycleGoes(Run(S)[n], S, n, Boundary(n))
<1>1. Len(edges) \in Nat /\ Levels = 1 .. Len(edges) /\ edges \in Orders
  BY StepsOfPlan
<1>2. /\ Run(S)[0] = FirstState
      /\ \A n \in 1 .. Len(edges) : Run(S)[n] = Follow(Run(S)[n - 1], n, ChoiceAt(S, n))
  BY <1>1, RunUnfolds DEF RunNext
<1>3. CycleGoes(Run(S)[0], S, 0, Boundary(0))
  <2>1. PICK s : s = [slots |-> << >>, done |-> FALSE]
    OBVIOUS
  <2>2. InitialState(problem, V, edges) = {s}
    BY <1>1, <2>1 DEF SolvesCycles, CycleInitial
  <2>3. FirstState = {CycleCanonicalize(s, BoundaryView(0))}
    BY <2>2, CanonicalOfOne, FirstView DEF FirstState, SolvesCycles
  <2>4. \E lab : TellsCycle(s, UpTo(S, 0), lab, Boundary(0))
    BY <2>1, CycleStarts
  <2>5. 0 \in 0 .. Len(edges)
    BY <1>1
  <2>6. \E lab : TellsCycle(CycleCanonicalize(s, BoundaryView(0)), UpTo(S, 0), lab, Boundary(0))
    BY <2>4, <2>5, CycleCanonical
  <2> QED
    BY <1>2, <2>3, <2>6 DEF CycleGoes
<1>4. ASSUME NEW n \in Nat, n < Len(edges), CycleGoes(Run(S)[n], S, n, Boundary(n))
      PROVE  CycleGoes(Run(S)[n + 1], S, n + 1, Boundary(n + 1))
  <2>1. n + 1 \in 1 .. Len(edges) /\ (n + 1) - 1 = n
    BY <1>1, <1>4
  <2>2. PICK m : m = n + 1
    OBVIOUS
  <2>3. m \in 1 .. Len(edges) /\ m \in 0 .. Len(edges) /\ m - 1 = n
    BY <2>1, <2>2
  <2>4. Run(S)[m] = Follow(Run(S)[m - 1], m, ChoiceAt(S, m))
    BY <1>2, <2>3
  <2>5. CASE Run(S)[n] = {} /\ ~IsCycle(edges, S)
    <3>1. Run(S)[m] = {}
      BY <2>3, <2>4, <2>5, FollowOption
    <3> QED
      BY <2>2, <2>5, <3>1 DEF CycleGoes
  <2>6. CASE \E r, y : Run(S)[n] = {r} /\ TellsCycle(r, UpTo(S, n), y, Boundary(n))
    <3>1. PICK r, y : Run(S)[m - 1] = {r} /\ TellsCycle(r, UpTo(S, m - 1), y, Boundary(m - 1))
      BY <2>3, <2>6
    <3>2. PICK next : next = CycleTransition(problem, r, steps[m], ChoiceAt(S, m))
      OBVIOUS
    <3>3. Run(S)[m] = Canonical(next, BoundaryView(m))
      <4>1. Transition(problem, r, steps[m], ChoiceAt(S, m)) = next
        BY <3>2 DEF SolvesCycles
      <4> QED
        BY <2>4, <3>1, <4>1, FollowOption
    <3>4. CycleGoes(next, S, m, Boundary(m))
      BY <2>3, <3>1, <3>2, CycleStep
    <3>5. CASE next = {} /\ ~IsCycle(edges, S)
      <4>1. Run(S)[m] = {}
        BY <3>3, <3>5, CanonicalOfOne
      <4> QED
        BY <2>2, <3>5, <4>1 DEF CycleGoes
    <3>6. CASE \E x, z : next = {x} /\ TellsCycle(x, UpTo(S, m), z, Boundary(m))
      <4>1. PICK x, z : next = {x} /\ TellsCycle(x, UpTo(S, m), z, Boundary(m))
        BY <3>6
      <4>2. Run(S)[m] = {CycleCanonicalize(x, BoundaryView(m))}
        BY <3>3, <4>1, CanonicalOfOne DEF SolvesCycles
      <4>3. \E w : TellsCycle(CycleCanonicalize(x, BoundaryView(m)), UpTo(S, m), w, Boundary(m))
        BY <2>3, <4>1, CycleCanonical
      <4> QED
        BY <2>2, <4>2, <4>3 DEF CycleGoes
    <3> QED
      BY <3>4, <3>5, <3>6 DEF CycleGoes
  <2> QED
    BY <1>4, <2>5, <2>6 DEF CycleGoes
<1> DEFINE Good == {n \in 0 .. Len(edges) : CycleGoes(Run(S)[n], S, n, Boundary(n))}
<1>5. 0 \in Good
  BY <1>1, <1>3
<1>6. ASSUME NEW n \in Nat, n < Len(edges), n \in Good
      PROVE  n + 1 \in Good
  BY <1>1, <1>4, <1>6
<1>7. 0 .. Len(edges) \subseteq Good
  <2> HIDE DEF Good
  <2> QED
    BY <1>1, <1>5, <1>6, SetInduction
<1> QED
  BY <1>7

\* At the end no path is open.
LEMMA NoneOpen ==
  ASSUME edges \in Orders, NEW T, NEW lab, Strands(T, lab), \A c \in Nat : ~IsUsed(lab, c)
  PROVE  T = {}
<1> SUFFICES ASSUME NEW i \in T PROVE FALSE
  OBVIOUS
<1>1. i \in Levels
  BY DEF Strands
<1>2. edges[i][1] \in Ends(i)
  BY <1>1, EndsAre
<1>3. edges[i][1] \in Vertex /\ lab[edges[i][1]] \in Nat
  BY <1>2, ClassMembers
<1> QED
  BY <1>3 DEF IsUsed

\* On every plan the cycle problem accepts exactly the cycles of the graph.
LEMMA CyclesDecided ==
  ASSUME PlanDone, SolvesCycles, problem \in Problems
  PROVE  Decides
<1>1. Len(edges) \in Nat /\ Levels = 1 .. Len(edges) /\ edges \in Orders
  BY StepsOfPlan
<1>2. ~Refuses(problem, V, edges) /\ FirstState # {}
  <2>1. PICK s : s = [slots |-> << >>, done |-> FALSE]
    OBVIOUS
  <2>2. InitialState(problem, V, edges) = {s}
    BY <1>1, <2>1 DEF SolvesCycles, CycleInitial
  <2>3. FirstState # {}
    <3>1. FirstState = {Canonicalize(s, EmptyView)}
      BY <2>2, CanonicalOfOne DEF FirstState
    <3> QED
      BY <3>1
  <2> QED
    BY <1>1, <2>3 DEF SolvesCycles
<1>3. \A S : ~RunFails(S)
  BY DEF RunFails, SolvesCycles
<1>4. ASSUME NEW S \in SUBSET Levels
      PROVE  RunAccepts(S) <=> Accepts(problem, edges, S)
  <2>1. Len(edges) \in 0 .. Len(edges) /\ UpTo(S, Len(edges)) = S /\ Boundary(Len(edges)) = {}
    BY <1>1, UpToEnds, OuterBoundaries
  <2>2. CycleGoes(Run(S)[Len(edges)], S, Len(edges), {})
    BY <2>1, CycleRuns
  <2>3. RunAccepts(S) <=> \E s \in Run(S)[Len(edges)] : s.done
    BY DEF RunAccepts, SolvesCycles, CycleFinalize
  <2>4. ASSUME NEW s, NEW lab, TellsCycle(s, S, lab, {})
        PROVE  s.done <=> IsCycle(edges, S)
    <3>1. CASE s.done
      BY <2>4, <3>1 DEF TellsCycle
    <3>2. CASE ~s.done
      <4>1. Strands(S, lab) /\ \A v \in Vertex : Degree(S, v) # 1
        BY <2>4, <3>2 DEF TellsCycle
      <4>2. \A c \in Nat : ~IsUsed(lab, c)
        BY <4>1 DEF Strands, IsOpen
      <4>3. S = {}
        BY <1>1, <4>1, <4>2, NoneOpen
      <4> QED
        BY <3>2, <4>3 DEF IsCycle
    <3> QED
      BY <3>1, <3>2
  <2>5. RunAccepts(S) <=> IsCycle(edges, S)
    BY <2>1, <2>2, <2>3, <2>4 DEF CycleGoes
  <2> QED
    BY <1>1, <2>5 DEF SolvesCycles, CycleAccepts
<1> QED
  BY <1>2, <1>3, <1>4 DEF Decides

\* The cycle problem decides cycles, on every graph in every edge order: this is
\* RunsDecide for the states and transitions of problems/cycles.rs.
THEOREM CyclesKeepTheContract == SolvesCycles /\ Spec => []RunsDecide
<1>1. SolvesCycles /\ BuildInv /\ Configured => RunsDecide
  <2> SUFFICES ASSUME SolvesCycles, BuildInv, Configured, ToStart PROVE Decides
    BY DEF RunsDecide
  <2>1. PlanDone
    BY DEF BuildInv, PlanSound, ToStart, PlanDone
  <2> QED
    BY <2>1, CyclesDecided DEF Configured
<1>2. SolvesCycles => []SolvesCycles
  OBVIOUS
<1> QED
  BY <1>1, <1>2, Invariance, ConfiguredAlways, PTL

----------------------------------------------------------------------------
(* Paths.                                                                  *)

\* The builder is used with the path problem.
SolvesPaths ==
  /\ \A p \in Problems : \A order \in Orders :
       /\ InitialState(p, V, order) = PathInitial(p, V, order)
       /\ Refuses(p, V, order) <=> PathRefuses(p, V)
       /\ \A S : Accepts(p, order, S) <=> PathAccepts(p, order, S)
  /\ \A p \in Problems : \A state, step, choice :
       /\ Transition(p, state, step, choice) = PathTransition(p, state, step, choice)
       /\ ~TransitionFails(p, state, step, choice)
  /\ \A state, w : Canonicalize(state, w) = PathCanonicalize(state, w)
  /\ \A state : Finalize(state) = PathFinalize(state) /\ ~FinalizeFails(state)

\* The ends of the path, and whether a selection is such a path.
EndsOfPath(p) == {p.source, p.target}
Proper(p) == p.source \in Vertex /\ p.target \in Vertex /\ p.source # p.target
Joined(p, S) == IsPath(edges, S, p.source, p.target)

PathEntries == [degree : Nat, component : Labels, mask : SUBSET Vertex]

\* The ends of the path in the component of a vertex.
EndsWith(p, lab, v) == IF lab[v] = NoComponent THEN {} ELSE {u \in EndsOfPath(p) : lab[u] = lab[v]}

PathEntry(p, T, lab) ==
  [v \in Vertex |-> [degree |-> Degree(T, v), component |-> lab[v], mask |-> EndsWith(p, lab, v)]]

\* The state s tells of the selection T at the vertices W: T is the path and has
\* left W, or open paths each of which has a vertex in W.
TellsPath(p, s, T, lab, W) ==
  /\ s \in [slots : Seq(PathEntries), done : BOOLEAN, possible : BOOLEAN]
  /\ s.possible
  /\ Shows(s.slots, W, PathEntry(p, T, lab), PathSlot, PathEntries)
  /\ T \in SUBSET Levels
  /\ Labelled(T, lab)
  /\ s.done => Joined(p, T) /\ \A v \in W : lab[v] = NoComponent
  /\ ~s.done => /\ Strands(T, lab)
                /\ \A c \in Nat : IsUsed(lab, c) => \E v \in W : lab[v] = c
                /\ \A v \in EndsOfPath(p) : Degree(T, v) <= 1

\* The entries of the path problem have components.
LEMMA PathEntriesAre ==
  HasComponents(PathEntries) /\ PathSlot \in PathEntries /\ PathSlot.component = NoComponent
BY DEF HasComponents, PathEntries, PathSlot, Labels

\* The degrees in a path.
LEMMA PathDegrees ==
  ASSUME edges \in Orders, NEW p, NEW S \in SUBSET Levels, Joined(p, S)
  PROVE  /\ \A v \in EndsOfPath(p) : Degree(S, v) = 1 /\ v \in Touched(edges, S)
         /\ \A v : v \notin EndsOfPath(p) => Degree(S, v) \in {0, 2}
         /\ \A v : Degree(S, v) <= 2
         /\ IsConnected(edges, S)
<1>1. \A v \in Touched(edges, S) \union EndsOfPath(p) : Degree(S, v) = IF v \in EndsOfPath(p) THEN 1 ELSE 2
  BY DEF Joined, IsPath, EndsOfPath, Degree
<1>2. \A v : v \notin Touched(edges, S) => Degree(S, v) = 0
  BY DegreeZero
<1>3. \A v \in EndsOfPath(p) : Degree(S, v) = 1 /\ v \in Touched(edges, S)
  BY <1>1, <1>2
<1>4. \A v : v \notin EndsOfPath(p) => Degree(S, v) \in {0, 2}
  BY <1>1, <1>2
<1>5. \A v : Degree(S, v) <= 2
  BY <1>3, <1>4
<1>6. IsConnected(edges, S)
  BY DEF Joined, IsPath
<1> QED
  BY <1>3, <1>4, <1>5, <1>6

\* A path with a path or a cycle inside is that path, and no cycle.
LEMMA PathIsAll ==
  ASSUME edges \in Orders, NEW p, NEW S \in SUBSET Levels, NEW C \in SUBSET S, Joined(p, S)
  PROVE  /\ Joined(p, C) => C = S
         /\ ~IsCycle(edges, C)
<1>0. C \in SUBSET Levels
  OBVIOUS
<1>1. /\ \A v \in EndsOfPath(p) : Degree(S, v) = 1 /\ v \in Touched(edges, S)
      /\ \A v : v \notin EndsOfPath(p) => Degree(S, v) \in {0, 2}
      /\ \A v : Degree(S, v) <= 2
      /\ IsConnected(edges, S)
  BY PathDegrees
<1>2. p.source \in EndsOfPath(p)
  BY DEF EndsOfPath
<1>3. ASSUME Joined(p, C) PROVE C = S
  <2>1. /\ \A v \in EndsOfPath(p) : Degree(C, v) = 1 /\ v \in Touched(edges, C)
        /\ \A v : v \notin EndsOfPath(p) => Degree(C, v) \in {0, 2}
    BY <1>0, <1>3, PathDegrees
  <2>2. \A v \in Touched(edges, C) : Degree(C, v) # 0
    BY <1>0, DegreeZero
  <2>3. \A v \in Touched(edges, C) : Degree(S, v) <= Degree(C, v)
    BY <1>1, <2>1, <2>2
  <2>4. C # {}
    BY <1>2, <2>1 DEF Touched
  <2> QED
    BY <1>1, <2>3, <2>4, ClosedPart
<1>4. ASSUME IsCycle(edges, C) PROVE FALSE
  <2>1. C # {} /\ \A v \in Touched(edges, C) : Degree(C, v) = 2
    BY <1>4 DEF IsCycle, Degree
  <2>2. \A v \in Touched(edges, C) : Degree(S, v) <= Degree(C, v)
    BY <1>1, <2>1
  <2>3. C = S
    BY <1>1, <2>1, <2>2, ClosedPart
  <2> QED
    BY <1>1, <1>2, <2>1, <2>3
<1> QED
  BY <1>3, <1>4

\* No path has the edge n besides T when an end of n is saturated.
LEMMA SaturatedEnds ==
  ASSUME edges \in Orders, NEW p, NEW S \in SUBSET Levels, NEW T \in SUBSET S, NEW n \in S \ T,
         NEW v \in Ends(n), Degree(T, v) >= MaximumDegree(p, v)
  PROVE  ~Joined(p, S)
<1> SUFFICES ASSUME Joined(p, S) PROVE FALSE
  OBVIOUS
<1>1. Degree(T, v) + 1 <= Degree(S, v)
  BY DegreeGrows
<1>2. Degree(T, v) \in Nat /\ Degree(S, v) \in Nat
  <2>1. T \in SUBSET Levels
    OBVIOUS
  <2> QED
    BY <2>1, DegreeIsCount
<1>3. /\ v \in EndsOfPath(p) => Degree(S, v) = 1
      /\ v \notin EndsOfPath(p) => Degree(S, v) \in {0, 2}
  BY PathDegrees
<1>4. MaximumDegree(p, v) = IF v \in EndsOfPath(p) THEN 1 ELSE 2
  BY DEF MaximumDegree, EndsOfPath
<1> QED
  BY <1>1, <1>2, <1>3, <1>4

\* What a sequence shows of the path problem.
ShowsPath(p, T, lab, W, q) ==
  /\ q \in Seq(PathEntries)
  /\ \A c : c \in Components(q) <=> c # NoComponent /\ \E v \in W : lab[v] = c
  /\ \A v \in W : Place(v) \in 1 .. Len(q)
  /\ \A v \in W : q[Place(v)] = [degree |-> Degree(T, v), component |-> lab[v], mask |-> EndsWith(p, lab, v)]

\* A sequence that shows the selection shows its degrees, labels and masks.
LEMMA PathShown ==
  ASSUME NEW p, NEW T, NEW lab, NEW W, W \subseteq Vertex, NEW q,
         Shows(q, W, PathEntry(p, T, lab), PathSlot, PathEntries)
  PROVE  ShowsPath(p, T, lab, W, q)
<1>1. \A v \in W : PathEntry(p, T, lab)[v] =
                     [degree |-> Degree(T, v), component |-> lab[v], mask |-> EndsWith(p, lab, v)]
  BY DEF PathEntry
<1>2. \A v \in W : PathEntry(p, T, lab)[v].component = lab[v]
  <2> SUFFICES ASSUME NEW v \in W PROVE PathEntry(p, T, lab)[v].component = lab[v]
    OBVIOUS
  <2>1. PICK e : e = EndsWith(p, lab, v)
    OBVIOUS
  <2>2. PathEntry(p, T, lab)[v] = [degree |-> Degree(T, v), component |-> lab[v], mask |-> e]
    BY <1>1, <2>1
  <2> QED
    BY <2>2
<1>3. \A c : c \in Components(q) <=> c # NoComponent /\ \E v \in W : lab[v] = c
  BY <1>2, PathEntriesAre, ComponentsShown
<1>4. /\ q \in Seq(PathEntries)
      /\ \A v \in W : Place(v) \in 1 .. Len(q) /\ q[Place(v)] = PathEntry(p, T, lab)[v]
  BY DEF Shows
<1> QED
  BY <1>1, <1>3, <1>4 DEF ShowsPath

\* The vertices that enter are shown with the default.
LEMMA PathEnters ==
  ASSUME PlanDone, NEW n \in 1 .. Len(edges), NEW S \in SUBSET Levels, NEW p, NEW s, NEW lab,
         TellsPath(p, s, UpTo(S, n - 1), lab, Boundary(n - 1))
  PROVE  TellsPath(p, [s EXCEPT !.slots = Introduced(s.slots, steps[n], PathSlot)],
                   UpTo(S, n - 1), lab, AtWork(n))
<1> DEFINE T == UpTo(S, n - 1)
           f == PathEntry(p, T, lab)
           q == Introduced(s.slots, steps[n], PathSlot)
           r == [s EXCEPT !.slots = q]
<1>1. /\ AtWork(n) \subseteq Vertex
      /\ Boundary(n - 1) \union Ends(n) = AtWork(n)
  BY WorkAt
<1>2. \A v \in Ends(n) \ Boundary(n - 1) : f[v] = PathSlot /\ lab[v] = NoComponent
  <2> SUFFICES ASSUME NEW v \in Ends(n) \ Boundary(n - 1) PROVE f[v] = PathSlot /\ lab[v] = NoComponent
    OBVIOUS
  <2>1. Degree(T, v) = 0 /\ v \in Vertex
    BY <1>1, EnteringDegree
  <2>2. lab[v] = NoComponent
    BY <2>1 DEF TellsPath, Labelled
  <2>3. f[v] = [degree |-> Degree(T, v), component |-> lab[v], mask |-> EndsWith(p, lab, v)]
    BY <2>1 DEF PathEntry
  <2>4. EndsWith(p, lab, v) = {}
    BY <2>2 DEF EndsWith
  <2> HIDE DEF f, T
  <2> QED
    BY <2>1, <2>2, <2>3, <2>4 DEF PathSlot
<1>3. Shows(s.slots, Boundary(n - 1), f, PathSlot, PathEntries)
  BY DEF TellsPath
<1>4. Shows(q, AtWork(n), f, PathSlot, PathEntries)
  <2>1. \A v \in Ends(n) \ Boundary(n - 1) : f[v] = PathSlot
    BY <1>2
  <2> HIDE DEF f
  <2> QED
    BY <2>1, <1>3, PathEntriesAre, GrowShows
<1>5. s \in [slots : Seq(PathEntries), done : BOOLEAN, possible : BOOLEAN]
  BY DEF TellsPath
<1> HIDE DEF q
<1>6. /\ r \in [slots : Seq(PathEntries), done : BOOLEAN, possible : BOOLEAN]
      /\ r.slots = q /\ r.done = s.done /\ r.possible = s.possible
  <2>1. q \in Seq(PathEntries)
    BY <1>4 DEF Shows
  <2> QED
    BY <1>5, <2>1
<1> HIDE DEF r, f
<1>7. s.done => \A v \in AtWork(n) : lab[v] = NoComponent
  BY <1>1, <1>2 DEF TellsPath
<1>8. ~s.done => \A c \in Nat : IsUsed(lab, c) => \E v \in AtWork(n) : lab[v] = c
  BY <1>1 DEF TellsPath
<1>9. TellsPath(p, r, T, lab, AtWork(n))
  BY <1>4, <1>6, <1>7, <1>8 DEF TellsPath, f
<1> QED
  BY <1>9 DEF r, q, T

\* The joined masks are the ends of the path in the joined component.
TakesLabel(lab, a, b, label, next) ==
  /\ a \in Vertex /\ b \in Vertex /\ label \in Nat
  /\ IsUsed(lab, label) => label \in {lab[a], lab[b]}
  /\ \A v \in Vertex : next[v] = IF Joins(lab, a, b, v) THEN label ELSE lab[v]

MaskOfJoin(p, lab, a, b) ==
  EndsWith(p, lab, a) \union EndsWith(p, lab, b) \union EndpointMask(p, a) \union EndpointMask(p, b)

MasksJoin(p, lab, a, b, next) ==
  \A v \in Vertex : EndsWith(p, next, v) =
                       IF Joins(lab, a, b, v) THEN MaskOfJoin(p, lab, a, b) ELSE EndsWith(p, lab, v)

\* The joined vertices have the mask of the join, the others keep theirs.
LEMMA JoinedMasks ==
  ASSUME NEW p, Proper(p), NEW lab, NEW a, NEW b, NEW label, NEW next, TakesLabel(lab, a, b, label, next)
  PROVE  MasksJoin(p, lab, a, b, next)
<1> SUFFICES ASSUME NEW v \in Vertex
             PROVE  EndsWith(p, next, v) =
                      IF Joins(lab, a, b, v) THEN MaskOfJoin(p, lab, a, b) ELSE EndsWith(p, lab, v)
  BY DEF MasksJoin
<1>0. a \in Vertex /\ b \in Vertex /\ label \in Nat /\ (IsUsed(lab, label) => label \in {lab[a], lab[b]})
  BY DEF TakesLabel
<1>1. \A u \in Vertex : next[u] = IF Joins(lab, a, b, u) THEN label ELSE lab[u]
  BY DEF TakesLabel
<1>2. label # NoComponent
  BY <1>0 DEF NoComponent
<1>3. \A u \in Vertex : next[u] = label <=> Joins(lab, a, b, u)
  BY <1>0, <1>1, <1>2 DEF Joins, IsUsed
<1>4. EndsOfPath(p) \subseteq Vertex
  BY DEF EndsOfPath, Proper
<1> HIDE DEF EndsOfPath
<1>5. \A x : EndpointMask(p, x) = {u \in EndsOfPath(p) : u = x}
  BY DEF EndpointMask, EndsOfPath
<1>6. CASE Joins(lab, a, b, v)
  <2>1. EndsWith(p, next, v) = {u \in EndsOfPath(p) : Joins(lab, a, b, u)}
    BY <1>1, <1>2, <1>3, <1>4, <1>6 DEF EndsWith
  <2>2. \A u \in EndsOfPath(p) : Joins(lab, a, b, u) <=>
          u \in EndsWith(p, lab, a) \/ u \in EndsWith(p, lab, b) \/ u = a \/ u = b
    BY <1>4 DEF Joins, EndsWith
  <2>3. EndsWith(p, lab, a) \subseteq EndsOfPath(p) /\ EndsWith(p, lab, b) \subseteq EndsOfPath(p)
    BY DEF EndsWith
  <2>4. \A u : u \in EndsWith(p, lab, a) \union EndsWith(p, lab, b) \union EndpointMask(p, a) \union EndpointMask(p, b)
               <=> u \in EndsOfPath(p) /\ Joins(lab, a, b, u)
    BY <1>5, <2>2, <2>3
  <2>5. \A u : u \in EndsWith(p, next, v) <=> u \in EndsOfPath(p) /\ Joins(lab, a, b, u)
    BY <2>1
  <2>6. EndsWith(p, next, v) =
          EndsWith(p, lab, a) \union EndsWith(p, lab, b) \union EndpointMask(p, a) \union EndpointMask(p, b)
    BY ONLY <2>4, <2>5
  <2> QED
    BY <1>6, <2>6 DEF MaskOfJoin
<1>7. CASE ~Joins(lab, a, b, v)
  <2>1. next[v] = lab[v]
    BY <1>1, <1>7
  <2>2. \A u \in Vertex : lab[v] # NoComponent => (next[u] = lab[v] <=> lab[u] = lab[v])
    BY <1>1, <1>3, <1>7, <2>1 DEF Joins
  <2> QED
    BY <1>4, <1>7, <2>1, <2>2 DEF EndsWith
<1> QED
  BY <1>6, <1>7

\* The entries at the ends of an edge.
LEMMA PathEnds ==
  ASSUME PlanDone, NEW n \in 1 .. Len(edges), NEW p, NEW T, NEW lab, NEW s, TellsPath(p, s, T, lab, AtWork(n))
  PROVE  LET a == edges[n][1]
             b == edges[n][2]
             q == s.slots
         IN /\ a \in AtWork(n) /\ b \in AtWork(n) /\ a # b /\ Ends(n) = {a, b}
            /\ a \in Vertex /\ b \in Vertex
            /\ Position(steps[n], 1) = Place(a) /\ Position(steps[n], 2) = Place(b)
            /\ steps[n].endpoints[1] = a /\ steps[n].endpoints[2] = b
            /\ q \in Seq(PathEntries)
            /\ \A v \in AtWork(n) : /\ v \in Vertex /\ Place(v) \in 1 .. Len(q)
                                    /\ q[Place(v)].degree = Degree(T, v)
                                    /\ q[Place(v)].component = lab[v]
                                    /\ q[Place(v)].mask = EndsWith(p, lab, v)
                                    /\ Place(v) = Place(a) <=> v = a
                                    /\ Place(v) = Place(b) <=> v = b
<1> DEFINE a == edges[n][1]
           b == edges[n][2]
           q == s.slots
<1>1. /\ a # b /\ Ends(n) = {a, b} /\ steps[n].endpoints = edges[n]
      /\ Position(steps[n], 1) = Place(a) /\ Position(steps[n], 2) = Place(b)
  BY StepAt
<1>2. /\ AtWork(n) \subseteq Vertex /\ Ends(n) \subseteq AtWork(n)
      /\ \A u, v \in AtWork(n) : Place(u) = Place(v) => u = v
  BY WorkAt
<1>3. Shows(q, AtWork(n), PathEntry(p, T, lab), PathSlot, PathEntries)
  BY DEF TellsPath
<1>4. /\ q \in Seq(PathEntries)
      /\ \A v \in AtWork(n) : Place(v) \in 1 .. Len(q)
      /\ \A v \in AtWork(n) : q[Place(v)] = [degree |-> Degree(T, v), component |-> lab[v], mask |-> EndsWith(p, lab, v)]
  <2> HIDE DEF q
  <2>1. ShowsPath(p, T, lab, AtWork(n), q)
    BY <1>2, <1>3, PathShown
  <2> QED
    BY <2>1 DEF ShowsPath
<1> HIDE DEF q
<1>5. ASSUME NEW v \in AtWork(n)
      PROVE  q[Place(v)].degree = Degree(T, v) /\ q[Place(v)].component = lab[v] /\ q[Place(v)].mask = EndsWith(p, lab, v)
  <2>1. PICK x : x = Degree(T, v)
    OBVIOUS
  <2>2. PICK y : y = EndsWith(p, lab, v)
    OBVIOUS
  <2>3. q[Place(v)] = [degree |-> x, component |-> lab[v], mask |-> y]
    BY <1>4, <2>1, <2>2
  <2> QED
    BY <2>1, <2>2, <2>3
<1>6. steps[n].endpoints[1] = a /\ steps[n].endpoints[2] = b
  BY <1>1
<1> HIDE DEF a, b
<1>7. a \in AtWork(n) /\ b \in AtWork(n) /\ a \in Vertex /\ b \in Vertex
  BY <1>1, <1>2
<1> QED
  BY <1>1, <1>2, <1>4, <1>5, <1>6, <1>7 DEF a, b, q

\* An entry whose label and mask are changed.
LEMMA EntryChanges ==
  ASSUME NEW e, e \in [degree : Nat, component : Labels, mask : SUBSET Vertex],
         NEW l \in Labels, NEW m \in SUBSET Vertex
  PROVE  /\ [degree |-> e.degree + 1, component |-> l, mask |-> m] \in [degree : Nat, component : Labels, mask : SUBSET Vertex]
         /\ [e EXCEPT !.component = l, !.mask = m] \in [degree : Nat, component : Labels, mask : SUBSET Vertex]
<1>1. e.degree + 1 \in Nat
  OBVIOUS
<1>2. [degree |-> e.degree + 1, component |-> l, mask |-> m] \in [degree : Nat, component : Labels, mask : SUBSET Vertex]
  BY <1>1
<1>3. [e EXCEPT !.component = l, !.mask = m] \in [degree : Nat, component : Labels, mask : SUBSET Vertex]
  OBVIOUS
<1> QED
  BY <1>2, <1>3

\* The joining step.
LEMMA PathJoins ==
  ASSUME PlanDone, NEW n \in 1 .. Len(edges), NEW S \in SUBSET Levels, n \in S, NEW p, Proper(p), NEW lab, NEW s,
         TellsPath(p, s, UpTo(S, n - 1), lab, AtWork(n)), ~s.done,
         \A v \in Ends(n) : Degree(UpTo(S, n - 1), v) < MaximumDegree(p, v),
         lab[edges[n][1]] = NoComponent \/ lab[edges[n][1]] # lab[edges[n][2]]
  PROVE  \E next : TellsPath(p, [s EXCEPT !.slots = JoinPath(p, s.slots, Place(edges[n][1]), Place(edges[n][2]), steps[n])],
                             UpTo(S, n), next, AtWork(n))
<1> DEFINE T == UpTo(S, n - 1)
           a == edges[n][1]
           b == edges[n][2]
           q == s.slots
           label == JoinedComponent(q, Place(a), Place(b))
           mask == MaskOfJoin(p, lab, a, b)
           next == JoinedLabels(lab, n, label)
           r == JoinPath(p, q, Place(a), Place(b), steps[n])
           f == PathEntry(p, T, lab)
           g == PathEntry(p, T \union {n}, next)
           x == [s EXCEPT !.slots = r]
<1>1. edges \in Orders /\ n \in Levels
  BY StepsOfPlan
<1>2. T \in SUBSET S /\ n \in S \ T /\ UpTo(S, n) = T \union {n}
  BY UpToNext DEF UpTo
<1>3. /\ a \in AtWork(n) /\ b \in AtWork(n) /\ a # b /\ Ends(n) = {a, b}
      /\ a \in Vertex /\ b \in Vertex
      /\ steps[n].endpoints[1] = a /\ steps[n].endpoints[2] = b
      /\ q \in Seq(PathEntries)
      /\ \A v \in AtWork(n) : /\ v \in Vertex /\ Place(v) \in 1 .. Len(q)
                              /\ q[Place(v)].degree = Degree(T, v)
                              /\ q[Place(v)].component = lab[v]
                              /\ q[Place(v)].mask = EndsWith(p, lab, v)
                              /\ Place(v) = Place(a) <=> v = a
                              /\ Place(v) = Place(b) <=> v = b
  BY PathEnds
<1>4. /\ Strands(T, lab) /\ Shows(q, AtWork(n), f, PathSlot, PathEntries)
      /\ \A c \in Nat : IsUsed(lab, c) => \E v \in AtWork(n) : lab[v] = c
      /\ \A v \in EndsOfPath(p) : Degree(T, v) <= 1
      /\ s \in [slots : Seq(PathEntries), done : BOOLEAN, possible : BOOLEAN]
      /\ s.possible /\ s.done = FALSE
  BY DEF TellsPath
<1>5. lab[a] = NoComponent \/ lab[a] # lab[b]
  OBVIOUS
<1>6. \A v \in Ends(n) : Degree(T, v) < MaximumDegree(p, v)
  OBVIOUS
<1>7. next = [v \in Vertex |-> IF Joins(lab, a, b, v) THEN label ELSE lab[v]]
  BY DEF JoinedLabels
<1>8. AtWork(n) \in SUBSET Vertex
  BY WorkAt
<1> HIDE DEF T, q, label, a, b, next, mask
<1>9. \A c : c \in Components(q) <=> c # NoComponent /\ \E v \in AtWork(n) : lab[v] = c
  <2> HIDE DEF x, r, g
  <2>1. AtWork(n) \subseteq Vertex
    BY <1>8
  <2>2. Shows(q, AtWork(n), PathEntry(p, T, lab), PathSlot, PathEntries)
    BY <1>4
  <2>3. ShowsPath(p, T, lab, AtWork(n), q)
    BY ONLY <2>1, <2>2, PathShown
  <2> QED
    BY <2>3 DEF ShowsPath
<1>10. \A c \in Nat : IsUsed(lab, c) => c \in Components(q)
  <2>1. \A c \in Nat : c # NoComponent
    BY DEF NoComponent
  <2> QED
    BY <1>4, <1>9, <2>1
<1>11. /\ q[Place(a)].component = lab[a] /\ q[Place(b)].component = lab[b]
       /\ q[Place(a)].mask = EndsWith(p, lab, a) /\ q[Place(b)].mask = EndsWith(p, lab, b)
       /\ Place(a) \in 1 .. Len(q) /\ Place(b) \in 1 .. Len(q)
  BY <1>3
<1>12. label \in Nat /\ (IsUsed(lab, label) => label \in {lab[a], lab[b]})
  <2>1. HasComponents(PathEntries)
    BY PathEntriesAre
  <2>2. label = JoinedComponent(q, Place(a), Place(b)) /\ q \in Seq(PathEntries)
    BY <1>3 DEF label
  <2> QED
    BY <1>10, <1>11, <2>1, <2>2, JoinedIsFree
<1>13. /\ lab[a] # NoComponent => label = lab[a]
       /\ lab[a] = NoComponent /\ lab[b] # NoComponent => label = lab[b]
  BY <1>11 DEF JoinedComponent, label
<1>14. T \in SUBSET Levels /\ n \in Levels \ T
  BY <1>1, <1>2
<1>15. \A v \in Vertex : Degree(T, v) \in Nat
  BY <1>1, <1>14, DegreeIsCount
<1>16. /\ Degree(T, a) <= 1 /\ Degree(T, b) <= 1
       /\ \A v \in {a, b} : v \in EndsOfPath(p) => Degree(T, v) = 0
  <2>1. \A v \in {a, b} : Degree(T, v) < (IF v \in EndsOfPath(p) THEN 1 ELSE 2) /\ Degree(T, v) \in Nat
    BY <1>3, <1>6, <1>15 DEF MaximumDegree, EndsOfPath
  <2> QED
    BY <2>1
<1>17. Joinable(T, lab, n, label)
  BY <1>5, <1>12, <1>14, <1>16 DEF Joinable, a, b
<1>18. Strands(T \union {n}, next)
  BY <1>1, <1>4, <1>17, JoinStrands DEF next
<1>19. \A v : Degree(T \union {n}, v) = IF v \in {a, b} THEN Degree(T, v) + 1 ELSE Degree(T, v)
  BY <1>1, <1>3, <1>14, DegreeAdds
<1>20. \A v \in Vertex : EndsWith(p, next, v) = IF Joins(lab, a, b, v) THEN mask ELSE EndsWith(p, lab, v)
  <2>1. TakesLabel(lab, a, b, label, next)
    BY <1>3, <1>7, <1>12 DEF TakesLabel
  <2>2. MasksJoin(p, lab, a, b, next)
    BY <2>1, JoinedMasks
  <2> QED
    BY <2>2 DEF MasksJoin, mask
<1>21. r = [i \in DOMAIN q |->
              IF i \in {Place(a), Place(b)} THEN [degree |-> q[i].degree + 1, component |-> label, mask |-> mask]
              ELSE IF q[i].component \in {label, lab[b]} \ {NoComponent}
                   THEN [q[i] EXCEPT !.component = label, !.mask = mask]
                   ELSE q[i]]
  BY <1>3, <1>11 DEF JoinPath, label, mask, MaskOfJoin
<1> HIDE DEF r
<1>22. Len(q) \in Nat /\ DOMAIN q = 1 .. Len(q) /\ \A i \in 1 .. Len(q) : q[i] \in PathEntries
  BY <1>3
<1>23. \A i \in 1 .. Len(q) :
         r[i] = IF i \in {Place(a), Place(b)} THEN [degree |-> q[i].degree + 1, component |-> label, mask |-> mask]
                ELSE IF q[i].component \in {label, lab[b]} \ {NoComponent}
                     THEN [q[i] EXCEPT !.component = label, !.mask = mask]
                     ELSE q[i]
  BY <1>21, <1>22
<1>24. mask \in SUBSET Vertex
  BY <1>3 DEF mask, MaskOfJoin, EndsWith, EndpointMask, EndsOfPath, Proper
<1>25. r \in Seq(PathEntries) /\ Len(r) = Len(q)
  <2>1. \A e \in PathEntries : /\ [degree |-> e.degree + 1, component |-> label, mask |-> mask] \in PathEntries
                               /\ [e EXCEPT !.component = label, !.mask = mask] \in PathEntries
    <3> SUFFICES ASSUME NEW e \in PathEntries
                 PROVE  /\ [degree |-> e.degree + 1, component |-> label, mask |-> mask] \in PathEntries
                        /\ [e EXCEPT !.component = label, !.mask = mask] \in PathEntries
      OBVIOUS
    <3>1. PICK l \in Labels : l = label
      BY <1>12 DEF Labels
    <3>2. PICK m \in SUBSET Vertex : m = mask
      BY <1>24
    <3>3. e \in [degree : Nat, component : Labels, mask : SUBSET Vertex]
      BY DEF PathEntries
    <3>4. /\ [degree |-> e.degree + 1, component |-> l, mask |-> m] \in [degree : Nat, component : Labels, mask : SUBSET Vertex]
          /\ [e EXCEPT !.component = l, !.mask = m] \in [degree : Nat, component : Labels, mask : SUBSET Vertex]
      BY <3>3, EntryChanges
    <3> QED
      BY <3>1, <3>2, <3>4 DEF PathEntries
  <2>2. \A i \in 1 .. Len(q) : r[i] \in PathEntries
    <3> SUFFICES ASSUME NEW i \in 1 .. Len(q) PROVE r[i] \in PathEntries
      OBVIOUS
    <3>1. PICK e \in PathEntries : e = q[i]
      BY <1>22
    <3>2. \/ r[i] = [degree |-> e.degree + 1, component |-> label, mask |-> mask]
          \/ r[i] = [e EXCEPT !.component = label, !.mask = mask]
          \/ r[i] = e
      BY <1>23, <3>1
    <3> QED
      BY <2>1, <3>2
  <2>3. r = [i \in 1 .. Len(q) |-> r[i]]
    BY <1>21, <1>22
  <2> QED
    BY <1>22, <2>2, <2>3
<1>26. \A v \in AtWork(n) : r[Place(v)] = g[v]
  <2> SUFFICES ASSUME NEW v \in AtWork(n) PROVE r[Place(v)] = g[v]
    OBVIOUS
  <2>1. /\ Place(v) \in 1 .. Len(q) /\ v \in Vertex
        /\ q[Place(v)].degree = Degree(T, v) /\ q[Place(v)].component = lab[v]
        /\ q[Place(v)].mask = EndsWith(p, lab, v)
        /\ Place(v) = Place(a) <=> v = a
        /\ Place(v) = Place(b) <=> v = b
    BY <1>3
  <2>2. g[v] = [degree |-> Degree(T \union {n}, v), component |-> next[v], mask |-> EndsWith(p, next, v)]
    BY <2>1 DEF PathEntry
  <2>3. next[v] = IF Joins(lab, a, b, v) THEN label ELSE lab[v]
    BY <1>7, <2>1
  <2>4. q[Place(v)] \in PathEntries
    BY <1>22, <2>1
  <2>5. q[Place(v)] = [degree |-> Degree(T, v), component |-> lab[v], mask |-> EndsWith(p, lab, v)]
    BY <2>1, <2>4 DEF PathEntries
  <2> HIDE DEF g
  <2>6. CASE v \in {a, b}
    <3>1. r[Place(v)] = [degree |-> Degree(T, v) + 1, component |-> label, mask |-> mask]
      BY <1>23, <2>1, <2>6
    <3>2. next[v] = label /\ EndsWith(p, next, v) = mask
      BY <1>20, <2>1, <2>3, <2>6 DEF Joins
    <3> QED
      BY <1>19, <2>2, <2>6, <3>1, <3>2
  <2>7. CASE v \notin {a, b} /\ Joins(lab, a, b, v)
    <3>1. lab[v] \in {label, lab[b]} \ {NoComponent}
      BY <1>13, <2>7 DEF Joins
    <3>2. r[Place(v)] = [q[Place(v)] EXCEPT !.component = label, !.mask = mask]
      BY <1>23, <2>1, <2>7, <3>1
    <3>3. r[Place(v)] = [degree |-> Degree(T, v), component |-> label, mask |-> mask]
      <4>1. PICK d, k, e : d = Degree(T, v) /\ k = lab[v] /\ e = EndsWith(p, lab, v)
        OBVIOUS
      <4>2. PICK l, m : l = label /\ m = mask
        OBVIOUS
      <4>3. q[Place(v)] = [degree |-> d, component |-> k, mask |-> e]
        BY ONLY <2>5, <4>1
      <4>4. r[Place(v)] = [q[Place(v)] EXCEPT !.component = l, !.mask = m]
        BY ONLY <3>2, <4>2
      <4>5. PICK y, z : y = q[Place(v)] /\ z = r[Place(v)]
        OBVIOUS
      <4>6. y = [degree |-> d, component |-> k, mask |-> e] /\ z = [y EXCEPT !.component = l, !.mask = m]
        BY ONLY <4>3, <4>4, <4>5
      <4>7. z = [degree |-> d, component |-> l, mask |-> m]
        BY ONLY <4>6
      <4> QED
        BY ONLY <4>1, <4>2, <4>5, <4>7
    <3>4. next[v] = label /\ EndsWith(p, next, v) = mask
      BY <1>20, <2>1, <2>3, <2>7
    <3> QED
      BY <1>19, <2>2, <2>7, <3>3, <3>4
  <2>8. CASE v \notin {a, b} /\ ~Joins(lab, a, b, v)
    <3>1. lab[v] \notin {label, lab[b]} \ {NoComponent}
      <4>1. lab[v] # NoComponent => lab[v] # lab[a] /\ lab[v] # lab[b]
        BY <2>8 DEF Joins
      <4>2. lab[v] = label => label \in {lab[a], lab[b]}
        BY <1>12, <2>1 DEF IsUsed
      <4> QED
        BY <4>1, <4>2
    <3>2. r[Place(v)] = q[Place(v)]
      BY <1>23, <2>1, <2>8, <3>1
    <3>3. next[v] = lab[v] /\ EndsWith(p, next, v) = EndsWith(p, lab, v)
      BY <1>20, <2>1, <2>3, <2>8
    <3> QED
      BY <1>19, <2>2, <2>5, <2>8, <3>2, <3>3
  <2> QED
    BY <2>6, <2>7, <2>8
<1>27. \A i \in 1 .. Len(q) : (\A v \in AtWork(n) : Place(v) # i) => r[i] = q[i]
  <2> SUFFICES ASSUME NEW i \in 1 .. Len(q), \A v \in AtWork(n) : Place(v) # i PROVE r[i] = q[i]
    OBVIOUS
  <2>1. i \notin {Place(a), Place(b)}
    BY <1>3
  <2>2. q[i] = PathSlot
    BY <1>4 DEF Shows
  <2>3. q[i].component = NoComponent
    BY <2>2 DEF PathSlot
  <2> QED
    BY <1>23, <2>1, <2>3
<1>28. Shows(r, AtWork(n), g, PathSlot, PathEntries)
  <2> HIDE DEF f, g
  <2> QED
    BY <1>4, <1>25, <1>26, <1>27, ChangeShows
<1>29. \A c \in Nat : IsUsed(next, c) => \E v \in AtWork(n) : next[v] = c
  <2> SUFFICES ASSUME NEW c \in Nat, IsUsed(next, c) PROVE \E v \in AtWork(n) : next[v] = c
    OBVIOUS
  <2>1. JoinedClasses(T, lab, n, label, a, b, next)
    BY <1>1, <1>4, <1>17, JoinClasses DEF next, a, b
  <2>2. CASE c = label
    <3>1. next[a] = label
      BY <1>3, <1>7 DEF Joins
    <3> QED
      BY <1>3, <2>2, <3>1
  <2>3. CASE c # label
    <3>1. \A v \in Vertex : next[v] = c <=> lab[v] = c
      BY <2>1, <2>3 DEF JoinedClasses
    <3>2. IsUsed(lab, c)
      BY <3>1 DEF IsUsed
    <3>3. PICK v \in AtWork(n) : lab[v] = c
      BY <1>4, <3>2
    <3> QED
      BY <1>8, <3>1, <3>3
  <2> QED
    BY <2>2, <2>3
<1>30. \A v \in EndsOfPath(p) : Degree(T \union {n}, v) <= 1
  <2> SUFFICES ASSUME NEW v \in EndsOfPath(p) PROVE Degree(T \union {n}, v) <= 1
    OBVIOUS
  <2> HIDE DEF f, g, x
  <2>1. CASE v \in {a, b}
    <3>1. Degree(T, v) = 0
      BY <1>16, <2>1
    <3>2. Degree(T \union {n}, v) = Degree(T, v) + 1
      BY <1>19, <2>1
    <3> QED
      BY ONLY <3>1, <3>2
  <2>2. CASE v \notin {a, b}
    BY <1>4, <1>19, <2>2
  <2> QED
    BY <2>1, <2>2
<1>31. /\ x \in [slots : Seq(PathEntries), done : BOOLEAN, possible : BOOLEAN]
       /\ x.slots = r /\ x.done = FALSE /\ x.possible
  BY <1>4, <1>25
<1>32. T \union {n} \in SUBSET Levels /\ Labelled(T \union {n}, next)
  BY <1>18 DEF Strands
<1> HIDE DEF x
<1>33. TellsPath(p, x, T \union {n}, next, AtWork(n))
  BY <1>18, <1>28, <1>29, <1>30, <1>31, <1>32 DEF TellsPath, g
<1>34. TellsPath(p, x, UpTo(S, n), next, AtWork(n))
  BY <1>2, <1>33
<1> QED
  BY <1>34 DEF x, r, q, a, b

\* What the states after a step tell of the next selection: rejected only when
\* it leads to no path.
PathGoes(p, next, S, n, W) ==
  \/ next = {} /\ ~Joined(p, S)
  \/ \E r, lab : next = {r} /\ TellsPath(p, r, UpTo(S, n), lab, W)

\* Including an edge rejects no path.
LEMMA PathIncludes ==
  ASSUME PlanDone, NEW n \in 1 .. Len(edges), NEW S \in SUBSET Levels, n \in S, NEW p, Proper(p), NEW lab, NEW s,
         TellsPath(p, s, UpTo(S, n - 1), lab, AtWork(n))
  PROVE  PathGoes(p, PathInclude(p, s, steps[n]), S, n, AtWork(n))
<1> DEFINE T == UpTo(S, n - 1)
           a == edges[n][1]
           b == edges[n][2]
           q == s.slots
           next == PathInclude(p, s, steps[n])
           full == Degree(T, a) >= MaximumDegree(p, a) \/ Degree(T, b) >= MaximumDegree(p, b)
           same == lab[a] # NoComponent /\ lab[a] = lab[b]
<1>1. edges \in Orders /\ n \in Levels
  BY StepsOfPlan
<1>2. T \in SUBSET S /\ n \in S \ T
  BY UpToNext DEF UpTo
<1>3. /\ a \in AtWork(n) /\ b \in AtWork(n) /\ a # b /\ Ends(n) = {a, b}
      /\ a \in Vertex /\ b \in Vertex
      /\ Position(steps[n], 1) = Place(a) /\ Position(steps[n], 2) = Place(b)
      /\ steps[n].endpoints[1] = a /\ steps[n].endpoints[2] = b
      /\ \A v \in AtWork(n) : /\ q[Place(v)].degree = Degree(T, v)
                              /\ q[Place(v)].component = lab[v]
  BY PathEnds
<1>4. TellsPath(p, s, T, lab, AtWork(n))
  OBVIOUS
<1> HIDE DEF T, a, b, q, next
<1>5. /\ q[Place(a)].degree = Degree(T, a) /\ q[Place(a)].component = lab[a]
      /\ q[Place(b)].degree = Degree(T, b) /\ q[Place(b)].component = lab[b]
  BY <1>3
<1>6. next = IF s.done \/ full \/ same THEN {}
             ELSE {[s EXCEPT !.slots = JoinPath(p, q, Place(a), Place(b), steps[n])]}
  <2>1. next = IF \/ s.done
                  \/ q[Place(a)].degree >= MaximumDegree(p, a)
                  \/ q[Place(b)].degree >= MaximumDegree(p, b)
                  \/ q[Place(a)].component # NoComponent /\ q[Place(a)].component = q[Place(b)].component
               THEN {}
               ELSE {[s EXCEPT !.slots = JoinPath(p, q, Place(a), Place(b), steps[n])]}
    <3>1. Position(steps[n], 1) = Place(a) /\ Position(steps[n], 2) = Place(b)
      BY <1>3
    <3>2. steps[n].endpoints[1] = a /\ steps[n].endpoints[2] = b
      BY <1>3
    <3> QED
      BY ONLY <3>1, <3>2 DEF PathInclude, next, q
  <2> QED
    BY <1>5, <2>1
<1>7. T \in SUBSET Levels /\ n \in Levels \ T
  BY <1>1, <1>2
<1>8. \A v \in Vertex : Degree(T, v) \in Nat /\ MaximumDegree(p, v) \in {1, 2}
  BY <1>1, <1>7, DegreeIsCount DEF MaximumDegree
<1>9. CASE s.done
  <2>1. Joined(p, T) /\ T # S
    BY <1>2, <1>4, <1>9 DEF TellsPath
  <2>2. ~Joined(p, S)
    BY <1>1, <1>2, <2>1, PathIsAll
  <2>3. PathGoes(p, next, S, n, AtWork(n))
    BY <1>6, <1>9, <2>2 DEF PathGoes
  <2> QED
    BY <2>3 DEF next
<1>10. CASE full
  <2>1. \E v \in Ends(n) : Degree(T, v) >= MaximumDegree(p, v)
    BY <1>3, <1>10
  <2>2. ~Joined(p, S)
    BY <1>1, <1>2, <2>1, SaturatedEnds
  <2>3. PathGoes(p, next, S, n, AtWork(n))
    BY <1>6, <1>10, <2>2 DEF PathGoes
  <2> QED
    BY <2>3 DEF next
<1>11. \A v \in Ends(n) : ~full => Degree(T, v) < MaximumDegree(p, v) /\ Degree(T, v) <= 1
  <2> SUFFICES ASSUME NEW v \in Ends(n), ~full PROVE Degree(T, v) < MaximumDegree(p, v) /\ Degree(T, v) <= 1
    OBVIOUS
  <2>1. v \in Vertex /\ ~(Degree(T, v) >= MaximumDegree(p, v))
    BY <1>3
  <2> HIDE DEF full
  <2> QED
    BY <1>8, <2>1
<1>12. CASE ~s.done /\ ~full /\ same
  <2>1. Strands(T, lab)
    BY <1>4, <1>12 DEF TellsPath
  <2>2. PICK c : c = lab[a] /\ c = lab[b] /\ c # NoComponent
    BY <1>12
  <2>3. c \in Nat
    BY <1>3, <2>1, <2>2 DEF Strands, Labelled, Labels
  <2>4. Degree(T, a) <= 1 /\ Degree(T, b) <= 1
    BY <1>3, <1>11, <1>12
  <2>5. IsCycle(edges, ClassOf(T, lab, c) \union {n})
    BY <1>1, <1>7, <2>1, <2>2, <2>3, <2>4, CloseStrand DEF a, b
  <2>6. ClassOf(T, lab, c) \union {n} \in SUBSET S
    BY <1>2 DEF ClassOf
  <2>7. ~Joined(p, S)
    BY <1>1, <2>5, <2>6, PathIsAll
  <2>8. PathGoes(p, next, S, n, AtWork(n))
    BY <1>6, <1>12, <2>7 DEF PathGoes
  <2> QED
    BY <2>8 DEF next
<1>13. CASE ~s.done /\ ~full /\ ~same
  <2>1. PICK x : x = [s EXCEPT !.slots = JoinPath(p, s.slots, Place(edges[n][1]), Place(edges[n][2]), steps[n])]
    OBVIOUS
  <2>2. lab[edges[n][1]] = NoComponent \/ lab[edges[n][1]] # lab[edges[n][2]]
    BY <1>13 DEF a, b
  <2>3. \A v \in Ends(n) : Degree(UpTo(S, n - 1), v) < MaximumDegree(p, v)
    BY <1>11, <1>13 DEF T
  <2>4. \E y : TellsPath(p, x, UpTo(S, n), y, AtWork(n))
    BY <1>13, <2>1, <2>2, <2>3, PathJoins
  <2>5. next = {x}
    BY <1>6, <1>13, <2>1 DEF q, a, b
  <2> QED
    BY <2>4, <2>5 DEF PathGoes, next
<1> QED
  BY <1>9, <1>10, <1>12, <1>13

\* A label of the strands none of whose vertices is in the frontier is the whole
\* of a path that goes on from here: nothing can be added to it.
LEMMA PathCloses ==
  ASSUME PlanDone, NEW n \in 0 .. Len(edges), NEW S \in SUBSET Levels, NEW p, Joined(p, S),
         NEW lab, Strands(UpTo(S, n), lab), NEW c \in Nat, IsUsed(lab, c), \A w \in Boundary(n) : lab[w] # c
  PROVE  /\ S = UpTo(S, n)
         /\ \A v \in Vertex : lab[v] # NoComponent => lab[v] = c
         /\ \A v \in EndsOfPath(p) : lab[v] = c
<1> DEFINE T == UpTo(S, n)
           C == ClassOf(T, lab, c)
<1>1. edges \in Orders /\ T \in SUBSET S /\ T \in SUBSET Levels
  BY StepsOfPlan DEF UpTo
<1>2. C \in SUBSET T /\ C \in SUBSET S
  BY <1>1 DEF ClassOf
<1>3. Strands(T, lab) /\ Labelled(T, lab)
  BY DEF Strands
<1> HIDE DEF T, C
<1>4. \A v : v \in Touched(edges, C) <=> v \in Vertex /\ lab[v] = c
  BY <1>1, <1>3, TouchedIsLabelled DEF C
<1>5. \A v \in Touched(edges, C) : Degree(S, v) <= Degree(C, v)
  <2> SUFFICES ASSUME NEW v \in Touched(edges, C) PROVE Degree(S, v) <= Degree(C, v)
    OBVIOUS
  <2>1. v \in Vertex /\ lab[v] = c /\ lab[v] # NoComponent
    BY <1>4 DEF NoComponent
  <2>2. v \in Vertex \ Boundary(n)
    BY <2>1
  <2>3. Degree(T, v) # 0
    BY <1>3, <2>1 DEF Labelled
  <2>4. Degree(S, v) = Degree(T, v)
    BY <2>2, <2>3, SettledDegree DEF T
  <2>5. Degree(C, v) = Degree(T, v)
    BY <1>1, <1>3, <2>1, ClassDegree DEF C
  <2>6. Degree(T, v) \in Nat
    BY <1>1, DegreeIsCount
  <2> QED
    BY <2>4, <2>5, <2>6
<1>6. C # {}
  BY <1>4 DEF IsUsed, Touched
<1>7. IsConnected(edges, S)
  BY DEF Joined, IsPath
<1>8. C = S
  BY <1>1, <1>2, <1>5, <1>6, <1>7, ClosedPart
<1>9. S = T
  BY <1>1, <1>2, <1>8
<1>10. \A v \in Touched(edges, S) : lab[v] = c
  BY <1>4, <1>8
<1>11. \A v \in Vertex : lab[v] # NoComponent => v \in Touched(edges, S)
  <2> SUFFICES ASSUME NEW v \in Vertex, lab[v] # NoComponent PROVE v \in Touched(edges, S)
    OBVIOUS
  <2>1. Degree(S, v) # 0
    BY <1>3, <1>9 DEF Labelled
  <2> QED
    BY <1>1, <2>1, DegreeZero
<1>12. \A v \in EndsOfPath(p) : v \in Touched(edges, S)
  BY <1>1, PathDegrees
<1> QED
  BY <1>9, <1>10, <1>11, <1>12 DEF T

\* Strands under one label, of which the ends of the path are loose ends, are the path.
LEMMA StrandIsPath ==
  ASSUME edges \in Orders, NEW p, Proper(p), NEW T, NEW lab, Strands(T, lab), NEW c \in Nat,
         \A v \in Vertex : lab[v] # NoComponent => lab[v] = c,
         \A v \in EndsOfPath(p) : lab[v] = c /\ Degree(T, v) <= 1
  PROVE  Joined(p, T)
<1>1. T \in SUBSET Levels /\ Labelled(T, lab)
  BY DEF Strands
<1>2. p.source \in Vertex /\ p.target \in Vertex /\ p.source # p.target
      /\ EndsOfPath(p) = {p.source, p.target}
  BY DEF Proper, EndsOfPath
<1>3. IsUsed(lab, c) /\ c # NoComponent
  BY <1>2 DEF IsUsed, NoComponent
<1>4. IsOpen(T, lab, c) /\ IsConnected(edges, ClassOf(T, lab, c))
  BY <1>3 DEF Strands
<1>5. PICK u \in Vertex, w \in Vertex :
         /\ u # w /\ Degree(T, u) = 1 /\ Degree(T, w) = 1
         /\ \A v \in Vertex : lab[v] = c => v = u \/ v = w \/ Degree(T, v) = 2
  BY <1>4 DEF IsOpen
<1>6. p.source \in {u, w} /\ p.target \in {u, w}
  <2>1. lab[p.source] = c /\ Degree(T, p.source) <= 1 /\ lab[p.target] = c /\ Degree(T, p.target) <= 1
    BY <1>2
  <2> QED
    BY <1>2, <1>5, <2>1
<1>7. {u, w} = EndsOfPath(p)
  BY <1>2, <1>5, <1>6
<1>8. ClassOf(T, lab, c) = T
  <2>1. \A i \in T : lab[edges[i][1]] = c
    <3> SUFFICES ASSUME NEW i \in T PROVE lab[edges[i][1]] = c
      OBVIOUS
    <3>1. edges[i][1] \in Ends(i)
      BY <1>1, EndsAre
    <3>2. edges[i][1] \in Vertex /\ lab[edges[i][1]] # NoComponent
      BY <3>1, ClassMembers
    <3> QED
      BY <3>2
  <2> QED
    BY <2>1 DEF ClassOf
<1>9. \A v : v \in Touched(edges, T) <=> v \in Vertex /\ lab[v] = c
  BY <1>8, TouchedIsLabelled
<1>10. \A v \in Touched(edges, T) \union EndsOfPath(p) : Degree(T, v) = IF v \in EndsOfPath(p) THEN 1 ELSE 2
  BY <1>5, <1>7, <1>9
<1> QED
  BY <1>2, <1>4, <1>8, <1>10 DEF Joined, IsPath, Degree

\* The components that leave the frontier: their labels with their masks.
PathClosing(q, out, cut) ==
  {<<e.component, e.mask>> :
     e \in {e \in {q[i] : i \in out} : e.component \notin Components(cut) \union {NoComponent}}}

PathCut(q, out) == [i \in DOMAIN q |-> IF i \in out THEN PathSlot ELSE q[i]]

\* The vertex v leaves, and with it the last of its component.
Leaves(lab, v, n) ==
  /\ v \in AtWork(n) \ Boundary(n)
  /\ lab[v] # NoComponent
  /\ \A w \in Boundary(n) : lab[w] # lab[v]

\* What a state shows of the vertices that leave and of those that stay.
LeavingShown(p, T, lab, q, n) ==
  /\ ShowsPath(p, T, lab, AtWork(n), q)
  /\ Shows(PathCut(q, Out(n)), Boundary(n), PathEntry(p, T, lab), PathSlot, PathEntries)
  /\ \A c : c \in Components(PathCut(q, Out(n))) <=> c # NoComponent /\ \E w \in Boundary(n) : lab[w] = c
  /\ \A z : z \in PathClosing(q, Out(n), PathCut(q, Out(n))) <=>
              \E v : Leaves(lab, v, n) /\ z = <<lab[v], EndsWith(p, lab, v)>>

\* The components that close are those of the vertices that leave for good.
LEMMA PathLeaves ==
  ASSUME PlanDone, NEW n \in 1 .. Len(edges), NEW p, NEW T, NEW lab, NEW q,
         Shows(q, AtWork(n), PathEntry(p, T, lab), PathSlot, PathEntries)
  PROVE  LeavingShown(p, T, lab, q, n)
<1> DEFINE f == PathEntry(p, T, lab)
           cut == PathCut(q, Out(n))
           closing == PathClosing(q, Out(n), cut)
<1>1. AtWork(n) \subseteq Vertex /\ Boundary(n) \subseteq AtWork(n)
  BY WorkAt
<1>2. ShowsPath(p, T, lab, AtWork(n), q)
  BY <1>1, PathShown
<1>3. Shows(cut, Boundary(n), f, PathSlot, PathEntries)
  <2> HIDE DEF f
  <2>1. Shows([i \in DOMAIN q |-> IF i \in Out(n) THEN PathSlot ELSE q[i]], Boundary(n), f, PathSlot, PathEntries)
    BY PathEntriesAre, ForgetShows DEF f
  <2> QED
    BY <2>1 DEF PathCut
<1> HIDE DEF cut, closing
<1>4. \A c : c \in Components(cut) <=> c # NoComponent /\ \E w \in Boundary(n) : lab[w] = c
  <2>1. Boundary(n) \subseteq Vertex
    BY <1>1
  <2>2. ShowsPath(p, T, lab, Boundary(n), cut)
    BY <1>3, <2>1, PathShown
  <2> QED
    BY <2>2 DEF ShowsPath
<1>5. Out(n) = {Place(v) : v \in AtWork(n) \ Boundary(n)}
  BY OutAt
<1>6. \A v \in AtWork(n) : q[Place(v)].component = lab[v] /\ q[Place(v)].mask = EndsWith(p, lab, v)
  <2> SUFFICES ASSUME NEW v \in AtWork(n)
               PROVE  q[Place(v)].component = lab[v] /\ q[Place(v)].mask = EndsWith(p, lab, v)
    OBVIOUS
  <2>1. PICK x, y : x = Degree(T, v) /\ y = EndsWith(p, lab, v)
    OBVIOUS
  <2>2. q[Place(v)] = [degree |-> x, component |-> lab[v], mask |-> y]
    BY <1>2, <2>1 DEF ShowsPath
  <2> QED
    BY <2>1, <2>2
<1>7. \A v \in AtWork(n) \ Boundary(n) : lab[v] \notin Components(cut) \union {NoComponent} <=> Leaves(lab, v, n)
  BY <1>4 DEF Leaves
<1>8. \A z : z \in closing <=> \E v : Leaves(lab, v, n) /\ z = <<lab[v], EndsWith(p, lab, v)>>
  <2>1. ASSUME NEW z \in closing
        PROVE  \E v : Leaves(lab, v, n) /\ z = <<lab[v], EndsWith(p, lab, v)>>
    <3>1. PICK i \in Out(n) : /\ q[i].component \notin Components(cut) \union {NoComponent}
                              /\ z = <<q[i].component, q[i].mask>>
      BY DEF closing, PathClosing
    <3>2. PICK v \in AtWork(n) \ Boundary(n) : i = Place(v)
      BY <1>5
    <3>3. q[i].component = lab[v] /\ q[i].mask = EndsWith(p, lab, v)
      BY <1>6, <3>2
    <3> QED
      BY <1>7, <3>1, <3>3
  <2>2. ASSUME NEW z, NEW v, Leaves(lab, v, n), z = <<lab[v], EndsWith(p, lab, v)>>
        PROVE  z \in closing
    <3>1. v \in AtWork(n) \ Boundary(n) /\ lab[v] \notin Components(cut) \union {NoComponent}
      BY <1>7, <2>2 DEF Leaves
    <3>2. PICK i \in Out(n) : i = Place(v)
      BY <1>5, <3>1
    <3>3. q[i].component = lab[v] /\ q[i].mask = EndsWith(p, lab, v)
      BY <1>6, <3>1, <3>2
    <3> QED
      BY <2>2, <3>1, <3>2, <3>3 DEF closing, PathClosing
  <2> QED
    BY <2>1, <2>2
<1> HIDE DEF f
<1> QED
  BY <1>2, <1>3, <1>4, <1>8 DEF LeavingShown, cut, closing, f

\* A vertex that leaves with a degree that no path gives it refutes the path.
LEMMA PathDegreeValid ==
  ASSUME PlanDone, NEW n \in 1 .. Len(edges), NEW S \in SUBSET Levels, NEW p, Joined(p, S),
         NEW v \in AtWork(n) \ Boundary(n)
  PROVE  ValidDegree(p, v, Degree(UpTo(S, n), v))
<1>1. edges \in Orders
  BY StepsOfPlan
<1>2. Degree(S, v) = Degree(UpTo(S, n), v)
  BY LeavingDegree
<1>3. /\ v \in EndsOfPath(p) => Degree(S, v) = 1
      /\ v \notin EndsOfPath(p) => Degree(S, v) \in {0, 2}
  BY <1>1, PathDegrees
<1> QED
  BY <1>2, <1>3 DEF ValidDegree, EndsOfPath

\* The state after the vertices have left.
PathForgotten(p, s, n) ==
  [s EXCEPT !.slots = PathCut(s.slots, Out(n)),
            !.done = s.done \/ PathClosing(s.slots, Out(n), PathCut(s.slots, Out(n))) # {}]

\* The set of at most one component is no more than one.
LEMMA NotMoreThanOne ==
  ASSUME NEW A, \A y, z \in A : y = z
  PROVE  ~(Cardinality(A) > 1)
<1>1. CASE A = {}
  BY <1>1, FS_EmptySet
<1>2. CASE A # {}
  <2>1. PICK z : A = {z}
    BY <1>2
  <2>2. Cardinality({z}) = 1
    BY FS_Singleton
  <2> QED
    BY <2>1, <2>2
<1> QED
  BY <1>1, <1>2

\* What the conditions of PathForget say of the selection.
ForgetsPath(p, T, lab, s, n) ==
  \/ /\ PathForget(p, s, steps[n]) = {}
     /\ \/ \E v \in AtWork(n) \ Boundary(n) : ~ValidDegree(p, v, Degree(T, v))
        \/ \E v : Leaves(lab, v, n) /\ EndsWith(p, lab, v) # EndsOfPath(p)
        \/ (\E v : Leaves(lab, v, n)) /\ (s.done \/ \E w \in Boundary(n) : lab[w] # NoComponent)
        \/ \E u, v : Leaves(lab, u, n) /\ Leaves(lab, v, n) /\ lab[u] # lab[v]
  \/ /\ PathForget(p, s, steps[n]) = {PathForgotten(p, s, n)}
     /\ \A v \in AtWork(n) \ Boundary(n) : ValidDegree(p, v, Degree(T, v))
     /\ \A v : Leaves(lab, v, n) => EndsWith(p, lab, v) = EndsOfPath(p)
     /\ (\E v : Leaves(lab, v, n)) => ~s.done /\ \A w \in Boundary(n) : lab[w] = NoComponent

\* PathForget rejects for one of four reasons, or else forgets.
LEMMA PathForgetCases ==
  ASSUME PlanDone, NEW n \in 1 .. Len(edges), NEW p, NEW T, NEW lab, NEW s,
         s \in [slots : Seq(PathEntries), done : BOOLEAN, possible : BOOLEAN],
         Shows(s.slots, AtWork(n), PathEntry(p, T, lab), PathSlot, PathEntries)
  PROVE  ForgetsPath(p, T, lab, s, n)
<1> DEFINE q == s.slots
           out == Out(n)
           cut == PathCut(q, out)
           closing == PathClosing(q, out, cut)
           badDegree == \E k \in 1 .. 2 : /\ Position(steps[n], k) \in out
                                          /\ ~ValidDegree(p, steps[n].endpoints[k], q[Position(steps[n], k)].degree)
           badClose == \/ \E c \in closing : c[2] # {p.source, p.target}
                       \/ closing # {} /\ (s.done \/ Components(cut) # {})
                       \/ Cardinality(closing) > 1
           next == PathForget(p, s, steps[n])
           r == PathForgotten(p, s, n)
<1>1. next = IF badDegree \/ badClose THEN {} ELSE {r}
  BY DEF PathForget, PathForgotten, PathClosing, PathCut, Out
<1>2. LeavingShown(p, T, lab, q, n)
  BY PathLeaves
<1> HIDE DEF q, cut, closing, next, r
<1>3. /\ ShowsPath(p, T, lab, AtWork(n), q)
      /\ \A c : c \in Components(cut) <=> c # NoComponent /\ \E w \in Boundary(n) : lab[w] = c
      /\ \A z : z \in closing <=> \E v : Leaves(lab, v, n) /\ z = <<lab[v], EndsWith(p, lab, v)>>
  BY <1>2 DEF LeavingShown, cut, closing
<1>4. /\ Ends(n) = {edges[n][1], edges[n][2]} /\ steps[n].endpoints = edges[n]
      /\ Position(steps[n], 1) = Place(edges[n][1]) /\ Position(steps[n], 2) = Place(edges[n][2])
  BY StepAt
<1>5. /\ Ends(n) \subseteq AtWork(n)
      /\ AtWork(n) \ Boundary(n) = Ends(n) \ Boundary(n)
      /\ \A v \in AtWork(n) : Place(v) \in out <=> v \notin Boundary(n)
  BY WorkAt, OutAt
<1>6. \A v \in AtWork(n) : q[Place(v)].degree = Degree(T, v)
  <2> SUFFICES ASSUME NEW v \in AtWork(n) PROVE q[Place(v)].degree = Degree(T, v)
    OBVIOUS
  <2>1. PICK x, y : x = Degree(T, v) /\ y = EndsWith(p, lab, v)
    OBVIOUS
  <2>2. q[Place(v)] = [degree |-> x, component |-> lab[v], mask |-> y]
    BY <1>3, <2>1 DEF ShowsPath
  <2> QED
    BY <2>1, <2>2
<1> HIDE DEF out
<1>7. badDegree <=> \E v \in AtWork(n) \ Boundary(n) : ~ValidDegree(p, v, Degree(T, v))
  <2>1. badDegree <=>
          \/ /\ Place(edges[n][1]) \in out
             /\ ~ValidDegree(p, edges[n][1], q[Place(edges[n][1])].degree)
          \/ /\ Place(edges[n][2]) \in out
             /\ ~ValidDegree(p, edges[n][2], q[Place(edges[n][2])].degree)
    <3>1. \A k : k \in 1 .. 2 <=> k = 1 \/ k = 2
      OBVIOUS
    <3>2. steps[n].endpoints[1] = edges[n][1] /\ steps[n].endpoints[2] = edges[n][2]
      BY <1>4
    <3> QED
      BY <1>4, <3>1, <3>2
  <2>2. edges[n][1] \in AtWork(n) /\ edges[n][2] \in AtWork(n)
    BY <1>4, <1>5
  <2>3. badDegree <=>
          \/ edges[n][1] \notin Boundary(n) /\ ~ValidDegree(p, edges[n][1], Degree(T, edges[n][1]))
          \/ edges[n][2] \notin Boundary(n) /\ ~ValidDegree(p, edges[n][2], Degree(T, edges[n][2]))
    BY <1>5, <1>6, <2>1, <2>2
  <2>4. \A v : v \in AtWork(n) \ Boundary(n) <=> (v = edges[n][1] \/ v = edges[n][2]) /\ v \notin Boundary(n)
    BY <1>4, <1>5
  <2> HIDE DEF badDegree
  <2> QED
    BY <2>3, <2>4
<1> HIDE DEF badDegree
<1>8. Components(cut) = {} <=> \A w \in Boundary(n) : lab[w] = NoComponent
  BY <1>3
<1>9. closing # {} <=> \E v : Leaves(lab, v, n)
  BY <1>3
<1>10. (\E c \in closing : c[2] # {p.source, p.target}) <=>
         \E v : Leaves(lab, v, n) /\ EndsWith(p, lab, v) # EndsOfPath(p)
  <2>1. \A x, y : <<x, y>>[2] = y
    OBVIOUS
  <2>2. EndsOfPath(p) = {p.source, p.target}
    BY DEF EndsOfPath
  <2>3. ASSUME NEW c \in closing, c[2] # {p.source, p.target}
        PROVE  \E v : Leaves(lab, v, n) /\ EndsWith(p, lab, v) # EndsOfPath(p)
    <3>1. PICK v : Leaves(lab, v, n) /\ c = <<lab[v], EndsWith(p, lab, v)>>
      BY <1>3
    <3>2. PICK x, y : x = lab[v] /\ y = EndsWith(p, lab, v)
      OBVIOUS
    <3>3. c[2] = y
      BY <3>1, <3>2
    <3> QED
      BY <2>2, <2>3, <3>1, <3>2, <3>3
  <2>4. ASSUME NEW v, Leaves(lab, v, n), EndsWith(p, lab, v) # EndsOfPath(p)
        PROVE  \E c \in closing : c[2] # {p.source, p.target}
    <3>1. PICK x, y : x = lab[v] /\ y = EndsWith(p, lab, v)
      OBVIOUS
    <3>2. <<x, y>> \in closing /\ <<x, y>>[2] = y
      BY <1>3, <2>4, <3>1
    <3> QED
      BY <2>2, <2>4, <3>1, <3>2
  <2> QED
    BY <2>3, <2>4
<1>11. Cardinality(closing) > 1 => \E u, v : Leaves(lab, u, n) /\ Leaves(lab, v, n) /\ lab[u] # lab[v]
  <2> SUFFICES ASSUME \A u, v : Leaves(lab, u, n) /\ Leaves(lab, v, n) => lab[u] = lab[v]
               PROVE  ~(Cardinality(closing) > 1)
    OBVIOUS
  <2>1. \A u, v : lab[u] = lab[v] => EndsWith(p, lab, u) = EndsWith(p, lab, v)
    BY DEF EndsWith
  <2>2. \A y, z \in closing : y = z
    <3> SUFFICES ASSUME NEW y \in closing, NEW z \in closing PROVE y = z
      OBVIOUS
    <3>1. PICK u : Leaves(lab, u, n) /\ y = <<lab[u], EndsWith(p, lab, u)>>
      BY <1>3
    <3>2. PICK v : Leaves(lab, v, n) /\ z = <<lab[v], EndsWith(p, lab, v)>>
      BY <1>3
    <3> QED
      BY <2>1, <3>1, <3>2
  <2> QED
    BY <2>2, NotMoreThanOne
<1>12. CASE badDegree
  <2>1. next = {}
    BY <1>1, <1>12
  <2> QED
    BY <1>7, <1>12, <2>1 DEF next, ForgetsPath
<1>13. CASE badClose
  <2>1. next = {}
    BY <1>1, <1>13
  <2>2. \/ \E v : Leaves(lab, v, n) /\ EndsWith(p, lab, v) # EndsOfPath(p)
        \/ (\E v : Leaves(lab, v, n)) /\ (s.done \/ \E w \in Boundary(n) : lab[w] # NoComponent)
        \/ \E u, v : Leaves(lab, u, n) /\ Leaves(lab, v, n) /\ lab[u] # lab[v]
    BY <1>8, <1>9, <1>10, <1>11, <1>13
  <2> QED
    BY <2>1, <2>2 DEF next, ForgetsPath
<1>14. CASE ~badDegree /\ ~badClose
  <2>1. next = {r}
    BY <1>1, <1>14
  <2>2. \A v \in AtWork(n) \ Boundary(n) : ValidDegree(p, v, Degree(T, v))
    BY <1>7, <1>14
  <2>3. \A v : Leaves(lab, v, n) => EndsWith(p, lab, v) = EndsOfPath(p)
    BY <1>10, <1>14
  <2>4. (\E v : Leaves(lab, v, n)) => ~s.done /\ \A w \in Boundary(n) : lab[w] = NoComponent
    BY <1>8, <1>9, <1>14
  <2> HIDE DEF badClose
  <2> QED
    BY <2>1, <2>2, <2>3, <2>4 DEF next, r, ForgetsPath
<1> QED
  BY <1>12, <1>13, <1>14

\* Forgetting rejects no path, and tells the same of what it leaves.
LEMMA PathForgets ==
  ASSUME PlanDone, NEW n \in 1 .. Len(edges), NEW S \in SUBSET Levels, NEW p, Proper(p), NEW lab, NEW s,
         TellsPath(p, s, UpTo(S, n), lab, AtWork(n))
  PROVE  PathGoes(p, PathForget(p, s, steps[n]), S, n, Boundary(n))
<1> DEFINE T == UpTo(S, n)
           next == PathForget(p, s, steps[n])
           r == PathForgotten(p, s, n)
           cut == PathCut(s.slots, Out(n))
           closing == PathClosing(s.slots, Out(n), cut)
<1>1. /\ s \in [slots : Seq(PathEntries), done : BOOLEAN, possible : BOOLEAN]
      /\ s.possible
      /\ Shows(s.slots, AtWork(n), PathEntry(p, T, lab), PathSlot, PathEntries)
      /\ T \in SUBSET Levels
      /\ Labelled(T, lab)
      /\ s.done => Joined(p, T) /\ \A v \in AtWork(n) : lab[v] = NoComponent
      /\ ~s.done => /\ Strands(T, lab)
                    /\ \A c \in Nat : IsUsed(lab, c) => \E v \in AtWork(n) : lab[v] = c
                    /\ \A v \in EndsOfPath(p) : Degree(T, v) <= 1
  BY DEF TellsPath
<1>2. edges \in Orders /\ n \in 0 .. Len(edges)
  BY StepsOfPlan
<1>3. AtWork(n) \subseteq Vertex /\ Boundary(n) \subseteq AtWork(n)
  BY WorkAt
<1>4. \A v \in Vertex : lab[v] # NoComponent => lab[v] \in Nat /\ IsUsed(lab, lab[v])
  BY <1>1 DEF Labelled, Labels, IsUsed
<1> HIDE DEF T, next
<1>5. \/ /\ next = {}
         /\ \/ \E v \in AtWork(n) \ Boundary(n) : ~ValidDegree(p, v, Degree(T, v))
            \/ \E v : Leaves(lab, v, n) /\ EndsWith(p, lab, v) # EndsOfPath(p)
            \/ (\E v : Leaves(lab, v, n)) /\ (s.done \/ \E w \in Boundary(n) : lab[w] # NoComponent)
            \/ \E u, v : Leaves(lab, u, n) /\ Leaves(lab, v, n) /\ lab[u] # lab[v]
      \/ /\ next = {r}
         /\ \A v \in AtWork(n) \ Boundary(n) : ValidDegree(p, v, Degree(T, v))
         /\ \A v : Leaves(lab, v, n) => EndsWith(p, lab, v) = EndsOfPath(p)
         /\ (\E v : Leaves(lab, v, n)) => ~s.done /\ \A w \in Boundary(n) : lab[w] = NoComponent
  <2> HIDE DEF r
  <2>1. ForgetsPath(p, T, lab, s, n)
    BY <1>1, PathForgetCases
  <2> QED
    BY <2>1 DEF next, r, ForgetsPath
<1>6. LeavingShown(p, T, lab, s.slots, n)
  BY <1>1, PathLeaves
<1>7. closing # {} <=> \E v : Leaves(lab, v, n)
  BY <1>6 DEF LeavingShown
<1>8. Shows(cut, Boundary(n), PathEntry(p, T, lab), PathSlot, PathEntries)
  BY <1>6 DEF LeavingShown
<1> HIDE DEF cut, closing
<1>9. /\ r \in [slots : Seq(PathEntries), done : BOOLEAN, possible : BOOLEAN]
      /\ r.slots = cut /\ r.possible
      /\ r.done <=> s.done \/ closing # {}
  <2>1. cut \in Seq(PathEntries)
    BY <1>8 DEF Shows
  <2>2. PICK d \in BOOLEAN : d = (s.done \/ closing # {})
    BY <1>1
  <2>3. r = [s EXCEPT !.slots = cut, !.done = d]
    BY <2>2 DEF PathForgotten, cut, closing
  <2> HIDE DEF r
  <2> QED
    BY <1>1, <2>1, <2>2, <2>3
<1>10. ASSUME NEW v, Leaves(lab, v, n)
       PROVE  /\ ~s.done /\ v \in Vertex /\ lab[v] \in Nat /\ IsUsed(lab, lab[v])
              /\ Joined(p, S) => /\ \A u \in Vertex : lab[u] # NoComponent => lab[u] = lab[v]
                                 /\ \A u \in EndsOfPath(p) : lab[u] = lab[v]
  <2>1. ~s.done /\ v \in Vertex /\ lab[v] # NoComponent /\ \A w \in Boundary(n) : lab[w] # lab[v]
    BY <1>1, <1>3, <1>10 DEF Leaves
  <2>2. PICK c : c = lab[v]
    OBVIOUS
  <2>3. c \in Nat /\ IsUsed(lab, c) /\ \A w \in Boundary(n) : lab[w] # c
    BY <1>4, <2>1, <2>2
  <2>4. Strands(UpTo(S, n), lab)
    BY <1>1, <2>1 DEF T
  <2>5. Joined(p, S) => /\ \A u \in Vertex : lab[u] # NoComponent => lab[u] = c
                        /\ \A u \in EndsOfPath(p) : lab[u] = c
    BY <1>2, <2>3, <2>4, PathCloses
  <2> QED
    BY <2>1, <2>2, <2>3, <2>5
<1> HIDE DEF r
<1>11. CASE next = {}
  <2> SUFFICES ASSUME Joined(p, S) PROVE FALSE
    BY <1>11 DEF PathGoes, next
  <2>1. \A v \in AtWork(n) \ Boundary(n) : ValidDegree(p, v, Degree(T, v))
    BY PathDegreeValid DEF T
  <2>2. \A v : Leaves(lab, v, n) => EndsWith(p, lab, v) = EndsOfPath(p)
    <3> SUFFICES ASSUME NEW v, Leaves(lab, v, n) PROVE EndsWith(p, lab, v) = EndsOfPath(p)
      OBVIOUS
    <3>1. lab[v] # NoComponent /\ \A u \in EndsOfPath(p) : lab[u] = lab[v]
      BY <1>10 DEF Leaves
    <3> QED
      BY <3>1 DEF EndsWith
  <2>3. ~((\E v : Leaves(lab, v, n)) /\ (s.done \/ \E w \in Boundary(n) : lab[w] # NoComponent))
    <3> SUFFICES ASSUME NEW v, Leaves(lab, v, n), NEW w \in Boundary(n), lab[w] # NoComponent PROVE FALSE
      BY <1>10
    <3>1. lab[w] = lab[v]
      BY <1>3, <1>10
    <3> QED
      BY <3>1 DEF Leaves
  <2>4. ~ \E u, v : Leaves(lab, u, n) /\ Leaves(lab, v, n) /\ lab[u] # lab[v]
    <3> SUFFICES ASSUME NEW u, NEW v, Leaves(lab, u, n), Leaves(lab, v, n) PROVE lab[u] = lab[v]
      OBVIOUS
    <3>1. u \in Vertex /\ lab[u] # NoComponent
      BY <1>3 DEF Leaves
    <3> QED
      BY <1>10, <3>1
  <2>5. next # {r} \/ next = {}
    BY <1>11
  <2>6. {r} # {}
    OBVIOUS
  <2> QED
    BY <1>5, <1>11, <2>1, <2>2, <2>3, <2>4, <2>6
<1>12. CASE /\ next = {r}
            /\ \A v \in AtWork(n) \ Boundary(n) : ValidDegree(p, v, Degree(T, v))
            /\ \A v : Leaves(lab, v, n) => EndsWith(p, lab, v) = EndsOfPath(p)
            /\ (\E v : Leaves(lab, v, n)) => ~s.done /\ \A w \in Boundary(n) : lab[w] = NoComponent
  <2>1. r.done => Joined(p, T) /\ \A v \in Boundary(n) : lab[v] = NoComponent
    <3>1. CASE s.done
      BY <1>1, <1>3, <3>1
    <3>2. CASE ~s.done /\ \E v : Leaves(lab, v, n)
      <4>1. PICK v : Leaves(lab, v, n)
        BY <3>2
      <4>2. /\ Strands(T, lab) /\ \A u \in EndsOfPath(p) : Degree(T, u) <= 1
            /\ \A c \in Nat : IsUsed(lab, c) => \E u \in AtWork(n) : lab[u] = c
        BY <1>1, <3>2
      <4>3. \A w \in Boundary(n) : lab[w] = NoComponent
        BY <1>12, <4>1
      <4>4. ASSUME NEW u, Leaves(lab, u, n) PROVE \A e \in EndsOfPath(p) : lab[e] = lab[u]
        <5>1. EndsWith(p, lab, u) = EndsOfPath(p) /\ lab[u] # NoComponent
          BY <1>12, <4>4 DEF Leaves
        <5> QED
          BY <5>1 DEF EndsWith
      <4>5. ASSUME NEW x \in Vertex, lab[x] # NoComponent PROVE lab[x] = lab[v]
        <5>1. PICK u \in AtWork(n) : lab[u] = lab[x]
          BY <1>4, <4>2, <4>5
        <5>2. Leaves(lab, u, n)
          BY <4>3, <4>5, <5>1 DEF Leaves
        <5>3. p.source \in EndsOfPath(p)
          BY DEF EndsOfPath
        <5>4. lab[p.source] = lab[u]
          BY <4>4, <5>2, <5>3
        <5>5. lab[p.source] = lab[v]
          BY <4>1, <4>4, <5>3
        <5> QED
          BY <5>1, <5>4, <5>5
      <4>6. PICK c \in Nat : c = lab[v]
        BY <1>10, <4>1
      <4>7. \A x \in Vertex : lab[x] # NoComponent => lab[x] = c
        BY <4>5, <4>6
      <4>8. \A e \in EndsOfPath(p) : lab[e] = c /\ Degree(T, e) <= 1
        BY <4>1, <4>2, <4>4, <4>6
      <4>9. Joined(p, T)
        BY <1>2, <4>2, <4>7, <4>8, StrandIsPath
      <4> QED
        BY <4>3, <4>9
    <3> QED
      BY <1>7, <1>9, <3>1, <3>2
  <2>2. ASSUME ~r.done
        PROVE  /\ Strands(T, lab)
               /\ \A c \in Nat : IsUsed(lab, c) => \E v \in Boundary(n) : lab[v] = c
               /\ \A v \in EndsOfPath(p) : Degree(T, v) <= 1
    <3>1. ~s.done /\ ~ \E v : Leaves(lab, v, n)
      BY <1>7, <1>9, <2>2
    <3>2. /\ Strands(T, lab)
          /\ \A c \in Nat : IsUsed(lab, c) => \E v \in AtWork(n) : lab[v] = c
          /\ \A v \in EndsOfPath(p) : Degree(T, v) <= 1
      BY <1>1, <3>1
    <3>3. ASSUME NEW c \in Nat, IsUsed(lab, c) PROVE \E v \in Boundary(n) : lab[v] = c
      <4>1. PICK v \in AtWork(n) : lab[v] = c
        BY <3>2, <3>3
      <4>2. c # NoComponent
        BY DEF NoComponent
      <4>3. ~Leaves(lab, v, n)
        BY <3>1
      <4> QED
        BY <4>1, <4>2, <4>3 DEF Leaves
    <3> QED
      BY <3>2, <3>3
  <2>3. TellsPath(p, r, T, lab, Boundary(n))
    BY <1>1, <1>8, <1>9, <2>1, <2>2 DEF TellsPath
  <2> QED
    BY <1>12, <2>3 DEF PathGoes, next, T
<1> QED
  BY <1>5, <1>11, <1>12

\* The canonical state tells the same under other labels.
LEMMA PathCanonical ==
  ASSUME PlanDone, NEW n \in 0 .. Len(edges), NEW p, Proper(p), NEW T, NEW lab, NEW s,
         TellsPath(p, s, T, lab, Boundary(n))
  PROVE  \E next : TellsPath(p, PathCanonicalize(s, BoundaryView(n)), T, next, Boundary(n))
<1> DEFINE W == Boundary(n)
           q == Truncate(s.slots, BoundaryView(n))
           r == Renumbered(q)
           ren == Ranks(q)
           next == Renamed(lab, ren)
           f == PathEntry(p, T, lab)
           g == [v \in Vertex |-> [degree |-> Degree(T, v), component |-> next[v], mask |-> EndsWith(p, lab, v)]]
           h == PathEntry(p, T, next)
           x == [s EXCEPT !.slots = r]
<1>1. edges \in Orders
  BY StepsOfPlan
<1>2. /\ s \in [slots : Seq(PathEntries), done : BOOLEAN, possible : BOOLEAN]
      /\ s.possible
      /\ Shows(s.slots, W, f, PathSlot, PathEntries)
      /\ T \in SUBSET Levels
      /\ Labelled(T, lab)
      /\ s.done => Joined(p, T) /\ \A v \in W : lab[v] = NoComponent
      /\ ~s.done => /\ Strands(T, lab)
                    /\ \A c \in Nat : IsUsed(lab, c) => \E v \in W : lab[v] = c
                    /\ \A v \in EndsOfPath(p) : Degree(T, v) <= 1
  BY DEF TellsPath
<1>3. W \subseteq Vertex
  BY DEF Boundary
<1>4. Shows(q, W, f, PathSlot, PathEntries)
  <2> HIDE DEF f
  <2> QED
    BY <1>2, PathEntriesAre, TruncateShows
<1>5. PathCanonicalize(s, BoundaryView(n)) = x
  BY <1>2 DEF PathCanonicalize
<1> HIDE DEF W, q
<1>6. \A v \in W : f[v] = [degree |-> Degree(T, v), component |-> lab[v], mask |-> EndsWith(p, lab, v)]
  BY <1>3 DEF PathEntry
<1>7. \A v \in W : f[v].component = lab[v]
  <2> SUFFICES ASSUME NEW v \in W PROVE f[v].component = lab[v]
    OBVIOUS
  <2>1. PICK d, e : d = Degree(T, v) /\ e = EndsWith(p, lab, v)
    OBVIOUS
  <2>2. f[v] = [degree |-> d, component |-> lab[v], mask |-> e]
    BY <1>6, <2>1
  <2> HIDE DEF f
  <2> QED
    BY <2>2
<1>8. \A v \in W : g[v] = IF lab[v] = NoComponent THEN f[v] ELSE [f[v] EXCEPT !.component = ren[lab[v]]]
  <2> SUFFICES ASSUME NEW v \in W
               PROVE  g[v] = IF lab[v] = NoComponent THEN f[v] ELSE [f[v] EXCEPT !.component = ren[lab[v]]]
    OBVIOUS
  <2>1. PICK d, e : d = Degree(T, v) /\ e = EndsWith(p, lab, v)
    OBVIOUS
  <2>2. g[v] = [degree |-> d, component |-> next[v], mask |-> e]
    BY <1>3, <2>1
  <2>3. next[v] = IF lab[v] = NoComponent THEN NoComponent ELSE ren[lab[v]]
    BY <1>3 DEF Renamed
  <2>4. f[v] = [degree |-> d, component |-> lab[v], mask |-> e]
    BY <1>6, <2>1
  <2> HIDE DEF f, g, next, ren
  <2> QED
    BY <2>2, <2>3, <2>4
<1>9. \A v \in W : g[v] = [degree |-> Degree(T, v), component |-> next[v], mask |-> EndsWith(p, lab, v)]
  BY <1>3
<1>10. \A v \in W : h[v] = [degree |-> Degree(T, v), component |-> next[v], mask |-> EndsWith(p, next, v)]
  BY <1>3 DEF PathEntry
<1> HIDE DEF f, g, h, r, next
<1>11. PICK m : m = Ranks(q)
  OBVIOUS
<1>12. Shows(r, W, g, PathSlot, PathEntries) /\ m \in [Nat -> Nat] /\ ApartIn(W, lab, m)
  <2>1. Relabels(f, g, lab, m, W)
    BY <1>7, <1>8, <1>11 DEF Relabels
  <2> QED
    BY <1>4, <1>11, <2>1, PathEntriesAre, RenumberShows DEF r
<1>13. next = Renamed(lab, m)
  BY <1>11 DEF next
<1>14. Labelled(T, next)
  BY <1>1, <1>2, <1>12, <1>13, RenamedLabels
<1>15. \A v \in Vertex : next[v] = IF lab[v] = NoComponent THEN NoComponent ELSE m[lab[v]]
  BY <1>13 DEF Renamed
<1>16. \A v \in Vertex : lab[v] # NoComponent => lab[v] \in Nat /\ IsUsed(lab, lab[v])
  BY <1>2 DEF Labelled, Labels, IsUsed
<1>17. ~s.done => KeepsApart(lab, m)
  <2> SUFFICES ASSUME ~s.done, NEW u \in Vertex, NEW v \in Vertex, lab[u] # NoComponent, lab[v] # NoComponent,
                      m[lab[u]] = m[lab[v]]
               PROVE  lab[u] = lab[v]
    BY DEF KeepsApart
  <2>1. PICK w \in W : lab[w] = lab[u]
    BY <1>2, <1>16
  <2>2. PICK y \in W : lab[y] = lab[v]
    BY <1>2, <1>16
  <2> QED
    BY <1>12, <2>1, <2>2 DEF ApartIn
<1>18. ~s.done => Strands(T, next)
  BY <1>1, <1>2, <1>12, <1>13, <1>17, RenamedStrands
<1>19. \A v \in W : EndsWith(p, next, v) = EndsWith(p, lab, v)
  <2> SUFFICES ASSUME NEW v \in W PROVE EndsWith(p, next, v) = EndsWith(p, lab, v)
    OBVIOUS
  <2>1. v \in Vertex
    BY <1>3
  <2>2. CASE lab[v] = NoComponent
    BY <1>15, <2>1, <2>2 DEF EndsWith
  <2>3. CASE lab[v] # NoComponent
    <3>1. ~s.done
      BY <1>2, <2>3
    <3>2. m[lab[v]] # NoComponent /\ next[v] = m[lab[v]]
      <4>1. next[v] = m[lab[v]]
        BY <1>15, <2>1, <2>3
      <4>2. lab[v] \in Nat
        BY <1>16, <2>1, <2>3
      <4>3. m[lab[v]] \in Nat
        BY <1>12, <4>2
      <4>4. NoComponent \notin Nat
        BY DEF NoComponent
      <4> QED
        BY <4>1, <4>3, <4>4
    <3>3. EndsOfPath(p) \subseteq Vertex
      BY DEF EndsOfPath, Proper
    <3>4. \A u \in Vertex : next[u] = next[v] <=> lab[u] = lab[v]
      BY <1>15, <1>17, <2>1, <2>3, <3>1, <3>2 DEF KeepsApart
    <3> QED
      BY <2>3, <3>2, <3>3, <3>4 DEF EndsWith
  <2> QED
    BY <2>2, <2>3
<1>20. \A v \in W : g[v] = h[v]
  BY <1>9, <1>10, <1>19
<1>21. Shows(r, W, h, PathSlot, PathEntries)
  BY <1>12, <1>20 DEF Shows
<1>22. x \in [slots : Seq(PathEntries), done : BOOLEAN, possible : BOOLEAN]
       /\ x.slots = r /\ x.done = s.done /\ x.possible
  <2>1. r \in Seq(PathEntries)
    BY <1>12 DEF Shows
  <2> QED
    BY <1>2, <2>1
<1> HIDE DEF x
<1>23. s.done => \A v \in W : next[v] = NoComponent
  BY <1>2, <1>3, <1>15
<1>24. ~s.done => \A c \in Nat : IsUsed(next, c) => \E v \in W : next[v] = c
  <2> SUFFICES ASSUME ~s.done, NEW c \in Nat, IsUsed(next, c) PROVE \E v \in W : next[v] = c
    OBVIOUS
  <2>1. PICK u \in Vertex : next[u] = c
    BY DEF IsUsed
  <2>2. lab[u] # NoComponent /\ m[lab[u]] = c
    BY <1>15, <2>1 DEF NoComponent
  <2>3. PICK w \in W : lab[w] = lab[u]
    BY <1>2, <1>16, <2>2
  <2> QED
    BY <1>3, <1>15, <2>2, <2>3
<1>25. TellsPath(p, x, T, next, W)
  BY <1>2, <1>14, <1>18, <1>21, <1>22, <1>23, <1>24 DEF TellsPath, h
<1> QED
  BY <1>5, <1>25 DEF W

\* A whole step.
LEMMA PathStep ==
  ASSUME PlanDone, NEW n \in 1 .. Len(edges), NEW S \in SUBSET Levels, NEW lab, NEW s, NEW p, Proper(p),
         TellsPath(p, s, UpTo(S, n - 1), lab, Boundary(n - 1))
  PROVE  PathGoes(p, PathTransition(p, s, steps[n], ChoiceAt(S, n)), S, n, Boundary(n))
<1> DEFINE t == [s EXCEPT !.slots = Introduced(s.slots, steps[n], PathSlot)]
           chosen == IF ChoiceAt(S, n) = "include" THEN PathInclude(p, t, steps[n]) ELSE {t}
           next == PathTransition(p, s, steps[n], ChoiceAt(S, n))
<1>1. TellsPath(p, t, UpTo(S, n - 1), lab, AtWork(n))
  BY PathEnters
<1>2. next = UNION {PathForget(p, c, steps[n]) : c \in chosen}
  <2>1. s.possible /\ s \in [slots : Seq(PathEntries), done : BOOLEAN, possible : BOOLEAN]
    BY DEF TellsPath
  <2>2. t = [s EXCEPT !.slots = Introduced(@, steps[n], PathSlot)]
    BY <2>1
  <2> QED
    BY <2>1, <2>2 DEF PathTransition
<1>3. ChoiceAt(S, n) = "include" <=> n \in S
  BY DEF ChoiceAt
<1> HIDE DEF t, next
<1>4. PathGoes(p, chosen, S, n, AtWork(n))
  <2>1. CASE n \in S
    <3>1. PathGoes(p, PathInclude(p, t, steps[n]), S, n, AtWork(n))
      BY <1>1, <2>1, PathIncludes
    <3> QED
      BY <1>3, <2>1, <3>1
  <2>2. CASE n \notin S
    <3>1. UpTo(S, n) = UpTo(S, n - 1)
      BY <2>2, UpToNext
    <3>2. chosen = {t}
      BY <1>3, <2>2
    <3> QED
      BY <1>1, <3>1, <3>2 DEF PathGoes
  <2> QED
    BY <2>1, <2>2
<1> HIDE DEF chosen
<1>5. CASE chosen = {} /\ ~Joined(p, S)
  <2>1. next = {}
    BY <1>2, <1>5
  <2> QED
    BY <1>5, <2>1 DEF PathGoes, next
<1>6. CASE \E r, y : chosen = {r} /\ TellsPath(p, r, UpTo(S, n), y, AtWork(n))
  <2>1. PICK r, y : chosen = {r} /\ TellsPath(p, r, UpTo(S, n), y, AtWork(n))
    BY <1>6
  <2>2. next = PathForget(p, r, steps[n])
    BY <1>2, <2>1
  <2>3. PathGoes(p, PathForget(p, r, steps[n]), S, n, Boundary(n))
    BY <2>1, PathForgets
  <2> QED
    BY <2>2, <2>3 DEF next
<1> QED
  BY <1>4, <1>5, <1>6 DEF PathGoes

\* The first state tells of no edges.
LEMMA PathStarts ==
  ASSUME PlanDone, NEW S \in SUBSET Levels, NEW p
  PROVE  \E lab : TellsPath(p, [slots |-> << >>, done |-> FALSE, possible |-> TRUE], UpTo(S, 0), lab, Boundary(0))
<1> DEFINE lab == [v \in Vertex |-> NoComponent]
           s == [slots |-> << >>, done |-> FALSE, possible |-> TRUE]
<1>1. edges \in Orders /\ UpTo(S, 0) = {} /\ Boundary(0) = {}
  BY StepsOfPlan, UpToEnds, OuterBoundaries
<1>2. {} \in SUBSET Levels
  OBVIOUS
<1>3. \A v : Degree({}, v) = 0
  BY <1>1, <1>2, DegreeZero
<1>4. Labelled({}, lab)
  BY <1>3 DEF Labelled, Labels
<1>5. ~ \E c \in Nat : IsUsed(lab, c)
  BY DEF IsUsed, NoComponent
<1>6. Strands({}, lab)
  BY <1>2, <1>4, <1>5 DEF Strands
<1>7. Shows(<< >>, {}, PathEntry(p, {}, lab), PathSlot, PathEntries)
  BY DEF Shows
<1>8. s \in [slots : Seq(PathEntries), done : BOOLEAN, possible : BOOLEAN]
      /\ s.slots = << >> /\ s.done = FALSE /\ s.possible
  OBVIOUS
<1>9. \A v \in EndsOfPath(p) : Degree({}, v) <= 1
  BY <1>3
<1> HIDE DEF s, lab
<1>10. TellsPath(p, s, {}, lab, {})
  BY <1>2, <1>4, <1>5, <1>6, <1>7, <1>8, <1>9 DEF TellsPath
<1> QED
  BY <1>1, <1>10 DEF s

\* The run of a selection is rejected, or cannot be accepted, only if it is no
\* path, and tells what it has selected.
RunsAsPath(p, S, n) ==
  \/ PathGoes(p, Run(S)[n], S, n, Boundary(n))
  \/ ~Joined(p, S) /\ \E r : Run(S)[n] = {r} /\ ~r.possible

\* The run begins so: the first state is impossible only if there is no path.
LEMMA PathFirst ==
  ASSUME PlanDone, SolvesPaths, problem \in Problems, Proper(problem), NEW S \in SUBSET Levels
  PROVE  RunsAsPath(problem, S, 0)
<1>1. Len(edges) \in Nat /\ Levels = 1 .. Len(edges) /\ edges \in Orders
  BY StepsOfPlan
<1>2. Run(S)[0] = FirstState
  BY <1>1, RunUnfolds
<1>3. PICK b : b = ({problem.source, problem.target} \subseteq Touched(edges, DOMAIN edges))
  OBVIOUS
<1>4. PICK s : s = [slots |-> << >>, done |-> FALSE, possible |-> b]
  OBVIOUS
<1>5. InitialState(problem, V, edges) = {s}
  <2>1. InitialState(problem, V, edges) = PathInitial(problem, V, edges)
    BY <1>1 DEF SolvesPaths
  <2>2. ~(problem.source = problem.target \/ ~({problem.source, problem.target} \subseteq 0 .. V - 1))
    BY DEF Proper, Vertex
  <2> QED
    BY <1>3, <1>4, <2>1, <2>2 DEF PathInitial
<1>6. FirstState = {PathCanonicalize(s, BoundaryView(0))}
  BY <1>5, CanonicalOfOne, FirstView DEF FirstState, SolvesPaths
<1>7. CASE b
  <2>1. s = [slots |-> << >>, done |-> FALSE, possible |-> TRUE]
    BY <1>3, <1>4, <1>7
  <2>2. \E lab : TellsPath(problem, s, UpTo(S, 0), lab, Boundary(0))
    BY <2>1, PathStarts
  <2>3. 0 \in 0 .. Len(edges)
    BY <1>1
  <2>4. \E lab : TellsPath(problem, PathCanonicalize(s, BoundaryView(0)), UpTo(S, 0), lab, Boundary(0))
    BY <2>2, <2>3, PathCanonical
  <2> QED
    BY <1>2, <1>6, <2>4 DEF PathGoes, RunsAsPath
<1>8. CASE ~b
  <2>1. PICK v \in EndsOfPath(problem) : v \notin Touched(edges, DOMAIN edges)
    BY <1>3, <1>8 DEF EndsOfPath
  <2>2. Touched(edges, S) \subseteq Touched(edges, DOMAIN edges)
    BY DEF Touched, Levels
  <2>3. ~Joined(problem, S)
    BY <1>1, <2>1, <2>2, PathDegrees
  <2>4. PICK r : r = PathCanonicalize(s, BoundaryView(0))
    OBVIOUS
  <2>5. r.possible = b
    BY <1>4, <2>4 DEF PathCanonicalize
  <2> QED
    BY <1>2, <1>6, <1>8, <2>3, <2>4, <2>5 DEF RunsAsPath
<1> QED
  BY <1>7, <1>8

\* The run goes on so to its end.
LEMMA PathRuns ==
  ASSUME PlanDone, SolvesPaths, problem \in Problems, Proper(problem), NEW S \in SUBSET Levels
  PROVE  \A n \in 0 .. Len(edges) : RunsAsPath(problem, S, n)
<1>1. Len(edges) \in Nat /\ Levels = 1 .. Len(edges) /\ edges \in Orders
  BY StepsOfPlan
<1>2. \A n \in 1 .. Len(edges) : Run(S)[n] = Follow(Run(S)[n - 1], n, ChoiceAt(S, n))
  BY <1>1, RunUnfolds DEF RunNext
<1>3. RunsAsPath(problem, S, 0)
  BY PathFirst
<1>4. ASSUME NEW n \in Nat, n < Len(edges), RunsAsPath(problem, S, n)
      PROVE  RunsAsPath(problem, S, n + 1)
  <2>1. n + 1 \in 1 .. Len(edges) /\ (n + 1) - 1 = n
    BY <1>1, <1>4
  <2>2. PICK m : m = n + 1
    OBVIOUS
  <2>3. m \in 1 .. Len(edges) /\ m \in 0 .. Len(edges) /\ m - 1 = n
    BY <2>1, <2>2
  <2>4. Run(S)[m] = Follow(Run(S)[m - 1], m, ChoiceAt(S, m))
    BY <1>2, <2>3
  <2>5. CASE Run(S)[n] = {} /\ ~Joined(problem, S)
    <3>1. Run(S)[m] = {}
      BY <2>3, <2>4, <2>5, FollowOption
    <3> QED
      BY <2>2, <2>5, <3>1 DEF PathGoes, RunsAsPath
  <2>6. CASE ~Joined(problem, S) /\ \E r : Run(S)[n] = {r} /\ ~r.possible
    <3>1. PICK r : Run(S)[m - 1] = {r} /\ ~r.possible
      BY <2>3, <2>6
    <3>2. Transition(problem, r, steps[m], ChoiceAt(S, m)) = {}
      BY <3>1 DEF SolvesPaths, PathTransition
    <3>3. Run(S)[m] = Canonical(Transition(problem, r, steps[m], ChoiceAt(S, m)), BoundaryView(m))
      BY <2>4, <3>1, FollowOption
    <3>4. Run(S)[m] = {}
      BY <3>2, <3>3, CanonicalOfOne
    <3> QED
      BY <2>2, <2>6, <3>4 DEF PathGoes, RunsAsPath
  <2>7. CASE \E r, y : Run(S)[n] = {r} /\ TellsPath(problem, r, UpTo(S, n), y, Boundary(n))
    <3>1. PICK r, y : Run(S)[m - 1] = {r} /\ TellsPath(problem, r, UpTo(S, m - 1), y, Boundary(m - 1))
      BY <2>3, <2>7
    <3>2. PICK next : next = PathTransition(problem, r, steps[m], ChoiceAt(S, m))
      OBVIOUS
    <3>3. Run(S)[m] = Canonical(next, BoundaryView(m))
      <4>1. Transition(problem, r, steps[m], ChoiceAt(S, m)) = next
        BY <3>2 DEF SolvesPaths
      <4> QED
        BY <2>4, <3>1, <4>1, FollowOption
    <3>4. PathGoes(problem, next, S, m, Boundary(m))
      BY <2>3, <3>1, <3>2, PathStep
    <3>5. CASE next = {} /\ ~Joined(problem, S)
      <4>1. Run(S)[m] = {}
        BY <3>3, <3>5, CanonicalOfOne
      <4> QED
        BY <2>2, <3>5, <4>1 DEF PathGoes, RunsAsPath
    <3>6. CASE \E x, z : next = {x} /\ TellsPath(problem, x, UpTo(S, m), z, Boundary(m))
      <4>1. PICK x, z : next = {x} /\ TellsPath(problem, x, UpTo(S, m), z, Boundary(m))
        BY <3>6
      <4>2. Run(S)[m] = {PathCanonicalize(x, BoundaryView(m))}
        BY <3>3, <4>1, CanonicalOfOne DEF SolvesPaths
      <4>3. \E w : TellsPath(problem, PathCanonicalize(x, BoundaryView(m)), UpTo(S, m), w, Boundary(m))
        BY <2>3, <4>1, PathCanonical
      <4> QED
        BY <2>2, <4>2, <4>3 DEF PathGoes, RunsAsPath
    <3> QED
      BY <3>4, <3>5, <3>6 DEF PathGoes
  <2> QED
    BY <1>4, <2>5, <2>6, <2>7 DEF PathGoes, RunsAsPath
<1> DEFINE Good == {n \in 0 .. Len(edges) : RunsAsPath(problem, S, n)}
<1>5. 0 \in Good
  BY <1>1, <1>3
<1>6. ASSUME NEW n \in Nat, n < Len(edges), n \in Good
      PROVE  n + 1 \in Good
  BY <1>1, <1>4, <1>6
<1>7. 0 .. Len(edges) \subseteq Good
  <2> HIDE DEF Good
  <2> QED
    BY <1>1, <1>5, <1>6, SetInduction
<1> QED
  BY <1>7

\* A problem with two ends in the graph is the only one to run.
LEMMA ImproperRefused ==
  ASSUME NEW p
  PROVE  PathRefuses(p, V) <=> ~Proper(p)
<1> DEFINE E == {p.source, p.target} \intersect (0 .. V - 1)
<1>1. CASE Proper(p)
  <2>1. PICK a, b : a = p.source /\ b = p.target /\ a # b
    BY <1>1 DEF Proper
  <2>2. E = {a} \union {b}
    BY <1>1, <2>1 DEF Proper, Vertex
  <2>3. IsFiniteSet({a}) /\ Cardinality({a}) = 1
    BY FS_Singleton
  <2>4. Cardinality({a} \union {b}) = 2
    BY <2>1, <2>3, FS_AddElement
  <2> QED
    BY <1>1, <2>2, <2>4 DEF PathRefuses
<1>2. CASE ~Proper(p)
  <2>1. E = {} \/ \E a : E = {a}
    BY <1>2 DEF Proper, Vertex
  <2> HIDE DEF E
  <2>2. Cardinality(E) # 2
    <3>1. CASE E = {}
      BY <3>1, FS_EmptySet
    <3>2. CASE \E a : E = {a}
      <4>1. PICK a : E = {a}
        BY <3>2
      <4> QED
        BY <4>1, FS_Singleton
    <3> QED
      BY <2>1, <3>1, <3>2
  <2> QED
    BY <1>2, <2>2 DEF PathRefuses, E
<1> QED
  BY <1>1, <1>2

\* On every plan the path problem accepts exactly the paths between its ends.
LEMMA PathsDecided ==
  ASSUME PlanDone, SolvesPaths, problem \in Problems
  PROVE  Decides
<1>1. Len(edges) \in Nat /\ Levels = 1 .. Len(edges) /\ edges \in Orders
  BY StepsOfPlan
<1>2. Refuses(problem, V, edges) <=> PathInitial(problem, V, edges) = {}
  <2>1. Refuses(problem, V, edges) <=> ~Proper(problem)
    BY <1>1, ImproperRefused DEF SolvesPaths
  <2>2. Proper(problem) <=>
          ~(problem.source = problem.target \/ ~({problem.source, problem.target} \subseteq 0 .. V - 1))
    BY DEF Proper, Vertex
  <2> QED
    BY <2>1, <2>2 DEF PathInitial
<1>3. FirstState = {} <=> PathInitial(problem, V, edges) = {}
  <2>1. FirstState = Canonical(PathInitial(problem, V, edges), EmptyView)
    BY <1>1 DEF SolvesPaths, FirstState
  <2> QED
    BY <2>1 DEF Canonical
<1>4. \A S : ~RunFails(S)
  BY DEF RunFails, SolvesPaths
<1>5. ~Refuses(problem, V, edges) => Proper(problem)
  BY <1>2 DEF PathInitial, Proper, Vertex
<1>6. ASSUME NEW S \in SUBSET Levels, Proper(problem)
      PROVE  RunAccepts(S) <=> Accepts(problem, edges, S)
  <2>1. Len(edges) \in 0 .. Len(edges) /\ UpTo(S, Len(edges)) = S /\ Boundary(Len(edges)) = {}
    BY <1>1, UpToEnds, OuterBoundaries
  <2>2. RunsAsPath(problem, S, Len(edges))
    BY <1>6, <2>1, PathRuns
  <2>3. RunAccepts(S) <=> \E s \in Run(S)[Len(edges)] : s.possible /\ s.done
    BY DEF RunAccepts, SolvesPaths, PathFinalize
  <2>4. ASSUME NEW s, NEW lab, TellsPath(problem, s, S, lab, {})
        PROVE  s.possible /\ (s.done <=> Joined(problem, S))
    <3>1. CASE s.done
      BY <2>4, <3>1 DEF TellsPath
    <3>2. CASE ~s.done
      <4>1. Strands(S, lab) /\ \A c \in Nat : ~IsUsed(lab, c)
        BY <2>4, <3>2 DEF TellsPath
      <4>2. S = {}
        BY <1>1, <4>1, NoneOpen
      <4>3. problem.source \in EndsOfPath(problem) /\ Touched(edges, {}) = {}
        BY DEF EndsOfPath, Touched
      <4>4. ~Joined(problem, S)
        BY <1>1, <4>2, <4>3, PathDegrees
      <4> QED
        BY <2>4, <3>2, <4>4 DEF TellsPath
    <3> QED
      BY <3>1, <3>2
  <2>5. RunAccepts(S) <=> Joined(problem, S)
    BY <2>1, <2>2, <2>3, <2>4 DEF PathGoes, RunsAsPath
  <2> QED
    BY <1>1, <2>5 DEF SolvesPaths, PathAccepts, Joined
<1> QED
  BY <1>2, <1>3, <1>4, <1>5, <1>6 DEF Decides

\* The path problem decides the paths between its two ends, and refuses equal or
\* missing ends, on every graph in every edge order: this is RunsDecide for the
\* states and transitions of problems/paths.rs.
THEOREM PathsKeepTheContract == SolvesPaths /\ Spec => []RunsDecide
<1>1. SolvesPaths /\ BuildInv /\ Configured => RunsDecide
  <2> SUFFICES ASSUME SolvesPaths, BuildInv, Configured, ToStart PROVE Decides
    BY DEF RunsDecide
  <2>1. PlanDone
    BY DEF BuildInv, PlanSound, ToStart, PlanDone
  <2> QED
    BY <2>1, PathsDecided DEF Configured
<1>2. SolvesPaths => []SolvesPaths
  OBVIOUS
<1> QED
  BY <1>1, <1>2, Invariance, ConfiguredAlways, PTL

----------------------------------------------------------------------------
(* What follows for the builds of GraphSpace::matchings, cycles and paths.  *)

\* The builder is used with one of the built-in problems.
SolvesBuiltIn == SolvesMatchings \/ SolvesCycles \/ SolvesPaths

\* Each of them decides its property.
LEMMA BuiltInKeepTheContract == SolvesBuiltIn /\ Spec => []RunsDecide
BY MatchingsKeepTheContract, CyclesKeepTheContract, PathsKeepTheContract, PTL DEF SolvesBuiltIn

\* With a built-in problem the builder keeps its promise outright: a build
\* answers once, with exactly the matchings, the cycles or the paths of the
\* graph, or with an error that is due (the safety of ImplementsBuildCalls).
THEOREM BuiltInBuildsImplementCalls == SolvesBuiltIn /\ Spec => Builds!Spec
BY BuiltInKeepTheContract, BuildsImplementCalls, PTL

\* And equal states are merged soundly, a limit fails a build exactly when the
\* build needs more, and the counters are those of the diagram.
THEOREM BuiltInBuildsAreExact ==
  SolvesBuiltIn /\ Spec =>
    /\ [](Refuses(problem, V, edges) \/ EqualStatesEqualSuffixes)
    /\ []LimitsExact
    /\ []StatsAgree
BY BuiltInKeepTheContract, MergesAreSound, LimitsAreExact, CountersAgree, PTL
=============================================================================
