----------------------- MODULE FrontierBuilderProofs -----------------------
(***************************************************************************)
(* The frontier plan, for every graph in every edge order: two vertices    *)
(* that are needed at a common level never share a slot, no slot is lost,  *)
(* and every planned step describes the graph around its edge.             *)
(*                                                                         *)
(* FrontierBuilder::build_with_stats for any problem, any graph, any limit *)
(* and a token cancelled at any moment: a build that returns a family      *)
(* returns exactly the selections whose run of the problem accepts.        *)
(***************************************************************************)
EXTENDS FrontierBuilder, FiniteSetTheorems, SequenceTheorems, TLAPS

\* A set that has 0, and the successor of every number below n it has, has all
\* numbers up to n.
LEMMA SetInduction ==
  ASSUME NEW S, NEW n \in Nat, 0 \in S, \A i \in Nat : i < n /\ i \in S => i + 1 \in S
  PROVE  0 .. n \subseteq S
<1> DEFINE Bad == {i \in 0 .. n : i \notin S}
<1> SUFFICES ASSUME Bad # {} PROVE FALSE
  OBVIOUS
<1>1. Bad \subseteq Nat
  OBVIOUS
<1>2. PICK b \in Bad : \A i \in Bad : ~ (<<i, b>> \in OpToRel(<, Nat))
  BY <1>1, NatLessThanWellFounded, WFMin, Zenon
<1>3. b \in Nat /\ b # 0 /\ b <= n /\ b \notin S
  <2>1. b \in 0 .. n /\ b \notin S
    BY <1>2
  <2> QED
    BY <2>1
<1>4. b - 1 \in Nat /\ b - 1 < n /\ b - 1 \in 0 .. n /\ (b - 1) + 1 = b
  BY <1>3
<1>5. b - 1 \notin S
  BY <1>3, <1>4
<1>6. b - 1 \in Bad
  BY <1>4, <1>5
<1>7. <<b - 1, b>> \in Nat \X Nat /\ <<b - 1, b>>[1] = b - 1 /\ <<b - 1, b>>[2] = b /\ b - 1 < b
  BY <1>3, <1>4
<1>8. <<b - 1, b>> \in OpToRel(<, Nat)
  BY <1>7, Zenon DEF OpToRel
<1> QED
  BY <1>2, <1>6, <1>8, Zenon

----------------------------------------------------------------------------
(* The plan.                                                               *)

Slot == {None} \union Nat

\* A nonempty set of natural numbers has a least element.
LEMMA LeastNatural ==
  ASSUME NEW S \in SUBSET Nat, S # {}
  PROVE  \E s \in S : IsLeast(s, S)
<1>1. PICK s \in S : \A r \in S : ~ (<<r, s>> \in OpToRel(<, Nat))
  BY NatLessThanWellFounded, WFMin, Zenon
<1>2. \A r \in S : ~ (r < s)
  <2> SUFFICES ASSUME NEW r \in S, r < s PROVE FALSE
    OBVIOUS
  <2>1. <<r, s>> \in Nat \X Nat
    OBVIOUS
  <2>2. <<r, s>>[1] = r /\ <<r, s>>[2] = s
    OBVIOUS
  <2>3. <<r, s>> \in OpToRel(<, Nat)
    BY <2>1, <2>2, Zenon DEF OpToRel
  <2> QED
    BY <1>1, <2>3, Zenon
<1> QED
  BY <1>2 DEF IsLeast

----------------------------------------------------------------------------
(* The allocator.                                                          *)

\* The stays of two vertices on the frontier have a level in common.
Meets(u, v) == first[u] <= last[v] /\ first[v] <= last[u]

\* The allocator after the vertices of `entered` have been given a slot, when
\* those of `staying` have not left: stays that meet are kept apart, and every
\* slot up to `next` is either free or held, by one vertex only.
SoundAllocator(a, entered, staying) ==
  /\ a \in [slots : [Vertex -> Slot], free : SUBSET Nat, next : Nat, active : Nat]
  /\ \A v \in Vertex : a.slots[v] # None <=> v \in entered
  /\ \A u, v \in entered : u # v /\ Meets(u, v) => a.slots[u] # a.slots[v]
  /\ \A v \in staying : a.slots[v] \notin a.free
  /\ \A v \in entered : a.slots[v] < a.next
  /\ \A s \in a.free : s < a.next
  /\ \A s \in Nat : s < a.next => s \in a.free \/ \E v \in staying : a.slots[v] = s
  /\ a.active = Cardinality(staying)

\* The slot granted is free or new.
LEMMA GrantSound ==
  ASSUME NEW a, a.free \in SUBSET Nat, a.next \in Nat
  PROVE  IF a.free = {} THEN Grant(a) = a.next ELSE Grant(a) \in a.free
BY LeastNatural DEF Grant

\* A vertex that enters gets a slot that nobody it meets holds.
LEMMA EnterSound ==
  ASSUME NEW a, NEW entered \in SUBSET Vertex, NEW staying \in SUBSET entered, NEW v \in Vertex \ entered,
         SoundAllocator(a, entered, staying), IsFiniteSet(staying),
         first[v] = level,
         \A u \in entered : Meets(u, v) \/ Meets(v, u) => u \in staying
  PROVE  /\ SoundAllocator(Enter(a, v), entered \union {v}, staying \union {v})
         /\ Enter(a, v).active = a.active + 1
         /\ Enter(a, v).next = a.next \/ (a.free = {} /\ Enter(a, v).next = a.next + 1)
<1> DEFINE s == Grant(a)
           b == Enter(a, v)
<1>1. /\ a.slots \in [Vertex -> Slot] /\ a.free \in SUBSET Nat /\ a.next \in Nat /\ a.active \in Nat
      /\ \A u \in Vertex : a.slots[u] # None <=> u \in entered
      /\ \A u \in staying : a.slots[u] \notin a.free
      /\ \A u \in entered : a.slots[u] < a.next
      /\ \A r \in a.free : r < a.next
      /\ \A r \in Nat : r < a.next => r \in a.free \/ \E u \in staying : a.slots[u] = r
      /\ a.active = Cardinality(staying)
  BY DEF SoundAllocator
<1>2. IF a.free = {} THEN s = a.next ELSE s \in a.free
  BY <1>1, GrantSound
<1>3. s \in Nat
  BY <1>1, <1>2
<1>4. /\ b.slots = [a.slots EXCEPT ![v] = s]
      /\ b.free = a.free \ {s}
      /\ b.next = IF a.free = {} THEN a.next + 1 ELSE a.next
      /\ b.active = a.active + 1
  BY DEF Enter
<1>5. /\ \A u \in Vertex \ {v} : b.slots[u] = a.slots[u]
      /\ b.slots[v] = s
      /\ b.slots \in [Vertex -> Slot]
  BY <1>1, <1>3, <1>4 DEF Slot
<1>6. \A u \in staying : a.slots[u] # s
  BY <1>1, <1>2
<1>7. b.next \in Nat /\ b.next >= a.next /\ s < b.next
  BY <1>1, <1>2, <1>3, <1>4
<1>8. b.active = Cardinality(staying \union {v})
  <2>1. v \notin staying
    OBVIOUS
  <2>2. Cardinality(staying \union {v}) = Cardinality(staying) + 1
    BY <2>1, FS_AddElement
  <2> QED
    BY <1>1, <1>4, <2>2
<1>9. \A u \in Vertex : b.slots[u] # None <=> u \in entered \union {v}
  BY <1>1, <1>3, <1>5 DEF None
<1>10. \A u, w \in entered \union {v} : u # w /\ Meets(u, w) => b.slots[u] # b.slots[w]
  <2>1. \A u, w \in entered : u # w /\ Meets(u, w) => b.slots[u] # b.slots[w]
    BY <1>5 DEF SoundAllocator
  <2>2. \A u \in entered : Meets(u, v) \/ Meets(v, u) => b.slots[u] # s
    BY <1>5, <1>6
  <2> QED
    BY <1>5, <2>1, <2>2
<1>11. /\ \A u \in staying \union {v} : b.slots[u] \notin b.free
       /\ \A u \in entered \union {v} : b.slots[u] < b.next
  <2>1. \A u \in entered : b.slots[u] = a.slots[u] /\ a.slots[u] \in Nat
    BY <1>1, <1>5 DEF Slot, None
  <2>2. \A u \in staying \union {v} : b.slots[u] \notin b.free
    BY <1>1, <1>4, <1>5, <2>1
  <2>3. \A u \in entered \union {v} : b.slots[u] < b.next
    BY <1>1, <1>5, <1>7, <2>1
  <2> QED
    BY <2>2, <2>3
<1>12. \A r \in b.free : r < b.next
  BY <1>1, <1>4, <1>7
<1>13. \A r \in Nat : r < b.next => r \in b.free \/ \E u \in staying \union {v} : b.slots[u] = r
  <2> SUFFICES ASSUME NEW r \in Nat, r < b.next, r # s
               PROVE  r \in b.free \/ \E u \in staying : b.slots[u] = r
    BY <1>5
  <2>1. r < a.next
    BY <1>1, <1>2, <1>4
  <2> QED
    BY <1>1, <1>4, <1>5, <2>1
<1>14. b \in [slots : [Vertex -> Slot], free : SUBSET Nat, next : Nat, active : Nat]
  BY <1>1, <1>3 DEF Enter, Slot
<1> HIDE DEF b, s
<1>15. SoundAllocator(b, entered \union {v}, staying \union {v})
  BY <1>5, <1>7, <1>8, <1>9, <1>10, <1>11, <1>12, <1>13, <1>14 DEF SoundAllocator
<1>16. b.next = a.next \/ (a.free = {} /\ b.next = a.next + 1)
  BY <1>4
<1> QED
  BY <1>4, <1>15, <1>16 DEF b

\* A vertex that leaves returns a slot that nobody else holds.
LEMMA LeaveSound ==
  ASSUME NEW a, NEW entered \in SUBSET Vertex, NEW staying \in SUBSET entered, NEW v \in staying,
         SoundAllocator(a, entered, staying), IsFiniteSet(staying),
         last[v] = level,
         \A u \in staying : Meets(u, v)
  PROVE  /\ SoundAllocator(Leave(a, v), entered, staying \ {v})
         /\ Leave(a, v).slots = a.slots /\ Leave(a, v).next = a.next
<1> DEFINE b == Leave(a, v)
<1>1. /\ b.slots = a.slots /\ b.next = a.next
      /\ b.free = a.free \union {a.slots[v]}
      /\ b.active = a.active - 1
  BY DEF Leave, SoundAllocator
<1>2. b.active = Cardinality(staying \ {v}) /\ b.active \in Nat
  <2>1. Cardinality(staying \ {v}) = Cardinality(staying) - 1 /\ IsFiniteSet(staying \ {v})
    BY FS_RemoveElement
  <2>2. Cardinality(staying \ {v}) \in Nat
    BY <2>1, FS_CardinalityType
  <2> QED
    BY <1>1, <2>1, <2>2 DEF SoundAllocator
<1>3. a.slots[v] \in Nat /\ a.slots[v] < a.next
  BY DEF SoundAllocator, Slot, None
<1>4. \A u \in staying \ {v} : a.slots[u] # a.slots[v]
  BY DEF SoundAllocator
<1>5. b \in [slots : [Vertex -> Slot], free : SUBSET Nat, next : Nat, active : Nat]
  BY <1>2, <1>3 DEF Leave, SoundAllocator
<1> HIDE DEF b
<1>6. SoundAllocator(b, entered, staying \ {v})
  BY <1>1, <1>2, <1>3, <1>4, <1>5 DEF SoundAllocator
<1> QED
  BY <1>1, <1>6 DEF b

\* An allocator without free slots has allocated as many slots as are held.
LEMMA FullAllocator ==
  ASSUME NEW a, NEW entered \in SUBSET Vertex, NEW staying \in SUBSET entered,
         SoundAllocator(a, entered, staying), IsFiniteSet(staying),
         a.free = {}
  PROVE  a.next <= a.active
<1> DEFINE hold == [v \in staying |-> a.slots[v]]
           allocated == 0 .. a.next - 1
<1>1. a.next \in Nat /\ \A v \in staying : a.slots[v] \in allocated
  BY DEF SoundAllocator, Slot, None
<1>2. \A s \in allocated : \E v \in staying : hold[v] = s
  BY <1>1 DEF SoundAllocator
<1>3. hold \in Surjection(staying, allocated)
  BY <1>1, <1>2 DEF Surjection
<1>4. Cardinality(allocated) <= Cardinality(staying)
  BY <1>3, FS_Surjection
<1>5. Cardinality(allocated) = a.next
  BY <1>1, FS_Interval
<1> QED
  BY <1>4, <1>5 DEF SoundAllocator

----------------------------------------------------------------------------
(* The invariant.                                                          *)

\* The edges the first pass has seen, and those the second pass has planned.
Seen == IF phase = "scan" THEN level - 1 ELSE Len(edges)
Planned == IF phase = "scan" THEN 0 ELSE level - 1

Entered(k) == {v \in Vertex : first[v] # None /\ first[v] <= k}
Staying(k) == {v \in Entered(k) : last[v] > k}

Types ==
  /\ edges \in Orders
  /\ phase \in {"scan", "plan", "done"}
  /\ level \in 1 .. Len(edges) + 1
  /\ first \in [Vertex -> Slot]
  /\ last \in [Vertex -> Slot]

\* What the first pass has found out is exact for the edges it has seen.
IncidenceExact ==
  \A v \in Vertex :
    /\ first[v] = None => last[v] = None
    /\ first[v] # None =>
         /\ first[v] \in Incident(v) /\ first[v] <= Seen
         /\ last[v] \in Incident(v) /\ last[v] <= Seen
    /\ \A j \in Incident(v) : j <= Seen => first[v] # None /\ first[v] <= j /\ j <= last[v]

\* Every slot ever allocated has been needed at some step.
WidthsCover ==
  /\ steps \in Seq(Range(steps))
  /\ \A i \in DOMAIN steps : steps[i].working_width \in 0 .. V
  /\ next_slot = 0 \/ \E i \in DOMAIN steps : next_slot <= steps[i].working_width

IInv ==
  /\ Types
  /\ IncidenceExact
  /\ SoundAllocator(Allocator, Entered(Planned), Staying(Planned))
  /\ WidthsCover

\* The edges of a graph, by their position in the order.
LEMMA EdgeTyping ==
  ASSUME edges \in Orders
  PROVE  /\ Len(edges) \in Nat
         /\ DOMAIN edges = 1 .. Len(edges)
         /\ \A i \in 1 .. Len(edges) :
              /\ edges[i] \in Vertex \X Vertex
              /\ edges[i][1] # edges[i][2]
              /\ Ends(i) = {Lesser(i), Greater(i)}
              /\ Lesser(i) \in Vertex /\ Greater(i) \in Vertex /\ Lesser(i) # Greater(i)
<1>1. edges \in Seq(Vertex \X Vertex)
  BY FrontierPlanAssumption
<1>2. Len(edges) \in Nat /\ DOMAIN edges = 1 .. Len(edges)
  BY <1>1, LenProperties
<1>3. \A i \in 1 .. Len(edges) : edges[i] \in Vertex \X Vertex /\ edges[i][1] # edges[i][2]
  BY <1>1, <1>2, ElementOfSeq, FrontierPlanAssumption
<1>4. \A i \in 1 .. Len(edges) :
        /\ Ends(i) = {Lesser(i), Greater(i)}
        /\ Lesser(i) \in Vertex /\ Greater(i) \in Vertex /\ Lesser(i) # Greater(i)
  BY <1>3 DEF Ends, Lesser, Greater
<1> QED
  BY <1>2, <1>3, <1>4

\* A graph has finitely many vertices.
LEMMA VertexFinite ==
  ASSUME NEW S \in SUBSET Vertex
  PROVE  IsFiniteSet(S) /\ Cardinality(S) \in 0 .. V
<1>1. IsFiniteSet(Vertex) /\ Cardinality(Vertex) = V
  BY FS_Interval, FrontierPlanAssumption DEF Vertex
<1>2. IsFiniteSet(S) /\ Cardinality(S) <= V
  BY <1>1, FS_Subset
<1> QED
  BY <1>2, FS_CardinalityType, FrontierPlanAssumption

\* Before the first pass no vertex has a stay or a slot.
LEMMA InitInvariant == PlanInit => IInv
<1> SUFFICES ASSUME PlanInit PROVE IInv
  OBVIOUS
<1> USE DEF PlanInit
<1>1. Types
  BY EdgeTyping DEF Types, Slot
<1>2. Seen = 0 /\ Planned = 0
  BY DEF Seen, Planned
<1>3. IncidenceExact
  <2>1. \A v \in Vertex : first[v] = None /\ last[v] = None
    OBVIOUS
  <2>2. \A v \in Vertex : \A j \in Incident(v) : ~ (j <= 0)
    BY EdgeTyping DEF Incident
  <2> QED
    BY <1>2, <2>1, <2>2 DEF IncidenceExact
<1>4. Entered(Planned) = {} /\ Staying(Planned) = {}
  BY DEF Entered, Staying
<1>5. SoundAllocator(Allocator, {}, {})
  BY FS_EmptySet DEF SoundAllocator, Allocator, Slot
<1>6. WidthsCover
  BY EmptySeq DEF WidthsCover
<1> QED
  BY <1>1, <1>3, <1>4, <1>5, <1>6 DEF IInv

----------------------------------------------------------------------------
(* The first pass.                                                         *)

\* While the first pass runs, no vertex has a slot.
LEMMA ScanInvariant ==
  ASSUME IInv, Scan
  PROVE  IInv'
<1> USE DEF Scan
<1>1. Types /\ IncidenceExact /\ WidthsCover
      /\ SoundAllocator(Allocator, Entered(Planned), Staying(Planned))
  BY DEF IInv
<1>2. /\ edges \in Orders /\ Len(edges) \in Nat /\ level \in 1 .. Len(edges)
      /\ first \in [Vertex -> Slot] /\ last \in [Vertex -> Slot]
      /\ DOMAIN edges = 1 .. Len(edges)
  BY <1>1, EdgeTyping DEF Types
<1>3. /\ Seen = level - 1 /\ Seen' = level
      /\ Planned = 0 /\ Planned' = 0
  BY <1>2 DEF Seen, Planned
<1>4. Types'
  BY <1>1, <1>2 DEF Types, Slot
<1>5. \A v \in Vertex : Incident(v)' = Incident(v) /\ Incident(v) \subseteq 1 .. Len(edges)
  BY <1>2 DEF Incident, Ends
<1>6. IncidenceExact'
  <2> SUFFICES ASSUME NEW v \in Vertex
               PROVE  /\ first'[v] = None => last'[v] = None
                      /\ first'[v] # None =>
                           /\ first'[v] \in Incident(v) /\ first'[v] <= level
                           /\ last'[v] \in Incident(v) /\ last'[v] <= level
                      /\ \A j \in Incident(v) : j <= level => first'[v] # None /\ first'[v] <= j /\ j <= last'[v]
    BY <1>3, <1>5 DEF IncidenceExact
  <2>1. /\ first[v] = None => last[v] = None
        /\ first[v] # None =>
             /\ first[v] \in Incident(v) /\ first[v] <= level - 1
             /\ last[v] \in Incident(v) /\ last[v] <= level - 1
        /\ \A j \in Incident(v) : j <= level - 1 => first[v] # None /\ first[v] <= j /\ j <= last[v]
    BY <1>1, <1>3 DEF IncidenceExact
  <2>2. level \in Incident(v) <=> v \in Ends(level)
    BY <1>2 DEF Incident
  <2>3. first[v] \in Slot /\ last[v] \in Slot /\ level # None
    BY <1>2 DEF None
  <2>4. CASE v \in Ends(level) /\ first[v] = None
    <3>1. first'[v] = level /\ last'[v] = level
      BY <2>4
    <3> QED
      BY <1>2, <1>5, <2>1, <2>2, <2>3, <2>4, <3>1
  <2>5. CASE v \in Ends(level) /\ first[v] # None
    <3>1. first'[v] = first[v] /\ last'[v] = level
      BY <2>5
    <3> QED
      BY <1>2, <1>5, <2>1, <2>2, <2>3, <2>5, <3>1
  <2>6. CASE v \notin Ends(level)
    <3>1. first'[v] = first[v] /\ last'[v] = last[v]
      BY <2>6
    <3> QED
      BY <1>2, <1>5, <2>1, <2>2, <2>3, <2>6, <3>1
  <2> QED
    BY <2>4, <2>5, <2>6
<1>7. /\ Entered(0) = {} /\ Staying(0) = {}
      /\ Entered(0)' = {} /\ Staying(0)' = {}
  <2>1. \A v \in Vertex : first[v] # None => first[v] >= 1
    BY <1>1, <1>5 DEF IncidenceExact
  <2>2. \A v \in Vertex : first'[v] # None => first'[v] >= 1
    BY <1>2, <2>1
  <2> QED
    BY <1>2, <1>4, <2>1, <2>2 DEF Entered, Staying, Types, Slot, None
<1>8. SoundAllocator(Allocator, {}, {})
  BY <1>1, <1>3, <1>7
<1>9. SoundAllocator(Allocator, {}, {})'
  BY <1>8 DEF SoundAllocator, Allocator
<1>10. WidthsCover'
  BY <1>1 DEF WidthsCover
<1> QED
  BY <1>3, <1>4, <1>6, <1>7, <1>9, <1>10 DEF IInv

\* Between the passes nothing changes but the role of `level`.
LEMMA StartPlanInvariant ==
  ASSUME IInv, StartPlan
  PROVE  IInv'
<1> USE DEF StartPlan
<1>1. Types /\ IncidenceExact /\ WidthsCover
      /\ SoundAllocator(Allocator, Entered(Planned), Staying(Planned))
  BY DEF IInv
<1>2. Len(edges) \in Nat
  BY <1>1, EdgeTyping DEF Types
<1>3. Seen' = Seen /\ Planned' = Planned
  BY <1>2 DEF Seen, Planned
<1>4. Types'
  BY <1>1, <1>2 DEF Types
<1>5. IncidenceExact'
  BY <1>1, <1>3 DEF IncidenceExact, Incident, Ends
<1>6. Entered(Planned)' = Entered(Planned) /\ Staying(Planned)' = Staying(Planned)
  BY <1>3 DEF Entered, Staying
<1>7. SoundAllocator(Allocator, Entered(Planned), Staying(Planned))'
  BY <1>1, <1>6 DEF SoundAllocator, Allocator, Meets
<1>8. WidthsCover'
  BY <1>1 DEF WidthsCover
<1> QED
  BY <1>4, <1>5, <1>7, <1>8 DEF IInv

\* The end of the second pass and stuttering change nothing.
LEMMA RestInvariant ==
  ASSUME IInv, FinishPlan \/ UNCHANGED plan
  PROVE  IInv'
<1> USE DEF FinishPlan, plan
<1>1. Types /\ IncidenceExact /\ WidthsCover
      /\ SoundAllocator(Allocator, Entered(Planned), Staying(Planned))
  BY DEF IInv
<1>2. Seen' = Seen /\ Planned' = Planned
  BY DEF Seen, Planned
<1>3. Types'
  BY <1>1 DEF Types
<1>4. IncidenceExact'
  BY <1>1, <1>2 DEF IncidenceExact, Incident, Ends
<1>5. Entered(Planned)' = Entered(Planned) /\ Staying(Planned)' = Staying(Planned)
  BY <1>2 DEF Entered, Staying
<1>6. SoundAllocator(Allocator, Entered(Planned), Staying(Planned))'
  BY <1>1, <1>5 DEF SoundAllocator, Allocator, Meets
<1>7. WidthsCover'
  BY <1>1 DEF WidthsCover
<1> QED
  BY <1>3, <1>4, <1>6, <1>7 DEF IInv

----------------------------------------------------------------------------
(* The second pass.                                                        *)

\* The endpoint v, if it enters or leaves at this level.
Entering(v) == {w \in {v} : first[w] = level}
Leaving(v) == {w \in {v} : last[w] = level}

\* Enter, for an endpoint that may have entered before.
LEMMA EnterEitherWay ==
  ASSUME level \in Nat, first \in [Vertex -> Slot], last \in [Vertex -> Slot],
         NEW a, NEW entered \in SUBSET Vertex, NEW staying \in SUBSET entered, NEW v \in Vertex,
         SoundAllocator(a, entered, staying),
         first[v] = level => v \notin entered,
         \A u \in entered : last[u] >= level => u \in staying
  PROVE  /\ SoundAllocator(Enter(a, v), entered \union Entering(v), staying \union Entering(v))
         /\ Enter(a, v).active >= a.active
         /\ Enter(a, v).next <= a.next \/ Enter(a, v).next <= Enter(a, v).active
<1>0. IsFiniteSet(staying)
  BY VertexFinite
<1>1. a.next \in Nat /\ a.active \in Nat
  BY DEF SoundAllocator
<1>2. CASE first[v] = level
  <2>1. Entering(v) = {v}
    BY <1>2 DEF Entering
  <2>2. \A u \in entered : Meets(u, v) \/ Meets(v, u) => u \in staying
    BY <1>2 DEF Meets
  <2>3. v \in Vertex \ entered
    BY <1>2
  <2>4. /\ SoundAllocator(Enter(a, v), entered \union {v}, staying \union {v})
        /\ Enter(a, v).active = a.active + 1
        /\ Enter(a, v).next = a.next \/ (a.free = {} /\ Enter(a, v).next = a.next + 1)
    <3>1. /\ entered \in SUBSET Vertex /\ staying \in SUBSET entered
          /\ SoundAllocator(a, entered, staying) /\ IsFiniteSet(staying) /\ first[v] = level
      BY <1>0, <1>2
    <3> QED
      BY ONLY <2>2, <2>3, <3>1, EnterSound, ZenonT(60)
  <2>5. a.free = {} => a.next <= a.active
    BY <1>0, FullAllocator
  <2>6. Enter(a, v).active >= a.active
    BY <1>1, <2>4
  <2>7. Enter(a, v).next <= a.next \/ Enter(a, v).next <= Enter(a, v).active
    BY <1>1, <2>4, <2>5
  <2> QED
    BY <2>1, <2>4, <2>6, <2>7
<1>3. CASE first[v] # level
  <2>1. Enter(a, v) = a /\ Entering(v) = {}
    BY <1>3 DEF Enter, Entering
  <2> QED
    BY <1>1, <2>1
<1> QED
  BY <1>2, <1>3

\* Leave, for an endpoint that may stay.
LEMMA LeaveEitherWay ==
  ASSUME level \in Nat, first \in [Vertex -> Slot], last \in [Vertex -> Slot],
         NEW a, NEW entered \in SUBSET Vertex, NEW staying \in SUBSET entered, NEW v \in Vertex,
         SoundAllocator(a, entered, staying),
         last[v] = level => v \in staying,
         \A u \in staying : first[u] <= level /\ level <= last[u]
  PROVE  /\ SoundAllocator(Leave(a, v), entered, staying \ Leaving(v))
         /\ Leave(a, v).slots = a.slots /\ Leave(a, v).next = a.next
<1>0. IsFiniteSet(staying)
  BY VertexFinite
<1>1. CASE last[v] = level
  <2>1. Leaving(v) = {v}
    BY <1>1 DEF Leaving
  <2>2. \A u \in staying : Meets(u, v)
    BY <1>1 DEF Meets, Slot, None
  <2> QED
    BY <1>0, <1>1, <2>1, <2>2, LeaveSound
<1>2. CASE last[v] # level
  <2>1. Leave(a, v) = a /\ Leaving(v) = {}
    BY <1>2 DEF Leave, Leaving
  <2> QED
    BY <2>1
<1> QED
  BY <1>1, <1>2

\* Both endpoints enter before either leaves; only endpoints of the edge do.
LEMMA PlanActionSound ==
  ASSUME IInv, phase = "plan", level <= Len(edges)
  PROVE  /\ SoundAllocator(After, Entered(level), Staying(level))
         /\ Working.active \in 0 .. V
         /\ Working.active = Cardinality({u \in Entered(level) : last[u] >= level})
         /\ After.next <= next_slot \/ After.next <= Working.active
<1> DEFINE l == Lesser(level)
           g == Greater(level)
           A1 == Enter(Allocator, l)
           E0 == Entered(level - 1)
           S0 == Staying(level - 1)
           E1 == E0 \union Entering(l)
           S1 == S0 \union Entering(l)
           E2 == E1 \union Entering(g)
           S2 == S1 \union Entering(g)
           S3 == S2 \ Leaving(l)
           A3 == Leave(Working, l)
<1>1. /\ edges \in Orders /\ Len(edges) \in Nat /\ level \in 1 .. Len(edges)
      /\ first \in [Vertex -> Slot] /\ last \in [Vertex -> Slot]
      /\ l \in Vertex /\ g \in Vertex /\ l # g /\ Ends(level) = {l, g}
      /\ DOMAIN edges = 1 .. Len(edges)
  BY EdgeTyping DEF IInv, Types
<1>2. SoundAllocator(Allocator, E0, S0)
  BY DEF IInv, Planned
<1>3. \A v \in Vertex :
        /\ first[v] # None => first[v] \in Incident(v) /\ last[v] \in Incident(v) /\ first[v] <= last[v]
        /\ \A j \in Incident(v) : first[v] # None /\ first[v] <= j /\ j <= last[v]
  <2>1. Seen = Len(edges)
    BY DEF Seen
  <2>2. \A v \in Vertex : \A j \in Incident(v) : j <= Seen
    BY <1>1, <2>1 DEF Incident
  <2> QED
    BY <2>2 DEF IInv, IncidenceExact
<1>4. \A v \in Vertex : first[v] = level \/ last[v] = level => v \in {l, g}
  <2>1. \A v \in Vertex : last[v] = level => first[v] # None
    BY <1>1 DEF None, IInv, IncidenceExact
  <2> QED
    BY <1>1, <1>3, <2>1 DEF Incident, None
<1>5. /\ level \in Nat
      /\ \A v \in {l, g} : first[v] \in Nat /\ first[v] <= level /\ level <= last[v] /\ first[v] # None
  <2>1. level \in Incident(l) /\ level \in Incident(g)
    BY <1>1 DEF Incident
  <2> QED
    BY <1>1, <1>3, <2>1 DEF Slot, None
<1> HIDE DEF l, g
<1>6. /\ E0 \in SUBSET Vertex /\ S0 \in SUBSET E0
      /\ E1 \in SUBSET Vertex /\ S1 \in SUBSET E1
      /\ E2 \in SUBSET Vertex /\ S2 \in SUBSET E2
  BY <1>1 DEF Entered, Staying, Entering
<1>7. \A u \in E0 : last[u] >= level => u \in S0
  BY <1>1, <1>5 DEF Entered, Staying, Slot, None
<1>8. /\ SoundAllocator(A1, E1, S1)
      /\ A1.next <= next_slot \/ A1.next <= A1.active
  <2>1. first[l] = level => l \notin E0
    BY <1>5 DEF Entered
  <2>2. Allocator.next = next_slot
    BY DEF Allocator
  <2> HIDE DEF E0, S0
  <2>3. /\ SoundAllocator(A1, E1, S1)
        /\ A1.next <= Allocator.next \/ A1.next <= A1.active
    BY <1>1, <1>2, <1>5, <1>6, <1>7, <2>1, EnterEitherWay
  <2> QED
    BY <2>2, <2>3
<1>9. Working = Enter(A1, g)
  BY DEF Working, l, g
<1>10. /\ SoundAllocator(Working, E2, S2)
       /\ Working.active >= A1.active
       /\ Working.next <= A1.next \/ Working.next <= Working.active
  <2>1. first[g] = level => g \notin E1
    BY <1>1, <1>5 DEF Entered, Entering
  <2>2. \A u \in E1 : last[u] >= level => u \in S1
    BY <1>7
  <2> HIDE DEF E1, S1, A1
  <2> QED
    BY <1>1, <1>5, <1>6, <1>8, <1>9, <2>1, <2>2, EnterEitherWay
<1>11. E2 = Entered(level)
  BY <1>1, <1>4, <1>5 DEF Entered, Entering, Slot, None
<1>12. \A u \in Vertex : u \in S2 <=> u \in E2 /\ last[u] >= level
  BY <1>1, <1>3, <1>5 DEF Entered, Staying, Entering, Slot, None
<1>13. \A u \in S2 : first[u] <= level /\ level <= last[u]
  BY <1>6, <1>11, <1>12 DEF Entered
<1>14. /\ SoundAllocator(A3, E2, S3)
       /\ A3.next = Working.next
  <2>1. last[l] = level => l \in S2
    BY <1>1, <1>5, <1>11, <1>12 DEF Entered
  <2>2. S2 \in SUBSET E2 /\ E2 \in SUBSET Vertex /\ SoundAllocator(Working, E2, S2)
    BY <1>6, <1>10
  <2>3. \A u \in S2 : first[u] <= level /\ level <= last[u]
    BY <1>13
  <2> HIDE DEF E2, S2
  <2> QED
    BY <1>1, <1>5, <2>1, <2>2, <2>3, LeaveEitherWay
<1>15. After = Leave(A3, g)
  BY DEF After, l, g
<1>16. /\ SoundAllocator(After, E2, S3 \ Leaving(g))
       /\ After.next = Working.next
  <2>1. last[g] = level => g \in S3
    BY <1>1, <1>5, <1>11, <1>12 DEF Entered, Leaving
  <2>2. S3 \in SUBSET E2 /\ \A u \in S3 : first[u] <= level /\ level <= last[u]
    BY <1>6, <1>13
  <2> HIDE DEF E2, S3, A3
  <2> QED
    BY <1>1, <1>5, <1>6, <1>14, <1>15, <2>1, <2>2, LeaveEitherWay
<1>17. S3 \ Leaving(g) = Staying(level)
  <2>1. \A u \in Vertex : u \in S3 \ Leaving(g) <=> u \in S2 /\ last[u] # level
    BY <1>4 DEF Leaving
  <2>2. \A u \in Vertex : u \in Staying(level) <=> u \in E2 /\ last[u] > level
    BY <1>11 DEF Staying, Entered
  <2> HIDE DEF S2, E2
  <2>3. \A u \in Vertex : u \in S3 \ Leaving(g) <=> u \in Staying(level)
    BY <1>1, <1>5, <1>12, <2>1, <2>2 DEF Slot, None
  <2>4. S3 \ Leaving(g) \subseteq Vertex /\ Staying(level) \subseteq Vertex
    BY <1>6 DEF Staying, Entered
  <2> QED
    BY <2>3, <2>4
<1>18. Working.active \in 0 .. V
  <2> HIDE DEF S2, E2
  <2>1. Cardinality(S2) \in 0 .. V
    BY <1>6, VertexFinite
  <2> QED
    BY <1>10, <2>1 DEF SoundAllocator
<1>19. After.next <= next_slot \/ After.next <= Working.active
  <2>1. /\ A1.next \in Nat /\ A1.active \in Nat /\ Working.next \in Nat /\ Working.active \in Nat
        /\ next_slot \in Nat
    BY <1>2, <1>8, <1>10 DEF SoundAllocator, Allocator
  <2> HIDE DEF A1
  <2> QED
    BY <1>8, <1>10, <1>16, <2>1
<1>20. Working.active = Cardinality({u \in Entered(level) : last[u] >= level})
  <2>1. S2 = {u \in Entered(level) : last[u] >= level}
    BY <1>6, <1>11, <1>12
  <2> HIDE DEF S2, E2
  <2> QED
    BY <1>10, <2>1 DEF SoundAllocator
<1> QED
  BY <1>11, <1>16, <1>17, <1>18, <1>19, <1>20

\* A step of the second pass preserves the invariant.
LEMMA PlanInvariant ==
  ASSUME IInv, Plan
  PROVE  IInv'
<1>1. /\ Types /\ IncidenceExact /\ WidthsCover
      /\ phase = "plan" /\ level <= Len(edges)
      /\ UNCHANGED <<edges, phase, first, last>>
      /\ level' = level + 1
  BY DEF IInv, Plan
<1>2. Len(edges) \in Nat /\ level \in 1 .. Len(edges)
  BY <1>1, EdgeTyping DEF Types
<1>3. /\ SoundAllocator(After, Entered(level), Staying(level))
      /\ Working.active \in 0 .. V
      /\ After.next <= next_slot \/ After.next <= Working.active
  BY <1>1, PlanActionSound
<1>4. Seen' = Seen /\ Planned' = level
  BY <1>1, <1>2 DEF Seen, Planned
<1>5. Types'
  BY <1>1, <1>2 DEF Types
<1>6. IncidenceExact'
  BY <1>1, <1>4 DEF IncidenceExact, Incident, Ends
<1>7. Entered(Planned)' = Entered(level) /\ Staying(Planned)' = Staying(level)
  BY <1>1, <1>4 DEF Entered, Staying
<1>8. Allocator' = After
  <2>1. Allocator' = [slots |-> After.slots, free |-> After.free, next |-> After.next, active |-> After.active]
    BY DEF Plan, Allocator
  <2>2. After \in [slots : [Vertex -> Slot], free : SUBSET Nat, next : Nat, active : Nat]
    BY <1>3 DEF SoundAllocator
  <2> HIDE DEF After
  <2> QED
    BY <2>1, <2>2
<1>9. SoundAllocator(Allocator, Entered(Planned), Staying(Planned))'
  BY <1>1, <1>3, <1>7, <1>8 DEF SoundAllocator, Meets
<1>10. WidthsCover'
  <2> DEFINE step == PlannedStep
  <2>1. steps' = Append(steps, step) /\ step.working_width = Working.active
    BY DEF Plan, PlannedStep
  <2> HIDE DEF step
  <2>2. steps \in Seq(Range(steps) \union {step})
    BY <1>1, SeqMonotonic DEF WidthsCover
  <2>3. /\ Len(steps) \in Nat /\ Len(steps') = Len(steps) + 1
        /\ DOMAIN steps = 1 .. Len(steps) /\ DOMAIN steps' = 1 .. Len(steps')
        /\ \A i \in 1 .. Len(steps) : steps'[i] = steps[i]
        /\ steps'[Len(steps) + 1] = step
        /\ steps' \in Seq(Range(steps) \union {step})
    BY <2>1, <2>2, AppendProperties, LenProperties
  <2>4. Range(steps) \union {step} \subseteq Range(steps')
    BY <2>3 DEF Range
  <2>5. steps' \in Seq(Range(steps'))
    BY <2>3, <2>4, SeqMonotonic
  <2>6. \A i \in DOMAIN steps' : steps'[i].working_width \in 0 .. V
    BY <1>1, <1>3, <2>1, <2>3 DEF WidthsCover
  <2>7. next_slot' = After.next /\ After.next \in Nat /\ next_slot \in Nat
    BY <1>3 DEF Plan, IInv, SoundAllocator, Allocator
  <2>8. next_slot' = 0 \/ \E i \in DOMAIN steps' : next_slot' <= steps'[i].working_width
    <3>1. CASE After.next <= Working.active
      <4>1. next_slot' <= steps'[Len(steps) + 1].working_width
        BY <2>1, <2>3, <2>7, <3>1
      <4> QED
        BY <2>3, <4>1
    <3>2. CASE After.next <= next_slot
      <4>1. CASE next_slot = 0
        BY <2>7, <3>2, <4>1
      <4>2. CASE \E i \in DOMAIN steps : next_slot <= steps[i].working_width
        <5>1. PICK i \in DOMAIN steps : next_slot <= steps[i].working_width
          BY <4>2
        <5>2. steps'[i] = steps[i] /\ steps[i].working_width \in 0 .. V /\ i \in DOMAIN steps'
          BY <1>1, <2>3 DEF WidthsCover
        <5>3. next_slot' <= steps'[i].working_width
          BY <2>7, <3>2, <5>1, <5>2, FrontierPlanAssumption
        <5> QED
          BY <5>2, <5>3
      <4> QED
        BY <1>1, <4>1, <4>2 DEF WidthsCover
    <3> QED
      BY <1>3, <3>1, <3>2
  <2> QED
    BY <2>5, <2>6, <2>8 DEF WidthsCover
<1> QED
  BY <1>5, <1>6, <1>9, <1>10 DEF IInv

----------------------------------------------------------------------------
(* The theorems.                                                           *)

\* Every step keeps the stays and the slots sound.
LEMMA PlanStepKeepsInvariant == IInv /\ [PlanNext]_plan => IInv'
<1> SUFFICES ASSUME IInv, [PlanNext]_plan PROVE IInv'
  OBVIOUS
<1>1. CASE Scan
  BY <1>1, ScanInvariant
<1>2. CASE StartPlan
  BY <1>2, StartPlanInvariant
<1>3. CASE Plan
  BY <1>3, PlanInvariant
<1>4. CASE FinishPlan \/ UNCHANGED plan
  BY <1>4, RestInvariant
<1> QED
  BY <1>1, <1>2, <1>3, <1>4 DEF PlanNext

\* The stays the plan computes are the ones of the graph, and its slots are
\* sound, after every step of FrontierPlan::new.
THEOREM PlanInvariance == PlanSpec => []IInv
BY InitInvariant, PlanStepKeepsInvariant, PTL DEF PlanSpec

\* A vertex is needed exactly during the stay the plan has computed for it.
LEMMA NeededDuringStay ==
  ASSUME IInv, phase # "scan", NEW v \in Vertex, NEW i \in Nat, NEW k \in Nat
  PROVE  (\E j \in Incident(v) : j <= i) /\ (\E j \in Incident(v) : j >= k)
           <=> first[v] # None /\ first[v] <= i /\ k <= last[v]
<1>1. Len(edges) \in Nat /\ DOMAIN edges = 1 .. Len(edges) /\ first[v] \in Slot /\ last[v] \in Slot
  BY EdgeTyping DEF IInv, Types
<1>2. Incident(v) \subseteq Nat /\ \A j \in Incident(v) : j <= Seen
  BY <1>1 DEF Incident, Seen
<1>3. /\ first[v] # None => first[v] \in Incident(v) /\ last[v] \in Incident(v)
      /\ \A j \in Incident(v) : first[v] # None /\ first[v] <= j /\ j <= last[v]
  BY <1>2 DEF IInv, IncidenceExact
<1> QED
  BY <1>1, <1>2, <1>3 DEF Slot, None

\* Slots are apart where the stays are sound.
LEMMA SlotsApart == IInv => SlotsNeverShared
<1> SUFFICES ASSUME IInv, NEW u \in Vertex, NEW v \in Vertex,
                    u # v, slots[u] # None, slots[v] # None,
                    NEW i \in DOMAIN edges, Needed(u, i), Needed(v, i)
             PROVE  slots[u] # slots[v]
  BY DEF SlotsNeverShared
<1>1. u \in Entered(Planned) /\ v \in Entered(Planned)
  BY DEF IInv, SoundAllocator, Allocator
<1>2. Len(edges) \in Nat /\ DOMAIN edges = 1 .. Len(edges) /\ first \in [Vertex -> Slot] /\ last \in [Vertex -> Slot]
  BY EdgeTyping DEF IInv, Types
<1>3. phase # "scan"
  <2> SUFFICES ASSUME phase = "scan" PROVE FALSE
    OBVIOUS
  <2>1. first[u] # None /\ first[u] <= 0
    BY <1>1 DEF Entered, Planned
  <2>2. first[u] \in 1 .. Len(edges)
    BY <1>2, <2>1 DEF IInv, IncidenceExact, Incident
  <2> QED
    BY <1>2, <2>1, <2>2
<1>4. first[u] <= i /\ i <= last[u] /\ first[v] <= i /\ i <= last[v]
  BY <1>2, <1>3, NeededDuringStay DEF Needed
<1>5. first[u] <= last[v] /\ first[v] <= last[u]
  BY <1>2, <1>4 DEF Slot, None
<1> QED
  BY <1>1, <1>5 DEF IInv, SoundAllocator, Allocator, Meets

\* Two vertices that are needed at a common level hold different slots.
THEOREM SlotsStayApart == PlanSpec => []SlotsNeverShared
BY SlotsApart, PlanInvariance, PTL

\* A bounded set of natural numbers has a greatest element.
LEMMA GreatestNatural ==
  ASSUME NEW S \in SUBSET Nat, S # {}, NEW n \in Nat, \A s \in S : s <= n
  PROVE  MaxOf(S) \in S /\ \A s \in S : s <= MaxOf(S)
<1> DEFINE Gaps == {n - s : s \in S}
<1>1. Gaps \in SUBSET Nat /\ Gaps # {}
  <2>1. \A s \in S : n - s \in Nat
    OBVIOUS
  <2> QED
    BY <2>1, Zenon
<1>2. PICK gap \in Gaps : IsLeast(gap, Gaps)
  BY <1>1, LeastNatural
<1>3. PICK m \in S : gap = n - m
  OBVIOUS
<1>4. \A s \in S : s <= m
  <2> SUFFICES ASSUME NEW s \in S PROVE s <= m
    OBVIOUS
  <2>1. n - m <= n - s
    BY <1>2, <1>3 DEF IsLeast
  <2> QED
    BY <2>1
<1> QED
  BY <1>4 DEF MaxOf

\* No more slots are allocated than the widest working frontier has vertices.
LEMMA SlotsFit == IInv => next_slot <= MaxWorkingWidth /\ MaxWorkingWidth \in Nat
<1> SUFFICES ASSUME IInv PROVE next_slot <= MaxWorkingWidth /\ MaxWorkingWidth \in Nat
  OBVIOUS
<1> DEFINE widths == {0} \union {steps[i].working_width : i \in DOMAIN steps}
<1>1. widths \in SUBSET Nat /\ widths # {} /\ V \in Nat /\ \A w \in widths : w <= V
  BY FrontierPlanAssumption DEF IInv, WidthsCover
<1>2. MaxOf(widths) \in widths /\ \A w \in widths : w <= MaxOf(widths)
  <2> HIDE DEF widths
  <2> QED
    BY <1>1, GreatestNatural
<1>3. next_slot \in Nat
  BY DEF IInv, SoundAllocator, Allocator
<1>4. next_slot = 0 \/ \E w \in widths : next_slot <= w
  BY DEF IInv, WidthsCover
<1> HIDE DEF widths
<1>5. next_slot <= MaxOf(widths)
  <2> DEFINE m == MaxOf(widths)
  <2>1. m \in Nat
    BY <1>1, <1>2, Zenon
  <2> HIDE DEF m
  <2>2. \A w \in widths : w \in Nat /\ w <= m
    BY <1>1, <1>2 DEF m
  <2> QED
    BY <1>3, <1>4, <2>1, <2>2 DEF m
<1> QED
  BY <1>1, <1>2, <1>5 DEF MaxWorkingWidth, widths

\* Every slot ever allocated is free or held by one vertex of the frontier, and
\* the slots fit the array of max_working_frontier_width entries.
THEOREM SlotsAreKept == PlanSpec => []SlotsAccountedFor
<1>1. IInv /\ phase = "plan" =>
        LET held == {slots[v] : v \in Boundary(level - 1)}
        IN /\ free \intersect held = {}
           /\ free \union held = 0 .. next_slot - 1
           /\ active = Cardinality(held)
  <2> SUFFICES ASSUME IInv, phase = "plan"
               PROVE  /\ free \intersect {slots[v] : v \in Boundary(level - 1)} = {}
                      /\ free \union {slots[v] : v \in Boundary(level - 1)} = 0 .. next_slot - 1
                      /\ active = Cardinality({slots[v] : v \in Boundary(level - 1)})
    OBVIOUS
  <2> DEFINE B == Boundary(level - 1)
             held == {slots[v] : v \in B}
             hold == [v \in B |-> slots[v]]
  <2>1. Len(edges) \in Nat /\ level \in 1 .. Len(edges) + 1 /\ level - 1 \in Nat
        /\ first \in [Vertex -> Slot] /\ last \in [Vertex -> Slot]
    BY EdgeTyping DEF IInv, Types
  <2>2. Planned = level - 1
    BY DEF Planned
  <2>3. B = Staying(level - 1)
    <3>1. \A v \in Vertex : Needed(v, level - 1) /\ Needed(v, level)
             <=> first[v] # None /\ first[v] <= level - 1 /\ level <= last[v]
      <4> SUFFICES ASSUME NEW v \in Vertex
                   PROVE  Needed(v, level - 1) /\ Needed(v, level)
                            <=> first[v] # None /\ first[v] <= level - 1 /\ level <= last[v]
        OBVIOUS
      <4>1. Incident(v) \subseteq Nat
        BY EdgeTyping DEF IInv, Types, Incident
      <4>2. Needed(v, level - 1) /\ Needed(v, level)
              <=> (\E j \in Incident(v) : j <= level - 1) /\ (\E j \in Incident(v) : j >= level)
        BY <2>1, <4>1 DEF Needed
      <4> QED
        BY <2>1, <4>2, NeededDuringStay
    <3> QED
      BY <2>1, <3>1 DEF Boundary, Staying, Entered, Slot, None
  <2>4. SoundAllocator(Allocator, Entered(level - 1), B)
    BY <2>2, <2>3 DEF IInv
  <2>5. B \subseteq Entered(level - 1) /\ B \in SUBSET Vertex
    BY <2>3 DEF Staying, Entered
  <2>6. /\ slots \in [Vertex -> Slot] /\ free \in SUBSET Nat /\ next_slot \in Nat
        /\ \A v \in B : slots[v] # None /\ slots[v] \notin free /\ slots[v] < next_slot
        /\ \A s \in free : s < next_slot
        /\ \A s \in Nat : s < next_slot => s \in free \/ \E v \in B : slots[v] = s
        /\ active = Cardinality(B)
    BY <2>4, <2>5 DEF SoundAllocator, Allocator
  <2>7. \A u, v \in B : u # v => slots[u] # slots[v]
    <3>1. \A u, v \in B : Meets(u, v)
      BY <2>1, <2>3 DEF Staying, Entered, Meets, Slot, None
    <3> QED
      BY <2>4, <2>5, <3>1 DEF SoundAllocator, Allocator
  <2> HIDE DEF B
  <2>8. \A v \in B : slots[v] \in Nat
    BY <2>5, <2>6 DEF Slot
  <2>9. free \intersect held = {}
    BY <2>6
  <2>10. free \union held = 0 .. next_slot - 1
    <3>1. \A s \in free \union held : s \in Nat /\ s < next_slot
      BY <2>6, <2>8
    <3>2. \A s \in 0 .. next_slot - 1 : s \in Nat /\ s < next_slot
      BY <2>6
    <3>3. \A s \in 0 .. next_slot - 1 : s \in free \union held
      BY <2>6, <3>2, Zenon
    <3>4. \A s \in free \union held : s \in 0 .. next_slot - 1
      BY <2>6, <3>1
    <3> QED
      BY <3>3, <3>4, Zenon
  <2>11. Cardinality(held) = Cardinality(B)
    <3>1. hold \in Bijection(B, held)
      BY <2>7 DEF Bijection, Injection, Surjection, IsInjective
    <3>2. IsFiniteSet(B)
      BY <2>5, VertexFinite
    <3> QED
      BY <3>1, <3>2, FS_Bijection DEF ExistsBijection
  <2> QED
    BY <2>6, <2>9, <2>10, <2>11 DEF B
<1>2. IInv => next_slot <= MaxWorkingWidth
  BY SlotsFit
<1>3. IInv => SlotsAccountedFor
  BY <1>1, <1>2 DEF SlotsAccountedFor
<1> QED
  BY <1>3, PlanInvariance, PTL
----------------------------------------------------------------------------
(* The steps of the plan.                                                  *)

AllocatorType == [slots : [Vertex -> Slot], free : SUBSET Nat, next : Nat, active : Nat]
LooseAllocator == [slots : [Vertex -> Slot], free : SUBSET Int, next : Nat, active : Int]

\* Only the vertex that enters gets another slot.
LEMMA EnterKeepsSlots ==
  ASSUME NEW a \in AllocatorType, NEW v \in Vertex
  PROVE  /\ Enter(a, v) \in AllocatorType
         /\ \A u \in Vertex : u # v \/ first[v] # level => Enter(a, v).slots[u] = a.slots[u]
<1>1. a.slots \in [Vertex -> Slot] /\ a.free \in SUBSET Nat /\ a.next \in Nat /\ a.active \in Nat
  BY DEF AllocatorType
<1>2. Grant(a) \in Nat
  BY <1>1, GrantSound
<1>3. CASE first[v] = level
  BY <1>1, <1>2, <1>3 DEF Enter, AllocatorType, Slot
<1>4. CASE first[v] # level
  BY <1>4 DEF Enter
<1> QED
  BY <1>3, <1>4

\* A vertex that leaves keeps its slot on record.
LEMMA LeaveKeepsSlots ==
  ASSUME NEW a \in LooseAllocator, NEW v \in Vertex
  PROVE  Leave(a, v) \in LooseAllocator /\ Leave(a, v).slots = a.slots
<1>1. a.slots \in [Vertex -> Slot] /\ a.free \in SUBSET Int /\ a.next \in Nat /\ a.active \in Int
  BY DEF LooseAllocator
<1>2. CASE last[v] = level
  <2>1. a.free \union {a.slots[v]} \in SUBSET Int /\ a.active - 1 \in Int
    BY <1>1 DEF Slot, None
  <2>2. Leave(a, v) = [a EXCEPT !.free = a.free \union {a.slots[v]}, !.active = a.active - 1]
    BY <1>2 DEF Leave
  <2> QED
    BY <1>1, <2>1, <2>2 DEF LooseAllocator
<1>3. CASE last[v] # level
  BY <1>3 DEF Leave
<1> QED
  BY <1>2, <1>3

\* A step gives slots to the ends of its edge only, and takes none back.
LEMMA PlanKeepsSlots ==
  ASSUME IInv, phase = "plan", level <= Len(edges)
  PROVE  \A u \in Vertex : first[u] # level => After.slots[u] = slots[u]
<1>1. Lesser(level) \in Vertex /\ Greater(level) \in Vertex
  BY EdgeTyping DEF IInv, Types
<1>2. Allocator \in AllocatorType
  BY DEF IInv, SoundAllocator, AllocatorType
<1> DEFINE A1 == Enter(Allocator, Lesser(level))
<1>3. A1 \in AllocatorType /\ \A u \in Vertex : first[u] # level => A1.slots[u] = slots[u]
  <2>1. \A u \in Vertex : u # Lesser(level) \/ first[Lesser(level)] # level => A1.slots[u] = Allocator.slots[u]
    BY <1>1, <1>2, EnterKeepsSlots
  <2>2. A1 \in AllocatorType
    BY <1>1, <1>2, EnterKeepsSlots
  <2> QED
    BY <2>1, <2>2 DEF Allocator
<1> HIDE DEF A1
<1>4. Working \in AllocatorType /\ \A u \in Vertex : first[u] # level => Working.slots[u] = slots[u]
  <2>1. Working = Enter(A1, Greater(level))
    BY DEF Working, A1
  <2>2. \A u \in Vertex : u # Greater(level) \/ first[Greater(level)] # level => Working.slots[u] = A1.slots[u]
    BY <1>1, <1>3, <2>1, EnterKeepsSlots
  <2>3. Working \in AllocatorType
    BY <1>1, <1>3, <2>1, EnterKeepsSlots
  <2> QED
    BY <1>3, <2>2, <2>3
<1>5. Working \in LooseAllocator
  BY <1>4 DEF AllocatorType, LooseAllocator
<1>6. After.slots = Working.slots
  <2>1. Leave(Working, Lesser(level)) \in LooseAllocator /\ Leave(Working, Lesser(level)).slots = Working.slots
    BY <1>1, <1>5, LeaveKeepsSlots
  <2> QED
    BY <1>1, <2>1, LeaveKeepsSlots DEF After
<1> QED
  BY <1>4, <1>6

\* The sets of levels at which edges of v wait for the running pass.
Waiting(v) ==
  IF phase = "scan" THEN {j \in Incident(v) : j < level} ELSE {j \in Incident(v) : j >= level}

RemainingExact ==
  remaining \in [Vertex -> Nat] /\ \A v \in Vertex : remaining[v] = Cardinality(Waiting(v))

\* The steps of the edges planned so far describe the graph.
StepsExact ==
  /\ steps \in Seq(StepData)
  /\ Len(steps) = Planned
  /\ \A i \in 1 .. Len(steps) : \A t : t = steps[i] => Describes(t, i)

DInv == RemainingExact /\ StepsExact

\* An edge is counted once for each of its ends.
LEMMA IncidentFinite ==
  ASSUME edges \in Orders, NEW v \in Vertex, NEW S \in SUBSET Incident(v)
  PROVE  IsFiniteSet(S) /\ Cardinality(S) \in Nat
<1>1. Len(edges) \in Nat /\ S \subseteq 1 .. Len(edges)
  BY EdgeTyping DEF Incident
<1>2. IsFiniteSet(1 .. Len(edges))
  BY <1>1, FS_Interval
<1> QED
  BY <1>1, <1>2, FS_Subset, FS_CardinalityType

\* The boundary of the plan is the one of the graph.
LEMMA BoundaryStays ==
  ASSUME IInv, phase # "scan", NEW i \in Nat
  PROVE  Boundary(i) = Staying(i) /\ {v \in Vertex : Needed(v, i)} = {u \in Entered(i) : last[u] >= i}
<1>1. Len(edges) \in Nat /\ first \in [Vertex -> Slot] /\ last \in [Vertex -> Slot]
  BY EdgeTyping DEF IInv, Types
<1>2. \A v \in Vertex : Needed(v, i) <=> first[v] # None /\ first[v] <= i /\ i <= last[v]
  BY NeededDuringStay DEF Needed
<1>3. \A v \in Vertex : Needed(v, i) /\ Needed(v, i + 1)
         <=> first[v] # None /\ first[v] <= i /\ i + 1 <= last[v]
  <2> SUFFICES ASSUME NEW v \in Vertex
               PROVE  Needed(v, i) /\ Needed(v, i + 1)
                        <=> first[v] # None /\ first[v] <= i /\ i + 1 <= last[v]
    OBVIOUS
  <2>1. Incident(v) \subseteq Nat
    BY EdgeTyping DEF IInv, Types, Incident
  <2>2. Needed(v, i) /\ Needed(v, i + 1)
          <=> (\E j \in Incident(v) : j <= i) /\ (\E j \in Incident(v) : j >= i + 1)
    BY <2>1 DEF Needed
  <2> QED
    BY <2>2, NeededDuringStay
<1>4. \A v \in Vertex : last[v] \in Slot /\ first[v] \in Slot
  BY <1>1
<1> QED
  BY <1>2, <1>3, <1>4 DEF Boundary, Staying, Entered, Slot, None

\* The first pass counts the edges of every vertex.
LEMMA ScanRemaining ==
  ASSUME IInv, RemainingExact, Scan
  PROVE  RemainingExact'
<1>1. edges \in Orders /\ Len(edges) \in Nat /\ level \in 1 .. Len(edges) /\ DOMAIN edges = 1 .. Len(edges)
  BY EdgeTyping DEF IInv, Types, Scan
<1>2. \A v \in Vertex : Incident(v)' = Incident(v) /\ Incident(v) \subseteq 1 .. Len(edges)
  BY <1>1 DEF Incident, Ends, Scan
<1>3. remaining' \in [Vertex -> Nat]
  BY DEF Scan, RemainingExact
<1>4. ASSUME NEW v \in Vertex
      PROVE  remaining'[v] = Cardinality(Waiting(v)')
  <2>1. Waiting(v) = {j \in Incident(v) : j < level}
    BY DEF Waiting, Scan
  <2>2. Waiting(v)' = {j \in Incident(v) : j < level + 1}
    BY <1>2 DEF Waiting, Scan
  <2>3. remaining[v] = Cardinality(Waiting(v)) /\ remaining[v] \in Nat
    BY DEF RemainingExact
  <2>4. IsFiniteSet(Waiting(v))
    BY <1>1, <2>1, IncidentFinite
  <2>5. CASE v \in Ends(level)
    <3>1. remaining'[v] = remaining[v] + 1
      BY <2>5 DEF Scan, RemainingExact
    <3>2. level \in Incident(v)
      BY <1>1, <2>5 DEF Incident
    <3>3. Waiting(v)' = Waiting(v) \union {level} /\ level \notin Waiting(v)
      BY <1>1, <1>2, <2>1, <2>2, <3>2
    <3> QED
      BY <2>3, <2>4, <3>1, <3>3, FS_AddElement
  <2>6. CASE v \notin Ends(level)
    <3>1. remaining'[v] = remaining[v]
      BY <2>6 DEF Scan, RemainingExact
    <3>2. level \notin Incident(v)
      BY <1>1, <2>6 DEF Incident
    <3>3. Waiting(v)' = Waiting(v)
      BY <1>1, <1>2, <2>1, <2>2, <3>2
    <3> QED
      BY <2>3, <3>1, <3>3
  <2> QED
    BY <2>5, <2>6
<1> QED
  BY <1>3, <1>4 DEF RemainingExact

\* The second pass counts them down again.
LEMMA PlanRemaining ==
  ASSUME IInv, RemainingExact, Plan
  PROVE  /\ RemainingExact'
         /\ \A v \in Ends(level) : remaining[v] - 1 \in Nat /\ remaining[v] - 1 = EdgesAfter(v, level)
<1>1. edges \in Orders /\ Len(edges) \in Nat /\ level \in 1 .. Len(edges) /\ DOMAIN edges = 1 .. Len(edges)
      /\ \A v \in Ends(level) : v \in Vertex
  BY EdgeTyping DEF IInv, Types, Plan
<1>2. \A v \in Vertex : Incident(v)' = Incident(v) /\ Incident(v) \subseteq 1 .. Len(edges)
  BY <1>1 DEF Incident, Ends, Plan
<1> DEFINE Rest(v) == {j \in Incident(v) : j > level}
<1>3. \A v \in Vertex : Waiting(v)' = Rest(v)
  <2> SUFFICES ASSUME NEW v \in Vertex PROVE Waiting(v)' = Rest(v)
    OBVIOUS
  <2>1. Waiting(v)' = {j \in Incident(v) : j >= level + 1}
    BY <1>2 DEF Waiting, Plan
  <2> QED
    BY <1>1, <1>2, <2>1
<1>4. \A v \in Ends(level) : remaining[v] - 1 \in Nat /\ remaining[v] - 1 = Cardinality(Rest(v))
  <2> SUFFICES ASSUME NEW v \in Vertex, v \in Ends(level)
               PROVE  remaining[v] - 1 \in Nat /\ remaining[v] - 1 = Cardinality(Rest(v))
    BY <1>1
  <2>1. Waiting(v) = {j \in Incident(v) : j >= level}
    BY DEF Waiting, Plan
  <2>2. level \in Incident(v)
    BY <1>1 DEF Incident
  <2>3. Waiting(v) = Rest(v) \union {level} /\ level \notin Rest(v)
    BY <1>1, <1>2, <2>1, <2>2
  <2>4. IsFiniteSet(Rest(v)) /\ Cardinality(Rest(v)) \in Nat
    BY <1>1, IncidentFinite
  <2> HIDE DEF Rest
  <2>5. Cardinality(Waiting(v)) = Cardinality(Rest(v)) + 1
    BY <2>3, <2>4, FS_AddElement
  <2> QED
    BY <2>4, <2>5 DEF RemainingExact
<1>5. remaining' \in [Vertex -> Nat]
  BY <1>4 DEF Plan, RemainingExact
<1>6. ASSUME NEW v \in Vertex
      PROVE  remaining'[v] = Cardinality(Waiting(v)')
  <2>1. CASE v \in Ends(level)
    <3>1. remaining'[v] = remaining[v] - 1
      BY <2>1 DEF Plan, RemainingExact
    <3> QED
      BY <1>3, <1>4, <2>1, <3>1
  <2>2. CASE v \notin Ends(level)
    <3>1. remaining'[v] = remaining[v]
      BY <2>2 DEF Plan, RemainingExact
    <3>2. level \notin Incident(v)
      BY <1>1, <2>2 DEF Incident
    <3>3. Waiting(v) = {j \in Incident(v) : j >= level}
      BY DEF Waiting, Plan
    <3>4. Waiting(v) = Rest(v)
      BY <1>1, <1>2, <3>2, <3>3
    <3> QED
      BY <1>3, <3>1, <3>4 DEF RemainingExact
  <2> QED
    BY <2>1, <2>2
<1> QED
  BY <1>4, <1>5, <1>6 DEF RemainingExact, EdgesAfter

\* What a list has after one more entry.
LEMMA MembersAppend ==
  ASSUME NEW T, NEW q \in Seq(T), NEW x \in T
  PROVE  Append(q, x) \in Seq(T) /\ Members(Append(q, x)) = Members(q) \union {x}
<1> DEFINE r == Append(q, x)
<1>1. /\ r \in Seq(T) /\ Len(r) = Len(q) + 1 /\ Len(q) \in Nat
      /\ \A i \in 1 .. Len(q) : r[i] = q[i]
      /\ r[Len(q) + 1] = x
      /\ DOMAIN q = 1 .. Len(q) /\ DOMAIN r = 1 .. Len(q) + 1
  BY AppendProperties, LenProperties
<1> HIDE DEF r
<1>2. Members(r) = Members(q) \union {x}
  BY <1>1 DEF Members
<1> QED
  BY <1>1, <1>2 DEF r

\* The listed endpoints are the ones asked for.
LEMMA SortedEndsMembers ==
  ASSUME NEW S, Lesser(level) \in Vertex, Greater(level) \in Vertex
  PROVE  /\ SortedEnds(S) \in Seq(Vertex)
         /\ Members(SortedEnds(S)) = S \intersect {Lesser(level), Greater(level)}
<1> DEFINE l == Lesser(level)
           g == Greater(level)
           lesser == IF l \in S THEN <<l>> ELSE << >>
<1>1. lesser \in Seq(Vertex) /\ Members(lesser) = S \intersect {l}
  <2>1. CASE l \in S
    BY <2>1 DEF Members
  <2>2. CASE l \notin S
    <3>1. lesser = << >> /\ DOMAIN lesser = {} /\ lesser \in Seq(Vertex)
      BY <2>2
    <3>2. Members(lesser) = {}
      BY <3>1 DEF Members
    <3> QED
      BY <2>2, <3>1, <3>2
  <2> QED
    BY <2>1, <2>2
<1>2. SortedEnds(S) = IF g \in S THEN Append(lesser, g) ELSE lesser
  BY DEF SortedEnds
<1> HIDE DEF lesser
<1>3. Append(lesser, g) \in Seq(Vertex) /\ Members(Append(lesser, g)) = Members(lesser) \union {g}
  BY <1>1, MembersAppend
<1>4. CASE g \in S
  BY <1>1, <1>2, <1>3, <1>4
<1>5. CASE g \notin S
  BY <1>1, <1>2, <1>5
<1> QED
  BY <1>4, <1>5

\* The step planned for a level describes the graph there.
LEMMA PlannedStepDescribes ==
  ASSUME IInv, RemainingExact, Plan
  PROVE  /\ PlannedStep \in StepData
         /\ \A t, i : t = PlannedStep /\ i = level => Describes(t, i)'
<1> DEFINE l == Lesser(level)
           g == Greater(level)
           s == PlannedStep
<1>1. /\ edges \in Orders /\ Len(edges) \in Nat /\ level \in 1 .. Len(edges) /\ level \in Nat /\ level - 1 \in Nat
      /\ DOMAIN edges = 1 .. Len(edges)
      /\ l \in Vertex /\ g \in Vertex /\ Ends(level) = {l, g} /\ edges[level] \in Vertex \X Vertex
      /\ first \in [Vertex -> Slot] /\ last \in [Vertex -> Slot]
      /\ phase = "plan" /\ level <= Len(edges)
  BY EdgeTyping DEF IInv, Types, Plan
<1>2. UNCHANGED <<edges, phase, first, last>> /\ slots' = After.slots
  BY DEF Plan
<1>3. /\ \A v \in Vertex : Incident(v)' = Incident(v)
      /\ \A v \in Vertex, i \in Nat : Needed(v, i)' <=> Needed(v, i)
      /\ \A i \in Nat : Boundary(i)' = Boundary(i)
  BY <1>2 DEF Incident, Ends, Needed, Boundary
<1>4. /\ SoundAllocator(After, Entered(level), Staying(level))
      /\ Working.active = Cardinality({u \in Entered(level) : last[u] >= level})
      /\ Working.active \in 0 .. V
  BY <1>1, PlanActionSound
<1>5. /\ Boundary(level) = Staying(level)
      /\ Boundary(level - 1) = Staying(level - 1)
      /\ {v \in Vertex : Needed(v, level)} = {u \in Entered(level) : last[u] >= level}
  BY <1>1, BoundaryStays
<1>6. active = Cardinality(Boundary(level - 1)) /\ active \in Nat
  <2>1. Planned = level - 1
    BY <1>1 DEF Planned
  <2>2. SoundAllocator(Allocator, Entered(level - 1), Staying(level - 1))
    BY <2>1 DEF IInv
  <2> QED
    BY <1>5, <2>2 DEF SoundAllocator, Allocator
<1>7. After.active = Cardinality(Boundary(level)) /\ After.active \in Nat
  BY <1>4, <1>5 DEF SoundAllocator
<1>8. \A v \in Ends(level) : After.slots[v] \in Nat
  <2>1. \A v \in Ends(level) : level \in Incident(v) /\ level <= Seen
    BY <1>1 DEF Incident, Seen
  <2>2. \A v \in Ends(level) : v \in Entered(level)
    BY <1>1, <2>1 DEF IInv, IncidenceExact, Entered
  <2>3. \A v \in Ends(level) : After.slots[v] \in Slot /\ After.slots[v] # None
    BY <1>1, <1>4, <2>2 DEF SoundAllocator
  <2> QED
    BY <2>3 DEF Slot
<1>9. edges[level][1] \in Ends(level) /\ edges[level][2] \in Ends(level)
  BY DEF Ends
<1>10. /\ remaining[edges[level][1]] - 1 \in Nat /\ remaining[edges[level][1]] - 1 = EdgesAfter(edges[level][1], level)
       /\ remaining[edges[level][2]] - 1 \in Nat /\ remaining[edges[level][2]] - 1 = EdgesAfter(edges[level][2], level)
  BY <1>9, PlanRemaining
<1> DEFINE entering == {v \in Vertex : first[v] = level}
           leaving == {v \in Vertex : last[v] = level}
<1>11. \A v \in Vertex : first[v] = level \/ last[v] = level => v \in {l, g}
  <2>1. \A v \in Vertex : first[v] = level \/ last[v] = level => first[v] # None
    BY <1>1 DEF None, IInv, IncidenceExact
  <2>2. \A v \in Vertex : first[v] = level \/ last[v] = level => level \in Incident(v)
    BY <1>1, <2>1 DEF IInv, IncidenceExact
  <2> QED
    BY <1>1, <2>2 DEF Incident
<1>12. \A v \in Vertex : first[v] # None => last[v] # None /\ first[v] <= last[v]
  <2>1. Seen = Len(edges)
    BY <1>1 DEF Seen
  <2>2. \A v \in Vertex : first[v] # None => last[v] \in Incident(v) /\ last[v] <= Seen /\ last[v] \in 1 .. Len(edges)
    BY <1>1 DEF IInv, IncidenceExact, Incident
  <2> QED
    BY <1>1, <2>2 DEF IInv, IncidenceExact, None
<1>13. /\ Members(SortedEnds(entering)) = entering
       /\ Members(SortedEnds(leaving)) = leaving
       /\ SortedEnds(entering) \in Seq(Vertex) /\ SortedEnds(leaving) \in Seq(Vertex)
  <2>1. entering \subseteq {l, g} /\ leaving \subseteq {l, g}
    BY <1>11
  <2>2. /\ Members(SortedEnds(entering)) = entering \intersect {l, g}
        /\ Members(SortedEnds(leaving)) = leaving \intersect {l, g}
        /\ SortedEnds(entering) \in Seq(Vertex) /\ SortedEnds(leaving) \in Seq(Vertex)
    BY <1>1, SortedEndsMembers
  <2> HIDE DEF entering, leaving
  <2> QED
    BY <2>1, <2>2
<1> DEFINE working == {v \in Vertex : Needed(v, level)}
<1>14. entering = working \ Boundary(level - 1) /\ leaving = working \ Boundary(level)
  <2>1. \A v \in Vertex : first[v] \in Slot /\ last[v] \in Slot
    BY <1>1
  <2>2. \A v \in Vertex : v \in working <=> first[v] # None /\ first[v] <= level /\ last[v] >= level
    BY <1>5 DEF Entered
  <2>3. \A v \in Vertex : v \in Boundary(level - 1) <=> first[v] # None /\ first[v] <= level - 1 /\ last[v] > level - 1
    BY <1>5 DEF Staying, Entered
  <2>4. \A v \in Vertex : v \in Boundary(level) <=> first[v] # None /\ first[v] <= level /\ last[v] > level
    BY <1>5 DEF Staying, Entered
  <2>5. \A v \in Vertex : last[v] # None => first[v] # None
    BY DEF IInv, IncidenceExact
  <2>6. entering \subseteq Vertex /\ leaving \subseteq Vertex /\ working \subseteq Vertex
    OBVIOUS
  <2> HIDE DEF working
  <2>7. \A v \in Vertex : v \in entering <=> v \in working \ Boundary(level - 1)
    BY <1>1, <1>12, <2>1, <2>2, <2>3 DEF Slot, None
  <2>8. \A v \in Vertex : v \in leaving <=> v \in working \ Boundary(level)
    BY <1>1, <1>12, <2>1, <2>2, <2>4, <2>5 DEF Slot, None
  <2> HIDE DEF entering, leaving
  <2> QED
    BY <2>6, <2>7, <2>8
<1>15. /\ s.endpoints = edges[level]
       /\ s.endpoint_slots = <<After.slots[edges[level][1]], After.slots[edges[level][2]]>>
       /\ s.remaining_incident = <<remaining[edges[level][1]] - 1, remaining[edges[level][2]] - 1>>
       /\ s.introduced = SortedEnds(entering) /\ s.forgotten = SortedEnds(leaving)
       /\ s.width_before = active /\ s.working_width = Working.active /\ s.width_after = After.active
       /\ s = [endpoints |-> s.endpoints, endpoint_slots |-> s.endpoint_slots,
               remaining_incident |-> s.remaining_incident, introduced |-> s.introduced,
               forgotten |-> s.forgotten, width_before |-> s.width_before,
               working_width |-> s.working_width, width_after |-> s.width_after]
  BY DEF PlannedStep
<1> HIDE DEF s, entering, leaving, working
<1>16. s \in StepData
  <2>1. /\ s.endpoints \in Vertex \X Vertex /\ s.endpoint_slots \in Nat \X Nat
        /\ s.remaining_incident \in Nat \X Nat /\ s.introduced \in Seq(Vertex) /\ s.forgotten \in Seq(Vertex)
        /\ s.width_before \in Nat /\ s.working_width \in Nat /\ s.width_after \in Nat
    <3>1. s.endpoints \in Vertex \X Vertex
      BY <1>1, <1>15
    <3>2. s.endpoint_slots \in Nat \X Nat
      BY <1>8, <1>9, <1>15
    <3>3. s.remaining_incident \in Nat \X Nat
      BY <1>10, <1>15
    <3>4. s.introduced \in Seq(Vertex) /\ s.forgotten \in Seq(Vertex)
      BY <1>13, <1>15
    <3>5. s.width_before \in Nat /\ s.working_width \in Nat /\ s.width_after \in Nat
      BY <1>4, <1>6, <1>7, <1>15
    <3> QED
      BY <3>1, <3>2, <3>3, <3>4, <3>5
  <2> QED
    BY <1>15, <2>1 DEF StepData
<1>17. ASSUME NEW t, NEW i, t = s, i = level
       PROVE  Describes(t, i)'
  <2>1. /\ {v \in Vertex : Needed(v, i)'} = working
        /\ Boundary(i)' = Boundary(level) /\ Boundary(i - 1)' = Boundary(level - 1)
    BY <1>1, <1>3, <1>17 DEF working
  <2>2. \A v \in Vertex : EdgesAfter(v, i)' = EdgesAfter(v, level)
    BY <1>1, <1>2, <1>3, <1>17 DEF EdgesAfter
  <2> DEFINE u == edges[level][1]
             w == edges[level][2]
  <2>3. PICK a, b : a = u /\ b = w /\ a \in Vertex /\ b \in Vertex
    BY <1>1, <1>9
  <2>4. /\ t.endpoints = edges[level] /\ t.endpoints[1] = a /\ t.endpoints[2] = b
        /\ t.endpoint_slots = <<slots'[a], slots'[b]>>
        /\ t.remaining_incident = <<EdgesAfter(a, i)', EdgesAfter(b, i)'>>
    <3>1. /\ t.endpoint_slots = <<After.slots[a], After.slots[b]>>
          /\ t.remaining_incident = <<EdgesAfter(a, level), EdgesAfter(b, level)>>
      BY <1>10, <1>15, <1>17, <2>3
    <3> QED
      BY <1>2, <1>15, <1>17, <2>2, <2>3, <3>1
  <2>5. t.endpoints = edges'[i]
    BY <1>2, <1>17, <2>4
  <2>6. /\ t.width_before = Cardinality(Boundary(i - 1)')
        /\ t.working_width = Cardinality({v \in Vertex : Needed(v, i)'})
        /\ t.width_after = Cardinality(Boundary(i)')
        /\ Members(t.introduced) = {v \in Vertex : Needed(v, i)'} \ Boundary(i - 1)'
        /\ Members(t.forgotten) = {v \in Vertex : Needed(v, i)'} \ Boundary(i)'
    <3>1. Working.active = Cardinality(working)
      BY <1>4, <1>5 DEF working
    <3> QED
      BY <1>6, <1>7, <1>13, <1>14, <1>15, <1>17, <2>1, <3>1
  <2> HIDE DEF u, w
  <2> QED
    BY <2>4, <2>5, <2>6 DEF Describes
<1> QED
  BY <1>16, <1>17 DEF s

\* What a step says of its level stays true when later levels are planned.
LEMMA PlanKeepsDescription ==
  ASSUME IInv, Plan, NEW i \in 1 .. level - 1, NEW t, Describes(t, i)
  PROVE  Describes(t, i)'
<1>1. /\ edges \in Orders /\ Len(edges) \in Nat /\ level \in 1 .. Len(edges)
      /\ DOMAIN edges = 1 .. Len(edges) /\ i \in 1 .. Len(edges) /\ i \in Nat /\ i - 1 \in Nat
      /\ edges[i] \in Vertex \X Vertex
      /\ first \in [Vertex -> Slot]
      /\ phase = "plan" /\ level <= Len(edges)
  BY EdgeTyping DEF IInv, Types, Plan
<1>2. UNCHANGED <<edges, phase, first, last>> /\ slots' = After.slots
  BY DEF Plan
<1>3. /\ \A v \in Vertex : Incident(v)' = Incident(v)
      /\ \A v \in Vertex, k \in Nat : Needed(v, k)' <=> Needed(v, k)
      /\ \A k \in Nat : Boundary(k)' = Boundary(k)
  BY <1>2 DEF Incident, Ends, Needed, Boundary
<1>4. \A v \in Ends(i) : v \in Vertex /\ slots'[v] = slots[v]
  <2> SUFFICES ASSUME NEW v \in Ends(i) PROVE v \in Vertex /\ slots'[v] = slots[v]
    OBVIOUS
  <2>1. v \in Vertex
    BY <1>1 DEF Ends
  <2>2. i \in Incident(v) /\ i <= Seen
    BY <1>1, <2>1 DEF Incident, Seen
  <2>3. first[v] # None /\ first[v] <= i /\ first[v] \in Slot
    BY <1>1, <2>1, <2>2 DEF IInv, IncidenceExact
  <2>4. first[v] # level
    BY <1>1, <2>3 DEF Slot
  <2> QED
    BY <1>1, <1>2, <2>1, <2>4, PlanKeepsSlots
<1>5. t.endpoints = edges[i] /\ t.endpoints[1] \in Ends(i) /\ t.endpoints[2] \in Ends(i)
  BY DEF Describes, Ends
<1>6. PICK a, b : a = t.endpoints[1] /\ b = t.endpoints[2]
  OBVIOUS
<1>7. a \in Vertex /\ b \in Vertex /\ slots'[a] = slots[a] /\ slots'[b] = slots[b]
  BY <1>4, <1>5, <1>6
<1>8. EdgesAfter(a, i)' = EdgesAfter(a, i) /\ EdgesAfter(b, i)' = EdgesAfter(b, i)
  BY <1>3, <1>7 DEF EdgesAfter
<1>9. {v \in Vertex : Needed(v, i)'} = {v \in Vertex : Needed(v, i)}
  BY <1>1, <1>3
<1> QED
  BY <1>1, <1>2, <1>3, <1>5, <1>6, <1>7, <1>8, <1>9 DEF Describes

\* Every step keeps the descriptions exact.
LEMMA StepsStayExact ==
  ASSUME IInv, DInv, [PlanNext]_plan
  PROVE  StepsExact'
<1>1. Len(edges) \in Nat /\ level \in 1 .. Len(edges) + 1 /\ phase \in {"scan", "plan", "done"}
  BY EdgeTyping DEF IInv, Types
<1>2. steps \in Seq(StepData) /\ Len(steps) = Planned /\ \A i \in 1 .. Len(steps) : \A t : t = steps[i] => Describes(t, i)
  BY DEF DInv, StepsExact
<1>3. CASE Plan
  <2>1. PlannedStep \in StepData /\ \A t, i : t = PlannedStep /\ i = level => Describes(t, i)'
    BY <1>3, PlannedStepDescribes DEF DInv
  <2>2. PICK t : t = PlannedStep
    OBVIOUS
  <2>3. Planned = level - 1 /\ Planned' = level /\ steps' = Append(steps, t)
    BY <1>1, <1>3, <2>2 DEF Planned, Plan
  <2>4. /\ steps' \in Seq(StepData) /\ Len(steps') = level
        /\ \A i \in 1 .. level - 1 : steps'[i] = steps[i]
        /\ steps'[level] = t
    BY <1>1, <1>2, <2>1, <2>2, <2>3, AppendProperties
  <2>5. ASSUME NEW i \in 1 .. level - 1, NEW r, r = steps'[i]
        PROVE  Describes(r, i)'
    <3>1. r = steps[i] /\ i \in 1 .. Len(steps)
      BY <1>2, <2>3, <2>4, <2>5
    <3>2. Describes(r, i)
      BY <1>2, <3>1
    <3> QED
      BY <1>3, <3>2, PlanKeepsDescription
  <2>6. ASSUME NEW i \in 1 .. level, NEW r, r = steps'[i]
        PROVE  Describes(r, i)'
    <3>1. CASE i = level
      BY <2>1, <2>2, <2>4, <2>6, <3>1
    <3>2. CASE i # level
      <4>1. i \in 1 .. level - 1
        BY <1>1, <3>2
      <4> QED
        BY <2>5, <2>6, <4>1
    <3> QED
      BY <3>1, <3>2
  <2> QED
    BY <2>3, <2>4, <2>6 DEF StepsExact
<1>4. CASE Scan \/ StartPlan \/ FinishPlan \/ UNCHANGED plan
  <2>1. UNCHANGED <<edges, slots, steps>>
    BY <1>4 DEF Scan, StartPlan, FinishPlan, plan
  <2>2. Planned' = Planned
    BY <1>1, <1>4 DEF Scan, StartPlan, FinishPlan, plan, Planned
  <2>3. \A t, i : Describes(t, i) => Describes(t, i)'
    BY <2>1 DEF Describes, Boundary, Needed, Incident, Ends, EdgesAfter
  <2>4. ASSUME NEW i \in 1 .. Len(steps), NEW r, r = steps'[i]
        PROVE  Describes(r, i)'
    BY <1>2, <2>1, <2>3, <2>4
  <2> QED
    BY <1>2, <2>1, <2>2, <2>4 DEF StepsExact
<1> QED
  BY <1>3, <1>4 DEF PlanNext

\* Every step keeps the counts of remaining edges exact.
LEMMA RemainingStaysExact ==
  ASSUME IInv, DInv, [PlanNext]_plan
  PROVE  RemainingExact'
<1>1. Len(edges) \in Nat /\ level \in 1 .. Len(edges) + 1
  BY EdgeTyping DEF IInv, Types
<1>2. CASE Scan
  BY <1>2, ScanRemaining DEF DInv
<1>3. CASE Plan
  BY <1>3, PlanRemaining DEF DInv
<1>4. CASE StartPlan \/ FinishPlan \/ UNCHANGED plan
  <2>1. UNCHANGED <<edges, remaining>>
    BY <1>4 DEF StartPlan, FinishPlan, plan
  <2>2. \A v \in Vertex : Incident(v)' = Incident(v) /\ Incident(v) \subseteq 1 .. Len(edges)
    BY <2>1, EdgeTyping DEF Incident, Ends, IInv, Types
  <2>3. \A v \in Vertex : Waiting(v)' = Waiting(v)
    <3>1. CASE StartPlan
      BY <1>1, <2>2, <3>1 DEF Waiting, StartPlan
    <3>2. CASE FinishPlan \/ UNCHANGED plan
      BY <2>2, <3>2 DEF Waiting, FinishPlan, plan
    <3> QED
      BY <1>4, <3>1, <3>2
  <2> QED
    BY <2>1, <2>3 DEF DInv, RemainingExact
<1> QED
  BY <1>2, <1>3, <1>4 DEF PlanNext

\* Before the first pass there is nothing to count and nothing is planned.
LEMMA InitDescription == PlanInit => DInv
<1> SUFFICES ASSUME PlanInit PROVE DInv
  OBVIOUS
<1>1. \A v \in Vertex : Waiting(v) = {}
  BY EdgeTyping DEF PlanInit, Waiting, Incident
<1>2. RemainingExact
  BY <1>1, FS_EmptySet DEF RemainingExact, PlanInit
<1>3. StepsExact
  BY EmptySeq DEF StepsExact, PlanInit, Planned
<1> QED
  BY <1>2, <1>3 DEF DInv

\* Every step keeps the counts and the description exact.
LEMMA StepKeepsDescription == IInv /\ DInv /\ [PlanNext]_plan => DInv'
BY StepsStayExact, RemainingStaysExact DEF DInv

\* The counts of remaining edges and the steps are those of the graph after
\* every step of FrontierPlan::new.
THEOREM Description == PlanSpec => []DInv
BY InitDescription, StepKeepsDescription, PlanInvariance, PTL DEF PlanSpec

\* Every step of the plan describes the graph around its edge: who enters, who
\* leaves, how wide the frontiers are, and how many edges are still to come.
THEOREM PlanDescribesGraph == PlanSpec => []StepsDescribeGraph
<1>1. DInv => StepsDescribeGraph
  BY LenProperties DEF DInv, StepsExact, StepsDescribeGraph
<1> QED
  BY <1>1, Description, PTL

\* The variables of the plan keep their types, so that no endpoint of a step is
\* without a slot.
THEOREM PlanTypeCorrect == PlanSpec => []PlanTypeOK
<1>1. IInv /\ DInv => PlanTypeOK
  BY DEF IInv, DInv, Types, SoundAllocator, Allocator, RemainingExact, StepsExact, PlanTypeOK, Slot
<1> QED
  BY <1>1, PlanInvariance, Description, PTL

----------------------------------------------------------------------------
(* Where a tape leads a selection.                                         *)

\* The id after layer n of the tape q, when it was `id` before.
TrailNext(q, S, n, id) ==
  IF id = 0 THEN 0
  ELSE IF n \in S THEN q[n][id].include ELSE q[n][id].exclude

IsTrail(q, S, n, f) == f = [i \in 0 .. n |-> IF i = 0 THEN 1 ELSE TrailNext(q, S, i, f[i - 1])]

\* There is a trail through any number of layers.
LEMMA TrailExists ==
  ASSUME NEW q, NEW S, NEW n \in Nat
  PROVE  \E f : IsTrail(q, S, n, f)
<1> DEFINE Good == {m \in Nat : \E f : f = [i \in 0 .. m |-> IF i = 0 THEN 1 ELSE TrailNext(q, S, i, f[i - 1])]}
<1>1. 0 \in Good
  <2> DEFINE g == [i \in 0 .. 0 |-> 1]
  <2>1. g = [i \in 0 .. 0 |-> IF i = 0 THEN 1 ELSE TrailNext(q, S, i, g[i - 1])]
    OBVIOUS
  <2> QED
    BY <2>1
<1>2. ASSUME NEW m \in Nat, m \in Good
      PROVE  m + 1 \in Good
  <2>1. PICK f : f = [i \in 0 .. m |-> IF i = 0 THEN 1 ELSE TrailNext(q, S, i, f[i - 1])]
    BY <1>2
  <2> DEFINE g == [i \in 0 .. m + 1 |-> IF i = m + 1 THEN TrailNext(q, S, m + 1, f[m]) ELSE f[i]]
  <2>2. \A i \in 0 .. m + 1 : g[i] = IF i = 0 THEN 1 ELSE TrailNext(q, S, i, g[i - 1])
    <3> TAKE i \in 0 .. m + 1
    <3>1. CASE i = m + 1
      <4>1. g[i] = TrailNext(q, S, m + 1, f[m]) /\ i # 0 /\ i - 1 = m /\ m \in 0 .. m + 1 /\ m # m + 1
        BY <3>1
      <4>2. g[m] = f[m]
        BY <4>1
      <4> HIDE DEF g
      <4> QED
        BY <3>1, <4>1, <4>2
    <3>2. CASE i = 0
      <4>1. 0 \in 0 .. m + 1 /\ 0 # m + 1 /\ 0 \in 0 .. m
        OBVIOUS
      <4>2. g[0] = f[0]
        BY <4>1
      <4>3. f[0] = 1
        BY <2>1, <4>1
      <4> HIDE DEF g
      <4> QED
        BY <3>2, <4>2, <4>3
    <3>3. CASE i # m + 1 /\ i # 0
      <4>1. i \in 0 .. m /\ i - 1 \in 0 .. m + 1 /\ i - 1 # m + 1
        BY <3>3
      <4>2. g[i] = f[i] /\ g[i - 1] = f[i - 1]
        BY <3>3, <4>1
      <4>3. f[i] = TrailNext(q, S, i, f[i - 1])
        BY <2>1, <3>3, <4>1
      <4> HIDE DEF g
      <4> QED
        BY <3>3, <4>2, <4>3
    <3> QED
      BY <3>1, <3>2, <3>3
  <2>3. g = [i \in 0 .. m + 1 |-> g[i]]
    OBVIOUS
  <2> HIDE DEF g
  <2>4. g = [i \in 0 .. m + 1 |-> IF i = 0 THEN 1 ELSE TrailNext(q, S, i, g[i - 1])]
    BY <2>2, <2>3, Zenon
  <2> QED
    BY <2>4
<1> HIDE DEF Good
<1>3. 0 .. n \subseteq Good
  BY <1>1, <1>2, SetInduction
<1>4. n \in Good
  BY <1>3
<1>5. PICK f : f = [i \in 0 .. n |-> IF i = 0 THEN 1 ELSE TrailNext(q, S, i, f[i - 1])]
  BY <1>4 DEF Good
<1> QED
  BY <1>5 DEF IsTrail

\* A trail starts at the one state of the first layer and follows the tape.
LEMMA TrailUnfolds ==
  ASSUME NEW q, NEW S, Len(q) \in Nat
  PROVE  /\ Trail(q, S)[0] = 1
         /\ \A n \in 1 .. Len(q) : Trail(q, S)[n] = TrailNext(q, S, n, Trail(q, S)[n - 1])
<1> DEFINE F == CHOOSE f : f = [i \in 0 .. Len(q) |-> IF i = 0 THEN 1 ELSE TrailNext(q, S, i, f[i - 1])]
<1>1. Trail(q, S) = F
  BY DEF Trail, TrailNext
<1>2. \E f : f = [i \in 0 .. Len(q) |-> IF i = 0 THEN 1 ELSE TrailNext(q, S, i, f[i - 1])]
  <2>1. \E f : IsTrail(q, S, Len(q), f)
    BY TrailExists
  <2> QED
    BY <2>1, Zenon DEF IsTrail
<1>3. F = [i \in 0 .. Len(q) |-> IF i = 0 THEN 1 ELSE TrailNext(q, S, i, F[i - 1])]
  BY <1>2, Zenon
<1> HIDE DEF F
<1>4. F[0] = 1 /\ \A n \in 1 .. Len(q) : F[n] = TrailNext(q, S, n, F[n - 1])
  <2>1. \A i \in 0 .. Len(q) : F[i] = IF i = 0 THEN 1 ELSE TrailNext(q, S, i, F[i - 1])
    BY <1>3, Zenon
  <2> QED
    BY <2>1
<1> QED
  BY <1>1, <1>4

\* Tapes and selections that agree on the first n layers lead to the same id.
LEMMA TrailsAgree ==
  ASSUME NEW q, NEW r, NEW S, NEW T, NEW n \in Nat,
         Len(q) \in Nat, Len(r) \in Nat, n <= Len(q), n <= Len(r),
         \A k \in 1 .. n : q[k] = r[k] /\ (k \in S <=> k \in T)
  PROVE  \A k \in 0 .. n : Trail(q, S)[k] = Trail(r, T)[k]
<1> DEFINE Good == {k \in 0 .. n : Trail(q, S)[k] = Trail(r, T)[k]}
<1>1. 0 \in Good
  BY TrailUnfolds
<1>2. ASSUME NEW k \in Nat, k < n, k \in Good
      PROVE  k + 1 \in Good
  <2>1. k + 1 \in 1 .. n /\ k + 1 \in 1 .. Len(q) /\ k + 1 \in 1 .. Len(r) /\ (k + 1) - 1 = k
    BY <1>2
  <2>2. /\ Trail(q, S)[k + 1] = TrailNext(q, S, k + 1, Trail(q, S)[k])
        /\ Trail(r, T)[k + 1] = TrailNext(r, T, k + 1, Trail(r, T)[k])
    BY <2>1, TrailUnfolds
  <2>3. Trail(q, S)[k] = Trail(r, T)[k]
    BY <1>2
  <2>4. q[k + 1] = r[k + 1] /\ (k + 1 \in S <=> k + 1 \in T)
    BY <2>1
  <2>5. Trail(q, S)[k + 1] = Trail(r, T)[k + 1]
    BY <2>2, <2>3, <2>4 DEF TrailNext
  <2> QED
    BY <2>1, <2>5
<1>3. 0 .. n \subseteq Good
  <2> HIDE DEF Good
  <2> QED
    BY <1>1, <1>2, SetInduction
<1> QED
  BY <1>3

----------------------------------------------------------------------------
(* The run of the problem on a selection.                                  *)

\* The state, if any, that S leads to at level n from the one before.
RunNext(S, n, from) == Follow(from, n, ChoiceAt(S, n))

IsRun(S, n, f) == f = [i \in 0 .. n |-> IF i = 0 THEN FirstState ELSE RunNext(S, i, f[i - 1])]

\* There is a run of any length.
LEMMA RunExists ==
  ASSUME NEW S, NEW n \in Nat
  PROVE  \E f : IsRun(S, n, f)
<1> DEFINE Good == {m \in Nat : \E f : f = [i \in 0 .. m |-> IF i = 0 THEN FirstState ELSE RunNext(S, i, f[i - 1])]}
<1>1. 0 \in Good
  <2> DEFINE g == [i \in 0 .. 0 |-> FirstState]
  <2>1. g = [i \in 0 .. 0 |-> IF i = 0 THEN FirstState ELSE RunNext(S, i, g[i - 1])]
    OBVIOUS
  <2> QED
    BY <2>1
<1>2. ASSUME NEW m \in Nat, m \in Good
      PROVE  m + 1 \in Good
  <2>1. PICK f : f = [i \in 0 .. m |-> IF i = 0 THEN FirstState ELSE RunNext(S, i, f[i - 1])]
    BY <1>2
  <2> DEFINE g == [i \in 0 .. m + 1 |-> IF i = m + 1 THEN RunNext(S, m + 1, f[m]) ELSE f[i]]
  <2>2. \A i \in 0 .. m + 1 : g[i] = IF i = 0 THEN FirstState ELSE RunNext(S, i, g[i - 1])
    <3> TAKE i \in 0 .. m + 1
    <3>1. CASE i = m + 1
      <4>1. g[i] = RunNext(S, m + 1, f[m]) /\ i # 0 /\ i - 1 = m /\ m \in 0 .. m + 1 /\ m # m + 1
        BY <3>1
      <4>2. g[m] = f[m]
        BY <4>1
      <4> HIDE DEF g
      <4> QED
        BY <3>1, <4>1, <4>2
    <3>2. CASE i = 0
      <4>1. 0 \in 0 .. m + 1 /\ 0 # m + 1 /\ 0 \in 0 .. m
        OBVIOUS
      <4>2. g[0] = f[0]
        BY <4>1
      <4>3. f[0] = FirstState
        BY <2>1, <4>1
      <4> HIDE DEF g
      <4> QED
        BY <3>2, <4>2, <4>3
    <3>3. CASE i # m + 1 /\ i # 0
      <4>1. i \in 0 .. m /\ i - 1 \in 0 .. m + 1 /\ i - 1 # m + 1
        BY <3>3
      <4>2. g[i] = f[i] /\ g[i - 1] = f[i - 1]
        BY <3>3, <4>1
      <4>3. f[i] = RunNext(S, i, f[i - 1])
        BY <2>1, <3>3, <4>1
      <4> HIDE DEF g
      <4> QED
        BY <3>3, <4>2, <4>3
    <3> QED
      BY <3>1, <3>2, <3>3
  <2>3. g = [i \in 0 .. m + 1 |-> g[i]]
    OBVIOUS
  <2> HIDE DEF g
  <2>4. g = [i \in 0 .. m + 1 |-> IF i = 0 THEN FirstState ELSE RunNext(S, i, g[i - 1])]
    BY <2>2, <2>3, Zenon
  <2> QED
    BY <2>4
<1> HIDE DEF Good
<1>3. 0 .. n \subseteq Good
  BY <1>1, <1>2, SetInduction
<1>4. n \in Good
  BY <1>3
<1>5. PICK f : f = [i \in 0 .. n |-> IF i = 0 THEN FirstState ELSE RunNext(S, i, f[i - 1])]
  BY <1>4 DEF Good
<1> QED
  BY <1>5 DEF IsRun

\* A run starts at the first state and follows the choices of the selection.
LEMMA RunUnfolds ==
  ASSUME NEW S, Len(edges) \in Nat
  PROVE  /\ Run(S)[0] = FirstState
         /\ \A n \in 1 .. Len(edges) : Run(S)[n] = RunNext(S, n, Run(S)[n - 1])
<1> DEFINE F == CHOOSE f : f = [i \in 0 .. Len(edges) |-> IF i = 0 THEN FirstState ELSE RunNext(S, i, f[i - 1])]
<1>1. Run(S) = F
  BY DEF Run, RunNext
<1>2. \E f : f = [i \in 0 .. Len(edges) |-> IF i = 0 THEN FirstState ELSE RunNext(S, i, f[i - 1])]
  <2>1. \E f : IsRun(S, Len(edges), f)
    BY RunExists
  <2> QED
    BY <2>1, Zenon DEF IsRun
<1>3. F = [i \in 0 .. Len(edges) |-> IF i = 0 THEN FirstState ELSE RunNext(S, i, F[i - 1])]
  BY <1>2, Zenon
<1> HIDE DEF F
<1>4. F[0] = FirstState /\ \A n \in 1 .. Len(edges) : F[n] = RunNext(S, n, F[n - 1])
  <2>1. \A i \in 0 .. Len(edges) : F[i] = IF i = 0 THEN FirstState ELSE RunNext(S, i, F[i - 1])
    BY <1>3, Zenon
  <2> QED
    BY <2>1
<1> QED
  BY <1>1, <1>4

\* An option is a set of at most one element.
IsOption(o) == \A s, t \in o : s = t

\* The canonical form of an option is an option.
LEMMA CanonicalIsOption ==
  ASSUME NEW o, NEW w
  PROVE  IsOption(Canonical(o, w))
BY DEF IsOption, Canonical

\* What follows nothing is nothing; what follows one state is its transition.
LEMMA FollowOption ==
  ASSUME NEW n, NEW choice
  PROVE  /\ Follow({}, n, choice) = {}
         /\ \A s : Follow({s}, n, choice) =
                     Canonical(Transition(problem, s, steps[n], choice), BoundaryView(n))
<1>1. Follow({}, n, choice) = {}
  BY DEF Follow
<1>2. ASSUME NEW s
      PROVE  Follow({s}, n, choice) = Canonical(Transition(problem, s, steps[n], choice), BoundaryView(n))
  <2> DEFINE C(x) == Canonical(Transition(problem, x, steps[n], choice), BoundaryView(n))
  <2>1. Follow({s}, n, choice) = UNION {C(x) : x \in {s}}
    BY DEF Follow
  <2> HIDE DEF C
  <2>2. UNION {C(x) : x \in {s}} = C(s)
    OBVIOUS
  <2> QED
    BY <2>1, <2>2 DEF C
<1> QED
  BY <1>1, <1>2

----------------------------------------------------------------------------
(* The plan, once it is done.                                              *)

PlanDone ==
  /\ IInv /\ DInv
  /\ phase = "done"
  /\ level = Len(edges) + 1

\* The vertices at work at level n.
AtWork(n) == {v \in Vertex : Needed(v, n)}

\* There is one step per edge; it tells who enters and who leaves.
LEMMA StepsOfPlan ==
  ASSUME PlanDone
  PROVE  /\ Len(edges) \in Nat /\ Levels = 1 .. Len(edges) /\ Len(steps) = Len(edges)
         /\ edges \in Orders
         /\ \A n \in 1 .. Len(edges) :
              /\ Elements(steps[n].introduced) = AtWork(n) \ Boundary(n - 1)
              /\ Elements(steps[n].forgotten) = AtWork(n) \ Boundary(n)
<1>1. edges \in Orders
  BY DEF PlanDone, IInv, Types
<1>2. Len(edges) \in Nat /\ DOMAIN edges = 1 .. Len(edges)
  BY <1>1, FrontierPlanAssumption, EdgeTyping
<1>3. Len(steps) = Len(edges) /\ \A n \in 1 .. Len(steps) : \A t : t = steps[n] => Describes(t, n)
  BY <1>2 DEF PlanDone, DInv, StepsExact, Planned
<1>4. ASSUME NEW n \in 1 .. Len(edges)
      PROVE  /\ Elements(steps[n].introduced) = AtWork(n) \ Boundary(n - 1)
             /\ Elements(steps[n].forgotten) = AtWork(n) \ Boundary(n)
  <2>1. Describes(steps[n], n)
    BY <1>3
  <2> QED
    BY <2>1 DEF Describes, Members, Elements, AtWork
<1> QED
  BY <1>1, <1>2, <1>3, <1>4 DEF Levels

\* Two vertices at work at the same level do not share a slot.
LEMMA WorkingApart ==
  ASSUME PlanDone, NEW n \in 1 .. Len(edges), NEW u \in AtWork(n), NEW v \in AtWork(n),
         slots[u] # None, slots[u] = slots[v]
  PROVE  u = v
<1>1. SlotsNeverShared
  BY SlotsApart, FrontierPlanAssumption DEF PlanDone
<1>2. DOMAIN edges = 1 .. Len(edges)
  BY StepsOfPlan DEF Levels
<1> QED
  BY <1>1, <1>2 DEF SlotsNeverShared, AtWork

\* The view before the first layer is the one of the empty frontier.
LEMMA FirstView ==
  ASSUME PlanDone
  PROVE  EmptyView = BoundaryView(0)
<1>1. Boundary(0) = {}
  <2>1. Len(edges) \in Nat /\ DOMAIN edges = 1 .. Len(edges)
    BY StepsOfPlan DEF Levels
  <2> QED
    BY <2>1 DEF Boundary, Needed, Incident
<1> QED
  BY <1>1 DEF EmptyView, BoundaryView

\* A step turns the view of the frontier before its edge into the one after.
LEMMA ViewAdvances ==
  ASSUME PlanDone, NEW n \in 1 .. Len(edges)
  PROVE  NextView(BoundaryView(n - 1), n) = BoundaryView(n)
<1> DEFINE W == 0 .. MaxWorkingWidth - 1
           Before == Boundary(n - 1)
           Behind == Boundary(n)
           In == Elements(steps[n].introduced)
           Out == Elements(steps[n].forgotten)
<1>1. In = AtWork(n) \ Before /\ Out = AtWork(n) \ Behind
  BY StepsOfPlan
<1>2. Before \subseteq AtWork(n) /\ Behind \subseteq AtWork(n)
  <2>1. (n - 1) + 1 = n
    BY StepsOfPlan
  <2> QED
    BY <2>1 DEF Boundary, AtWork
<1>3. \A s \in W : s # None
  BY DEF None
<1>4. \A s \in W : \A u, v \in AtWork(n) : slots[u] = s /\ slots[v] = s => u = v
  BY <1>3, WorkingApart
<1>5. n <= Len(steps)
  BY StepsOfPlan
<1>6. NextView(BoundaryView(n - 1), n) = Advance(BoundaryView(n - 1), steps[n])
  BY <1>5 DEF NextView
<1> DEFINE At(X, s) == IF \E v \in X : slots[v] = s THEN CHOOSE v \in X : slots[v] = s ELSE None
<1>7. BoundaryView(n - 1) = [s \in W |-> At(Before, s)] /\ BoundaryView(n) = [s \in W |-> At(Behind, s)]
  BY DEF BoundaryView
<1> DEFINE Moved(s) == IF \E v \in Out : slots[v] = s THEN None
                       ELSE IF \E v \in In : slots[v] = s THEN CHOOSE v \in In : slots[v] = s
                       ELSE At(Before, s)
<1>8. Advance(BoundaryView(n - 1), steps[n]) = [s \in W |-> Moved(s)]
  BY <1>7 DEF Advance
<1>9. ASSUME NEW s \in W
      PROVE  At(Behind, s) = Moved(s)
  <2> HIDE DEF W, Before, Behind, In, Out
  <2>1. CASE \E v \in Out : slots[v] = s
    <3>1. ~ \E v \in Behind : slots[v] = s
      BY <1>1, <1>2, <1>4, <2>1
    <3> QED
      BY <2>1, <3>1
  <2>2. CASE (~ \E v \in Out : slots[v] = s) /\ \E v \in In : slots[v] = s
    <3>1. PICK v \in In : slots[v] = s
      BY <2>2
    <3>2. v \in Behind
      BY <1>1, <2>2, <3>1
    <3>3. \A u \in Behind : slots[u] = s => u = v
      BY <1>1, <1>2, <1>4, <3>1
    <3>4. \A u \in In : slots[u] = s => u = v
      BY <1>1, <1>4, <3>1
    <3>5. At(Behind, s) = v /\ (CHOOSE u \in In : slots[u] = s) = v
      BY <3>1, <3>2, <3>3, <3>4
    <3> QED
      BY <2>2, <3>5
  <2>3. CASE (~ \E v \in Out : slots[v] = s) /\ ~ \E v \in In : slots[v] = s
    <3>1. \A v \in AtWork(n) : slots[v] = s => v \in Before /\ v \in Behind
      BY <1>1, <2>3
    <3>2. CASE \E v \in Before : slots[v] = s
      <4>1. PICK v \in Before : slots[v] = s
        BY <3>2
      <4>2. v \in Behind
        BY <1>2, <3>1, <4>1
      <4>3. \A u \in Behind \union Before : slots[u] = s => u = v
        BY <1>2, <1>4, <4>1
      <4>4. At(Behind, s) = v /\ At(Before, s) = v
        BY <4>1, <4>2, <4>3
      <4> QED
        BY <2>3, <4>4
    <3>3. CASE ~ \E v \in Before : slots[v] = s
      <4>1. ~ \E v \in Behind : slots[v] = s
        BY <1>2, <3>1, <3>3
      <4> QED
        BY <2>3, <3>3, <4>1
    <3> QED
      BY <3>2, <3>3
  <2> QED
    BY <2>1, <2>2, <2>3
<1> HIDE DEF W, At, In, Out, Before, Behind, Moved
<1> QED
  BY <1>6, <1>7, <1>8, <1>9

----------------------------------------------------------------------------
(* Once the plan is done, what a selection decides does not change.         *)

\* The run of every selection, level by level.
RunsUnfold ==
  \A S : /\ Run(S)[0] = FirstState
         /\ \A n \in 1 .. Len(edges) : Run(S)[n] = RunNext(S, n, Run(S)[n - 1])

\* The runs unfold in every state.
LEMMA RunsUnfoldAlways == Len(edges) \in Nat => RunsUnfold
BY RunUnfolds DEF RunsUnfold

\* The operators of the configuration keep their values.
LEMMA ConfigStays ==
  ASSUME UNCHANGED config
  PROVE  /\ Levels' = Levels
         /\ FirstState' = FirstState
         /\ limits' = limits
         /\ InitialNodes' = InitialNodes
         /\ \A n : BoundaryView(n)' = BoundaryView(n)
         /\ \A from, n, choice : Follow(from, n, choice)' = Follow(from, n, choice)
<1> USE DEF config, plan
<1>1. Levels' = Levels
  BY DEF Levels
<1>2. EmptyView' = EmptyView
  BY DEF EmptyView, MaxWorkingWidth
<1>3. FirstState' = FirstState
  BY <1>2 DEF FirstState
<1>4. limits' = limits
  BY DEF limits
<1>5. InitialNodes' = InitialNodes
  BY <1>1 DEF InitialNodes
<1>6. ASSUME NEW n PROVE BoundaryView(n)' = BoundaryView(n)
  <2>1. Boundary(n)' = Boundary(n)
    BY DEF Boundary, Needed, Incident, Ends
  <2>2. MaxWorkingWidth' = MaxWorkingWidth
    BY DEF MaxWorkingWidth
  <2> QED
    BY <2>1, <2>2 DEF BoundaryView
<1>7. ASSUME NEW from, NEW n, NEW choice
      PROVE  Follow(from, n, choice)' = Follow(from, n, choice)
  BY <1>6 DEF Follow
<1> QED
  BY <1>1, <1>3, <1>4, <1>5, <1>6, <1>7

\* So do the runs and what they decide.
LEMMA RunsStay ==
  ASSUME UNCHANGED config, Len(edges) \in Nat, Levels = 1 .. Len(edges)
  PROVE  /\ \A S : \A n \in 0 .. Len(edges) : (Run(S)[n])' = Run(S)[n]
         /\ \A S : RunAccepts(S)' <=> RunAccepts(S)
         /\ \A S : RunFails(S)' <=> RunFails(S)
<1>1. RunsUnfold
  BY RunsUnfoldAlways
<1>2. (Len(edges) \in Nat => RunsUnfold)'
  BY RunsUnfoldAlways, PTL
<1>3. edges' = edges /\ steps' = steps /\ problem' = problem
  BY DEF config, plan
<1>4. RunsUnfold'
  BY <1>2, <1>3
<1>5. ASSUME NEW S
      PROVE  \A n \in 0 .. Len(edges) : (Run(S)[n])' = Run(S)[n]
  <2>1. /\ Run(S)[0] = FirstState /\ (Run(S)[0])' = FirstState
        /\ \A n \in 1 .. Len(edges) :
             /\ Run(S)[n] = Follow(Run(S)[n - 1], n, ChoiceAt(S, n))
             /\ (Run(S)[n])' = Follow((Run(S)[n - 1])', n, ChoiceAt(S, n))
    <3>1. (Run(S)[0])' = FirstState
      BY <1>4, ConfigStays DEF RunsUnfold
    <3>2. ASSUME NEW n \in 1 .. Len(edges)
          PROVE  (Run(S)[n])' = Follow((Run(S)[n - 1])', n, ChoiceAt(S, n))
      <4>1. (Run(S)[n])' = RunNext(S, n, Run(S)[n - 1])'
        BY <1>3, <1>4 DEF RunsUnfold
      <4>2. RunNext(S, n, Run(S)[n - 1])' = Follow(Run(S)[n - 1], n, ChoiceAt(S, n))'
        BY DEF RunNext
      <4>3. PICK from : from = (Run(S)[n - 1])'
        OBVIOUS
      <4>4. Follow(Run(S)[n - 1], n, ChoiceAt(S, n))' = Follow(from, n, ChoiceAt(S, n))'
        BY <4>3 DEF Follow, ChoiceAt
      <4> QED
        BY <4>1, <4>2, <4>3, <4>4, ConfigStays
    <3> QED
      BY <1>1, <3>1, <3>2 DEF RunsUnfold, RunNext
  <2> DEFINE Good == {n \in 0 .. Len(edges) : (Run(S)[n])' = Run(S)[n]}
  <2>2. 0 \in Good
    BY <2>1
  <2>3. ASSUME NEW n \in Nat, n < Len(edges), n \in Good
        PROVE  n + 1 \in Good
    <3>1. n + 1 \in 1 .. Len(edges) /\ (n + 1) - 1 = n
      BY <2>3
    <3>2. (Run(S)[n])' = Run(S)[n]
      BY <2>3
    <3>3. (Run(S)[n + 1])' = Run(S)[n + 1]
      BY <2>1, <3>1, <3>2
    <3> QED
      BY <3>1, <3>3
  <2>4. 0 .. Len(edges) \subseteq Good
    <3> HIDE DEF Good
    <3> QED
      BY <2>2, <2>3, SetInduction
  <2> QED
    BY <2>4
<1>6. \A S : RunAccepts(S)' <=> RunAccepts(S)
  BY <1>3, <1>5 DEF RunAccepts
<1>7. ASSUME NEW S PROVE RunFails(S)' <=> RunFails(S)
  <2>1. (Run(S)[Len(edges)])' = Run(S)[Len(edges)]
    <3>1. Len(edges) \in 0 .. Len(edges)
      OBVIOUS
    <3> QED
      BY <1>3, <1>5, <3>1
  <2>2. \A n \in Levels : (Run(S)[n - 1])' = Run(S)[n - 1]
    BY <1>5
  <2>3. Levels' = Levels
    BY ConfigStays
  <2> QED
    BY <1>3, <2>1, <2>2, <2>3 DEF RunFails
<1> QED
  BY <1>5, <1>6, <1>7

\* The plan stays done.
LEMMA PlanStays ==
  ASSUME PlanDone, UNCHANGED config
  PROVE  PlanDone'
<1>1. UNCHANGED plan
  BY DEF plan, config
<1>2. IInv' /\ DInv'
  BY <1>1, FrontierPlanAssumption, PlanStepKeepsInvariant, StepKeepsDescription DEF PlanDone
<1> QED
  BY <1>2 DEF PlanDone, config, plan

----------------------------------------------------------------------------
(* The invariant.                                                          *)

Rows == [exclude : Nat, include : Nat]

\* The states of layer k, the layers counted from 1: those with a row in the
\* tape, then those of the layer at work.
LayerLength(k) ==
  IF k <= Len(tape) THEN Len(tape[k]) ELSE IF stage = "backward" THEN Len(roots) ELSE Len(states)

\* The rows of the tape lead into the next layer; the first layer has one state.
TapeSound ==
  /\ tape \in Seq(Seq(Rows))
  /\ Len(tape) <= Len(edges)
  /\ LayerLength(1) = 1
  /\ \A k \in 1 .. Len(tape) : \A id \in 1 .. Len(tape[k]) :
       tape[k][id].exclude \in 0 .. LayerLength(k + 1) /\ tape[k][id].include \in 0 .. LayerLength(k + 1)

\* Some selection leads to every state.
AllReached ==
  \A k \in 0 .. Len(tape) : \A id \in 1 .. LayerLength(k + 1) :
    \E S \in SUBSET Levels : Trail(tape, S)[k] = id

\* The tape leads a selection to the state of its run, or to Reject with it.
TrailsTellRuns ==
  \A S \in SUBSET Levels :
    Run(S)[Len(tape)] = IF Destination(S) = 0 THEN {} ELSE {states[Destination(S)]}

\* No run has failed in the layers completed.
NoneFailed ==
  \A S \in SUBSET Levels : \A k \in 1 .. Len(tape) : \A s \in Run(S)[k - 1] :
    ~TransitionFails(problem, s, steps[k], ChoiceAt(S, k))

\* The choice leads the state s of this layer to the target id.
Leads(s, choice, id) ==
  /\ id \in 0 .. Len(next_ids)
  /\ ~TransitionFails(problem, states[s], steps[Layer], choice)
  /\ Follow({states[s]}, Layer, choice) = IF id = 0 THEN {} ELSE {next_ids[id]}

\* A row, or the pair of targets at work, leads to id.
Targeted(id) ==
  \/ \E s \in 1 .. Len(layer) : layer[s].exclude = id \/ layer[s].include = id
  \/ targets # << >> /\ targets[1] = id

Distinct(q) == \A i, j \in 1 .. Len(q) : q[i] = q[j] => i = j

\* Each finished row, and the pair at work, has the targets of its state.
RowsLead ==
  \A s \in 1 .. Len(layer) : Leads(s, "exclude", layer[s].exclude) /\ Leads(s, "include", layer[s].include)

PairLeads == targets # << >> => source <= Len(states) /\ Leads(source, "exclude", targets[1])

AllTargeted == \A id \in 1 .. Len(next_ids) : Targeted(id)

\* The layer at work.
LayerSound ==
  /\ Len(tape) < Len(edges)
  /\ view = BoundaryView(Layer)
  /\ states \in Seq(Elements(states)) /\ next_ids \in Seq(Elements(next_ids))
  /\ Distinct(next_ids)
  /\ layer \in Seq(Rows)
  /\ source \in 1 .. Len(states) + 1 /\ Len(layer) = source - 1
  /\ targets \in Seq(Nat) /\ Len(targets) <= 1
  /\ PairLeads /\ RowsLead /\ AllTargeted

\* The final states seen so far have not failed, and have their terminals.
FinalSound ==
  /\ Len(tape) = Len(edges)
  /\ states \in Seq(Elements(states))
  /\ source \in 1 .. Len(states) + 1
  /\ roots \in Seq({Zero, Unit}) /\ Len(roots) = source - 1
  /\ \A id \in 1 .. Len(roots) :
       ~FinalizeFails(states[id]) /\ roots[id] = IF Finalize(states[id]) THEN Unit ELSE Zero

\* The later choices with which the first n choices of S are accepted.
Completions(S, n) ==
  {T \in SUBSET {i \in Levels : i > n} : RunAccepts({i \in S : i <= n} \union T)}

NoRunFails == \A S \in SUBSET Levels : ~RunFails(S)

\* The family of a row: the decision at the variable of the layer.
RowFamily(row) == TargetRoot(row.exclude) \union {S \union {Len(tape)} : S \in TargetRoot(row.include)}

\* The root of a state is the family of its completions.
RootsSound ==
  /\ FirstState # {} /\ NoRunFails
  /\ roots \in Seq(SUBSET SUBSET Levels) /\ previous \in Seq(SUBSET SUBSET Levels)
  /\ \A S \in SUBSET Levels : TargetRoot(Destination(S)) = Completions(S, Len(tape))
  /\ tape # << >> =>
       /\ source \in 1 .. Len(tape[Len(tape)]) + 1 /\ Len(previous) = source - 1
       /\ \A id \in 1 .. Len(previous) : previous[id] = RowFamily(tape[Len(tape)][id])
  /\ tape = << >> => previous = << >>

\* Nothing has been built before the plan is done.
NothingBuilt ==
  /\ tape = << >> /\ roots = << >> /\ previous = << >> /\ next_ids = << >>
  /\ source = 1 /\ targets = << >> /\ layer = << >>

Accepted == {S \in SUBSET Levels : RunAccepts(S)}

Errors == {"states_limit", "transitions_limit", "node_limit", "problem_error", "cancelled"}

\* A build returns what the runs accept, an error of the problem only when it
\* has one, and "cancelled" only when its token is set.
ResultSound ==
  /\ stage # "returned" <=> result = Pending
  /\ result.kind \in Errors => result = Outcome(result.kind)
  /\ result.kind \in Errors \union {"ok", "pending"}
  /\ result.kind = "ok" => FirstState # {} /\ NoRunFails /\ result.value = Accepted
  /\ result.kind = "problem_error" => FirstState = {} \/ \E S \in SUBSET Levels : RunFails(S)
  /\ result.kind = "cancelled" => token

PlanSound ==
  /\ IInv /\ DInv
  /\ phase = "done" => level = Len(edges) + 1
  /\ stage # "plan" => phase = "done"
  /\ stage \in {"plan", "forward", "finalize", "backward", "returned"}

BuildInv ==
  /\ PlanSound
  /\ ResultSound
  /\ stage = "plan" => NothingBuilt
  /\ stage \in {"forward", "finalize", "backward"} => TapeSound /\ AllReached
  /\ stage \in {"forward", "finalize"} =>
       FirstState # {} /\ previous = << >> /\ TrailsTellRuns /\ NoneFailed
  /\ stage = "forward" => LayerSound /\ roots = << >>
  /\ stage = "finalize" => FinalSound
  /\ stage = "backward" => RootsSound

----------------------------------------------------------------------------
(* Trails through a sound tape.                                            *)

\* The number of states of a layer is a number.
LEMMA LayerLengthType ==
  ASSUME tape \in Seq(Seq(Rows)), Len(roots) \in Nat, stage = "backward" \/ Len(states) \in Nat,
         NEW k \in Nat, k # 0
  PROVE  LayerLength(k) \in Nat
<1>1. k <= Len(tape) => Len(tape[k]) \in Nat
  BY LenProperties, ElementOfSeq
<1> QED
  BY <1>1 DEF LayerLength

\* A trail stays on the states of the layers, or at 0.
LEMMA TrailInRange ==
  ASSUME TapeSound, Len(roots) \in Nat, stage = "backward" \/ Len(states) \in Nat, NEW S
  PROVE  /\ Len(tape) \in Nat
         /\ \A k \in 0 .. Len(tape) : Trail(tape, S)[k] \in 0 .. LayerLength(k + 1)
<1>1. tape \in Seq(Seq(Rows)) /\ Len(tape) \in Nat /\ LayerLength(1) = 1
  BY LenProperties DEF TapeSound
<1> DEFINE Good == {k \in 0 .. Len(tape) : Trail(tape, S)[k] \in 0 .. LayerLength(k + 1)}
<1>2. 0 \in Good
  BY <1>1, TrailUnfolds
<1>3. ASSUME NEW k \in Nat, k < Len(tape), k \in Good
      PROVE  k + 1 \in Good
  <2>1. k + 1 \in 1 .. Len(tape) /\ (k + 1) - 1 = k /\ k + 1 \in 0 .. Len(tape) /\ k + 2 \in Nat
    BY <1>1, <1>3
  <2>2. PICK id : id = Trail(tape, S)[k]
    OBVIOUS
  <2>3. id \in 0 .. Len(tape[k + 1])
    BY <1>3, <2>1, <2>2 DEF LayerLength
  <2>4. Trail(tape, S)[k + 1] = TrailNext(tape, S, k + 1, id)
    BY <1>1, <2>1, <2>2, TrailUnfolds
  <2>5. LayerLength(k + 2) \in Nat
    BY <1>1, <2>1, LayerLengthType
  <2>6. id = 0 \/ id \in 1 .. Len(tape[k + 1])
    BY <2>3
  <2>7. Trail(tape, S)[k + 1] \in 0 .. LayerLength((k + 1) + 1)
    <3>1. id \in 1 .. Len(tape[k + 1]) =>
            /\ tape[k + 1][id].exclude \in 0 .. LayerLength((k + 1) + 1)
            /\ tape[k + 1][id].include \in 0 .. LayerLength((k + 1) + 1)
      BY <2>1 DEF TapeSound
    <3>2. LayerLength((k + 1) + 1) \in Nat
      <4>1. (k + 1) + 1 = k + 2
        BY <2>1
      <4> QED
        BY <2>5, <4>1
    <3>3. CASE id = 0
      BY <2>4, <3>2, <3>3 DEF TrailNext
    <3>4. CASE id # 0
      BY <2>4, <2>6, <3>1, <3>4 DEF TrailNext
    <3> QED
      BY <3>3, <3>4
  <2> QED
    BY <2>1, <2>7
<1>4. 0 .. Len(tape) \subseteq Good
  <2> HIDE DEF Good
  <2> QED
    BY <1>1, <1>2, <1>3, SetInduction
<1> QED
  BY <1>1, <1>4

\* A state is reached by selections that take either choice next.
LEMMA ReachedWith ==
  ASSUME TapeSound, AllReached, Levels = 1 .. Len(edges), Len(edges) \in Nat,
         NEW k \in 0 .. Len(tape), k < Len(edges), NEW id \in 1 .. LayerLength(k + 1),
         NEW choice \in {"exclude", "include"}
  PROVE  \E S \in SUBSET Levels : Trail(tape, S)[k] = id /\ ChoiceAt(S, k + 1) = choice
<1>1. PICK S \in SUBSET Levels : Trail(tape, S)[k] = id
  BY DEF AllReached
<1>2. Len(tape) \in Nat
  BY LenProperties DEF TapeSound
<1>3. PICK T : T = {i \in S : i <= k} \union {i \in {k + 1} : choice = "include"}
  OBVIOUS
<1>4. T \in SUBSET Levels
  <2>1. k + 1 \in 1 .. Len(edges)
    BY <1>2
  <2>2. \A i \in T : i \in S \/ i = k + 1
    BY <1>3
  <2>3. \A i \in T : i \in Levels
    BY <1>1, <2>1, <2>2
  <2> QED
    BY <2>3
<1>5. k + 1 \in T <=> choice = "include"
  BY <1>2, <1>3
<1>6. \A i \in 1 .. k : i \in S <=> i \in T
  BY <1>2, <1>3
<1>7. Trail(tape, S)[k] = Trail(tape, T)[k]
  <2>1. k \in Nat /\ k <= Len(tape) /\ k \in 0 .. k
    BY <1>2
  <2> QED
    BY <1>2, <1>6, <2>1, TrailsAgree
<1> QED
  BY <1>1, <1>4, <1>5, <1>7 DEF ChoiceAt

----------------------------------------------------------------------------
(* The steps by which a build returns.                                     *)

\* Work is done only when the plan is.
LEMMA WorkIsPlanned ==
  ASSUME BuildInv, stage # "plan" \/ phase = "done"
  PROVE  PlanDone
BY DEF BuildInv, PlanSound, PlanDone

\* A build may return an answer that is due.
LEMMA ReturnSound ==
  ASSUME BuildInv, UNCHANGED <<config, token>>, stage # "plan" \/ phase = "done",
         NEW r, Return(r), r # Pending,
         r.kind \in Errors => r = Outcome(r.kind),
         r.kind \in Errors \union {"ok"},
         r.kind = "ok" => FirstState # {} /\ NoRunFails /\ r.value = Accepted,
         r.kind = "problem_error" => FirstState = {} \/ \E S \in SUBSET Levels : RunFails(S),
         r.kind = "cancelled" => token
  PROVE  BuildInv'
<1>1. PlanDone /\ PlanDone'
  BY WorkIsPlanned, PlanStays
<1>2. Len(edges) \in Nat /\ Levels = 1 .. Len(edges)
  BY <1>1, StepsOfPlan
<1>3. stage' = "returned" /\ result' = r
  BY DEF Return
<1>4. PlanSound'
  BY <1>1, <1>3 DEF PlanSound, PlanDone
<1>5. Levels' = Levels /\ FirstState' = FirstState
  BY ConfigStays
<1>6. \A S : (RunAccepts(S)' <=> RunAccepts(S)) /\ (RunFails(S)' <=> RunFails(S))
  BY <1>2, RunsStay
<1>7. Accepted' = Accepted /\ (NoRunFails' <=> NoRunFails)
      /\ ((\E S \in SUBSET Levels : RunFails(S))' <=> \E S \in SUBSET Levels : RunFails(S))
  BY <1>5, <1>6 DEF Accepted, NoRunFails
<1>8. ResultSound'
  BY <1>3, <1>5, <1>7 DEF ResultSound
<1> QED
  BY <1>3, <1>4, <1>8 DEF BuildInv

\* The token is found set.
LEMMA ObserveCancelSound == BuildInv /\ ObserveCancel => BuildInv'
<1> SUFFICES ASSUME BuildInv, ObserveCancel PROVE BuildInv'
  OBVIOUS
<1>1. Return(Outcome("cancelled")) /\ token /\ UNCHANGED <<config, token>>
  BY DEF ObserveCancel, ToLook
<1>2. stage # "plan" \/ phase = "done"
  BY DEF ObserveCancel, ToLook, ToStart, ToBranch, ToFinalize, ToReduce
<1> QED
  BY <1>1, <1>2, ReturnSound DEF Outcome, Pending, Errors

\* The limits stop a build with their own kinds of error.
LEMMA LimitSound ==
  ASSUME BuildInv, OverTransitions \/ OverStates \/ OverNodes \/ RefuseStart
  PROVE  BuildInv'
<1>1. CASE OverTransitions
  <2>1. Return(Outcome("transitions_limit")) /\ UNCHANGED <<config, token>> /\ stage # "plan"
    BY <1>1 DEF OverTransitions, CanBranch, ToBranch
  <2> QED
    BY <2>1, ReturnSound DEF Outcome, Pending, Errors
<1>2. CASE OverStates
  <2>1. Return(Outcome("states_limit")) /\ UNCHANGED <<config, token>> /\ stage # "plan"
    BY <1>2 DEF OverStates, CanTry, ToTry, CanBranch, ToBranch
  <2> QED
    BY <2>1, ReturnSound DEF Outcome, Pending, Errors
<1>3. CASE OverNodes
  <2>1. Return(Outcome("node_limit")) /\ UNCHANGED <<config, token>> /\ stage # "plan"
    BY <1>3 DEF OverNodes, ToReduce
  <2> QED
    BY <2>1, ReturnSound DEF Outcome, Pending, Errors
<1>4. CASE RefuseStart
  <2>1. UNCHANGED <<config, token>> /\ phase = "done"
    BY <1>4 DEF RefuseStart, ToStart
  <2>2. CASE FirstState = {} /\ Return(Outcome("problem_error"))
    BY <2>1, <2>2, ReturnSound DEF Outcome, Pending, Errors
  <2>3. CASE Return(Outcome("states_limit"))
    BY <2>1, <2>3, ReturnSound DEF Outcome, Pending, Errors
  <2> QED
    BY <1>4, <2>2, <2>3 DEF RefuseStart
<1> QED
  BY <1>1, <1>2, <1>3, <1>4

\* An error in transition comes from the run of some selection.
LEMMA FailTransitionSound == BuildInv /\ FailTransition => BuildInv'
<1> SUFFICES ASSUME BuildInv, FailTransition PROVE BuildInv'
  OBVIOUS
<1>1. /\ Return(Outcome("problem_error")) /\ UNCHANGED <<config, token>>
      /\ stage = "forward" /\ source <= Len(states)
      /\ TransitionFails(problem, states[source], steps[Layer], Choice)
  BY DEF FailTransition, ToTry, CanBranch, ToBranch, Fails
<1>2. TapeSound /\ AllReached /\ TrailsTellRuns /\ LayerSound
  BY <1>1 DEF BuildInv
<1>3. PlanDone
  BY <1>1, WorkIsPlanned
<1>4. Len(edges) \in Nat /\ Levels = 1 .. Len(edges)
  BY <1>3, StepsOfPlan
<1>5. Choice \in {"exclude", "include"}
  <2>1. targets \in Seq(Nat) /\ Len(targets) <= 1
    BY <1>2 DEF LayerSound
  <2>2. Len(targets) \in Nat
    BY <2>1, LenProperties
  <2>3. CASE Len(targets) = 0
    BY <2>3 DEF Choice, BothChoices
  <2>4. CASE Len(targets) = 1
    BY <2>4 DEF Choice, BothChoices
  <2>5. Len(targets) = 0 \/ Len(targets) = 1
    <3>1. PICK n \in Nat : n = Len(targets)
      BY <2>2
    <3> QED
      BY <2>1, <3>1
  <2> QED
    BY <2>3, <2>4, <2>5
<1>6. Len(tape) \in Nat /\ source \in 1 .. LayerLength(Len(tape) + 1) /\ Len(tape) < Len(edges)
  <2>1. Len(tape) \in Nat /\ Len(states) \in Nat
    BY <1>2, LenProperties DEF TapeSound, LayerSound
  <2>2. ~(Len(tape) + 1 <= Len(tape))
    BY <2>1
  <2>3. LayerLength(Len(tape) + 1) = Len(states)
    BY <1>1, <2>2 DEF LayerLength
  <2> QED
    BY <1>1, <1>2, <2>1, <2>3 DEF LayerSound
<1>7. PICK S \in SUBSET Levels : Trail(tape, S)[Len(tape)] = source /\ ChoiceAt(S, Len(tape) + 1) = Choice
  <2>1. Len(tape) \in 0 .. Len(tape)
    BY <1>6
  <2> QED
    BY <1>2, <1>4, <1>5, <1>6, <2>1, ReachedWith
<1>8. Run(S)[Len(tape)] = {states[source]}
  <2>1. source # 0
    BY <1>6
  <2> QED
    BY <1>2, <1>7, <2>1 DEF TrailsTellRuns, Destination
<1>9. RunFails(S)
  <2>1. Layer \in Levels /\ Layer - 1 = Len(tape) /\ states[source] \in Run(S)[Layer - 1]
    BY <1>4, <1>6, <1>8 DEF Layer
  <2> QED
    BY <1>1, <1>7, <2>1 DEF RunFails, Layer
<1> QED
  BY <1>1, <1>9, ReturnSound DEF Outcome, Pending, Errors

\* An error in finalize comes from the run of some selection.
LEMMA FailFinalizeSound == BuildInv /\ FailFinalize => BuildInv'
<1> SUFFICES ASSUME BuildInv, FailFinalize PROVE BuildInv'
  OBVIOUS
<1>1. /\ Return(Outcome("problem_error")) /\ UNCHANGED <<config, token>>
      /\ stage = "finalize" /\ source <= Len(states) /\ FinalizeFails(states[source])
  BY DEF FailFinalize, ToFinalize
<1>2. TapeSound /\ AllReached /\ TrailsTellRuns /\ FinalSound
  BY <1>1 DEF BuildInv
<1>3. Len(tape) \in Nat /\ Len(tape) = Len(edges) /\ source \in 1 .. LayerLength(Len(tape) + 1)
  <2>1. Len(tape) \in Nat /\ Len(states) \in Nat
    BY <1>2, LenProperties DEF TapeSound, FinalSound
  <2>2. ~(Len(tape) + 1 <= Len(tape))
    BY <2>1
  <2>3. LayerLength(Len(tape) + 1) = Len(states)
    BY <1>1, <2>2 DEF LayerLength
  <2> QED
    BY <1>1, <1>2, <2>1, <2>3 DEF FinalSound
<1>4. PICK S \in SUBSET Levels : Trail(tape, S)[Len(tape)] = source
  <2>1. Len(tape) \in 0 .. Len(tape)
    BY <1>3
  <2> QED
    BY <1>2, <1>3, <2>1 DEF AllReached
<1>5. Run(S)[Len(edges)] = {states[source]}
  <2>1. source # 0
    BY <1>3
  <2> QED
    BY <1>2, <1>3, <1>4, <2>1 DEF TrailsTellRuns, Destination
<1>6. RunFails(S)
  BY <1>1, <1>5 DEF RunFails
<1> QED
  BY <1>1, <1>6, ReturnSound DEF Outcome, Pending, Errors

\* The last root left is the family of what the runs accept.
LEMMA FinishSound == BuildInv /\ Finish => BuildInv'
<1> SUFFICES ASSUME BuildInv, Finish PROVE BuildInv'
  OBVIOUS
<1>1. /\ Return([kind |-> "ok", value |-> roots[Len(roots)]]) /\ UNCHANGED <<config, token>>
      /\ stage = "backward" /\ tape = << >>
  BY DEF Finish
<1>2. TapeSound /\ RootsSound
  BY <1>1 DEF BuildInv
<1>3. Len(tape) = 0 /\ Len(roots) = 1
  <2>1. Len(tape) = 0
    BY <1>1
  <2> QED
    BY <1>1, <1>2, <2>1 DEF TapeSound, LayerLength
<1>4. TargetRoot(1) = Completions({}, 0)
  <2>1. Trail(tape, {})[0] = 1
    BY <1>3, TrailUnfolds
  <2>2. {} \in SUBSET Levels
    OBVIOUS
  <2> QED
    BY <1>2, <1>3, <2>1, <2>2 DEF RootsSound, Destination
<1>5. Completions({}, 0) = Accepted
  <2>1. PlanDone
    BY <1>1, WorkIsPlanned
  <2>2. {i \in Levels : i > 0} = Levels
    BY <2>1, StepsOfPlan
  <2>3. \A T : {i \in {} : i <= 0} \union T = T
    OBVIOUS
  <2> QED
    BY <2>2, <2>3 DEF Completions, Accepted
<1>6. roots[Len(roots)] = Accepted
  BY <1>3, <1>4, <1>5 DEF TargetRoot
<1> QED
  BY <1>1, <1>2, <1>6, ReturnSound DEF Outcome, Pending, Errors, RootsSound

----------------------------------------------------------------------------
(* Steps that leave the work alone.                                        *)

\* The edges of the graph, in any phase.
LEMMA EdgesTyped ==
  ASSUME BuildInv
  PROVE  Len(edges) \in Nat /\ Levels = 1 .. Len(edges) /\ edges \in Orders
<1>1. edges \in Orders
  BY DEF BuildInv, PlanSound, IInv, Types
<1>2. Len(edges) \in Nat /\ DOMAIN edges = 1 .. Len(edges)
  BY <1>1, FrontierPlanAssumption, EdgeTyping
<1> QED
  BY <1>1, <1>2 DEF Levels

\* The tape stays sound and its states reached while it and the lengths of its
\* layers stay.
LEMMA TapeStays ==
  ASSUME UNCHANGED <<config, tape>>, \A k : LayerLength(k)' = LayerLength(k)
  PROVE  (TapeSound => TapeSound') /\ (AllReached => AllReached')
<1>1. Levels' = Levels /\ edges' = edges
  BY ConfigStays DEF config, plan
<1>2. TapeSound => TapeSound'
  BY <1>1 DEF TapeSound
<1>3. AllReached => AllReached'
  BY <1>1 DEF AllReached
<1> QED
  BY <1>2, <1>3

\* What the tape tells of the runs stays while it and the states stay.
LEMMA TellingStays ==
  ASSUME UNCHANGED <<config, tape, states>>, Len(edges) \in Nat, Levels = 1 .. Len(edges),
         Len(tape) \in Nat, Len(tape) <= Len(edges)
  PROVE  (TrailsTellRuns => TrailsTellRuns') /\ (NoneFailed => NoneFailed')
<1>1. Levels' = Levels /\ edges' = edges /\ steps' = steps /\ problem' = problem
  BY ConfigStays DEF config, plan
<1>2. \A S : \A k \in 0 .. Len(edges) : (Run(S)[k])' = Run(S)[k]
  BY RunsStay
<1>3. Len(tape) \in 0 .. Len(edges)
  OBVIOUS
<1>4. ASSUME TrailsTellRuns PROVE TrailsTellRuns'
  <2>1. \A S : (Run(S)[Len(tape)])' = Run(S)[Len(tape)]
    BY <1>2, <1>3
  <2>2. \A S : Destination(S)' = Destination(S)
    BY DEF Destination
  <2> QED
    BY <1>1, <1>4, <2>1, <2>2 DEF TrailsTellRuns
<1>5. ASSUME NoneFailed PROVE NoneFailed'
  <2>1. \A S : \A k \in 1 .. Len(tape) : (Run(S)[k - 1])' = Run(S)[k - 1]
    <3> TAKE S
    <3> TAKE k \in 1 .. Len(tape)
    <3>1. k - 1 \in 0 .. Len(edges)
      BY <1>3
    <3> QED
      BY <1>2, <3>1
  <2> QED
    BY <1>1, <1>5, <2>1 DEF NoneFailed, ChoiceAt
<1> QED
  BY <1>4, <1>5

\* What the runs decide about the families stays.
LEMMA CompletionsStay ==
  ASSUME UNCHANGED config, Len(edges) \in Nat, Levels = 1 .. Len(edges)
  PROVE  /\ \A S, n : Completions(S, n)' = Completions(S, n)
         /\ NoRunFails' <=> NoRunFails
         /\ Accepted' = Accepted
         /\ (\E S \in SUBSET Levels : RunFails(S))' <=> \E S \in SUBSET Levels : RunFails(S)
<1>1. Levels' = Levels
  BY ConfigStays
<1>2. \A S : (RunAccepts(S)' <=> RunAccepts(S)) /\ (RunFails(S)' <=> RunFails(S))
  BY RunsStay
<1>3. ASSUME NEW S, NEW n PROVE Completions(S, n)' = Completions(S, n)
  BY <1>1, <1>2 DEF Completions
<1> QED
  BY <1>1, <1>2, <1>3 DEF NoRunFails, Accepted

\* The answer stays sound while it stays.
LEMMA ResultStays ==
  ASSUME BuildInv, UNCHANGED <<config, result>>, token => token',
         (stage' = "returned") <=> (stage = "returned")
  PROVE  ResultSound'
<1>1. Len(edges) \in Nat /\ Levels = 1 .. Len(edges)
  BY EdgesTyped
<1>2. FirstState' = FirstState
  BY ConfigStays
<1> QED
  BY <1>1, <1>2, CompletionsStay DEF BuildInv, ResultSound

\* The plan stays sound while it stays.
LEMMA PlanSoundStays ==
  ASSUME BuildInv, UNCHANGED config, stage' \in {"plan", "forward", "finalize", "backward", "returned"},
         stage' # "plan" => phase = "done"
  PROVE  PlanSound'
<1>1. UNCHANGED plan
  BY DEF plan, config
<1>2. IInv' /\ DInv'
  BY <1>1, FrontierPlanAssumption, PlanStepKeepsInvariant, StepKeepsDescription DEF BuildInv, PlanSound
<1> QED
  BY <1>2 DEF BuildInv, PlanSound, config, plan

\* A step that changes no more than the token and the counters.
LEMMA NothingChanges ==
  ASSUME BuildInv, UNCHANGED <<config, stage, forward, source, backward, result>>, token => token'
  PROVE  BuildInv'
<1> USE DEF forward, backward
<1>1. Len(edges) \in Nat /\ Levels = 1 .. Len(edges)
  BY EdgesTyped
<1>2. PlanSound'
  BY PlanSoundStays DEF BuildInv, PlanSound
<1>3. ResultSound'
  BY ResultStays
<1>4. stage = "plan" => NothingBuilt'
  BY DEF BuildInv, NothingBuilt
<1>5. \A k : LayerLength(k)' = LayerLength(k)
  BY DEF LayerLength
<1>6. stage \in {"forward", "finalize", "backward"} => TapeSound' /\ AllReached'
  BY <1>5, TapeStays DEF BuildInv
<1>7. stage \in {"forward", "finalize", "backward"} => Len(tape) \in Nat /\ Len(tape) <= Len(edges)
  BY LenProperties DEF BuildInv, TapeSound
<1>8. stage \in {"forward", "finalize"} => TrailsTellRuns' /\ NoneFailed'
  BY <1>1, <1>7, TellingStays DEF BuildInv
<1>9. FirstState' = FirstState /\ Levels' = Levels
  BY ConfigStays
<1>10. problem' = problem /\ edges' = edges /\ steps' = steps
  BY DEF config, plan
<1>11. ASSUME LayerSound PROVE LayerSound'
  <2>1. Layer' = Layer
    BY DEF Layer
  <2>2. BoundaryView(Layer)' = BoundaryView(Layer)
    <3>1. PICK n : n = Layer
      OBVIOUS
    <3>2. BoundaryView(Layer)' = BoundaryView(n)'
      BY <2>1, <3>1 DEF BoundaryView, Boundary, Needed
    <3> QED
      BY <3>1, <3>2, ConfigStays
  <2>3. \A s, choice, id : Leads(s, choice, id)' <=> Leads(s, choice, id)
    <3> TAKE s, choice, id
    <3>1. PICK from, n : from = {states[s]} /\ n = Layer
      OBVIOUS
    <3>2. Follow({states[s]}, Layer, choice)' = Follow(from, n, choice)'
      BY <2>1, <3>1 DEF Follow
    <3>3. Follow({states[s]}, Layer, choice)' = Follow({states[s]}, Layer, choice)
      BY <3>1, <3>2, ConfigStays
    <3> QED
      BY <1>10, <2>1, <3>3 DEF Leads
  <2>4. \A id : Targeted(id)' <=> Targeted(id)
    BY DEF Targeted
  <2>5. (PairLeads => PairLeads') /\ (RowsLead => RowsLead') /\ (AllTargeted => AllTargeted')
    <3>1. PairLeads => PairLeads'
      <4>1. PICK t, u : t = targets[1] /\ u = source
        OBVIOUS
      <4>2. Leads(u, "exclude", t)' <=> Leads(u, "exclude", t)
        BY <2>3
      <4> QED
        BY <4>1, <4>2 DEF PairLeads, Leads
    <3>2. RowsLead => RowsLead'
      <4> SUFFICES ASSUME RowsLead, NEW r \in 1 .. Len(layer)
                   PROVE  Leads(r, "exclude", layer[r].exclude)' /\ Leads(r, "include", layer[r].include)'
        BY DEF RowsLead
      <4>1. PICK t, u : t = layer[r].exclude /\ u = layer[r].include
        OBVIOUS
      <4>2. Leads(r, "exclude", t)' /\ Leads(r, "include", u)'
        BY <2>3, <4>1 DEF RowsLead
      <4> QED
        BY <4>1, <4>2 DEF Leads
    <3> QED
      BY <2>4, <3>1, <3>2 DEF AllTargeted
  <2> QED
    BY <1>10, <1>11, <2>2, <2>5 DEF LayerSound, Elements, Distinct
<1>12. ASSUME FinalSound PROVE FinalSound'
  BY <1>10, <1>12 DEF FinalSound, Elements
<1>13. ASSUME RootsSound PROVE RootsSound'
  <2>1. \A S : TargetRoot(Destination(S))' = TargetRoot(Destination(S))
    BY DEF TargetRoot, Destination
  <2>2. \A S : Completions(S, Len(tape))' = Completions(S, Len(tape))
    <3> TAKE S
    <3>1. PICK n : n = Len(tape)
      OBVIOUS
    <3>2. Completions(S, Len(tape))' = Completions(S, n)'
      BY <3>1 DEF Completions
    <3>3. Completions(S, n)' = Completions(S, n)
      BY <1>1, CompletionsStay
    <3> QED
      BY <3>1, <3>2, <3>3
  <2>3. \A row : RowFamily(row)' = RowFamily(row)
    BY DEF RowFamily, TargetRoot
  <2>4. NoRunFails'
    BY <1>1, <1>13, CompletionsStay DEF RootsSound
  <2> QED
    BY <1>9, <1>13, <2>1, <2>2, <2>3, <2>4 DEF RootsSound
<1> QED
  BY <1>2, <1>3, <1>4, <1>6, <1>8, <1>9, <1>11, <1>12, <1>13 DEF BuildInv

\* A cancelled token and a look that does not find one leave the work alone.
LEMMA CancelSound == BuildInv /\ Cancel => BuildInv'
BY NothingChanges DEF Cancel

LEMMA PassCheckSound == BuildInv /\ PassCheck => BuildInv'
BY NothingChanges DEF PassCheck

\* While it plans, a build does nothing else.
LEMMA PlanningSound == BuildInv /\ Planning => BuildInv'
<1> SUFFICES ASSUME BuildInv, Planning PROVE BuildInv'
  OBVIOUS
<1> USE DEF forward, backward
<1>1. stage = "plan" /\ stage' = "plan" /\ phase # "done" /\ PlanNext
  BY DEF Planning
<1>3. IInv' /\ DInv'
  BY <1>1, FrontierPlanAssumption, PlanStepKeepsInvariant, StepKeepsDescription DEF BuildInv, PlanSound
<1>4. phase' = "done" => level' = Len(edges') + 1
  BY <1>1 DEF PlanNext, Scan, StartPlan, Plan, FinishPlan
<1>5. PlanSound'
  BY <1>1, <1>3, <1>4 DEF PlanSound
<1>6. ResultSound'
  BY <1>1 DEF Planning, BuildInv, ResultSound, Pending, Errors
<1>7. NothingBuilt'
  BY <1>1 DEF Planning, BuildInv, NothingBuilt
<1> QED
  BY <1>1, <1>5, <1>6, <1>7 DEF BuildInv

\* Before the plan there is nothing.
LEMMA InitSound == Init => BuildInv
<1> SUFFICES ASSUME Init PROVE BuildInv
  OBVIOUS
<1>1. PlanInit
  BY DEF Init, PlanInit, None, Vertex
<1>2. IInv /\ DInv /\ phase # "done"
  BY <1>1, FrontierPlanAssumption, InitInvariant, InitDescription DEF PlanInit
<1>3. PlanSound
  BY <1>2 DEF PlanSound, Init
<1>4. ResultSound
  BY DEF ResultSound, Init, Pending, Errors
<1>5. NothingBuilt
  BY DEF NothingBuilt, Init
<1> QED
  BY <1>3, <1>4, <1>5 DEF BuildInv, Init

----------------------------------------------------------------------------
(* The forward pass.                                                       *)

\* The steps of the plan keep their meaning.
LEMMA FollowStays ==
  ASSUME UNCHANGED <<config, tape>>, NEW from, NEW choice
  PROVE  Follow(from, Layer, choice)' = Follow(from, Layer, choice)
<1>1. PICK n : n = Layer
  OBVIOUS
<1>2. Layer' = Layer
  BY DEF Layer
<1>3. Follow(from, Layer, choice)' = Follow(from, n, choice)'
  BY <1>1, <1>2 DEF Follow
<1> QED
  BY <1>1, <1>3, ConfigStays

\* Where the states of a layer lead does not change while states are added to
\* the next one.
LEMMA LeadsStay ==
  ASSUME UNCHANGED <<config, tape, states>>, Len(next_ids) \in Nat, Len(next_ids') \in Nat,
         Len(next_ids) <= Len(next_ids'), \A i \in 1 .. Len(next_ids) : next_ids'[i] = next_ids[i],
         NEW s, NEW choice, NEW id, Leads(s, choice, id)
  PROVE  Leads(s, choice, id)'
<1>1. Layer' = Layer /\ steps' = steps /\ problem' = problem
  BY DEF Layer, config, plan
<1>2. PICK from : from = {states[s]}
  OBVIOUS
<1>3. Follow({states[s]}, Layer, choice)' = Follow(from, Layer, choice)'
  BY <1>2 DEF Follow
<1>4. Follow({states[s]}, Layer, choice)' = Follow({states[s]}, Layer, choice)
  BY <1>2, <1>3, FollowStays
<1>5. id = 0 \/ (id \in 1 .. Len(next_ids) /\ next_ids'[id] = next_ids[id])
  BY DEF Leads
<1>6. id \in 0 .. Len(next_ids')
  BY DEF Leads
<1> QED
  BY <1>1, <1>4, <1>5, <1>6 DEF Leads

\* The elements of a sequence with one more.
LEMMA AppendElements ==
  ASSUME NEW q, q \in Seq(Elements(q)), NEW x
  PROVE  /\ Append(q, x) \in Seq(Elements(Append(q, x)))
         /\ Len(q) \in Nat /\ Len(Append(q, x)) = Len(q) + 1
         /\ \A i \in 1 .. Len(q) : Append(q, x)[i] = q[i]
         /\ Append(q, x)[Len(q) + 1] = x
         /\ x \notin Elements(q) /\ Distinct(q) => Distinct(Append(q, x))
<1> DEFINE E == Elements(q) \union {x}
<1>1. q \in Seq(E)
  BY SeqMonotonic
<1>2. /\ Append(q, x) \in Seq(E) /\ Len(q) \in Nat /\ Len(Append(q, x)) = Len(q) + 1
      /\ \A i \in 1 .. Len(q) : Append(q, x)[i] = q[i]
      /\ Append(q, x)[Len(q) + 1] = x
      /\ DOMAIN q = 1 .. Len(q) /\ DOMAIN Append(q, x) = 1 .. Len(q) + 1
  BY <1>1, AppendProperties, LenProperties
<1>3. \A e \in E : e \in Elements(Append(q, x))
  <2>1. \A i \in 1 .. Len(q) + 1 : Append(q, x)[i] \in Elements(Append(q, x))
    BY <1>2 DEF Elements
  <2>2. x \in Elements(Append(q, x))
    BY <1>2, <2>1
  <2>3. ASSUME NEW e \in Elements(q) PROVE e \in Elements(Append(q, x))
    <3>1. PICK i \in 1 .. Len(q) : e = q[i]
      BY <1>2 DEF Elements
    <3>2. i \in 1 .. Len(q) + 1
      BY <1>2
    <3> QED
      BY <1>2, <2>1, <3>1, <3>2
  <2> QED
    BY <2>2, <2>3
<1>4. Append(q, x) \in Seq(Elements(Append(q, x)))
  BY <1>2, <1>3, SeqMonotonic
<1>5. ASSUME x \notin Elements(q), Distinct(q) PROVE Distinct(Append(q, x))
  <2>1. \A i \in 1 .. Len(q) : q[i] # x
    BY <1>2, <1>5 DEF Elements
  <2>2. \A i \in 1 .. Len(q) + 1 : i \in 1 .. Len(q) \/ i = Len(q) + 1
    BY <1>2
  <2> QED
    BY <1>2, <1>5, <2>1, <2>2 DEF Distinct
<1> QED
  BY <1>2, <1>4, <1>5

\* A sequence of one element, and of none.
LEMMA ShortSequences ==
  /\ \A x : <<x>> \in Seq(Elements(<<x>>)) /\ Len(<<x>>) = 1 /\ <<x>>[1] = x
  /\ \A T : << >> \in Seq(T)
  /\ Len(<< >>) = 0
<1>1. ASSUME NEW x PROVE <<x>> \in Seq(Elements(<<x>>)) /\ Len(<<x>>) = 1 /\ <<x>>[1] = x
  <2>1. <<x>>[1] = x /\ DOMAIN <<x>> = 1 .. 1
    OBVIOUS
  <2>2. x \in Elements(<<x>>)
    BY <2>1 DEF Elements
  <2> QED
    BY <2>1, <2>2
<1> QED
  BY <1>1, EmptySeq

\* A target that a choice leads to is recorded.
LEMMA TargetSound ==
  ASSUME BuildInv, stage = "forward", source <= Len(states),
         UNCHANGED <<config, token, stage, view, states, tape, backward, result>>,
         NEW id \in Nat, Target(id),
         NEW s, s = source, NEW choice, choice = Choice, Leads(s, choice, id)',
         next_ids' \in Seq(Elements(next_ids')), Distinct(next_ids'),
         Len(next_ids) <= Len(next_ids'), \A i \in 1 .. Len(next_ids) : next_ids'[i] = next_ids[i],
         \A i \in 1 .. Len(next_ids') : i \in 1 .. Len(next_ids) \/ i = id
  PROVE  BuildInv'
<1> USE DEF backward
<1>1. Len(edges) \in Nat /\ Levels = 1 .. Len(edges)
  BY EdgesTyped
<1>2. LayerSound /\ TapeSound /\ AllReached /\ TrailsTellRuns /\ NoneFailed
      /\ FirstState # {} /\ previous = << >> /\ roots = << >>
  BY DEF BuildInv
<1>3. Len(tape) \in Nat /\ Len(tape) <= Len(edges)
  BY <1>2, LenProperties DEF TapeSound
<1>4. edges' = edges /\ steps' = steps /\ problem' = problem /\ FirstState' = FirstState
  BY ConfigStays DEF config, plan
<1>5. PlanSound' /\ ResultSound'
  BY PlanSoundStays, ResultStays DEF BuildInv, PlanSound
<1>6. TapeSound' /\ AllReached'
  <2>1. \A k : LayerLength(k)' = LayerLength(k)
    BY DEF LayerLength
  <2> QED
    BY <1>2, <2>1, TapeStays
<1>7. TrailsTellRuns' /\ NoneFailed'
  BY <1>1, <1>2, <1>3, TellingStays
<1>8. Len(next_ids) \in Nat /\ Len(next_ids') \in Nat /\ Len(states) \in Nat
  BY <1>2, LenProperties DEF LayerSound
<1>9. \A r, c, i : Leads(r, c, i) => Leads(r, c, i)'
  BY <1>8, LeadsStay
<1>10. Layer' = Layer /\ view' = BoundaryView(Layer)'
  <2>1. Layer' = Layer
    BY DEF Layer
  <2>2. PICK n : n = Layer
    OBVIOUS
  <2>3. BoundaryView(Layer)' = BoundaryView(n)'
    BY <2>1, <2>2 DEF BoundaryView, Boundary, Needed
  <2> QED
    BY <1>2, <2>1, <2>2, <2>3, ConfigStays DEF LayerSound
<1>11. layer \in Seq(Rows) /\ targets \in Seq(Nat) /\ source \in 1 .. Len(states) + 1 /\ Len(layer) = source - 1
  BY <1>2 DEF LayerSound
<1>12. \/ Len(targets) = 0 /\ targets = << >>
       \/ Len(targets) = 1 /\ targets # << >>
  <2>1. Len(targets) \in Nat /\ Len(targets) <= 1
    BY <1>2, <1>11, LenProperties DEF LayerSound
  <2>2. PICK n \in Nat : n = Len(targets)
    BY <2>1
  <2>3. n = 0 \/ n = 1
    BY <2>1, <2>2
  <2> QED
    BY <1>11, <2>2, <2>3, EmptySeq, ShortSequences
<1>13. LayerSound'
  <2>1. CASE Len(targets) = 0
    <3>1. targets' = <<id>> /\ layer' = layer /\ source' = source
      BY <2>1 DEF Target
    <3>2. choice = "exclude"
      BY <2>1 DEF Choice, BothChoices
    <3>3. targets' \in Seq(Nat) /\ Len(targets') = 1 /\ targets'[1] = id /\ targets' # << >>
      BY <3>1, ShortSequences
    <3>4. PairLeads'
      <4>1. targets'[1] = id /\ source' = s /\ source' <= Len(states')
        BY <3>1, <3>3
      <4> QED
        BY <3>2, <4>1 DEF PairLeads, Leads
    <3>5. \A i \in 1 .. Len(next_ids') : Targeted(i)'
      <4> TAKE i \in 1 .. Len(next_ids')
      <4>1. CASE i = id
        BY <3>3, <4>1 DEF Targeted
      <4>2. CASE i \in 1 .. Len(next_ids)
        <5>1. Targeted(i)
          BY <1>2, <4>2 DEF LayerSound, AllTargeted
        <5> QED
          BY <1>12, <2>1, <3>1, <5>1 DEF Targeted
      <4> QED
        BY <4>1, <4>2
    <3>6. RowsLead'
      <4> SUFFICES ASSUME NEW r \in 1 .. Len(layer)
                   PROVE  Leads(r, "exclude", layer[r].exclude)' /\ Leads(r, "include", layer[r].include)'
        BY <3>1 DEF RowsLead
      <4>1. PICK t, u : t = layer[r].exclude /\ u = layer[r].include
        OBVIOUS
      <4>2. Leads(r, "exclude", t)' /\ Leads(r, "include", u)'
        BY <1>2, <1>9, <4>1 DEF LayerSound, RowsLead
      <4> QED
        BY <3>1, <4>1, <4>2 DEF Leads
    <3>7. AllTargeted'
      BY <3>5 DEF AllTargeted
    <3> QED
      BY <1>2, <1>4, <1>10, <1>11, <3>1, <3>3, <3>4, <3>6, <3>7 DEF LayerSound, Elements
  <2>2. CASE Len(targets) = 1
    <3> DEFINE row == [exclude |-> targets[1], include |-> id]
    <3>1. targets' = << >> /\ layer' = Append(layer, row) /\ source' = source + 1
      BY <2>2 DEF Target
    <3>2. choice = "include"
      BY <2>2 DEF Choice, BothChoices
    <3>3. targets[1] \in Nat /\ Leads(source, "exclude", targets[1])
      BY <1>2, <1>11, <1>12, <2>2, ElementOfSeq DEF LayerSound, PairLeads
    <3>4. row \in Rows
      BY <3>3 DEF Rows
    <3>5. /\ layer' \in Seq(Rows) /\ Len(layer') = source /\ Len(layer) \in Nat
          /\ \A r \in 1 .. Len(layer) : layer'[r] = layer[r]
          /\ layer'[source] = row
      <4> HIDE DEF row
      <4>1. Len(layer) \in Nat /\ Len(layer) + 1 = source
        BY <1>8, <1>11, LenProperties
      <4> QED
        BY <1>11, <3>1, <3>4, <4>1, AppendProperties
    <3>6. RowsLead'
      <4> SUFFICES ASSUME NEW r \in 1 .. Len(layer')
                   PROVE  Leads(r, "exclude", layer[r].exclude)' /\ Leads(r, "include", layer[r].include)'
        BY DEF RowsLead
      <4>1. CASE r = s
        <5>1. layer'[r].exclude = targets[1] /\ layer'[r].include = id
          BY <3>5, <4>1
        <5>2. Leads(s, "exclude", targets[1])
          BY <3>3
        <5>3. PICK t : t = targets[1]
          OBVIOUS
        <5>4. Leads(s, "exclude", t)' /\ Leads(s, "include", id)'
          BY <1>9, <3>2, <5>2, <5>3
        <5> QED
          BY <4>1, <5>1, <5>3, <5>4 DEF Leads
      <4>2. CASE r # s
        <5>1. r \in 1 .. Len(layer)
          BY <1>8, <1>11, <3>5, <4>2
        <5>2. layer'[r] = layer[r]
          BY <3>5, <5>1
        <5>3. Leads(r, "exclude", layer[r].exclude) /\ Leads(r, "include", layer[r].include)
          BY <1>2, <5>1 DEF LayerSound, RowsLead
        <5>4. PICK t, u : t = layer[r].exclude /\ u = layer[r].include
          OBVIOUS
        <5>5. Leads(r, "exclude", t)' /\ Leads(r, "include", u)'
          BY <1>9, <5>3, <5>4
        <5> QED
          BY <5>2, <5>4, <5>5 DEF Leads
      <4> QED
        BY <4>1, <4>2
    <3>7. \A i \in 1 .. Len(next_ids') : Targeted(i)'
      <4> TAKE i \in 1 .. Len(next_ids')
      <4>1. source \in 1 .. Len(layer') /\ Len(layer) <= Len(layer')
        BY <1>8, <1>11, <3>5
      <4>2. CASE i = id
        <5>1. layer'[source].include = i
          BY <3>5, <4>2
        <5> QED
          BY <4>1, <5>1 DEF Targeted
      <4>3. CASE i \in 1 .. Len(next_ids)
        <5>1. Targeted(i)
          BY <1>2, <4>3 DEF LayerSound, AllTargeted
        <5>2. CASE \E r \in 1 .. Len(layer) : layer[r].exclude = i \/ layer[r].include = i
          <6>1. PICK r \in 1 .. Len(layer) : layer[r].exclude = i \/ layer[r].include = i
            BY <5>2
          <6>2. layer'[r] = layer[r] /\ r \in 1 .. Len(layer')
            BY <3>5, <4>1, <6>1
          <6> QED
            BY <6>1, <6>2 DEF Targeted
        <5>3. CASE targets[1] = i
          <6>1. layer'[source].exclude = i
            BY <3>5, <5>3
          <6> QED
            BY <4>1, <6>1 DEF Targeted
        <5> QED
          BY <5>1, <5>2, <5>3 DEF Targeted
      <4> QED
        BY <4>2, <4>3
    <3>8. targets' \in Seq(Nat) /\ Len(targets') = 0
      BY <3>1, ShortSequences
    <3>9. source' \in 1 .. Len(states') + 1
      BY <1>8, <1>11, <3>1
    <3>10. PairLeads' /\ AllTargeted'
      BY <3>1, <3>7 DEF PairLeads, AllTargeted
    <3>11. Len(layer') = source' - 1
      BY <1>8, <1>11, <3>1, <3>5
    <3> QED
      BY <1>2, <1>4, <1>10, <3>5, <3>6, <3>8, <3>9, <3>10, <3>11 DEF LayerSound, Elements
  <2> QED
    BY <1>12, <2>1, <2>2
<1> QED
  BY <1>2, <1>4, <1>5, <1>6, <1>7, <1>13 DEF BuildInv

\* The candidate is what follows the state at work in its run.
LEMMA CandidateFollows ==
  ASSUME BuildInv, CanTry
  PROVE  /\ stage = "forward" /\ source <= Len(states)
         /\ Candidate = Follow({states[source]}, Layer, Choice) /\ IsOption(Candidate)
         /\ ~TransitionFails(problem, states[source], steps[Layer], Choice)
<1>1. stage = "forward" /\ source <= Len(states) /\ ~Fails
  BY DEF CanTry, ToTry, CanBranch, ToBranch
<1>2. view = BoundaryView(Layer)
  BY <1>1 DEF BuildInv, LayerSound
<1>3. Follow({states[source]}, Layer, Choice) =
        Canonical(Transition(problem, states[source], steps[Layer], Choice), BoundaryView(Layer))
  BY FollowOption
<1>4. IsOption(Candidate)
  BY CanonicalIsOption DEF Candidate
<1> QED
  BY <1>1, <1>2, <1>3, <1>4 DEF Candidate, Fails

\* A branch that is tried leads to its target: 0, the state it is merged with,
\* or the state it registers.
LEMMA BranchSound ==
  ASSUME BuildInv, RejectBranch \/ MergeBranch \/ RegisterState
  PROVE  BuildInv'
<1> USE DEF backward
<1>1. CanTry /\ UNCHANGED <<config, token, stage, view, states, tape, backward, result>>
  BY DEF RejectBranch, MergeBranch, RegisterState
<1>2. /\ stage = "forward" /\ source <= Len(states)
      /\ Candidate = Follow({states[source]}, Layer, Choice) /\ IsOption(Candidate)
      /\ ~TransitionFails(problem, states[source], steps[Layer], Choice)
  BY <1>1, CandidateFollows
<1>3. LayerSound
  BY <1>2 DEF BuildInv
<1>4. next_ids \in Seq(Elements(next_ids)) /\ Distinct(next_ids) /\ Len(next_ids) \in Nat
      /\ DOMAIN next_ids = 1 .. Len(next_ids)
  BY <1>3, LenProperties DEF LayerSound
<1>5. PICK s, choice, from : s = source /\ choice = Choice /\ from = {states[source]}
  OBVIOUS
<1>6. Layer' = Layer /\ steps' = steps /\ problem' = problem /\ states' = states
  BY <1>1 DEF Layer, config, plan
<1>7. Follow({states[s]}, Layer, choice)' = Candidate
  <2>1. Follow({states[s]}, Layer, choice)' = Follow(from, Layer, choice)'
    BY <1>5, <1>6 DEF Follow
  <2> QED
    BY <1>1, <1>2, <1>5, <2>1, FollowStays
<1>8. ~TransitionFails(problem, states[s], steps[Layer], choice)'
  BY <1>2, <1>5, <1>6
<1>9. CASE RejectBranch
  <2>1. Candidate = {} /\ Target(0) /\ next_ids' = next_ids
    BY <1>9 DEF RejectBranch
  <2>2. Leads(s, choice, 0)'
    <3>1. (0 \in 0 .. Len(next_ids))'
      BY <1>4, <2>1
    <3>2. (Follow({states[s]}, Layer, choice) = IF 0 = 0 THEN {} ELSE {next_ids[0]})'
      BY <1>7, <2>1
    <3>3. (~TransitionFails(problem, states[s], steps[Layer], choice))'
      BY <1>8
    <3> QED
      BY <3>1, <3>2, <3>3 DEF Leads
  <2> QED
    BY <1>1, <1>2, <1>4, <1>5, <2>1, <2>2, TargetSound DEF Elements, Distinct
<1>10. CASE MergeBranch
  <2>1. PICK id \in DOMAIN next_ids : next_ids[id] \in Candidate /\ Target(id)
    BY <1>10 DEF MergeBranch
  <2>2. next_ids' = next_ids /\ id \in 1 .. Len(next_ids) /\ id \in Nat /\ id # 0
    BY <1>4, <1>10, <2>1 DEF MergeBranch
  <2>3. Candidate = {next_ids[id]}
    BY <1>2, <2>1 DEF IsOption
  <2>4. Leads(s, choice, id)'
    <3>1. (id \in 0 .. Len(next_ids))'
      BY <1>4, <2>2
    <3>2. (Follow({states[s]}, Layer, choice) = IF id = 0 THEN {} ELSE {next_ids[id]})'
      BY <1>7, <2>2, <2>3
    <3>3. (~TransitionFails(problem, states[s], steps[Layer], choice))'
      BY <1>8
    <3> QED
      BY <3>1, <3>2, <3>3 DEF Leads
  <2> QED
    BY <1>1, <1>2, <1>4, <1>5, <2>1, <2>2, <2>4, TargetSound DEF Elements, Distinct
<1>11. CASE RegisterState
  <2>1. PICK c \in NewState : next_ids' = Append(next_ids, c)
    BY <1>11 DEF RegisterState
  <2>2. PICK id \in Nat : id = Len(next_ids) + 1
    BY <1>4
  <2>3. Target(id)
    BY <1>11, <2>2 DEF RegisterState
  <2>4. c \in Candidate /\ c \notin Elements(next_ids)
    BY <2>1 DEF NewState
  <2>5. Candidate = {c}
    BY <1>2, <2>4 DEF IsOption
  <2>6. /\ next_ids' \in Seq(Elements(next_ids')) /\ Distinct(next_ids')
        /\ Len(next_ids') = id /\ next_ids'[id] = c
        /\ \A i \in 1 .. Len(next_ids) : next_ids'[i] = next_ids[i]
    BY <1>4, <2>1, <2>2, <2>4, AppendElements
  <2>7. Leads(s, choice, id)'
    <3>1. (id \in 0 .. Len(next_ids))'
      BY <2>6
    <3>2. id # 0
      BY <1>4, <2>2
    <3>3. (Follow({states[s]}, Layer, choice) = IF id = 0 THEN {} ELSE {next_ids[id]})'
      BY <1>7, <2>5, <2>6, <3>2
    <3>4. (~TransitionFails(problem, states[s], steps[Layer], choice))'
      BY <1>8
    <3> QED
      BY <3>1, <3>3, <3>4 DEF Leads
  <2>8. \A i \in 1 .. Len(next_ids') : i \in 1 .. Len(next_ids) \/ i = id
    BY <1>4, <2>2, <2>6
  <2>9. Len(next_ids) <= Len(next_ids')
    BY <1>4, <2>2, <2>6
  <2> QED
    BY <1>1, <1>2, <1>5, <2>2, <2>3, <2>6, <2>7, <2>8, <2>9, TargetSound
<1> QED
  BY <1>9, <1>10, <1>11

\* The first layer has one state: the canonical initial state.
LEMMA StartSound == BuildInv /\ Start => BuildInv'
<1> SUFFICES ASSUME BuildInv, Start PROVE BuildInv'
  OBVIOUS
<1> USE DEF backward
<1>1. /\ stage = "plan" /\ phase = "done"
      /\ view' = NextView(EmptyView, 1)
      /\ stage' = IF steps = << >> THEN "finalize" ELSE "forward"
      /\ UNCHANGED <<config, token, next_ids, source, targets, layer, tape, backward, result>>
  BY DEF Start, ToStart
<1>2. PICK initial \in FirstState : states' = <<initial>>
  BY DEF Start
<1>3. NothingBuilt
  BY <1>1 DEF BuildInv
<1>4. PlanDone /\ PlanDone'
  BY <1>1, WorkIsPlanned, PlanStays
<1>5. Len(edges) \in Nat /\ Levels = 1 .. Len(edges) /\ Len(steps) = Len(edges)
  BY <1>4, StepsOfPlan
<1>6. edges' = edges /\ steps' = steps /\ problem' = problem /\ FirstState' = FirstState /\ Levels' = Levels
  BY <1>1, ConfigStays DEF config, plan
<1>7. PlanSound' /\ ResultSound'
  BY <1>1, PlanSoundStays, ResultStays DEF BuildInv, PlanSound
<1>8. tape' = << >> /\ tape = << >> /\ Len(tape') = 0 /\ source' = 1 /\ targets' = << >> /\ layer' = << >>
      /\ next_ids' = << >> /\ roots' = << >> /\ previous' = << >>
  BY <1>1, <1>3 DEF NothingBuilt
<1>9. states' \in Seq(Elements(states')) /\ Len(states') = 1 /\ states'[1] = initial
  BY <1>2, ShortSequences
<1>10. LayerLength(1)' = 1
  BY <1>1, <1>8, <1>9 DEF LayerLength
<1>11. FirstState = {initial}
  BY CanonicalIsOption DEF FirstState, IsOption
<1>12. \A S : (Trail(tape, S)[0])' = 1
  BY <1>8, TrailUnfolds
<1>13. TapeSound'
  BY <1>5, <1>6, <1>8, <1>10, ShortSequences DEF TapeSound
<1>14. AllReached'
  <2>1. \A k \in 0 .. Len(tape') : k = 0
    BY <1>8
  <2>2. ASSUME NEW k \in 0 .. Len(tape'), NEW id \in 1 .. LayerLength(k + 1)'
        PROVE  \E S \in SUBSET Levels : (Trail(tape, S)[k])' = id
    <3>1. k = 0 /\ id = 1
      BY <1>10, <2>1
    <3>2. {} \in SUBSET Levels
      OBVIOUS
    <3> QED
      BY <1>12, <3>1, <3>2
  <2> QED
    BY <1>6, <2>2 DEF AllReached
<1>15. TrailsTellRuns'
  <2>1. ASSUME NEW S PROVE (Run(S)[Len(tape)])' = FirstState
    <3>1. Run(S)[0] = FirstState /\ (Run(S)[0])' = Run(S)[0]
      BY <1>1, <1>5, RunUnfolds, RunsStay
    <3> QED
      BY <1>8, <3>1
  <2>2. \A S : Destination(S)' = 1
    BY <1>8, <1>12 DEF Destination
  <2>3. ASSUME NEW S
        PROVE  (Run(S)[Len(tape)] = IF Destination(S) = 0 THEN {} ELSE {states[Destination(S)]})'
    <3>1. Destination(S)' = 1
      BY <2>2
    <3>2. {states'[1]} = FirstState
      BY <1>9, <1>11
    <3> QED
      BY <2>1, <3>1, <3>2
  <2> QED
    BY <2>3 DEF TrailsTellRuns
<1>16. NoneFailed'
  BY <1>8 DEF NoneFailed
<1>17. CASE steps = << >>
  <2>1. stage' = "finalize" /\ Len(edges) = 0
    BY <1>1, <1>5, <1>17
  <2>2. FinalSound'
    BY <1>6, <1>8, <1>9, <2>1, ShortSequences DEF FinalSound
  <2> QED
    BY <1>6, <1>7, <1>8, <1>11, <1>13, <1>14, <1>15, <1>16, <2>1, <2>2 DEF BuildInv
<1>18. CASE steps # << >>
  <2>1. stage' = "forward" /\ Len(edges) > 0
    <3>1. Len(steps) # 0
      <4>1. steps \in Seq(StepData)
        BY <1>4 DEF PlanDone, DInv, StepsExact
      <4> QED
        BY <1>18, <4>1, EmptySeq
    <3> QED
      BY <1>1, <1>5, <1>18, <3>1
  <2>2. view' = BoundaryView(Layer)'
    <3>1. 1 \in 1 .. Len(edges) /\ 1 - 1 = 0
      BY <1>5, <2>1
    <3>2. NextView(BoundaryView(0), 1) = BoundaryView(1)
      BY <1>4, <3>1, ViewAdvances
    <3>3. Layer' = 1
      BY <1>8 DEF Layer
    <3>4. BoundaryView(Layer)' = BoundaryView(1)'
      BY <3>3 DEF BoundaryView, Boundary, Needed
    <3> QED
      BY <1>1, <1>4, <3>2, <3>4, FirstView, ConfigStays
  <2>3. RowsLead' /\ PairLeads' /\ AllTargeted'
    BY <1>8 DEF RowsLead, PairLeads, AllTargeted
  <2>4. LayerSound'
    BY <1>6, <1>8, <1>9, <2>1, <2>2, <2>3, ShortSequences DEF LayerSound, Distinct
  <2> QED
    BY <1>6, <1>7, <1>8, <1>11, <1>13, <1>14, <1>15, <1>16, <2>1, <2>4 DEF BuildInv
<1> QED
  BY <1>17, <1>18

\* The rows of the layer become part of the tape, and the states registered the
\* next layer: the trails and the runs go on together.
LEMMA EndLayerSound == BuildInv /\ EndLayer => BuildInv'
<1> SUFFICES ASSUME BuildInv, EndLayer PROVE BuildInv'
  OBVIOUS
<1> USE DEF backward
<1>1. /\ stage = "forward" /\ source = Len(states) + 1
      /\ states' = next_ids /\ next_ids' = << >> /\ tape' = Append(tape, layer) /\ layer' = << >>
      /\ source' = 1 /\ view' = NextView(view, Layer + 1)
      /\ stage' = IF Layer = Len(steps) THEN "finalize" ELSE "forward"
      /\ UNCHANGED <<config, token, targets, backward, result>>
  BY DEF EndLayer
<1>2. LayerSound /\ TapeSound /\ AllReached /\ TrailsTellRuns /\ NoneFailed
      /\ FirstState # {} /\ previous = << >> /\ roots = << >>
  BY <1>1 DEF BuildInv
<1>3. PlanDone /\ PlanDone'
  BY <1>1, WorkIsPlanned, PlanStays
<1>4. Len(edges) \in Nat /\ Levels = 1 .. Len(edges) /\ Len(steps) = Len(edges)
  BY <1>3, StepsOfPlan
<1>5. edges' = edges /\ steps' = steps /\ problem' = problem /\ FirstState' = FirstState /\ Levels' = Levels
  BY <1>1, ConfigStays DEF config, plan
<1>6. PICK m : m = Len(tape)
  OBVIOUS
<1>7. m \in Nat /\ m < Len(edges) /\ Layer = m + 1 /\ tape \in Seq(Seq(Rows))
  BY <1>2, <1>6, LenProperties DEF LayerSound, TapeSound, Layer
<1>8. /\ layer \in Seq(Rows) /\ Len(layer) = Len(states) /\ Len(states) \in Nat
      /\ next_ids \in Seq(Elements(next_ids)) /\ Len(next_ids) \in Nat
  BY <1>1, <1>2, LenProperties DEF LayerSound
<1>9. targets = << >>
  BY <1>1, <1>2, <1>8 DEF LayerSound, PairLeads
<1>10. /\ tape' \in Seq(Seq(Rows)) /\ Len(tape') = m + 1 /\ tape'[m + 1] = layer
       /\ \A k \in 1 .. m : tape'[k] = tape[k]
  BY <1>1, <1>6, <1>7, <1>8, AppendProperties
<1>11. \A k \in 1 .. m + 1 : LayerLength(k)' = LayerLength(k)
  <2> TAKE k \in 1 .. m + 1
  <2>1. LayerLength(k)' = Len(tape'[k])
    BY <1>7, <1>10 DEF LayerLength
  <2>2. CASE k \in 1 .. m
    BY <1>6, <1>7, <1>10, <2>1, <2>2 DEF LayerLength
  <2>3. CASE k = m + 1
    <3>1. LayerLength(k) = Len(states)
      BY <1>1, <1>6, <1>7, <2>3 DEF LayerLength
    <3> QED
      BY <1>8, <1>10, <2>1, <2>3, <3>1
  <2> QED
    BY <1>7, <2>2, <2>3
<1>12. LayerLength(m + 2)' = Len(next_ids) /\ LayerLength(m + 1) = Len(states)
  <2>1. stage' # "backward" /\ ~(m + 2 <= m + 1) /\ ~(m + 1 <= m)
    BY <1>1, <1>7
  <2> QED
    BY <1>1, <1>6, <1>10, <2>1 DEF LayerLength
<1>13. ASSUME NEW r \in 1 .. Len(layer)
       PROVE  /\ Leads(r, "exclude", layer[r].exclude) /\ Leads(r, "include", layer[r].include)
              /\ layer[r].exclude \in 0 .. Len(next_ids) /\ layer[r].include \in 0 .. Len(next_ids)
  BY <1>2 DEF LayerSound, RowsLead, Leads
<1>14. TapeSound'
  <2>1. LayerLength(1)' = 1
    BY <1>2, <1>7, <1>11 DEF TapeSound
  <2>2. ASSUME NEW k \in 1 .. m + 1, NEW id \in 1 .. Len(tape'[k])
        PROVE  /\ tape'[k][id].exclude \in 0 .. LayerLength(k + 1)'
               /\ tape'[k][id].include \in 0 .. LayerLength(k + 1)'
    <3>1. CASE k \in 1 .. m
      <4>1. k + 1 \in 1 .. m + 1 /\ k \in 1 .. Len(tape) /\ id \in 1 .. Len(tape[k])
        BY <1>6, <1>7, <1>10, <2>2, <3>1
      <4>2. LayerLength(k + 1)' = LayerLength(k + 1)
        BY <1>11, <4>1
      <4> QED
        BY <1>2, <1>10, <3>1, <4>1, <4>2 DEF TapeSound
    <3>2. CASE k = m + 1
      <4>1. k + 1 = m + 2 /\ id \in 1 .. Len(layer) /\ tape'[k] = layer
        BY <1>7, <1>10, <2>2, <3>2
      <4> QED
        BY <1>12, <1>13, <4>1
    <3> QED
      BY <1>7, <3>1, <3>2
  <2>3. \A k \in 1 .. Len(tape') : \A id \in 1 .. Len(tape'[k]) :
          tape'[k][id].exclude \in 0 .. LayerLength(k + 1)' /\ tape'[k][id].include \in 0 .. LayerLength(k + 1)'
    BY <1>10, <2>2
  <2>4. Len(tape') <= Len(edges')
    BY <1>4, <1>5, <1>7, <1>10
  <2> QED
    BY <1>10, <2>1, <2>3, <2>4 DEF TapeSound
<1>15. ASSUME NEW S
       PROVE  /\ \A k \in 0 .. m : Trail(tape', S)[k] = Trail(tape, S)[k]
              /\ Trail(tape', S)[m + 1] = TrailNext(tape', S, m + 1, Trail(tape, S)[m])
  <2>1. \A k \in 1 .. m : tape'[k] = tape[k] /\ (k \in S <=> k \in S)
    BY <1>10
  <2>2. m <= Len(tape) /\ m <= Len(tape') /\ Len(tape) \in Nat /\ Len(tape') \in Nat
    BY <1>6, <1>7, <1>10
  <2>3. \A k \in 0 .. m : Trail(tape', S)[k] = Trail(tape, S)[k]
    BY <1>7, <2>1, <2>2, TrailsAgree
  <2>4. m + 1 \in 1 .. Len(tape') /\ (m + 1) - 1 = m /\ m \in 0 .. m
    BY <1>7, <1>10
  <2>5. Trail(tape', S)[m + 1] = TrailNext(tape', S, m + 1, Trail(tape', S)[m])
    BY <2>2, <2>4, TrailUnfolds
  <2> QED
    BY <2>3, <2>4, <2>5
<1>16. ASSUME NEW S
       PROVE  Trail(tape, S)[m] \in 0 .. Len(states)
  <2>1. Len(roots) \in Nat
    BY <1>2, ShortSequences
  <2>2. m \in 0 .. Len(tape)
    BY <1>6, <1>7
  <2> QED
    BY <1>2, <1>8, <1>12, <2>1, <2>2, TrailInRange
<1>17. ASSUME NEW S, NEW id, id = Trail(tape, S)[m], id # 0
       PROVE  \E t : /\ Trail(tape', S)[m + 1] = t
                     /\ Leads(id, ChoiceAt(S, m + 1), t)
                     /\ t \in 0 .. Len(next_ids)
  <2>1. id \in 1 .. Len(layer)
    BY <1>8, <1>16, <1>17
  <2>2. Trail(tape', S)[m + 1] = IF m + 1 \in S THEN layer[id].include ELSE layer[id].exclude
    BY <1>10, <1>15, <1>17 DEF TrailNext
  <2> QED
    BY <1>13, <2>1, <2>2 DEF ChoiceAt
<1>18. ASSUME NEW S, Trail(tape, S)[m] = 0
       PROVE  Trail(tape', S)[m + 1] = 0
  BY <1>15, <1>18 DEF TrailNext
<1>19. ASSUME NEW S \in SUBSET Levels
       PROVE  Run(S)[m] = IF Trail(tape, S)[m] = 0 THEN {} ELSE {states[Trail(tape, S)[m]]}
  BY <1>2, <1>6 DEF TrailsTellRuns, Destination
<1>20. \A S : \A k \in 0 .. Len(edges) : (Run(S)[k])' = Run(S)[k]
  BY <1>1, <1>4, RunsStay
<1>21. TrailsTellRuns'
  <2> SUFFICES ASSUME NEW S \in SUBSET Levels
               PROVE  (Run(S)[Len(tape)] = IF Destination(S) = 0 THEN {} ELSE {states[Destination(S)]})'
    BY <1>5 DEF TrailsTellRuns
  <2>1. (Run(S)[Len(tape)])' = Run(S)[m + 1]
    <3>1. m + 1 \in 0 .. Len(edges)
      BY <1>4, <1>7
    <3> QED
      BY <1>10, <1>20, <3>1
  <2>2. Run(S)[m + 1] = Follow(Run(S)[m], m + 1, ChoiceAt(S, m + 1))
    <3>1. m + 1 \in 1 .. Len(edges) /\ (m + 1) - 1 = m
      BY <1>4, <1>7
    <3> QED
      BY <1>4, <3>1, RunUnfolds DEF RunNext
  <2>3. Destination(S)' = Trail(tape', S)[m + 1]
    BY <1>10 DEF Destination
  <2>4. CASE Trail(tape, S)[m] = 0
    <3>1. Run(S)[m + 1] = {} /\ Destination(S)' = 0
      BY <1>18, <1>19, <2>2, <2>3, <2>4, FollowOption
    <3> QED
      BY <2>1, <3>1
  <2>5. CASE Trail(tape, S)[m] # 0
    <3>1. PICK id : id = Trail(tape, S)[m] /\ id # 0
      BY <2>5
    <3>2. PICK t : Trail(tape', S)[m + 1] = t /\ Leads(id, ChoiceAt(S, m + 1), t)
      BY <1>17, <3>1
    <3>3. Run(S)[m] = {states[id]}
      BY <1>19, <3>1
    <3>4. Run(S)[m + 1] = IF t = 0 THEN {} ELSE {next_ids[t]}
      BY <1>7, <2>2, <3>2, <3>3 DEF Leads
    <3>5. Destination(S)' = t
      BY <2>3, <3>2
    <3> QED
      BY <1>1, <2>1, <3>4, <3>5
  <2> QED
    BY <2>4, <2>5
<1>22. NoneFailed'
  <2> SUFFICES ASSUME NEW S \in SUBSET Levels, NEW k \in 1 .. m + 1, NEW s \in Run(S)[k - 1]
               PROVE  ~TransitionFails(problem, s, steps[k], ChoiceAt(S, k))
    <3>1. ASSUME NEW S, NEW k \in 1 .. m + 1 PROVE (Run(S)[k - 1])' = Run(S)[k - 1]
      <4>1. k - 1 \in 0 .. Len(edges)
        BY <1>4, <1>7
      <4> QED
        BY <1>20, <4>1
    <3> QED
      BY <1>5, <1>10, <3>1 DEF NoneFailed, ChoiceAt
  <2>1. CASE k \in 1 .. m
    BY <1>2, <1>6, <2>1 DEF NoneFailed
  <2>2. CASE k = m + 1
    <3>1. k - 1 = m
      BY <1>7, <2>2
    <3>2. PICK id : id = Trail(tape, S)[m]
      OBVIOUS
    <3>3. id # 0 /\ s = states[id]
      BY <1>19, <3>1, <3>2
    <3>4. PICK t : Leads(id, ChoiceAt(S, m + 1), t)
      BY <1>17, <3>2, <3>3
    <3> QED
      BY <1>7, <2>2, <3>3, <3>4 DEF Leads
  <2> QED
    BY <1>7, <2>1, <2>2
<1>23. AllReached'
  <2> SUFFICES ASSUME NEW k \in 0 .. m + 1, NEW id \in 1 .. LayerLength(k + 1)'
               PROVE  \E S \in SUBSET Levels : Trail(tape', S)[k] = id
    BY <1>5, <1>10 DEF AllReached
  <2>1. CASE k \in 0 .. m
    <3>1. k + 1 \in 1 .. m + 1 /\ k \in 0 .. Len(tape)
      BY <1>6, <1>7, <2>1
    <3>2. id \in 1 .. LayerLength(k + 1)
      BY <1>11, <3>1
    <3>3. PICK S \in SUBSET Levels : Trail(tape, S)[k] = id
      BY <1>2, <3>1, <3>2 DEF AllReached
    <3> QED
      BY <1>15, <2>1, <3>3
  <2>2. CASE k = m + 1
    <3>1. id \in 1 .. Len(next_ids)
      <4>1. k + 1 = m + 2
        BY <1>7, <2>2
      <4> QED
        BY <1>12, <4>1
    <3>2. PICK r \in 1 .. Len(layer) : layer[r].exclude = id \/ layer[r].include = id
      BY <1>2, <1>9, <3>1 DEF LayerSound, AllTargeted, Targeted
    <3>3. PICK choice \in {"exclude", "include"} :
            id = IF choice = "include" THEN layer[r].include ELSE layer[r].exclude
      <4>1. CASE layer[r].exclude = id
        BY <4>1
      <4>2. CASE layer[r].include = id
        BY <4>2
      <4> QED
        BY <3>2, <4>1, <4>2
    <3>4. r \in 1 .. LayerLength(m + 1) /\ m \in 0 .. Len(tape) /\ r # 0
      BY <1>6, <1>7, <1>8, <1>12
    <3>5. PICK S \in SUBSET Levels : Trail(tape, S)[m] = r /\ ChoiceAt(S, m + 1) = choice
      BY <1>2, <1>4, <1>7, <3>4, ReachedWith
    <3>6. Trail(tape', S)[m + 1] = IF m + 1 \in S THEN layer[r].include ELSE layer[r].exclude
      BY <1>10, <1>15, <3>4, <3>5 DEF TrailNext
    <3>7. m + 1 \in S <=> choice = "include"
      BY <3>5 DEF ChoiceAt
    <3> QED
      BY <2>2, <3>3, <3>6, <3>7
  <2> QED
    BY <1>7, <2>1, <2>2
<1>24. stage' \in {"forward", "finalize"}
  BY <1>1
<1>25. PlanSound' /\ ResultSound'
  BY <1>1, <1>24, PlanSoundStays, ResultStays DEF BuildInv, PlanSound
<1>26. CASE Layer = Len(steps)
  <2>1. stage' = "finalize" /\ Len(tape') = Len(edges')
    BY <1>1, <1>4, <1>5, <1>7, <1>10, <1>26
  <2>2. FinalSound'
    <3>1. states' \in Seq(Elements(states'))
      BY <1>1, <1>8
    <3>2. roots' \in Seq({Zero, Unit}) /\ Len(roots') = 0 /\ roots' = << >>
      BY <1>1, <1>2, ShortSequences
    <3>3. source' \in 1 .. Len(states') + 1 /\ Len(roots') = source' - 1
      BY <1>1, <1>8, <3>2
    <3> QED
      BY <2>1, <3>1, <3>2, <3>3 DEF FinalSound
  <2> QED
    BY <1>1, <1>2, <1>5, <1>14, <1>21, <1>22, <1>23, <1>25, <2>1, <2>2 DEF BuildInv
<1>27. CASE Layer # Len(steps)
  <2>1. stage' = "forward" /\ Len(tape') < Len(edges')
    BY <1>1, <1>4, <1>5, <1>7, <1>10, <1>27
  <2>2. view' = BoundaryView(Layer)'
    <3>1. m + 2 \in 1 .. Len(edges) /\ (m + 2) - 1 = m + 1 /\ Layer + 1 = m + 2
      BY <1>4, <1>7, <1>27
    <3>2. NextView(BoundaryView(m + 1), m + 2) = BoundaryView(m + 2)
      BY <1>3, <3>1, ViewAdvances
    <3>3. view = BoundaryView(m + 1)
      BY <1>2, <1>7 DEF LayerSound
    <3>4. PICK n : n = m + 2
      OBVIOUS
    <3>5. Layer' = n
      BY <1>7, <1>10, <3>4 DEF Layer
    <3>6. BoundaryView(Layer)' = BoundaryView(n)'
      BY <3>5 DEF BoundaryView, Boundary, Needed
    <3> QED
      BY <1>1, <3>1, <3>2, <3>3, <3>4, <3>6, ConfigStays
  <2>3. RowsLead' /\ PairLeads' /\ AllTargeted'
    BY <1>1, <1>9, ShortSequences DEF RowsLead, PairLeads, AllTargeted
  <2>4. states' \in Seq(Elements(states')) /\ next_ids' \in Seq(Elements(next_ids')) /\ Distinct(next_ids')
        /\ layer' \in Seq(Rows) /\ Len(layer') = 0 /\ targets' \in Seq(Nat) /\ Len(targets') = 0
    BY <1>1, <1>8, <1>9, ShortSequences DEF Distinct
  <2>5. source' \in 1 .. Len(states') + 1 /\ Len(layer') = source' - 1
    BY <1>1, <1>8, <2>4
  <2>6. LayerSound'
    <3>1. Len(targets') <= 1
      BY <2>4
    <3>2. (states \in Seq(Elements(states)))' /\ (next_ids \in Seq(Elements(next_ids)))' /\ Distinct(next_ids)'
      BY <2>4
    <3> QED
      BY <2>1, <2>2, <2>3, <2>4, <2>5, <3>1, <3>2 DEF LayerSound
  <2> QED
    BY <1>1, <1>2, <1>5, <1>14, <1>21, <1>22, <1>23, <1>25, <2>1, <2>6 DEF BuildInv
<1> QED
  BY <1>26, <1>27

----------------------------------------------------------------------------
(* The backward pass.                                                      *)

\* A final state that does not fail gets its terminal.
LEMMA FinalizeStateSound == BuildInv /\ FinalizeState => BuildInv'
<1> SUFFICES ASSUME BuildInv, FinalizeState PROVE BuildInv'
  OBVIOUS
<1> USE DEF forward
<1>1. /\ stage = "finalize" /\ source <= Len(states) /\ ~FinalizeFails(states[source])
      /\ roots' = Append(roots, IF Finalize(states[source]) THEN Unit ELSE Zero)
      /\ source' = source + 1
      /\ UNCHANGED <<config, token, stage, forward, previous, store, result>>
  BY DEF FinalizeState, ToFinalize
<1>2. FinalSound /\ TapeSound /\ AllReached /\ TrailsTellRuns /\ NoneFailed /\ FirstState # {} /\ previous = << >>
  BY <1>1 DEF BuildInv
<1>3. Len(edges) \in Nat /\ Levels = 1 .. Len(edges)
  BY EdgesTyped
<1>4. edges' = edges /\ FirstState' = FirstState
  BY <1>1, ConfigStays DEF config, plan
<1>5. Len(tape) \in Nat /\ Len(tape) <= Len(edges) /\ Len(states) \in Nat
  BY <1>2, LenProperties DEF TapeSound, FinalSound
<1>6. PlanSound' /\ ResultSound'
  BY <1>1, PlanSoundStays, ResultStays DEF BuildInv, PlanSound
<1>7. \A k : LayerLength(k)' = LayerLength(k)
  BY <1>1 DEF LayerLength
<1>8. TapeSound' /\ AllReached' /\ TrailsTellRuns' /\ NoneFailed'
  BY <1>1, <1>2, <1>3, <1>5, <1>7, TapeStays, TellingStays
<1>9. PICK x \in {Zero, Unit} : x = IF Finalize(states[source]) THEN Unit ELSE Zero
  OBVIOUS
<1>10. roots \in Seq({Zero, Unit}) /\ Len(roots) \in Nat /\ Len(roots) = source - 1 /\ source \in 1 .. Len(states) + 1
  BY <1>2, LenProperties DEF FinalSound
<1>11. /\ roots' \in Seq({Zero, Unit}) /\ Len(roots') = Len(roots) + 1 /\ roots'[Len(roots) + 1] = x
       /\ \A id \in 1 .. Len(roots) : roots'[id] = roots[id]
  BY <1>1, <1>9, <1>10, AppendProperties
<1>12. FinalSound'
  <2>1. ASSUME NEW id \in 1 .. Len(roots')
        PROVE  ~FinalizeFails(states[id]) /\ roots'[id] = IF Finalize(states[id]) THEN Unit ELSE Zero
    <3>1. CASE id \in 1 .. Len(roots)
      BY <1>2, <1>11, <3>1 DEF FinalSound
    <3>2. CASE id = Len(roots) + 1
      <4>1. id = source
        BY <1>10, <3>2
      <4> QED
        BY <1>1, <1>9, <1>11, <3>2, <4>1
    <3> QED
      BY <1>10, <1>11, <3>1, <3>2
  <2>2. source' \in 1 .. Len(states') + 1 /\ Len(roots') = source' - 1
    BY <1>1, <1>5, <1>10, <1>11
  <2>3. (states \in Seq(Elements(states)))' /\ Len(tape') = Len(edges')
    BY <1>1, <1>2, <1>4 DEF FinalSound, Elements
  <2> QED
    BY <1>1, <1>11, <2>1, <2>2, <2>3 DEF FinalSound
<1> QED
  BY <1>1, <1>2, <1>4, <1>6, <1>8, <1>12 DEF BuildInv

\* No choice is left after the last level.
LEMMA LastCompletions ==
  ASSUME Levels = 1 .. Len(edges), Len(edges) \in Nat, NEW S \in SUBSET Levels
  PROVE  Completions(S, Len(edges)) = IF RunAccepts(S) THEN Unit ELSE Zero
<1>1. {i \in Levels : i > Len(edges)} = {}
  OBVIOUS
<1>2. {i \in S : i <= Len(edges)} = S
  <2>1. \A i \in S : i \in 1 .. Len(edges)
    OBVIOUS
  <2>2. \A i \in S : i <= Len(edges)
    BY <2>1
  <2> QED
    BY <2>2
<1>3. \A T \in SUBSET {i \in Levels : i > Len(edges)} : T = {} /\ S \union T = S
  BY <1>1
<1>4. {} \in SUBSET {i \in Levels : i > Len(edges)}
  OBVIOUS
<1>5. Completions(S, Len(edges)) = {T \in SUBSET {i \in Levels : i > Len(edges)} : RunAccepts(S \union T)}
  BY <1>2 DEF Completions
<1>6. CASE RunAccepts(S)
  <2>1. RunAccepts(S \union {})
    <3>1. S \union {} = S
      OBVIOUS
    <3> QED
      BY <1>6, <3>1
  <2> QED
    BY <1>3, <1>4, <1>5, <1>6, <2>1, Zenon DEF Unit
<1>7. CASE ~RunAccepts(S)
  <2>1. \A T \in SUBSET {i \in Levels : i > Len(edges)} : ~RunAccepts(S \union T)
    BY <1>3, <1>7, Zenon
  <2> QED
    BY <1>5, <1>7, <2>1 DEF Zero
<1> QED
  BY <1>6, <1>7

\* The terminals are the families of the completions of the final states.
LEMMA EndFinalizeSound == BuildInv /\ EndFinalize => BuildInv'
<1> SUFFICES ASSUME BuildInv, EndFinalize PROVE BuildInv'
  OBVIOUS
<1> USE DEF forward, backward
<1>1. /\ stage = "finalize" /\ source = Len(states) + 1 /\ stage' = "backward" /\ source' = 1
      /\ UNCHANGED <<config, token, forward, backward, stats, result>>
  BY DEF EndFinalize
<1>2. FinalSound /\ TapeSound /\ AllReached /\ TrailsTellRuns /\ NoneFailed /\ FirstState # {} /\ previous = << >>
  BY <1>1 DEF BuildInv
<1>3. Len(edges) \in Nat /\ Levels = 1 .. Len(edges)
  BY EdgesTyped
<1>4. edges' = edges /\ FirstState' = FirstState /\ Levels' = Levels
  BY <1>1, ConfigStays DEF config, plan
<1>5. Len(tape) \in Nat /\ Len(tape) = Len(edges) /\ Len(states) \in Nat /\ Len(roots) \in Nat /\ Len(roots) = Len(states)
      /\ tape \in Seq(Seq(Rows))
  BY <1>1, <1>2, LenProperties DEF TapeSound, FinalSound
<1>6. PlanSound' /\ ResultSound'
  BY <1>1, PlanSoundStays, ResultStays DEF BuildInv, PlanSound
<1>7. \A k : LayerLength(k)' = LayerLength(k)
  BY <1>1, <1>5 DEF LayerLength
<1>8. TapeSound' /\ AllReached'
  BY <1>1, <1>2, <1>7, TapeStays
<1>9. ASSUME NEW S \in SUBSET Levels
      PROVE  /\ Destination(S) \in 0 .. Len(states)
             /\ Run(S)[Len(edges)] = IF Destination(S) = 0 THEN {} ELSE {states[Destination(S)]}
  <2>1. Len(tape) \in 0 .. Len(tape) /\ ~(Len(tape) + 1 <= Len(tape))
    BY <1>5
  <2>2. LayerLength(Len(tape) + 1) = Len(states)
    BY <1>1, <2>1 DEF LayerLength
  <2>3. Destination(S) \in 0 .. Len(states)
    BY <1>2, <1>5, <2>1, <2>2, TrailInRange DEF Destination
  <2> QED
    BY <1>2, <1>5, <2>3 DEF TrailsTellRuns
<1>10. \A id \in 1 .. Len(states) :
         ~FinalizeFails(states[id]) /\ roots[id] = IF Finalize(states[id]) THEN Unit ELSE Zero
  BY <1>2, <1>5 DEF FinalSound
<1>11. NoRunFails
  <2> SUFFICES ASSUME NEW S \in SUBSET Levels PROVE ~RunFails(S)
    BY DEF NoRunFails
  <2>1. \A n \in Levels : \A s \in Run(S)[n - 1] : ~TransitionFails(problem, s, steps[n], ChoiceAt(S, n))
    BY <1>2, <1>3, <1>5 DEF NoneFailed
  <2>2. \A s \in Run(S)[Len(edges)] : ~FinalizeFails(s)
    <3>1. PICK id \in 0 .. Len(states) : id = Destination(S)
      BY <1>9
    <3>2. id = 0 \/ id \in 1 .. Len(states)
      BY <1>5
    <3>3. Run(S)[Len(edges)] = IF id = 0 THEN {} ELSE {states[id]}
      BY <1>9, <3>1
    <3> QED
      BY <1>10, <3>2, <3>3
  <2> QED
    BY <2>1, <2>2 DEF RunFails
<1>12. ASSUME NEW S \in SUBSET Levels
       PROVE  TargetRoot(Destination(S)) = Completions(S, Len(tape))
  <2>1. PICK id \in 0 .. Len(states) : id = Destination(S)
    BY <1>9
  <2>2. Completions(S, Len(tape)) = IF RunAccepts(S) THEN Unit ELSE Zero
    BY <1>3, <1>5, LastCompletions
  <2>3. CASE id = 0
    BY <1>9, <2>1, <2>2, <2>3 DEF TargetRoot, RunAccepts
  <2>4. CASE id # 0
    <3>1. RunAccepts(S) <=> Finalize(states[id])
      BY <1>9, <2>1, <2>4 DEF RunAccepts
    <3>2. id \in 1 .. Len(states)
      BY <1>5, <2>4
    <3> QED
      BY <1>10, <2>1, <2>2, <2>4, <3>1, <3>2 DEF TargetRoot
  <2> QED
    BY <2>3, <2>4
<1>13. RootsSound'
  <2>1. ASSUME NEW S \in SUBSET Levels
        PROVE  (TargetRoot(Destination(S)) = Completions(S, Len(tape)))'
    <3>1. TargetRoot(Destination(S))' = TargetRoot(Destination(S))
      BY <1>1 DEF TargetRoot, Destination
    <3>2. PICK n : n = Len(tape)
      OBVIOUS
    <3>3. Completions(S, Len(tape))' = Completions(S, n)'
      BY <1>1, <3>2 DEF Completions
    <3>4. Completions(S, n)' = Completions(S, n)
      BY <1>1, <1>3, CompletionsStay
    <3> QED
      BY <1>12, <3>1, <3>2, <3>3, <3>4
  <2>2. roots \in Seq(SUBSET SUBSET Levels) /\ previous \in Seq(SUBSET SUBSET Levels)
    <3>1. {Zero, Unit} \subseteq SUBSET SUBSET Levels
      BY DEF Zero, Unit
    <3>2. roots \in Seq({Zero, Unit})
      BY <1>2 DEF FinalSound
    <3> QED
      BY <1>2, <3>1, <3>2, SeqMonotonic, ShortSequences
  <2>3. NoRunFails'
    BY <1>1, <1>3, <1>11, CompletionsStay
  <2>4. tape # << >> => Len(tape[Len(tape)]) \in Nat
    <3>1. tape # << >> => Len(tape) \in 1 .. Len(tape)
      BY <1>5, EmptySeq
    <3> QED
      BY <1>5, <3>1, LenProperties, ElementOfSeq
  <2>5. Len(previous) = 0
    BY <1>2, ShortSequences
  <2> QED
    BY <1>1, <1>2, <1>4, <2>1, <2>2, <2>3, <2>4, <2>5 DEF RootsSound
<1> QED
  BY <1>1, <1>6, <1>8, <1>13 DEF BuildInv

\* The completions after the choices of one level more: those that leave the
\* level out and those that take it.
LEMMA CompletionsSplit ==
  ASSUME Levels = 1 .. Len(edges), Len(edges) \in Nat, NEW m \in Levels, NEW S \in SUBSET Levels
  PROVE  Completions(S, m - 1) = Completions(S \ {m}, m) \union {T \union {m} : T \in Completions(S \union {m}, m)}
<1> DEFINE Above(n) == {i \in Levels : i > n}
           Upto(R, n) == {i \in R : i <= n}
<1>1. m \in Nat /\ \A i \in Levels : i \in Nat
  OBVIOUS
<1>2. \A i \in Levels : (i > m - 1 <=> i > m \/ i = m) /\ (i <= m - 1 <=> i <= m /\ i # m)
  BY <1>1
<1>3. Above(m - 1) = Above(m) \union {m} /\ m \notin Above(m)
  BY <1>1, <1>2
<1>4. Upto(S \ {m}, m) = Upto(S, m - 1)
  BY <1>2
<1>5. Upto(S \union {m}, m) = Upto(S, m - 1) \union {m}
  <2>1. \A i \in S \union {m} : i <= m <=> (i \in S /\ i <= m - 1) \/ i = m
    BY <1>1, <1>2
  <2> QED
    BY <1>1, <1>2, <2>1
<1> DEFINE P0 == Upto(S, m - 1)
<1>6. /\ Completions(S, m - 1) = {T \in SUBSET Above(m - 1) : RunAccepts(P0 \union T)}
      /\ Completions(S \ {m}, m) = {T \in SUBSET Above(m) : RunAccepts(P0 \union T)}
      /\ Completions(S \union {m}, m) = {T \in SUBSET Above(m) : RunAccepts((P0 \union {m}) \union T)}
  BY <1>4, <1>5 DEF Completions
<1> HIDE DEF Above, Upto, P0
<1>7. ASSUME NEW T \in Completions(S, m - 1)
      PROVE  T \in Completions(S \ {m}, m) \/ \E R \in Completions(S \union {m}, m) : T = R \union {m}
  <2>1. T \subseteq Above(m) \union {m} /\ RunAccepts(P0 \union T)
    BY <1>3, <1>6
  <2>2. CASE m \notin T
    <3>1. T \in SUBSET Above(m)
      BY <2>1, <2>2
    <3> QED
      BY <1>6, <2>1, <3>1
  <2>3. CASE m \in T
    <3>1. PICK R : R = T \ {m}
      OBVIOUS
    <3>2. R \in SUBSET Above(m) /\ T = R \union {m} /\ (P0 \union {m}) \union R = P0 \union T
      BY <2>1, <2>3, <3>1
    <3>3. R \in Completions(S \union {m}, m)
      BY <1>6, <2>1, <3>2
    <3> QED
      BY <3>2, <3>3
  <2> QED
    BY <2>2, <2>3
<1>8. ASSUME NEW T \in Completions(S \ {m}, m)
      PROVE  T \in Completions(S, m - 1)
  BY <1>3, <1>6
<1>9. ASSUME NEW R \in Completions(S \union {m}, m)
      PROVE  R \union {m} \in Completions(S, m - 1)
  <2>1. R \in SUBSET Above(m) /\ RunAccepts((P0 \union {m}) \union R)
    BY <1>6
  <2>2. (P0 \union {m}) \union R = P0 \union (R \union {m})
    OBVIOUS
  <2>3. R \union {m} \in SUBSET Above(m - 1)
    BY <1>3, <2>1
  <2> QED
    BY <1>6, <2>1, <2>2, <2>3
<1> DEFINE X == Completions(S \ {m}, m)
           Y == Completions(S \union {m}, m)
           Z == Completions(S, m - 1)
           Taken == {R \union {m} : R \in Y}
<1>10. \A T \in Z : T \in X \/ \E R \in Y : T = R \union {m}
  BY <1>7
<1>11. (\A T \in X : T \in Z) /\ \A R \in Y : R \union {m} \in Z
  BY <1>8, <1>9
<1> HIDE DEF X, Y, Z
<1>12. \A T : T \in Taken <=> \E R \in Y : T = R \union {m}
  OBVIOUS
<1> HIDE DEF Taken
<1>13. Z = X \union Taken
  BY <1>10, <1>11, <1>12
<1> QED
  BY <1>13 DEF X, Y, Z, Taken

\* A decision on families is a family.
LEMMA DecisionType ==
  ASSUME NEW X, NEW m \in X, NEW e \in SUBSET SUBSET X, NEW i \in SUBSET SUBSET X
  PROVE  e \union {S \union {m} : S \in i} \in SUBSET SUBSET X
<1>1. \A S \in i : S \union {m} \in SUBSET X
  OBVIOUS
<1>2. {S \union {m} : S \in i} \subseteq SUBSET X
  BY <1>1
<1> QED
  BY <1>2

\* The root of a target, and the family of a row, are families.
LEMMA RowFamilyType ==
  ASSUME TapeSound, RootsSound, stage = "backward", tape # << >>, Levels = 1 .. Len(edges), Len(edges) \in Nat,
         NEW id \in 1 .. Len(tape[Len(tape)])
  PROVE  RowFamily(tape[Len(tape)][id]) \in SUBSET SUBSET Levels
<1>1. tape \in Seq(Seq(Rows)) /\ Len(tape) \in Nat /\ Len(tape) \in 1 .. Len(tape) /\ Len(tape) <= Len(edges)
  BY LenProperties, EmptySeq DEF TapeSound
<1>2. Len(tape) \in Levels
  BY <1>1
<1>3. LayerLength(Len(tape) + 1) = Len(roots)
  <2>1. ~(Len(tape) + 1 <= Len(tape))
    BY <1>1
  <2> QED
    BY <2>1 DEF LayerLength
<1>4. roots \in Seq(SUBSET SUBSET Levels) /\ Len(roots) \in Nat
  BY LenProperties DEF RootsSound
<1>5. \A t \in 0 .. Len(roots) : TargetRoot(t) \in SUBSET SUBSET Levels
  <2> TAKE t \in 0 .. Len(roots)
  <2>1. CASE t = 0
    BY <2>1 DEF TargetRoot, Zero
  <2>2. CASE t \in 1 .. Len(roots)
    BY <1>4, <2>2, ElementOfSeq DEF TargetRoot
  <2> QED
    BY <1>4, <2>1, <2>2
<1>6. tape[Len(tape)][id].exclude \in 0 .. Len(roots) /\ tape[Len(tape)][id].include \in 0 .. Len(roots)
  BY <1>1, <1>3 DEF TapeSound
<1>7. PICK e, i : e = TargetRoot(tape[Len(tape)][id].exclude) /\ i = TargetRoot(tape[Len(tape)][id].include)
  OBVIOUS
<1>8. e \in SUBSET SUBSET Levels /\ i \in SUBSET SUBSET Levels
  BY <1>5, <1>6, <1>7
<1>9. e \union {S \union {Len(tape)} : S \in i} \in SUBSET SUBSET Levels
  BY <1>2, <1>8, DecisionType
<1> QED
  BY <1>7, <1>9 DEF RowFamily

\* A row is reduced to its family.
LEMMA ReduceRowSound == BuildInv /\ ReduceRow => BuildInv'
<1> SUFFICES ASSUME BuildInv, ReduceRow PROVE BuildInv'
  OBVIOUS
<1> USE DEF forward
<1>1. /\ stage = "backward" /\ tape # << >> /\ source <= Len(tape[Len(tape)])
      /\ previous' = Append(previous, Decision) /\ source' = source + 1
      /\ UNCHANGED <<config, token, stage, forward, roots, result>>
  BY DEF ReduceRow, ToReduce
<1>2. RootsSound /\ TapeSound /\ AllReached
  BY <1>1 DEF BuildInv
<1>3. Len(edges) \in Nat /\ Levels = 1 .. Len(edges)
  BY EdgesTyped
<1>4. edges' = edges /\ FirstState' = FirstState /\ Levels' = Levels
  BY <1>1, ConfigStays DEF config, plan
<1>5. PlanSound' /\ ResultSound'
  BY <1>1, PlanSoundStays, ResultStays DEF BuildInv, PlanSound
<1>6. \A k : LayerLength(k)' = LayerLength(k)
  BY <1>1 DEF LayerLength
<1>7. TapeSound' /\ AllReached'
  BY <1>1, <1>2, <1>6, TapeStays
<1>8. /\ source \in 1 .. Len(tape[Len(tape)]) + 1 /\ Len(previous) = source - 1
      /\ previous \in Seq(SUBSET SUBSET Levels) /\ Len(previous) \in Nat
      /\ \A id \in 1 .. Len(previous) : previous[id] = RowFamily(tape[Len(tape)][id])
  BY <1>1, <1>2, LenProperties DEF RootsSound
<1>9. Len(tape[Len(tape)]) \in Nat
  <2>1. tape \in Seq(Seq(Rows)) /\ Len(tape) \in 1 .. Len(tape)
    BY <1>1, <1>2, LenProperties, EmptySeq DEF TapeSound
  <2> QED
    BY <2>1, LenProperties, ElementOfSeq
<1>10. Decision = RowFamily(tape[Len(tape)][source])
  BY DEF Decision, HiRoot, Row, RowFamily
<1>11. source \in 1 .. Len(tape[Len(tape)])
  BY <1>1, <1>8, <1>9
<1>12. Decision \in SUBSET SUBSET Levels
  BY <1>1, <1>2, <1>3, <1>10, <1>11, RowFamilyType
<1>13. /\ previous' \in Seq(SUBSET SUBSET Levels) /\ Len(previous') = Len(previous) + 1
       /\ previous'[Len(previous) + 1] = Decision
       /\ \A id \in 1 .. Len(previous) : previous'[id] = previous[id]
  BY <1>1, <1>8, <1>12, AppendProperties
<1>14. \A row : RowFamily(row)' = RowFamily(row)
  BY <1>1 DEF RowFamily, TargetRoot
<1>15. ASSUME NEW id \in 1 .. Len(previous')
       PROVE  previous'[id] = RowFamily(tape[Len(tape)][id])'
  <2>1. PICK row : row = tape[Len(tape)][id]
    OBVIOUS
  <2>2. RowFamily(tape[Len(tape)][id])' = RowFamily(row)'
    BY <1>1, <2>1 DEF RowFamily, TargetRoot
  <2>3. CASE id \in 1 .. Len(previous)
    BY <1>8, <1>13, <1>14, <2>1, <2>2, <2>3
  <2>4. CASE id = Len(previous) + 1
    <3>1. id = source
      BY <1>8, <2>4
    <3> QED
      BY <1>10, <1>13, <1>14, <2>1, <2>2, <2>4, <3>1
  <2> QED
    BY <1>8, <1>13, <2>3, <2>4
<1>16. ASSUME NEW S \in SUBSET Levels
       PROVE  (TargetRoot(Destination(S)) = Completions(S, Len(tape)))'
  <2>1. TargetRoot(Destination(S))' = TargetRoot(Destination(S))
    BY <1>1 DEF TargetRoot, Destination
  <2>2. PICK n : n = Len(tape)
    OBVIOUS
  <2>3. Completions(S, Len(tape))' = Completions(S, n)'
    BY <1>1, <2>2 DEF Completions
  <2>4. Completions(S, n)' = Completions(S, n)
    BY <1>1, <1>3, CompletionsStay
  <2> QED
    BY <1>2, <2>1, <2>2, <2>3, <2>4 DEF RootsSound
<1>17. NoRunFails'
  BY <1>1, <1>2, <1>3, CompletionsStay DEF RootsSound
<1>18. source' \in 1 .. Len(tape'[Len(tape')]) + 1 /\ Len(previous') = source' - 1
  BY <1>1, <1>8, <1>9, <1>11, <1>13
<1>19. RootsSound'
  <2>1. tape' # << >> /\ roots' = roots
    BY <1>1
  <2> QED
    BY <1>2, <1>4, <1>13, <1>15, <1>16, <1>17, <1>18, <2>1 DEF RootsSound
<1> QED
  BY <1>1, <1>5, <1>7, <1>19 DEF BuildInv

\* The family of a row is what completes the selections that lead to its state;
\* nothing completes those that lead nowhere.
LEMMA RowIsCompletions ==
  ASSUME TapeSound, RootsSound, stage = "backward", tape # << >>, Len(edges) \in Nat, Levels = 1 .. Len(edges),
         NEW m, m = Len(tape), NEW S \in SUBSET Levels, NEW id, id = Trail(tape, S)[m - 1]
  PROVE  IF id = 0 THEN Completions(S, m - 1) = Zero
         ELSE id \in 1 .. Len(tape[m]) /\ RowFamily(tape[m][id]) = Completions(S, m - 1)
<1>1. /\ tape \in Seq(Seq(Rows)) /\ m \in 1 .. Len(edges) /\ m \in Levels /\ m - 1 \in Nat
      /\ m \in 1 .. Len(tape) /\ Len(tape) \in Nat /\ m - 1 \in 0 .. Len(tape)
      /\ Len(tape[m]) \in Nat /\ Len(roots) \in Nat
  <2>1. tape \in Seq(Seq(Rows)) /\ m \in Nat /\ m # 0 /\ m <= Len(edges)
    BY LenProperties, EmptySeq DEF TapeSound
  <2>2. m \in 1 .. Len(tape)
    BY <2>1
  <2>3. tape[m] \in Seq(Rows)
    BY <2>1, <2>2, ElementOfSeq
  <2>4. Len(roots) \in Nat
    BY LenProperties DEF RootsSound
  <2> QED
    BY <2>1, <2>2, <2>3, <2>4, LenProperties
<1>2. PICK E, I : E = S \ {m} /\ I = S \union {m}
  OBVIOUS
<1>3. E \in SUBSET Levels /\ I \in SUBSET Levels /\ m \notin E /\ m \in I
  BY <1>1, <1>2
<1>4. Trail(tape, E)[m - 1] = id /\ Trail(tape, I)[m - 1] = id
  <2>1. PICK n \in Nat : n = m - 1
    BY <1>1
  <2>2. n \in Nat /\ n <= Len(tape) /\ Len(tape) \in Nat /\ n \in 0 .. n
    BY <1>1, <2>1
  <2>3. \A k \in 1 .. n : tape[k] = tape[k] /\ (k \in E <=> k \in S) /\ (k \in I <=> k \in S)
    BY <1>1, <1>2, <2>1
  <2>4. \A k \in 0 .. n : Trail(tape, E)[k] = Trail(tape, S)[k]
    BY ONLY <2>2, <2>3, TrailsAgree
  <2>5. \A k \in 0 .. n : Trail(tape, I)[k] = Trail(tape, S)[k]
    BY ONLY <2>2, <2>3, TrailsAgree
  <2> QED
    BY <2>1, <2>2, <2>4, <2>5
<1>5. Destination(E) = TrailNext(tape, E, m, id) /\ Destination(I) = TrailNext(tape, I, m, id)
  <2>1. \A T : Trail(tape, T)[m] = TrailNext(tape, T, m, Trail(tape, T)[m - 1])
    BY <1>1, TrailUnfolds
  <2> QED
    BY <1>4, <2>1 DEF Destination
<1>6. TargetRoot(Destination(E)) = Completions(E, m) /\ TargetRoot(Destination(I)) = Completions(I, m)
  BY <1>3 DEF RootsSound
<1>7. Completions(S, m - 1) = Completions(E, m) \union {T \union {m} : T \in Completions(I, m)}
  BY <1>1, <1>2, CompletionsSplit
<1>8. CASE id = 0
  <2>1. Completions(E, m) = {} /\ Completions(I, m) = {}
    BY <1>5, <1>6, <1>8 DEF TrailNext, TargetRoot, Zero
  <2> QED
    BY <1>7, <1>8, <2>1 DEF Zero
<1>9. CASE id # 0
  <2>1. LayerLength((m - 1) + 1) = Len(tape[m])
    BY <1>1 DEF LayerLength
  <2>2. Trail(tape, S)[m - 1] \in 0 .. LayerLength((m - 1) + 1)
    BY <1>1, TrailInRange
  <2>3. id \in 1 .. Len(tape[m])
    BY <1>1, <1>9, <2>1, <2>2
  <2>4. Destination(E) = tape[m][id].exclude /\ Destination(I) = tape[m][id].include
    BY <1>3, <1>5, <1>9 DEF TrailNext
  <2>5. RowFamily(tape[m][id]) =
          TargetRoot(tape[m][id].exclude) \union {T \union {m} : T \in TargetRoot(tape[m][id].include)}
    BY Zenon DEF RowFamily
  <2>6. RowFamily(tape[m][id]) = Completions(S, m - 1)
    BY <1>6, <1>7, <2>4, <2>5, Zenon
  <2> QED
    BY <1>9, <2>3, <2>6
<1> QED
  BY <1>8, <1>9

\* A layer whose rows are all reduced gives way to the one above it.
LEMMA EndReduceSound == BuildInv /\ EndReduce => BuildInv'
<1> SUFFICES ASSUME BuildInv, EndReduce PROVE BuildInv'
  OBVIOUS
<1>1. /\ stage = "backward" /\ tape # << >> /\ source = Len(tape[Len(tape)]) + 1
      /\ roots' = previous /\ previous' = << >> /\ tape' = SubSeq(tape, 1, Len(tape) - 1)
      /\ source' = 1
      /\ UNCHANGED <<config, token, stage, result>>
  BY DEF EndReduce
<1>2. RootsSound /\ TapeSound /\ AllReached
  BY <1>1 DEF BuildInv
<1>3. Len(edges) \in Nat /\ Levels = 1 .. Len(edges)
  BY EdgesTyped
<1>4. edges' = edges /\ FirstState' = FirstState /\ Levels' = Levels
  BY <1>1, ConfigStays DEF config, plan
<1>5. PlanSound' /\ ResultSound'
  BY <1>1, PlanSoundStays, ResultStays DEF BuildInv, PlanSound
<1>6. PICK m : m = Len(tape)
  OBVIOUS
<1>7. /\ tape \in Seq(Seq(Rows)) /\ m \in 1 .. Len(edges) /\ m \in Levels /\ m - 1 \in Nat
      /\ Len(tape[m]) \in Nat
  <2>1. tape \in Seq(Seq(Rows)) /\ m \in Nat /\ m # 0 /\ m <= Len(edges)
    BY <1>1, <1>2, <1>6, LenProperties, EmptySeq DEF TapeSound
  <2>2. m \in 1 .. Len(tape)
    BY <1>6, <2>1
  <2>3. tape[m] \in Seq(Rows)
    BY <1>6, <2>1, <2>2, ElementOfSeq
  <2> QED
    BY <1>3, <2>1, <2>3, LenProperties
<1>8. /\ tape' \in Seq(Seq(Rows)) /\ Len(tape') = m - 1
      /\ \A k \in 1 .. m - 1 : tape'[k] = tape[k]
  <2>1. 1 \in 1 .. Len(tape) + 1 /\ m - 1 \in 1 - 1 .. Len(tape)
    BY <1>6, <1>7
  <2>2. /\ SubSeq(tape, 1, m - 1) \in Seq(Seq(Rows))
        /\ Len(SubSeq(tape, 1, m - 1)) = m - 1
        /\ \A i \in 1 .. m - 1 : SubSeq(tape, 1, m - 1)[i] = tape[i]
    BY <1>6, <1>7, <2>1, SubSeqProperties
  <2>3. tape' = SubSeq(tape, 1, m - 1)
    BY <1>1, <1>6
  <2> QED
    BY <1>7, <2>2, <2>3
<1>9. /\ previous \in Seq(SUBSET SUBSET Levels) /\ Len(previous) = Len(tape[m])
      /\ roots \in Seq(SUBSET SUBSET Levels) /\ Len(roots) \in Nat
      /\ \A id \in 1 .. Len(tape[m]) : previous[id] = RowFamily(tape[m][id])
  BY <1>1, <1>2, <1>6, <1>7, LenProperties DEF RootsSound
<1>10. ASSUME NEW k \in 1 .. m
       PROVE  LayerLength(k)' = LayerLength(k)
  <2>1. LayerLength(k) = Len(tape[k])
    BY <1>6, <1>7 DEF LayerLength
  <2>2. CASE k = m
    <3>1. ~(k <= Len(tape')) /\ stage' = "backward"
      BY <1>1, <1>7, <1>8, <2>2
    <3>2. LayerLength(k)' = Len(roots')
      BY <3>1 DEF LayerLength
    <3> QED
      BY <1>1, <1>9, <2>1, <2>2, <3>2
  <2>3. CASE k # m
    <3>1. k \in 1 .. m - 1
      BY <1>7, <2>3
    <3>2. k <= Len(tape') /\ tape'[k] = tape[k]
      BY <1>7, <1>8, <3>1
    <3> QED
      BY <2>1, <3>2 DEF LayerLength
  <2> QED
    BY <2>2, <2>3
<1>11. TapeSound'
  <2>1. Len(tape') <= Len(edges') /\ LayerLength(1)' = 1
    BY <1>2, <1>4, <1>7, <1>8, <1>10 DEF TapeSound
  <2>2. ASSUME NEW k \in 1 .. Len(tape'), NEW id \in 1 .. Len(tape'[k])
        PROVE  (/\ tape[k][id].exclude \in 0 .. LayerLength(k + 1)
                /\ tape[k][id].include \in 0 .. LayerLength(k + 1))'
    <3>1. k \in 1 .. m - 1 /\ k \in 1 .. m /\ k + 1 \in 1 .. m
      BY <1>7, <1>8
    <3>2. tape'[k] = tape[k] /\ LayerLength(k + 1)' = LayerLength(k + 1)
      BY <1>8, <1>10, <3>1
    <3> QED
      BY <1>2, <1>6, <3>1, <3>2 DEF TapeSound
  <2> QED
    BY <1>8, <2>1, <2>2 DEF TapeSound
<1>12. ASSUME NEW S, NEW T, \A k \in 1 .. m - 1 : k \in S <=> k \in T
       PROVE  \A k \in 0 .. m - 1 : Trail(tape', S)[k] = Trail(tape, T)[k]
  <2>1. PICK q : q = tape'
    OBVIOUS
  <2>2. /\ Len(q) \in Nat /\ Len(tape) \in Nat /\ m - 1 <= Len(q) /\ m - 1 <= Len(tape)
        /\ \A k \in 1 .. m - 1 : q[k] = tape[k] /\ (k \in S <=> k \in T)
    BY <1>6, <1>7, <1>8, <1>12, <2>1
  <2>3. \A k \in 0 .. m - 1 : Trail(q, S)[k] = Trail(tape, T)[k]
    <3>1. PICK n \in Nat : n = m - 1
      BY <1>7
    <3>2. \A k \in 0 .. n : Trail(q, S)[k] = Trail(tape, T)[k]
      BY <2>2, <3>1, TrailsAgree
    <3> QED
      BY <3>1, <3>2
  <2> QED
    BY <2>1, <2>3
<1>13. AllReached'
  <2>1. ASSUME NEW k \in 0 .. m - 1, NEW id \in 1 .. LayerLength(k + 1)'
        PROVE  \E S \in SUBSET Levels : Trail(tape', S)[k] = id
    <3>1. k + 1 \in 1 .. m /\ k \in 0 .. Len(tape)
      BY <1>6, <1>7
    <3>2. id \in 1 .. LayerLength(k + 1)
      BY <1>10, <3>1
    <3>3. PICK S \in SUBSET Levels : Trail(tape, S)[k] = id
      BY <1>2, <3>1, <3>2 DEF AllReached
    <3> QED
      BY <1>12, <3>3
  <2> QED
    BY <1>4, <1>8, <2>1 DEF AllReached
<1>14. ASSUME NEW S \in SUBSET Levels
       PROVE  (TargetRoot(Destination(S)) = Completions(S, Len(tape)))'
  <2>1. PICK id : id = Trail(tape, S)[m - 1]
    OBVIOUS
  <2>2. IF id = 0 THEN Completions(S, m - 1) = Zero
        ELSE id \in 1 .. Len(tape[m]) /\ RowFamily(tape[m][id]) = Completions(S, m - 1)
    BY <1>1, <1>2, <1>3, <1>6, <2>1, RowIsCompletions
  <2>3. Completions(S, Len(tape))' = Completions(S, m - 1)
    <3>1. Completions(S, Len(tape))' = Completions(S, m - 1)'
      BY <1>8 DEF Completions
    <3> QED
      BY <1>1, <1>3, <3>1, CompletionsStay
  <2>4. Trail(tape', S)[m - 1] = id
    <3>1. m - 1 \in 0 .. m - 1
      BY <1>7
    <3> QED
      BY <1>12, <2>1, <3>1
  <2>5. TargetRoot(Destination(S))' = IF id = 0 THEN Zero ELSE previous[id]
    <3>1. Destination(S)' = id
      BY <1>8, <2>4 DEF Destination
    <3> QED
      BY <1>1, <3>1 DEF TargetRoot, Zero
  <2> QED
    BY <1>9, <2>2, <2>3, <2>5
<1>15. NoRunFails'
  BY <1>1, <1>2, <1>3, CompletionsStay DEF RootsSound
<1>16. RootsSound'
  <2>1. tape' # << >> => source' \in 1 .. Len(tape'[Len(tape')]) + 1
    <3> SUFFICES ASSUME tape' # << >> PROVE source' \in 1 .. Len(tape'[Len(tape')]) + 1
      OBVIOUS
    <3>1. Len(tape') \in 1 .. Len(tape')
      BY <1>8, LenProperties, EmptySeq
    <3>2. Len(tape'[Len(tape')]) \in Nat
      BY <1>8, <3>1, LenProperties, ElementOfSeq
    <3> QED
      BY <1>1, <3>2
  <2>2. Len(previous') = 0
    BY <1>1, ShortSequences
  <2>3. roots' \in Seq(SUBSET SUBSET Levels) /\ previous' \in Seq(SUBSET SUBSET Levels)
    BY <1>1, <1>9
  <2>4. FirstState' # {}
    BY <1>2, <1>4 DEF RootsSound
  <2>5. Len(previous') = source' - 1
    BY <1>1, <2>2
  <2>6. \A id \in 1 .. Len(previous') : previous'[id] = RowFamily(tape[Len(tape)][id])'
    BY <2>2
  <2> QED
    BY <1>1, <1>4, <1>14, <1>15, <2>1, <2>3, <2>4, <2>5, <2>6 DEF RootsSound
<1> QED
  BY <1>1, <1>5, <1>11, <1>13, <1>16 DEF BuildInv

\* Every step keeps the invariant.
LEMMA StepKeepsInvariant == BuildInv /\ [Next]_vars => BuildInv'
<1> SUFFICES ASSUME BuildInv, [Next]_vars PROVE BuildInv'
  OBVIOUS
<1>1. ASSUME Build PROVE BuildInv'
  <2>1. CASE Planning \/ PassCheck \/ ObserveCancel \/ Start \/ RefuseStart \/ OverTransitions \/ FailTransition
    BY <2>1, PlanningSound, PassCheckSound, ObserveCancelSound, StartSound, LimitSound, FailTransitionSound
  <2>2. CASE RejectBranch \/ MergeBranch \/ RegisterState \/ OverStates \/ EndLayer
    BY <2>2, BranchSound, LimitSound, EndLayerSound
  <2>3. CASE FailFinalize \/ FinalizeState \/ EndFinalize \/ ReduceRow \/ OverNodes
    BY <2>3, FailFinalizeSound, FinalizeStateSound, EndFinalizeSound, ReduceRowSound, LimitSound
  <2>4. CASE EndReduce \/ Finish
    BY <2>4, EndReduceSound, FinishSound
  <2> QED
    BY <1>1, <2>1, <2>2, <2>3, <2>4 DEF Build
<1>2. ASSUME Cancel PROVE BuildInv'
  BY <1>2, CancelSound
<1>3. ASSUME UNCHANGED vars PROVE BuildInv'
  <2>1. UNCHANGED <<config, stage, forward, source, backward, result>> /\ (token => token')
    BY <1>3 DEF vars, config, forward, backward
  <2> QED
    BY <2>1, NothingChanges
<1> QED
  BY <1>1, <1>2, <1>3 DEF Next

\* The invariant of the builder holds in every state of every build.
THEOREM Invariance == Spec => []BuildInv
<1>1. Init => BuildInv
  BY InitSound
<1>2. BuildInv /\ [Next]_vars => BuildInv'
  BY StepKeepsInvariant
<1> QED
  BY <1>1, <1>2, PTL DEF Spec

\* For any problem: a build that returns a family returns the selections whose
\* run the problem accepts, and no run has failed; a build returns the problem's
\* own error only when the problem has one, and "cancelled" only when its token
\* is set (FrontierBuilder::build_with_stats and build_from_tape).
THEOREM BuildsWhatRunsAccept == Spec => []ResultSound
<1>1. BuildInv => ResultSound
  BY DEF BuildInv
<1> QED
  BY <1>1, Invariance, PTL

----------------------------------------------------------------------------
(* The counters, and a build that is cancelled.                            *)

StatsTyped == stats \in [DOMAIN NoStats -> Nat]

\* What a build does that a token is to stop: branches tried and nodes created.
Worked(s) == s.attempted + s.created

\* The fields of the counters after a look and after a branch.
LEMMA CheckedFields ==
  ASSUME StatsTyped
  PROVE  LET c == Checked(stats)
         IN /\ c \in [DOMAIN NoStats -> Nat]
            /\ c.attempted = stats.attempted /\ c.entries = stats.entries /\ c.rejected = stats.rejected
            /\ c.merged = stats.merged /\ c.layers = stats.layers /\ c.peak = stats.peak /\ c.created = stats.created
            /\ c.checks = stats.checks + 1
<1>1. stats.checks \in Nat /\ stats.checks + 1 \in Nat
  BY DEF StatsTyped, NoStats
<1>2. PICK n \in Nat : n = stats.checks + 1
  BY <1>1
<1>3. Checked(stats) = [stats EXCEPT !.checks = n]
  BY <1>2 DEF Checked
<1>4. PICK c : c = Checked(stats)
  OBVIOUS
<1>5. c \in [DOMAIN NoStats -> Nat]
  BY <1>3, <1>4 DEF StatsTyped, NoStats
<1>6. /\ c.attempted = stats.attempted /\ c.entries = stats.entries /\ c.rejected = stats.rejected
      /\ c.merged = stats.merged /\ c.layers = stats.layers /\ c.peak = stats.peak /\ c.created = stats.created
      /\ c.checks = n
  BY <1>3, <1>4 DEF StatsTyped, NoStats
<1> QED
  BY <1>2, <1>4, <1>5, <1>6

LEMMA TriedFields ==
  ASSUME StatsTyped
  PROVE  LET c == Tried(stats)
         IN /\ c \in [DOMAIN NoStats -> Nat]
            /\ c.attempted = stats.attempted + 1 /\ c.entries = stats.entries + 1 /\ c.rejected = stats.rejected
            /\ c.merged = stats.merged /\ c.layers = stats.layers /\ c.peak = stats.peak /\ c.created = stats.created
            /\ c.checks = stats.checks
<1>1. stats.attempted \in Nat /\ stats.entries \in Nat
  BY DEF StatsTyped, NoStats
<1>2. PICK a, e : a = stats.attempted + 1 /\ e = stats.entries + 1
  OBVIOUS
<1>3. a \in Nat /\ e \in Nat
  BY <1>1, <1>2
<1>4. Tried(stats) = [stats EXCEPT !.attempted = a, !.entries = e]
  BY <1>2 DEF Tried
<1>5. PICK t : t = Tried(stats)
  OBVIOUS
<1>6. t \in [DOMAIN NoStats -> Nat]
  BY <1>3, <1>4, <1>5 DEF StatsTyped, NoStats
<1>7. t.attempted = a /\ t.entries = e
  BY <1>4, <1>5 DEF StatsTyped, NoStats
<1>8. t.rejected = stats.rejected /\ t.merged = stats.merged /\ t.layers = stats.layers
      /\ t.peak = stats.peak /\ t.created = stats.created /\ t.checks = stats.checks
  BY <1>4, <1>5 DEF StatsTyped, NoStats
<1> QED
  BY <1>2, <1>5, <1>6, <1>7, <1>8

\* What a step does to the counters: a look counts itself, a unit of work needs
\* a look that let it through and adds at most one branch or node, and nothing
\* else adds to either.
LEMMA CountersMove ==
  ASSUME BuildInv, StatsTyped, Next
  PROVE  /\ StatsTyped'
         /\ \/ /\ PassCheck \/ ObserveCancel
               /\ Worked(stats') = Worked(stats) /\ stats'.checks = stats.checks + 1
            \/ /\ Worked(stats') = Worked(stats) /\ stats'.checks = stats.checks /\ passed' = passed
               /\ result' = result \/ stage # "returned"
            \/ /\ MayWork /\ passed' = FALSE /\ stage # "returned"
               /\ Worked(stats') \in {Worked(stats), Worked(stats) + 1} /\ stats'.checks = stats.checks
<1>1. StatsTyped /\ \A f \in DOMAIN NoStats : stats[f] \in Nat
  BY DEF StatsTyped
<1>2. /\ stats.attempted \in Nat /\ stats.created \in Nat /\ stats.rejected \in Nat /\ stats.merged \in Nat
      /\ stats.checks \in Nat /\ stats.entries \in Nat /\ stats.layers \in Nat
  BY <1>1 DEF NoStats
<1>3. CASE Planning \/ Cancel \/ EndFinalize \/ EndReduce \/ Finish
  <2>1. stats' = stats /\ passed' = passed /\ (result' = result \/ stage # "returned")
    BY <1>3 DEF Planning, Cancel, EndFinalize, EndReduce, Finish
  <2> QED
    BY <1>1, <2>1 DEF StatsTyped, Worked
<1>4. CASE PassCheck \/ ObserveCancel
  <2>1. stats' = Checked(stats)
    BY <1>4 DEF PassCheck, ObserveCancel
  <2>2. stats' \in [DOMAIN NoStats -> Nat] /\ stats'.attempted = stats.attempted /\ stats'.created = stats.created
        /\ stats'.checks = stats.checks + 1
    BY <2>1, CheckedFields
  <2> QED
    BY <1>4, <2>2 DEF StatsTyped, Worked
<1>5. CASE RefuseStart \/ OverTransitions \/ FailFinalize \/ FinalizeState \/ OverNodes
  <2>1. stats' = stats /\ passed' = FALSE /\ MayWork /\ stage # "returned"
    BY <1>5 DEF RefuseStart, OverTransitions, FailFinalize, FinalizeState, OverNodes, CanBranch, ToStart, ToBranch,
       ToFinalize, ToReduce
  <2> QED
    BY <1>1, <2>1 DEF StatsTyped, Worked
<1>6. CASE Start
  <2>1. stats' = [stats EXCEPT !.peak = 1] /\ passed' = FALSE /\ MayWork /\ stage # "returned"
    BY <1>6 DEF Start, ToStart
  <2>2. stats' \in [DOMAIN NoStats -> Nat] /\ stats'.attempted = stats.attempted /\ stats'.created = stats.created
        /\ stats'.checks = stats.checks
    BY <1>1, <2>1 DEF StatsTyped, NoStats
  <2> QED
    BY <2>1, <2>2 DEF StatsTyped, Worked
<1>7. CASE FailTransition
  <2>1. stats' = [stats EXCEPT !.attempted = @ + 1] /\ passed' = FALSE /\ MayWork /\ stage # "returned"
    BY <1>7 DEF FailTransition, ToTry, CanBranch, ToBranch
  <2>2. PICK a \in Nat : a = stats.attempted + 1
    BY <1>2
  <2>3. stats' \in [DOMAIN NoStats -> Nat] /\ stats'.attempted = a /\ stats'.created = stats.created
        /\ stats'.checks = stats.checks
    BY <1>1, <2>1, <2>2 DEF StatsTyped, NoStats
  <2>4. Worked(stats') = Worked(stats) + 1
    BY <1>2, <2>2, <2>3 DEF Worked
  <2> QED
    BY <2>1, <2>3, <2>4 DEF StatsTyped
<1>8. CASE RejectBranch \/ MergeBranch \/ RegisterState \/ OverStates
  <2>1. passed' = FALSE /\ MayWork /\ stage # "returned"
    BY <1>8 DEF RejectBranch, MergeBranch, RegisterState, OverStates, CanTry, ToTry, CanBranch, ToBranch
  <2>2. PICK t : t = Tried(stats)
    OBVIOUS
  <2>3. /\ t \in [DOMAIN NoStats -> Nat] /\ t.attempted = stats.attempted + 1 /\ t.created = stats.created
        /\ t.checks = stats.checks /\ t.rejected = stats.rejected /\ t.merged = stats.merged
    BY <2>2, TriedFields
  <2>4. PICK r, m : r = t.rejected + 1 /\ m = t.merged + 1
    OBVIOUS
  <2>5. r \in Nat /\ m \in Nat
    BY <1>2, <2>3, <2>4
  <2>6. \/ stats' = t
        \/ stats' = [t EXCEPT !.rejected = r]
        \/ stats' = [t EXCEPT !.merged = m]
    BY <1>8, <2>2, <2>4 DEF RejectBranch, MergeBranch, RegisterState, OverStates
  <2>7. stats' \in [DOMAIN NoStats -> Nat] /\ stats'.attempted = t.attempted /\ stats'.created = t.created
        /\ stats'.checks = t.checks
    BY <2>3, <2>5, <2>6 DEF NoStats
  <2>8. Worked(stats') = Worked(stats) + 1
    BY <1>2, <2>3, <2>7 DEF Worked
  <2> QED
    BY <2>1, <2>3, <2>7, <2>8 DEF StatsTyped
<1>9. CASE EndLayer
  <2>1. /\ stats' = [stats EXCEPT !.layers = @ + 1, !.peak = Larger(@, Len(next_ids))]
        /\ stage = "forward" /\ passed' = passed
    BY <1>9 DEF EndLayer
  <2>2. Len(next_ids) \in Nat
    BY <2>1, LenProperties DEF BuildInv, LayerSound
  <2>3. Larger(stats.peak, Len(next_ids)) \in Nat
    BY <1>1, <2>2 DEF Larger, NoStats
  <2>4. PICK l, w : l = stats.layers + 1 /\ w = Larger(stats.peak, Len(next_ids))
    OBVIOUS
  <2>5. l \in Nat /\ w \in Nat
    BY <1>2, <2>3, <2>4
  <2>6. stats' = [stats EXCEPT !.layers = l, !.peak = w]
    BY <2>1, <2>4
  <2>7. stats' \in [DOMAIN NoStats -> Nat] /\ stats'.attempted = stats.attempted /\ stats'.created = stats.created
        /\ stats'.checks = stats.checks
    BY <1>1, <2>5, <2>6 DEF StatsTyped, NoStats
  <2> QED
    BY <2>1, <2>7 DEF StatsTyped, Worked
<1>10. CASE ReduceRow
  <2>1. /\ stats' = [stats EXCEPT !.created = IF Existing THEN @ ELSE @ + 1]
        /\ passed' = FALSE /\ MayWork /\ stage # "returned"
    BY <1>10 DEF ReduceRow, ToReduce
  <2>2. PICK n \in {stats.created, stats.created + 1} : n = IF Existing THEN stats.created ELSE stats.created + 1
    OBVIOUS
  <2>3. stats' = [stats EXCEPT !.created = n] /\ n \in Nat
    BY <1>2, <2>1, <2>2
  <2>4. stats' \in [DOMAIN NoStats -> Nat] /\ stats'.attempted = stats.attempted /\ stats'.created = n
        /\ stats'.checks = stats.checks
    BY <1>1, <2>3 DEF StatsTyped, NoStats
  <2>5. Worked(stats') \in {Worked(stats), Worked(stats) + 1}
    BY <1>2, <2>2, <2>4 DEF Worked
  <2> QED
    BY <2>1, <2>4, <2>5 DEF StatsTyped
<1> QED
  BY <1>3, <1>4, <1>5, <1>6, <1>7, <1>8, <1>9, <1>10 DEF Next, Build

\* The counters are always numbers.
LEMMA CountersTyped == Spec => []StatsTyped
<1>1. Init => StatsTyped
  BY DEF Init, StatsTyped, NoStats
<1>2. BuildInv /\ StatsTyped /\ [Next]_vars => StatsTyped'
  <2>1. ASSUME StatsTyped, UNCHANGED vars PROVE StatsTyped'
    BY <2>1 DEF vars, StatsTyped
  <2> QED
    BY <2>1, CountersMove
<1> QED
  BY <1>1, <1>2, Invariance, PTL DEF Spec

\* Only a build with a token looks.  Once the token is set, no look lets a unit of
\* work through: at most the one that had been let through before is done, and
\* the next look ends the build.
TokenInv ==
  /\ stats_at_cancel \in [DOMAIN NoStats -> Nat]
  /\ passed \in BOOLEAN
  /\ passed \/ token => settings.attached
  /\ token =>
       /\ Worked(stats) \in {Worked(stats_at_cancel), Worked(stats_at_cancel) + 1}
       /\ passed => Worked(stats) = Worked(stats_at_cancel)
       /\ \/ stats.checks = stats_at_cancel.checks
          \/ stats.checks = stats_at_cancel.checks + 1 /\ result.kind = "cancelled"

\* What a step leaves as it is while the token is, or is not, set.
LEMMA TokenMoves ==
  ASSUME Next
  PROVE  /\ settings' = settings
         /\ token => token' /\ stats_at_cancel' = stats_at_cancel
         /\ ~token /\ token' =>
              settings.attached /\ stats_at_cancel' = stats /\ stats' = stats /\ passed' = passed
         /\ passed' => passed \/ PassCheck
         /\ ~token' => stats_at_cancel' = stats_at_cancel
         /\ passed' \in BOOLEAN \/ passed' = passed
<1> USE DEF config
<1>1. CASE Cancel
  BY <1>1 DEF Cancel
<1>2. CASE PassCheck
  BY <1>2 DEF PassCheck
<1>3. CASE UNCHANGED <<settings, token, stats_at_cancel>> /\ (passed' = passed \/ passed' = FALSE)
  <2>1. settings' = settings /\ token' = token /\ stats_at_cancel' = stats_at_cancel
    BY <1>3
  <2>2. CASE passed' = passed
    BY <2>1, <2>2, Zenon
  <2>3. CASE passed' = FALSE
    BY <2>1, <2>3, Zenon
  <2> QED
    BY <1>3, <2>2, <2>3, Zenon
<1>4. CASE Planning \/ ObserveCancel \/ Start \/ RefuseStart \/ OverTransitions \/ FailTransition
  BY <1>3, <1>4 DEF Planning, ObserveCancel, Start, RefuseStart, OverTransitions, FailTransition
<1>5. CASE RejectBranch \/ MergeBranch \/ RegisterState \/ OverStates \/ EndLayer
  BY <1>3, <1>5 DEF RejectBranch, MergeBranch, RegisterState, OverStates, EndLayer
<1>6. CASE FailFinalize \/ FinalizeState \/ EndFinalize \/ ReduceRow \/ OverNodes \/ EndReduce \/ Finish
  BY <1>3, <1>6 DEF FailFinalize, FinalizeState, EndFinalize, ReduceRow, OverNodes, EndReduce, Finish
<1> QED
  BY <1>1, <1>2, <1>4, <1>5, <1>6 DEF Next, Build

LEMMA TokenStep == BuildInv /\ StatsTyped /\ TokenInv /\ [Next]_vars => TokenInv'
<1>1. ASSUME TokenInv, UNCHANGED vars PROVE TokenInv'
  BY <1>1 DEF vars, config, TokenInv
<1>2. ASSUME BuildInv, StatsTyped, TokenInv, Next PROVE TokenInv'
  <2>1. /\ Worked(stats) \in Nat /\ stats.checks \in Nat /\ StatsTyped'
        /\ Worked(stats_at_cancel) \in Nat /\ stats_at_cancel.checks \in Nat
    BY <1>2, CountersMove DEF StatsTyped, TokenInv, NoStats, Worked
  <2>2. stats_at_cancel' \in [DOMAIN NoStats -> Nat]
    BY <1>2, TokenMoves DEF TokenInv, StatsTyped, Cancel
  <2>3. passed' \in BOOLEAN /\ (passed' \/ token' => settings'.attached)
    BY <1>2, TokenMoves DEF TokenInv, PassCheck, ToLook
  <2>4. CASE token
    <3>1. ~PassCheck /\ stats_at_cancel' = stats_at_cancel /\ settings.attached
      BY <1>2, <2>4, TokenMoves DEF PassCheck, TokenInv
    <3>2. stage # "returned" => result.kind # "cancelled"
      BY <1>2 DEF BuildInv, ResultSound, Pending
    <3>3. CASE ObserveCancel
      <4>1. /\ ~passed /\ ~passed' /\ result'.kind = "cancelled" /\ stage # "returned"
            /\ Worked(stats') = Worked(stats) /\ stats'.checks = stats.checks + 1
        <5>1. stats' = Checked(stats)
          BY <3>3 DEF ObserveCancel
        <5>2. Worked(stats') = Worked(stats) /\ stats'.checks = stats.checks + 1
          BY <1>2, <5>1, CheckedFields DEF Worked
        <5> QED
          BY <3>3, <5>2 DEF ObserveCancel, ToLook, Return, Outcome, ToStart, ToBranch, ToFinalize, ToReduce
      <4> QED
        BY <1>2, <2>2, <2>3, <2>4, <3>1, <3>2, <4>1 DEF TokenInv
    <3>4. CASE ~ObserveCancel /\ passed' = passed /\ Worked(stats') = Worked(stats) /\ stats'.checks = stats.checks
                 /\ (result' = result \/ stage # "returned")
      BY <1>2, <2>2, <2>3, <2>4, <3>1, <3>2, <3>4 DEF TokenInv
    <3>5. CASE MayWork /\ passed' = FALSE /\ stage # "returned"
                 /\ Worked(stats') \in {Worked(stats), Worked(stats) + 1} /\ stats'.checks = stats.checks
      <4>1. passed /\ Worked(stats) = Worked(stats_at_cancel)
        BY <1>2, <2>4, <3>1, <3>5 DEF MayWork, TokenInv
      <4> QED
        BY <1>2, <2>2, <2>3, <2>4, <3>1, <3>2, <3>5, <4>1 DEF TokenInv
    <3> QED
      BY <1>2, <3>1, <3>3, <3>4, <3>5, CountersMove
  <2>5. CASE ~token /\ token'
    <3>1. stats_at_cancel' = stats /\ stats' = stats
      BY <1>2, <2>5, TokenMoves
    <3> QED
      BY <2>2, <2>3, <3>1 DEF TokenInv
  <2>6. CASE ~token /\ ~token'
    BY <2>2, <2>3, <2>6 DEF TokenInv
  <2> QED
    BY <2>4, <2>5, <2>6
<1> QED
  BY <1>1, <1>2

LEMMA TokenAlways == Spec => []TokenInv
<1>1. Init => TokenInv
  <2> SUFFICES ASSUME Init PROVE TokenInv
    OBVIOUS
  <2>1. token = FALSE /\ passed = FALSE /\ stats_at_cancel = NoStats
    BY DEF Init
  <2>2. NoStats \in [DOMAIN NoStats -> Nat]
    BY DEF NoStats
  <2> QED
    BY <2>1, <2>2 DEF TokenInv
<1> QED
  BY <1>1, TokenStep, Invariance, CountersTyped, PTL DEF Spec

\* CancelStopsWork: from the moment the token is set, however the step that sets it
\* falls between a look and the work the look let through, a build tries one more
\* branch or creates one more node at most, and the next look ends it with
\* "cancelled" (check_cancelled, and the units of work of build_with_stats and
\* build_from_tape).
THEOREM TokenStopsWork == Spec => []CancelStopsWork
<1>1. StatsTyped /\ TokenInv => CancelStopsWork
  <2> SUFFICES ASSUME StatsTyped, TokenInv, token
               PROVE  /\ Worked(stats) <= Worked(stats_at_cancel) + 1
                      /\ stats.checks > stats_at_cancel.checks =>
                           stats.checks = stats_at_cancel.checks + 1 /\ result.kind = "cancelled"
    <3>1. \A s : s \in [DOMAIN NoStats -> Nat] => s.attempted \in Nat /\ s.created \in Nat
      BY DEF NoStats
    <3>2. stats_at_cancel.attempted + stats_at_cancel.created + 1 = Worked(stats_at_cancel) + 1
      BY DEF Worked
    <3> QED
      BY <3>2 DEF CancelStopsWork, Worked
  <2>1. Worked(stats_at_cancel) \in Nat /\ stats_at_cancel.checks \in Nat
    BY DEF TokenInv, NoStats, Worked
  <2> QED
    BY <2>1 DEF TokenInv
<1> QED
  BY <1>1, TokenAlways, CountersTyped, PTL

----------------------------------------------------------------------------
(* A problem that decides its graph property.                              *)

\* The problem decides its property on the plan of the graph, once there is one.
Contract == stage # "plan" => Decides

\* A step that does work, or ends the build, leaves the configuration alone.
LEMMA WorkKeepsConfig ==
  ASSUME Next, stage' # "plan"
  PROVE  UNCHANGED config /\ (stage # "plan" \/ ToStart)
<1>1. ~Planning
  BY DEF Planning
<1>2. CASE Start \/ RefuseStart \/ PassCheck \/ ObserveCancel
  BY <1>2 DEF Start, RefuseStart, PassCheck, ObserveCancel, ToLook, ToBranch, ToFinalize, ToReduce
<1>3. CASE OverTransitions \/ FailTransition \/ RejectBranch \/ MergeBranch \/ RegisterState \/ OverStates
  BY <1>3 DEF OverTransitions, FailTransition, RejectBranch, MergeBranch, RegisterState, OverStates,
              CanTry, ToTry, CanBranch, ToBranch
<1>4. CASE EndLayer \/ FailFinalize \/ FinalizeState \/ EndFinalize \/ OverNodes
  BY <1>4 DEF EndLayer, FailFinalize, FinalizeState, EndFinalize, OverNodes, ToFinalize, ToReduce
<1>5. CASE ReduceRow \/ EndReduce \/ Finish
  BY <1>5 DEF ReduceRow, EndReduce, Finish, ToReduce
<1>6. CASE Cancel
  BY <1>6 DEF Cancel
<1> QED
  BY <1>1, <1>2, <1>3, <1>4, <1>5, <1>6 DEF Next, Build

\* What the problem decides does not change while the configuration stays.
LEMMA DecidesStays ==
  ASSUME BuildInv, UNCHANGED config
  PROVE  Decides' <=> Decides
<1>1. Len(edges) \in Nat /\ Levels = 1 .. Len(edges)
  BY EdgesTyped
<1>2. edges' = edges /\ problem' = problem /\ Levels' = Levels /\ FirstState' = FirstState
  BY ConfigStays DEF config, plan
<1>3. \A S : (RunAccepts(S)' <=> RunAccepts(S)) /\ (RunFails(S)' <=> RunFails(S))
  BY <1>1, RunsStay
<1> QED
  BY <1>2, <1>3 DEF Decides

\* The contract lasts from the start of the work to the answer.
LEMMA ContractLasts == Spec /\ []RunsDecide => []Contract
<1>1. Init => Contract
  BY DEF Init, Contract
<1>2. BuildInv /\ RunsDecide /\ Contract /\ [Next]_vars => Contract'
  <2> SUFFICES ASSUME BuildInv, RunsDecide, Contract, [Next]_vars, stage' # "plan" PROVE Decides'
    BY DEF Contract
  <2>1. CASE Next
    BY <2>1, WorkKeepsConfig, DecidesStays DEF Contract, RunsDecide
  <2>2. CASE UNCHANGED vars
    <3>1. UNCHANGED config /\ stage # "plan"
      BY <2>2 DEF vars, config
    <3> QED
      BY <3>1, DecidesStays DEF Contract
  <2> QED
    BY <2>1, <2>2
<1> QED
  BY <1>1, <1>2, Invariance, PTL DEF Spec

\* Runs that meet, and take the same choices from there on, end together.
LEMMA RunsMeet ==
  ASSUME Len(edges) \in Nat, NEW S, NEW R, NEW n \in 0 .. Len(edges),
         Run(S)[n] = Run(R)[n], \A k \in n + 1 .. Len(edges) : k \in S <=> k \in R
  PROVE  RunAccepts(S) <=> RunAccepts(R)
<1> DEFINE Good == {k \in 0 .. Len(edges) : k >= n => Run(S)[k] = Run(R)[k]}
<1>1. 0 \in Good
  OBVIOUS
<1>2. ASSUME NEW k \in Nat, k < Len(edges), k \in Good
      PROVE  k + 1 \in Good
  <2>1. k + 1 \in 1 .. Len(edges) /\ k + 1 \in 0 .. Len(edges) /\ (k + 1) - 1 = k
    BY <1>2
  <2>2. CASE k + 1 <= n
    BY <2>1, <2>2
  <2>3. CASE k >= n
    <3>1. k + 1 \in n + 1 .. Len(edges) /\ Run(S)[k] = Run(R)[k]
      BY <1>2, <2>1, <2>3
    <3>2. /\ Run(S)[k + 1] = RunNext(S, k + 1, Run(S)[k])
          /\ Run(R)[k + 1] = RunNext(R, k + 1, Run(R)[k])
      BY <2>1, RunUnfolds
    <3>3. ChoiceAt(S, k + 1) = ChoiceAt(R, k + 1)
      BY <3>1 DEF ChoiceAt
    <3>4. Run(S)[k + 1] = Run(R)[k + 1]
      BY <3>1, <3>2, <3>3 DEF RunNext
    <3> QED
      BY <2>1, <3>4
  <2> QED
    BY <1>2, <2>2, <2>3
<1>3. 0 .. Len(edges) \subseteq Good
  <2> HIDE DEF Good
  <2> QED
    BY <1>1, <1>2, SetInduction
<1>4. Run(S)[Len(edges)] = Run(R)[Len(edges)]
  <2>1. Len(edges) \in 0 .. Len(edges) /\ Len(edges) >= n
    OBVIOUS
  <2> QED
    BY <1>3, <2>1
<1> QED
  BY <1>4 DEF RunAccepts

\* The completions of a selection, from the graph and from the runs.
LEMMA SuffixesAreCompletions ==
  ASSUME Decides, ~Refuses(problem, V, edges), Len(edges) \in Nat, Levels = 1 .. Len(edges),
         NEW n \in 0 .. Len(edges), NEW S \in SUBSET (1 .. n)
  PROVE  Suffixes(S, n) = Completions(S, n)
<1>1. S \subseteq Levels /\ {i \in S : i <= n} = S
  <2>1. \A i \in S : i \in 1 .. n
    OBVIOUS
  <2>2. \A i \in 1 .. n : i \in 1 .. Len(edges) /\ i <= n
    OBVIOUS
  <2> QED
    BY <2>1, <2>2
<1>2. \A T \in SUBSET {i \in Levels : i > n} : RunAccepts(S \union T) <=> Accepts(problem, edges, S \union T)
  BY <1>1 DEF Decides
<1> QED
  BY <1>1, <1>2 DEF Suffixes, Completions

\* Selections that the tape leads to the same state have the same completions.
LEMMA SameStateSameCompletions ==
  ASSUME TapeSound, TrailsTellRuns, Len(edges) \in Nat, Levels = 1 .. Len(edges),
         NEW n, n = Len(tape), NEW S \in SUBSET (1 .. n), NEW R \in SUBSET (1 .. n),
         Destination(S) = Destination(R)
  PROVE  Completions(S, n) = Completions(R, n)
<1>1. n \in Nat /\ n <= Len(edges) /\ n \in 0 .. n /\ n \in 0 .. Len(edges)
  BY LenProperties DEF TapeSound
<1>2. ASSUME NEW Q \in SUBSET (1 .. n), NEW T \in SUBSET {i \in Levels : i > n}
      PROVE  /\ Destination(Q \union T) = Destination(Q)
             /\ Q \union T \in SUBSET Levels
             /\ {i \in Q : i <= n} = Q
  <2>1. \A i \in Q : i \in 1 .. n
    OBVIOUS
  <2>2. \A i \in 1 .. n : i \in 1 .. Len(edges) /\ i <= n
    BY <1>1
  <2>3. \A i \in T : i \in Levels /\ i > n
    OBVIOUS
  <2>4. \A k \in 1 .. n : k \in Q \union T <=> k \in Q
    BY <1>1, <2>2, <2>3
  <2>5. Trail(tape, Q \union T)[n] = Trail(tape, Q)[n]
    <3>1. \A k \in 0 .. n : Trail(tape, Q \union T)[k] = Trail(tape, Q)[k]
      BY <1>1, <2>4, TrailsAgree
    <3> QED
      BY <1>1, <3>1
  <2> QED
    BY <2>1, <2>2, <2>5 DEF Destination
<1>3. ASSUME NEW T \in SUBSET {i \in Levels : i > n}
      PROVE  RunAccepts(S \union T) <=> RunAccepts(R \union T)
  <2>1. Run(S \union T)[n] = Run(R \union T)[n]
    <3>1. PICK A, B : A = S \union T /\ B = R \union T
      OBVIOUS
    <3>2. A \in SUBSET Levels /\ B \in SUBSET Levels /\ Destination(A) = Destination(B)
      BY <1>2, <3>1
    <3>3. Run(A)[n] = Run(B)[n]
      BY <3>2 DEF TrailsTellRuns
    <3> QED
      BY <3>1, <3>3
  <2>2. \A k \in n + 1 .. Len(edges) : k \in S \union T <=> k \in R \union T
    <3>1. \A i \in S \union R : i \in 1 .. n
      OBVIOUS
    <3>2. \A k \in n + 1 .. Len(edges) : k \notin 1 .. n
      BY <1>1
    <3> QED
      BY <3>1, <3>2
  <2> QED
    BY <1>1, <2>1, <2>2, RunsMeet
<1>4. {i \in S : i <= n} = S /\ {i \in R : i <= n} = R
  BY <1>2
<1> QED
  BY <1>3, <1>4 DEF Completions

\* EqualStatesEqualSuffixes, in a state of a build of a problem that keeps its
\* contract.
LEMMA MergedStatesAgree ==
  ASSUME BuildInv, Contract, ~Refuses(problem, V, edges)
  PROVE  EqualStatesEqualSuffixes
<1> SUFFICES ASSUME AtBoundary, NEW id \in DOMAIN states
             PROVE  Cardinality({Suffixes(S, Len(tape)) :
                       S \in {S \in SUBSET (1 .. Len(tape)) : Destination(S) = id}}) = 1
  BY DEF EqualStatesEqualSuffixes
<1>1. TapeSound /\ AllReached /\ TrailsTellRuns /\ Decides /\ stage \in {"forward", "finalize"}
  BY DEF AtBoundary, BuildInv, Contract
<1>2. Len(edges) \in Nat /\ Levels = 1 .. Len(edges)
  BY EdgesTyped
<1> DEFINE n == Len(tape)
<1>3. n = Len(tape)
  OBVIOUS
<1> HIDE DEF n
<1>4. n \in Nat /\ n <= Len(edges) /\ n \in 0 .. n /\ n \in 0 .. Len(edges)
  BY <1>1, <1>2, <1>3, LenProperties DEF TapeSound
<1>5. id \in 1 .. LayerLength(n + 1)
  <2>1. DOMAIN states = 1 .. Len(states)
    BY <1>1, LenProperties DEF BuildInv, LayerSound, FinalSound
  <2>2. LayerLength(n + 1) = Len(states)
    BY <1>1, <1>3, <1>4 DEF LayerLength
  <2> QED
    BY <2>1, <2>2
<1>6. PICK R \in SUBSET Levels : Trail(tape, R)[n] = id
  BY <1>1, <1>3, <1>4, <1>5 DEF AllReached
<1>7. PICK S : S = R \intersect (1 .. n)
  OBVIOUS
<1>8. S \in SUBSET (1 .. n) /\ Destination(S) = id
  <2>1. \A k \in 1 .. n : k \in S <=> k \in R
    BY <1>7
  <2>2. \A k \in 0 .. n : Trail(tape, S)[k] = Trail(tape, R)[k]
    BY <1>3, <1>4, <2>1, TrailsAgree
  <2> QED
    BY <1>3, <1>4, <1>6, <1>7, <2>2 DEF Destination
<1>9. ASSUME NEW T \in SUBSET (1 .. n), Destination(T) = id
      PROVE  Suffixes(T, n) = Suffixes(S, n)
  <2>1. Completions(T, n) = Completions(S, n)
    BY <1>1, <1>2, <1>3, <1>8, <1>9, SameStateSameCompletions
  <2> QED
    BY <1>1, <1>2, <1>4, <1>8, <2>1, SuffixesAreCompletions
<1>10. {Suffixes(T, n) : T \in {T \in SUBSET (1 .. n) : Destination(T) = id}} = {Suffixes(S, n)}
  <2> DEFINE Same == {T \in SUBSET (1 .. n) : Destination(T) = id}
  <2>1. S \in Same /\ \A T \in Same : Suffixes(T, n) = Suffixes(S, n)
    BY <1>8, <1>9
  <2> HIDE DEF Same
  <2>2. {Suffixes(T, n) : T \in Same} = {Suffixes(S, n)}
    BY <2>1
  <2> QED
    BY <2>2 DEF Same
<1>11. Cardinality({Suffixes(T, n) : T \in {T \in SUBSET (1 .. n) : Destination(T) = id}}) = 1
  BY <1>10, FS_Singleton
<1> QED
  BY <1>11 DEF n

\* EqualStatesEqualSuffixes for any problem that decides its property: states
\* the builder merges have the same accepted completions, unless the problem
\* is to be refused (the contract of FrontierProblem, frontier/problem.rs).
THEOREM MergesAreSound ==
  Spec /\ []RunsDecide => [](Refuses(problem, V, edges) \/ EqualStatesEqualSuffixes)
<1>1. BuildInv /\ Contract => Refuses(problem, V, edges) \/ EqualStatesEqualSuffixes
  BY MergedStatesAgree
<1> QED
  BY <1>1, Invariance, ContractLasts, PTL

----------------------------------------------------------------------------
(* A build does what BuildCalls promises.                                  *)

\* What a step of the builder shows to its caller: nothing, a set token, or
\* the answer, given once.
LEMMA AnswerOnce ==
  ASSUME BuildInv, Next
  PROVE  \/ UNCHANGED <<edges, problem, settings, token, result>>
         \/ Cancel
         \/ /\ result = Pending /\ stage' = "returned"
            /\ UNCHANGED <<edges, problem, settings, token>>
            /\ \/ \E value : result' = [kind |-> "ok", value |-> value]
               \/ \E kind \in Errors : result' = Outcome(kind)
<1>1. CASE Planning
  <2>1. edges' = edges
    BY <1>1 DEF Planning, PlanNext, Scan, StartPlan, Plan, FinishPlan
  <2> QED
    BY <1>1, <2>1 DEF Planning
<1>2. CASE Start \/ RejectBranch \/ MergeBranch \/ RegisterState \/ EndLayer
  BY <1>2 DEF Start, RejectBranch, MergeBranch, RegisterState, EndLayer, config, plan
<1>3. CASE PassCheck \/ FinalizeState \/ EndFinalize \/ ReduceRow \/ EndReduce
  BY <1>3 DEF PassCheck, FinalizeState, EndFinalize, ReduceRow, EndReduce, config, plan
<1>4. CASE Cancel
  BY <1>4
<1>5. CASE Finish
  <2>1. /\ result = Pending /\ UNCHANGED <<edges, problem, settings, token>>
        /\ stage' = "returned" /\ result' = [kind |-> "ok", value |-> roots[Len(roots)]]
    BY <1>5 DEF Finish, Return, BuildInv, ResultSound, config, plan
  <2> QED
    BY <2>1
<1>6. CASE ObserveCancel \/ RefuseStart \/ OverTransitions \/ FailTransition \/ OverStates \/ FailFinalize \/ OverNodes
  <2>1. stage # "returned"
    BY <1>6 DEF ObserveCancel, RefuseStart, OverTransitions, FailTransition, OverStates, FailFinalize, OverNodes,
                CanTry, ToTry, CanBranch, ToLook, ToStart, ToBranch, ToFinalize, ToReduce
  <2>2. UNCHANGED <<edges, problem, settings, token>>
    BY <1>6 DEF ObserveCancel, RefuseStart, OverTransitions, FailTransition, OverStates, FailFinalize, OverNodes,
                config, plan
  <2>3. \E kind \in Errors : Return(Outcome(kind))
    BY <1>6 DEF ObserveCancel, RefuseStart, OverTransitions, FailTransition, OverStates, FailFinalize, OverNodes,
                Errors
  <2> QED
    BY <2>1, <2>2, <2>3 DEF Return, BuildInv, ResultSound
<1> QED
  BY <1>1, <1>2, <1>3, <1>4, <1>5, <1>6 DEF Next, Build

\* The answer that BuildCalls allows.
DueAnswer ==
  /\ result.kind = "ok" => ~Refuses(problem, V, edges) /\ result.value = Builds!Solutions
  /\ result.kind = "problem_error" => Refuses(problem, V, edges)
  /\ result.kind = "cancelled" => token

\* An answer of a problem that keeps its contract is the one that is due.
LEMMA AnswerIsDue == BuildInv /\ Contract /\ stage = "returned" => DueAnswer
<1> SUFFICES ASSUME BuildInv, Contract, stage = "returned" PROVE DueAnswer
  OBVIOUS
<1>1. ResultSound /\ Decides
  BY DEF BuildInv, Contract
<1>2. result.kind = "ok" => ~Refuses(problem, V, edges)
  BY <1>1 DEF ResultSound, NoRunFails, Decides
<1>3. ~Refuses(problem, V, edges) => Accepted = Builds!Solutions
  BY <1>1 DEF Decides, Accepted, Builds!Solutions, Levels
<1> QED
  BY <1>1, <1>2, <1>3 DEF ResultSound, Decides, DueAnswer

\* A step of the builder is a step of BuildCalls, or shows nothing.
LEMMA StepImplements ==
  ASSUME BuildInv, BuildInv', Contract', [Next]_vars
  PROVE  [Builds!Next]_(Builds!vars)
<1>1. CASE UNCHANGED vars
  BY <1>1 DEF vars, plan, Builds!vars
<1>2. CASE Next
  <2>1. CASE UNCHANGED <<edges, problem, settings, token, result>>
    BY <2>1 DEF Builds!vars
  <2>2. CASE Cancel
    BY <2>2 DEF Cancel, config, plan, Builds!Next, Builds!Cancel
  <2>3. CASE /\ result = Pending /\ stage' = "returned"
             /\ UNCHANGED <<edges, problem, settings, token>>
             /\ \/ \E value : result' = [kind |-> "ok", value |-> value]
                \/ \E kind \in Errors : result' = Outcome(kind)
    <3>1. /\ result'.kind = "ok" => ~Refuses(problem, V, edges) /\ result'.value = Builds!Solutions
          /\ result'.kind = "problem_error" => Refuses(problem, V, edges)
          /\ result'.kind = "cancelled" => token
      <4>1. DueAnswer'
        <5>1. (BuildInv /\ Contract /\ stage = "returned" => DueAnswer)'
          BY AnswerIsDue, PTL
        <5> QED
          BY <2>3, <5>1
      <4>2. Builds!Solutions' = Builds!Solutions
        BY <2>3 DEF Builds!Solutions
      <4> QED
        BY <2>3, <4>1, <4>2 DEF DueAnswer
    <3>2. Builds!Returning
      BY <2>3 DEF Builds!Returning, Builds!Pending, Pending, Zero
    <3>3. CASE \E value : result' = [kind |-> "ok", value |-> value]
      BY <3>1, <3>2, <3>3 DEF Builds!Next, Builds!Answer, Builds!Succeed
    <3>4. CASE \E kind \in Errors : result' = Outcome(kind)
      <4>1. PICK kind \in Errors : result' = [kind |-> kind, value |-> {}]
        BY <3>4 DEF Outcome, Zero
      <4>2. Builds!Fail(kind)
        BY <3>1, <3>2, <4>1 DEF Builds!Fail
      <4> QED
        BY <4>1, <4>2 DEF Builds!Next, Builds!Answer, Builds!Limits, Errors
    <3> QED
      BY <2>3, <3>3, <3>4
  <2> QED
    BY <1>2, <2>1, <2>2, <2>3, AnswerOnce
<1> QED
  BY <1>1, <1>2

\* The safety of ImplementsBuildCalls for any problem that decides its property,
\* any graph and any limits: a build answers once, with exactly the solutions
\* of the problem, or with an error that is due, and its own error exactly when
\* the problem is to be refused (docs/api.md section 9).
THEOREM BuildsImplementCalls == Spec /\ []RunsDecide => Builds!Spec
<1>1. Init => Builds!Init
  BY DEF Init, PlanInit, Builds!Init, Builds!Pending, Pending, Zero
<1>2. BuildInv /\ BuildInv' /\ Contract' /\ [Next]_vars => [Builds!Next]_(Builds!vars)
  BY StepImplements
<1> QED
  BY <1>1, <1>2, Invariance, ContractLasts, PTL DEF Spec, Builds!Spec

----------------------------------------------------------------------------
(* The states a problem reaches, without limits.                           *)

\* What the states `from` lead to at level n.
ReachedNext(n, from) == Follow(from, n, "exclude") \union Follow(from, n, "include")

IsReach(n, f) == f = [i \in 0 .. n |-> IF i = 0 THEN FirstState ELSE ReachedNext(i, f[i - 1])]

\* The states of any number of levels.
LEMMA ReachExists ==
  ASSUME NEW n \in Nat
  PROVE  \E f : IsReach(n, f)
<1> DEFINE Good == {m \in Nat : \E f : f = [i \in 0 .. m |-> IF i = 0 THEN FirstState ELSE ReachedNext(i, f[i - 1])]}
<1>1. 0 \in Good
  <2> DEFINE g == [i \in 0 .. 0 |-> FirstState]
  <2>1. g = [i \in 0 .. 0 |-> IF i = 0 THEN FirstState ELSE ReachedNext(i, g[i - 1])]
    OBVIOUS
  <2> QED
    BY <2>1
<1>2. ASSUME NEW m \in Nat, m \in Good
      PROVE  m + 1 \in Good
  <2>1. PICK f : f = [i \in 0 .. m |-> IF i = 0 THEN FirstState ELSE ReachedNext(i, f[i - 1])]
    BY <1>2
  <2> DEFINE g == [i \in 0 .. m + 1 |-> IF i = m + 1 THEN ReachedNext(m + 1, f[m]) ELSE f[i]]
  <2>2. \A i \in 0 .. m + 1 : g[i] = IF i = 0 THEN FirstState ELSE ReachedNext(i, g[i - 1])
    <3> TAKE i \in 0 .. m + 1
    <3>1. CASE i = m + 1
      <4>1. g[i] = ReachedNext(m + 1, f[m]) /\ i # 0 /\ i - 1 = m /\ m \in 0 .. m + 1 /\ m # m + 1
        BY <3>1
      <4>2. g[m] = f[m]
        BY <4>1
      <4> HIDE DEF g
      <4> QED
        BY <3>1, <4>1, <4>2
    <3>2. CASE i = 0
      <4>1. 0 \in 0 .. m + 1 /\ 0 # m + 1 /\ 0 \in 0 .. m
        OBVIOUS
      <4>2. g[0] = f[0]
        BY <4>1
      <4>3. f[0] = FirstState
        BY <2>1, <4>1
      <4> HIDE DEF g
      <4> QED
        BY <3>2, <4>2, <4>3
    <3>3. CASE i # m + 1 /\ i # 0
      <4>1. i \in 0 .. m /\ i - 1 \in 0 .. m + 1 /\ i - 1 # m + 1
        BY <3>3
      <4>2. g[i] = f[i] /\ g[i - 1] = f[i - 1]
        BY <3>3, <4>1
      <4>3. f[i] = ReachedNext(i, f[i - 1])
        BY <2>1, <3>3, <4>1
      <4> HIDE DEF g
      <4> QED
        BY <3>3, <4>2, <4>3
    <3> QED
      BY <3>1, <3>2, <3>3
  <2>3. g = [i \in 0 .. m + 1 |-> g[i]]
    OBVIOUS
  <2> HIDE DEF g
  <2>4. g = [i \in 0 .. m + 1 |-> IF i = 0 THEN FirstState ELSE ReachedNext(i, g[i - 1])]
    BY <2>2, <2>3, Zenon
  <2> QED
    BY <2>4
<1> HIDE DEF Good
<1>3. 0 .. n \subseteq Good
  BY <1>1, <1>2, SetInduction
<1>4. n \in Good
  BY <1>3
<1>5. PICK f : f = [i \in 0 .. n |-> IF i = 0 THEN FirstState ELSE ReachedNext(i, f[i - 1])]
  BY <1>4 DEF Good
<1> QED
  BY <1>5 DEF IsReach

\* The states reached, level by level.
ReachUnfolds ==
  /\ Reached[0] = FirstState
  /\ \A n \in 1 .. Len(edges) : Reached[n] = ReachedNext(n, Reached[n - 1])

\* They unfold in every state.
LEMMA ReachUnfoldsAlways == Len(edges) \in Nat => ReachUnfolds
<1> SUFFICES ASSUME Len(edges) \in Nat PROVE ReachUnfolds
  OBVIOUS
<1> DEFINE F == CHOOSE f : f = [i \in 0 .. Len(edges) |-> IF i = 0 THEN FirstState ELSE ReachedNext(i, f[i - 1])]
<1>1. Reached = F
  BY DEF Reached, ReachedNext
<1>2. \E f : f = [i \in 0 .. Len(edges) |-> IF i = 0 THEN FirstState ELSE ReachedNext(i, f[i - 1])]
  <2>1. \E f : IsReach(Len(edges), f)
    BY ReachExists
  <2> QED
    BY <2>1, Zenon DEF IsReach
<1>3. F = [i \in 0 .. Len(edges) |-> IF i = 0 THEN FirstState ELSE ReachedNext(i, F[i - 1])]
  BY <1>2, Zenon
<1> HIDE DEF F
<1>4. F[0] = FirstState /\ \A n \in 1 .. Len(edges) : F[n] = ReachedNext(n, F[n - 1])
  <2>1. \A i \in 0 .. Len(edges) : F[i] = IF i = 0 THEN FirstState ELSE ReachedNext(i, F[i - 1])
    BY <1>3, Zenon
  <2> QED
    BY <2>1
<1> QED
  BY <1>1, <1>4 DEF ReachUnfolds

\* What states lead to does not change while the configuration stays.
LEMMA ReachStays ==
  ASSUME UNCHANGED config, Len(edges) \in Nat
  PROVE  \A n \in 0 .. Len(edges) : (Reached[n])' = Reached[n]
<1>1. ReachUnfolds
  BY ReachUnfoldsAlways
<1>2. (Len(edges) \in Nat => ReachUnfolds)'
  BY ReachUnfoldsAlways, PTL
<1>3. edges' = edges /\ FirstState' = FirstState
  BY ConfigStays DEF config, plan
<1>4. ReachUnfolds'
  BY <1>2, <1>3
<1> DEFINE Good == {n \in 0 .. Len(edges) : (Reached[n])' = Reached[n]}
<1>5. 0 \in Good
  BY <1>1, <1>3, <1>4 DEF ReachUnfolds
<1>6. ASSUME NEW n \in Nat, n < Len(edges), n \in Good
      PROVE  n + 1 \in Good
  <2>1. n + 1 \in 1 .. Len(edges) /\ (n + 1) - 1 = n /\ n + 1 \in 0 .. Len(edges)
    BY <1>6
  <2>2. (Reached[n + 1])' = ReachedNext(n + 1, Reached[n])'
    <3>1. (Reached[n + 1])' = ReachedNext(n + 1, Reached[(n + 1) - 1])'
      BY <1>3, <1>4, <2>1 DEF ReachUnfolds
    <3> QED
      BY <2>1, <3>1
  <2>3. PICK from : from = Reached[n]
    OBVIOUS
  <2>4. (Reached[n])' = from
    BY <1>6, <2>3
  <2>5. ReachedNext(n + 1, Reached[n])' = ReachedNext(n + 1, from)'
    BY <2>4 DEF ReachedNext, Follow
  <2>6. ReachedNext(n + 1, from)' = ReachedNext(n + 1, from)
    <3>1. \A choice : Follow(from, n + 1, choice)' = Follow(from, n + 1, choice)
      BY ConfigStays
    <3> QED
      BY <3>1 DEF ReachedNext
  <2>7. Reached[n + 1] = ReachedNext(n + 1, Reached[(n + 1) - 1])
    BY <1>1, <2>1 DEF ReachUnfolds
  <2>8. (Reached[n + 1])' = Reached[n + 1]
    BY <2>1, <2>2, <2>3, <2>5, <2>6, <2>7
  <2> QED
    BY <2>1, <2>8
<1>7. 0 .. Len(edges) \subseteq Good
  <2> HIDE DEF Good
  <2> QED
    BY <1>5, <1>6, SetInduction
<1> QED
  BY <1>7

\* Finitely many states lead to finitely many.
LEMMA FollowFinite ==
  ASSUME NEW from, IsFiniteSet(from), NEW n, NEW choice
  PROVE  IsFiniteSet(Follow(from, n, choice))
<1> DEFINE C(s) == Canonical(Transition(problem, s, steps[n], choice), BoundaryView(n))
           Images == {C(s) : s \in from}
<1>1. \A s : IsOption(C(s))
  BY CanonicalIsOption
<1>2. Follow(from, n, choice) = UNION Images
  BY DEF Follow
<1> HIDE DEF C
<1>3. IsFiniteSet(Images)
  <2> DEFINE f == [s \in from |-> C(s)]
  <2>1. f \in Surjection(from, Images)
    BY DEF Surjection
  <2> QED
    BY <2>1, FS_Surjection DEF ExistsSurjection
<1>4. ASSUME NEW s \in from
      PROVE  IsFiniteSet(C(s))
  <2>1. CASE C(s) = {}
    BY <2>1, FS_EmptySet
  <2>2. CASE C(s) # {}
    <3>1. PICK x : x \in C(s)
      BY <2>2
    <3>2. C(s) = {x}
      BY <1>1, <3>1 DEF IsOption
    <3>3. IsFiniteSet({x})
      BY FS_Singleton
    <3> QED
      BY <3>2, <3>3
  <2> QED
    BY <2>1, <2>2
<1>5. \A T \in Images : IsFiniteSet(T)
  BY <1>4
<1> QED
  BY <1>2, <1>3, <1>5, FS_UNION

\* The states of a level can be counted.
Width(n) == Cardinality(Reached[n])

\* Every level has finitely many states, the first at most one.
LEMMA ReachFinite ==
  ASSUME Len(edges) \in Nat
  PROVE  /\ \A n \in 0 .. Len(edges) : IsFiniteSet(Reached[n]) /\ Width(n) \in Nat
         /\ FirstState # {} => Width(0) = 1
<1>1. ReachUnfolds
  BY ReachUnfoldsAlways
<1>2. FirstState = {} \/ \E x : FirstState = {x}
  <2>1. IsOption(FirstState)
    BY CanonicalIsOption DEF FirstState
  <2>2. ASSUME NEW x \in FirstState PROVE FirstState = {x}
    BY <2>1 DEF IsOption
  <2> QED
    BY <2>2
<1>3. IsFiniteSet(FirstState)
  BY <1>2, FS_EmptySet, FS_Singleton
<1> DEFINE Good == {n \in 0 .. Len(edges) : IsFiniteSet(Reached[n])}
<1>4. 0 \in Good
  BY <1>1, <1>3 DEF ReachUnfolds
<1>5. ASSUME NEW n \in Nat, n < Len(edges), n \in Good
      PROVE  n + 1 \in Good
  <2>1. n + 1 \in 1 .. Len(edges) /\ (n + 1) - 1 = n /\ n + 1 \in 0 .. Len(edges)
    BY <1>5
  <2>2. Reached[n + 1] = ReachedNext(n + 1, Reached[n])
    <3>1. Reached[n + 1] = ReachedNext(n + 1, Reached[(n + 1) - 1])
      BY <1>1, <2>1 DEF ReachUnfolds
    <3> QED
      BY <2>1, <3>1
  <2>3. IsFiniteSet(Reached[n])
    BY <1>5
  <2>4. \A choice : IsFiniteSet(Follow(Reached[n], n + 1, choice))
    BY <2>3, FollowFinite
  <2>5. IsFiniteSet(Reached[n + 1])
    BY <2>2, <2>4, FS_Union DEF ReachedNext
  <2> QED
    BY <2>1, <2>5
<1>6. 0 .. Len(edges) \subseteq Good
  <2> HIDE DEF Good
  <2> QED
    BY <1>4, <1>5, SetInduction
<1>7. \A n \in 0 .. Len(edges) : IsFiniteSet(Reached[n]) /\ Width(n) \in Nat
  BY <1>6, FS_CardinalityType DEF Width
<1>8. FirstState # {} => Width(0) = 1
  BY <1>1, <1>2, FS_Singleton DEF Width, ReachUnfolds
<1> QED
  BY <1>7, <1>8

----------------------------------------------------------------------------
(* Totals.                                                                 *)

\* The sum with the entry i added.
SumNext(q, i, s) == s + q[i]

IsSum(q, n, f) == f = [i \in 0 .. n |-> IF i = 0 THEN 0 ELSE SumNext(q, i, f[i - 1])]

\* There are partial sums of any number of entries.
LEMMA SumExists ==
  ASSUME NEW q, NEW n \in Nat
  PROVE  \E f : IsSum(q, n, f)
<1> DEFINE Good == {m \in Nat : \E f : f = [i \in 0 .. m |-> IF i = 0 THEN 0 ELSE SumNext(q, i, f[i - 1])]}
<1>1. 0 \in Good
  <2> DEFINE g == [i \in 0 .. 0 |-> 0]
  <2>1. g = [i \in 0 .. 0 |-> IF i = 0 THEN 0 ELSE SumNext(q, i, g[i - 1])]
    OBVIOUS
  <2> QED
    BY <2>1
<1>2. ASSUME NEW m \in Nat, m \in Good
      PROVE  m + 1 \in Good
  <2>1. PICK f : f = [i \in 0 .. m |-> IF i = 0 THEN 0 ELSE SumNext(q, i, f[i - 1])]
    BY <1>2
  <2> DEFINE g == [i \in 0 .. m + 1 |-> IF i = m + 1 THEN SumNext(q, m + 1, f[m]) ELSE f[i]]
  <2>2. \A i \in 0 .. m + 1 : g[i] = IF i = 0 THEN 0 ELSE SumNext(q, i, g[i - 1])
    <3> TAKE i \in 0 .. m + 1
    <3>1. CASE i = m + 1
      <4>1. g[i] = SumNext(q, m + 1, f[m]) /\ i # 0 /\ i - 1 = m /\ m \in 0 .. m + 1 /\ m # m + 1
        BY <3>1
      <4>2. g[m] = f[m]
        BY <4>1
      <4> HIDE DEF g
      <4> QED
        BY <3>1, <4>1, <4>2
    <3>2. CASE i = 0
      <4>1. 0 \in 0 .. m + 1 /\ 0 # m + 1 /\ 0 \in 0 .. m
        OBVIOUS
      <4>2. g[0] = f[0]
        BY <4>1
      <4>3. f[0] = 0
        BY <2>1, <4>1
      <4> HIDE DEF g
      <4> QED
        BY <3>2, <4>2, <4>3
    <3>3. CASE i # m + 1 /\ i # 0
      <4>1. i \in 0 .. m /\ i - 1 \in 0 .. m + 1 /\ i - 1 # m + 1
        BY <3>3
      <4>2. g[i] = f[i] /\ g[i - 1] = f[i - 1]
        BY <3>3, <4>1
      <4>3. f[i] = SumNext(q, i, f[i - 1])
        BY <2>1, <3>3, <4>1
      <4> HIDE DEF g
      <4> QED
        BY <3>3, <4>2, <4>3
    <3> QED
      BY <3>1, <3>2, <3>3
  <2>3. g = [i \in 0 .. m + 1 |-> g[i]]
    OBVIOUS
  <2> HIDE DEF g
  <2>4. g = [i \in 0 .. m + 1 |-> IF i = 0 THEN 0 ELSE SumNext(q, i, g[i - 1])]
    BY <2>2, <2>3, Zenon
  <2> QED
    BY <2>4
<1> HIDE DEF Good
<1>3. 0 .. n \subseteq Good
  BY <1>1, <1>2, SetInduction
<1>4. n \in Good
  BY <1>3
<1>5. PICK f : f = [i \in 0 .. n |-> IF i = 0 THEN 0 ELSE SumNext(q, i, f[i - 1])]
  BY <1>4 DEF Good
<1> QED
  BY <1>5 DEF IsSum

\* The partial sums of q.
SumsOf(q, f) ==
  /\ f[0] = 0
  /\ \A n \in 1 .. Len(q) : f[n] = f[n - 1] + q[n]
  /\ Total(q) = f[Len(q)]

\* A total is the last partial sum.
LEMMA TotalUnfolds ==
  ASSUME NEW q, Len(q) \in Nat
  PROVE  \E f : SumsOf(q, f)
<1> DEFINE F == CHOOSE f : f = [i \in 0 .. Len(q) |-> IF i = 0 THEN 0 ELSE SumNext(q, i, f[i - 1])]
<1>1. Total(q) = F[Len(q)]
  BY DEF Total, SumNext
<1>2. \E f : f = [i \in 0 .. Len(q) |-> IF i = 0 THEN 0 ELSE SumNext(q, i, f[i - 1])]
  <2>1. \E f : IsSum(q, Len(q), f)
    BY SumExists
  <2> QED
    BY <2>1, Zenon DEF IsSum
<1>3. F = [i \in 0 .. Len(q) |-> IF i = 0 THEN 0 ELSE SumNext(q, i, F[i - 1])]
  BY <1>2, Zenon
<1> HIDE DEF F
<1>4. F[0] = 0 /\ \A n \in 1 .. Len(q) : F[n] = SumNext(q, n, F[n - 1])
  <2>1. \A i \in 0 .. Len(q) : F[i] = IF i = 0 THEN 0 ELSE SumNext(q, i, F[i - 1])
    BY <1>3, Zenon
  <2> QED
    BY <2>1
<1> QED
  BY <1>1, <1>4 DEF SumNext, SumsOf

\* The total of one entry more, and of the same entries.
LEMMA TotalExtends ==
  ASSUME NEW p, NEW q, NEW n \in Nat, Len(p) = n, \A i \in 1 .. n : p[i] = q[i]
  PROVE  /\ Len(q) = n => Total(q) = Total(p)
         /\ Len(q) = n + 1 => Total(q) = Total(p) + q[n + 1]
         /\ n = 0 => Total(p) = 0
         /\ (\A i \in 1 .. n : p[i] \in Nat) => Total(p) \in Nat
<1>0. PICK f : SumsOf(p, f)
  BY TotalUnfolds
<1>1. f[0] = 0 /\ (\A i \in 1 .. n : f[i] = f[i - 1] + p[i]) /\ Total(p) = f[n]
  BY <1>0 DEF SumsOf
<1>2. ASSUME \A i \in 1 .. n : p[i] \in Nat PROVE f[n] \in Nat
  <2> DEFINE Good == {i \in 0 .. n : f[i] \in Nat}
  <2>1. 0 \in Good
    BY <1>1
  <2>2. ASSUME NEW i \in Nat, i < n, i \in Good PROVE i + 1 \in Good
    <3>1. i + 1 \in 1 .. n /\ (i + 1) - 1 = i /\ i + 1 \in 0 .. n
      BY <2>2
    <3>2. f[i + 1] = f[i] + p[i + 1] /\ p[i + 1] \in Nat /\ f[i] \in Nat
      BY <1>1, <1>2, <2>2, <3>1
    <3>3. f[i + 1] \in Nat
      BY <3>2
    <3> QED
      BY <3>1, <3>3
  <2>3. 0 .. n \subseteq Good
    <3> HIDE DEF Good
    <3> QED
      BY <2>1, <2>2, SetInduction
  <2> QED
    BY <2>3
<1>3. ASSUME NEW m \in Nat, Len(q) = m, n <= m
      PROVE  \E g : g[n] = f[n] /\ (\A i \in 1 .. m : g[i] = g[i - 1] + q[i]) /\ Total(q) = g[m]
  <2>0. PICK g : SumsOf(q, g)
    BY <1>3, TotalUnfolds
  <2>1. g[0] = 0 /\ (\A i \in 1 .. m : g[i] = g[i - 1] + q[i]) /\ Total(q) = g[m]
    BY <1>3, <2>0 DEF SumsOf
  <2> DEFINE Good == {i \in 0 .. n : g[i] = f[i]}
  <2>2. 0 \in Good
    BY <1>1, <2>1
  <2>3. ASSUME NEW i \in Nat, i < n, i \in Good PROVE i + 1 \in Good
    <3>1. i + 1 \in 1 .. n /\ (i + 1) - 1 = i /\ i + 1 \in 0 .. n /\ i + 1 \in 1 .. m
      BY <1>3, <2>3
    <3>2. f[i + 1] = f[i] + p[i + 1] /\ g[i + 1] = g[i] + q[i + 1] /\ g[i] = f[i]
      BY <1>1, <2>1, <2>3, <3>1
    <3>3. g[i + 1] = f[i + 1]
      BY <3>1, <3>2
    <3> QED
      BY <3>1, <3>3
  <2>4. 0 .. n \subseteq Good
    <3> HIDE DEF Good
    <3> QED
      BY <2>2, <2>3, SetInduction
  <2>5. n \in 0 .. n
    OBVIOUS
  <2> QED
    BY <2>1, <2>4, <2>5
<1>4. ASSUME Len(q) = n PROVE Total(q) = Total(p)
  <2>1. PICK g : g[n] = f[n] /\ (\A i \in 1 .. n : g[i] = g[i - 1] + q[i]) /\ Total(q) = g[n]
    <3>1. n <= n
      OBVIOUS
    <3> QED
      BY <1>3, <1>4, <3>1, Zenon
  <2> QED
    BY <1>1, <2>1
<1>5. ASSUME Len(q) = n + 1 PROVE Total(q) = Total(p) + q[n + 1]
  <2>1. n + 1 \in 1 .. n + 1 /\ (n + 1) - 1 = n /\ n + 1 \in Nat /\ n <= n + 1
    OBVIOUS
  <2>2. PICK g : g[n] = f[n] /\ (\A i \in 1 .. n + 1 : g[i] = g[i - 1] + q[i]) /\ Total(q) = g[n + 1]
    BY <1>3, <1>5, <2>1
  <2> QED
    BY <1>1, <2>1, <2>2
<1> QED
  BY <1>1, <1>2, <1>4, <1>5

\* The states of the first k levels.
Before(k) == Total([i \in 1 .. k |-> Width(i - 1)])

\* The number of states of the first levels, level by level.
LEMMA BeforeUnfolds ==
  ASSUME Len(edges) \in Nat
  PROVE  /\ Before(0) = 0
         /\ \A k \in 0 .. Len(edges) : Before(k) \in Nat
         /\ \A k \in 0 .. Len(edges) - 1 : Before(k + 1) = Before(k) + Width(k)
<1> DEFINE q(k) == [i \in 1 .. k |-> Width(i - 1)]
<1>1. ASSUME NEW k \in Nat, k <= Len(edges)
      PROVE  Len(q(k)) = k /\ \A i \in 1 .. k : q(k)[i] = Width(i - 1) /\ q(k)[i] \in Nat
  <2>1. \A i \in 1 .. k : Width(i - 1) \in Nat
    <3> TAKE i \in 1 .. k
    <3>1. i - 1 \in 0 .. Len(edges)
      BY <1>1
    <3> QED
      BY <3>1, ReachFinite
  <2>2. q(k) \in [1 .. k -> Nat]
    BY <2>1
  <2>3. q(k) \in Seq(Nat)
    BY <1>1, <2>2, SeqDef
  <2> QED
    BY <1>1, <2>2, <2>3, LenProperties
<1>2. \A k : Before(k) = Total(q(k))
  BY DEF Before
<1> HIDE DEF q
<1>3. Before(0) = 0
  BY <1>1, <1>2, TotalExtends
<1>4. ASSUME NEW k \in 0 .. Len(edges) PROVE Before(k) \in Nat
  BY <1>1, <1>2, TotalExtends
<1>5. ASSUME NEW k \in 0 .. Len(edges) - 1 PROVE Before(k + 1) = Before(k) + Width(k)
  <2>1. k + 1 \in Nat /\ k + 1 <= Len(edges) /\ k <= Len(edges) /\ k \in Nat
    OBVIOUS
  <2>2. \A i \in 1 .. k : q(k)[i] = q(k + 1)[i]
    BY <1>1, <2>1
  <2>3. k + 1 \in 1 .. k + 1 /\ (k + 1) - 1 = k
    BY <2>1
  <2>4. q(k + 1)[k + 1] = Width((k + 1) - 1)
    BY <1>1, <2>1, <2>3
  <2>5. Total(q(k + 1)) = Total(q(k)) + q(k + 1)[k + 1]
    BY <1>1, <2>1, <2>2, TotalExtends
  <2> QED
    BY <1>2, <2>3, <2>4, <2>5
<1> QED
  BY <1>3, <1>4, <1>5

\* More levels do not have fewer states.
LEMMA BeforeGrows ==
  ASSUME Len(edges) \in Nat, NEW k \in 0 .. Len(edges)
  PROVE  Before(k) <= Before(Len(edges))
<1> DEFINE Good == {j \in 0 .. Len(edges) : j >= k => Before(k) <= Before(j)}
<1>1. 0 \in Good
  BY BeforeUnfolds
<1>2. ASSUME NEW j \in Nat, j < Len(edges), j \in Good PROVE j + 1 \in Good
  <2>1. j + 1 \in 0 .. Len(edges) /\ j \in 0 .. Len(edges) - 1 /\ j \in 0 .. Len(edges)
    BY <1>2
  <2>2. /\ Before(j + 1) = Before(j) + Width(j) /\ Width(j) \in Nat
        /\ Before(k) \in Nat /\ Before(j) \in Nat /\ Before(j + 1) \in Nat
    BY <2>1, BeforeUnfolds, ReachFinite
  <2>3. CASE j >= k
    <3>1. Before(k) <= Before(j + 1)
      BY <1>2, <2>2, <2>3
    <3> QED
      BY <2>1, <3>1
  <2>4. CASE j + 1 = k
    <3>1. Before(k) <= Before(j + 1)
      BY <2>2, <2>4
    <3> QED
      BY <2>1, <3>1
  <2>5. CASE j + 1 < k
    <3>1. ~(j + 1 >= k)
      BY <2>5
    <3> QED
      BY <2>1, <3>1
  <2> QED
    BY <2>1, <2>3, <2>4, <2>5
<1>3. 0 .. Len(edges) \subseteq Good
  <2> HIDE DEF Good
  <2> QED
    BY <1>1, <1>2, SetInduction
<1>4. Len(edges) \in 0 .. Len(edges) /\ Len(edges) >= k
  OBVIOUS
<1> QED
  BY <1>3, <1>4

\* The widths of the levels, as the properties add them up.
LEMMA WidthsAreBefore ==
  ASSUME Len(edges) \in Nat, Levels = 1 .. Len(edges)
  PROVE  Total([n \in Levels |-> Width(n - 1)]) = Before(Len(edges))
BY DEF Before

----------------------------------------------------------------------------
(* The layers of a build are those of the problem.                         *)

\* The first k levels, and the first, keep to the limit of states.
Fit(k) == \A i \in 0 .. k : Width(i) <= limits.states

TooWide == \E n \in 0 .. Len(edges) : Width(n) > limits.states

\* The layer at work has exactly the states its level can reach, and the next
\* one has none that its level cannot.
StatesReached ==
  /\ stage \in {"forward", "finalize"} => Distinct(states) /\ Elements(states) = Reached[Len(tape)]
  /\ stage = "forward" => Elements(next_ids) \subseteq Reached[Layer]

\* The completed layers have one row per state.
LayersCounted ==
  stage \in {"forward", "finalize", "backward"} => \A k \in 1 .. Len(tape) : Len(tape[k]) = Width(k - 1)

\* The layers keep to the limit until a build gives up.
LayersFit ==
  /\ stage = "forward" => Fit(Len(tape)) /\ Len(next_ids) <= limits.states
  /\ stage \in {"finalize", "backward"} => Fit(Len(edges))
  /\ result.kind \in {"ok", "node_limit"} => Fit(Len(edges))
  /\ result.kind = "states_limit" => TooWide

LayersInv == StatesReached /\ LayersCounted /\ LayersFit

\* A set of numbers that is not empty has a least element.
LEMMA MinIsLeast ==
  ASSUME NEW S \in SUBSET Nat, S # {}
  PROVE  Min(S) \in S /\ \A y \in S : Min(S) <= y
<1>1. PICK x \in S : \A y \in S : ~ (<<y, x>> \in OpToRel(<, Nat))
  BY NatLessThanWellFounded, WFMin, Zenon
<1>2. \A y \in S : x =< y
  <2> TAKE y \in S
  <2>1. x \in Nat /\ y \in Nat
    OBVIOUS
  <2>2. CASE y < x
    <3>1. <<y, x>> \in Nat \X Nat /\ <<y, x>>[1] = y /\ <<y, x>>[2] = x
      BY <2>1
    <3>2. <<y, x>> \in OpToRel(<, Nat)
      BY <2>2, <3>1, Zenon DEF OpToRel
    <3> QED
      BY <1>1, <3>2
  <2> QED
    BY <2>1, <2>2
<1>3. Min(S) \in S /\ \A y \in S : Min(S) =< y
  BY <1>2, Zenon DEF Min
<1> QED
  BY <1>3

\* A build is configured as the constants say.
Configured == edges \in Orders /\ problem \in Problems /\ settings \in Settings(problem, edges)

\* The configuration of a build is chosen once.
LEMMA ConfiguredAlways == Spec => []Configured
<1>1. Init => Configured
  BY DEF Init, PlanInit, Configured
<1>2. BuildInv /\ Configured /\ [Next]_vars => Configured'
  <2>1. ASSUME UNCHANGED <<edges, problem, settings>>, Configured PROVE Configured'
    BY <2>1 DEF Configured
  <2>2. ASSUME BuildInv, Next PROVE UNCHANGED <<edges, problem, settings>>
    BY <2>2, AnswerOnce DEF Cancel, config, plan
  <2> QED
    BY <2>1, <2>2 DEF vars, plan
<1> QED
  BY <1>1, <1>2, Invariance, PTL DEF Spec

\* The limits of a build are numbers.
LEMMA LimitsTyped ==
  ASSUME Configured
  PROVE  limits.states \in Nat /\ limits.transitions \in Nat /\ limits.spare \in Nat
         /\ settings.attached \in BOOLEAN
<1>1. /\ settings.space \in [states : Nat, transitions : Nat, spare : Nat]
      /\ settings.requested \in SUBSET Requests
      /\ settings.attached \in BOOLEAN
  BY BuilderAssumption DEF Configured
<1>2. PICK a : a = Min({settings.space.states} \union {r.states : r \in settings.requested})
  OBVIOUS
<1>3. PICK b : b = Min({settings.space.transitions} \union {r.transitions : r \in settings.requested})
  OBVIOUS
<1>4. a \in Nat
  <2>1. {settings.space.states} \union {r.states : r \in settings.requested} \in SUBSET Nat
    BY <1>1 DEF Requests
  <2> QED
    BY <1>2, <2>1, MinIsLeast
<1>5. b \in Nat
  <2>1. {settings.space.transitions} \union {r.transitions : r \in settings.requested} \in SUBSET Nat
    BY <1>1 DEF Requests
  <2> QED
    BY <1>3, <2>1, MinIsLeast
<1>6. limits = [settings.space EXCEPT !.states = a, !.transitions = b]
  BY <1>2, <1>3 DEF limits
<1> QED
  BY <1>1, <1>4, <1>5, <1>6

\* The states that a set of states leads to, state by state.
LEMMA FollowEach ==
  ASSUME NEW from, NEW n, NEW choice
  PROVE  \A x : x \in Follow(from, n, choice) <=> \E s \in from : x \in Follow({s}, n, choice)
<1> DEFINE C(s) == Canonical(Transition(problem, s, steps[n], choice), BoundaryView(n))
<1>1. \A s : Follow({s}, n, choice) = C(s)
  BY FollowOption
<1>2. Follow(from, n, choice) = UNION {C(s) : s \in from}
  BY DEF Follow
<1> HIDE DEF C
<1> QED
  BY <1>1, <1>2

\* A sequence without repetitions has as many elements as entries.
LEMMA DistinctLength ==
  ASSUME NEW q, q \in Seq(Elements(q)), Distinct(q)
  PROVE  Len(q) \in Nat /\ IsFiniteSet(Elements(q)) /\ Cardinality(Elements(q)) = Len(q)
<1>1. Len(q) \in Nat /\ DOMAIN q = 1 .. Len(q) /\ q \in [1 .. Len(q) -> Elements(q)]
  BY LenProperties
<1>2. q \in Bijection(1 .. Len(q), Elements(q))
  <2>1. q \in Injection(1 .. Len(q), Elements(q))
    BY <1>1 DEF Injection, Distinct, IsInjective
  <2>2. q \in Surjection(1 .. Len(q), Elements(q))
    BY <1>1 DEF Surjection, Elements
  <2> QED
    BY <2>1, <2>2 DEF Bijection
<1>3. ExistsBijection(1 .. Len(q), Elements(q))
  BY <1>2 DEF ExistsBijection
<1>4. IsFiniteSet(1 .. Len(q)) /\ Cardinality(1 .. Len(q)) = Len(q)
  BY <1>1, FS_Interval
<1> QED
  BY <1>1, <1>3, <1>4, FS_Bijection

\* The widths, and what is compared with them, keep their values.
LEMMA WidthsStay ==
  ASSUME UNCHANGED config, Len(edges) \in Nat
  PROVE  /\ \A n \in 0 .. Len(edges) : Width(n)' = Width(n)
         /\ \A k \in 0 .. Len(edges) : Fit(k)' <=> Fit(k)
         /\ TooWide' <=> TooWide
         /\ \A k \in 0 .. Len(edges) : Before(k)' = Before(k)
<1>1. edges' = edges /\ limits' = limits
  BY ConfigStays DEF config, plan
<1>2. \A n \in 0 .. Len(edges) : Width(n)' = Width(n)
  BY ReachStays DEF Width
<1>3. ASSUME NEW k \in 0 .. Len(edges) PROVE Fit(k)' <=> Fit(k)
  <2>1. \A i \in 0 .. k : i \in 0 .. Len(edges)
    OBVIOUS
  <2> QED
    BY <1>1, <1>2, <2>1 DEF Fit
<1>4. TooWide' <=> TooWide
  BY <1>1, <1>2 DEF TooWide
<1>5. ASSUME NEW k \in 0 .. Len(edges) PROVE Before(k)' = Before(k)
  <2>1. \A i \in 1 .. k : i - 1 \in 0 .. Len(edges)
    OBVIOUS
  <2>2. \A i \in 1 .. k : Width(i - 1)' = Width(i - 1)
    BY <1>2, <2>1
  <2>3. [i \in 1 .. k |-> Width(i - 1)]' = [i \in 1 .. k |-> Width(i - 1)]
    BY <2>2
  <2>4. PICK q : q = [i \in 1 .. k |-> Width(i - 1)]
    OBVIOUS
  <2>5. Before(k) = Total(q)
    BY <2>4 DEF Before
  <2>6. Before(k)' = Total(q)
    BY <2>3, <2>4 DEF Before
  <2> QED
    BY <2>5, <2>6
<1> QED
  BY <1>2, <1>3, <1>4, <1>5

\* The layers of a build that is working number at most the levels.
LEMMA LayerInRange ==
  ASSUME BuildInv, stage \in {"forward", "finalize", "backward"}
  PROVE  /\ Len(tape) \in 0 .. Len(edges)
         /\ stage = "forward" => Len(tape) \in 0 .. Len(edges) - 1 /\ Layer = Len(tape) + 1
         /\ stage = "finalize" => Len(tape) = Len(edges)
<1>1. Len(edges) \in Nat
  BY EdgesTyped
<1>2. Len(tape) \in Nat /\ Len(tape) <= Len(edges)
  BY LenProperties DEF BuildInv, TapeSound
<1>3. stage = "forward" => Len(tape) < Len(edges)
  BY DEF BuildInv, LayerSound
<1> QED
  BY <1>1, <1>2, <1>3 DEF BuildInv, FinalSound, Layer

\* A step that leaves the layers alone.
LEMMA LayersStay ==
  ASSUME BuildInv, LayersInv, UNCHANGED <<config, stage, states, next_ids, tape, result>>
  PROVE  LayersInv'
<1>1. Len(edges) \in Nat /\ edges' = edges /\ limits' = limits
  BY EdgesTyped, ConfigStays DEF config, plan
<1>2. StatesReached'
  <2>1. ASSUME stage \in {"forward", "finalize"} PROVE (Elements(states) = Reached[Len(tape)])'
    <3>1. PICK n : n = Len(tape)
      OBVIOUS
    <3>2. n \in 0 .. Len(edges)
      BY <2>1, <3>1, LayerInRange
    <3>3. (Reached[Len(tape)])' = (Reached[n])'
      BY <3>1
    <3> QED
      BY <1>1, <2>1, <3>1, <3>2, <3>3, ReachStays DEF LayersInv, StatesReached
  <2>2. ASSUME stage = "forward" PROVE (Elements(next_ids) \subseteq Reached[Layer])'
    <3>1. PICK n : n = Layer
      OBVIOUS
    <3>2. n \in 0 .. Len(edges)
      BY <1>1, <2>2, <3>1, LayerInRange
    <3>3. (Reached[Layer])' = (Reached[n])'
      BY <3>1 DEF Layer
    <3> QED
      BY <1>1, <2>2, <3>1, <3>2, <3>3, ReachStays DEF LayersInv, StatesReached
  <2> QED
    BY <2>1, <2>2 DEF LayersInv, StatesReached
<1>3. LayersCounted'
  <2>1. ASSUME stage \in {"forward", "finalize", "backward"}, NEW k \in 1 .. Len(tape)
        PROVE  (Len(tape[k]) = Width(k - 1))'
    <3>1. k - 1 \in 0 .. Len(edges)
      BY <2>1, LayerInRange
    <3> QED
      BY <1>1, <2>1, <3>1, WidthsStay DEF LayersInv, LayersCounted
  <2> QED
    BY <2>1 DEF LayersCounted
<1>4. LayersFit'
  <2>1. ASSUME stage = "forward" PROVE Fit(Len(tape))'
    <3>1. PICK n : n = Len(tape)
      OBVIOUS
    <3>2. n \in 0 .. Len(edges)
      BY <2>1, <3>1, LayerInRange
    <3>3. Fit(Len(tape))' <=> Fit(n)'
      BY <3>1 DEF Fit
    <3> QED
      BY <1>1, <2>1, <3>1, <3>2, <3>3, WidthsStay DEF LayersInv, LayersFit
  <2>2. PICK n : n = Len(edges)
    OBVIOUS
  <2>3. Fit(Len(edges))' <=> Fit(Len(edges))
    <3>1. Fit(Len(edges))' <=> Fit(n)'
      BY <1>1, <2>2 DEF Fit
    <3>2. n \in 0 .. Len(edges)
      BY <1>1, <2>2
    <3> QED
      BY <1>1, <2>2, <3>1, <3>2, WidthsStay
  <2>4. TooWide' <=> TooWide
    BY <1>1, WidthsStay
  <2> QED
    BY <1>1, <2>1, <2>3, <2>4 DEF LayersInv, LayersFit
<1> QED
  BY <1>2, <1>3, <1>4 DEF LayersInv

\* A layer completed has as many states as its level.
LEMMA StatesCounted ==
  ASSUME BuildInv, LayersInv, stage \in {"forward", "finalize"}
  PROVE  Len(states) \in Nat /\ Len(states) = Width(Len(tape))
<1>1. states \in Seq(Elements(states)) /\ Distinct(states) /\ Elements(states) = Reached[Len(tape)]
  BY DEF BuildInv, LayerSound, FinalSound, LayersInv, StatesReached
<1> QED
  BY <1>1, DistinctLength DEF Width

\* What the state at work leads to is reached at the next level.
LEMMA CandidateReached ==
  ASSUME BuildInv, LayersInv, CanTry
  PROVE  Candidate \subseteq Reached[Layer] /\ Layer \in 1 .. Len(edges)
<1>1. /\ stage = "forward" /\ source <= Len(states)
      /\ Candidate = Follow({states[source]}, Layer, Choice)
  BY CandidateFollows
<1>2. Len(edges) \in Nat /\ Layer = Len(tape) + 1 /\ Len(tape) \in 0 .. Len(edges) - 1
  BY <1>1, EdgesTyped, LayerInRange
<1>3. states[source] \in Reached[Len(tape)]
  <2>1. states \in Seq(Elements(states)) /\ source \in 1 .. Len(states) + 1
    BY <1>1 DEF BuildInv, LayerSound
  <2>2. source \in 1 .. Len(states)
    BY <1>1, <2>1, LenProperties
  <2>3. states[source] \in Elements(states)
    BY <2>1, <2>2, ElementOfSeq
  <2> QED
    BY <1>1, <2>3 DEF LayersInv, StatesReached
<1>4. Reached[Layer] = ReachedNext(Layer, Reached[Len(tape)])
  <2>1. Layer \in 1 .. Len(edges) /\ Layer - 1 = Len(tape)
    BY <1>2
  <2>2. ReachUnfolds
    BY <1>2, ReachUnfoldsAlways
  <2>3. Reached[Layer] = ReachedNext(Layer, Reached[Layer - 1])
    BY <2>1, <2>2 DEF ReachUnfolds
  <2> QED
    BY <2>1, <2>3
<1>5. \A x \in Candidate : x \in Follow(Reached[Len(tape)], Layer, Choice)
  BY <1>1, <1>3, FollowEach
<1>6. Choice \in {"exclude", "include"}
  <2>1. Len(targets) \in {0, 1}
    <3>1. targets \in Seq(Nat) /\ Len(targets) <= 1
      BY <1>1 DEF BuildInv, LayerSound
    <3>2. PICK n \in Nat : n = Len(targets)
      BY <3>1, LenProperties
    <3>3. n <= 1
      BY <3>1, <3>2
    <3> QED
      BY <3>2, <3>3
  <2> QED
    BY <2>1 DEF Choice, BothChoices
<1> QED
  BY <1>2, <1>4, <1>5, <1>6 DEF ReachedNext

\* The first layer has the first state, for which there is room.
LEMMA StartLayers ==
  ASSUME BuildInv, BuildInv', Configured, LayersInv, Start
  PROVE  LayersInv'
<1> USE DEF backward
<1>1. /\ stage = "plan" /\ phase = "done" /\ limits.states > 0
      /\ stage' = IF steps = << >> THEN "finalize" ELSE "forward"
      /\ UNCHANGED <<config, next_ids, tape, result>>
  BY DEF Start, ToStart
<1>2. PICK initial \in FirstState : states' = <<initial>>
  BY DEF Start
<1>3. NothingBuilt /\ result = Pending
  BY <1>1 DEF BuildInv, ResultSound
<1>4. PlanDone
  BY <1>1, WorkIsPlanned
<1>5. Len(edges) \in Nat /\ Len(steps) = Len(edges) /\ edges' = edges /\ limits' = limits
  BY <1>1, <1>4, StepsOfPlan, ConfigStays DEF config, plan
<1>6. tape' = << >> /\ Len(tape') = 0 /\ next_ids' = << >>
  BY <1>1, <1>3 DEF NothingBuilt
<1>7. FirstState = {initial}
  BY CanonicalIsOption DEF FirstState, IsOption
<1>8. Len(states') = 1 /\ states'[1] = initial /\ DOMAIN states' = {1}
  <2>1. states' \in Seq(Elements(states')) /\ Len(states') = 1 /\ states'[1] = initial
    BY <1>2, ShortSequences
  <2> QED
    BY <2>1, LenProperties
<1>9. Distinct(states)' /\ Elements(states') = {initial}
  BY <1>8 DEF Distinct, Elements
<1>10. (Reached[0])' = {initial} /\ Width(0) = 1 /\ 0 \in 0 .. Len(edges)
  BY <1>1, <1>5, <1>7, ReachStays, ReachUnfoldsAlways, ReachFinite DEF ReachUnfolds
<1>11. (Reached[Len(tape)])' = {initial}
  BY <1>6, <1>10
<1>12. StatesReached'
  BY <1>6, <1>9, <1>11 DEF StatesReached, Elements
<1>13. LayersCounted'
  BY <1>6 DEF LayersCounted
<1>14. Fit(0)'
  <2>1. Fit(0)
    <3>1. limits.states \in Nat
      BY LimitsTyped
    <3> QED
      BY <1>1, <1>10, <3>1 DEF Fit
  <2> QED
    BY <1>1, <1>5, <1>10, <2>1, WidthsStay
<1>15. Fit(Len(tape))'
  BY <1>6, <1>14 DEF Fit
<1>16. stage' = "finalize" => Fit(Len(edges))'
  <2>1. stage' = "finalize" => Len(tape') = Len(edges')
    BY DEF BuildInv, FinalSound
  <2> QED
    BY <1>15, <2>1 DEF Fit
<1>17. LayersFit'
  <2>1. Len(next_ids') <= limits'.states
    BY <1>1, <1>5, <1>6, LimitsTyped
  <2>2. stage' # "backward"
    BY <1>1
  <2> QED
    BY <1>1, <1>3, <1>15, <1>16, <2>1, <2>2 DEF LayersFit, Pending
<1> QED
  BY <1>12, <1>13, <1>17 DEF LayersInv

\* A branch registers no state its level cannot reach, and none beyond the limit.
LEMMA BranchLayers ==
  ASSUME BuildInv, BuildInv', Configured, LayersInv, RejectBranch \/ MergeBranch \/ RegisterState
  PROVE  LayersInv'
<1> USE DEF backward
<1>1. CanTry /\ UNCHANGED <<config, stage, states, tape, result>>
  BY DEF RejectBranch, MergeBranch, RegisterState
<1>2. CASE RejectBranch \/ MergeBranch
  <2>1. UNCHANGED next_ids
    BY <1>2 DEF RejectBranch, MergeBranch
  <2> QED
    BY <1>1, <2>1, LayersStay
<1>3. CASE RegisterState
  <2>1. PICK c \in NewState : next_ids' = Append(next_ids, c)
    BY <1>3 DEF RegisterState
  <2>2. stage = "forward" /\ stage' = "forward" /\ result.kind = "pending"
    BY <1>1 DEF CanTry, ToTry, CanBranch, ToBranch, BuildInv, ResultSound, Pending
  <2>3. Candidate \subseteq Reached[Layer] /\ Layer \in 1 .. Len(edges) /\ Len(edges) \in Nat
    BY <1>1, CandidateReached, EdgesTyped
  <2>4. next_ids \in Seq(Elements(next_ids)) /\ Len(next_ids) <= limits.states /\ Elements(next_ids) \subseteq Reached[Layer]
    BY <2>2 DEF BuildInv, LayerSound, LayersInv, LayersFit, StatesReached
  <2>5. Len(next_ids) # limits.states
    BY <1>3 DEF RegisterState
  <2>6. PICK m \in Nat : m = Len(next_ids)
    BY <2>4, LenProperties
  <2>7. /\ Len(next_ids') = m + 1 /\ DOMAIN next_ids' = 1 .. m + 1
        /\ \A i \in 1 .. m : next_ids'[i] = next_ids[i] /\ next_ids[i] \in Elements(next_ids)
        /\ next_ids'[m + 1] = c
    BY <2>1, <2>4, <2>6, AppendProperties, AppendElements, LenProperties, ElementOfSeq
  <2>8. Elements(next_ids') \subseteq Reached[Layer]
    <3>1. c \in Reached[Layer]
      BY <2>1, <2>3 DEF NewState
    <3>2. \A i \in 1 .. m + 1 : next_ids'[i] \in Reached[Layer]
      <4> TAKE i \in 1 .. m + 1
      <4>1. i \in 1 .. m \/ i = m + 1
        BY <2>6
      <4> QED
        BY <2>4, <2>7, <3>1, <4>1
    <3> QED
      BY <2>7, <3>2 DEF Elements
  <2>9. Len(next_ids') <= limits.states
    <3>1. limits.states \in Nat
      BY LimitsTyped
    <3> QED
      BY <2>4, <2>5, <2>6, <2>7, <3>1
  <2>10. edges' = edges /\ limits' = limits /\ Layer' = Layer
    BY <1>1, ConfigStays DEF config, plan, Layer
  <2>11. (Reached[Layer])' = Reached[Layer]
    <3>1. PICK n : n = Layer
      OBVIOUS
    <3>2. n \in 0 .. Len(edges)
      BY <2>3, <3>1
    <3>3. (Reached[Layer])' = (Reached[n])'
      BY <2>10, <3>1
    <3> QED
      BY <1>1, <2>3, <3>1, <3>2, <3>3, ReachStays
  <2>12. PICK n : n = Len(tape)
    OBVIOUS
  <2>13. n \in 0 .. Len(edges)
    BY <2>2, <2>12, LayerInRange
  <2>14. Elements(states') = (Reached[Len(tape)])' /\ Distinct(states)'
    <3>1. (Reached[Len(tape)])' = (Reached[n])'
      BY <1>1, <2>12
    <3> QED
      BY <1>1, <2>2, <2>3, <2>12, <2>13, <3>1, ReachStays DEF LayersInv, StatesReached, Distinct
  <2>15. StatesReached'
    BY <2>2, <2>8, <2>11, <2>14 DEF StatesReached
  <2>16. LayersCounted'
    <3>1. ASSUME NEW k \in 1 .. Len(tape) PROVE (Len(tape[k]) = Width(k - 1))'
      <4>1. k - 1 \in 0 .. Len(edges)
        BY <2>12, <2>13
      <4> QED
        BY <1>1, <2>2, <2>3, <4>1, WidthsStay DEF LayersInv, LayersCounted
    <3> QED
      BY <1>1, <3>1 DEF LayersCounted
  <2>17. Fit(Len(tape))'
    <3>1. Fit(Len(tape))' <=> Fit(n)'
      BY <1>1, <2>12 DEF Fit
    <3> QED
      BY <1>1, <2>2, <2>3, <2>12, <2>13, <3>1, WidthsStay DEF LayersInv, LayersFit
  <2>18. LayersFit'
    BY <1>1, <2>2, <2>9, <2>10, <2>17 DEF LayersFit
  <2> QED
    BY <2>15, <2>16, <2>18 DEF LayersInv
<1> QED
  BY <1>2, <1>3

\* When every state of the layer is expanded, the states registered are those
\* of the next level, and they are counted.
LEMMA LayerComplete ==
  ASSUME BuildInv, LayersInv, stage = "forward", source = Len(states) + 1
  PROVE  Elements(next_ids) = Reached[Layer] /\ Len(next_ids) \in Nat /\ Len(next_ids) = Width(Layer)
         /\ Len(layer) = Width(Len(tape)) /\ targets = << >>
<1>1. LayerSound
  BY DEF BuildInv
<1>2. Len(edges) \in Nat /\ Layer = Len(tape) + 1 /\ Len(tape) \in 0 .. Len(edges) - 1
  BY EdgesTyped, LayerInRange
<1>3. PICK m \in Nat : m = Len(states)
  BY <1>1, LenProperties DEF LayerSound
<1>4. Len(layer) = m /\ targets = << >> /\ DOMAIN states = 1 .. m
  <2>1. states \in Seq(Elements(states)) /\ Len(layer) = source - 1
    BY <1>1 DEF LayerSound
  <2>2. ~(source <= Len(states))
    BY <1>3
  <2> QED
    BY <1>1, <1>3, <2>1, <2>2, LenProperties DEF LayerSound, PairLeads
<1>5. Reached[Layer] = ReachedNext(Layer, Reached[Len(tape)])
  <2>1. Layer \in 1 .. Len(edges) /\ Layer - 1 = Len(tape)
    BY <1>2
  <2>2. ReachUnfolds
    BY <1>2, ReachUnfoldsAlways
  <2>3. Reached[Layer] = ReachedNext(Layer, Reached[Layer - 1])
    BY <2>1, <2>2 DEF ReachUnfolds
  <2> QED
    BY <2>1, <2>3
<1>6. ASSUME NEW x, NEW choice, x \in Follow(Reached[Len(tape)], Layer, choice),
             choice \in {"exclude", "include"}
      PROVE  x \in Elements(next_ids)
  <2>1. PICK s \in Reached[Len(tape)] : x \in Follow({s}, Layer, choice)
    BY <1>6, FollowEach
  <2>2. PICK i \in 1 .. m : states[i] = s
    <3>1. s \in Elements(states)
      BY <2>1 DEF LayersInv, StatesReached
    <3> QED
      BY <1>4, <3>1 DEF Elements
  <2>3. \E id : Leads(i, choice, id)
    BY <1>1, <1>4, <1>6, <2>2 DEF LayerSound, RowsLead
  <2>4. PICK id : Leads(i, choice, id)
    BY <2>3
  <2>5. id # 0 /\ x = next_ids[id] /\ id \in 0 .. Len(next_ids)
    BY <2>1, <2>2, <2>4 DEF Leads
  <2>6. next_ids \in Seq(Elements(next_ids)) /\ Len(next_ids) \in Nat
    BY <1>1, LenProperties DEF LayerSound
  <2>7. id \in 1 .. Len(next_ids)
    BY <2>5, <2>6
  <2> QED
    BY <2>5, <2>6, <2>7, ElementOfSeq
<1>7. Reached[Layer] \subseteq Elements(next_ids)
  BY <1>5, <1>6 DEF ReachedNext
<1>8. Elements(next_ids) = Reached[Layer]
  BY <1>7 DEF LayersInv, StatesReached
<1>9. Len(next_ids) \in Nat /\ Len(next_ids) = Width(Layer)
  <2>1. next_ids \in Seq(Elements(next_ids)) /\ Distinct(next_ids)
    BY <1>1 DEF LayerSound
  <2> QED
    BY <1>8, <2>1, DistinctLength DEF Width
<1>10. Len(layer) = Width(Len(tape))
  BY <1>3, <1>4, StatesCounted
<1> QED
  BY <1>4, <1>8, <1>9, <1>10

\* The next layer is complete, and fits.
LEMMA EndLayerLayers ==
  ASSUME BuildInv, BuildInv', Configured, LayersInv, EndLayer
  PROVE  LayersInv'
<1> USE DEF backward
<1>1. /\ stage = "forward" /\ source = Len(states) + 1
      /\ states' = next_ids /\ next_ids' = << >> /\ tape' = Append(tape, layer)
      /\ stage' = IF Layer = Len(steps) THEN "finalize" ELSE "forward"
      /\ UNCHANGED <<config, result>>
  BY DEF EndLayer
<1>2. LayerSound /\ TapeSound /\ result.kind = "pending"
  BY <1>1 DEF BuildInv, ResultSound, Pending
<1>3. PICK n \in Nat : n = Len(tape) /\ n \in 0 .. Len(edges) - 1 /\ Layer = n + 1
  BY <1>1, EdgesTyped, LayerInRange
<1>4. Len(edges) \in Nat /\ edges' = edges /\ limits' = limits /\ n + 1 \in 0 .. Len(edges) /\ n \in 0 .. Len(edges)
  BY <1>1, <1>3, EdgesTyped, ConfigStays DEF config, plan
<1>5. /\ tape \in Seq(Seq(Rows)) /\ layer \in Seq(Rows)
      /\ Elements(next_ids) = Reached[n + 1] /\ Len(next_ids) = Width(n + 1) /\ Len(layer) = Width(n)
      /\ Distinct(next_ids) /\ Len(next_ids) <= limits.states
  BY <1>1, <1>2, <1>3, LayerComplete DEF LayerSound, TapeSound, LayersInv, LayersFit
<1>6. /\ Len(tape') = n + 1 /\ tape'[n + 1] = layer
      /\ \A k \in 1 .. n : tape'[k] = tape[k]
  BY <1>1, <1>3, <1>5, AppendProperties
<1>7. StatesReached'
  <2>1. (Reached[Len(tape)])' = Elements(states')
    <3>1. (Reached[Len(tape)])' = (Reached[n + 1])'
      BY <1>6
    <3> QED
      BY <1>1, <1>4, <1>5, <3>1, ReachStays
  <2>2. Elements(next_ids') = {}
    BY <1>1 DEF Elements
  <2> QED
    BY <1>1, <1>5, <2>1, <2>2 DEF StatesReached, Distinct
<1>8. LayersCounted'
  <2>1. ASSUME NEW k \in 1 .. n + 1 PROVE (Len(tape[k]) = Width(k - 1))'
    <3>1. k - 1 \in 0 .. Len(edges)
      BY <1>4
    <3>2. Width(k - 1)' = Width(k - 1)
      BY <1>1, <1>4, <3>1, WidthsStay
    <3>3. CASE k = n + 1
      <4>1. k - 1 = n
        BY <3>3
      <4> QED
        BY <1>5, <1>6, <3>2, <3>3, <4>1
    <3>4. CASE k \in 1 .. n
      BY <1>1, <1>3, <1>6, <3>2, <3>4 DEF LayersInv, LayersCounted
    <3> QED
      BY <3>3, <3>4
  <2> QED
    BY <1>6, <2>1 DEF LayersCounted
<1>9. Fit(n + 1)'
  <2>1. Fit(n) /\ Width(n + 1) <= limits.states
    BY <1>1, <1>3, <1>5 DEF LayersInv, LayersFit
  <2>2. \A i \in 0 .. n + 1 : i \in 0 .. n \/ i = n + 1
    OBVIOUS
  <2>3. Fit(n + 1)
    BY <2>1, <2>2 DEF Fit
  <2> QED
    BY <1>1, <1>4, <2>3, WidthsStay
<1>10. Fit(Len(tape))'
  BY <1>6, <1>9 DEF Fit
<1>11. stage' = "finalize" => Fit(Len(edges))'
  <2>1. stage' = "finalize" => Len(tape') = Len(edges')
    BY DEF BuildInv, FinalSound
  <2> QED
    BY <1>10, <2>1 DEF Fit
<1>12. LayersFit'
  <2>1. Len(next_ids') <= limits'.states
    BY <1>1, <1>4, LimitsTyped
  <2> QED
    BY <1>1, <1>2, <1>10, <1>11, <2>1 DEF LayersFit
<1> QED
  BY <1>7, <1>8, <1>12 DEF LayersInv

\* The layers below the last, taken from the end.
LEMMA BackwardLayers ==
  ASSUME BuildInv, BuildInv', LayersInv, EndFinalize \/ EndReduce
  PROVE  LayersInv'
<1> USE DEF backward, forward
<1>1. /\ stage \in {"finalize", "backward"} /\ stage' = "backward" /\ UNCHANGED <<config, result>>
      /\ result.kind = "pending"
  BY DEF EndFinalize, EndReduce, BuildInv, ResultSound, Pending
<1>2. Len(edges) \in Nat /\ edges' = edges /\ Len(tape) \in 0 .. Len(edges)
  BY <1>1, EdgesTyped, LayerInRange DEF config, plan
<1>3. Len(tape') \in 0 .. Len(tape) /\ \A k \in 1 .. Len(tape') : tape'[k] = tape[k]
  <2>1. CASE EndFinalize
    BY <1>2, <2>1 DEF EndFinalize
  <2>2. CASE EndReduce
    <3>1. tape \in Seq(Seq(Rows)) /\ tape # << >>
      BY <1>1, <2>2 DEF BuildInv, TapeSound, EndReduce
    <3>2. PICK m \in Nat : m + 1 = Len(tape)
      <4>1. Len(tape) \in Nat /\ Len(tape) # 0
        BY <3>1, LenProperties, EmptySeq
      <4>2. Len(tape) - 1 \in Nat /\ (Len(tape) - 1) + 1 = Len(tape)
        BY <4>1
      <4> QED
        BY <4>2
    <3>3. tape' = SubSeq(tape, 1, m)
      BY <2>2, <3>2 DEF EndReduce
    <3>4. Len(tape') = m /\ \A k \in 1 .. m : tape'[k] = tape[k]
      BY <3>1, <3>2, <3>3, SubSeqProperties
    <3> QED
      BY <3>2, <3>4
  <2> QED
    BY <2>1, <2>2
<1>4. LayersCounted'
  <2>1. ASSUME NEW k \in 1 .. Len(tape') PROVE (Len(tape[k]) = Width(k - 1))'
    <3>1. k - 1 \in 0 .. Len(edges) /\ k \in 1 .. Len(tape)
      BY <1>2, <1>3
    <3>2. Width(k - 1)' = Width(k - 1)
      BY <1>1, <1>2, <3>1, WidthsStay
    <3> QED
      BY <1>1, <1>3, <3>1, <3>2 DEF LayersInv, LayersCounted
  <2> QED
    BY <2>1 DEF LayersCounted
<1>5. Fit(Len(edges))'
  <2>1. PICK n : n = Len(edges)
    OBVIOUS
  <2>2. n \in 0 .. Len(edges) /\ Fit(n)
    BY <1>1, <1>2, <2>1 DEF LayersInv, LayersFit
  <2>3. Fit(Len(edges))' <=> Fit(n)'
    BY <1>2, <2>1 DEF Fit
  <2> QED
    BY <1>1, <1>2, <2>2, <2>3, WidthsStay
<1> QED
  BY <1>1, <1>4, <1>5 DEF LayersInv, StatesReached, LayersFit

\* A build that returns has kept the layers within their limit, or has met the
\* state that does not fit.
LEMMA ReturnLayers ==
  ASSUME BuildInv, Configured, LayersInv, UNCHANGED config, NEW r, Return(r),
         r.kind \in {"ok", "node_limit"} => stage = "backward",
         r.kind = "states_limit" => TooWide
  PROVE  LayersInv'
<1>1. stage' = "returned" /\ result' = r
  BY DEF Return
<1>2. Len(edges) \in Nat /\ edges' = edges
  BY EdgesTyped DEF config, plan
<1>3. r.kind \in {"ok", "node_limit"} => Fit(Len(edges))'
  <2>1. PICK n : n = Len(edges)
    OBVIOUS
  <2>2. n \in 0 .. Len(edges)
    BY <1>2, <2>1
  <2>3. Fit(Len(edges))' <=> Fit(n)'
    BY <1>2, <2>1 DEF Fit
  <2> QED
    BY <1>2, <2>1, <2>2, <2>3, WidthsStay DEF LayersInv, LayersFit
<1>4. TooWide' <=> TooWide
  BY <1>2, WidthsStay
<1> QED
  BY <1>1, <1>3, <1>4 DEF LayersInv, StatesReached, LayersCounted, LayersFit

\* The states of a level beyond the limit.
LEMMA StatesLimitDue ==
  ASSUME BuildInv, Configured, LayersInv, OverStates
  PROVE  TooWide
<1>1. CanTry /\ Len(next_ids) = limits.states /\ NewState # {}
  BY DEF OverStates
<1>2. Candidate \subseteq Reached[Layer] /\ Layer \in 1 .. Len(edges) /\ Len(edges) \in Nat
  BY <1>1, CandidateReached, EdgesTyped
<1>3. stage = "forward"
  BY <1>1 DEF CanTry, ToTry, CanBranch, ToBranch
<1>4. /\ Len(next_ids) \in Nat /\ IsFiniteSet(Elements(next_ids))
      /\ Cardinality(Elements(next_ids)) = Len(next_ids)
      /\ Elements(next_ids) \subseteq Reached[Layer]
  BY <1>3, DistinctLength DEF BuildInv, LayerSound, LayersInv, StatesReached
<1>5. PICK c : c \in Reached[Layer] /\ c \notin Elements(next_ids)
  BY <1>1, <1>2 DEF NewState
<1>6. Layer \in 0 .. Len(edges) /\ IsFiniteSet(Reached[Layer]) /\ Width(Layer) \in Nat
  BY <1>2, ReachFinite
<1>7. Cardinality(Elements(next_ids) \union {c}) = Len(next_ids) + 1
  BY <1>4, <1>5, FS_AddElement
<1>8. Cardinality(Elements(next_ids) \union {c}) <= Width(Layer)
  BY <1>4, <1>5, <1>6, FS_Subset DEF Width
<1>9. Width(Layer) > limits.states
  BY <1>1, <1>4, <1>6, <1>7, <1>8
<1> QED
  BY <1>6, <1>9 DEF TooWide

\* Every step keeps the layers those of the problem.
LEMMA StepKeepsLayers ==
  ASSUME BuildInv, BuildInv', Configured, LayersInv, [Next]_vars
  PROVE  LayersInv'
<1> USE DEF backward, forward
<1>1. CASE UNCHANGED vars
  <2>1. UNCHANGED <<config, stage, states, next_ids, tape, result>>
    BY <1>1 DEF vars, config
  <2> QED
    BY <2>1, LayersStay
<1>2. CASE Planning
  <2>1. stage' = "plan" /\ result'.kind = "pending"
    BY <1>2 DEF Planning, BuildInv, ResultSound, Pending
  <2> QED
    BY <2>1 DEF LayersInv, StatesReached, LayersCounted, LayersFit
<1>3. CASE Cancel \/ PassCheck \/ FinalizeState \/ ReduceRow
  <2>1. UNCHANGED <<config, stage, states, next_ids, tape, result>>
    BY <1>3 DEF Cancel, PassCheck, FinalizeState, ReduceRow
  <2> QED
    BY <2>1, LayersStay
<1>4. CASE Start
  BY <1>4, StartLayers
<1>5. CASE RejectBranch \/ MergeBranch \/ RegisterState
  BY <1>5, BranchLayers
<1>6. CASE EndLayer
  BY <1>6, EndLayerLayers
<1>7. CASE EndFinalize \/ EndReduce
  BY <1>7, BackwardLayers
<1>8. CASE Finish
  <2>1. stage = "backward" /\ UNCHANGED config /\ Return([kind |-> "ok", value |-> roots[Len(roots)]])
    BY <1>8 DEF Finish
  <2> QED
    BY <2>1, ReturnLayers
<1>9. CASE OverNodes
  <2>1. stage = "backward" /\ UNCHANGED config /\ Return(Outcome("node_limit"))
    BY <1>9 DEF OverNodes, ToReduce
  <2> QED
    BY <2>1, ReturnLayers DEF Outcome
<1>10. CASE OverStates
  <2>1. UNCHANGED config /\ Return(Outcome("states_limit"))
    BY <1>10 DEF OverStates
  <2> QED
    BY <1>10, <2>1, StatesLimitDue, ReturnLayers DEF Outcome
<1>11. CASE RefuseStart
  <2>1. UNCHANGED config
    BY <1>11 DEF RefuseStart
  <2>2. CASE Return(Outcome("problem_error"))
    BY <2>1, <2>2, ReturnLayers DEF Outcome
  <2>3. CASE FirstState # {} /\ limits.states = 0 /\ Return(Outcome("states_limit"))
    <3>1. Width(0) = 1 /\ 0 \in 0 .. Len(edges)
      BY <2>3, EdgesTyped, ReachFinite
    <3>2. TooWide
      BY <2>3, <3>1 DEF TooWide
    <3> QED
      BY <2>1, <2>3, <3>2, ReturnLayers DEF Outcome
  <2> QED
    BY <1>11, <2>2, <2>3 DEF RefuseStart
<1>12. CASE ObserveCancel \/ OverTransitions \/ FailTransition \/ FailFinalize
  <2>1. UNCHANGED config /\ \E kind \in {"cancelled", "transitions_limit", "problem_error"} : Return(Outcome(kind))
    BY <1>12 DEF ObserveCancel, OverTransitions, FailTransition, FailFinalize
  <2> QED
    BY <2>1, ReturnLayers DEF Outcome
<1> QED
  BY <1>1, <1>2, <1>3, <1>4, <1>5, <1>6, <1>7, <1>8, <1>9, <1>10, <1>11, <1>12 DEF Next, Build

\* The layers of every build are those of the problem, and keep to the limit.
LEMMA LayersAreTheProblems == Spec => []LayersInv
<1>1. Init => LayersInv
  BY DEF Init, Pending, LayersInv, StatesReached, LayersCounted, LayersFit
<1>2. BuildInv /\ BuildInv' /\ Configured /\ LayersInv /\ [Next]_vars => LayersInv'
  BY StepKeepsLayers
<1> QED
  BY <1>1, <1>2, Invariance, ConfiguredAlways, PTL DEF Spec

----------------------------------------------------------------------------
(* The counters are those of the problem.                                  *)

\* The largest width of the levels up to k.
PeakOf(k) ==
  /\ \E i \in 0 .. k : stats.peak = Width(i)
  /\ \A i \in 0 .. k : Width(i) <= stats.peak

\* Only a build with a token looks, and only before the next unit of work.
PassedInv ==
  /\ passed \in BOOLEAN
  /\ passed => settings.attached /\ (ToStart \/ ToBranch \/ ToFinalize \/ ToReduce)

\* The looks whose unit of work is done.
Looks == IF passed THEN stats.checks - 1 ELSE stats.checks

ChecksAre(n) == Looks = IF settings.attached THEN n ELSE 0

\* Every branch of the completed levels has been tried.
AllTried ==
  /\ stats.attempted = 2 * Before(Len(edges))
  /\ stats.attempted <= limits.transitions
  /\ PeakOf(Len(edges))

ForwardCounted ==
  /\ stats.attempted = 2 * (Before(Len(tape)) + Len(layer)) + Len(targets)
  /\ stats.attempted <= limits.transitions
  /\ stats.entries = stats.rejected + stats.merged + Before(Len(tape)) + Len(states) + Len(next_ids) - 1
  /\ stats.layers = Len(tape)
  /\ PeakOf(Len(tape))
  /\ ChecksAre(1 + stats.attempted)

\* The rows reduced so far.
Reduced == Before(Len(edges)) - Before(Len(tape)) + Len(previous)

NothingCounted ==
  /\ stats.attempted = 0 /\ stats.entries = 0 /\ stats.rejected = 0 /\ stats.merged = 0 /\ stats.layers = 0
  /\ Looks = 0

CountersInv ==
  /\ StatsTyped
  /\ stage = "plan" => NothingCounted
  /\ stage # "returned" => stats.attempted = stats.entries
  /\ stage = "forward" => ForwardCounted
  /\ stage \in {"finalize", "backward"} => AllTried
  /\ stage = "finalize" => ChecksAre(1 + stats.attempted + (source - 1))
  /\ stage = "backward" => ChecksAre(1 + stats.attempted + Width(Len(edges)) + Reduced)
  /\ stage = "returned" =>
       stats.attempted - stats.entries \in (IF result.kind = "problem_error" THEN {0, 1} ELSE {0})
  /\ result.kind = "ok" =>
       AllTried /\ ~passed /\ ChecksAre(1 + stats.attempted + Width(Len(edges)) + Before(Len(edges)))
  /\ result.kind = "transitions_limit" => 2 * Before(Len(edges)) > limits.transitions

\* A look that let a unit of work through has been used when something else
\* happens.
LEMMA PassedStep == BuildInv /\ PassedInv /\ [Next]_vars => PassedInv'
<1> USE DEF PassedInv
<1>1. ASSUME BuildInv, PassedInv, UNCHANGED vars \/ Cancel PROVE PassedInv'
  BY <1>1 DEF vars, Cancel, config, plan, forward, ToStart, ToBranch, ToFinalize, ToReduce
<1>2. ASSUME PassCheck PROVE PassedInv'
  BY <1>2 DEF PassCheck, ToLook, config, plan, forward, ToStart, ToBranch, ToFinalize, ToReduce
<1>3. ASSUME Start \/ RefuseStart \/ OverTransitions \/ FailTransition \/ RejectBranch \/ MergeBranch
      PROVE  PassedInv'
  BY <1>3 DEF Start, RefuseStart, OverTransitions, FailTransition, RejectBranch, MergeBranch
<1>4. ASSUME RegisterState \/ OverStates \/ FailFinalize \/ FinalizeState \/ ReduceRow \/ OverNodes
      PROVE  PassedInv'
  BY <1>4 DEF RegisterState, OverStates, FailFinalize, FinalizeState, ReduceRow, OverNodes
<1>5. ASSUME PassedInv, ObserveCancel PROVE PassedInv'
  BY <1>5 DEF ObserveCancel, ToLook
<1>6. ASSUME BuildInv, PassedInv, Planning \/ EndLayer \/ EndFinalize \/ EndReduce \/ Finish PROVE PassedInv'
  <2>1. passed' = passed
    BY <1>6 DEF Planning, EndLayer, EndFinalize, EndReduce, Finish
  <2>2. stage \in {"forward", "finalize"} => Len(states) \in Nat
    BY <1>6, LenProperties DEF BuildInv, LayerSound, FinalSound
  <2>3. stage = "backward" /\ tape # << >> => Len(tape[Len(tape)]) \in Nat
    <3>1. SUFFICES ASSUME stage = "backward", tape # << >> PROVE Len(tape[Len(tape)]) \in Nat
      OBVIOUS
    <3>2. tape \in Seq(Seq(Rows))
      BY <1>6, <3>1 DEF BuildInv, TapeSound
    <3>3. Len(tape) \in 1 .. Len(tape)
      BY <3>1, <3>2, LenProperties, EmptySeq
    <3>4. tape[Len(tape)] \in Seq(Rows)
      BY <3>2, <3>3, ElementOfSeq
    <3> QED
      BY <3>4, LenProperties
  <2>4. CASE Planning \/ Finish
    BY <1>6, <2>1, <2>4 DEF Planning, Finish, ToStart, ToBranch, ToFinalize, ToReduce
  <2>5. CASE EndLayer \/ EndFinalize
    <3>1. PICK n : n = Len(states)
      OBVIOUS
    <3>2. n \in Nat /\ source = n + 1 /\ stage \in {"forward", "finalize"}
      BY <2>2, <2>5, <3>1 DEF EndLayer, EndFinalize
    <3>3. ~(source <= n)
      BY <3>2
    <3> QED
      BY <1>6, <2>1, <3>1, <3>2, <3>3 DEF ToStart, ToBranch, ToFinalize, ToReduce
  <2>6. CASE EndReduce
    <3>1. PICK n : n = Len(tape[Len(tape)])
      OBVIOUS
    <3>2. n \in Nat /\ source = n + 1 /\ stage = "backward"
      BY <2>3, <2>6, <3>1 DEF EndReduce
    <3>3. ~(source <= n)
      BY <3>2
    <3> QED
      BY <1>6, <2>1, <3>1, <3>2, <3>3 DEF ToStart, ToBranch, ToFinalize, ToReduce
  <2> QED
    BY <1>6, <2>4, <2>5, <2>6
<1> QED
  BY <1>1, <1>2, <1>3, <1>4, <1>5, <1>6 DEF Next, Build

LEMMA LooksInTime == Spec => []PassedInv
<1>1. Init => PassedInv
  BY DEF Init, PassedInv
<1> QED
  BY <1>1, PassedStep, Invariance, PTL DEF Spec

\* A unit of work uses the look before it, if there is a token.
LEMMA WorkLooks ==
  ASSUME StatsTyped, PassedInv, MayWork, passed' = FALSE, stats'.checks = stats.checks
  PROVE  /\ Looks \in Int
         /\ Looks' = IF settings.attached THEN Looks + 1 ELSE Looks
<1>1. PICK c \in Nat : c = stats.checks
  BY DEF StatsTyped, NoStats
<1>2. Looks' = c
  BY <1>1 DEF Looks
<1>3. CASE settings.attached
  <2>1. Looks = c - 1
    BY <1>1, <1>3 DEF Looks, MayWork
  <2> QED
    BY <1>1, <1>2, <1>3, <2>1
<1>4. CASE ~settings.attached
  <2>1. Looks = c
    BY <1>1, <1>4 DEF Looks, PassedInv
  <2> QED
    BY <1>1, <1>2, <1>4, <2>1
<1> QED
  BY <1>3, <1>4

\* The peak of the levels stays.
LEMMA PeakStays ==
  ASSUME UNCHANGED config, Len(edges) \in Nat, stats'.peak = stats.peak, NEW k \in 0 .. Len(edges), PeakOf(k)
  PROVE  PeakOf(k)'
<1>1. \A i \in 0 .. k : i \in 0 .. Len(edges)
  OBVIOUS
<1>2. \A i \in 0 .. k : Width(i)' = Width(i)
  BY <1>1, WidthsStay
<1> QED
  BY <1>2 DEF PeakOf

\* What is said of all branches stays while the counters stay.
LEMMA AllTriedStays ==
  ASSUME BuildInv, UNCHANGED config, AllTried,
         stats'.attempted = stats.attempted, stats'.peak = stats.peak
  PROVE  AllTried' /\ (Before(Len(edges)))' = Before(Len(edges)) /\ (Width(Len(edges)))' = Width(Len(edges))
<1>1. PICK n : n = Len(edges)
  OBVIOUS
<1>2. n \in 0 .. Len(edges) /\ Len(edges) \in Nat /\ edges' = edges /\ limits' = limits
  BY <1>1, EdgesTyped, ConfigStays DEF config, plan
<1>3. Before(Len(edges))' = Before(n)' /\ (PeakOf(Len(edges))' <=> PeakOf(n)') /\ Width(Len(edges))' = Width(n)'
  BY <1>1, <1>2 DEF Before, PeakOf, Width
<1>4. Before(n)' = Before(n) /\ PeakOf(n)' /\ Width(n)' = Width(n)
  BY <1>1, <1>2, WidthsStay, PeakStays DEF AllTried
<1> QED
  BY <1>1, <1>2, <1>3, <1>4 DEF AllTried

\* A step that changes nothing that is counted, but may look at the token.
SameCounts ==
  /\ StatsTyped' /\ Looks' = Looks
  /\ stats'.attempted = stats.attempted /\ stats'.entries = stats.entries /\ stats'.rejected = stats.rejected
  /\ stats'.merged = stats.merged /\ stats'.layers = stats.layers /\ stats'.peak = stats.peak

LEMMA CountersStay ==
  ASSUME BuildInv, CountersInv, UNCHANGED <<config, stage, forward, source, previous, result>>,
         SameCounts, result.kind = "ok" => passed' = passed
  PROVE  CountersInv'
<1> USE DEF forward, SameCounts
<1>1. Len(edges) \in Nat /\ edges' = edges /\ limits' = limits /\ settings' = settings
  BY EdgesTyped, ConfigStays DEF config, plan
<1>2. AllTried => AllTried' /\ (Before(Len(edges)))' = Before(Len(edges)) /\ (Width(Len(edges)))' = Width(Len(edges))
  BY AllTriedStays
<1>3. stage = "forward" => ForwardCounted'
  <2>1. SUFFICES ASSUME stage = "forward" PROVE ForwardCounted'
    OBVIOUS
  <2>2. PICK n : n = Len(tape)
    OBVIOUS
  <2>3. n \in 0 .. Len(edges) /\ ForwardCounted
    BY <2>1, <2>2, LayerInRange DEF CountersInv
  <2>4. Before(Len(tape))' = Before(n)' /\ (PeakOf(Len(tape))' <=> PeakOf(n)')
    BY <2>2 DEF Before, PeakOf
  <2>5. Before(n)' = Before(n) /\ PeakOf(n)'
    BY <1>1, <2>2, <2>3, WidthsStay, PeakStays DEF ForwardCounted
  <2> QED
    BY <1>1, <2>2, <2>3, <2>4, <2>5 DEF ForwardCounted, ChecksAre
<1>4. stage \in {"finalize", "backward"} => AllTried'
  BY <1>2 DEF CountersInv
<1>5. stage = "backward" => ChecksAre(1 + stats.attempted + Width(Len(edges)) + Reduced)'
  <2>1. SUFFICES ASSUME stage = "backward" PROVE ChecksAre(1 + stats.attempted + Width(Len(edges)) + Reduced)'
    OBVIOUS
  <2>2. PICK n : n = Len(tape)
    OBVIOUS
  <2>3. n \in 0 .. Len(edges)
    BY <2>1, <2>2, LayerInRange
  <2>4. Before(Len(tape))' = Before(n)' /\ Before(n)' = Before(n)
    BY <1>1, <2>2, <2>3, WidthsStay DEF Before
  <2>5. Reduced' = Reduced
    BY <1>2, <2>1, <2>2, <2>4 DEF CountersInv, Reduced
  <2> QED
    BY <1>1, <1>2, <2>1, <2>5 DEF CountersInv, ChecksAre
<1>6. result.kind = "ok" =>
        (AllTried /\ ~passed /\ ChecksAre(1 + stats.attempted + Width(Len(edges)) + Before(Len(edges))))'
  BY <1>1, <1>2 DEF CountersInv, ChecksAre
<1>7. (Before(Len(edges)))' = Before(Len(edges))
  <2>1. PICK n : n = Len(edges)
    OBVIOUS
  <2>2. n \in 0 .. Len(edges)
    BY <1>1, <2>1
  <2>3. Before(Len(edges))' = Before(n)'
    BY <1>1, <2>1 DEF Before
  <2> QED
    BY <1>1, <2>1, <2>2, <2>3, WidthsStay
<1>8. stage = "finalize" => ChecksAre(1 + stats.attempted + (source - 1))'
  BY <1>1 DEF CountersInv, ChecksAre
<1>9. StatsTyped' /\ (stage = "plan" => NothingCounted')
  BY DEF CountersInv, NothingCounted
<1> QED
  BY <1>1, <1>3, <1>4, <1>5, <1>6, <1>7, <1>8, <1>9 DEF CountersInv

\* A look that lets a unit of work through is not counted before that unit.
LEMMA PassCheckCounted ==
  ASSUME BuildInv, CountersInv, PassCheck
  PROVE  CountersInv'
<1> USE DEF forward, backward
<1>1. /\ UNCHANGED <<config, stage, forward, source, previous, result>> /\ stats' = Checked(stats)
      /\ ~passed /\ passed' /\ stage # "returned" /\ settings' = settings
  BY DEF PassCheck, ToLook, ToStart, ToBranch, ToFinalize, ToReduce, config
<1>2. SameCounts
  <2>1. StatsTyped' /\ stats'.checks = stats.checks + 1 /\ stats.checks \in Nat
    BY <1>1, CheckedFields DEF CountersInv, StatsTyped, NoStats
  <2>2. Looks' = Looks
    BY <1>1, <2>1 DEF Looks
  <2> QED
    BY <1>1, <2>1, <2>2, CheckedFields DEF CountersInv, SameCounts
<1>3. result.kind # "ok"
  BY <1>1 DEF BuildInv, ResultSound, Pending
<1> QED
  BY <1>1, <1>2, <1>3, CountersStay

\* The count starts with one state and one look at the token.
LEMMA StartCounted ==
  ASSUME BuildInv, BuildInv', Configured, LayersInv, PassedInv, CountersInv, Start
  PROVE  CountersInv'
<1> USE DEF backward
<1>1. /\ stage = "plan" /\ phase = "done"
      /\ stage' = IF steps = << >> THEN "finalize" ELSE "forward"
      /\ stats' = [stats EXCEPT !.peak = 1] /\ MayWork /\ passed' = FALSE
      /\ UNCHANGED <<config, next_ids, source, targets, layer, tape, previous, result>>
  BY DEF Start, ToStart
<1>2. PICK initial \in FirstState : states' = <<initial>>
  BY DEF Start
<1>3. NothingBuilt /\ result.kind = "pending" /\ NothingCounted /\ StatsTyped
  BY <1>1 DEF BuildInv, ResultSound, Pending, CountersInv
<1>4. Len(edges) \in Nat /\ edges' = edges /\ limits' = limits /\ settings' = settings
  BY <1>1, EdgesTyped, ConfigStays DEF config, plan
<1>5. /\ tape' = << >> /\ Len(tape') = 0 /\ next_ids' = << >> /\ Len(next_ids') = 0 /\ source' = 1
      /\ targets' = << >> /\ Len(targets') = 0 /\ layer' = << >> /\ Len(layer') = 0 /\ Len(states') = 1
  BY <1>1, <1>2, <1>3, ShortSequences DEF NothingBuilt
<1>6. StatsTyped'
  BY <1>1, CountersMove DEF CountersInv, Next, Build
<1>7. /\ stats'.attempted = 0 /\ stats'.entries = 0 /\ stats'.rejected = 0 /\ stats'.merged = 0
      /\ stats'.layers = 0 /\ stats'.peak = 1 /\ Looks' = IF settings.attached THEN 1 ELSE 0
  <2>1. /\ stats'.attempted = stats.attempted /\ stats'.entries = stats.entries /\ stats'.rejected = stats.rejected
        /\ stats'.merged = stats.merged /\ stats'.layers = stats.layers /\ stats'.peak = 1
        /\ stats'.checks = stats.checks
    BY <1>1, <1>3 DEF StatsTyped, NoStats
  <2>2. Looks' = IF settings.attached THEN Looks + 1 ELSE Looks
    BY <1>1, <1>3, <2>1, WorkLooks
  <2> QED
    BY <1>3, <2>1, <2>2 DEF NothingCounted
<1>8. Before(0)' = 0 /\ Width(0)' = 1 /\ 0 \in 0 .. Len(edges)
  <2>1. 0 \in 0 .. Len(edges)
    BY <1>4
  <2>2. Before(0) = 0 /\ Width(0) = 1
    BY <1>2, <1>4, BeforeUnfolds, ReachFinite
  <2> QED
    BY <1>1, <1>4, <2>1, <2>2, WidthsStay
<1>9. PeakOf(0)'
  BY <1>7, <1>8 DEF PeakOf
<1>10. Before(Len(tape))' = 0 /\ PeakOf(Len(tape))'
  BY <1>5, <1>8, <1>9 DEF Before, PeakOf
<1>11. limits.transitions \in Nat
  BY LimitsTyped
<1>12. ForwardCounted'
  BY <1>4, <1>5, <1>7, <1>10, <1>11 DEF ForwardCounted, ChecksAre
<1>13. stage' = "finalize" => AllTried'
  <2>1. SUFFICES ASSUME stage' = "finalize" PROVE AllTried'
    OBVIOUS
  <2>2. Len(edges') = 0
    BY <1>5, <2>1 DEF BuildInv, FinalSound
  <2>3. Before(Len(edges))' = 0 /\ PeakOf(Len(edges))'
    BY <1>8, <1>9, <2>2 DEF Before, PeakOf
  <2> QED
    BY <1>4, <1>7, <1>11, <2>3 DEF AllTried
<1>14. stage' = "finalize" => ChecksAre(1 + stats.attempted + (source - 1))'
  BY <1>4, <1>5, <1>7 DEF ChecksAre
<1> QED
  BY <1>1, <1>3, <1>6, <1>7, <1>12, <1>13, <1>14 DEF CountersInv

\* A target completes a row, or is the first of its pair.
LEMMA TargetCounts ==
  ASSUME BuildInv, stage = "forward", NEW id \in Nat, Target(id)
  PROVE  2 * Len(layer') + Len(targets') = 2 * Len(layer) + Len(targets) + 1
         /\ Len(layer) \in Nat /\ Len(targets) \in Nat /\ Len(layer') \in Nat /\ Len(targets') \in Nat
<1>1. layer \in Seq(Rows) /\ targets \in Seq(Nat) /\ Len(targets) <= 1
  BY DEF BuildInv, LayerSound
<1>2. PICK m, t \in Nat : m = Len(layer) /\ t = Len(targets)
  BY <1>1, LenProperties
<1>3. CASE t = 0
  <2>1. targets' = <<id>> /\ layer' = layer
    BY <1>2, <1>3 DEF Target
  <2>2. Len(targets') = 1
    BY <2>1, ShortSequences
  <2> QED
    BY <1>2, <1>3, <2>1, <2>2
<1>4. CASE t # 0
  <2>1. layer' = Append(layer, [exclude |-> targets[1], include |-> id]) /\ targets' = << >>
    BY <1>2, <1>4 DEF Target
  <2>2. t = 1
    BY <1>1, <1>2, <1>4
  <2>3. targets[1] \in Nat
    <3>1. 1 \in 1 .. Len(targets)
      BY <1>2, <2>2
    <3> QED
      BY <1>1, <3>1, ElementOfSeq
  <2>4. Len(layer') = m + 1
    BY <1>1, <1>2, <2>1, <2>3, AppendProperties DEF Rows
  <2>5. Len(targets') = 0
    BY <2>1, ShortSequences
  <2> QED
    BY <1>2, <2>2, <2>4, <2>5
<1> QED
  BY <1>3, <1>4

\* Every branch is counted once, as rejected, merged or a new state.
LEMMA BranchCounted ==
  ASSUME BuildInv, BuildInv', Configured, LayersInv, PassedInv, CountersInv, RejectBranch \/ MergeBranch \/ RegisterState
  PROVE  CountersInv'
<1> USE DEF backward
<1>1. CanTry /\ UNCHANGED <<config, stage, states, tape, previous, result>> /\ passed' = FALSE /\ MayWork
  BY DEF RejectBranch, MergeBranch, RegisterState, CanTry, ToTry, CanBranch
<1>2. /\ stage = "forward" /\ stats.attempted # limits.transitions /\ result.kind = "pending"
      /\ ForwardCounted
  BY <1>1 DEF CanTry, ToTry, CanBranch, ToBranch, BuildInv, ResultSound, Pending, CountersInv
<1>3. Len(edges) \in Nat /\ edges' = edges /\ limits' = limits /\ settings' = settings
  BY <1>1, EdgesTyped, ConfigStays DEF config, plan
<1>4. PICK n : n = Len(tape)
  OBVIOUS
<1>5. n \in 0 .. Len(edges) /\ Before(n) \in Nat
  BY <1>2, <1>3, <1>4, LayerInRange, BeforeUnfolds
<1>6. PICK c : c = Tried(stats)
  OBVIOUS
<1>7. /\ c \in [DOMAIN NoStats -> Nat]
      /\ c.layers = stats.layers /\ c.peak = stats.peak
      /\ c.attempted = stats.attempted + 1 /\ c.entries = stats.entries + 1
      /\ c.rejected = stats.rejected /\ c.merged = stats.merged
      /\ c.checks = stats.checks
  BY <1>6, TriedFields DEF CountersInv
<1>8. next_ids \in Seq(Elements(next_ids)) /\ Len(next_ids) \in Nat /\ Len(states) \in Nat
  BY <1>2, LenProperties DEF BuildInv, LayerSound
<1>9. /\ stats'.layers = stats.layers /\ stats'.peak = stats.peak
      /\ stats'.attempted = stats.attempted + 1 /\ stats'.entries = stats.entries + 1
      /\ stats'.checks = c.checks
      /\ stats'.rejected + stats'.merged + Len(next_ids') = stats.rejected + stats.merged + Len(next_ids) + 1
      /\ \E id \in Nat : Target(id)
  <2>1. stats.rejected \in Nat /\ stats.merged \in Nat
    BY DEF CountersInv, StatsTyped, NoStats
  <2>2. CASE RejectBranch
    <3>1. stats' = [c EXCEPT !.rejected = @ + 1] /\ next_ids' = next_ids /\ Target(0)
      BY <1>6, <2>2 DEF RejectBranch
    <3>2. stats'.rejected = stats.rejected + 1 /\ stats'.merged = stats.merged
      BY <1>7, <3>1 DEF NoStats
    <3>3. /\ stats'.layers = stats.layers /\ stats'.peak = stats.peak
          /\ stats'.attempted = stats.attempted + 1 /\ stats'.entries = stats.entries + 1
          /\ stats'.checks = c.checks
      BY <1>7, <3>1 DEF NoStats
    <3>4. \E id \in Nat : Target(id)
      BY <3>1, Zenon
    <3>5. stats'.rejected + stats'.merged + Len(next_ids') = stats.rejected + stats.merged + Len(next_ids) + 1
      BY <1>8, <2>1, <3>1, <3>2
    <3> QED
      BY <3>3, <3>4, <3>5, Zenon
  <2>3. CASE MergeBranch
    <3>1. stats' = [c EXCEPT !.merged = @ + 1] /\ next_ids' = next_ids
      BY <1>6, <2>3 DEF MergeBranch
    <3>2. \E id \in DOMAIN next_ids : Target(id)
      BY <2>3 DEF MergeBranch
    <3>3. \E id \in Nat : Target(id)
      BY <1>8, <3>2, LenProperties
    <3>4. stats'.rejected = stats.rejected /\ stats'.merged = stats.merged + 1
      BY <1>7, <3>1 DEF NoStats
    <3>5. /\ stats'.layers = stats.layers /\ stats'.peak = stats.peak
          /\ stats'.attempted = stats.attempted + 1 /\ stats'.entries = stats.entries + 1
          /\ stats'.checks = c.checks
      BY <1>7, <3>1 DEF NoStats
    <3>6. stats'.rejected + stats'.merged + Len(next_ids') = stats.rejected + stats.merged + Len(next_ids) + 1
      BY <1>8, <2>1, <3>1, <3>4
    <3> QED
      BY <3>3, <3>5, <3>6, Zenon
  <2>4. CASE RegisterState
    <3>1. PICK s : next_ids' = Append(next_ids, s)
      BY <2>4 DEF RegisterState
    <3>2. stats' = c /\ Target(Len(next_ids) + 1)
      BY <1>6, <2>4 DEF RegisterState
    <3>3. Len(next_ids') = Len(next_ids) + 1 /\ Len(next_ids) + 1 \in Nat
      BY <1>8, <3>1, AppendElements
    <3>4. stats'.rejected = stats.rejected /\ stats'.merged = stats.merged
      BY <1>7, <3>2
    <3>5. /\ stats'.layers = stats.layers /\ stats'.peak = stats.peak
          /\ stats'.attempted = stats.attempted + 1 /\ stats'.entries = stats.entries + 1
          /\ stats'.checks = c.checks
      BY <1>7, <3>2
    <3>6. \E id \in Nat : Target(id)
      BY <3>2, <3>3
    <3> QED
      BY <1>8, <2>1, <3>3, <3>4, <3>5, <3>6
  <2> QED
    BY <2>2, <2>3, <2>4
<1>10. PICK id \in Nat : Target(id)
  BY <1>9
<1>11. /\ 2 * Len(layer') + Len(targets') = 2 * Len(layer) + Len(targets) + 1
       /\ Len(layer) \in Nat /\ Len(targets) \in Nat /\ Len(layer') \in Nat /\ Len(targets') \in Nat
  BY <1>2, <1>10, TargetCounts
<1>12. StatsTyped'
  BY CountersMove DEF CountersInv, Next, Build
<1>13. Before(Len(tape))' = Before(n)' /\ (PeakOf(Len(tape))' <=> PeakOf(n)')
  BY <1>1, <1>4 DEF Before, PeakOf
<1>14. Before(n)' = Before(n) /\ PeakOf(n)'
  BY <1>1, <1>2, <1>3, <1>4, <1>5, <1>9, WidthsStay, PeakStays DEF ForwardCounted
<1>15. stats.attempted \in Nat /\ stats.checks \in Nat /\ stats.rejected \in Nat /\ stats.merged \in Nat
       /\ limits.transitions \in Nat
  BY LimitsTyped DEF CountersInv, StatsTyped, NoStats
<1>16. /\ stats.attempted = 2 * (Before(n) + Len(layer)) + Len(targets)
       /\ stats.attempted <= limits.transitions
       /\ stats.entries = stats.rejected + stats.merged + Before(n) + Len(states) + Len(next_ids) - 1
  BY <1>2, <1>4 DEF ForwardCounted
<1>17. stats'.attempted <= limits'.transitions /\ stats'.attempted = 2 * (Before(n) + Len(layer')) + Len(targets')
  <2>1. stats'.attempted = stats.attempted + 1
    BY <1>9
  <2>2. stats.attempted + 1 <= limits.transitions
    BY <1>2, <1>15, <1>16
  <2>3. stats.attempted + 1 = 2 * (Before(n) + Len(layer')) + Len(targets')
    <3>1. PICK a, b, l, t, m, u \in Nat :
            /\ a = stats.attempted /\ b = Before(n) /\ l = Len(layer) /\ t = Len(targets)
            /\ m = Len(layer') /\ u = Len(targets')
      BY <1>5, <1>11, <1>15
    <3>2. a = 2 * (b + l) + t /\ 2 * m + u = 2 * l + t + 1
      BY <1>11, <1>16, <3>1
    <3>3. a + 1 = 2 * (b + m) + u
      BY <3>2
    <3> QED
      BY <3>1, <3>3
  <2> QED
    BY <1>3, <2>1, <2>2, <2>3
<1>18. stats'.entries = stats'.rejected + stats'.merged + Before(n) + Len(states) + Len(next_ids') - 1
  <2>1. PICK x, y \in Nat : x = stats'.rejected /\ y = stats'.merged
    BY <1>12 DEF StatsTyped, NoStats
  <2>2. PICK z \in Nat : z = Len(next_ids')
    BY <1>1, <1>2, LenProperties DEF BuildInv, LayerSound
  <2>3. stats'.entries = stats.entries + 1 /\ x + y + z = stats.rejected + stats.merged + Len(next_ids) + 1
    BY <1>9, <2>1, <2>2
  <2>4. stats.entries + 1 = x + y + Before(n) + Len(states) + z - 1
    <3>1. PICK r, m, b, w, k \in Nat :
            r = stats.rejected /\ m = stats.merged /\ b = Before(n) /\ w = Len(states) /\ k = Len(next_ids)
      BY <1>5, <1>8, <1>15
    <3>2. stats.entries = r + m + b + w + k - 1 /\ x + y + z = r + m + k + 1
      BY <1>16, <2>3, <3>1
    <3>3. stats.entries + 1 = x + y + b + w + z - 1
      BY <3>2
    <3> QED
      BY <3>1, <3>3
  <2> QED
    BY <2>1, <2>2, <2>3, <2>4
<1>19. ChecksAre(1 + stats.attempted)'
  <2>1. Looks \in Int /\ Looks' = IF settings.attached THEN Looks + 1 ELSE Looks
    BY <1>1, <1>7, <1>9, WorkLooks DEF CountersInv
  <2>2. Looks = IF settings.attached THEN 1 + stats.attempted ELSE 0
    BY <1>2 DEF ForwardCounted, ChecksAre
  <2>3. settings' = settings /\ stats'.attempted = stats.attempted + 1
    BY <1>3, <1>9
  <2>4. Looks' = IF settings'.attached THEN 1 + stats'.attempted ELSE 0
    <3>1. CASE settings.attached
      BY <1>15, <2>1, <2>2, <2>3, <3>1
    <3>2. CASE ~settings.attached
      BY <2>1, <2>2, <2>3, <3>2
    <3> QED
      BY <3>1, <3>2
  <2> QED
    BY <2>4 DEF ChecksAre
<1>20. ForwardCounted'
  BY <1>1, <1>2, <1>4, <1>9, <1>13, <1>14, <1>17, <1>18, <1>19 DEF ForwardCounted
<1> QED
  BY <1>1, <1>2, <1>9, <1>12, <1>20 DEF CountersInv

\* A level completed adds its states to those of the levels before it.
LEMMA EndLayerCounted ==
  ASSUME BuildInv, BuildInv', Configured, LayersInv, CountersInv, EndLayer
  PROVE  CountersInv'
<1> USE DEF backward
<1>1. /\ stage = "forward" /\ source = Len(states) + 1 /\ source' = 1
      /\ states' = next_ids /\ next_ids' = << >> /\ tape' = Append(tape, layer) /\ layer' = << >>
      /\ stage' = IF Layer = Len(steps) THEN "finalize" ELSE "forward"
      /\ stats' = [stats EXCEPT !.layers = @ + 1, !.peak = Larger(@, Len(next_ids))]
      /\ UNCHANGED <<config, targets, result, passed>>
  BY DEF EndLayer
<1>2. PICK n \in Nat : n = Len(tape) /\ n \in 0 .. Len(edges) - 1 /\ Layer = n + 1
  BY <1>1, EdgesTyped, LayerInRange
<1>3. /\ Len(edges) \in Nat /\ edges' = edges /\ limits' = limits /\ settings' = settings
      /\ n + 1 \in 0 .. Len(edges) /\ n \in 0 .. Len(edges)
  BY <1>1, <1>2, EdgesTyped, ConfigStays DEF config, plan
<1>4. ForwardCounted /\ result.kind = "pending" /\ LayerSound /\ TapeSound
  BY <1>1 DEF CountersInv, BuildInv, ResultSound, Pending
<1>5. PICK b, w, v \in Nat : b = Before(n) /\ w = Width(n) /\ v = Width(n + 1)
  BY <1>3, BeforeUnfolds, ReachFinite
<1>6. Before(n + 1) = b + w
  BY <1>2, <1>3, <1>5, BeforeUnfolds
<1>7. Len(layer) = w /\ Len(states) = w /\ Len(next_ids) = v /\ targets = << >> /\ Len(targets) = 0
  BY <1>1, <1>2, <1>5, LayerComplete, StatesCounted, ShortSequences
<1>8. Len(tape') = n + 1 /\ Len(layer') = 0 /\ Len(next_ids') = 0 /\ Len(states') = v /\ Len(targets') = 0
  BY <1>1, <1>2, <1>4, <1>7, AppendProperties, ShortSequences DEF LayerSound, TapeSound
<1>9. StatsTyped /\ StatsTyped'
  BY CountersMove DEF CountersInv, Next, Build
<1>10. /\ stats'.attempted = stats.attempted /\ stats'.entries = stats.entries /\ stats'.rejected = stats.rejected
       /\ stats'.merged = stats.merged /\ stats'.checks = stats.checks /\ stats'.layers = stats.layers + 1
       /\ stats'.peak = Larger(stats.peak, v)
  <2>1. PICK l, p : l = stats.layers + 1 /\ p = Larger(stats.peak, v)
    OBVIOUS
  <2>2. stats' = [stats EXCEPT !.layers = l, !.peak = p]
    BY <1>1, <1>7, <2>1
  <2>3. stats'.layers = l /\ stats'.peak = p
    BY <1>9, <2>2 DEF StatsTyped, NoStats
  <2>4. /\ stats'.attempted = stats.attempted /\ stats'.entries = stats.entries /\ stats'.rejected = stats.rejected
        /\ stats'.merged = stats.merged /\ stats'.checks = stats.checks
    BY <1>9, <2>2 DEF StatsTyped, NoStats
  <2> QED
    BY <2>1, <2>3, <2>4
<1>11. PICK a, e, r, m, p \in Nat :
         a = stats.attempted /\ e = stats.entries /\ r = stats.rejected /\ m = stats.merged /\ p = stats.peak
  BY <1>9 DEF StatsTyped, NoStats
<1>12. /\ a = 2 * (b + w) /\ a <= limits.transitions /\ e = r + m + (b + w) + v - 1 /\ stats.layers = n
       /\ ChecksAre(1 + stats.attempted) /\ PeakOf(n)
  <2>1. a = 2 * (b + w) + 0 /\ e = r + m + b + w + v - 1
    BY <1>2, <1>4, <1>5, <1>7, <1>11 DEF ForwardCounted
  <2>2. a = 2 * (b + w) /\ e = r + m + (b + w) + v - 1
    BY <2>1
  <2> QED
    BY <1>2, <1>4, <1>11, <2>2 DEF ForwardCounted
<1>13. PeakOf(n + 1)'
  <2>1. (\E i \in 0 .. n : p = Width(i)) /\ \A i \in 0 .. n : Width(i) <= p
    BY <1>11, <1>12 DEF PeakOf
  <2>2. \A i \in 0 .. n + 1 : Width(i)' = Width(i) /\ Width(i) \in Nat /\ (i \in 0 .. n \/ i = n + 1)
    <3> TAKE i \in 0 .. n + 1
    <3>1. i \in 0 .. Len(edges)
      BY <1>2, <1>3
    <3> QED
      <4>1. UNCHANGED config /\ Len(edges) \in Nat
        BY <1>1, <1>3
      <4>2. Width(i)' = Width(i)
        BY <3>1, <4>1, WidthsStay
      <4>3. Width(i) \in Nat
        BY <3>1, <4>1, ReachFinite
      <4>4. i \in 0 .. n \/ i = n + 1
        BY <1>2
      <4> QED
        BY <4>2, <4>3, <4>4
  <2>3. \A i \in 0 .. n : i \in 0 .. n + 1
    OBVIOUS
  <2>4. n + 1 \in 0 .. n + 1 /\ Width(n + 1) = v
    BY <1>5
  <2>5. CASE p < v
    <3>1. stats'.peak = v
      BY <1>10, <1>11, <2>5 DEF Larger
    <3>2. \A i \in 0 .. n + 1 : Width(i) <= v
      BY <1>5, <1>11, <2>1, <2>2, <2>4, <2>5
    <3> QED
      BY <2>2, <2>4, <3>1, <3>2 DEF PeakOf
  <2>6. CASE ~(p < v)
    <3>1. stats'.peak = p
      BY <1>10, <1>11, <2>6 DEF Larger
    <3>2. \A i \in 0 .. n + 1 : Width(i) <= p
      BY <1>5, <1>11, <2>1, <2>2, <2>4, <2>6
    <3>3. \E i \in 0 .. n + 1 : p = Width(i)
      BY <2>1, <2>3
    <3> QED
      BY <2>2, <3>1, <3>2, <3>3 DEF PeakOf
  <2> QED
    BY <2>5, <2>6
<1>14. Before(n + 1)' = b + w
  BY <1>1, <1>3, <1>6, WidthsStay
<1>15. Before(Len(tape))' = b + w /\ PeakOf(Len(tape))'
  BY <1>8, <1>13, <1>14 DEF Before, PeakOf
<1>16. ChecksAre(1 + stats.attempted)'
  BY <1>1, <1>3, <1>10, <1>12 DEF ChecksAre, Looks
<1>17. ForwardCounted'
  <2>1. a = 2 * ((b + w) + 0) + 0 /\ e = r + m + (b + w) + v + 0 - 1
    BY <1>12
  <2> QED
    BY <1>3, <1>8, <1>10, <1>11, <1>12, <1>15, <1>16, <2>1 DEF ForwardCounted
<1>18. stage' = "finalize" => AllTried'
  <2>1. SUFFICES ASSUME stage' = "finalize" PROVE AllTried'
    OBVIOUS
  <2>2. Len(edges') = Len(tape')
    BY <2>1 DEF BuildInv, FinalSound
  <2>3. Before(Len(edges))' = b + w /\ PeakOf(Len(edges))'
    BY <1>15, <2>2 DEF Before, PeakOf
  <2> QED
    BY <1>3, <1>10, <1>11, <1>12, <2>3 DEF AllTried
<1>19. ChecksAre(1 + stats.attempted + (source - 1))'
  <2>1. 1 + stats'.attempted + (1 - 1) = 1 + stats'.attempted
    BY <1>10, <1>11
  <2> QED
    BY <1>1, <1>16, <2>1 DEF ChecksAre
<1> QED
  BY <1>1, <1>4, <1>9, <1>10, <1>17, <1>18, <1>19 DEF CountersInv

\* One state finalized, one row reduced: one look at the token.
LEMMA UnitCounted ==
  ASSUME BuildInv, BuildInv', Configured, LayersInv, PassedInv, CountersInv, FinalizeState \/ ReduceRow
  PROVE  CountersInv'
<1> USE DEF forward
<1>1. /\ stage \in {"finalize", "backward"} /\ UNCHANGED <<config, stage, tape, result>>
      /\ MayWork /\ passed' = FALSE
      /\ stage = "finalize" <=> FinalizeState
  BY DEF FinalizeState, ReduceRow, ToFinalize, ToReduce
<1>2. Len(edges) \in Nat /\ edges' = edges /\ settings' = settings /\ result.kind = "pending"
  BY <1>1, EdgesTyped DEF BuildInv, ResultSound, Pending, config, plan
<1>3. StatsTyped /\ StatsTyped'
  BY CountersMove DEF CountersInv, Next, Build
<1>4. /\ stats'.attempted = stats.attempted /\ stats'.entries = stats.entries /\ stats'.peak = stats.peak
      /\ stats'.checks = stats.checks
  <2>1. \E x : stats' = [stats EXCEPT !.created = x]
    <3>1. CASE FinalizeState
      <4>1. stats' = [stats EXCEPT !.created = stats.created]
        BY <1>3, <3>1 DEF FinalizeState, StatsTyped, NoStats
      <4> QED
        BY <4>1
    <3>2. CASE ReduceRow
      BY <3>2 DEF ReduceRow
    <3> QED
      BY <3>1, <3>2
  <2> QED
    BY <1>3, <2>1 DEF StatsTyped, NoStats
<1>5. AllTried' /\ (Before(Len(edges)))' = Before(Len(edges)) /\ (Width(Len(edges)))' = Width(Len(edges))
  BY <1>1, <1>4, AllTriedStays DEF CountersInv
<1>6. /\ stats.attempted \in Nat /\ Looks \in Int
      /\ Looks' = IF settings.attached THEN Looks + 1 ELSE Looks
  BY <1>1, <1>3, <1>4, WorkLooks DEF StatsTyped, NoStats
<1>7. CASE FinalizeState
  <2>1. source' = source + 1 /\ source \in Nat
    BY <1>1, <1>7 DEF FinalizeState, BuildInv, FinalSound
  <2>2. ChecksAre(1 + stats.attempted + (source - 1))
    BY <1>1, <1>7 DEF CountersInv
  <2>3. ChecksAre(1 + stats.attempted + (source - 1))'
    <3>1. 1 + stats.attempted + (source - 1) + 1 = 1 + stats.attempted + ((source + 1) - 1)
      BY <1>6, <2>1
    <3> QED
      BY <1>2, <1>4, <1>6, <2>1, <2>2, <3>1 DEF ChecksAre
  <2> QED
    BY <1>1, <1>2, <1>3, <1>4, <1>5, <1>7, <2>3 DEF CountersInv
<1>8. CASE ReduceRow
  <2>1. stage = "backward" /\ previous' = Append(previous, Decision)
    BY <1>8 DEF ReduceRow, ToReduce
  <2>2. Len(previous) \in Nat /\ Len(previous') = Len(previous) + 1
    <3>1. /\ Len(previous) = source - 1 /\ Len(previous') = source' - 1
          /\ previous \in Seq(SUBSET SUBSET Levels) /\ source' = source + 1
      BY <1>1, <1>8, <2>1 DEF BuildInv, RootsSound, ReduceRow, ToReduce
    <3>2. source \in Nat
      BY <1>8, <2>1 DEF BuildInv, RootsSound, ReduceRow, ToReduce
    <3> QED
      BY <3>1, <3>2, LenProperties
  <2>3. PICK n : n = Len(tape)
    OBVIOUS
  <2>4. n \in 0 .. Len(edges)
    BY <2>1, <2>3, LayerInRange
  <2>5. Before(Len(tape))' = Before(n)' /\ Before(n)' = Before(n) /\ Before(n) \in Nat
    BY <1>1, <1>2, <2>3, <2>4, WidthsStay, BeforeUnfolds DEF Before
  <2>6. PICK b, w \in Nat : b = Before(Len(edges)) /\ w = Width(Len(edges))
    <3>1. Len(edges) \in 0 .. Len(edges)
      BY <1>2
    <3> QED
      BY <1>2, <3>1, BeforeUnfolds, ReachFinite
  <2>7. Reduced = b - Before(n) + Len(previous) /\ Reduced' = b - Before(n) + (Len(previous) + 1)
    BY <1>5, <2>2, <2>3, <2>5, <2>6 DEF Reduced
  <2>8. ChecksAre(1 + stats.attempted + w + Reduced)
    BY <2>1, <2>6 DEF CountersInv
  <2>9. 1 + stats.attempted + w + (b - Before(n) + Len(previous)) + 1
          = 1 + stats.attempted + w + (b - Before(n) + (Len(previous) + 1))
    BY <1>6, <2>2, <2>5
  <2>10. ChecksAre(1 + stats.attempted + Width(Len(edges)) + Reduced)'
    BY <1>2, <1>4, <1>5, <1>6, <2>6, <2>7, <2>8, <2>9 DEF ChecksAre
  <2> QED
    BY <1>1, <1>2, <1>3, <1>4, <1>5, <2>1, <2>10 DEF CountersInv
<1> QED
  BY <1>7, <1>8

\* The looks at the token move with the layer that is reduced.
LEMMA BackwardCounted ==
  ASSUME BuildInv, BuildInv', Configured, LayersInv, CountersInv, EndFinalize \/ EndReduce
  PROVE  CountersInv'
<1>1. /\ stage \in {"finalize", "backward"} /\ stage' = "backward" /\ UNCHANGED <<config, stats, passed, result>>
      /\ result.kind = "pending" /\ Looks' = Looks
  BY DEF EndFinalize, EndReduce, BuildInv, ResultSound, Pending, Looks
<1>2. Len(edges) \in Nat /\ edges' = edges /\ settings' = settings /\ Len(edges) \in 0 .. Len(edges)
  BY <1>1, EdgesTyped DEF config, plan
<1>3. AllTried' /\ (Before(Len(edges)))' = Before(Len(edges)) /\ (Width(Len(edges)))' = Width(Len(edges))
  BY <1>1, AllTriedStays DEF CountersInv
<1>4. StatsTyped /\ StatsTyped'
  BY CountersMove DEF CountersInv, Next, Build
<1>5. PICK b, w, a \in Nat : b = Before(Len(edges)) /\ w = Width(Len(edges)) /\ a = stats.attempted
  BY <1>2, <1>4, BeforeUnfolds, ReachFinite DEF StatsTyped, NoStats
<1>6. ChecksAre(1 + a + w + Reduced)'
  <2>1. CASE EndFinalize
    <3>1. /\ stage = "finalize" /\ source = Len(states) + 1 /\ UNCHANGED <<tape, previous>>
      BY <2>1 DEF EndFinalize, forward, backward
    <3>2. ChecksAre(1 + a + (source - 1))
      BY <1>5, <3>1 DEF CountersInv
    <3>3. Len(tape) = Len(edges) /\ previous = << >> /\ Len(states) = w
      BY <1>5, <3>1, StatesCounted DEF BuildInv, FinalSound
    <3>4. Before(Len(tape))' = b
      <4>1. Before(Len(tape))' = Before(Len(edges))'
        BY <1>2, <3>1, <3>3 DEF Before
      <4> QED
        BY <1>3, <1>5, <4>1
    <3>5. Len(previous') = 0
      BY <3>1, <3>3, ShortSequences
    <3>6. Reduced' = b - b + 0
      BY <1>3, <1>5, <3>4, <3>5 DEF Reduced
    <3>7. 1 + a + (source - 1) = 1 + a + w + (b - b + 0)
      <4>1. source = w + 1
        BY <3>1, <3>3
      <4> QED
        BY <4>1
    <3> QED
      BY <1>1, <1>2, <3>2, <3>6, <3>7 DEF ChecksAre
  <2>2. CASE EndReduce
    <3>1. /\ stage = "backward" /\ tape # << >> /\ source = Len(tape[Len(tape)]) + 1
          /\ previous' = << >> /\ tape' = SubSeq(tape, 1, Len(tape) - 1)
      BY <2>2 DEF EndReduce
    <3>2. tape \in Seq(Seq(Rows)) /\ Len(tape) \in 0 .. Len(edges)
      BY <1>1, LayerInRange DEF BuildInv, TapeSound
    <3>3. PICK n \in Nat : n + 1 = Len(tape)
      <4>1. Len(tape) \in Nat /\ Len(tape) # 0
        BY <3>1, <3>2, LenProperties, EmptySeq
      <4>2. Len(tape) - 1 \in Nat /\ (Len(tape) - 1) + 1 = Len(tape)
        BY <4>1
      <4> QED
        BY <4>2
    <3>4. Len(tape') = n
      <4>1. tape' = SubSeq(tape, 1, n)
        BY <3>1, <3>3
      <4> QED
        BY <3>2, <3>3, <4>1, SubSeqProperties
    <3>5. n \in 0 .. Len(edges) /\ n \in 0 .. Len(edges) - 1 /\ n + 1 \in 1 .. Len(tape) /\ (n + 1) - 1 = n
      BY <1>2, <3>2, <3>3
    <3>6. PICK c, v \in Nat : c = Before(n) /\ v = Width(n)
      BY <1>2, <3>5, BeforeUnfolds, ReachFinite
    <3>7. Before(n + 1) = c + v /\ Before(n)' = c
      BY <1>1, <1>2, <3>5, <3>6, BeforeUnfolds, WidthsStay
    <3>8. Len(tape[n + 1]) = v
      <4>1. Len(tape[n + 1]) = Width((n + 1) - 1)
        BY <3>1, <3>5 DEF LayersInv, LayersCounted
      <4> QED
        BY <3>5, <3>6, <4>1
    <3>9. Len(previous) = v
      <4>1. Len(previous) = source - 1 /\ source = v + 1
        BY <3>1, <3>3, <3>8 DEF BuildInv, RootsSound
      <4> QED
        BY <3>6, <4>1
    <3>10. Reduced = b - (c + v) + v
      BY <1>5, <3>3, <3>7, <3>9 DEF Reduced
    <3>11. Before(Len(tape))' = c /\ Len(previous') = 0
      <4>1. Before(Len(tape))' = Before(n)'
        BY <3>4 DEF Before
      <4> QED
        BY <3>1, <3>7, <4>1, ShortSequences
    <3>12. Reduced' = b - c + 0
      BY <1>3, <1>5, <3>11 DEF Reduced
    <3>13. ChecksAre(1 + a + w + Reduced)
      BY <1>5, <3>1 DEF CountersInv
    <3>14. 1 + a + w + (b - (c + v) + v) = 1 + a + w + (b - c + 0)
      BY <1>5, <3>6
    <3> QED
      BY <1>1, <1>2, <3>10, <3>12, <3>13, <3>14 DEF ChecksAre
  <2> QED
    BY <2>1, <2>2
<1>7. ChecksAre(1 + stats.attempted + Width(Len(edges)) + Reduced)'
  BY <1>1, <1>3, <1>5, <1>6 DEF ChecksAre
<1> QED
  BY <1>1, <1>3, <1>4, <1>7 DEF CountersInv

\* The branches beyond the limit.
LEMMA TransitionsLimitDue ==
  ASSUME BuildInv, Configured, LayersInv, CountersInv, OverTransitions
  PROVE  2 * Before(Len(edges)) > limits.transitions
<1>1. stage = "forward" /\ source <= Len(states) /\ stats.attempted = limits.transitions
  BY DEF OverTransitions, CanBranch, ToBranch
<1>2. PICK n \in Nat : n = Len(tape) /\ n \in 0 .. Len(edges) - 1
  BY <1>1, EdgesTyped, LayerInRange
<1>3. Len(edges) \in Nat /\ n \in 0 .. Len(edges) /\ n + 1 \in 0 .. Len(edges) /\ Len(edges) \in 0 .. Len(edges)
  BY <1>2, EdgesTyped
<1>4. PICK b, w, t \in Nat : b = Before(n) /\ w = Width(n) /\ t = Before(Len(edges))
  BY <1>3, BeforeUnfolds, ReachFinite
<1>5. b + w <= t
  BY <1>2, <1>3, <1>4, BeforeUnfolds, BeforeGrows
<1>6. PICK l, p \in Nat : l = Len(layer) /\ p = Len(targets) /\ l < w /\ p <= 1
  <2>1. layer \in Seq(Rows) /\ targets \in Seq(Nat) /\ Len(targets) <= 1 /\ Len(layer) = source - 1
        /\ source \in 1 .. Len(states) + 1
    BY <1>1 DEF BuildInv, LayerSound
  <2>2. Len(states) = w
    BY <1>1, <1>2, <1>4, StatesCounted
  <2> QED
    BY <1>1, <1>4, <2>1, <2>2, LenProperties
<1>7. limits.transitions = 2 * (b + l) + p
  BY <1>1, <1>2, <1>4, <1>6 DEF CountersInv, ForwardCounted
<1>8. 2 * t > 2 * (b + l) + p
  <2>1. b + w <= t /\ l < w /\ p <= 1
    BY <1>5, <1>6
  <2>2. PICK s \in Nat : s = b + l
    OBVIOUS
  <2>3. s + 1 <= t
    BY <2>1, <2>2
  <2>4. 2 * t > 2 * s + p
    BY <2>1, <2>3
  <2> QED
    BY <2>2, <2>4
<1> QED
  BY <1>4, <1>7, <1>8

\* A build that returns has counted what it did.
LEMMA ReturnCounted ==
  ASSUME BuildInv, Configured, LayersInv, CountersInv, Next, UNCHANGED config, stage # "returned",
         NEW r, Return(r), NEW d \in {0, 1}, d = 1 => r.kind = "problem_error",
         stats'.attempted - stats'.entries = (stats.attempted - stats.entries) + d,
         r.kind = "ok" =>
           stats' = stats /\ passed' = passed /\ ~passed /\ AllTried /\
             ChecksAre(1 + stats.attempted + Width(Len(edges)) + Before(Len(edges))),
         r.kind = "transitions_limit" => 2 * Before(Len(edges)) > limits.transitions
  PROVE  CountersInv'
<1>1. stage' = "returned" /\ result' = r
  BY DEF Return
<1>2. Len(edges) \in Nat /\ edges' = edges /\ settings' = settings /\ limits' = limits
  BY EdgesTyped, ConfigStays DEF config, plan
<1>3. StatsTyped /\ StatsTyped'
  BY CountersMove DEF CountersInv
<1>4. stats.attempted = stats.entries /\ stats.attempted \in Nat
  BY <1>3 DEF CountersInv, StatsTyped, NoStats
<1>5. stats'.attempted - stats'.entries = d
  BY <1>4
<1>6. r.kind = "ok" =>
        (AllTried /\ ~passed /\ ChecksAre(1 + stats.attempted + Width(Len(edges)) + Before(Len(edges))))'
  <2>1. SUFFICES ASSUME r.kind = "ok"
        PROVE (AllTried /\ ~passed /\ ChecksAre(1 + stats.attempted + Width(Len(edges)) + Before(Len(edges))))'
    OBVIOUS
  <2>2. AllTried' /\ (Before(Len(edges)))' = Before(Len(edges)) /\ (Width(Len(edges)))' = Width(Len(edges))
    BY <2>1, AllTriedStays
  <2> QED
    BY <1>2, <2>1, <2>2 DEF ChecksAre, Looks
<1>7. (Before(Len(edges)))' = Before(Len(edges))
  <2>1. PICK n : n = Len(edges)
    OBVIOUS
  <2>2. n \in 0 .. Len(edges)
    BY <1>2, <2>1
  <2>3. Before(Len(edges))' = Before(n)'
    BY <1>2, <2>1 DEF Before
  <2> QED
    BY <1>2, <2>1, <2>2, <2>3, WidthsStay
<1>8. d \in (IF r.kind = "problem_error" THEN {0, 1} ELSE {0})
  OBVIOUS
<1> QED
  BY <1>1, <1>2, <1>3, <1>5, <1>6, <1>7, <1>8 DEF CountersInv

\* The answer is given when every layer is reduced.
LEMMA FinishCounted ==
  ASSUME BuildInv, Configured, LayersInv, PassedInv, CountersInv, Finish
  PROVE  ~passed /\ AllTried /\ ChecksAre(1 + stats.attempted + Width(Len(edges)) + Before(Len(edges)))
<1>1. stage = "backward" /\ tape = << >>
  BY DEF Finish
<1>2. Len(edges) \in Nat /\ Len(edges) \in 0 .. Len(edges) /\ Len(tape) = 0
  BY <1>1, EdgesTyped, ShortSequences
<1>3. previous = << >> /\ Len(previous) = 0
  BY <1>1, ShortSequences DEF BuildInv, RootsSound
<1>4. PICK b \in Nat : b = Before(Len(edges))
  BY <1>2, BeforeUnfolds
<1>5. Reduced = b - 0 + 0
  BY <1>2, <1>3, <1>4, BeforeUnfolds DEF Reduced
<1>6. Reduced = b
  BY <1>4, <1>5
<1>7. ~passed
  BY <1>1 DEF PassedInv, ToStart, ToBranch, ToFinalize, ToReduce
<1> QED
  BY <1>1, <1>4, <1>6, <1>7 DEF CountersInv

\* Every step keeps the counters those of the problem.
LEMMA StepKeepsCounters ==
  ASSUME BuildInv, BuildInv', Configured, LayersInv, PassedInv, CountersInv, [Next]_vars
  PROVE  CountersInv'
<1> USE DEF backward, forward
<1>1. CASE UNCHANGED vars
  <2>1. UNCHANGED <<config, stage, forward, source, previous, stats, passed, result>>
    BY <1>1 DEF vars, config
  <2> QED
    BY <2>1, CountersStay DEF SameCounts, CountersInv, StatsTyped, Looks
<1>2. CASE Planning
  <2>1. stage = "plan" /\ stage' = "plan" /\ result'.kind = "pending" /\ stats' = stats
        /\ passed' = passed
    BY <1>2 DEF Planning, BuildInv, ResultSound, Pending
  <2> QED
    BY <2>1 DEF CountersInv, StatsTyped, NothingCounted, Looks
<1>3. CASE Cancel
  <2>1. UNCHANGED <<config, stage, forward, source, previous, stats, passed, result>>
    BY <1>3 DEF Cancel
  <2> QED
    BY <2>1, CountersStay DEF SameCounts, CountersInv, StatsTyped, Looks
<1>4. CASE Start
  BY <1>4, StartCounted
<1>5. CASE RejectBranch \/ MergeBranch \/ RegisterState
  BY <1>5, BranchCounted
<1>6. CASE EndLayer
  BY <1>6, EndLayerCounted
<1>14. CASE PassCheck
  BY <1>14, PassCheckCounted
<1>7. CASE FinalizeState \/ ReduceRow
  BY <1>7, UnitCounted
<1>8. CASE EndFinalize \/ EndReduce
  BY <1>8, BackwardCounted
<1>9. StatsTyped /\ stats.attempted \in Nat /\ stats.entries \in Nat
  BY DEF CountersInv, StatsTyped, NoStats
<1>10. CASE Finish
  <2>1. /\ Next /\ stage # "returned" /\ UNCHANGED config /\ stats' = stats /\ passed' = passed
        /\ Return([kind |-> "ok", value |-> roots[Len(roots)]])
    BY <1>10 DEF Finish, Next, Build
  <2>2. stats'.attempted - stats'.entries = (stats.attempted - stats.entries) + 0
    BY <1>9, <2>1
  <2> QED
    BY <1>10, <2>1, <2>2, FinishCounted, ReturnCounted
<1>11. CASE ObserveCancel \/ RefuseStart \/ OverTransitions \/ FailFinalize \/ OverNodes
  <2>1. /\ Next /\ stage # "returned" /\ UNCHANGED config /\ (stats' = stats \/ stats' = Checked(stats))
    BY <1>11 DEF ObserveCancel, RefuseStart, OverTransitions, FailFinalize, OverNodes, Next, Build,
                 ToLook, ToStart, ToBranch, ToFinalize, ToReduce, CanBranch
  <2>2. stats'.attempted - stats'.entries = (stats.attempted - stats.entries) + 0
    BY <1>9, <2>1, CheckedFields
  <2>3. \E kind \in {"cancelled", "problem_error", "states_limit", "transitions_limit", "node_limit"} :
          Return(Outcome(kind)) /\ (kind = "transitions_limit" => OverTransitions)
    BY <1>11 DEF ObserveCancel, RefuseStart, OverTransitions, FailFinalize, OverNodes
  <2> QED
    BY <2>1, <2>2, <2>3, TransitionsLimitDue, ReturnCounted DEF Outcome
<1>12. CASE FailTransition
  <2>1. /\ Next /\ stage # "returned" /\ UNCHANGED config /\ Return(Outcome("problem_error"))
        /\ stats' = [stats EXCEPT !.attempted = @ + 1]
    BY <1>12 DEF FailTransition, Next, Build, ToTry, CanBranch, ToBranch
  <2>2. stats'.attempted - stats'.entries = (stats.attempted - stats.entries) + 1
    <3>3. stats'.attempted = stats.attempted + 1 /\ stats'.entries = stats.entries
      BY <1>9, <2>1 DEF StatsTyped, NoStats
    <3> QED
      BY <1>9, <3>3
  <2> QED
    BY <2>1, <2>2, ReturnCounted DEF Outcome
<1>13. CASE OverStates
  <2>1. /\ Next /\ stage # "returned" /\ UNCHANGED config /\ Return(Outcome("states_limit")) /\ stats' = Tried(stats)
    BY <1>13 DEF OverStates, Next, Build, CanTry, ToTry, CanBranch, ToBranch
  <2>2. stats'.attempted - stats'.entries = (stats.attempted - stats.entries) + 0
    BY <1>9, <2>1, TriedFields
  <2> QED
    BY <2>1, <2>2, ReturnCounted DEF Outcome
<1> QED
  BY <1>1, <1>2, <1>3, <1>4, <1>5, <1>6, <1>7, <1>8, <1>10, <1>11, <1>12, <1>13, <1>14 DEF Next, Build

\* The counters of every build are those of the problem.
LEMMA CountersAreTheProblems == Spec => []CountersInv
<1>1. Init => CountersInv
  BY DEF Init, CountersInv, NothingCounted, Looks, StatsTyped, NoStats, Pending
<1>2. BuildInv /\ BuildInv' /\ Configured /\ LayersInv /\ PassedInv /\ CountersInv /\ [Next]_vars => CountersInv'
  BY StepKeepsCounters
<1> QED
  BY <1>1, <1>2, Invariance, ConfiguredAlways, LayersAreTheProblems, LooksInTime, PTL DEF Spec

----------------------------------------------------------------------------
(* The nodes in the store are those of the problem.                        *)

\* The families of the states of the levels from k on, but for the terminals.
RunNodes(k) ==
  InitialNodes \union
    ({Completions(S, j) : S \in SUBSET Levels, j \in k .. Len(edges)} \ {Zero, Unit})

\* The store is counted node by node, and keeps to the limit.
StoreCounted ==
  /\ IsFiniteSet(store)
  /\ stats.created = Cardinality(store) - Cardinality(InitialNodes)
  /\ Cardinality(store) <= MaxLiveNodes

\* The store has the manager's own nodes, those of the levels reduced and those
\* of the rows reduced at the level at work.
StoreNodes ==
  /\ stage \in {"plan", "forward", "finalize"} => store = InitialNodes
  /\ stage = "backward" => store = RunNodes(Len(tape)) \union (Elements(previous) \ {Zero, Unit})
  /\ result.kind = "ok" => store = RunNodes(0)
  /\ result.kind = "node_limit" =>
       FirstState # {} /\ NoRunFails /\ Cardinality(RunNodes(0)) > MaxLiveNodes

StoreInv == StoreCounted /\ StoreNodes

\* There are finitely many families.
LEMMA FamiliesFinite ==
  ASSUME Len(edges) \in Nat, Levels = 1 .. Len(edges)
  PROVE  /\ IsFiniteSet(SUBSET SUBSET Levels)
         /\ InitialNodes \subseteq SUBSET SUBSET Levels /\ IsFiniteSet(InitialNodes)
         /\ \A k : RunNodes(k) \subseteq SUBSET SUBSET Levels /\ IsFiniteSet(RunNodes(k))
<1>1. IsFiniteSet(Levels)
  BY FS_Interval
<1>2. IsFiniteSet(SUBSET SUBSET Levels)
  BY <1>1, FS_SUBSET
<1>3. InitialNodes \subseteq SUBSET SUBSET Levels
  BY DEF InitialNodes
<1>4. \A S, j : Completions(S, j) \in SUBSET SUBSET Levels
  BY DEF Completions
<1>5. ASSUME NEW k PROVE RunNodes(k) \subseteq SUBSET SUBSET Levels
  <2> DEFINE All == {Completions(S, j) : S \in SUBSET Levels, j \in k .. Len(edges)}
  <2>1. All \subseteq SUBSET SUBSET Levels
    BY <1>4
  <2>2. RunNodes(k) = InitialNodes \union (All \ {Zero, Unit})
    BY DEF RunNodes
  <2> HIDE DEF All
  <2> QED
    BY <1>3, <2>1, <2>2
<1>6. PICK F : F = SUBSET SUBSET Levels
  OBVIOUS
<1>7. \A X : X \subseteq F => IsFiniteSet(X)
  BY <1>2, <1>6, FS_Subset
<1> QED
  BY <1>2, <1>3, <1>5, <1>6, <1>7

\* A family of the states above the layer at work is a node unless a terminal.
LEMMA RunNodesHave ==
  ASSUME NEW k, NEW S \in SUBSET Levels, NEW j \in k .. Len(edges)
  PROVE  Completions(S, j) \in RunNodes(k) \union {Zero, Unit}
BY DEF RunNodes

\* The families of one level more.
LEMMA RunNodesGrow ==
  ASSUME Len(edges) \in Nat, NEW k \in Nat, k < Len(edges)
  PROVE  RunNodes(k) = RunNodes(k + 1) \union ({Completions(S, k) : S \in SUBSET Levels} \ {Zero, Unit})
<1> DEFINE All(n) == {Completions(S, j) : S \in SUBSET Levels, j \in n .. Len(edges)}
           Here == {Completions(S, k) : S \in SUBSET Levels}
<1>1. \A j : j \in k .. Len(edges) <=> j = k \/ j \in k + 1 .. Len(edges)
  OBVIOUS
<1>2. All(k) = All(k + 1) \union Here
  BY <1>1
<1>3. RunNodes(k) = InitialNodes \union (All(k) \ {Zero, Unit})
      /\ RunNodes(k + 1) = InitialNodes \union (All(k + 1) \ {Zero, Unit})
  BY DEF RunNodes
<1> HIDE DEF All, Here
<1>4. RunNodes(k) = RunNodes(k + 1) \union (Here \ {Zero, Unit})
  BY <1>2, <1>3
<1> QED
  BY <1>4 DEF Here

\* More levels have more families.
LEMMA RunNodesInside ==
  ASSUME Len(edges) \in Nat, NEW k \in Nat
  PROVE  RunNodes(k) \subseteq RunNodes(0)
<1>1. \A j \in k .. Len(edges) : j \in 0 .. Len(edges)
  OBVIOUS
<1> QED
  BY <1>1 DEF RunNodes

\* The last level has only terminals.
LEMMA LastRunNodes ==
  ASSUME Len(edges) \in Nat, Levels = 1 .. Len(edges)
  PROVE  RunNodes(Len(edges)) = InitialNodes
<1>1. \A j \in Len(edges) .. Len(edges) : j = Len(edges)
  OBVIOUS
<1>2. \A S \in SUBSET Levels : Completions(S, Len(edges)) \in {Zero, Unit}
  BY LastCompletions
<1> QED
  BY <1>1, <1>2 DEF RunNodes

\* The nodes are those of the configuration.
LEMMA RunNodesStay ==
  ASSUME UNCHANGED config, Len(edges) \in Nat, Levels = 1 .. Len(edges)
  PROVE  \A k : RunNodes(k)' = RunNodes(k)
<1>1. Levels' = Levels /\ InitialNodes' = InitialNodes /\ edges' = edges
  BY ConfigStays DEF config, plan
<1>2. \A S, n : Completions(S, n)' = Completions(S, n)
  BY CompletionsStay
<1> TAKE k
<1> DEFINE All == {Completions(S, j) : S \in SUBSET Levels, j \in k .. Len(edges)}
<1>3. All' = All
  BY <1>1, <1>2
<1>4. RunNodes(k) = InitialNodes \union (All \ {Zero, Unit})
  BY DEF RunNodes
<1>5. RunNodes(k)' = InitialNodes' \union (All' \ {Zero, Unit})
  BY DEF RunNodes, Zero, Unit
<1> HIDE DEF All
<1> QED
  BY <1>1, <1>3, <1>4, <1>5

\* The roots of a level are the families of its states.
RootsTell ==
  Elements(roots) \ {Zero, Unit} = {Completions(S, Len(tape)) : S \in SUBSET Levels} \ {Zero, Unit}

\* They are when the level above is about to be reduced.
LEMMA RootsAreCompletions == BuildInv /\ stage = "backward" => RootsTell
<1> SUFFICES ASSUME BuildInv, stage = "backward" PROVE RootsTell
  OBVIOUS
<1> DEFINE Roots == Elements(roots)
           All == {Completions(S, Len(tape)) : S \in SUBSET Levels}
<1>1. TapeSound /\ AllReached /\ RootsSound
  BY DEF BuildInv
<1>2. Len(roots) \in Nat /\ DOMAIN roots = 1 .. Len(roots) /\ Len(tape) \in Nat
  BY <1>1, LenProperties DEF RootsSound, TapeSound
<1>3. Len(tape) \in 0 .. Len(tape) /\ LayerLength(Len(tape) + 1) = Len(roots)
  BY <1>2 DEF LayerLength
<1>4. ASSUME NEW x \in Roots PROVE x \in All
  <2>1. PICK id \in 1 .. Len(roots) : x = roots[id]
    BY <1>2, <1>4 DEF Elements
  <2>2. PICK S \in SUBSET Levels : Trail(tape, S)[Len(tape)] = id
    BY <1>1, <1>3 DEF AllReached
  <2>3. TargetRoot(id) = Completions(S, Len(tape))
    BY <1>1, <2>2 DEF RootsSound, Destination
  <2>4. id # 0
    BY <1>2
  <2> QED
    BY <2>1, <2>3, <2>4 DEF TargetRoot
<1>5. ASSUME NEW S \in SUBSET Levels PROVE Completions(S, Len(tape)) \in Roots \union {Zero}
  <2>1. PICK id : id = Destination(S)
    OBVIOUS
  <2>2. id \in 0 .. Len(roots)
    BY <1>1, <1>2, <1>3, <2>1, TrailInRange DEF Destination
  <2>3. TargetRoot(id) = Completions(S, Len(tape))
    BY <1>1, <2>1 DEF RootsSound
  <2>4. CASE id = 0
    BY <2>3, <2>4 DEF TargetRoot
  <2>5. CASE id # 0
    <3>1. id \in DOMAIN roots
      BY <1>2, <2>2, <2>5
    <3> QED
      BY <2>3, <2>5, <3>1 DEF TargetRoot, Elements
  <2> QED
    BY <2>4, <2>5
<1>6. \A x \in All : x \in Roots \union {Zero}
  BY <1>5
<1>7. \A x \in Roots : x \in All
  BY <1>4
<1> HIDE DEF Roots, All
<1>8. Roots \ {Zero, Unit} = All \ {Zero, Unit}
  BY <1>6, <1>7
<1> QED
  BY <1>8 DEF Roots, All, RootsTell

\* A row leads to states of the level below.
LEMMA RowTargets ==
  ASSUME BuildInv, ToReduce
  PROVE  /\ Decision = RowFamily(tape[Len(tape)][source])
         /\ \A t \in {Row.exclude, Row.include} : TargetRoot(t) \in Elements(roots) \union {Zero}
         /\ HiRoot # Zero => Decision \notin {Zero, Unit}
<1>1. stage = "backward" /\ tape # << >> /\ source <= Len(tape[Len(tape)]) /\ TapeSound /\ RootsSound
  BY DEF ToReduce, BuildInv
<1>2. /\ tape \in Seq(Seq(Rows)) /\ Len(tape) \in 1 .. Len(tape)
      /\ source \in 1 .. Len(tape[Len(tape)]) /\ Len(roots) \in Nat /\ DOMAIN roots = 1 .. Len(roots)
  <2>1. Len(tape) \in Nat /\ Len(tape) # 0
    BY <1>1, LenProperties, EmptySeq DEF TapeSound
  <2>2. tape[Len(tape)] \in Seq(Rows)
    BY <1>1, <2>1, ElementOfSeq DEF TapeSound
  <2> QED
    BY <1>1, <2>1, <2>2, LenProperties DEF TapeSound, RootsSound
<1>3. LayerLength(Len(tape) + 1) = Len(roots)
  BY <1>1, <1>2 DEF LayerLength
<1>4. Row.exclude \in 0 .. Len(roots) /\ Row.include \in 0 .. Len(roots)
  BY <1>1, <1>2, <1>3 DEF TapeSound, Row
<1>5. ASSUME NEW t \in 0 .. Len(roots) PROVE TargetRoot(t) \in Elements(roots) \union {Zero}
  <2>1. CASE t = 0
    BY <2>1 DEF TargetRoot
  <2>2. CASE t # 0
    <3>1. t \in DOMAIN roots
      BY <1>2, <2>2
    <3> QED
      BY <2>2, <3>1 DEF TargetRoot, Elements
  <2> QED
    BY <2>1, <2>2
<1>6. Decision = RowFamily(tape[Len(tape)][source])
  BY DEF Decision, RowFamily, HiRoot, Row
<1>7. ASSUME HiRoot # Zero PROVE Decision \notin {Zero, Unit}
  <2>1. PICK T : T \in HiRoot
    BY <1>7 DEF Zero
  <2>2. T \union {Len(tape)} \in Decision /\ T \union {Len(tape)} # {}
    BY <2>1 DEF Decision
  <2> QED
    BY <2>2 DEF Zero, Unit
<1> QED
  BY <1>4, <1>5, <1>6, <1>7

\* A row that is to be reduced completes some selection.
LEMMA DecisionIsCompletions ==
  ASSUME BuildInv, ToReduce
  PROVE  \A id \in 1 .. source :
           \E S \in SUBSET Levels : RowFamily(tape[Len(tape)][id]) = Completions(S, Len(tape) - 1)
<1>1. stage = "backward" /\ tape # << >> /\ source <= Len(tape[Len(tape)]) /\ TapeSound /\ RootsSound /\ AllReached
  BY DEF ToReduce, BuildInv
<1>2. Len(edges) \in Nat /\ Levels = 1 .. Len(edges)
  BY EdgesTyped
<1>3. PICK m : m = Len(tape)
  OBVIOUS
<1>4. m \in Nat /\ m # 0 /\ Len(tape[m]) \in Nat /\ source \in Nat
  <2>1. m \in Nat /\ m # 0
    BY <1>1, <1>3, LenProperties, EmptySeq DEF TapeSound
  <2>2. m \in 1 .. Len(tape)
    BY <1>3, <2>1
  <2>3. tape[m] \in Seq(Rows)
    BY <1>1, <1>3, <2>2, ElementOfSeq DEF TapeSound
  <2>4. Len(tape[m]) \in Nat
    BY <2>3, LenProperties
  <2> QED
    BY <1>1, <1>3, <2>1, <2>4 DEF RootsSound
<1> SUFFICES ASSUME NEW id \in 1 .. source
             PROVE  \E S \in SUBSET Levels : RowFamily(tape[m][id]) = Completions(S, m - 1)
  BY <1>3
<1>5. id \in 1 .. Len(tape[m]) /\ id # 0
  BY <1>1, <1>3, <1>4
<1>6. m - 1 \in 0 .. Len(tape) /\ LayerLength((m - 1) + 1) = Len(tape[m])
  BY <1>3, <1>4 DEF LayerLength
<1>7. PICK S \in SUBSET Levels : Trail(tape, S)[m - 1] = id
  BY <1>1, <1>5, <1>6 DEF AllReached
<1> QED
  BY <1>1, <1>2, <1>3, <1>5, <1>7, RowIsCompletions

\* Only the reduction of a row creates a node, and counts it.
LEMMA StoreSteps ==
  ASSUME BuildInv, StatsTyped, Next
  PROVE  \/ UNCHANGED store /\ stats'.created = stats.created
         \/ /\ ReduceRow /\ ~Existing
            /\ Decision \notin store /\ Cardinality(store) < MaxLiveNodes
            /\ store' = store \union {Decision} /\ stats'.created = stats.created + 1
<1> USE DEF backward
<1>1. CASE Planning \/ Cancel \/ EndFinalize \/ EndReduce \/ Finish
  BY <1>1 DEF Planning, Cancel, EndFinalize, EndReduce, Finish
<1>2. Checked(stats).created = stats.created /\ Tried(stats).created = stats.created
      /\ Tried(stats) \in [DOMAIN NoStats -> Nat]
  BY CheckedFields, TriedFields
<1>3. CASE PassCheck \/ ObserveCancel \/ RefuseStart \/ OverTransitions \/ FailFinalize \/ FinalizeState \/ OverNodes
  <2>1. (stats' = stats \/ stats' = Checked(stats)) /\ UNCHANGED store
    BY <1>3 DEF PassCheck, ObserveCancel, RefuseStart, OverTransitions, FailFinalize, FinalizeState, OverNodes
  <2> QED
    BY <1>2, <2>1
<1>4. CASE Start \/ FailTransition
  <2>1. UNCHANGED store /\ \/ stats' = [stats EXCEPT !.peak = 1]
                           \/ stats' = [stats EXCEPT !.attempted = @ + 1]
    BY <1>4 DEF Start, FailTransition
  <2> QED
    BY <2>1 DEF StatsTyped, NoStats
<1>5. CASE RejectBranch \/ MergeBranch \/ RegisterState \/ OverStates
  <2>1. UNCHANGED store /\ \/ stats' = Tried(stats)
                           \/ stats' = [Tried(stats) EXCEPT !.rejected = @ + 1]
                           \/ stats' = [Tried(stats) EXCEPT !.merged = @ + 1]
    BY <1>5 DEF RejectBranch, MergeBranch, RegisterState, OverStates
  <2> QED
    BY <1>2, <2>1 DEF NoStats
<1>6. CASE EndLayer
  <2>1. stats' = [stats EXCEPT !.layers = @ + 1, !.peak = Larger(@, Len(next_ids))] /\ UNCHANGED store
    BY <1>6 DEF EndLayer
  <2>2. PICK l, w : l = stats.layers + 1 /\ w = Larger(stats.peak, Len(next_ids))
    OBVIOUS
  <2>3. stats' = [stats EXCEPT !.layers = l, !.peak = w]
    BY <2>1, <2>2
  <2> QED
    BY <2>1, <2>3 DEF StatsTyped, NoStats
<1>7. CASE ReduceRow
  <2>1. /\ stats' = [stats EXCEPT !.created = IF Existing THEN @ ELSE @ + 1]
        /\ Existing \/ Cardinality(store) < MaxLiveNodes
        /\ store' = IF Existing THEN store ELSE store \union {Decision}
    BY <1>7 DEF ReduceRow
  <2>2. CASE Existing
    BY <2>1, <2>2 DEF StatsTyped, NoStats
  <2>3. CASE ~Existing
    <3>1. Decision \notin store
      BY <2>3 DEF Existing
    <3>2. stats'.created = stats.created + 1
      BY <2>1, <2>3 DEF StatsTyped, NoStats
    <3> QED
      BY <1>7, <2>1, <2>3, <3>1, <3>2
  <2> QED
    BY <2>2, <2>3
<1> QED
  BY <1>1, <1>3, <1>4, <1>5, <1>6, <1>7 DEF Next, Build

\* The manager's own nodes, and so the limit, are those of the configuration.
LEMMA NodeLimitStays ==
  ASSUME UNCHANGED <<edges, settings>>
  PROVE  InitialNodes' = InitialNodes /\ MaxLiveNodes' = MaxLiveNodes
BY DEF InitialNodes, MaxLiveNodes, limits, Levels

\* Every step keeps the count of the store.
LEMMA StepKeepsCount ==
  ASSUME BuildInv, Configured, StatsTyped, StoreCounted, Next
  PROVE  StoreCounted'
<1>1. InitialNodes' = InitialNodes /\ MaxLiveNodes' = MaxLiveNodes
  BY AnswerOnce, NodeLimitStays DEF Cancel, config, plan
<1>2. CASE UNCHANGED store /\ stats'.created = stats.created
  BY <1>1, <1>2 DEF StoreCounted
<1>3. CASE /\ Decision \notin store /\ Cardinality(store) < MaxLiveNodes
           /\ store' = store \union {Decision} /\ stats'.created = stats.created + 1
  <2>1. IsFiniteSet(InitialNodes) /\ Cardinality(InitialNodes) \in Nat
    BY EdgesTyped, FamiliesFinite, FS_CardinalityType
  <2>2. PICK c, i \in Nat : c = Cardinality(store) /\ i = Cardinality(InitialNodes)
    BY <2>1, FS_CardinalityType DEF StoreCounted
  <2>3. IsFiniteSet(store') /\ Cardinality(store') = c + 1
    BY <1>3, <2>2, FS_AddElement DEF StoreCounted
  <2>4. MaxLiveNodes \in Nat /\ c + 1 <= MaxLiveNodes
    BY <1>3, <2>1, <2>2, LimitsTyped DEF MaxLiveNodes
  <2>5. stats'.created = (c - i) + 1 /\ (c - i) + 1 = (c + 1) - i
    BY <1>3, <2>2 DEF StoreCounted
  <2> QED
    BY <1>1, <2>2, <2>3, <2>4, <2>5 DEF StoreCounted
<1> QED
  BY <1>2, <1>3, StoreSteps

\* The store keeps its nodes in a step that does not touch the backward pass.
LEMMA NodesStay ==
  ASSUME BuildInv, StoreNodes, UNCHANGED <<config, stage, tape, previous, store, result>>
  PROVE  StoreNodes'
<1>1. Len(edges) \in Nat /\ Levels = 1 .. Len(edges)
  BY EdgesTyped
<1>2. PICK n : n = Len(tape)
  OBVIOUS
<1>3. RunNodes(Len(tape))' = RunNodes(n)'
  BY <1>2 DEF RunNodes
<1>4. (\A k : RunNodes(k)' = RunNodes(k)) /\ (NoRunFails' <=> NoRunFails)
  BY <1>1, RunNodesStay, CompletionsStay
<1>5. InitialNodes' = InitialNodes /\ MaxLiveNodes' = MaxLiveNodes /\ FirstState' = FirstState
  BY ConfigStays, NodeLimitStays DEF config, plan
<1>6. Elements(previous)' = Elements(previous)
  BY DEF Elements
<1> QED
  BY <1>2, <1>3, <1>4, <1>5, <1>6 DEF StoreNodes

\* The backward pass starts from the manager's own nodes.
LEMMA EndFinalizeNodes ==
  ASSUME BuildInv, StoreNodes, EndFinalize
  PROVE  StoreNodes'
<1>1. /\ stage = "finalize" /\ stage' = "backward"
      /\ UNCHANGED <<config, forward, backward, result>>
  BY DEF EndFinalize
<1>2. Len(edges) \in Nat /\ Levels = 1 .. Len(edges) /\ edges' = edges
  BY <1>1, EdgesTyped DEF config, plan
<1>3. PICK n : n = Len(edges)
  OBVIOUS
<1>4. Len(tape) = n /\ Len(tape') = n /\ previous' = << >> /\ store' = store
  BY <1>1, <1>3 DEF BuildInv, FinalSound, forward, backward
<1>5. RunNodes(Len(tape))' = RunNodes(n)'
  BY <1>4 DEF RunNodes
<1>6. RunNodes(n)' = RunNodes(n) /\ RunNodes(n) = InitialNodes
  BY <1>1, <1>2, <1>3, LastRunNodes, RunNodesStay
<1>7. Elements(previous)' = {}
  BY <1>4 DEF Elements
<1>8. result'.kind = "pending"
  BY <1>1 DEF BuildInv, ResultSound, Pending
<1> QED
  BY <1>1, <1>4, <1>5, <1>6, <1>7, <1>8 DEF StoreNodes

\* The rows of a layer have the families of its level.
LEMMA EndReduceNodes ==
  ASSUME BuildInv, BuildInv', StoreNodes, EndReduce
  PROVE  StoreNodes'
<1>1. /\ stage = "backward" /\ stage' = "backward" /\ tape # << >> /\ tape' = SubSeq(tape, 1, Len(tape) - 1)
      /\ roots' = previous /\ previous' = << >>
      /\ UNCHANGED <<config, store, result>>
  BY DEF EndReduce
<1>2. Len(edges) \in Nat /\ Levels = 1 .. Len(edges) /\ edges' = edges /\ Levels' = Levels
  BY <1>1, EdgesTyped, ConfigStays DEF config, plan
<1>3. tape \in Seq(Seq(Rows)) /\ Len(tape) \in Nat /\ Len(tape) <= Len(edges) /\ Len(tape) # 0
  BY <1>1, LenProperties, EmptySeq DEF BuildInv, TapeSound
<1>4. PICK n \in Nat : n + 1 = Len(tape)
  <2>1. Len(tape) - 1 \in Nat /\ (Len(tape) - 1) + 1 = Len(tape)
    BY <1>3
  <2> QED
    BY <2>1
<1>5. Len(tape') = n /\ n < Len(edges)
  <2>1. tape' = SubSeq(tape, 1, n)
    BY <1>1, <1>4
  <2> QED
    BY <1>2, <1>3, <1>4, <2>1, SubSeqProperties
<1> DEFINE Here == {Completions(S, n) : S \in SUBSET Levels}
<1>6. RunNodes(n) = RunNodes(n + 1) \union (Here \ {Zero, Unit})
  BY <1>2, <1>5, RunNodesGrow
<1>7. Elements(previous) \ {Zero, Unit} = Here \ {Zero, Unit}
  <2>1. (BuildInv /\ stage = "backward" => RootsTell)'
    BY RootsAreCompletions, PTL
  <2>2. (Elements(roots) \ {Zero, Unit} = {Completions(S, Len(tape)) : S \in SUBSET Levels} \ {Zero, Unit})'
    BY <1>1, <2>1 DEF RootsTell
  <2>3. Elements(roots)' = Elements(previous)
    BY <1>1 DEF Elements
  <2>4. \A S : Completions(S, Len(tape))' = Completions(S, n)
    <3>1. \A S : Completions(S, Len(tape))' = Completions(S, n)'
      BY <1>5 DEF Completions
    <3>2. \A S, k : Completions(S, k)' = Completions(S, k)
      BY <1>1, <1>2, CompletionsStay
    <3> QED
      BY <3>1, <3>2
  <2>5. {Completions(S, Len(tape)) : S \in SUBSET Levels}' = Here
    BY <1>2, <2>4
  <2> HIDE DEF Here
  <2> QED
    BY <2>2, <2>3, <2>5 DEF Zero, Unit
<1> HIDE DEF Here
<1>8. RunNodes(Len(tape)) = RunNodes(n + 1)
  BY <1>4
<1>9. store = RunNodes(n)
  BY <1>1, <1>6, <1>7, <1>8 DEF StoreNodes
<1>10. RunNodes(Len(tape))' = RunNodes(n)
  <2>1. RunNodes(Len(tape))' = RunNodes(n)'
    BY <1>5 DEF RunNodes
  <2> QED
    BY <1>1, <1>2, <2>1, RunNodesStay
<1>11. Elements(previous)' = {}
  BY <1>1 DEF Elements
<1>12. result'.kind = "pending"
  BY <1>1 DEF BuildInv, ResultSound, Pending
<1> QED
  BY <1>1, <1>9, <1>10, <1>11, <1>12 DEF StoreNodes

\* An element more.
LEMMA ElementsOfAppend ==
  ASSUME NEW T, NEW q \in Seq(T), NEW x \in T
  PROVE  Elements(Append(q, x)) = Elements(q) \union {x}
<1>1. /\ Len(q) \in Nat /\ Append(q, x) \in Seq(T) /\ Len(Append(q, x)) = Len(q) + 1
      /\ \A i \in 1 .. Len(q) : Append(q, x)[i] = q[i]
      /\ Append(q, x)[Len(q) + 1] = x
  BY LenProperties, AppendProperties
<1>2. PICK r : r = Append(q, x)
  OBVIOUS
<1>3. DOMAIN q = 1 .. Len(q) /\ DOMAIN r = 1 .. Len(q) + 1
  BY <1>1, <1>2, LenProperties
<1>4. \A i : i \in 1 .. Len(q) + 1 <=> i \in 1 .. Len(q) \/ i = Len(q) + 1
  BY <1>1
<1> QED
  BY <1>1, <1>2, <1>3, <1>4 DEF Elements

\* A level's families that are not terminals are nodes.
LEMMA RootsAreNodes ==
  ASSUME BuildInv, stage = "backward", NEW x \in Elements(roots)
  PROVE  x \in RunNodes(Len(tape)) \union {Zero, Unit}
<1>1. RootsTell
  BY RootsAreCompletions
<1>2. Len(tape) \in Len(tape) .. Len(edges)
  BY EdgesTyped, LenProperties DEF BuildInv, TapeSound
<1> QED
  BY <1>1, <1>2, RunNodesHave DEF RootsTell

\* A row that is reduced adds its family to the store unless it is there.
LEMMA ReduceRowNodes ==
  ASSUME BuildInv, StoreNodes, ReduceRow
  PROVE  StoreNodes'
<1>1. /\ ToReduce /\ stage = "backward" /\ stage' = "backward"
      /\ UNCHANGED <<config, forward, roots, result>>
      /\ previous' = Append(previous, Decision)
      /\ store' = IF Existing THEN store ELSE store \union {Decision}
  BY DEF ReduceRow, ToReduce
<1>2. Len(edges) \in Nat /\ Levels = 1 .. Len(edges)
  BY EdgesTyped
<1>3. PICK n, d, P0, s : n = Len(tape) /\ d = Decision /\ P0 = Elements(previous) /\ s = store
  OBVIOUS
<1>4. Elements(previous)' = P0 \union {d}
  <2>1. previous \in Seq(SUBSET SUBSET Levels) /\ previous' \in Seq(SUBSET SUBSET Levels)
    <3>1. RootsSound'
      BY <1>1, ReduceRowSound DEF BuildInv
    <3> QED
      BY <1>1, <3>1, ConfigStays DEF BuildInv, RootsSound
  <2>2. previous \in Seq(Elements(previous) \union {d})
    BY <2>1, <1>3, LenProperties DEF Elements
  <2>3. Elements(Append(previous, d)) = Elements(previous) \union {d}
    BY <2>2, ElementsOfAppend
  <2>4. Elements(previous)' = Elements(Append(previous, d))
    BY <1>1, <1>3 DEF Elements
  <2> QED
    BY <1>3, <2>3, <2>4
<1>5. s = RunNodes(n) \union (P0 \ {Zero, Unit})
  BY <1>1, <1>3 DEF StoreNodes
<1>6. store' = RunNodes(n) \union ((P0 \union {d}) \ {Zero, Unit})
  <2>1. CASE ~Existing
    BY <1>1, <1>3, <1>5, <2>1, RowTargets DEF Existing
  <2>2. CASE d \in s
    BY <1>1, <1>3, <1>5, <2>2
  <2>3. CASE HiRoot = Zero
    <3>1. d = TargetRoot(Row.exclude)
      BY <1>3, <2>3 DEF Decision, Zero
    <3>2. d \in RunNodes(n) \union {Zero, Unit}
      BY <1>1, <1>3, <3>1, RowTargets, RootsAreNodes
    <3> QED
      BY <1>1, <1>3, <1>5, <2>3, <3>2 DEF Existing
  <2> QED
    BY <1>3, <2>1, <2>2, <2>3 DEF Existing
<1>7. RunNodes(Len(tape))' = RunNodes(n)
  <2>1. RunNodes(Len(tape))' = RunNodes(n)'
    BY <1>1, <1>3 DEF RunNodes, forward
  <2> QED
    BY <1>1, <1>2, <2>1, RunNodesStay
<1>8. result'.kind = "pending"
  BY <1>1 DEF BuildInv, ResultSound, Pending
<1> QED
  BY <1>1, <1>4, <1>6, <1>7, <1>8 DEF StoreNodes, Zero, Unit

\* The nodes of a build that needs one node too many are all nodes of its problem.
LEMMA NodeLimitDue ==
  ASSUME BuildInv, Configured, StoreInv, OverNodes
  PROVE  FirstState # {} /\ NoRunFails /\ Cardinality(RunNodes(0)) > MaxLiveNodes
<1>1. ToReduce /\ stage = "backward" /\ tape # << >> /\ ~Existing /\ Cardinality(store) >= MaxLiveNodes
  BY DEF OverNodes, ToReduce
<1>2. Len(edges) \in Nat /\ Levels = 1 .. Len(edges) /\ RootsSound /\ TapeSound
  BY <1>1, EdgesTyped DEF BuildInv
<1>3. Len(tape) \in Nat /\ Len(tape) # 0 /\ Len(tape) <= Len(edges) /\ Len(previous) \in Nat
      /\ Len(previous) = source - 1 /\ source \in Nat
      /\ \A id \in 1 .. Len(previous) : previous[id] = RowFamily(tape[Len(tape)][id])
      /\ DOMAIN previous = 1 .. Len(previous)
  <2>1. tape[Len(tape)] \in Seq(Rows) /\ Len(tape) \in Nat /\ Len(tape) # 0
    <3>1. Len(tape) \in Nat /\ Len(tape) # 0 /\ Len(tape) \in 1 .. Len(tape)
      BY <1>1, <1>2, LenProperties, EmptySeq DEF TapeSound
    <3> QED
      BY <1>2, <3>1, ElementOfSeq DEF TapeSound
  <2> QED
    BY <1>1, <1>2, <2>1, LenProperties DEF RootsSound, TapeSound
<1>4. ASSUME NEW id \in 1 .. source
      PROVE  RowFamily(tape[Len(tape)][id]) \in RunNodes(0) \union {Zero, Unit}
  <2>1. PICK S \in SUBSET Levels : RowFamily(tape[Len(tape)][id]) = Completions(S, Len(tape) - 1)
    BY <1>1, DecisionIsCompletions
  <2>2. Len(tape) - 1 \in 0 .. Len(edges)
    BY <1>2, <1>3
  <2> QED
    BY <2>1, <2>2, RunNodesHave
<1>5. Decision \in RunNodes(0) /\ Decision \notin store
  <2>1. source \in 1 .. source
    BY <1>1, <1>2, <1>3 DEF RootsSound
  <2>2. Decision \in RunNodes(0) \union {Zero, Unit}
    BY <1>1, <1>4, <2>1, RowTargets
  <2> QED
    BY <1>1, <2>2, RowTargets DEF Existing
<1>6. Elements(previous) \subseteq RunNodes(0) \union {Zero, Unit}
  <2>1. \A id \in 1 .. Len(previous) : id \in 1 .. source
    BY <1>3
  <2> QED
    BY <1>3, <1>4, <2>1 DEF Elements
<1>7. store \subseteq RunNodes(0)
  <2>1. store = RunNodes(Len(tape)) \union (Elements(previous) \ {Zero, Unit})
    BY <1>1 DEF StoreInv, StoreNodes
  <2>2. RunNodes(Len(tape)) \subseteq RunNodes(0)
    BY <1>2, <1>3, RunNodesInside
  <2> QED
    BY <1>6, <2>1, <2>2
<1>8. IsFiniteSet(RunNodes(0)) /\ IsFiniteSet(InitialNodes)
  BY <1>2, FamiliesFinite
<1>9. PICK c, b, l : c = Cardinality(store) /\ b = Cardinality(RunNodes(0)) /\ l = MaxLiveNodes
  OBVIOUS
<1>10. c \in Nat /\ b \in Nat /\ l \in Nat /\ c >= l
  BY <1>1, <1>8, <1>9, LimitsTyped, FS_CardinalityType DEF StoreInv, StoreCounted, MaxLiveNodes
<1>11. Cardinality(store \union {Decision}) = c + 1
  BY <1>5, <1>9, FS_AddElement DEF StoreInv, StoreCounted
<1>12. c + 1 <= b
  <2>1. store \union {Decision} \subseteq RunNodes(0)
    BY <1>5, <1>7
  <2> QED
    BY <1>8, <1>9, <1>11, <2>1, FS_Subset
<1> QED
  BY <1>2, <1>9, <1>10, <1>12 DEF RootsSound

\* The answer leaves the nodes of all levels.
LEMMA FinishNodes ==
  ASSUME BuildInv, StoreNodes, Finish
  PROVE  store = RunNodes(0)
<1>1. stage = "backward" /\ tape = << >>
  BY DEF Finish
<1>2. previous = << >> /\ Len(tape) = 0
  BY <1>1, ShortSequences DEF BuildInv, RootsSound
<1>3. Elements(previous) = {}
  BY <1>2 DEF Elements
<1> QED
  BY <1>1, <1>2, <1>3 DEF StoreNodes

\* A build that returns has the store it needs.
LEMMA ReturnNodes ==
  ASSUME BuildInv, StoreNodes, UNCHANGED <<config, store>>, NEW r, Return(r),
         r.kind = "ok" => store = RunNodes(0),
         r.kind = "node_limit" => FirstState # {} /\ NoRunFails /\ Cardinality(RunNodes(0)) > MaxLiveNodes
  PROVE  StoreNodes'
<1>1. Len(edges) \in Nat /\ Levels = 1 .. Len(edges)
  BY EdgesTyped
<1>2. RunNodes(0)' = RunNodes(0) /\ (NoRunFails' <=> NoRunFails)
  BY <1>1, RunNodesStay, CompletionsStay
<1>3. MaxLiveNodes' = MaxLiveNodes /\ FirstState' = FirstState
  BY ConfigStays, NodeLimitStays DEF config, plan
<1> QED
  BY <1>2, <1>3 DEF StoreNodes, Return

\* Every step keeps the store that of the problem.
LEMMA StepKeepsStore ==
  ASSUME BuildInv, BuildInv', Configured, CountersInv, StoreInv, [Next]_vars
  PROVE  StoreInv'
<1> USE DEF backward, forward
<1>1. StatsTyped /\ StoreCounted /\ StoreNodes
  BY DEF CountersInv, StoreInv
<1>2. CASE UNCHANGED vars
  <2>1. UNCHANGED <<config, stage, tape, previous, store, result>>
    BY <1>2 DEF vars, config
  <2>2. StoreCounted'
    <3>1. InitialNodes' = InitialNodes /\ MaxLiveNodes' = MaxLiveNodes
      BY <2>1, NodeLimitStays DEF config, plan
    <3> QED
      BY <1>1, <1>2, <3>1 DEF StoreCounted, vars
  <2> QED
    BY <1>1, <2>1, <2>2, NodesStay DEF StoreInv
<1>3. ASSUME Next PROVE StoreCounted'
  BY <1>1, <1>3, StepKeepsCount
<1>4. CASE Planning \/ Start \/ RejectBranch \/ MergeBranch \/ RegisterState \/ EndLayer \/ FinalizeState
  <2>1. Next /\ UNCHANGED store
    BY <1>4 DEF Next, Build, Planning, Start, RejectBranch, MergeBranch, RegisterState, EndLayer, FinalizeState
  <2>2. UNCHANGED result /\ stage \in {"plan", "forward", "finalize"} /\ stage' \in {"plan", "forward", "finalize"}
    BY <1>4 DEF Planning, Start, RejectBranch, MergeBranch, RegisterState, EndLayer, FinalizeState,
                CanTry, ToTry, CanBranch, ToBranch, ToStart, ToFinalize
  <2>3. result'.kind = "pending"
    BY <2>2 DEF BuildInv, ResultSound, Pending
  <2>4. InitialNodes' = InitialNodes
    BY <2>1, AnswerOnce, NodeLimitStays DEF Cancel, config, plan
  <2>5. StoreNodes'
    BY <1>1, <2>1, <2>2, <2>3, <2>4 DEF StoreNodes
  <2> QED
    BY <1>3, <2>1, <2>5 DEF StoreInv
<1>5. CASE Cancel \/ PassCheck
  <2>1. Next /\ UNCHANGED <<config, stage, tape, previous, store, result>>
    BY <1>5 DEF Cancel, PassCheck, Next, Build
  <2> QED
    BY <1>1, <1>3, <2>1, NodesStay DEF StoreInv
<1>6. CASE EndFinalize \/ EndReduce \/ ReduceRow
  <2>1. Next
    BY <1>6 DEF Next, Build
  <2> QED
    BY <1>1, <1>3, <1>6, <2>1, EndFinalizeNodes, EndReduceNodes, ReduceRowNodes DEF StoreInv
<1>7. CASE Finish
  <2>1. Next /\ UNCHANGED <<config, store>> /\ Return([kind |-> "ok", value |-> roots[Len(roots)]])
    BY <1>7 DEF Finish, Next, Build
  <2> QED
    BY <1>1, <1>3, <1>7, <2>1, FinishNodes, ReturnNodes DEF StoreInv
<1>8. CASE OverNodes
  <2>1. Next /\ UNCHANGED <<config, store>> /\ Return(Outcome("node_limit"))
    BY <1>8 DEF OverNodes, Next, Build
  <2> QED
    BY <1>1, <1>3, <1>8, <2>1, NodeLimitDue, ReturnNodes DEF StoreInv, Outcome
<1>9. CASE ObserveCancel \/ RefuseStart \/ OverTransitions \/ FailTransition \/ OverStates \/ FailFinalize
  <2>1. /\ Next /\ UNCHANGED <<config, store>>
        /\ \E kind \in {"cancelled", "problem_error", "states_limit", "transitions_limit"} : Return(Outcome(kind))
    BY <1>9 DEF ObserveCancel, RefuseStart, OverTransitions, FailTransition, OverStates, FailFinalize, Next, Build
  <2> QED
    BY <1>1, <1>3, <2>1, ReturnNodes DEF StoreInv, Outcome
<1> QED
  BY <1>2, <1>4, <1>5, <1>6, <1>7, <1>8, <1>9 DEF Next, Build

\* The store of every build is that of its problem.
LEMMA StoreIsTheProblems == Spec => []StoreInv
<1>1. Init => StoreInv
  <2> SUFFICES ASSUME Init PROVE StoreInv
    OBVIOUS
  <2>1. store = InitialNodes /\ stats.created = 0 /\ stage = "plan" /\ result.kind = "pending" /\ Configured
    BY DEF Init, PlanInit, NoStats, Pending, Configured
  <2>2. BuildInv
    BY InitSound
  <2>3. IsFiniteSet(InitialNodes) /\ Cardinality(InitialNodes) \in Nat
    BY <2>2, EdgesTyped, FamiliesFinite, FS_CardinalityType
  <2>4. limits.spare \in Nat
    BY <2>1, LimitsTyped
  <2> QED
    BY <2>1, <2>3, <2>4 DEF StoreInv, StoreCounted, StoreNodes, MaxLiveNodes
<1>2. BuildInv /\ BuildInv' /\ Configured /\ CountersInv /\ StoreInv /\ [Next]_vars => StoreInv'
  BY StepKeepsStore
<1> QED
  BY <1>1, <1>2, Invariance, ConfiguredAlways, CountersAreTheProblems, PTL DEF Spec

----------------------------------------------------------------------------
(* What the graph needs, by the contract of the problem.                   *)

\* The nodes that the solutions and their sub-problems need are those of the
\* runs.
LEMMA RunNodesAreNeeded ==
  ASSUME Decides, ~Refuses(problem, V, edges), Len(edges) \in Nat, Levels = 1 .. Len(edges)
  PROVE  NeededNodes = RunNodes(0)
<1> DEFINE Wanted == UNION {{Suffixes(S, n) : S \in SUBSET (1 .. n)} : n \in 0 .. Len(edges) - 1}
           All == {Completions(S, j) : S \in SUBSET Levels, j \in 0 .. Len(edges)}
<1>1. ASSUME NEW n \in 0 .. Len(edges) - 1, NEW S \in SUBSET (1 .. n) PROVE Suffixes(S, n) \in All
  <2>1. n \in 0 .. Len(edges) /\ \A i \in 1 .. n : i \in 1 .. Len(edges)
    OBVIOUS
  <2>2. S \in SUBSET Levels /\ Suffixes(S, n) = Completions(S, n)
    BY <2>1, SuffixesAreCompletions
  <2> QED
    BY <2>1, <2>2
<1>2. ASSUME NEW S \in SUBSET Levels, NEW j \in 0 .. Len(edges)
      PROVE  Completions(S, j) \in Wanted \union {Zero, Unit}
  <2>1. CASE j = Len(edges)
    BY <2>1, LastCompletions
  <2>2. CASE j # Len(edges)
    <3>1. PICK R : R = {i \in S : i <= j}
      OBVIOUS
    <3>2. j \in 0 .. Len(edges) - 1
      BY <2>2
    <3>3. R \in SUBSET (1 .. j)
      <4>1. \A i \in Levels : i <= j => i \in 1 .. j
        OBVIOUS
      <4> QED
        BY <3>1, <4>1
    <3>4. {i \in R : i <= j} = {i \in S : i <= j}
      BY <3>1
    <3>5. Completions(S, j) = Completions(R, j)
      BY <3>4 DEF Completions
    <3>6. Completions(R, j) = Suffixes(R, j)
      BY <3>3, SuffixesAreCompletions
    <3> QED
      BY <3>2, <3>3, <3>5, <3>6
  <2> QED
    BY <2>1, <2>2
<1>3. Wanted \subseteq All
  BY <1>1
<1>4. All \subseteq Wanted \union {Zero, Unit}
  BY <1>2
<1>5. NeededNodes = InitialNodes \union (Wanted \ {Zero, Unit}) /\ RunNodes(0) = InitialNodes \union (All \ {Zero, Unit})
  BY DEF NeededNodes, RunNodes
<1> HIDE DEF Wanted, All
<1> QED
  BY <1>3, <1>4, <1>5

\* The rows of the completed layers add up.
LEMMA RowsAreBefore ==
  ASSUME Len(edges) \in Nat, tape \in Seq(Seq(Rows)), Len(tape) <= Len(edges),
         \A k \in 1 .. Len(tape) : Len(tape[k]) = Width(k - 1)
  PROVE  Total([n \in DOMAIN tape |-> Len(tape[n])]) = Before(Len(tape))
<1>1. DOMAIN tape = 1 .. Len(tape) /\ Len(tape) \in Nat
  BY LenProperties
<1>2. [n \in DOMAIN tape |-> Len(tape[n])] = [i \in 1 .. Len(tape) |-> Width(i - 1)]
  BY <1>1
<1> QED
  BY <1>2 DEF Before

\* The greatest of a set of numbers.
LEMMA MaxIsGreatest ==
  ASSUME NEW S \in SUBSET Nat, NEW x \in S, \A y \in S : y <= x
  PROVE  Max(S) = x
<1>1. Max(S) \in S /\ \A y \in S : Max(S) >= y
  BY Zenon DEF Max
<1>2. PICK m : m = Max(S)
  OBVIOUS
<1>3. m \in Nat /\ x \in Nat /\ m >= x /\ m <= x
  BY <1>1, <1>2
<1>4. m = x
  BY <1>3
<1> QED
  BY <1>2, <1>4

\* All that is proved of the states of a build.
ProblemInv == BuildInv /\ Configured /\ LayersInv /\ CountersInv /\ StoreInv

\* It holds in every state of every build.
LEMMA ProblemInvAlways == Spec => []ProblemInv
BY Invariance, ConfiguredAlways, LayersAreTheProblems, CountersAreTheProblems, StoreIsTheProblems, PTL
   DEF ProblemInv

\* A problem that has an initial state and no failing run is not refused, and
\* its nodes are the needed ones.
LEMMA NodesOfTheContract ==
  ASSUME BuildInv, Decides, FirstState # {}, NoRunFails
  PROVE  NeededNodes = RunNodes(0)
<1>1. ~Refuses(problem, V, edges)
  BY DEF Decides, NoRunFails
<1> QED
  BY <1>1, EdgesTyped, RunNodesAreNeeded

\* The limits are exact in a build that has returned.
LEMMA ReturnedWithinLimits == ProblemInv /\ Contract => LimitsExact
<1> SUFFICES ASSUME ProblemInv, Contract, stage = "returned" PROVE LimitsExact
  BY DEF LimitsExact
<1>1. BuildInv /\ Configured /\ Decides /\ Len(edges) \in Nat /\ Levels = 1 .. Len(edges)
  BY EdgesTyped DEF ProblemInv, Contract
<1> DEFINE W(n) == Cardinality(Reached[n])
           Wide == \E n \in 0 .. Len(edges) : W(n) > limits.states
           Many == 2 * Total([n \in Levels |-> W(n - 1)]) > limits.transitions
           Big == Cardinality(NeededNodes) > MaxLiveNodes
<1>2. Wide <=> TooWide
  BY DEF TooWide, Width
<1>3. Many <=> 2 * Before(Len(edges)) > limits.transitions
  <2>1. Total([n \in Levels |-> W(n - 1)]) = Total([n \in Levels |-> Width(n - 1)])
    BY DEF Width
  <2> QED
    BY <1>1, <2>1, WidthsAreBefore
<1> HIDE DEF Many
<1>4. ASSUME result.kind = "ok" PROVE ~Wide /\ ~Many /\ ~Big
  <2>1. ~TooWide
    <3>1. \A i \in 0 .. Len(edges) : Width(i) <= limits.states
      BY <1>4 DEF ProblemInv, LayersInv, LayersFit, Fit
    <3>2. \A i \in 0 .. Len(edges) : Width(i) \in Nat
      BY <1>1, ReachFinite
    <3>3. limits.states \in Nat
      BY <1>1, LimitsTyped
    <3> QED
      BY <3>1, <3>2, <3>3 DEF TooWide
  <2>2. ~Many
    <3>1. 2 * Before(Len(edges)) <= limits.transitions
      BY <1>4 DEF ProblemInv, CountersInv, AllTried
    <3>2. PICK b, t \in Nat : b = Before(Len(edges)) /\ t = limits.transitions
      <4>1. Len(edges) \in 0 .. Len(edges)
        BY <1>1
      <4> QED
        BY <1>1, <4>1, BeforeUnfolds, LimitsTyped
    <3> QED
      BY <1>3, <3>1, <3>2
  <2>3. ~Big
    <3>1. FirstState # {} /\ NoRunFails
      BY <1>1, <1>4 DEF BuildInv, ResultSound
    <3>2. NeededNodes = store
      BY <1>1, <1>4, <3>1, NodesOfTheContract DEF ProblemInv, StoreInv, StoreNodes
    <3>3. IsFiniteSet(store) /\ Cardinality(store) <= MaxLiveNodes /\ IsFiniteSet(InitialNodes)
      BY <1>1, FamiliesFinite DEF ProblemInv, StoreInv, StoreCounted
    <3>4. PICK c, l \in Nat : c = Cardinality(store) /\ l = MaxLiveNodes
      BY <1>1, <3>3, FS_CardinalityType, LimitsTyped DEF MaxLiveNodes
    <3> QED
      BY <3>2, <3>3, <3>4
  <2> QED
    BY <1>2, <2>1, <2>2, <2>3
<1>5. result.kind = "states_limit" => Wide
  BY <1>2 DEF ProblemInv, LayersInv, LayersFit
<1>6. result.kind = "transitions_limit" => Many
  BY <1>3 DEF ProblemInv, CountersInv
<1>7. result.kind = "node_limit" => Big
  BY <1>1, NodesOfTheContract DEF ProblemInv, StoreInv, StoreNodes
<1> HIDE DEF Wide, Big
<1>8. /\ result.kind = "ok" => ~Wide /\ ~Many /\ ~Big
      /\ result.kind = "states_limit" => Wide
      /\ result.kind = "transitions_limit" => Many
      /\ result.kind = "node_limit" => Big
  BY <1>4, <1>5, <1>6, <1>7
<1> QED
  BY <1>8 DEF LimitsExact, Wide, Many, Big

\* For any problem that keeps its contract: a build fails for a limit only when
\* what it needs is more than the limit, and succeeds only when its layers, its
\* branches and its nodes are within the limits (docs/api.md section 9).
THEOREM LimitsAreExact == Spec /\ []RunsDecide => []LimitsExact
<1>1. ProblemInv /\ Contract => LimitsExact
  BY ReturnedWithinLimits
<1> QED
  BY <1>1, ProblemInvAlways, ContractLasts, PTL

\* The counters of a forward pass.
LEMMA ForwardAgrees ==
  ASSUME ProblemInv, stage = "forward"
  PROVE  LET Filled(n) == Len(tape[n])
             finished == Total([n \in DOMAIN tape |-> Filled(n)])
         IN /\ stats.entries = 2 * (finished + Len(layer)) + Len(targets)
            /\ stats.entries = stats.rejected + stats.merged + finished + Len(states) + Len(next_ids) - 1
            /\ stats.layers = Len(tape)
<1>1. BuildInv /\ LayersInv /\ CountersInv /\ ForwardCounted /\ stats.attempted = stats.entries
  BY DEF ProblemInv, CountersInv
<1>2. Len(edges) \in Nat /\ tape \in Seq(Seq(Rows)) /\ Len(tape) <= Len(edges)
  BY <1>1, EdgesTyped DEF BuildInv, TapeSound
<1>3. Total([n \in DOMAIN tape |-> Len(tape[n])]) = Before(Len(tape))
  BY <1>1, <1>2, RowsAreBefore DEF LayersInv, LayersCounted
<1> QED
  BY <1>1, <1>3 DEF ForwardCounted

\* The counters of a build that has succeeded.
LEMMA SuccessAgrees ==
  ASSUME ProblemInv, Contract, result.kind = "ok"
  PROVE  LET W(n) == Cardinality(Reached[n])
         IN /\ stats.peak = Max({W(n) : n \in 0 .. Len(edges)})
            /\ stats.checks =
                 IF settings.attached
                 THEN 1 + stats.attempted + W(Len(edges)) + Total([n \in Levels |-> W(n - 1)])
                 ELSE 0
            /\ store = NeededNodes
<1>1. BuildInv /\ Len(edges) \in Nat /\ Levels = 1 .. Len(edges)
  BY EdgesTyped DEF ProblemInv
<1>2. Decides /\ FirstState # {} /\ NoRunFails
  BY <1>1 DEF BuildInv, ResultSound, Pending, Contract
<1>3. PeakOf(Len(edges)) /\ ChecksAre(1 + stats.attempted + Width(Len(edges)) + Before(Len(edges))) /\ Looks = stats.checks
  BY DEF ProblemInv, CountersInv, AllTried, Looks
<1>4. stats.peak = Max({Width(n) : n \in 0 .. Len(edges)})
  <2> DEFINE Widths == {Width(n) : n \in 0 .. Len(edges)}
  <2>1. Widths \in SUBSET Nat
    BY <1>1, ReachFinite
  <2>2. stats.peak \in Widths /\ \A y \in Widths : y <= stats.peak
    BY <1>3 DEF PeakOf
  <2> HIDE DEF Widths
  <2>3. stats.peak = Max(Widths)
    BY <2>1, <2>2, MaxIsGreatest
  <2> QED
    BY <2>3 DEF Widths
<1>5. Total([n \in Levels |-> Width(n - 1)]) = Before(Len(edges))
  BY <1>1, WidthsAreBefore
<1>6. store = NeededNodes
  BY <1>1, <1>2, NodesOfTheContract DEF ProblemInv, StoreInv, StoreNodes
<1> QED
  BY <1>3, <1>4, <1>5, <1>6 DEF ChecksAre, Width

\* The counters agree in every state.
LEMMA StatsAgreeAlways == ProblemInv /\ Contract => StatsAgree
<1> SUFFICES ASSUME ProblemInv, Contract PROVE StatsAgree
  OBVIOUS
<1>1. stats.created = Cardinality(store) - Cardinality(InitialNodes)
  BY DEF ProblemInv, StoreInv, StoreCounted
<1>2. stats.attempted - stats.entries \in (IF result.kind = "problem_error" THEN {0, 1} ELSE {0})
  <2>1. CASE stage = "returned"
    BY <2>1 DEF ProblemInv, CountersInv
  <2>2. CASE stage # "returned"
    <3>1. stats.attempted = stats.entries /\ stats.attempted \in Nat
      BY <2>2 DEF ProblemInv, CountersInv, StatsTyped, NoStats
    <3>2. stats.attempted - stats.entries = 0
      BY <3>1
    <3> QED
      BY <3>2
  <2> QED
    BY <2>1, <2>2
<1> QED
  BY <1>1, <1>2, ForwardAgrees, SuccessAgrees DEF StatsAgree

\* For any problem that keeps its contract: the counters agree with each other
\* and with the problem, and the store has exactly the nodes the solutions need
\* (BuildStats, docs/frontier.md).
THEOREM CountersAgree == Spec /\ []RunsDecide => []StatsAgree
<1>1. ProblemInv /\ Contract => StatsAgree
  BY StatsAgreeAlways
<1> QED
  BY <1>1, ProblemInvAlways, ContractLasts, PTL

----------------------------------------------------------------------------
(* Types.                                                                  *)

Pairs == [exclude : Ids, include : Ids]

\* A view has vertices in its slots.
ViewTyped(w) == \A s \in DOMAIN w : w[s] \in {None} \union (0 .. V - 1)

\* The frontier advances to vertices.
LEMMA AdvanceTyped ==
  ASSUME PlanDone, NEW w, ViewTyped(w), NEW n \in Nat, n # 0
  PROVE  ViewTyped(NextView(w, n))
<1>1. CASE n > Len(steps)
  BY <1>1, StepsOfPlan DEF NextView
<1>2. CASE n <= Len(steps)
  <2>1. n \in 1 .. Len(edges)
    BY <1>2, StepsOfPlan
  <2>2. Elements(steps[n].introduced) \subseteq 0 .. V - 1
    BY <2>1, StepsOfPlan DEF AtWork, Vertex
  <2>3. NextView(w, n) = Advance(w, steps[n])
    BY <1>2 DEF NextView
  <2>4. ASSUME NEW s \in DOMAIN w PROVE Advance(w, steps[n])[s] \in {None} \union (0 .. V - 1)
    BY <2>2 DEF Advance, ViewTyped
  <2>5. DOMAIN Advance(w, steps[n]) = DOMAIN w
    BY DEF Advance
  <2> QED
    BY <2>3, <2>4, <2>5 DEF ViewTyped
<1> QED
  BY <1>1, <1>2, StepsOfPlan

\* The steps of the forward pass keep the view.
LEMMA ViewKeepsType ==
  ASSUME BuildInv, ViewTyped(view), Next
  PROVE  ViewTyped(view)'
<1>1. CASE Start
  <2>1. PlanDone /\ view' = NextView(EmptyView, 1)
    BY <1>1, WorkIsPlanned DEF Start, ToStart
  <2>2. ViewTyped(EmptyView)
    BY DEF ViewTyped, EmptyView
  <2>3. ViewTyped(NextView(EmptyView, 1))
    BY <2>1, <2>2, AdvanceTyped
  <2> QED
    BY <2>1, <2>3 DEF ViewTyped
<1>2. CASE EndLayer
  <2>1. PlanDone /\ view' = NextView(view, Layer + 1) /\ stage = "forward"
    BY <1>2, WorkIsPlanned DEF EndLayer
  <2>2. Layer + 1 \in Nat /\ Layer + 1 # 0
    BY <2>1, LenProperties DEF BuildInv, TapeSound, Layer
  <2>3. ViewTyped(NextView(view, Layer + 1))
    BY <2>1, <2>2, AdvanceTyped
  <2> QED
    BY <2>1, <2>3 DEF ViewTyped
<1>3. CASE UNCHANGED view
  BY <1>3 DEF ViewTyped
<1> QED
  BY <1>1, <1>2, <1>3 DEF Next, Build, Planning, PassCheck, ObserveCancel, RefuseStart, OverTransitions, FailTransition,
     RejectBranch, MergeBranch, RegisterState, OverStates, FailFinalize, FinalizeState, EndFinalize,
     ReduceRow, OverNodes, EndReduce, Finish, Cancel, forward

\* The layer at work is not wider than the limit.
LEMMA WorkIsNarrow ==
  ASSUME BuildInv, Configured, LayersInv, ToBranch \/ ToFinalize \/ ToReduce
  PROVE  source \in 1 .. limits.states
<1>1. limits.states \in Nat /\ Len(edges) \in Nat
  BY LimitsTyped, EdgesTyped
<1>2. CASE ToBranch \/ ToFinalize
  <2>1. stage \in {"forward", "finalize"} /\ source <= Len(states) /\ source \in Nat /\ source # 0
    BY <1>2 DEF ToBranch, ToFinalize, BuildInv, LayerSound, FinalSound
  <2>2. PICK n : n = Len(tape) /\ n \in 0 .. Len(edges)
    BY <2>1, LayerInRange
  <2>3. Len(states) = Width(n) /\ Width(n) \in Nat
    BY <1>1, <2>1, <2>2, StatesCounted, ReachFinite
  <2>4. n \in 0 .. n /\ (n = Len(edges) \/ stage = "forward")
    BY <1>1, <2>1, <2>2 DEF BuildInv, FinalSound
  <2>5. Width(n) <= limits.states
    BY <2>1, <2>2, <2>4 DEF LayersInv, LayersFit, Fit
  <2> QED
    BY <1>1, <2>1, <2>3, <2>5
<1>3. CASE ToReduce
  <2>1. /\ stage = "backward" /\ tape # << >> /\ source <= Len(tape[Len(tape)]) /\ source \in Nat /\ source # 0
    BY <1>3 DEF ToReduce, BuildInv, RootsSound
  <2>2. Len(tape) \in Nat /\ Len(tape) # 0 /\ Len(tape) <= Len(edges)
    BY <2>1, LenProperties, EmptySeq DEF BuildInv, TapeSound
  <2>3. PICK n : n = Len(tape)
    OBVIOUS
  <2>4. n \in 1 .. Len(tape) /\ n - 1 \in 0 .. Len(edges)
    BY <1>1, <2>2, <2>3
  <2>5. Len(tape[n]) = Width(n - 1)
    BY <2>1, <2>4 DEF LayersInv, LayersCounted
  <2>6. Width(n - 1) <= limits.states /\ Width(n - 1) \in Nat
    BY <1>1, <2>1, <2>4, ReachFinite DEF LayersInv, LayersFit, Fit
  <2> QED
    BY <1>1, <2>1, <2>3, <2>5, <2>6
<1> QED
  BY <1>2, <1>3

\* The variables of the forward pass.
ForwardTyped ==
  /\ source \in 1 .. limits.states + 1
  /\ targets \in Seq(Ids) /\ Len(targets) <= 1
  /\ layer \in Seq(Pairs)
  /\ tape \in Seq(Seq(Pairs))

\* Recording a target that is an id keeps them.
LEMMA TargetTyped ==
  ASSUME BuildInv, Configured, LayersInv, ForwardTyped, ToBranch, UNCHANGED <<config, tape>>,
         NEW id \in Ids, Target(id)
  PROVE  ForwardTyped'
<1>1. limits' = limits /\ Ids' = Ids /\ Pairs' = Pairs
  BY ConfigStays DEF Ids, Pairs
<1>2. source \in 1 .. limits.states /\ limits.states \in Nat
  BY WorkIsNarrow, LimitsTyped
<1>3. CASE Len(targets) = 0
  <2>1. targets' = <<id>> /\ UNCHANGED <<layer, source>>
    BY <1>3 DEF Target
  <2>2. <<id>> \in Seq(Ids) /\ Len(<<id>>) = 1
    OBVIOUS
  <2> QED
    BY <1>1, <2>1, <2>2 DEF ForwardTyped
<1>4. CASE Len(targets) # 0
  <2>1. /\ layer' = Append(layer, [exclude |-> targets[1], include |-> id])
        /\ targets' = << >> /\ source' = source + 1
    BY <1>4 DEF Target
  <2>2. Len(targets) \in Nat /\ 1 \in 1 .. Len(targets)
    BY <1>4, LenProperties DEF ForwardTyped
  <2>3. targets[1] \in Ids
    BY <2>2, ElementOfSeq DEF ForwardTyped
  <2>4. [exclude |-> targets[1], include |-> id] \in Pairs
    BY <2>3 DEF Pairs
  <2>5. layer' \in Seq(Pairs)
    BY <2>1, <2>4, AppendProperties DEF ForwardTyped
  <2>6. << >> \in Seq(Ids) /\ Len(<< >>) = 0
    OBVIOUS
  <2>7. source + 1 \in 1 .. limits.states + 1
    BY <1>2
  <2> QED
    BY <1>1, <2>1, <2>5, <2>6, <2>7 DEF ForwardTyped
<1> QED
  BY <1>3, <1>4

\* Every step of a build keeps them.
LEMMA StepKeepsForward ==
  ASSUME BuildInv, Configured, LayersInv, ForwardTyped, Next
  PROVE  ForwardTyped'
<1> USE DEF forward
<1>1. limits' = limits /\ Ids' = Ids /\ Pairs' = Pairs
  <2>1. settings' = settings
    BY AnswerOnce DEF Cancel, config
  <2> QED
    BY <2>1 DEF limits, Ids, Pairs
<1>2. limits.states \in Nat
  BY LimitsTyped
<1>3. CASE UNCHANGED <<source, targets, layer, tape>>
  BY <1>1, <1>3 DEF ForwardTyped
<1>4. CASE RejectBranch \/ MergeBranch \/ RegisterState
  <2>1. ToBranch /\ stage = "forward" /\ UNCHANGED <<config, tape>>
    BY <1>4 DEF RejectBranch, MergeBranch, RegisterState, CanTry, ToTry, CanBranch, ToBranch
  <2>2. Len(next_ids) \in Nat /\ DOMAIN next_ids = 1 .. Len(next_ids) /\ Len(next_ids) <= limits.states
    BY <2>1, LenProperties DEF BuildInv, LayerSound, LayersInv, LayersFit
  <2>3. \E id \in Ids : Target(id)
    <3>1. CASE RejectBranch
      BY <1>2, <3>1 DEF RejectBranch, Ids
    <3>2. CASE MergeBranch
      BY <1>2, <2>2, <3>2 DEF MergeBranch, Ids
    <3>3. CASE RegisterState
      <4>1. Target(Len(next_ids) + 1) /\ Len(next_ids) # limits.states
        BY <3>3 DEF RegisterState
      <4> QED
        BY <1>2, <2>2, <4>1 DEF Ids
    <3> QED
      BY <1>4, <3>1, <3>2, <3>3
  <2> QED
    BY <2>1, <2>3, TargetTyped
<1>5. CASE EndLayer
  <2>1. tape' = Append(tape, layer) /\ layer' = << >> /\ source' = 1 /\ UNCHANGED targets
    BY <1>5 DEF EndLayer
  <2>2. tape' \in Seq(Seq(Pairs))
    BY <2>1, AppendProperties DEF ForwardTyped
  <2>3. << >> \in Seq(Pairs) /\ 1 \in 1 .. limits.states + 1
    BY <1>2
  <2> QED
    BY <1>1, <2>1, <2>2, <2>3 DEF ForwardTyped
<1>6. CASE FinalizeState \/ ReduceRow
  <2>1. (ToFinalize \/ ToReduce) /\ source' = source + 1 /\ UNCHANGED <<targets, layer, tape>>
    BY <1>6 DEF FinalizeState, ReduceRow
  <2>2. source + 1 \in 1 .. limits.states + 1
    BY <1>2, <2>1, WorkIsNarrow
  <2> QED
    BY <1>1, <2>1, <2>2 DEF ForwardTyped
<1>7. CASE EndFinalize
  <2>1. source' = 1 /\ UNCHANGED <<targets, layer, tape>>
    BY <1>7 DEF EndFinalize
  <2> QED
    BY <1>1, <1>2, <2>1 DEF ForwardTyped
<1>8. CASE EndReduce
  <2>1. /\ source' = 1 /\ tape' = SubSeq(tape, 1, Len(tape) - 1) /\ tape # << >>
        /\ UNCHANGED <<targets, layer>>
    BY <1>8 DEF EndReduce
  <2>2. tape' \in Seq(Seq(Pairs))
    <3>1. PICK n : n = Len(tape) - 1
      OBVIOUS
    <3>2. Len(tape) \in Nat /\ Len(tape) # 0
      BY <2>1, LenProperties, EmptySeq DEF ForwardTyped
    <3>3. 1 \in 1 .. Len(tape) + 1 /\ n \in 1 - 1 .. Len(tape)
      BY <3>1, <3>2
    <3>4. SubSeq(tape, 1, n) \in Seq(Seq(Pairs))
      BY <3>3, SubSeqProperties DEF ForwardTyped
    <3> QED
      BY <2>1, <3>1, <3>4
  <2>3. 1 \in 1 .. limits.states + 1
    BY <1>2
  <2> QED
    BY <1>1, <2>1, <2>2, <2>3 DEF ForwardTyped
<1> QED
  BY <1>3, <1>4, <1>5, <1>6, <1>7, <1>8 DEF Next, Build, Planning, PassCheck, ObserveCancel, Start, RefuseStart,
     OverTransitions, FailTransition, OverStates, FailFinalize, OverNodes, Finish, Cancel

\* The variables of the backward pass, and the answer.
BackwardTyped ==
  /\ roots \in Seq(SUBSET SUBSET Levels)
  /\ previous \in Seq(SUBSET SUBSET Levels)
  /\ store \subseteq SUBSET SUBSET Levels
  /\ result.value \subseteq SUBSET Levels

\* Every step of a build keeps them.
LEMMA StepKeepsBackward ==
  ASSUME BuildInv, BuildInv', StatsTyped, BackwardTyped, Next
  PROVE  BackwardTyped'
<1> USE DEF backward
<1>1. Levels' = Levels /\ Levels = 1 .. Len(edges) /\ Len(edges) \in Nat
  BY AnswerOnce, EdgesTyped DEF Cancel, config, plan, Levels
<1>2. roots' \in Seq(SUBSET SUBSET Levels) /\ previous' \in Seq(SUBSET SUBSET Levels)
  <2>1. CASE UNCHANGED <<roots, previous>>
    BY <2>1 DEF BackwardTyped
  <2>2. CASE FinalizeState
    <3>1. UNCHANGED previous /\ stage = "finalize" /\ roots' = Append(roots, IF Finalize(states[source]) THEN Unit ELSE Zero)
      BY <2>2 DEF FinalizeState, ToFinalize
    <3>2. (IF Finalize(states[source]) THEN Unit ELSE Zero) \in SUBSET SUBSET Levels
      BY DEF Unit, Zero
    <3> QED
      BY <3>1, <3>2, AppendProperties DEF BackwardTyped
  <2>3. CASE ReduceRow \/ EndReduce
    <3>1. stage' = "backward"
      BY <2>3 DEF ReduceRow, EndReduce, ToReduce
    <3> QED
      BY <1>1, <3>1 DEF BuildInv, RootsSound
  <2> QED
    BY <2>1, <2>2, <2>3 DEF Next, Build, Planning, PassCheck, ObserveCancel, Start, RefuseStart, OverTransitions, FailTransition,
       RejectBranch, MergeBranch, RegisterState, OverStates, EndLayer, FailFinalize, EndFinalize, OverNodes, Finish, Cancel
<1>3. store' \subseteq SUBSET SUBSET Levels
  <2>1. CASE UNCHANGED store
    BY <2>1 DEF BackwardTyped
  <2>2. CASE ReduceRow /\ store' = store \union {Decision}
    <3>1. ToReduce /\ stage = "backward" /\ tape # << >> /\ source <= Len(tape[Len(tape)])
      BY <2>2 DEF ReduceRow, ToReduce
    <3>2. source \in 1 .. Len(tape[Len(tape)])
      BY <3>1 DEF BuildInv, RootsSound
    <3>3. Decision \in SUBSET SUBSET Levels
      BY <1>1, <3>1, <3>2, RowTargets, RowFamilyType DEF BuildInv
    <3> QED
      BY <2>2, <3>3 DEF BackwardTyped
  <2> QED
    BY <2>1, <2>2, StoreSteps
<1>4. result'.value \subseteq SUBSET Levels
  <2>1. CASE UNCHANGED result
    BY <2>1 DEF BackwardTyped
  <2>2. CASE \E kind \in Errors : result' = Outcome(kind)
    BY <2>2 DEF Outcome, Zero
  <2>3. CASE \E value : result' = [kind |-> "ok", value |-> value]
    <3>1. result'.kind = "ok"
      BY <2>3
    <3>2. result'.value = Accepted'
      BY <3>1 DEF BuildInv, ResultSound
    <3>3. Accepted' \subseteq SUBSET Levels
      BY <1>1 DEF Accepted
    <3> QED
      BY <3>2, <3>3
  <2> QED
    BY <2>1, <2>2, <2>3, AnswerOnce DEF Cancel
<1> QED
  BY <1>1, <1>2, <1>3, <1>4 DEF BackwardTyped

\* The variables that have the types of TypeOK.
TypesInv == token \in BOOLEAN /\ ViewTyped(view) /\ ForwardTyped /\ BackwardTyped

\* They keep them.
LEMMA TypesAlways == Spec => []TypesInv
<1>1. Init => TypesInv
  <2> SUFFICES ASSUME Init PROVE TypesInv
    OBVIOUS
  <2>1. Configured /\ BuildInv
    BY InitSound DEF Init, PlanInit, Configured
  <2>2. limits.states \in Nat /\ Len(<< >>) = 0 /\ \A T : << >> \in Seq(T)
    BY <2>1, LimitsTyped, ShortSequences
  <2>3. token \in BOOLEAN /\ ViewTyped(view)
    <3>1. DOMAIN << >> = {}
      OBVIOUS
    <3>2. token = FALSE /\ view = << >>
      BY DEF Init
    <3> QED
      BY <3>1, <3>2 DEF ViewTyped
  <2>4. ForwardTyped
    BY <2>2 DEF Init, ForwardTyped
  <2>5. InitialNodes \subseteq SUBSET SUBSET Levels
    BY DEF InitialNodes
  <2>6. BackwardTyped
    BY <2>2, <2>5 DEF Init, BackwardTyped, Pending, Zero
  <2> QED
    BY <2>3, <2>4, <2>6 DEF TypesInv
<1>2. ProblemInv /\ BuildInv' /\ TypesInv /\ [Next]_vars => TypesInv'
  <2> SUFFICES ASSUME ProblemInv, BuildInv', TypesInv, [Next]_vars PROVE TypesInv'
    OBVIOUS
  <2>1. BuildInv /\ Configured /\ LayersInv /\ StatsTyped
    BY DEF ProblemInv, CountersInv
  <2>2. CASE Next
    <3>1. token' \in BOOLEAN
      BY <2>1, <2>2, AnswerOnce DEF TypesInv, Cancel
    <3> QED
      BY <2>1, <2>2, <3>1, ViewKeepsType, StepKeepsForward, StepKeepsBackward DEF TypesInv
  <2>3. CASE UNCHANGED vars
    <3>1. UNCHANGED <<edges, settings, token, view, source, targets, layer, tape, roots, previous, store, result>>
      BY <2>3 DEF vars, plan
    <3>2. limits' = limits /\ Levels' = Levels
      BY <3>1 DEF limits, Levels
    <3>3. ViewTyped(view)' /\ ForwardTyped' /\ BackwardTyped'
      BY <3>1, <3>2 DEF TypesInv, ViewTyped, ForwardTyped, BackwardTyped, Ids, Pairs
    <3> QED
      BY <3>1, <3>3 DEF TypesInv
  <2> QED
    BY <2>2, <2>3
<1>3. ProblemInv => BuildInv
  BY DEF ProblemInv
<1> QED
  BY <1>1, <1>2, <1>3, ProblemInvAlways, PTL DEF Spec

\* The variables of the builder keep their types, and no id it gives out is
\* beyond the limit of states (FrontierBuilder).
THEOREM TypeCorrect == Spec => []TypeOK
<1>1. ProblemInv /\ TypesInv /\ TokenInv => TypeOK
  <2> SUFFICES ASSUME ProblemInv, TypesInv, TokenInv PROVE TypeOK
    OBVIOUS
  <2>1. stage \in {"plan", "forward", "finalize", "backward", "returned"} /\ Configured
    BY DEF ProblemInv, BuildInv, PlanSound
  <2>2. stats \in [DOMAIN NoStats -> Nat] /\ stats_at_cancel \in [DOMAIN NoStats -> Nat] /\ passed \in BOOLEAN
    BY DEF ProblemInv, CountersInv, StatsTyped, TokenInv
  <2>3. DOMAIN tape = 1 .. Len(tape) /\ \A n \in 1 .. Len(tape) : tape[n] \in Seq(Pairs)
    BY LenProperties, ElementOfSeq DEF TypesInv, ForwardTyped
  <2> QED
    BY <2>1, <2>2, <2>3 DEF TypeOK, TypesInv, ViewTyped, ForwardTyped, BackwardTyped, Configured, Pairs
<1> QED
  BY <1>1, ProblemInvAlways, TypesAlways, TokenAlways, PTL
=============================================================================
