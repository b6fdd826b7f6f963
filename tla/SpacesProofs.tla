----------------------------- MODULE SpacesProofs -----------------------------
(***************************************************************************)
(* What a space keeps: the node counters of its manager, and the graph,    *)
(* the edge order and the maps it is built from.                           *)
(*                                                                         *)
(* The counters of make_node for any number of threads, calls, collections *)
(* and nodes.                                                              *)
(*                                                                         *)
(* From endpoint pairs to a graph space, for every number of vertices and  *)
(* every list of pairs: exactly the simple graphs and the orders of all    *)
(* their edges are accepted, the search emits every edge once and breadth  *)
(* first, and a space has two inverse maps.                                *)
(***************************************************************************)
EXTENDS NodeCounting, GraphSpaces, FiniteSetTheorems, SequenceTheorems, TLAPS

----------------------------------------------------------------------------
(* The node counters.  A collection that falls between the two reads of    *)
(* gc_count makes the call count its node; a call that no collection hits  *)
(* in a gap finds more live nodes than it read when it entered, if it      *)
(* inserted one.  So every insertion that is not counted yet belongs to a  *)
(* call on its way to the counter, or to a call that was hit.              *)

Places == {"idle", "read_gc", "register", "check_gc", "check_live", "observe", "count", "raise", "leave"}

CountersTyped ==
  /\ live \subseteq NodeId
  /\ gc_count \in Nat
  /\ pc \in [Thread -> Places]
  /\ target \in [Thread -> NodeId]
  /\ before \in [Thread -> Nat]
  /\ gc_before \in [Thread -> Nat]
  /\ added \in [Thread -> BOOLEAN]
  /\ observed \in [Thread -> Nat]
  /\ nodes_created \in Nat
  /\ additions \in Nat
  /\ peak_live_nodes \in Nat
  /\ hit \in [Thread -> BOOLEAN]
  /\ hits \in Nat

\* The number of threads is unbounded, the number of calls that run is not.
FinitelyManyCalls == IsFiniteSet(InGuard)

\* The collections never go backwards.
CollectionsGrow == \A t \in Thread : gc_before[t] <= gc_count

\* Unless it was hit, or will notice a collection, a call never sees fewer live
\* nodes than when it entered, and sees more once it has inserted its own.
EntryCountLow ==
  \A t \in Thread : ~hit[t] =>
    /\ pc[t] = "read_gc" => before[t] <= NumInnerNodes
    /\ pc[t] = "register" => gc_before[t] # gc_count \/ before[t] <= NumInnerNodes
    /\ pc[t] = "check_gc" /\ added[t] => gc_before[t] # gc_count \/ before[t] < NumInnerNodes
    /\ pc[t] = "check_live" /\ added[t] => before[t] < NumInnerNodes

\* The calls hit before they could insert a node.
HitEarly == {t \in InGuard : hit[t] /\ pc[t] \in {"read_gc", "register"}}

\* The calls that inserted a node, were not hit and have not read the live
\* nodes for the peak, or have not reached the counter.
Unlooked == {t \in InGuard : added[t] /\ ~hit[t] /\ pc[t] \in {"check_gc", "check_live", "observe"}}
Uncounted == {t \in InGuard : added[t] /\ ~hit[t] /\ pc[t] \in {"check_gc", "check_live", "observe", "count"}}

\* A call hit early may still insert the node it was excused for.
AdditionsAccounted ==
  /\ Cardinality(HitEarly) <= hits
  /\ additions + Cardinality(HitEarly) <= nodes_created + hits + Cardinality(Uncounted)

\* The peak reaches n, or some call is about to raise it so far.
Recorded(n) == n <= peak_live_nodes \/ \E t \in Thread : pc[t] \in {"count", "raise"} /\ n <= observed[t]

\* The live nodes are recorded but for those that calls will still look at and
\* those of calls that were hit.
PeakWillCover ==
  \E n \in Nat :
    /\ Recorded(n)
    /\ NumInnerNodes + Cardinality(HitEarly) <= n + hits + Cardinality(Unlooked)

CountersInv ==
  /\ CountersTyped /\ FinitelyManyCalls /\ CollectionsGrow
  /\ EntryCountLow /\ AdditionsAccounted /\ PeakWillCover

----------------------------------------------------------------------------
\* Whether t is one of S, as a number.
Is(t, S) == IF t \in S THEN 1 ELSE 0

\* Two finite sets that differ in one element at most.
LEMMA DifferInOne ==
  ASSUME NEW S, NEW T, NEW t, IsFiniteSet(S), S \ {t} = T \ {t}
  PROVE  /\ IsFiniteSet(T) /\ Cardinality(S) \in Nat /\ Cardinality(T) \in Nat
         /\ Cardinality(T) + Is(t, S) = Cardinality(S) + Is(t, T)
<1> DEFINE R == S \ {t}
<1>1. IsFiniteSet(R) /\ Cardinality(R) \in Nat /\ t \notin R
  BY FS_Subset, FS_CardinalityType
<1>2. IsFiniteSet(R \union {t}) /\ Cardinality(R \union {t}) = Cardinality(R) + 1
  BY <1>1, FS_AddElement
<1>3. (t \in S => S = R \union {t}) /\ (t \notin S => S = R)
  OBVIOUS
<1>4. (t \in T => T = R \union {t}) /\ (t \notin T => T = R)
  OBVIOUS
<1> HIDE DEF R
<1>5. PICK r \in Nat : r = Cardinality(R) /\ r + 1 = Cardinality(R \union {t})
  BY <1>1, <1>2
<1>6. Cardinality(S) = r + Is(t, S)
  <2>1. CASE t \in S
    <3>1. Cardinality(S) = Cardinality(R \union {t})
      BY <1>3, <2>1
    <3> QED
      BY <1>5, <2>1, <3>1 DEF Is
  <2>2. CASE t \notin S
    <3>1. Cardinality(S) = Cardinality(R)
      BY <1>3, <2>2
    <3> QED
      BY <1>5, <2>2, <3>1 DEF Is
  <2> QED
    BY <2>1, <2>2
<1>7. Cardinality(T) = r + Is(t, T)
  <2>1. CASE t \in T
    <3>1. Cardinality(T) = Cardinality(R \union {t})
      BY <1>4, <2>1
    <3> QED
      BY <1>5, <2>1, <3>1 DEF Is
  <2>2. CASE t \notin T
    <3>1. Cardinality(T) = Cardinality(R)
      BY <1>4, <2>2
    <3> QED
      BY <1>5, <2>2, <3>1 DEF Is
  <2> QED
    BY <2>1, <2>2
<1>8. IsFiniteSet(T)
  BY <1>1, <1>2, <1>4, Zenon
<1>9. Is(t, S) \in Nat /\ Is(t, T) \in Nat
  BY DEF Is
<1> QED
  BY <1>5, <1>6, <1>7, <1>8, <1>9

\* A set that two others cover is no larger than both together.
LEMMA UnionBound ==
  ASSUME NEW S, NEW T, NEW R, IsFiniteSet(T), IsFiniteSet(R), S \subseteq T \union R
  PROVE  IsFiniteSet(S) /\ Cardinality(S) \in Nat /\ Cardinality(S) <= Cardinality(T) + Cardinality(R)
<1>1. /\ IsFiniteSet(T \union R)
      /\ Cardinality(T \union R) = Cardinality(T) + Cardinality(R) - Cardinality(T \intersect R)
  BY FS_Union
<1>2. IsFiniteSet(S) /\ Cardinality(S) <= Cardinality(T \union R)
  BY <1>1, FS_Subset
<1>3. IsFiniteSet(T \intersect R)
  BY FS_Subset
<1> QED
  BY <1>1, <1>2, <1>3, FS_CardinalityType

\* The live nodes can be counted, and so can the calls of each kind.
LEMMA Countable ==
  ASSUME CountersTyped, FinitelyManyCalls
  PROVE  /\ IsFiniteSet(live) /\ NumInnerNodes \in Nat
         /\ IsFiniteSet(HitEarly) /\ Cardinality(HitEarly) \in Nat
         /\ IsFiniteSet(Unlooked) /\ Cardinality(Unlooked) \in Nat
         /\ IsFiniteSet(Uncounted) /\ Cardinality(Uncounted) \in Nat
<1>1. IsFiniteSet(live)
  BY NodeCountingAssumption, FS_Subset DEF CountersTyped
<1>2. IsFiniteSet(HitEarly) /\ IsFiniteSet(Unlooked) /\ IsFiniteSet(Uncounted)
  BY FS_Subset DEF HitEarly, Unlooked, Uncounted, FinitelyManyCalls
<1> QED
  BY <1>1, <1>2, FS_CardinalityType DEF NumInnerNodes

\* A step of one call: the calls that run are the same, without the call when
\* it leaves, and each kind of calls changes by this one at most.
LEMMA GuardAfter ==
  ASSUME CountersTyped, FinitelyManyCalls, NEW t \in Thread, NEW place \in Places, Goto(t, place),
         \A u \in Thread : u # t => (added'[u] <=> added[u]) /\ (hit'[u] <=> hit[u])
  PROVE  /\ FinitelyManyCalls'
         /\ pc' \in [Thread -> Places]
         /\ \A u \in Thread : pc'[u] = IF u = t THEN place ELSE pc[u]
         /\ Cardinality(HitEarly') \in Nat
         /\ Cardinality(HitEarly') + Is(t, HitEarly) = Cardinality(HitEarly) + Is(t, HitEarly')
         /\ Cardinality(Unlooked') \in Nat
         /\ Cardinality(Unlooked') + Is(t, Unlooked) = Cardinality(Unlooked) + Is(t, Unlooked')
         /\ Cardinality(Uncounted') \in Nat
         /\ Cardinality(Uncounted') + Is(t, Uncounted) = Cardinality(Uncounted) + Is(t, Uncounted')
<1>1. pc' \in [Thread -> Places] /\ \A u \in Thread : pc'[u] = IF u = t THEN place ELSE pc[u]
  BY DEF CountersTyped, Goto
<1>2. InGuard' \subseteq InGuard \union {t}
  BY <1>1 DEF InGuard
<1>3. IsFiniteSet(InGuard \union {t})
  BY FS_AddElement DEF FinitelyManyCalls
<1>4. FinitelyManyCalls'
  BY <1>2, <1>3, FS_Subset, Zenon DEF FinitelyManyCalls
<1>5. HitEarly \ {t} = HitEarly' \ {t}
  BY <1>1 DEF HitEarly, InGuard
<1>6. Unlooked \ {t} = Unlooked' \ {t}
  BY <1>1 DEF Unlooked, InGuard
<1>7. Uncounted \ {t} = Uncounted' \ {t}
  BY <1>1 DEF Uncounted, InGuard
<1>8. IsFiniteSet(HitEarly) /\ IsFiniteSet(Unlooked) /\ IsFiniteSet(Uncounted)
  BY Countable
<1>9. /\ Cardinality(HitEarly') \in Nat
      /\ Cardinality(HitEarly') + Is(t, HitEarly) = Cardinality(HitEarly) + Is(t, HitEarly')
  BY <1>5, <1>8, DifferInOne
<1>10. /\ Cardinality(Unlooked') \in Nat
       /\ Cardinality(Unlooked') + Is(t, Unlooked) = Cardinality(Unlooked) + Is(t, Unlooked')
  BY <1>6, <1>8, DifferInOne
<1>11. /\ Cardinality(Uncounted') \in Nat
       /\ Cardinality(Uncounted') + Is(t, Uncounted) = Cardinality(Uncounted) + Is(t, Uncounted')
  BY <1>7, <1>8, DifferInOne
<1> QED
  BY <1>1, <1>4, <1>9, <1>10, <1>11

\* The steps of a call that leave the live nodes, the counters and the other
\* calls alone, and after which the call is owed as much as before.
LEMMA QuietStep ==
  ASSUME CountersInv, NEW t \in Thread, NEW place \in Places, Goto(t, place),
         UNCHANGED <<live, gc_count, nodes_created, peak_live_nodes, added, observed, additions, hit, hits>>,
         gc_before' \in [Thread -> Nat], before' \in [Thread -> Nat], target' \in [Thread -> NodeId],
         CollectionsGrow', EntryCountLow',
         t \in HitEarly' <=> t \in HitEarly,
         t \in Unlooked' <=> t \in Unlooked,
         t \in Uncounted' <=> t \in Uncounted,
         pc[t] \notin {"count", "raise"}
  PROVE  CountersInv'
<1>1. /\ FinitelyManyCalls' /\ pc' \in [Thread -> Places]
      /\ \A u \in Thread : pc'[u] = IF u = t THEN place ELSE pc[u]
      /\ Cardinality(HitEarly') = Cardinality(HitEarly)
      /\ Cardinality(Unlooked') = Cardinality(Unlooked)
      /\ Cardinality(Uncounted') = Cardinality(Uncounted)
  <2>1. \A u \in Thread : u # t => (added'[u] <=> added[u]) /\ (hit'[u] <=> hit[u])
    OBVIOUS
  <2>2. Cardinality(HitEarly) \in Nat /\ Cardinality(Unlooked) \in Nat /\ Cardinality(Uncounted) \in Nat
    BY Countable DEF CountersInv
  <2>3. Is(t, HitEarly') = Is(t, HitEarly) /\ Is(t, HitEarly) \in Nat
    BY DEF Is
  <2>4. Is(t, Unlooked') = Is(t, Unlooked) /\ Is(t, Unlooked) \in Nat
    BY DEF Is
  <2>5. Is(t, Uncounted') = Is(t, Uncounted) /\ Is(t, Uncounted) \in Nat
    BY DEF Is
  <2>6. CountersTyped /\ FinitelyManyCalls
    BY DEF CountersInv
  <2> QED
    BY <2>1, <2>2, <2>3, <2>4, <2>5, <2>6, GuardAfter
<1>2. CountersTyped'
  BY <1>1 DEF CountersInv, CountersTyped
<1>3. NumInnerNodes' = NumInnerNodes
  BY DEF NumInnerNodes
<1>4. AdditionsAccounted'
  BY <1>1 DEF CountersInv, AdditionsAccounted
<1>5. PeakWillCover'
  <2>1. PICK n \in Nat : Recorded(n) /\ NumInnerNodes + Cardinality(HitEarly) <= n + hits + Cardinality(Unlooked)
    BY DEF CountersInv, PeakWillCover
  <2>2. Recorded(n)'
    BY <1>1, <2>1 DEF Recorded
  <2> QED
    BY <1>1, <1>3, <2>1, <2>2 DEF PeakWillCover
<1> QED
  BY <1>1, <1>2, <1>4, <1>5 DEF CountersInv

\* A call enters: it has inserted nothing yet and reads the current count.
LEMMA EnterStep ==
  ASSUME CountersInv, NEW t \in Thread, NEW x \in NodeId, Enter(t, x)
  PROVE  CountersInv'
<1>1. \A u \in Thread : IF u = t THEN ~added'[u] /\ ~hit'[u] /\ before'[u] = NumInnerNodes
                        ELSE /\ (added'[u] <=> added[u]) /\ (hit'[u] <=> hit[u])
                             /\ before'[u] = before[u]
  BY DEF CountersInv, CountersTyped, Enter
<1>2. /\ FinitelyManyCalls' /\ pc' \in [Thread -> Places]
      /\ \A u \in Thread : pc'[u] = IF u = t THEN "read_gc" ELSE pc[u]
      /\ Cardinality(HitEarly') + Is(t, HitEarly) = Cardinality(HitEarly) + Is(t, HitEarly')
      /\ Cardinality(Unlooked') + Is(t, Unlooked) = Cardinality(Unlooked) + Is(t, Unlooked')
      /\ Cardinality(Uncounted') + Is(t, Uncounted) = Cardinality(Uncounted) + Is(t, Uncounted')
      /\ Cardinality(HitEarly') \in Nat /\ Cardinality(Unlooked') \in Nat /\ Cardinality(Uncounted') \in Nat
  BY <1>1, GuardAfter DEF CountersInv, Enter, Places
<1>3. NumInnerNodes \in Nat /\ NumInnerNodes' = NumInnerNodes
  BY Countable DEF CountersInv, NumInnerNodes, Enter
<1>4. /\ Cardinality(HitEarly') = Cardinality(HitEarly)
      /\ Cardinality(Unlooked') = Cardinality(Unlooked)
      /\ Cardinality(Uncounted') = Cardinality(Uncounted)
  <2>1. pc[t] = "idle"
    BY DEF Enter
  <2>2. t \notin HitEarly /\ t \notin Unlooked /\ t \notin Uncounted
    BY <2>1 DEF HitEarly, Unlooked, Uncounted
  <2>3. t \notin HitEarly' /\ t \notin Unlooked' /\ t \notin Uncounted'
    BY <1>1 DEF HitEarly, Unlooked, Uncounted
  <2>4. Cardinality(HitEarly) \in Nat /\ Cardinality(Unlooked) \in Nat /\ Cardinality(Uncounted) \in Nat
    BY Countable DEF CountersInv
  <2> QED
    BY <1>2, <2>2, <2>3, <2>4 DEF Is
<1>5. CountersTyped'
  <2>1. target' \in [Thread -> NodeId] /\ before' \in [Thread -> Nat]
        /\ added' \in [Thread -> BOOLEAN] /\ hit' \in [Thread -> BOOLEAN]
    BY <1>3 DEF CountersInv, CountersTyped, Enter
  <2> QED
    BY <1>2, <2>1 DEF CountersInv, CountersTyped, Enter
<1>6. CollectionsGrow'
  BY DEF CountersInv, CollectionsGrow, Enter
<1>7. EntryCountLow'
  <2>1. gc_before' = gc_before /\ gc_count' = gc_count
    BY DEF Enter
  <2> SUFFICES ASSUME NEW u \in Thread, ~hit'[u]
               PROVE  /\ pc'[u] = "read_gc" => before'[u] <= NumInnerNodes'
                      /\ pc'[u] = "register" => gc_before'[u] # gc_count' \/ before'[u] <= NumInnerNodes'
                      /\ pc'[u] = "check_gc" /\ added'[u] =>
                           gc_before'[u] # gc_count' \/ before'[u] < NumInnerNodes'
                      /\ pc'[u] = "check_live" /\ added'[u] => before'[u] < NumInnerNodes'
    BY DEF EntryCountLow
  <2>2. CASE u = t
    BY <1>1, <1>2, <1>3, <2>2
  <2>3. CASE u # t
    BY <1>1, <1>2, <1>3, <2>1, <2>3 DEF CountersInv, EntryCountLow
  <2> QED
    BY <2>2, <2>3
<1>8. AdditionsAccounted'
  BY <1>4 DEF CountersInv, AdditionsAccounted, Enter
<1>9. PeakWillCover'
  <2>1. PICK n \in Nat : Recorded(n) /\ NumInnerNodes + Cardinality(HitEarly) <= n + hits + Cardinality(Unlooked)
    BY DEF CountersInv, PeakWillCover
  <2>2. Recorded(n)'
    BY <1>2, <2>1 DEF Recorded, Enter
  <2>3. hits' = hits
    BY DEF Enter
  <2> QED
    BY <1>3, <1>4, <2>1, <2>2, <2>3 DEF PeakWillCover
<1> QED
  BY <1>2, <1>5, <1>6, <1>7, <1>8, <1>9 DEF CountersInv

\* The node is found or inserted.  A call that inserts it will read a live count
\* that includes the node, unless it was hit and excused.
LEMMA RegisterStep ==
  ASSUME CountersInv, NEW t \in Thread, Register(t)
  PROVE  CountersInv'
<1> DEFINE x == target[t]
<1>1. \A u \in Thread : IF u = t THEN added'[u] <=> x \notin live ELSE added'[u] <=> added[u]
  BY DEF CountersInv, CountersTyped, Register
<1>2. UNCHANGED <<gc_count, gc_before, before, hit, hits, nodes_created, peak_live_nodes, target, observed>>
  BY DEF Register
<1>3. /\ FinitelyManyCalls' /\ pc' \in [Thread -> Places]
      /\ \A u \in Thread : pc'[u] = IF u = t THEN "check_gc" ELSE pc[u]
      /\ Cardinality(HitEarly') + Is(t, HitEarly) = Cardinality(HitEarly) + Is(t, HitEarly')
      /\ Cardinality(Unlooked') + Is(t, Unlooked) = Cardinality(Unlooked) + Is(t, Unlooked')
      /\ Cardinality(Uncounted') + Is(t, Uncounted) = Cardinality(Uncounted) + Is(t, Uncounted')
      /\ Cardinality(HitEarly') \in Nat /\ Cardinality(Unlooked') \in Nat /\ Cardinality(Uncounted') \in Nat
  BY <1>1, <1>2, GuardAfter DEF CountersInv, Register, Places
<1>4. IsFiniteSet(live) /\ NumInnerNodes \in Nat
  BY Countable DEF CountersInv
<1>5. pc[t] = "register" /\ x \in NodeId /\ live' = live \union {x}
  BY DEF CountersInv, CountersTyped, Register
<1>6. NumInnerNodes' = IF x \in live THEN NumInnerNodes ELSE NumInnerNodes + 1
  BY <1>4, <1>5, FS_AddElement DEF NumInnerNodes
<1>7. additions' = (IF x \in live THEN additions ELSE additions + 1) /\ additions \in Nat
  BY DEF CountersInv, CountersTyped, Register
<1>8. CountersTyped'
  <2>1. added' \in [Thread -> BOOLEAN]
    BY DEF CountersInv, CountersTyped, Register
  <2> QED
    BY <1>2, <1>3, <1>5, <1>7, <2>1 DEF CountersInv, CountersTyped
<1>9. CollectionsGrow'
  BY <1>2 DEF CountersInv, CollectionsGrow
<1>10. EntryCountLow'
  <2>1. \A u \in Thread : before[u] \in Nat
    BY DEF CountersInv, CountersTyped
  <2> SUFFICES ASSUME NEW u \in Thread, ~hit[u]
               PROVE  /\ pc'[u] = "read_gc" => before[u] <= NumInnerNodes'
                      /\ pc'[u] = "register" => gc_before[u] # gc_count \/ before[u] <= NumInnerNodes'
                      /\ pc'[u] = "check_gc" /\ added'[u] =>
                           gc_before[u] # gc_count \/ before[u] < NumInnerNodes'
                      /\ pc'[u] = "check_live" /\ added'[u] => before[u] < NumInnerNodes'
    BY <1>2 DEF EntryCountLow
  <2>2. CASE u = t
    <3>1. gc_before[t] # gc_count \/ before[t] <= NumInnerNodes
      BY <1>5, <2>2 DEF CountersInv, EntryCountLow
    <3> QED
      BY <1>1, <1>3, <1>4, <1>6, <2>1, <2>2, <3>1
  <2>3. CASE u # t
    BY <1>1, <1>3, <1>4, <1>6, <2>1, <2>3 DEF CountersInv, EntryCountLow
  <2> QED
    BY <2>2, <2>3
<1>11. PICK h \in Nat, l \in Nat, c \in Nat :
         h = Cardinality(HitEarly) /\ l = Cardinality(Unlooked) /\ c = Cardinality(Uncounted)
  BY Countable DEF CountersInv
<1>12. t \notin Unlooked /\ t \notin Uncounted /\ t \notin HitEarly' /\ (t \in HitEarly <=> hit[t])
  BY <1>3, <1>5 DEF Unlooked, Uncounted, HitEarly, InGuard
<1>13. (t \in Unlooked' <=> x \notin live /\ ~hit[t]) /\ (t \in Uncounted' <=> x \notin live /\ ~hit[t])
  BY <1>1, <1>2, <1>3 DEF Unlooked, Uncounted, InGuard
<1> HIDE DEF x
<1>14. /\ Cardinality(HitEarly') = IF hit[t] THEN h - 1 ELSE h
       /\ Cardinality(Unlooked') = IF x \notin live /\ ~hit[t] THEN l + 1 ELSE l
       /\ Cardinality(Uncounted') = IF x \notin live /\ ~hit[t] THEN c + 1 ELSE c
  BY <1>3, <1>11, <1>12, <1>13 DEF Is
<1>15. hits \in Nat /\ nodes_created \in Nat
  BY DEF CountersInv, CountersTyped
<1>16. AdditionsAccounted'
  <2>1. h <= hits /\ additions + h <= nodes_created + hits + c
    BY <1>11 DEF CountersInv, AdditionsAccounted
  <2>2. Cardinality(HitEarly') <= hits
    BY <1>11, <1>14, <1>15, <2>1
  <2>3. additions' + Cardinality(HitEarly') <= nodes_created + hits + Cardinality(Uncounted')
    BY <1>7, <1>11, <1>14, <1>15, <2>1
  <2> QED
    BY <1>2, <2>2, <2>3 DEF AdditionsAccounted
<1>17. PeakWillCover'
  <2>1. PICK n \in Nat : Recorded(n) /\ NumInnerNodes + h <= n + hits + l
    BY <1>11 DEF CountersInv, PeakWillCover
  <2>2. Recorded(n)'
    BY <1>2, <1>3, <1>5, <2>1 DEF Recorded
  <2>3. NumInnerNodes' + Cardinality(HitEarly') <= n + hits + Cardinality(Unlooked')
    BY <1>4, <1>6, <1>11, <1>14, <1>15, <2>1
  <2> QED
    BY <1>2, <2>2, <2>3 DEF PeakWillCover
<1> QED
  BY <1>3, <1>8, <1>9, <1>10, <1>16, <1>17 DEF CountersInv

\* The steps that only read the collections, pass a test or release the guard.
LEMMA TestStep ==
  ASSUME CountersInv, NEW t \in Thread, ReadGc(t) \/ CheckGc(t) \/ CheckLive(t) \/ Leave(t)
  PROVE  CountersInv'
<1> USE DEF Places
<1>1. /\ gc_before \in [Thread -> Nat] /\ before \in [Thread -> Nat] /\ target \in [Thread -> NodeId]
      /\ gc_count \in Nat /\ NumInnerNodes \in Nat /\ pc \in [Thread -> Places]
  BY Countable DEF CountersInv, CountersTyped
<1>2. NumInnerNodes' = NumInnerNodes
  BY DEF NumInnerNodes, ReadGc, CheckGc, CheckLive, Leave
<1>3. CASE ReadGc(t)
  <2>1. \A u \in Thread : /\ pc'[u] = IF u = t THEN "register" ELSE pc[u]
                          /\ gc_before'[u] = IF u = t THEN gc_count ELSE gc_before[u]
    BY <1>1, <1>3 DEF ReadGc, Goto
  <2>2. gc_before' \in [Thread -> Nat] /\ pc[t] = "read_gc"
    BY <1>1, <1>3 DEF ReadGc
  <2>3. UNCHANGED <<live, gc_count, nodes_created, peak_live_nodes, added, observed, additions, hit, hits,
                    before, target>> /\ Goto(t, "register")
    BY <1>3 DEF ReadGc
  <2>4. CollectionsGrow'
    BY <1>1, <2>1, <2>3 DEF CountersInv, CollectionsGrow
  <2>5. EntryCountLow'
    BY <1>1, <1>2, <2>1, <2>2, <2>3 DEF CountersInv, EntryCountLow
  <2>6. /\ t \in HitEarly' <=> t \in HitEarly
        /\ t \in Unlooked' <=> t \in Unlooked
        /\ t \in Uncounted' <=> t \in Uncounted
    BY <2>1, <2>2, <2>3 DEF HitEarly, Unlooked, Uncounted, InGuard
  <2> QED
    BY <1>1, <2>2, <2>3, <2>4, <2>5, <2>6, QuietStep
<1>4. CASE CheckGc(t)
  <2>1. PICK place \in {"observe", "check_live"} :
          Goto(t, place) /\ (place = "check_live" => gc_count = gc_before[t])
    BY <1>4 DEF CheckGc
  <2>2. \A u \in Thread : pc'[u] = IF u = t THEN place ELSE pc[u]
    BY <1>1, <2>1 DEF Goto
  <2>3. UNCHANGED <<live, gc_count, nodes_created, peak_live_nodes, added, observed, additions, hit, hits,
                    before, gc_before, target>> /\ pc[t] = "check_gc"
    BY <1>4 DEF CheckGc
  <2>4. CollectionsGrow'
    BY <2>3 DEF CountersInv, CollectionsGrow
  <2>5. EntryCountLow'
    BY <1>2, <2>1, <2>2, <2>3 DEF CountersInv, EntryCountLow
  <2>6. /\ t \in HitEarly' <=> t \in HitEarly
        /\ t \in Unlooked' <=> t \in Unlooked
        /\ t \in Uncounted' <=> t \in Uncounted
    BY <2>1, <2>2, <2>3 DEF HitEarly, Unlooked, Uncounted, InGuard
  <2> QED
    BY <1>1, <2>1, <2>3, <2>4, <2>5, <2>6, QuietStep
<1>5. CASE CheckLive(t)
  <2>1. PICK place \in {"observe", "leave"} : Goto(t, place) /\ (added[t] /\ ~hit[t] => place = "observe")
    <3>1. pc[t] = "check_live" /\ Goto(t, IF NumInnerNodes > before[t] THEN "observe" ELSE "leave")
      BY <1>5 DEF CheckLive
    <3>2. added[t] /\ ~hit[t] => NumInnerNodes > before[t]
      BY <1>1, <3>1 DEF CountersInv, EntryCountLow
    <3> QED
      BY <3>1, <3>2
  <2>2. \A u \in Thread : pc'[u] = IF u = t THEN place ELSE pc[u]
    BY <1>1, <2>1 DEF Goto
  <2>3. UNCHANGED <<live, gc_count, nodes_created, peak_live_nodes, added, observed, additions, hit, hits,
                    before, gc_before, target>> /\ pc[t] = "check_live"
    BY <1>5 DEF CheckLive
  <2>4. CollectionsGrow'
    BY <2>3 DEF CountersInv, CollectionsGrow
  <2>5. EntryCountLow'
    BY <1>2, <2>1, <2>2, <2>3 DEF CountersInv, EntryCountLow
  <2>6. /\ t \in HitEarly' <=> t \in HitEarly
        /\ t \in Unlooked' <=> t \in Unlooked
        /\ t \in Uncounted' <=> t \in Uncounted
    BY <2>1, <2>2, <2>3 DEF HitEarly, Unlooked, Uncounted, InGuard
  <2> QED
    BY <1>1, <2>1, <2>3, <2>4, <2>5, <2>6, QuietStep
<1>6. CASE Leave(t)
  <2>1. \A u \in Thread : pc'[u] = IF u = t THEN "idle" ELSE pc[u]
    BY <1>1, <1>6 DEF Leave, Goto
  <2>2. UNCHANGED <<live, gc_count, nodes_created, peak_live_nodes, added, observed, additions, hit, hits,
                    before, gc_before, target>> /\ pc[t] = "leave" /\ Goto(t, "idle")
    BY <1>6 DEF Leave
  <2>3. CollectionsGrow'
    BY <2>2 DEF CountersInv, CollectionsGrow
  <2>4. EntryCountLow'
    BY <1>2, <2>1, <2>2 DEF CountersInv, EntryCountLow
  <2>5. /\ t \in HitEarly' <=> t \in HitEarly
        /\ t \in Unlooked' <=> t \in Unlooked
        /\ t \in Uncounted' <=> t \in Uncounted
    BY <2>1, <2>2 DEF HitEarly, Unlooked, Uncounted, InGuard
  <2> QED
    BY <1>1, <2>2, <2>3, <2>4, <2>5, QuietStep
<1> QED
  BY <1>3, <1>4, <1>5, <1>6

\* The live nodes are read for the peak: from here on nothing is unrecorded that
\* the calls still running will not look at themselves.
LEMMA ObserveStep ==
  ASSUME CountersInv, NEW t \in Thread, Observe(t)
  PROVE  CountersInv'
<1>1. UNCHANGED <<live, gc_count, gc_before, before, added, hit, hits, nodes_created, peak_live_nodes, target,
                  additions>> /\ pc[t] = "observe"
  BY DEF Observe
<1>2. /\ FinitelyManyCalls' /\ pc' \in [Thread -> Places]
      /\ \A u \in Thread : pc'[u] = IF u = t THEN "count" ELSE pc[u]
      /\ Cardinality(HitEarly') + Is(t, HitEarly) = Cardinality(HitEarly) + Is(t, HitEarly')
      /\ Cardinality(Uncounted') + Is(t, Uncounted) = Cardinality(Uncounted) + Is(t, Uncounted')
      /\ Cardinality(HitEarly') \in Nat /\ Cardinality(Unlooked') \in Nat /\ Cardinality(Uncounted') \in Nat
  BY <1>1, GuardAfter DEF CountersInv, Observe, Places
<1>3. NumInnerNodes \in Nat /\ NumInnerNodes' = NumInnerNodes
  BY <1>1, Countable DEF CountersInv, NumInnerNodes
<1>4. \A u \in Thread : observed'[u] = IF u = t THEN NumInnerNodes ELSE observed[u]
  BY DEF CountersInv, CountersTyped, Observe
<1>5. CountersTyped'
  <2>1. observed' \in [Thread -> Nat]
    BY <1>3 DEF CountersInv, CountersTyped, Observe
  <2> QED
    BY <1>1, <1>2, <2>1 DEF CountersInv, CountersTyped
<1>6. CollectionsGrow' /\ EntryCountLow'
  BY <1>1, <1>2, <1>3 DEF CountersInv, CollectionsGrow, EntryCountLow
<1>7. Cardinality(HitEarly) \in Nat /\ Cardinality(Uncounted) \in Nat /\ hits \in Nat
  BY Countable DEF CountersInv, CountersTyped
<1>8. t \notin HitEarly /\ t \notin HitEarly' /\ (t \in Uncounted' <=> t \in Uncounted)
  BY <1>1, <1>2 DEF HitEarly, Uncounted, InGuard
<1>9. Cardinality(HitEarly') = Cardinality(HitEarly) /\ Cardinality(Uncounted') = Cardinality(Uncounted)
  BY <1>2, <1>7, <1>8 DEF Is
<1>10. AdditionsAccounted'
  BY <1>1, <1>9 DEF CountersInv, AdditionsAccounted
<1>11. PeakWillCover'
  <2>1. PICK n \in Nat : n = NumInnerNodes
    BY <1>3
  <2>2. Recorded(n)'
    <3>1. pc'[t] = "count" /\ observed'[t] = n
      BY <1>2, <1>4, <2>1
    <3> QED
      BY <2>1, <3>1 DEF Recorded
  <2>3. Cardinality(HitEarly) <= hits
    BY DEF CountersInv, AdditionsAccounted
  <2>4. NumInnerNodes' + Cardinality(HitEarly') <= n + hits' + Cardinality(Unlooked')
    BY <1>1, <1>2, <1>3, <1>7, <1>9, <2>1, <2>3
  <2> QED
    BY <2>2, <2>4 DEF PeakWillCover
<1> QED
  BY <1>2, <1>5, <1>6, <1>10, <1>11 DEF CountersInv

\* The creation is counted.
LEMMA CountStep ==
  ASSUME CountersInv, NEW t \in Thread, CountCreated(t)
  PROVE  CountersInv'
<1>1. UNCHANGED <<live, gc_count, gc_before, before, added, hit, hits, peak_live_nodes, target, observed,
                  additions>> /\ pc[t] = "count" /\ nodes_created' = nodes_created + 1
  BY DEF CountCreated
<1>2. /\ FinitelyManyCalls' /\ pc' \in [Thread -> Places]
      /\ \A u \in Thread : pc'[u] = IF u = t THEN "raise" ELSE pc[u]
      /\ Cardinality(HitEarly') + Is(t, HitEarly) = Cardinality(HitEarly) + Is(t, HitEarly')
      /\ Cardinality(Unlooked') + Is(t, Unlooked) = Cardinality(Unlooked) + Is(t, Unlooked')
      /\ Cardinality(Uncounted') + Is(t, Uncounted) = Cardinality(Uncounted) + Is(t, Uncounted')
      /\ Cardinality(HitEarly') \in Nat /\ Cardinality(Unlooked') \in Nat /\ Cardinality(Uncounted') \in Nat
  BY <1>1, GuardAfter DEF CountersInv, CountCreated, Places
<1>3. NumInnerNodes' = NumInnerNodes
  BY <1>1 DEF NumInnerNodes
<1>4. CountersTyped'
  BY <1>1, <1>2 DEF CountersInv, CountersTyped
<1>5. CollectionsGrow' /\ EntryCountLow'
  BY <1>1, <1>2, <1>3 DEF CountersInv, CollectionsGrow, EntryCountLow
<1>6. PICK h \in Nat, l \in Nat, c \in Nat :
        h = Cardinality(HitEarly) /\ l = Cardinality(Unlooked) /\ c = Cardinality(Uncounted)
  BY Countable DEF CountersInv
<1>7. t \notin HitEarly /\ t \notin HitEarly' /\ t \notin Unlooked /\ t \notin Unlooked'
  BY <1>1, <1>2 DEF HitEarly, Unlooked
<1>8. Cardinality(HitEarly') = h /\ Cardinality(Unlooked') = l /\ c <= Cardinality(Uncounted') + 1
  BY <1>2, <1>6, <1>7 DEF Is
<1>9. AdditionsAccounted'
  <2>1. h <= hits /\ additions + h <= nodes_created + hits + c
    BY <1>6 DEF CountersInv, AdditionsAccounted
  <2>2. hits \in Nat /\ nodes_created \in Nat /\ additions \in Nat
    BY DEF CountersInv, CountersTyped
  <2>3. additions + h <= (nodes_created + 1) + hits + Cardinality(Uncounted')
    BY <1>2, <1>6, <1>8, <2>1, <2>2
  <2> QED
    BY <1>1, <1>8, <2>1, <2>3 DEF AdditionsAccounted
<1>10. PeakWillCover'
  <2>1. PICK n \in Nat : Recorded(n) /\ NumInnerNodes + h <= n + hits + l
    BY <1>6 DEF CountersInv, PeakWillCover
  <2>2. Recorded(n)'
    BY <1>1, <1>2, <2>1 DEF Recorded
  <2> QED
    BY <1>1, <1>3, <1>8, <2>1, <2>2 DEF PeakWillCover
<1> QED
  BY <1>2, <1>4, <1>5, <1>9, <1>10 DEF CountersInv

\* The peak is raised to what the call observed, and never lowered.
LEMMA RaiseStep ==
  ASSUME CountersInv, NEW t \in Thread, RaisePeak(t)
  PROVE  CountersInv'
<1>1. UNCHANGED <<live, gc_count, gc_before, before, added, hit, hits, nodes_created, target, observed,
                  additions>> /\ pc[t] = "raise"
  BY DEF RaisePeak
<1>2. /\ FinitelyManyCalls' /\ pc' \in [Thread -> Places]
      /\ \A u \in Thread : pc'[u] = IF u = t THEN "leave" ELSE pc[u]
      /\ Cardinality(HitEarly') + Is(t, HitEarly) = Cardinality(HitEarly) + Is(t, HitEarly')
      /\ Cardinality(Unlooked') + Is(t, Unlooked) = Cardinality(Unlooked) + Is(t, Unlooked')
      /\ Cardinality(Uncounted') + Is(t, Uncounted) = Cardinality(Uncounted) + Is(t, Uncounted')
      /\ Cardinality(HitEarly') \in Nat /\ Cardinality(Unlooked') \in Nat /\ Cardinality(Uncounted') \in Nat
  BY <1>1, GuardAfter DEF CountersInv, RaisePeak, Places
<1>3. NumInnerNodes' = NumInnerNodes
  BY <1>1 DEF NumInnerNodes
<1>4. \A u \in Thread : observed[u] \in Nat
  BY DEF CountersInv, CountersTyped
<1>5. /\ peak_live_nodes \in Nat /\ peak_live_nodes' \in Nat
      /\ peak_live_nodes <= peak_live_nodes' /\ observed[t] <= peak_live_nodes'
  <2>1. peak_live_nodes \in Nat
    BY DEF CountersInv, CountersTyped
  <2> QED
    BY <1>4, <2>1 DEF RaisePeak
<1>6. CountersTyped'
  BY <1>1, <1>2, <1>5 DEF CountersInv, CountersTyped
<1>7. CollectionsGrow' /\ EntryCountLow'
  BY <1>1, <1>2, <1>3 DEF CountersInv, CollectionsGrow, EntryCountLow
<1>8. /\ t \notin HitEarly /\ t \notin HitEarly' /\ t \notin Unlooked /\ t \notin Unlooked'
      /\ t \notin Uncounted /\ t \notin Uncounted'
  BY <1>1, <1>2 DEF HitEarly, Unlooked, Uncounted
<1>9. Cardinality(HitEarly) \in Nat /\ Cardinality(Unlooked) \in Nat /\ Cardinality(Uncounted) \in Nat
  BY Countable DEF CountersInv
<1>10. /\ Cardinality(HitEarly') = Cardinality(HitEarly)
       /\ Cardinality(Unlooked') = Cardinality(Unlooked)
       /\ Cardinality(Uncounted') = Cardinality(Uncounted)
  BY <1>2, <1>8, <1>9 DEF Is
<1>11. AdditionsAccounted'
  BY <1>1, <1>10 DEF CountersInv, AdditionsAccounted
<1>12. PeakWillCover'
  <2>1. PICK n \in Nat : Recorded(n) /\ NumInnerNodes + Cardinality(HitEarly) <= n + hits + Cardinality(Unlooked)
    BY DEF CountersInv, PeakWillCover
  <2>2. Recorded(n)'
    <3>1. CASE n <= peak_live_nodes \/ n <= observed[t]
      BY <1>4, <1>5, <3>1 DEF Recorded
    <3>2. CASE ~(n <= peak_live_nodes \/ n <= observed[t])
      BY <1>1, <1>2, <2>1, <3>2 DEF Recorded
    <3> QED
      BY <3>1, <3>2
  <2> QED
    BY <1>1, <1>3, <1>10, <2>1, <2>2 DEF PeakWillCover
<1> QED
  BY <1>2, <1>6, <1>7, <1>11, <1>12 DEF CountersInv

\* A collection hits some calls: those that had not inserted a node yet may
\* still do so, the others are no more owed a count.
LEMMA CollectStep ==
  ASSUME CountersInv, Collect
  PROVE  CountersInv'
<1> DEFINE Early == {t \in NewlyHit : pc[t] = "read_gc"}
           Late == {t \in NewlyHit : pc[t] = "check_live"}
<1>1. /\ live' \subseteq live /\ gc_count' = gc_count + 1 /\ hits' = hits + Cardinality(NewlyHit)
      /\ UNCHANGED <<pc, added, before, gc_before, observed, target, nodes_created, peak_live_nodes, additions>>
  BY DEF Collect
<1>2. \A t \in Thread : hit'[t] <=> hit[t] \/ InGap(t)
  BY DEF CountersInv, CountersTyped, Collect
<1>3. NumInnerNodes \in Nat /\ NumInnerNodes' \in Nat /\ NumInnerNodes' <= NumInnerNodes
  <2>1. IsFiniteSet(live) /\ NumInnerNodes \in Nat
    BY Countable DEF CountersInv
  <2>2. IsFiniteSet(live') /\ Cardinality(live') <= Cardinality(live)
    BY <1>1, <2>1, FS_Subset
  <2> QED
    BY <2>1, <2>2, FS_CardinalityType DEF NumInnerNodes
<1>4. IsFiniteSet(NewlyHit) /\ IsFiniteSet(Early) /\ IsFiniteSet(Late)
  <2>1. NewlyHit \subseteq InGuard /\ Early \subseteq InGuard /\ Late \subseteq InGuard
    BY DEF NewlyHit, InGap, InGuard
  <2> QED
    BY <2>1, FS_Subset, Zenon DEF CountersInv, FinitelyManyCalls
<1>5. PICK e \in Nat, l \in Nat :
        e = Cardinality(Early) /\ l = Cardinality(Late) /\ Cardinality(NewlyHit) = e + l
  <2>1. NewlyHit = Early \union Late /\ Early \intersect Late = {}
    BY DEF NewlyHit, InGap
  <2>2. Cardinality(Early \union Late) =
          Cardinality(Early) + Cardinality(Late) - Cardinality(Early \intersect Late)
    BY <1>4, FS_Union, Zenon
  <2>3. Cardinality(Early \intersect Late) = 0
    BY <2>1, FS_EmptySet
  <2>4. Cardinality(Early) \in Nat /\ Cardinality(Late) \in Nat
    BY <1>4, FS_CardinalityType
  <2>5. Cardinality(NewlyHit) = Cardinality(Early \union Late)
    BY <2>1
  <2> HIDE DEF Early, Late
  <2>6. Cardinality(NewlyHit) = Cardinality(Early) + Cardinality(Late)
    BY <2>2, <2>3, <2>4, <2>5
  <2> QED
    BY <2>4, <2>6
<1>6. CountersTyped'
  <2>1. hit' \in [Thread -> BOOLEAN]
    BY DEF Collect, CountersInv, CountersTyped, InGap
  <2>2. hits' \in Nat /\ gc_count' \in Nat
    BY <1>1, <1>5 DEF CountersInv, CountersTyped
  <2> QED
    BY <1>1, <2>1, <2>2 DEF CountersInv, CountersTyped
<1>7. FinitelyManyCalls'
  BY <1>1 DEF CountersInv, FinitelyManyCalls, InGuard
<1>8. gc_count \in Nat /\ \A t \in Thread : gc_before[t] \in Nat /\ gc_before[t] <= gc_count
  BY DEF CountersInv, CountersTyped, CollectionsGrow
<1>9. CollectionsGrow'
  BY <1>1, <1>8 DEF CollectionsGrow
<1>10. EntryCountLow'
  <2>1. \A t \in Thread : gc_before'[t] # gc_count'
    BY <1>1, <1>8
  <2> QED
    BY <1>1, <1>2, <2>1 DEF EntryCountLow, InGap
<1>11. Cardinality(HitEarly') \in Nat /\ Cardinality(HitEarly') <= Cardinality(HitEarly) + e
  <2>1. HitEarly' \subseteq HitEarly \union Early
    BY <1>1, <1>2 DEF HitEarly, InGuard, NewlyHit, InGap
  <2> QED
    BY <1>4, <1>5, <2>1, Countable, UnionBound DEF CountersInv
<1>12. Cardinality(Unlooked') \in Nat /\ Cardinality(Unlooked) <= Cardinality(Unlooked') + l
  <2>1. Unlooked \subseteq Unlooked' \union Late
    BY <1>1, <1>2 DEF Unlooked, InGuard, NewlyHit, InGap
  <2>2. Unlooked' \subseteq Unlooked
    BY <1>1, <1>2 DEF Unlooked, InGuard
  <2>3. IsFiniteSet(Unlooked')
    BY <2>2, Countable, FS_Subset, Zenon DEF CountersInv
  <2> QED
    BY <1>4, <1>5, <2>1, <2>3, FS_CardinalityType, UnionBound
<1>13. Cardinality(Uncounted') \in Nat /\ Cardinality(Uncounted) <= Cardinality(Uncounted') + l
  <2>1. Uncounted \subseteq Uncounted' \union Late
    BY <1>1, <1>2 DEF Uncounted, InGuard, NewlyHit, InGap
  <2>2. Uncounted' \subseteq Uncounted
    BY <1>1, <1>2 DEF Uncounted, InGuard
  <2>3. IsFiniteSet(Uncounted')
    BY <2>2, Countable, FS_Subset, Zenon DEF CountersInv
  <2> QED
    BY <1>4, <1>5, <2>1, <2>3, FS_CardinalityType, UnionBound
<1>14. /\ Cardinality(HitEarly) \in Nat /\ Cardinality(Unlooked) \in Nat /\ Cardinality(Uncounted) \in Nat
       /\ hits \in Nat /\ nodes_created \in Nat /\ additions \in Nat
  BY Countable DEF CountersInv, CountersTyped
<1>15. AdditionsAccounted'
  <2>1. /\ Cardinality(HitEarly) <= hits
        /\ additions + Cardinality(HitEarly) <= nodes_created + hits + Cardinality(Uncounted)
    BY DEF CountersInv, AdditionsAccounted
  <2>2. /\ Cardinality(HitEarly') <= hits + (e + l)
        /\ additions + Cardinality(HitEarly') <= nodes_created + (hits + (e + l)) + Cardinality(Uncounted')
    BY <1>5, <1>11, <1>13, <1>14, <2>1
  <2> QED
    BY <1>1, <1>5, <2>2 DEF AdditionsAccounted
<1>16. PeakWillCover'
  <2>1. PICK n \in Nat : Recorded(n) /\ NumInnerNodes + Cardinality(HitEarly) <= n + hits + Cardinality(Unlooked)
    BY DEF CountersInv, PeakWillCover
  <2>2. Recorded(n)'
    BY <1>1, <2>1 DEF Recorded
  <2>3. NumInnerNodes' + Cardinality(HitEarly') <= n + (hits + (e + l)) + Cardinality(Unlooked')
    BY <1>3, <1>5, <1>11, <1>12, <1>14, <2>1
  <2> QED
    BY <1>1, <1>5, <2>2, <2>3 DEF PeakWillCover
<1> QED
  BY <1>6, <1>7, <1>9, <1>10, <1>15, <1>16 DEF CountersInv

\* The invariant holds before the first call.
LEMMA CountersInitially ==
  ASSUME CountingInit
  PROVE  CountersInv
<1>1. InGuard = {} /\ HitEarly = {} /\ Unlooked = {} /\ Uncounted = {}
  BY DEF CountingInit, InGuard, HitEarly, Unlooked, Uncounted
<1>2. IsFiniteSet(Initial) /\ Cardinality(Initial) \in Nat
  BY NodeCountingAssumption, FS_Subset, FS_CardinalityType
<1>3. CountersTyped
  BY <1>2, NodeCountingAssumption DEF CountingInit, CountersTyped, Places
<1>4. Cardinality({}) = 0 /\ IsFiniteSet({})
  BY FS_EmptySet
<1>5. FinitelyManyCalls /\ AdditionsAccounted
  BY <1>1, <1>2, <1>4 DEF CountingInit, FinitelyManyCalls, AdditionsAccounted
<1>6. CollectionsGrow /\ EntryCountLow
  BY DEF CountingInit, CollectionsGrow, EntryCountLow
<1>7. PeakWillCover
  <2>1. PICK n \in Nat : n = Cardinality(Initial)
    BY <1>2
  <2>2. Recorded(n) /\ NumInnerNodes = n /\ hits = 0
    BY <2>1 DEF CountingInit, Recorded, NumInnerNodes
  <2> QED
    BY <1>1, <1>4, <2>2 DEF PeakWillCover
<1> QED
  BY <1>3, <1>5, <1>6, <1>7 DEF CountersInv

\* The invariant holds in every reachable state, wherever the calls overlap and
\* collections fall.
THEOREM CountersInvariance == CountingSpec => []CountersInv
<1>1. CountingInit => CountersInv
  BY CountersInitially
<1>2. CountersInv /\ [CountingNext]_countingVars => CountersInv'
  <2> SUFFICES ASSUME CountersInv, [CountingNext]_countingVars PROVE CountersInv'
    OBVIOUS
  <2>1. ASSUME NEW t \in Thread, NEW x \in NodeId, Enter(t, x)
        PROVE  CountersInv'
    BY <2>1, EnterStep
  <2>2. ASSUME NEW t \in Thread, Inside(t)
        PROVE  CountersInv'
    BY <2>2, RegisterStep, TestStep, ObserveStep, CountStep, RaiseStep DEF Inside
  <2>3. CASE Collect
    BY <2>3, CollectStep
  <2>4. CASE (\E x \in roots \ Initial : Drop(x)) \/ UNCHANGED countingVars
    BY <2>4 DEF Drop, countingVars, CountersInv, CountersTyped, FinitelyManyCalls, CollectionsGrow, EntryCountLow,
                AdditionsAccounted, PeakWillCover, Recorded, NumInnerNodes, InGuard, HitEarly, Unlooked, Uncounted
  <2> QED
    BY <2>1, <2>2, <2>3, <2>4 DEF CountingNext
<1> QED
  BY <1>1, <1>2, PTL DEF CountingSpec

\* No insertion escapes nodes_created but for one in each call one of whose gaps
\* a collection hit, however the calls and the collections overlap.
THEOREM CreationsAreCounted == CountingSpec => []NoCreationLost
<1>1. CountersInv => NoCreationLost
  <2> SUFFICES ASSUME CountersInv, InGuard = {} PROVE nodes_created + hits >= additions
    BY DEF NoCreationLost, Quiescent
  <2>1. Uncounted = {} /\ HitEarly = {}
    BY DEF Uncounted, HitEarly
  <2>2. Cardinality(Uncounted) = 0 /\ Cardinality(HitEarly) = 0
    BY <2>1, FS_EmptySet
  <2> QED
    BY <2>2 DEF CountersInv, AdditionsAccounted, CountersTyped
<1> QED
  BY <1>1, CountersInvariance, PTL

\* The recorded peak covers the live nodes, with the same exception.
THEOREM PeakIsCovered == CountingSpec => []PeakCoversLive
<1>1. CountersInv => PeakCoversLive
  <2> SUFFICES ASSUME CountersInv, InGuard = {} PROVE peak_live_nodes + hits >= NumInnerNodes
    BY DEF PeakCoversLive, Quiescent
  <2>1. \A t \in Thread : pc[t] = "idle"
    BY DEF InGuard
  <2>2. NumInnerNodes \in Nat /\ peak_live_nodes \in Nat /\ hits \in Nat
    BY Countable DEF CountersInv, CountersTyped
  <2>3. Unlooked = {} /\ HitEarly = {}
    BY DEF Unlooked, HitEarly
  <2>4. Cardinality(Unlooked) = 0 /\ Cardinality(HitEarly) = 0
    BY <2>3, FS_EmptySet
  <2>5. PICK n \in Nat : Recorded(n) /\ NumInnerNodes + Cardinality(HitEarly) <= n + hits + Cardinality(Unlooked)
    BY DEF CountersInv, PeakWillCover
  <2>6. n <= peak_live_nodes
    BY <2>1, <2>5 DEF Recorded
  <2> QED
    BY <2>2, <2>4, <2>5, <2>6
<1> QED
  BY <1>1, CountersInvariance, PTL

----------------------------------------------------------------------------
(* Graphs and graph spaces.                                                *)

\* Induction up to n, on the set S of the numbers the claim holds for.
LEMMA SetInduction ==
  ASSUME NEW S, NEW n \in Nat, 0 \in S, \A i \in Nat : i < n /\ i \in S => i + 1 \in S
  PROVE  0 .. n \subseteq S
<1> DEFINE Bad == {i \in 0 .. n : i \notin S}
<1> SUFFICES ASSUME Bad # {} PROVE FALSE
  OBVIOUS
<1>1. Bad \subseteq Nat
  OBVIOUS
<1>2. PICK b \in Bad : \A i \in Bad : ~ (<<i, b>> \in OpToRel(<, Nat))
  BY <1>1, NatLessThanWellFounded, WFMin, Zenon
<1>3. b \in Nat /\ b # 0 /\ b <= n /\ b \notin S
  <2>1. b \in 0 .. n /\ b \notin S
    BY <1>2
  <2> QED
    BY <2>1
<1>4. b - 1 \in Nat /\ b - 1 < n /\ b - 1 \in 0 .. n /\ (b - 1) + 1 = b
  BY <1>3
<1>5. b - 1 \notin S
  BY <1>3, <1>4
<1>6. b - 1 \in Bad
  BY <1>4, <1>5
<1>7. <<b - 1, b>> \in Nat \X Nat /\ <<b - 1, b>>[1] = b - 1 /\ <<b - 1, b>>[2] = b /\ b - 1 < b
  BY <1>3, <1>4
<1>8. <<b - 1, b>> \in OpToRel(<, Nat)
  BY <1>7, Zenon DEF OpToRel
<1> QED
  BY <1>2, <1>6, <1>8, Zenon

----------------------------------------------------------------------------
(* Lists.                                                                  *)

\* What is kept once element n of q has been looked at.
KeptNext(q, S, n, kept) == IF q[n] \in S THEN Append(kept, q[n]) ELSE kept

\* f lists what is kept of the first elements of q, for each number up to n.
KeepsUpTo(q, S, n, f) == f = [i \in 0 .. n |-> IF i = 0 THEN << >> ELSE KeptNext(q, S, i, f[i - 1])]

\* Such a list of lists exists.
LEMMA KeptExists ==
  ASSUME NEW q, NEW S, NEW n \in Nat
  PROVE  \E f : KeepsUpTo(q, S, n, f)
<1> DEFINE Good == {m \in Nat : \E f : f = [i \in 0 .. m |-> IF i = 0 THEN << >> ELSE KeptNext(q, S, i, f[i - 1])]}
<1>1. 0 \in Good
  <2> DEFINE g == [i \in 0 .. 0 |-> << >>]
  <2>1. g = [i \in 0 .. 0 |-> IF i = 0 THEN << >> ELSE KeptNext(q, S, i, g[i - 1])]
    OBVIOUS
  <2> QED
    BY <2>1
<1>2. ASSUME NEW m \in Nat, m \in Good
      PROVE  m + 1 \in Good
  <2>1. PICK f : f = [i \in 0 .. m |-> IF i = 0 THEN << >> ELSE KeptNext(q, S, i, f[i - 1])]
    BY <1>2
  <2> DEFINE g == [i \in 0 .. m + 1 |-> IF i = m + 1 THEN KeptNext(q, S, m + 1, f[m]) ELSE f[i]]
  <2>2. \A i \in 0 .. m + 1 : g[i] = IF i = 0 THEN << >> ELSE KeptNext(q, S, i, g[i - 1])
    <3> TAKE i \in 0 .. m + 1
    <3>1. CASE i = m + 1
      <4>1. g[i] = KeptNext(q, S, m + 1, f[m]) /\ i # 0 /\ i - 1 = m /\ m \in 0 .. m + 1 /\ m # m + 1
        BY <3>1
      <4>2. g[m] = f[m]
        BY <4>1
      <4> HIDE DEF g
      <4> QED
        BY <3>1, <4>1, <4>2
    <3>2. CASE i = 0
      <4>1. 0 \in 0 .. m + 1 /\ 0 # m + 1 /\ 0 \in 0 .. m
        OBVIOUS
      <4>2. g[0] = f[0]
        BY <4>1
      <4>3. f[0] = << >>
        BY <2>1, <4>1
      <4> HIDE DEF g
      <4> QED
        BY <3>2, <4>2, <4>3
    <3>3. CASE i # m + 1 /\ i # 0
      <4>1. i \in 0 .. m /\ i - 1 \in 0 .. m + 1 /\ i - 1 # m + 1
        BY <3>3
      <4>2. g[i] = f[i] /\ g[i - 1] = f[i - 1]
        BY <3>3, <4>1
      <4>3. f[i] = KeptNext(q, S, i, f[i - 1])
        BY <2>1, <3>3, <4>1
      <4> HIDE DEF g
      <4> QED
        BY <3>3, <4>2, <4>3
    <3> QED
      BY <3>1, <3>2, <3>3
  <2>3. g = [i \in 0 .. m + 1 |-> g[i]]
    OBVIOUS
  <2> HIDE DEF g
  <2>4. g = [i \in 0 .. m + 1 |-> IF i = 0 THEN << >> ELSE KeptNext(q, S, i, g[i - 1])]
    BY <2>2, <2>3, Zenon
  <2> QED
    BY <2>4
<1> HIDE DEF Good
<1>3. 0 .. n \subseteq Good
  BY <1>1, <1>2, SetInduction
<1>4. n \in Good
  BY <1>3
<1>5. PICK f : f = [i \in 0 .. n |-> IF i = 0 THEN << >> ELSE KeptNext(q, S, i, f[i - 1])]
  BY <1>4 DEF Good
<1> QED
  BY <1>5 DEF KeepsUpTo

\* One more element at the end.
LEMMA AppendRange ==
  ASSUME NEW T, NEW q \in Seq(T), NEW x \in T
  PROVE  /\ Append(q, x) \in Seq(T)
         /\ Range(Append(q, x)) = Range(q) \union {x}
         /\ IsInjective(q) /\ x \notin Range(q) => IsInjective(Append(q, x))
<1> DEFINE r == Append(q, x)
<1>1. /\ r \in Seq(T) /\ Len(r) = Len(q) + 1 /\ Len(q) \in Nat
      /\ \A i \in 1 .. Len(q) : r[i] = q[i]
      /\ r[Len(q) + 1] = x
      /\ DOMAIN q = 1 .. Len(q) /\ DOMAIN r = 1 .. Len(q) + 1
  BY AppendProperties, LenProperties
<1> HIDE DEF r
<1>2. Range(r) = Range(q) \union {x}
  BY <1>1 DEF Range
<1>3. IsInjective(q) /\ x \notin Range(q) => IsInjective(r)
  BY <1>1 DEF IsInjective, Range
<1> QED
  BY <1>1, <1>2, <1>3 DEF r

\* The kept elements are those that S asks for, none more often than before.
LEMMA KeptProperties ==
  ASSUME NEW T, NEW q \in Seq(T), NEW S
  PROVE  /\ Kept(q, S) \in Seq(T)
         /\ Range(Kept(q, S)) = Range(q) \intersect S
         /\ IsInjective(q) => IsInjective(Kept(q, S))
<1> DEFINE F == CHOOSE f : KeepsUpTo(q, S, Len(q), f)
<1>1. Kept(q, S) = F[Len(q)]
  BY DEF Kept, KeptNext, KeepsUpTo
<1>2. Len(q) \in Nat /\ DOMAIN q = 1 .. Len(q) /\ \A i \in 1 .. Len(q) : q[i] \in T
  BY LenProperties, ElementOfSeq
<1>3. KeepsUpTo(q, S, Len(q), F)
  <2>1. Len(q) \in Nat
    BY <1>2
  <2>2. \E f : KeepsUpTo(q, S, Len(q), f)
    BY <2>1, KeptExists
  <2> QED
    BY <2>2, Zenon
<1>4. PICK f : f = F /\ KeepsUpTo(q, S, Len(q), f)
  BY <1>3
<1> HIDE DEF F
<1>5. f[0] = << >> /\ \A n \in 1 .. Len(q) : f[n] = KeptNext(q, S, n, f[n - 1])
  BY <1>2, <1>4 DEF KeepsUpTo
<1> DEFINE Firsts(n) == {q[i] : i \in 1 .. n}
           Good == {n \in 0 .. Len(q) :
                      /\ f[n] \in Seq(T)
                      /\ Range(f[n]) = Firsts(n) \intersect S
                      /\ IsInjective(q) => IsInjective(f[n])}
<1>6. 0 \in Good
  <2>1. << >> \in Seq(T) /\ Range(<< >>) = {} /\ IsInjective(<< >>)
    BY EmptySeq DEF Range, IsInjective
  <2>2. Firsts(0) = {} /\ 0 \in 0 .. Len(q)
    BY <1>2
  <2>3. f[0] \in Seq(T) /\ Range(f[0]) = Firsts(0) \intersect S /\ IsInjective(f[0])
    <3> HIDE DEF Firsts
    <3> QED
      BY <1>5, <2>1, <2>2
  <2> QED
    BY <2>2, <2>3
<1>7. ASSUME NEW n \in Nat, n < Len(q), n \in Good
      PROVE  n + 1 \in Good
  <2>1. n + 1 \in 1 .. Len(q) /\ n + 1 \in 0 .. Len(q) /\ (n + 1) - 1 = n /\ q[n + 1] \in T
    BY <1>2, <1>7
  <2>2. Firsts(n + 1) = Firsts(n) \union {q[n + 1]}
    <3>1. 1 .. n + 1 = (1 .. n) \union {n + 1}
      OBVIOUS
    <3> QED
      BY <3>1
  <2>3. f[n] \in Seq(T) /\ Range(f[n]) = Firsts(n) \intersect S /\ (IsInjective(q) => IsInjective(f[n]))
    BY <1>7
  <2>4. IsInjective(q) => q[n + 1] \notin Firsts(n)
    BY <1>2, <2>1 DEF IsInjective
  <2> HIDE DEF Firsts
  <2>5. CASE q[n + 1] \in S
    <3>1. f[n + 1] = Append(f[n], q[n + 1])
      BY <1>5, <2>1, <2>5 DEF KeptNext
    <3>2. /\ Append(f[n], q[n + 1]) \in Seq(T)
          /\ Range(Append(f[n], q[n + 1])) = Range(f[n]) \union {q[n + 1]}
          /\ IsInjective(f[n]) /\ q[n + 1] \notin Range(f[n]) => IsInjective(Append(f[n], q[n + 1]))
      BY <2>1, <2>3, AppendRange
    <3> QED
      BY <2>1, <2>2, <2>3, <2>4, <2>5, <3>1, <3>2
  <2>6. CASE q[n + 1] \notin S
    <3>1. f[n + 1] = f[n]
      BY <1>5, <2>1, <2>6 DEF KeptNext
    <3> QED
      BY <2>1, <2>2, <2>3, <2>6, <3>1
  <2> QED
    BY <2>5, <2>6
<1> HIDE DEF Good
<1>8. 0 .. Len(q) \subseteq Good
  BY <1>2, <1>6, <1>7, SetInduction
<1>9. Len(q) \in Good
  BY <1>2, <1>8
<1>10. Firsts(Len(q)) = Range(q)
  BY <1>2 DEF Range
<1> QED
  BY <1>1, <1>4, <1>9, <1>10 DEF Good

\* Lists that are put together.
LEMMA ConcatRange ==
  ASSUME NEW T, NEW q \in Seq(T), NEW r \in Seq(T)
  PROVE  /\ q \o r \in Seq(T)
         /\ Range(q \o r) = Range(q) \union Range(r)
         /\ IsInjective(q) /\ IsInjective(r) /\ Range(q) \intersect Range(r) = {} => IsInjective(q \o r)
<1> DEFINE c == q \o r
<1>1. /\ c \in Seq(T) /\ Len(c) = Len(q) + Len(r)
      /\ \A i \in 1 .. Len(q) + Len(r) : c[i] = IF i <= Len(q) THEN q[i] ELSE r[i - Len(q)]
  BY ConcatProperties, Zenon
<1>2. /\ DOMAIN q = 1 .. Len(q) /\ DOMAIN r = 1 .. Len(r) /\ DOMAIN c = 1 .. Len(q) + Len(r)
      /\ Len(q) \in Nat /\ Len(r) \in Nat
  BY <1>1, LenProperties
<1> HIDE DEF c
<1>3. Range(q) \subseteq Range(c)
  BY <1>1, <1>2 DEF Range
<1>4. Range(r) \subseteq Range(c)
  <2> SUFFICES ASSUME NEW i \in 1 .. Len(r)
               PROVE  r[i] \in Range(c)
    BY <1>2 DEF Range
  <2>1. Len(q) + i \in 1 .. Len(q) + Len(r) /\ ~(Len(q) + i <= Len(q)) /\ (Len(q) + i) - Len(q) = i
    BY <1>2
  <2>2. c[Len(q) + i] = r[i]
    BY <1>1, <2>1
  <2> QED
    BY <1>2, <2>1, <2>2 DEF Range
<1>5. \A i \in 1 .. Len(q) + Len(r) :
        \/ i \in 1 .. Len(q) /\ c[i] = q[i]
        \/ i \notin 1 .. Len(q) /\ i - Len(q) \in 1 .. Len(r) /\ c[i] = r[i - Len(q)]
  BY <1>1, <1>2
<1>6. Range(c) \subseteq Range(q) \union Range(r)
  BY <1>2, <1>5 DEF Range
<1>7. ASSUME IsInjective(q), IsInjective(r), Range(q) \intersect Range(r) = {}
      PROVE  IsInjective(c)
  <2> SUFFICES ASSUME NEW i \in 1 .. Len(q) + Len(r), NEW j \in 1 .. Len(q) + Len(r), c[i] = c[j]
               PROVE  i = j
    BY <1>2 DEF IsInjective
  <2>1. \A k \in 1 .. Len(q) : q[k] \in Range(q)
    BY <1>2 DEF Range
  <2>2. \A k \in 1 .. Len(r) : r[k] \in Range(r)
    BY <1>2 DEF Range
  <2>3. CASE i \in 1 .. Len(q) /\ j \in 1 .. Len(q)
    BY <1>2, <1>5, <1>7, <2>3 DEF IsInjective
  <2>4. CASE i \notin 1 .. Len(q) /\ j \notin 1 .. Len(q)
    <3>1. i - Len(q) \in 1 .. Len(r) /\ j - Len(q) \in 1 .. Len(r) /\ r[i - Len(q)] = r[j - Len(q)]
      BY <1>5, <2>4
    <3>2. i - Len(q) = j - Len(q)
      BY <1>2, <1>7, <3>1 DEF IsInjective
    <3> QED
      BY <1>2, <3>2
  <2>5. CASE i \in 1 .. Len(q) /\ j \notin 1 .. Len(q)
    BY <1>5, <1>7, <2>1, <2>2, <2>5
  <2>6. CASE i \notin 1 .. Len(q) /\ j \in 1 .. Len(q)
    BY <1>5, <1>7, <2>1, <2>2, <2>6
  <2> QED
    BY <2>3, <2>4, <2>5, <2>6
<1> QED
  BY <1>1, <1>3, <1>4, <1>6, <1>7 DEF c

\* A list in which each of n numbers comes exactly once has n elements.
LEMMA OrderProperties ==
  ASSUME NEW q \in Seq(Nat), NEW n \in Nat
  PROVE  /\ IsInjective(q) /\ Range(q) = 0 .. n - 1 => Len(q) = n
         /\ IsInjective(q) /\ Range(q) \subseteq 0 .. n - 1 /\ Len(q) = n => IsOrder(q)
         /\ IsOrder(q) => IsInjective(q)
<1>1. Len(q) \in Nat /\ DOMAIN q = 1 .. Len(q) /\ q \in [1 .. Len(q) -> Nat]
  BY LenProperties
<1>2. /\ IsFiniteSet(1 .. Len(q)) /\ Cardinality(1 .. Len(q)) = Len(q)
      /\ IsFiniteSet(0 .. n - 1) /\ Cardinality(0 .. n - 1) = n
      /\ IsFiniteSet(0 .. Len(q) - 1) /\ Cardinality(0 .. Len(q) - 1) = Len(q)
  <2>1. \A k \in Nat : IsFiniteSet(0 .. k - 1) /\ Cardinality(0 .. k - 1) = k
    <3> TAKE k \in Nat
    <3>1. 0 \in Int /\ k - 1 \in Int
      OBVIOUS
    <3>2. IsFiniteSet(0 .. k - 1) /\ Cardinality(0 .. k - 1) = IF 0 > k - 1 THEN 0 ELSE (k - 1) - 0 + 1
      BY <3>1, FS_Interval, Zenon
    <3> QED
      BY <3>2
  <2>2. \A k \in Nat : IsFiniteSet(1 .. k) /\ Cardinality(1 .. k) = k
    <3> TAKE k \in Nat
    <3>1. 1 \in Int /\ k \in Int
      OBVIOUS
    <3>2. IsFiniteSet(1 .. k) /\ Cardinality(1 .. k) = IF 1 > k THEN 0 ELSE k - 1 + 1
      BY <3>1, FS_Interval, Zenon
    <3> QED
      BY <3>2
  <2> QED
    BY <1>1, <2>1, <2>2
<1>3. ASSUME NEW k \in Nat, Range(q) \subseteq 0 .. k - 1
      PROVE  q \in [1 .. Len(q) -> 0 .. k - 1]
  <2>1. \A i \in 1 .. Len(q) : q[i] \in 0 .. k - 1
    BY <1>1, <1>3 DEF Range
  <2> QED
    BY <1>1, <2>1
<1>4. ASSUME IsInjective(q), Range(q) = 0 .. n - 1
      PROVE  Len(q) = n
  <2>1. q \in Injection(1 .. Len(q), 0 .. n - 1)
    BY <1>3, <1>4 DEF Injection
  <2>2. q \in Surjection(1 .. Len(q), 0 .. n - 1)
    BY <1>1, <1>3, <1>4 DEF Surjection, Range
  <2>3. Cardinality(1 .. Len(q)) = Cardinality(0 .. n - 1)
    BY <1>2, <2>1, <2>2, FS_Injection
  <2> QED
    BY <1>2, <2>3
<1>5. ASSUME IsInjective(q), Range(q) \subseteq 0 .. n - 1, Len(q) = n
      PROVE  IsOrder(q)
  <2>1. q \in Injection(1 .. Len(q), 0 .. n - 1)
    BY <1>3, <1>5 DEF Injection
  <2>2. q \in Surjection(1 .. Len(q), 0 .. n - 1)
    BY <1>2, <1>5, <2>1, FS_Injection
  <2>3. 0 .. n - 1 \subseteq Range(q)
    BY <1>1, <2>2 DEF Surjection, Range
  <2> QED
    BY <1>5, <2>3 DEF IsOrder
<1>6. ASSUME IsOrder(q)
      PROVE  IsInjective(q)
  <2>1. q \in [1 .. Len(q) -> 0 .. Len(q) - 1]
    BY <1>1, <1>3, <1>6 DEF IsOrder
  <2>2. q \in Surjection(1 .. Len(q), 0 .. Len(q) - 1)
    BY <1>1, <1>6, <2>1 DEF Surjection, Range, IsOrder
  <2>3. q \in Injection(1 .. Len(q), 0 .. Len(q) - 1)
    BY <1>2, <2>2, FS_SurjSameCardinalityImpliesInj
  <2> QED
    BY <2>3 DEF Injection
<1>7. IsInjective(q) /\ Range(q) = 0 .. n - 1 => Len(q) = n
  BY <1>4
<1>8. IsInjective(q) /\ Range(q) \subseteq 0 .. n - 1 /\ Len(q) = n => IsOrder(q)
  BY <1>5
<1>9. IsOrder(q) => IsInjective(q)
  BY <1>6
<1>10. QED
  BY <1>7, <1>8, <1>9

\* A set of numbers that is not empty has a least element.
LEMMA MinExists ==
  ASSUME NEW S \in SUBSET Nat, S # {}
  PROVE  \E b \in S : \A i \in S : b =< i
<1>1. PICK b \in S : \A i \in S : ~ (<<i, b>> \in OpToRel(<, Nat))
  BY NatLessThanWellFounded, WFMin, Zenon
<1>2. ASSUME NEW i \in S
      PROVE  b =< i
  <2>1. i \in Nat /\ b \in Nat
    OBVIOUS
  <2>2. ASSUME i < b
        PROVE  FALSE
    <3>1. <<i, b>> \in Nat \X Nat /\ <<i, b>>[1] = i /\ <<i, b>>[2] = b
      BY <2>1
    <3>2. <<i, b>> \in OpToRel(<, Nat)
      BY <2>2, <3>1, Zenon DEF OpToRel
    <3> QED
      BY <1>1, <3>2
  <2> QED
    BY <2>1, <2>2
<1> QED
  BY <1>2

\* Min finds it.
LEMMA MinProperties ==
  ASSUME NEW S \in SUBSET Nat, S # {}
  PROVE  Min(S) \in S
BY MinExists DEF Min

----------------------------------------------------------------------------
(* The inductive invariant.                                                *)

Stages == {"graph", "choose", "bfs", "validate", "create", "map", "done"}

Types ==
  /\ input \in Seq(Nat \X Nat) /\ capacity \in Nat
  /\ stage \in Stages
  /\ edges \in Seq(Vertex \X Vertex)
  /\ visited \subseteq Vertex /\ queue \in Seq(Vertex) /\ Range(queue) \subseteq visited
  /\ order \in Seq(Nat)
  /\ variable_to_edge \in Seq(Nat)

\* The strategies whose orders are validated.
Validated == {"input", "listed", "bfs"}

\* What the stages say of the strategy and of the outcome.
Progress ==
  /\ stage # "done" => outcome.kind = "none"
  /\ stage \in {"graph", "choose"} => visited = {} /\ queue = << >> /\ order = << >>
  /\ stage = "bfs" => strategy = "bfs"
  /\ stage = "validate" => strategy \in Validated
  /\ stage \in {"create", "map"} => strategy \in Validated \union {"foreign"}
  /\ stage \in {"graph", "choose", "bfs", "validate", "create"} =>
       edge_to_variable = Unmapped /\ variable_to_edge = << >>

\* The edges are the pairs read so far and form a simple graph.
Reading ==
  /\ EdgeCount <= Len(input)
  /\ \A i \in 1 .. EdgeCount : edges[i] = input[i]
  /\ stage \notin {"graph", "done"} => EdgeCount = Len(input)
  /\ IsSimple(edges)

GoodOrder == Len(order) = EdgeCount /\ IsOrder(order)

\* The built-in strategies make orders of all edges, and validation lets
\* nothing else pass.
Ordered ==
  /\ stage = "validate" /\ strategy \in {"input", "bfs"} => GoodOrder
  /\ stage \in {"create", "map"} /\ strategy # "foreign" => GoodOrder
  /\ stage \in {"create", "map"} => IsOrder(order)

\* The search has emitted no edge twice, and all edges of the vertices it is
\* through with.
Searching ==
  stage = "bfs" =>
    /\ IsInjective(order) /\ Range(order) \subseteq 0 .. EdgeCount - 1
    /\ \A e \in 0 .. EdgeCount - 1 : \A v \in Ends(e) :
         v \in visited /\ v \notin Range(queue) => e \in Range(order)

\* The maps are inverse as far as the order has been read.
Mapped ==
  stage = "map" =>
    /\ Level <= EdgeCount /\ Level <= Len(order)
    /\ \A i \in 1 .. Level : variable_to_edge[i] = order[i] /\ order[i] < EdgeCount
    /\ DOMAIN edge_to_variable = {order[i] : i \in 1 .. Level}
    /\ \A i \in 1 .. Level : edge_to_variable[order[i]] = i - 1

GInv ==
  /\ Types /\ Progress /\ Reading /\ Ordered /\ Searching /\ Mapped
  /\ AcceptsExactly /\ MapsInverse

----------------------------------------------------------------------------
(* What the search reads.                                                  *)

\* The edges of a vertex, each once.
LEMMA IncidentProperties ==
  ASSUME Types, NEW v \in Vertex
  PROVE  /\ Incident(v) \in Seq(0 .. EdgeCount - 1)
         /\ Range(Incident(v)) = {e \in 0 .. EdgeCount - 1 : v \in Ends(e)}
         /\ IsInjective(Incident(v))
<1> DEFINE b == [i \in 1 .. EdgeCount |-> i - 1]
           S == {e \in 0 .. EdgeCount - 1 : v \in Ends(e)}
<1>1. EdgeCount \in Nat
  BY LenProperties DEF Types, EdgeCount
<1>2. b \in Seq(0 .. EdgeCount - 1) /\ Range(b) = 0 .. EdgeCount - 1 /\ IsInjective(b)
  <2>1. \A i \in 1 .. EdgeCount : b[i] \in 0 .. EdgeCount - 1
    BY <1>1
  <2>2. b \in Seq(0 .. EdgeCount - 1)
    BY <1>1, <2>1
  <2>3. DOMAIN b = 1 .. EdgeCount
    OBVIOUS
  <2>4. \A e \in 0 .. EdgeCount - 1 : e + 1 \in 1 .. EdgeCount /\ b[e + 1] = e
    BY <1>1
  <2>5. Range(b) = 0 .. EdgeCount - 1
    <3> HIDE DEF b
    <3> QED
      BY <2>1, <2>3, <2>4 DEF Range
  <2>6. IsInjective(b)
    BY <1>1 DEF IsInjective
  <2> QED
    BY <2>2, <2>5, <2>6
<1>3. Incident(v) = Kept(b, S)
  BY DEF Incident
<1> HIDE DEF b, S
<1>4. /\ Kept(b, S) \in Seq(0 .. EdgeCount - 1) /\ Range(Kept(b, S)) = Range(b) \intersect S
      /\ IsInjective(b) => IsInjective(Kept(b, S))
  BY <1>2, KeptProperties
<1>5. Range(b) \intersect S = S
  BY <1>2 DEF S
<1> QED
  BY <1>2, <1>3, <1>4, <1>5 DEF S

\* Both ends of an edge are vertices.
LEMMA EndsAreVertices ==
  ASSUME Types, NEW e \in 0 .. EdgeCount - 1
  PROVE  Ends(e) \subseteq Vertex
<1>1. EdgeCount \in Nat /\ e + 1 \in 1 .. EdgeCount
  BY LenProperties DEF Types, EdgeCount
<1>2. edges[e + 1] \in Vertex \X Vertex
  BY <1>1, ElementOfSeq DEF Types, EdgeCount
<1> QED
  BY <1>2 DEF Ends

\* The other ends of the edges of a vertex are vertices.
LEMMA NeighborsAreVertices ==
  ASSUME Types, IsSimple(edges), NEW v \in Vertex
  PROVE  Neighbors(v) \in Seq(Vertex)
<1>1. /\ Incident(v) \in Seq(0 .. EdgeCount - 1)
      /\ Range(Incident(v)) = {e \in 0 .. EdgeCount - 1 : v \in Ends(e)}
  BY IncidentProperties
<1>2. Len(Incident(v)) \in Nat /\ DOMAIN Incident(v) = 1 .. Len(Incident(v))
  BY <1>1, LenProperties
<1>3. ASSUME NEW i \in DOMAIN Incident(v)
      PROVE  Neighbor(v, Incident(v)[i]) \in Vertex
  <2>1. PICK e : e = Incident(v)[i]
    OBVIOUS
  <2>2. e \in 0 .. EdgeCount - 1 /\ v \in Ends(e)
    BY <1>1, <2>1 DEF Range
  <2>3. EdgeCount \in Nat /\ DOMAIN edges = 1 .. EdgeCount
    BY LenProperties DEF Types, EdgeCount
  <2>4. e + 1 \in 1 .. EdgeCount
    BY <2>2, <2>3
  <2>5. edges[e + 1][1] # edges[e + 1][2]
    BY <2>3, <2>4 DEF IsSimple
  <2>6. \E w \in Ends(e) : w # v
    BY <2>5 DEF Ends
  <2>7. Neighbor(v, e) \in Ends(e)
    BY <2>6 DEF Neighbor
  <2> QED
    BY <2>1, <2>2, <2>7, EndsAreVertices
<1> QED
  BY <1>2, <1>3 DEF Neighbors

\* What is not yet in S.
LEMMA NotYetProperties ==
  ASSUME NEW T, NEW q \in Seq(T), NEW S
  PROVE  /\ NotYet(q, S) \in Seq(T)
         /\ Range(NotYet(q, S)) = Range(q) \ S
         /\ IsInjective(q) => IsInjective(NotYet(q, S))
<1>1. PICK R : R = Range(q) \ S
  OBVIOUS
<1>2. NotYet(q, S) = Kept(q, R)
  BY <1>1 DEF NotYet
<1>3. /\ Kept(q, R) \in Seq(T) /\ Range(Kept(q, R)) = Range(q) \intersect R
      /\ IsInjective(q) => IsInjective(Kept(q, R))
  BY KeptProperties
<1> QED
  BY <1>1, <1>2, <1>3

----------------------------------------------------------------------------
(* Invariance.                                                             *)

\* It holds at the start.
LEMMA Initially == Init => GInv
<1> SUFFICES ASSUME Init
             PROVE  GInv
  OBVIOUS
<1> USE DEF Init
<1>1. << >> \in Seq(Vertex \X Vertex) /\ << >> \in Seq(Vertex) /\ << >> \in Seq(Nat) /\ Len(<< >>) = 0
  OBVIOUS
<1>2. Range(<< >>) = {}
  BY DEF Range
<1>3. Types
  BY <1>1, <1>2, GraphSpacesAssumption DEF Types, Stages
<1>4. outcome.kind = "none"
  BY DEF Outcome
<1>5. Progress
  BY <1>4 DEF Progress
<1>6. Reading /\ IsSimple(edges)
  <2>1. Len(input) \in Nat
    BY GraphSpacesAssumption, LenProperties
  <2> QED
    BY <1>1, <2>1 DEF Reading, EdgeCount, IsSimple
<1>7. Ordered /\ Searching /\ Mapped
  BY DEF Ordered, Searching, Mapped
<1>8. AcceptsExactly
  BY <1>4, <1>6 DEF AcceptsExactly
<1>9. MapsInverse
  BY <1>4 DEF MapsInverse
<1> QED
  BY <1>3, <1>5, <1>6, <1>7, <1>8, <1>9 DEF GInv

\* No outcome has been returned, and the other claims hold.
Underway ==
  /\ outcome.kind = "none" /\ stage # "done"
  /\ Reading /\ Ordered

\* Nothing that was read is lost.
LEMMA EverythingRead ==
  ASSUME Types, Reading, EdgeCount = Len(input)
  PROVE  edges = input
<1>1. Len(edges) = Len(input) /\ \A i \in 1 .. Len(edges) : edges[i] = input[i]
  BY DEF Reading, EdgeCount
<1>2. edges \in [1 .. Len(edges) -> Vertex \X Vertex] /\ input \in [1 .. Len(edges) -> Nat \X Nat]
  BY <1>1, LenProperties DEF Types
<1> QED
  BY <1>1, <1>2

\* As long as no outcome is returned, the claims about outcomes are idle.
LEMMA NotReturned == Types /\ Underway => AcceptsExactly /\ MapsInverse
<1> SUFFICES ASSUME Types, Underway
             PROVE  AcceptsExactly /\ MapsInverse
  OBVIOUS
<1>1. stage # "graph" /\ EdgeCount = Len(input) => edges = input
  BY EverythingRead DEF Underway
<1>2. AcceptsExactly
  BY <1>1 DEF AcceptsExactly, Underway, Reading, Ordered, GoodOrder
<1>3. MapsInverse
  BY DEF MapsInverse, Underway
<1> QED
  BY <1>2, <1>3

\* A pair that is accepted keeps the graph simple.
LEMMA AddEdgeStep == GInv /\ AddEdge => GInv'
<1> SUFFICES ASSUME GInv, AddEdge
             PROVE  GInv'
  OBVIOUS
<1> USE DEF GInv
<1>1. /\ EdgeCount \in Nat /\ Len(input) \in Nat /\ EdgeCount + 1 \in 1 .. Len(input) /\ EdgeCount < Len(input)
      /\ DOMAIN edges = 1 .. EdgeCount
  BY LenProperties DEF Types, AddEdge, ReadingGraph, EdgeCount, Reading
<1>2. Pair \in Nat \X Nat
  BY <1>1, ElementOfSeq DEF Pair, Types
<1>3. OutOfRange = {} /\ Pair[1] # Pair[2] /\ Earlier = {}
  <2>1. PairError = {}
    BY DEF AddEdge
  <2> HIDE DEF GInv
  <2>2. OutOfRange = {}
    BY <2>1 DEF PairError
  <2>3. Pair[1] # Pair[2]
    BY <2>1, <2>2 DEF PairError
  <2>4. {Outcome("duplicate_edge", <<i - 1, EdgeCount>>) : i \in Earlier} = {}
    BY <2>1, <2>2, <2>3 DEF PairError
  <2>5. Earlier = {}
    BY <2>4
  <2> QED
    BY <2>2, <2>3, <2>5
<1>4. Pair[1] \in Vertex /\ Pair[2] \in Vertex
  BY <1>2, <1>3, GraphSpacesAssumption DEF OutOfRange, Vertex
<1>5. Pair \in Vertex \X Vertex
  BY <1>2, <1>4
<1>6. PICK new : new = Append(edges, Pair)
  OBVIOUS
<1>7. /\ new \in Seq(Vertex \X Vertex) /\ Len(new) = EdgeCount + 1
      /\ \A i \in 1 .. EdgeCount : new[i] = edges[i]
      /\ new[EdgeCount + 1] = Pair
      /\ DOMAIN new = 1 .. EdgeCount + 1
  BY <1>1, <1>5, <1>6, AppendProperties, LenProperties DEF EdgeCount, Types
<1>8. IsSimple(new)
  <2> SUFFICES ASSUME NEW i \in 1 .. EdgeCount + 1
               PROVE  /\ \A k \in 1 .. 2 : new[i][k] \in Vertex
                      /\ new[i][1] # new[i][2]
                      /\ \A j \in (1 .. EdgeCount + 1) \ {i} : {new[i][1], new[i][2]} # {new[j][1], new[j][2]}
    BY <1>7 DEF IsSimple
  <2>1. new[i] \in Vertex \X Vertex
    BY <1>7
  <2>2. \A k \in 1 .. 2 : new[i][k] \in Vertex
    BY <2>1
  <2>3. new[i][1] # new[i][2]
    <3>1. CASE i = EdgeCount + 1
      BY <1>3, <1>7, <3>1
    <3>2. CASE i # EdgeCount + 1
      <4>1. DOMAIN edges = 1 .. EdgeCount /\ EdgeCount \in Nat
        BY <1>1, LenProperties DEF EdgeCount, Types
      <4>3. i \in 1 .. EdgeCount
        BY <3>2, <4>1
      <4>2. edges[i][1] # edges[i][2]
        BY <1>1, <4>1, <4>3 DEF Reading, IsSimple
      <4> QED
        BY <1>7, <4>2, <4>3
    <3> QED
      BY <3>1, <3>2
  <2>4. \A h \in 1 .. EdgeCount : {edges[h][1], edges[h][2]} # {Pair[1], Pair[2]}
    BY <1>3 DEF Earlier, SameEdge
  <2>5. \A h, j \in 1 .. EdgeCount : h # j => {edges[h][1], edges[h][2]} # {edges[j][1], edges[j][2]}
    BY <1>1 DEF Reading, IsSimple
  <2>6. ASSUME NEW j \in (1 .. EdgeCount + 1) \ {i}
        PROVE  {new[i][1], new[i][2]} # {new[j][1], new[j][2]}
    <3>1. CASE i \in 1 .. EdgeCount /\ j \in 1 .. EdgeCount
      BY <1>7, <2>5, <3>1
    <3>2. CASE i = EdgeCount + 1
      <4>1. j \in 1 .. EdgeCount
        BY <1>1, <2>6, <3>2
      <4> QED
        BY <1>7, <2>4, <3>2, <4>1
    <3>3. CASE j = EdgeCount + 1
      <4>1. i \in 1 .. EdgeCount
        BY <1>1, <2>6, <3>3
      <4> QED
        BY <1>7, <2>4, <3>3, <4>1
    <3>4. (i \in 1 .. EdgeCount \/ i = EdgeCount + 1) /\ j \in 1 .. EdgeCount + 1
      BY <1>1, <2>6
    <3>5. j \in 1 .. EdgeCount \/ j = EdgeCount + 1
      BY <1>1, <3>4
    <3> QED
      BY <3>1, <3>2, <3>3, <3>4, <3>5
  <2> QED
    BY <2>2, <2>3, <2>6
<1>9. edges' = new /\ EdgeCount' = EdgeCount + 1 /\ stage = "graph" /\ stage' = "graph"
  BY <1>6, <1>7 DEF AddEdge, EdgeCount, ReadingGraph
<1> HIDE DEF GInv
<1>10. Types'
  BY <1>7, <1>9 DEF GInv, Types, AddEdge, bfs_vars, map_vars, Vertex
<1>11. Progress'
  BY <1>9 DEF GInv, Progress, AddEdge, map_vars, bfs_vars
<1>12. Reading'
  <2>1. IsSimple(edges)'
    BY <1>8, <1>9 DEF IsSimple, Vertex
  <2>2. \A i \in 1 .. EdgeCount + 1 : new[i] = input[i]
    BY <1>1, <1>7 DEF GInv, Reading, Pair
  <2> QED
    BY <1>1, <1>9, <2>1, <2>2 DEF Reading, AddEdge
<1>13. Ordered' /\ Searching' /\ Mapped'
  BY <1>9 DEF Ordered, Searching, Mapped
<1>14. Underway'
  BY <1>9, <1>11, <1>12, <1>13 DEF Underway, Progress
<1>15. AcceptsExactly' /\ MapsInverse'
  BY <1>10, <1>14, NotReturned, PTL
<1> QED
  BY <1>10, <1>11, <1>12, <1>13, <1>15 DEF GInv

\* The parts that say nothing of outcomes outlive every return.
LEMMA Returning ==
  ASSUME GInv, stage' = "done", UNCHANGED <<graph_vars, bfs_vars, order, map_vars>>
  PROVE  /\ Types' /\ Progress' /\ Reading' /\ Ordered' /\ Searching' /\ Mapped'
         /\ IsSimple(edges)'
<1> USE DEF GInv, graph_vars, bfs_vars, map_vars
<1>1. Types'
  BY DEF Types, Vertex, Stages
<1>2. IsSimple(edges)'
  BY DEF Reading, IsSimple, Vertex
<1>3. Reading'
  BY <1>2 DEF Reading, EdgeCount
<1>4. Progress' /\ Ordered' /\ Searching' /\ Mapped'
  BY DEF Progress, Ordered, Searching, Mapped
<1> QED
  BY <1>1, <1>2, <1>3, <1>4

\* The beginning of a sequence.
LEMMA PrefixOf ==
  ASSUME NEW S, NEW q \in Seq(S), NEW k \in 1 .. Len(q), NEW t, t = SubSeq(q, 1, k)
  PROVE  t \in Seq(S) /\ Len(t) = k /\ DOMAIN t = 1 .. k /\ \A i \in 1 .. k : t[i] = q[i]
<1>1. Len(q) \in Nat
  BY LenProperties
<1>2. 1 \in 1 .. Len(q) + 1 /\ k \in 1 - 1 .. Len(q) /\ k \in Nat /\ (k - 1) + 1 = k
  BY <1>1
<1>3. t \in Seq(S)
  BY <1>2, SubSeqProperties
<1>4. Len(t) = k
  BY <1>2, SubSeqProperties
<1>5. \A i \in 1 .. k : t[i] = q[i]
  <2> TAKE i \in 1 .. k
  <2>1. t[i] = q[1 + i - 1] /\ 1 + i - 1 = i
    BY <1>2, <1>4, SubSeqProperties
  <2> QED
    BY <2>1
<1> QED
  BY <1>3, <1>4, <1>5, LenProperties

\* A pair is refused only when the graph would no longer be simple.
LEMMA RefuseEdgeStep == GInv /\ RefuseEdge => GInv'
<1> SUFFICES ASSUME GInv, RefuseEdge
             PROVE  GInv'
  OBVIOUS
<1>1. PICK error \in PairError : stage' = "done" /\ outcome' = error
  BY DEF RefuseEdge, Return
<1>2. /\ Types' /\ Progress' /\ Reading' /\ Ordered' /\ Searching' /\ Mapped'
      /\ IsSimple(edges)'
  BY <1>1, Returning DEF RefuseEdge
<1>3. /\ EdgeCount \in Nat /\ Len(input) \in Nat /\ EdgeCount + 1 \in 1 .. Len(input) /\ EdgeCount < Len(input)
      /\ edges \in Seq(Vertex \X Vertex) /\ input \in Seq(Nat \X Nat)
      /\ \A i \in 1 .. EdgeCount : edges[i] = input[i]
  <2>1. /\ edges \in Seq(Vertex \X Vertex) /\ input \in Seq(Nat \X Nat)
        /\ \A i \in 1 .. EdgeCount : edges[i] = input[i]
    BY DEF GInv, Types, Reading
  <2>2. EdgeCount \in Nat /\ Len(input) \in Nat
    BY <2>1, LenProperties DEF EdgeCount
  <2>3. EdgeCount < Len(input)
    BY <2>2 DEF RefuseEdge, ReadingGraph
  <2>4. EdgeCount + 1 \in 1 .. Len(input)
    BY <2>2, <2>3
  <2> QED
    BY <2>1, <2>2, <2>3, <2>4, Zenon
<1>4. Pair \in Nat \X Nat /\ Pair = input[EdgeCount + 1]
  BY <1>3, ElementOfSeq DEF Pair
<1>5. PICK t : t = SubSeq(input, 1, EdgeCount + 1)
  OBVIOUS
<1>6. DOMAIN t = 1 .. EdgeCount + 1 /\ \A i \in 1 .. EdgeCount + 1 : t[i] = input[i]
  BY <1>3, <1>5, PrefixOf
<1>7. t[EdgeCount + 1] = Pair /\ EdgeCount + 1 \in DOMAIN t
  BY <1>3, <1>4, <1>6
<1>8. ~IsSimple(t) /\ error.kind \in {"invalid_vertex", "self_loop", "duplicate_edge"}
  <2>1. CASE OutOfRange # {}
    <3>1. PICK k \in 1 .. 2 : Pair[k] >= V
      BY <2>1 DEF OutOfRange
    <3>2. Pair[k] \notin Vertex
      BY <1>4, <3>1, GraphSpacesAssumption DEF Vertex
    <3>3. error = Outcome("invalid_vertex", <<Pair[Min(OutOfRange)]>>)
      BY <1>1, <2>1 DEF PairError
    <3> QED
      BY <1>7, <3>2, <3>3 DEF IsSimple, Outcome
  <2>2. CASE OutOfRange = {} /\ Pair[1] = Pair[2]
    <3>1. error = Outcome("self_loop", <<EdgeCount, Pair[1]>>)
      BY <1>1, <2>2 DEF PairError
    <3> QED
      BY <1>7, <2>2, <3>1 DEF IsSimple, Outcome
  <2>3. CASE OutOfRange = {} /\ Pair[1] # Pair[2]
    <3>1. PICK i \in Earlier : error = Outcome("duplicate_edge", <<i - 1, EdgeCount>>)
      BY <1>1, <2>3 DEF PairError
    <3>2. i \in 1 .. EdgeCount /\ {edges[i][1], edges[i][2]} = {Pair[1], Pair[2]}
      BY <3>1 DEF Earlier, SameEdge
    <3>6. EdgeCount \in Nat /\ i \in 1 .. EdgeCount
      BY <1>3, <3>2
    <3>7. i \in 1 .. EdgeCount + 1 /\ i # EdgeCount + 1
      BY <3>6
    <3>3. i \in DOMAIN t /\ i # EdgeCount + 1 /\ t[i] = edges[i]
      BY <1>3, <1>6, <3>6, <3>7
    <3>4. {t[EdgeCount + 1][1], t[EdgeCount + 1][2]} = {t[i][1], t[i][2]}
      BY <1>7, <3>2, <3>3
    <3>5. ~IsSimple(t)
      BY <1>7, <3>3, <3>4 DEF IsSimple
    <3> QED
      BY <3>1, <3>5 DEF Outcome
  <2> QED
    BY <2>1, <2>2, <2>3
<1>9. EdgeCount' = EdgeCount /\ input' = input /\ stage' = "done" /\ outcome'.kind = error.kind
  BY <1>1 DEF RefuseEdge, graph_vars, EdgeCount
<1>10. AcceptsExactly'
  <2>1. (~IsSimple(SubSeq(input, 1, EdgeCount + 1)))'
    <3>1. (SubSeq(input, 1, EdgeCount + 1))' = t
      BY <1>5, <1>9
    <3> QED
      BY <1>8, <3>1
  <2>2. (stage # "graph" /\ EdgeCount = Len(input) => edges = input)'
    BY <1>3, <1>9
  <2> QED
    BY <1>2, <1>8, <1>9, <2>1, <2>2 DEF AcceptsExactly
<1>11. MapsInverse'
  BY <1>3, <1>8, <1>9 DEF MapsInverse
<1> QED
  BY <1>2, <1>10, <1>11 DEF GInv

\* A step that stays on the way to an outcome and keeps the graph.
LEMMA KeepsGraph ==
  ASSUME GInv, UNCHANGED graph_vars, EdgeCount = Len(input), stage' # "done", outcome' = outcome, stage # "done",
         Types', Ordered'
  PROVE  /\ Reading' /\ Underway' /\ AcceptsExactly' /\ MapsInverse'
<1>1. Reading'
  <2>1. edges' = edges /\ input' = input /\ EdgeCount' = EdgeCount
    BY DEF graph_vars, EdgeCount
  <2>2. IsSimple(edges)'
    BY <2>1 DEF GInv, Reading, IsSimple, Vertex
  <2> QED
    BY <2>1, <2>2 DEF GInv, Reading
<1>2. Underway'
  BY <1>1 DEF GInv, Underway, Progress
<1> QED
  BY <1>1, <1>2, NotReturned, PTL

\* All pairs have been read.
LEMMA FinishGraphStep == GInv /\ FinishGraph => GInv'
<1> SUFFICES ASSUME GInv, FinishGraph
             PROVE  GInv'
  OBVIOUS
<1> USE DEF GInv, FinishGraph
<1>1. UNCHANGED graph_vars /\ EdgeCount = Len(input) /\ stage' # "done" /\ outcome' = outcome /\ stage # "done"
  OBVIOUS
<1>2. Types'
  BY DEF Types, Vertex, Stages, graph_vars, bfs_vars, map_vars
<1>3. Progress'
  BY DEF Progress, bfs_vars, map_vars
<1>4. Ordered' /\ Searching' /\ Mapped'
  BY DEF Ordered, Searching, Mapped
<1>5. Reading' /\ Underway' /\ AcceptsExactly' /\ MapsInverse'
  BY <1>1, <1>2, <1>4, KeepsGraph
<1> QED
  BY <1>2, <1>3, <1>4, <1>5

\* A list, whose validation is still to come.
LEMMA ListEdgesStep == GInv /\ ListEdges => GInv'
<1> SUFFICES ASSUME GInv, ListEdges
             PROVE  GInv'
  OBVIOUS
<1> USE DEF ListEdges
<1>1. /\ UNCHANGED graph_vars /\ EdgeCount = Len(input) /\ stage' # "done" /\ outcome' = outcome /\ stage # "done"
      /\ EdgeCount \in Nat /\ EdgeCount' = EdgeCount
  BY LenProperties DEF GInv, Types, Reading, EdgeCount, graph_vars
<1>2. ASSUME strategy' = "input", order' = [i \in 1 .. EdgeCount |-> i - 1]
      PROVE  order' \in Seq(Nat) /\ GoodOrder'
  <2>1. \A i \in 1 .. EdgeCount : i - 1 \in 0 .. EdgeCount - 1 /\ i - 1 \in Nat
    BY <1>1
  <2>2. order' \in Seq(Nat) /\ Len(order') = EdgeCount /\ DOMAIN (order') = 1 .. EdgeCount
    BY <1>1, <1>2, <2>1
  <2>3. Range(order') \subseteq 0 .. EdgeCount - 1
    BY <1>2, <2>1, <2>2 DEF Range
  <2>4. ASSUME NEW e \in 0 .. EdgeCount - 1
        PROVE  e \in Range(order')
    <3>1. e + 1 \in 1 .. EdgeCount /\ (e + 1) - 1 = e
      BY <1>1
    <3>2. order'[e + 1] = e
      BY <1>2, <3>1
    <3> QED
      BY <2>2, <3>1, <3>2 DEF Range
  <2> QED
    BY <1>1, <2>2, <2>3, <2>4 DEF GoodOrder, IsOrder
<1>3. order' \in Seq(Nat)
  BY <1>2, GraphSpacesAssumption
<1>4. Types'
  BY <1>3 DEF GInv, Types, Vertex, Stages, graph_vars, bfs_vars, map_vars
<1>5. Progress'
  BY DEF GInv, Progress, bfs_vars, map_vars, Validated
<1>6. Ordered' /\ Searching' /\ Mapped'
  BY <1>2 DEF Ordered, Searching, Mapped
<1>7. Reading' /\ Underway' /\ AcceptsExactly' /\ MapsInverse'
  BY <1>1, <1>4, <1>6, KeepsGraph
<1> QED
  BY <1>4, <1>5, <1>6, <1>7 DEF GInv

\* An order that nobody validates is still some graph's.
LEMMA TrustOrderStep == GInv /\ TrustOrder => GInv'
<1> SUFFICES ASSUME GInv, TrustOrder
             PROVE  GInv'
  OBVIOUS
<1> USE DEF TrustOrder
<1>1. UNCHANGED graph_vars /\ EdgeCount = Len(input) /\ stage' # "done" /\ outcome' = outcome /\ stage # "done"
  BY DEF GInv, Reading
<1>2. order' \in Seq(Nat) /\ IsOrder(order')
  BY GraphSpacesAssumption
<1>3. Types'
  BY <1>2 DEF GInv, Types, Vertex, Stages, graph_vars, bfs_vars, map_vars
<1>4. Progress'
  BY DEF GInv, Progress, bfs_vars, map_vars, Validated
<1>5. Ordered' /\ Searching' /\ Mapped'
  BY <1>2 DEF Ordered, Searching, Mapped
<1>6. Reading' /\ Underway' /\ AcceptsExactly' /\ MapsInverse'
  BY <1>1, <1>3, <1>5, KeepsGraph
<1> QED
  BY <1>3, <1>4, <1>5, <1>6 DEF GInv

\* The error of a strategy is passed on.
LEMMA FailOrderingStep == GInv /\ FailOrdering => GInv'
<1> SUFFICES ASSUME GInv, FailOrdering
             PROVE  GInv'
  OBVIOUS
<1>1. stage' = "done" /\ strategy' = "failed" /\ outcome'.kind = "ordering_error"
  BY DEF FailOrdering, Return, Outcome
<1>2. /\ Types' /\ Progress' /\ Reading' /\ Ordered' /\ Searching' /\ Mapped'
      /\ IsSimple(edges)'
  BY <1>1, Returning DEF FailOrdering
<1>3. edges' = edges /\ input' = input /\ EdgeCount' = EdgeCount /\ edges = input
  BY EverythingRead DEF GInv, Reading, FailOrdering, graph_vars, EdgeCount
<1>4. AcceptsExactly'
  BY <1>1, <1>2, <1>3 DEF AcceptsExactly
<1>5. MapsInverse'
  BY <1>1 DEF MapsInverse
<1> QED
  BY <1>2, <1>4, <1>5 DEF GInv

\* Nothing has been visited, and nothing has been emitted.
LEMMA StartBfsStep == GInv /\ StartBfs => GInv'
<1> SUFFICES ASSUME GInv, StartBfs
             PROVE  GInv'
  OBVIOUS
<1> USE DEF StartBfs
<1>1. UNCHANGED graph_vars /\ EdgeCount = Len(input) /\ stage' # "done" /\ outcome' = outcome /\ stage # "done"
  BY DEF GInv, Reading
<1>2. Types'
  BY DEF GInv, Types, Vertex, Stages, graph_vars, bfs_vars, map_vars
<1>3. Progress'
  BY DEF GInv, Progress, map_vars
<1>4. order' = << >> /\ visited' = {}
  BY DEF GInv, Progress, bfs_vars
<1>5. Searching'
  BY <1>4 DEF Searching, IsInjective, Range
<1>6. Ordered' /\ Mapped'
  BY DEF Ordered, Mapped
<1>7. Reading' /\ Underway' /\ AcceptsExactly' /\ MapsInverse'
  BY <1>1, <1>2, <1>6, KeepsGraph
<1> QED
  BY <1>2, <1>3, <1>5, <1>6, <1>7 DEF GInv

\* The first vertex of a component.
LEMMA StartComponentStep == GInv /\ StartComponent => GInv'
<1> SUFFICES ASSUME GInv, StartComponent
             PROVE  GInv'
  OBVIOUS
<1>1. /\ UNCHANGED graph_vars /\ EdgeCount = Len(input) /\ stage' # "done" /\ outcome' = outcome /\ stage # "done"
      /\ EdgeCount' = EdgeCount
  BY DEF GInv, Reading, StartComponent, graph_vars, EdgeCount
<1>2. PICK root : root = Min(Vertex \ visited)
  OBVIOUS
<1>3. visited' = visited \union {root} /\ queue' = <<root>> /\ queue = << >>
  BY <1>2 DEF StartComponent
<1>4. root \in Vertex
  <2>3. visited \subseteq Vertex /\ visited # Vertex
    BY DEF GInv, Types, StartComponent
  <2>4. Vertex \subseteq Nat
    BY GraphSpacesAssumption DEF Vertex
  <2>1. Vertex \ visited \in SUBSET Nat /\ Vertex \ visited # {}
    BY <2>3, <2>4
  <2>2. Min(Vertex \ visited) \in Vertex \ visited
    BY <2>1, MinProperties
  <2> QED
    BY <1>2, <2>2
<1>5. queue' \in Seq(Vertex) /\ Range(queue') = {root} /\ Range(queue) = {}
  <2>1. DOMAIN <<root>> = {1} /\ <<root>>[1] = root /\ DOMAIN << >> = {}
    OBVIOUS
  <2>2. Range(<<root>>) = {root} /\ Range(<< >>) = {}
    BY <2>1, Zenon DEF Range
  <2> QED
    BY <1>3, <1>4, <2>2
<1>6. Types'
  BY <1>3, <1>4, <1>5 DEF GInv, Types, StartComponent, Vertex, Stages, graph_vars, map_vars
<1>7. Progress'
  BY DEF GInv, Progress, StartComponent, map_vars, graph_vars
<1>8. Searching'
  <2>1. stage = "bfs" /\ order' = order /\ edges' = edges
    BY DEF StartComponent, graph_vars
  <2>2. ASSUME NEW e \in 0 .. EdgeCount - 1, NEW v \in Ends(e), v \in visited', v \notin Range(queue')
        PROVE  e \in Range(order)
    <3>1. v \in visited /\ v \notin Range(queue)
      BY <1>3, <1>5, <2>2
    <3> QED
      BY <2>1, <3>1 DEF GInv, Searching
  <2>3. \A e : Ends(e)' = Ends(e)
    BY <2>1 DEF Ends
  <2> QED
    BY <1>1, <2>1, <2>2, <2>3 DEF GInv, Searching
<1>9. Ordered' /\ Mapped'
  BY DEF Ordered, Mapped, StartComponent
<1>10. Reading' /\ Underway' /\ AcceptsExactly' /\ MapsInverse'
  BY <1>1, <1>6, <1>9, KeepsGraph
<1> QED
  BY <1>6, <1>7, <1>8, <1>9, <1>10 DEF GInv

\* The search is through with one more vertex, all of whose edges are out.
LEMMA VisitVertexStep == GInv /\ VisitVertex => GInv'
<1> SUFFICES ASSUME GInv, VisitVertex
             PROVE  GInv'
  OBVIOUS
<1>1. /\ UNCHANGED graph_vars /\ EdgeCount = Len(input) /\ stage' # "done" /\ outcome' = outcome /\ stage # "done"
      /\ EdgeCount' = EdgeCount /\ edges' = edges
  BY DEF GInv, Reading, VisitVertex, graph_vars, EdgeCount
<1>2. PICK v : v = Head(queue)
  OBVIOUS
<1>3. PICK rest : rest = Tail(queue)
  OBVIOUS
<1>4. v \in Vertex /\ rest \in Seq(Vertex) /\ Range(queue) = {v} \union Range(rest)
  <2>1. queue \in Seq(Vertex) /\ queue # << >>
    BY DEF GInv, Types, VisitVertex
  <2>2. Head(queue) \in Vertex /\ Tail(queue) \in Seq(Vertex)
        /\ Len(Tail(queue)) = Len(queue) - 1 /\ \A i \in 1 .. Len(Tail(queue)) : Tail(queue)[i] = queue[i + 1]
    BY <2>1, HeadTailProperties
  <2>3. DOMAIN rest = 1 .. Len(queue) - 1 /\ DOMAIN queue = 1 .. Len(queue) /\ Len(queue) \in Nat
    BY <1>3, <2>1, <2>2, LenProperties
  <2>4. v = queue[1] /\ 1 \in 1 .. Len(queue)
    BY <1>2, <2>1
  <2>5. Range(rest) \subseteq Range(queue) /\ v \in Range(queue)
    <3>1. \A i \in DOMAIN rest : i + 1 \in DOMAIN queue /\ rest[i] = queue[i + 1]
      BY <1>3, <2>2, <2>3
    <3> QED
      BY <2>3, <2>4, <3>1 DEF Range
  <2>6. ASSUME NEW i \in DOMAIN queue, i # 1
        PROVE  queue[i] \in Range(rest)
    <3>1. i - 1 \in DOMAIN rest /\ (i - 1) + 1 = i
      BY <2>3, <2>6
    <3>2. rest[i - 1] = queue[i]
      BY <1>3, <2>2, <2>3, <3>1
    <3> QED
      BY <3>1, <3>2 DEF Range
  <2>7. \A i \in DOMAIN queue : queue[i] \in {v} \union Range(rest)
    BY <2>4, <2>6
  <2>8. Range(queue) \subseteq {v} \union Range(rest)
    BY <2>7 DEF Range
  <2> QED
    BY <1>2, <1>3, <2>2, <2>5, <2>8
<1>5. PICK more : more = NotYet(Incident(v), Range(order))
  OBVIOUS
<1>6. PICK found : found = NotYet(Neighbors(v), visited)
  OBVIOUS
<1>7. PICK near : near = Range(Neighbors(v))
  OBVIOUS
<1>8. order' = order \o more /\ queue' = rest \o found /\ visited' = visited \union near /\ stage = "bfs" /\ stage' = "bfs"
  BY <1>2, <1>3, <1>5, <1>6, <1>7 DEF VisitVertex
<1>9. EdgeCount \in Nat /\ 0 .. EdgeCount - 1 \subseteq Nat /\ Types /\ IsSimple(edges)
  BY LenProperties DEF GInv, Types, EdgeCount, Reading
<1>10. /\ more \in Seq(Nat) /\ Range(more) = {e \in 0 .. EdgeCount - 1 : v \in Ends(e)} \ Range(order)
       /\ IsInjective(more)
  <2>1. /\ Incident(v) \in Seq(0 .. EdgeCount - 1)
        /\ Range(Incident(v)) = {e \in 0 .. EdgeCount - 1 : v \in Ends(e)}
        /\ IsInjective(Incident(v))
    BY <1>4, <1>9, IncidentProperties
  <2>2. /\ more \in Seq(0 .. EdgeCount - 1)
        /\ Range(more) = Range(Incident(v)) \ Range(order)
        /\ IsInjective(more)
    BY <1>5, <2>1, NotYetProperties
  <2>3. more \in Seq(Nat)
    BY <1>9, <2>2, SeqMonotonic
  <2> QED
    BY <2>1, <2>2, <2>3
<1>11. found \in Seq(Vertex) /\ Range(found) = near \ visited /\ near \subseteq Vertex
  <2>1. Neighbors(v) \in Seq(Vertex)
    BY <1>4, <1>9, NeighborsAreVertices
  <2>2. found \in Seq(Vertex) /\ Range(found) = Range(Neighbors(v)) \ visited
    BY <1>6, <2>1, NotYetProperties
  <2>3. Range(Neighbors(v)) \subseteq Vertex
    BY <2>1 DEF Range
  <2> QED
    BY <1>7, <2>2, <2>3
<1>12. queue' \in Seq(Vertex) /\ Range(queue') = Range(rest) \union (near \ visited)
  BY <1>4, <1>8, <1>11, ConcatRange
<1>13. /\ order \in Seq(Nat) /\ IsInjective(order) /\ Range(order) \subseteq 0 .. EdgeCount - 1
       /\ \A e \in 0 .. EdgeCount - 1 : \A w \in Ends(e) :
            w \in visited /\ w \notin Range(queue) => e \in Range(order)
  BY <1>8 DEF GInv, Types, Searching
<1>14. order' \in Seq(Nat) /\ Range(order') = Range(order) \union Range(more) /\ IsInjective(order')
  BY <1>8, <1>10, <1>13, ConcatRange
<1>15. Types'
  <2>1. visited' \subseteq Vertex /\ Range(queue') \subseteq visited'
    BY <1>4, <1>8, <1>11, <1>12 DEF GInv, Types
  <2> QED
    BY <1>12, <1>14, <2>1 DEF GInv, Types, VisitVertex, Vertex, Stages, graph_vars, map_vars
<1>16. Progress'
  BY DEF GInv, Progress, VisitVertex, map_vars, graph_vars
<1>17. Searching'
  <2>1. ASSUME NEW e \in 0 .. EdgeCount - 1, NEW w \in Ends(e), w \in visited', w \notin Range(queue')
        PROVE  e \in Range(order')
    <3>1. w \in visited /\ w \notin Range(rest)
      BY <1>8, <1>12, <2>1
    <3>2. CASE w = v
      BY <1>10, <1>14, <3>2
    <3>3. CASE w # v
      <4>1. w \notin Range(queue)
        BY <1>4, <3>1, <3>3
      <4> QED
        BY <1>13, <1>14, <3>1, <4>1
    <3> QED
      BY <3>2, <3>3
  <2>2. \A e : Ends(e)' = Ends(e)
    BY <1>1 DEF Ends
  <2>3. Range(order') \subseteq 0 .. EdgeCount - 1
    BY <1>10, <1>13, <1>14
  <2> QED
    BY <1>1, <1>14, <2>1, <2>2, <2>3 DEF Searching
<1>18. Ordered' /\ Mapped'
  BY <1>8 DEF Ordered, Mapped
<1>19. Reading' /\ Underway' /\ AcceptsExactly' /\ MapsInverse'
  BY <1>1, <1>15, <1>18, KeepsGraph
<1> QED
  BY <1>15, <1>16, <1>17, <1>18, <1>19 DEF GInv

\* When every vertex is done, every edge is out, once.
LEMMA FinishBfsStep == GInv /\ FinishBfs => GInv'
<1> SUFFICES ASSUME GInv, FinishBfs
             PROVE  GInv'
  OBVIOUS
<1>1. /\ UNCHANGED graph_vars /\ EdgeCount = Len(input) /\ stage' # "done" /\ outcome' = outcome /\ stage # "done"
      /\ EdgeCount' = EdgeCount /\ order' = order /\ stage = "bfs" /\ stage' = "validate"
      /\ EdgeCount \in Nat
  BY LenProperties DEF GInv, Types, Reading, FinishBfs, graph_vars, EdgeCount
<1>2. queue = << >> /\ visited = Vertex /\ Range(queue) = {}
  BY DEF FinishBfs, Range
<1>3. ASSUME NEW e \in 0 .. EdgeCount - 1
      PROVE  e \in Range(order)
  <2>1. Ends(e) \subseteq Vertex
    BY EndsAreVertices DEF GInv
  <2>2. edges[e + 1][1] \in Ends(e)
    BY DEF Ends
  <2> QED
    BY <1>1, <1>2, <2>1, <2>2 DEF GInv, Searching
<1>4. order \in Seq(Nat) /\ IsInjective(order) /\ Range(order) = 0 .. EdgeCount - 1
  BY <1>1, <1>3 DEF GInv, Types, Searching
<1>5. Len(order) = EdgeCount
  BY <1>1, <1>4, OrderProperties
<1>6. GoodOrder'
  BY <1>1, <1>4, <1>5 DEF GoodOrder, IsOrder
<1>7. Types'
  BY DEF GInv, Types, FinishBfs, Vertex, Stages, graph_vars, map_vars, bfs_vars
<1>8. Progress'
  BY DEF GInv, Progress, FinishBfs, map_vars, Validated
<1>9. Ordered' /\ Searching' /\ Mapped'
  BY <1>1, <1>6 DEF Ordered, Searching, Mapped
<1>10. Reading' /\ Underway' /\ AcceptsExactly' /\ MapsInverse'
  BY <1>1, <1>7, <1>9, KeepsGraph
<1> QED
  BY <1>7, <1>8, <1>9, <1>10 DEF GInv

\* An order of all edges has no bad entry, and a list without one is an order.
LEMMA Validation ==
  ASSUME Types
  PROVE  OrderError = {} <=> GoodOrder
<1>1. /\ order \in Seq(Nat) /\ EdgeCount \in Nat /\ Len(order) \in Nat /\ DOMAIN order = 1 .. Len(order)
      /\ \A i \in DOMAIN order : order[i] \in Nat
  BY LenProperties, ElementOfSeq DEF Types, EdgeCount
<1>2. ASSUME GoodOrder
      PROVE  OrderError = {}
  <2>1. IsInjective(order) /\ Range(order) = 0 .. EdgeCount - 1 /\ Len(order) = EdgeCount
    BY <1>1, <1>2, OrderProperties DEF GoodOrder, IsOrder
  <2>2. ASSUME NEW i \in DOMAIN order
        PROVE  ~BadEntry(i)
    <3>1. order[i] < EdgeCount
      BY <1>1, <2>1 DEF Range
    <3>2. \A j \in 1 .. i - 1 : j \in DOMAIN order /\ j # i
      BY <1>1
    <3>3. \A j \in 1 .. i - 1 : order[j] # order[i]
      BY <2>1, <3>2 DEF IsInjective
    <3> QED
      BY <1>1, <3>1, <3>3 DEF BadEntry
  <2>3. {i \in DOMAIN order : BadEntry(i) /\ \A j \in 1 .. i - 1 : ~BadEntry(j)} = {}
    BY <2>2
  <2> QED
    BY <2>1, <2>3 DEF OrderError
<1>3. ASSUME OrderError = {}
      PROVE  GoodOrder
  <2>1. Len(order) = EdgeCount
    BY <1>3 DEF OrderError
  <2>2. PICK Firsts : Firsts = {i \in DOMAIN order : BadEntry(i) /\ \A j \in 1 .. i - 1 : ~BadEntry(j)}
    OBVIOUS
  <2>3. {Outcome(IF order[i] >= EdgeCount THEN "invalid_edge" ELSE "duplicate_ordered_edge", <<order[i]>>) :
           i \in Firsts} = {}
    BY <1>3, <2>1, <2>2 DEF OrderError
  <2>4. Firsts = {}
    BY <2>3
  <2>5. PICK Bad : Bad = {i \in DOMAIN order : BadEntry(i)}
    OBVIOUS
  <2>6. Bad = {}
    <3> SUFFICES ASSUME Bad # {}
                 PROVE  FALSE
      OBVIOUS
    <3>1. Bad \in SUBSET Nat
      BY <1>1, <2>5
    <3>2. PICK b \in Bad : \A i \in Bad : b =< i
      BY <3>1, MinExists
    <3>3. b \in DOMAIN order /\ BadEntry(b) /\ b \in 1 .. Len(order)
      BY <1>1, <2>5, <3>2
    <3>4. ASSUME NEW j \in 1 .. b - 1
          PROVE  ~BadEntry(j)
      <4>1. j \in DOMAIN order /\ ~(b =< j)
        BY <1>1, <3>3
      <4> QED
        BY <2>5, <3>2, <4>1
    <3>5. b \in Firsts
      BY <2>2, <3>3, <3>4
    <3> QED
      BY <2>4, <3>5
  <2>7. \A i \in DOMAIN order : order[i] < EdgeCount /\ \A j \in 1 .. i - 1 : order[i] # order[j]
    <3> TAKE i \in DOMAIN order
    <3>1. ~BadEntry(i)
      BY <2>5, <2>6
    <3> QED
      BY <1>1, <3>1 DEF BadEntry
  <2>8. IsInjective(order)
    <3> SUFFICES ASSUME NEW i \in DOMAIN order, NEW j \in DOMAIN order, order[i] = order[j], i < j
                 PROVE  FALSE
      BY <1>1 DEF IsInjective
    <3>1. i \in 1 .. j - 1
      BY <1>1
    <3> QED
      BY <2>7, <3>1
  <2>9. Range(order) \subseteq 0 .. EdgeCount - 1
    BY <1>1, <2>7 DEF Range
  <2>10. IsOrder(order)
    BY <1>1, <2>1, <2>8, <2>9, OrderProperties
  <2> QED
    BY <2>1, <2>10 DEF GoodOrder
<1> QED
  BY <1>2, <1>3

\* What passes validation is an order of all edges.
LEMMA AcceptOrderStep == GInv /\ AcceptOrder => GInv'
<1> SUFFICES ASSUME GInv, AcceptOrder
             PROVE  GInv'
  OBVIOUS
<1>1. /\ UNCHANGED graph_vars /\ EdgeCount = Len(input) /\ stage' # "done" /\ outcome' = outcome /\ stage # "done"
      /\ EdgeCount' = EdgeCount /\ order' = order /\ stage' = "create"
  BY DEF GInv, Reading, AcceptOrder, graph_vars, EdgeCount
<1>2. GoodOrder
  BY Validation DEF GInv, AcceptOrder
<1>3. GoodOrder'
  BY <1>1, <1>2 DEF GoodOrder
<1>4. Types'
  BY DEF GInv, Types, AcceptOrder, Vertex, Stages, graph_vars, map_vars, bfs_vars
<1>5. Progress'
  BY DEF GInv, Progress, AcceptOrder, map_vars
<1>6. Ordered' /\ Searching' /\ Mapped'
  BY <1>1, <1>3 DEF Ordered, Searching, Mapped, GoodOrder
<1>7. Reading' /\ Underway' /\ AcceptsExactly' /\ MapsInverse'
  BY <1>1, <1>4, <1>6, KeepsGraph
<1> QED
  BY <1>4, <1>5, <1>6, <1>7 DEF GInv

\* Only a list of the caller is refused, and only when it is no order.
LEMMA RefuseOrderStep == GInv /\ RefuseOrder => GInv'
<1> SUFFICES ASSUME GInv, RefuseOrder
             PROVE  GInv'
  OBVIOUS
<1>1. PICK error \in OrderError : stage' = "done" /\ outcome' = error
  BY DEF RefuseOrder, Return
<1>2. /\ Types' /\ Progress' /\ Reading' /\ Ordered' /\ Searching' /\ Mapped'
      /\ IsSimple(edges)'
  BY <1>1, Returning DEF RefuseOrder
<1>3. ~GoodOrder
  BY <1>1, Validation DEF GInv
<1>4. strategy = "listed" /\ EdgeCount = Len(input)
  BY <1>3 DEF GInv, Progress, Ordered, Validated, RefuseOrder, Reading
<1>5. error.kind \in {"invalid_edge_order_length", "invalid_edge", "duplicate_ordered_edge"}
  <2>1. CASE Len(order) # EdgeCount
    BY <1>1, <2>1 DEF OrderError, Outcome
  <2>2. CASE Len(order) = EdgeCount
    <3>1. PICK i : error = Outcome(IF order[i] >= EdgeCount THEN "invalid_edge" ELSE "duplicate_ordered_edge", <<order[i]>>)
      BY <1>1, <2>2 DEF OrderError
    <3>2. \A k, n : Outcome(k, n).kind = k
      BY DEF Outcome
    <3> QED
      BY <3>1, <3>2
  <2> QED
    BY <2>1, <2>2
<1>6. /\ EdgeCount' = EdgeCount /\ order' = order /\ strategy' = strategy /\ outcome'.kind = error.kind
      /\ edges' = edges /\ input' = input
  BY <1>1 DEF RefuseOrder, graph_vars, EdgeCount
<1>7. (~GoodOrder)'
  BY <1>3, <1>6 DEF GoodOrder
<1>8. AcceptsExactly'
  <2>1. edges = input
    BY <1>4, EverythingRead DEF GInv
  <2> QED
    BY <1>1, <1>2, <1>4, <1>5, <1>6, <1>7, <2>1 DEF AcceptsExactly, GoodOrder
<1>9. MapsInverse'
  BY <1>5, <1>6, <1>7 DEF MapsInverse, GoodOrder
<1> QED
  BY <1>2, <1>8, <1>9 DEF GInv

\* The node limit refuses the space.
LEMMA RefuseSpaceStep == GInv /\ RefuseSpace => GInv'
<1> SUFFICES ASSUME GInv, RefuseSpace
             PROVE  GInv'
  OBVIOUS
<1>1. stage' = "done" /\ outcome'.kind = "node_limit"
  BY DEF RefuseSpace, Return, Outcome
<1>2. /\ Types' /\ Progress' /\ Reading' /\ Ordered' /\ Searching' /\ Mapped'
      /\ IsSimple(edges)'
  BY <1>1, Returning DEF RefuseSpace
<1>3. edges' = edges /\ input' = input /\ EdgeCount' = EdgeCount /\ edges = input
  BY EverythingRead DEF GInv, Reading, RefuseSpace, graph_vars, EdgeCount
<1>4. AcceptsExactly'
  BY <1>1, <1>2, <1>3 DEF AcceptsExactly
<1>5. MapsInverse'
  BY <1>1 DEF MapsInverse
<1> QED
  BY <1>2, <1>4, <1>5 DEF GInv

\* The space is there and its maps are empty.
LEMMA CreateSpaceStep == GInv /\ CreateSpace => GInv'
<1> SUFFICES ASSUME GInv, CreateSpace
             PROVE  GInv'
  OBVIOUS
<1>1. /\ UNCHANGED graph_vars /\ EdgeCount = Len(input) /\ stage' # "done" /\ outcome' = outcome /\ stage # "done"
      /\ EdgeCount' = EdgeCount /\ order' = order /\ stage' = "map" /\ stage = "create" /\ strategy' = strategy
  BY DEF GInv, Reading, CreateSpace, graph_vars, EdgeCount
<1>2. Types'
  BY DEF GInv, Types, CreateSpace, Vertex, Stages, graph_vars, map_vars, bfs_vars
<1>3. Progress'
  BY DEF GInv, Progress, CreateSpace, map_vars
<1>4. Ordered' /\ Searching'
  BY <1>1 DEF GInv, Ordered, Searching, GoodOrder
<1>5. Mapped'
  <2>1. /\ edge_to_variable' = Unmapped /\ variable_to_edge' = << >>
        /\ EdgeCount \in Nat /\ Len(order) \in Nat
    BY <1>1, LenProperties DEF GInv, Types, Progress, CreateSpace, map_vars, EdgeCount
  <2>2. Level' = 0 /\ DOMAIN Unmapped = {} /\ 1 .. 0 = {}
    BY <2>1 DEF Level, Unmapped
  <2> QED
    BY <1>1, <2>1, <2>2 DEF Mapped
<1>6. Reading' /\ Underway' /\ AcceptsExactly' /\ MapsInverse'
  BY <1>1, <1>2, <1>4, KeepsGraph
<1> QED
  BY <1>2, <1>3, <1>4, <1>5, <1>6 DEF GInv

\* The list of the order has more entries than the graph has edges.
LEMMA RefuseLevelStep == GInv /\ RefuseLevel => GInv'
<1> SUFFICES ASSUME GInv, RefuseLevel
             PROVE  GInv'
  OBVIOUS
<1>1. stage' = "done" /\ outcome'.kind = "invalid_element"
  BY DEF RefuseLevel, Return, Outcome
<1>2. /\ Types' /\ Progress' /\ Reading' /\ Ordered' /\ Searching' /\ Mapped'
      /\ IsSimple(edges)'
  BY <1>1, Returning DEF RefuseLevel
<1>3. /\ edges' = edges /\ input' = input /\ EdgeCount' = EdgeCount /\ edges = input /\ order' = order
      /\ EdgeCount \in Nat /\ Len(order) \in Nat /\ Level \in Nat
  BY EverythingRead, LenProperties DEF GInv, Types, Reading, RefuseLevel, Mapping, graph_vars, EdgeCount, Level
<1>4. Len(order) # EdgeCount
  BY <1>3 DEF RefuseLevel, Mapping
<1>5. AcceptsExactly'
  BY <1>1, <1>2, <1>3 DEF AcceptsExactly
<1>6. MapsInverse'
  BY <1>1, <1>3, <1>4 DEF MapsInverse
<1> QED
  BY <1>2, <1>5, <1>6 DEF GInv

\* Only an order of a larger graph names an edge that is not there.
LEMMA PanicStep == GInv /\ Panic => GInv'
<1> SUFFICES ASSUME GInv, Panic
             PROVE  GInv'
  OBVIOUS
<1>1. stage' = "done" /\ outcome'.kind = "panic" /\ stage = "map"
  BY DEF Panic, Return, Outcome, Mapping
<1>2. /\ Types' /\ Progress' /\ Reading' /\ Ordered' /\ Searching' /\ Mapped'
      /\ IsSimple(edges)'
  BY <1>1, Returning DEF Panic
<1>3. /\ edges' = edges /\ input' = input /\ EdgeCount' = EdgeCount /\ edges = input /\ order' = order /\ strategy' = strategy
      /\ EdgeCount \in Nat /\ Len(order) \in Nat /\ Level \in Nat
      /\ DOMAIN order = 1 .. Len(order)
  BY <1>1, EverythingRead, LenProperties DEF GInv, Types, Reading, Panic, graph_vars, EdgeCount, Level
<1>4. order[Level + 1] \in Range(order) /\ order[Level + 1] >= EdgeCount
  <2>1. Level + 1 \in DOMAIN order
    BY <1>3 DEF Panic, Mapping
  <2> QED
    BY <2>1 DEF Range, Panic
<1>5. order[Level + 1] \in 0 .. Len(order) - 1
  BY <1>1, <1>4 DEF GInv, Ordered, IsOrder
<1>6. Len(order) > EdgeCount /\ Len(order) # EdgeCount
  <2>1. PICK x : x = order[Level + 1]
    OBVIOUS
  <2>2. x \in 0 .. Len(order) - 1 /\ x >= EdgeCount
    BY <1>4, <1>5, <2>1
  <2>3. EdgeCount \in Nat /\ Len(order) \in Nat
    BY <1>3
  <2>4. x < Len(order) /\ x \in Nat
    BY <2>2, <2>3
  <2> QED
    BY <2>2, <2>3, <2>4
<1>7. AcceptsExactly'
  BY <1>1, <1>2, <1>3 DEF AcceptsExactly
<1>8. MapsInverse'
  BY <1>1, <1>3, <1>6 DEF MapsInverse
<1> QED
  BY <1>2, <1>7, <1>8 DEF GInv

\* One more edge has its variable.
LEMMA MapEdgeStep == GInv /\ MapEdge => GInv'
<1> SUFFICES ASSUME GInv, MapEdge
             PROVE  GInv'
  OBVIOUS
<1>1. /\ UNCHANGED graph_vars /\ EdgeCount = Len(input) /\ stage' # "done" /\ outcome' = outcome /\ stage # "done"
      /\ EdgeCount' = EdgeCount /\ order' = order /\ stage' = "map" /\ stage = "map" /\ strategy' = strategy
  BY DEF GInv, Reading, MapEdge, Mapping, graph_vars, EdgeCount
<1>2. /\ EdgeCount \in Nat /\ Len(order) \in Nat /\ Level \in Nat /\ Level < EdgeCount /\ Level < Len(order)
      /\ order \in Seq(Nat) /\ DOMAIN order = 1 .. Len(order)
  BY <1>1, LenProperties DEF GInv, Types, MapEdge, Mapping, EdgeCount, Level
<1>3. PICK e : e = order[Level + 1]
  OBVIOUS
<1>4. PICK old : old = variable_to_edge
  OBVIOUS
<1>5. PICK n : n = Level
  OBVIOUS
<1>6. e \in Nat /\ e < EdgeCount /\ n + 1 \in 1 .. Len(order)
  <2>1. Level + 1 \in 1 .. Len(order)
    BY <1>2
  <2> QED
    BY <1>2, <1>3, <1>5, <2>1, ElementOfSeq DEF MapEdge
<1>7. /\ variable_to_edge' \in Seq(Nat) /\ Len(variable_to_edge') = n + 1
      /\ variable_to_edge'[n + 1] = e /\ \A i \in 1 .. n : variable_to_edge'[i] = variable_to_edge[i]
  <2>1. variable_to_edge \in Seq(Nat) /\ Len(variable_to_edge) = n /\ variable_to_edge' = Append(variable_to_edge, e)
    BY <1>3, <1>5 DEF GInv, Types, Level, MapEdge
  <2> QED
    BY <1>6, <2>1, AppendProperties
<1>8. Types'
  BY <1>7 DEF GInv, Types, MapEdge, Vertex, Stages, graph_vars, bfs_vars
<1>9. Progress'
  BY <1>1 DEF GInv, Progress, MapEdge
<1>10. Ordered' /\ Searching'
  BY <1>1 DEF GInv, Ordered, Searching, GoodOrder
<1>11. IsInjective(order)
  BY <1>1, <1>2, OrderProperties DEF GInv, Ordered
<1>12. Mapped'
  <2>1. Level' = n + 1 /\ n + 1 <= EdgeCount /\ n + 1 <= Len(order) /\ n \in Nat
    BY <1>2, <1>5, <1>7 DEF Level
  <2>2. /\ DOMAIN edge_to_variable = {order[i] : i \in 1 .. n}
        /\ \A i \in 1 .. n : /\ edge_to_variable[order[i]] = i - 1
                             /\ variable_to_edge[i] = order[i] /\ order[i] < EdgeCount
    BY <1>1, <1>5 DEF GInv, Mapped
  <2>3. ASSUME NEW i \in 1 .. n + 1
        PROVE  variable_to_edge'[i] = order[i] /\ order[i] < EdgeCount
    <3>1. CASE i = n + 1
      BY <1>3, <1>5, <1>6, <1>7, <3>1
    <3>2. CASE i \in 1 .. n
      BY <1>7, <2>2, <3>2
    <3> QED
      BY <2>1, <3>1, <3>2
  <2>4. DOMAIN (edge_to_variable') = DOMAIN edge_to_variable \union {e}
    BY <1>3 DEF MapEdge
  <2>5. 1 .. n + 1 = (1 .. n) \union {n + 1}
    BY <2>1
  <2>6. DOMAIN (edge_to_variable') = {order[i] : i \in 1 .. n + 1}
    BY <1>3, <1>5, <2>2, <2>4, <2>5
  <2>7. ASSUME NEW i \in 1 .. n + 1
        PROVE  edge_to_variable'[order[i]] = i - 1
    <3>1. edge_to_variable' = [x \in DOMAIN edge_to_variable \union {e} |-> IF x = e THEN n ELSE edge_to_variable[x]]
      BY <1>3, <1>5 DEF MapEdge
    <3>2. CASE i = n + 1
      <4>1. order[i] = e
        BY <1>3, <1>5, <3>2
      <4> QED
        BY <2>1, <3>1, <3>2, <4>1
    <3>3. CASE i \in 1 .. n
      <4>1. i \in DOMAIN order /\ n + 1 \in DOMAIN order /\ i # n + 1
        BY <1>2, <2>1, <3>3
      <4>2. order[i] # e
        BY <1>3, <1>5, <1>11, <4>1 DEF IsInjective
      <4>3. order[i] \in DOMAIN edge_to_variable /\ edge_to_variable[order[i]] = i - 1
        BY <2>2, <3>3
      <4> QED
        BY <3>1, <4>2, <4>3
    <3> QED
      BY <2>5, <3>2, <3>3
  <2> QED
    BY <1>1, <2>1, <2>3, <2>6, <2>7 DEF Mapped
<1>13. Reading' /\ Underway' /\ AcceptsExactly' /\ MapsInverse'
  BY <1>1, <1>8, <1>10, KeepsGraph
<1> QED
  BY <1>8, <1>9, <1>10, <1>12, <1>13 DEF GInv

\* The maps of a finished space are inverse, and the order of an accepted
\* strategy finishes it.
LEMMA FinishSpaceStep == GInv /\ FinishSpace => GInv'
<1> SUFFICES ASSUME GInv, FinishSpace
             PROVE  GInv'
  OBVIOUS
<1>1. /\ stage' = "done" /\ stage = "map" /\ Level = Len(order)
      /\ outcome' = IF DOMAIN edge_to_variable = 0 .. EdgeCount - 1
                    THEN Outcome("ok", << >>) ELSE Outcome("capacity_overflow", << >>)
  BY DEF FinishSpace, Return
<1>2. /\ Types' /\ Progress' /\ Reading' /\ Ordered' /\ Searching' /\ Mapped'
      /\ IsSimple(edges)'
  BY <1>1, Returning DEF FinishSpace
<1>3. /\ edges' = edges /\ input' = input /\ EdgeCount' = EdgeCount /\ edges = input /\ order' = order
      /\ edge_to_variable' = edge_to_variable /\ variable_to_edge' = variable_to_edge
  BY <1>1, EverythingRead DEF GInv, Reading, FinishSpace, graph_vars, map_vars, EdgeCount
<1>4. /\ EdgeCount \in Nat /\ Len(order) \in Nat /\ order \in Seq(Nat) /\ DOMAIN order = 1 .. Len(order)
      /\ DOMAIN edges = 1 .. EdgeCount
  BY LenProperties DEF GInv, Types, EdgeCount
<1>5. /\ DOMAIN edge_to_variable = {order[i] : i \in 1 .. Len(order)}
      /\ \A i \in 1 .. Len(order) : /\ edge_to_variable[order[i]] = i - 1
                                    /\ variable_to_edge[i] = order[i] /\ order[i] < EdgeCount
      /\ Len(variable_to_edge) = Len(order)
      /\ IsOrder(order)
  BY <1>1 DEF GInv, Mapped, Ordered, Level
<1>6. DOMAIN edge_to_variable = Range(order)
  BY <1>4, <1>5 DEF Range
<1>7. outcome'.kind \in {"ok", "capacity_overflow"}
      /\ (outcome'.kind = "ok" <=> DOMAIN edge_to_variable = 0 .. EdgeCount - 1)
  BY <1>1 DEF Outcome
<1>8. AcceptsExactly'
  BY <1>1, <1>2, <1>3, <1>7 DEF AcceptsExactly
<1>9. ASSUME DOMAIN edge_to_variable = 0 .. EdgeCount - 1
      PROVE  /\ Len(variable_to_edge) = EdgeCount
             /\ \A e \in 0 .. EdgeCount - 1 : variable_to_edge[edge_to_variable[e] + 1] = e
             /\ IsSimple([i \in 1 .. EdgeCount |-> edges[variable_to_edge[i] + 1]])
  <2>1. IsInjective(order)
    BY <1>4, <1>5, OrderProperties
  <2>2. Len(order) = EdgeCount
    BY <1>4, <1>6, <1>9, <2>1, OrderProperties
  <2>3. ASSUME NEW e \in 0 .. EdgeCount - 1
        PROVE  variable_to_edge[edge_to_variable[e] + 1] = e
    <3>1. PICK i \in 1 .. Len(order) : e = order[i]
      BY <1>4, <1>6, <1>9 DEF Range
    <3>2. edge_to_variable[e] = i - 1 /\ (i - 1) + 1 = i /\ variable_to_edge[i] = order[i]
      BY <1>4, <1>5, <3>1
    <3> QED
      BY <3>1, <3>2
  <2>4. PICK sorted : sorted = [i \in 1 .. EdgeCount |-> edges[variable_to_edge[i] + 1]]
    OBVIOUS
  <2>5. ASSUME NEW i \in 1 .. EdgeCount
        PROVE  sorted[i] = edges[order[i] + 1] /\ order[i] + 1 \in 1 .. EdgeCount /\ order[i] \in Nat
    <3>1. order[i] \in Nat /\ order[i] < EdgeCount /\ variable_to_edge[i] = order[i]
      BY <1>4, <1>5, <2>2, ElementOfSeq
    <3> QED
      BY <1>4, <2>4, <3>1
  <2>6. ASSUME NEW i \in 1 .. EdgeCount, NEW j \in 1 .. EdgeCount, i # j
        PROVE  order[i] + 1 # order[j] + 1
    <3>1. order[i] # order[j]
      BY <1>4, <2>1, <2>2, <2>6 DEF IsInjective
    <3> QED
      BY <2>5, <3>1
  <2>7. DOMAIN sorted = 1 .. EdgeCount
    BY <2>4
  <2>8. IsSimple(sorted)
    <3> SUFFICES ASSUME NEW i \in 1 .. EdgeCount
                 PROVE  /\ \A k \in 1 .. 2 : sorted[i][k] \in Vertex
                        /\ sorted[i][1] # sorted[i][2]
                        /\ \A j \in (1 .. EdgeCount) \ {i} : {sorted[i][1], sorted[i][2]} # {sorted[j][1], sorted[j][2]}
      BY <2>7 DEF IsSimple
    <3>1. IsSimple(edges)
      BY DEF GInv, Reading
    <3>2. (\A k \in 1 .. 2 : sorted[i][k] \in Vertex) /\ sorted[i][1] # sorted[i][2]
      BY <1>4, <2>5, <3>1 DEF IsSimple
    <3>3. ASSUME NEW j \in (1 .. EdgeCount) \ {i}
          PROVE  {sorted[i][1], sorted[i][2]} # {sorted[j][1], sorted[j][2]}
      <4>1. j \in 1 .. EdgeCount /\ i # j
        OBVIOUS
      <4>2. order[i] + 1 \in 1 .. EdgeCount /\ order[j] + 1 \in (1 .. EdgeCount) \ {order[i] + 1}
        BY <2>5, <2>6, <4>1
      <4>3. {edges[order[i] + 1][1], edges[order[i] + 1][2]} # {edges[order[j] + 1][1], edges[order[j] + 1][2]}
        BY <1>4, <3>1, <4>2 DEF IsSimple
      <4> QED
        BY <2>5, <4>1, <4>3
    <3> QED
      BY <3>2, <3>3
  <2> QED
    BY <1>5, <2>2, <2>3, <2>4, <2>8
<1>10. MapsInverse'
  <2>1. outcome'.kind = "ok" =>
          /\ DOMAIN edge_to_variable = 0 .. EdgeCount - 1
          /\ Len(variable_to_edge) = EdgeCount
          /\ \A e \in 0 .. EdgeCount - 1 : variable_to_edge[edge_to_variable[e] + 1] = e
          /\ IsSimple([i \in 1 .. EdgeCount |-> edges[variable_to_edge[i] + 1]])
    BY <1>7, <1>9
  <2>2. Len(order) = EdgeCount => outcome'.kind = "ok"
    BY <1>5, <1>6, <1>7 DEF IsOrder
  <2> QED
    BY <1>3, <2>1, <2>2 DEF MapsInverse
<1> QED
  BY <1>2, <1>8, <1>10 DEF GInv

\* Every step keeps the invariant.
LEMMA Preserved == GInv /\ [Next]_vars => GInv'
<1>1. ASSUME GInv, UNCHANGED vars
      PROVE  GInv'
  <2> USE DEF vars, graph_vars, bfs_vars, map_vars
  <2>1. Types' /\ Progress' /\ Searching' /\ Ordered' /\ Mapped'
    BY <1>1 DEF GInv, Types, Progress, Searching, Ordered, Mapped, GoodOrder, EdgeCount, Level, Ends
  <2>2. Reading'
    BY <1>1 DEF GInv, Reading, EdgeCount
  <2>3. AcceptsExactly'
    BY <1>1 DEF GInv, AcceptsExactly, EdgeCount
  <2>4. MapsInverse'
    BY <1>1 DEF GInv, MapsInverse, EdgeCount
  <2> QED
    BY <2>1, <2>2, <2>3, <2>4 DEF GInv
<1> QED
  BY <1>1, AddEdgeStep, RefuseEdgeStep, FinishGraphStep, ListEdgesStep, TrustOrderStep, FailOrderingStep, StartBfsStep,
     StartComponentStep, VisitVertexStep, FinishBfsStep, AcceptOrderStep, RefuseOrderStep, RefuseSpaceStep,
     CreateSpaceStep, RefuseLevelStep, PanicStep, MapEdgeStep, FinishSpaceStep DEF Next

----------------------------------------------------------------------------
(* Components and distances of the graph.                                  *)

\* The least element is below every other.
LEMMA MinLeast ==
  ASSUME NEW S \in SUBSET Nat, S # {}
  PROVE  Min(S) \in S /\ \A i \in S : Min(S) <= i
BY MinExists DEF Min

\* f lists the balls around r, for each radius up to n.
BallsUpTo(r, n, f) == f = [k \in 0 .. n |-> IF k = 0 THEN {r} ELSE Grown(f[k - 1])]

\* Such a list exists.
LEMMA BallsExist ==
  ASSUME NEW r, NEW n \in Nat
  PROVE  \E f : BallsUpTo(r, n, f)
<1> DEFINE Good == {m \in Nat : \E f : BallsUpTo(r, m, f)}
<1>1. 0 \in Good
  <2> DEFINE g == [k \in 0 .. 0 |-> {r}]
  <2>1. BallsUpTo(r, 0, g)
    BY DEF BallsUpTo
  <2> QED
    BY <2>1
<1>2. ASSUME NEW m \in Nat, m \in Good
      PROVE  m + 1 \in Good
  <2>1. PICK f : BallsUpTo(r, m, f)
    BY <1>2
  <2> DEFINE g == [k \in 0 .. m + 1 |-> IF k = m + 1 THEN Grown(f[m]) ELSE f[k]]
  <2>2. \A k \in 0 .. m + 1 : g[k] = IF k = 0 THEN {r} ELSE Grown(g[k - 1])
    <3> TAKE k \in 0 .. m + 1
    <3>1. CASE k = m + 1
      <4>1. g[k] = Grown(f[m]) /\ k # 0 /\ k - 1 = m /\ m \in 0 .. m + 1 /\ m # m + 1
        BY <3>1
      <4>2. g[m] = f[m]
        BY <4>1
      <4> HIDE DEF g
      <4> QED
        BY <3>1, <4>1, <4>2
    <3>2. CASE k = 0
      <4>1. 0 \in 0 .. m + 1 /\ 0 # m + 1 /\ 0 \in 0 .. m
        OBVIOUS
      <4>2. g[0] = f[0]
        BY <4>1
      <4>3. f[0] = {r}
        BY <2>1, <4>1 DEF BallsUpTo
      <4> HIDE DEF g
      <4> QED
        BY <3>2, <4>2, <4>3
    <3>3. CASE k # m + 1 /\ k # 0
      <4>1. k \in 0 .. m /\ k - 1 \in 0 .. m + 1 /\ k - 1 # m + 1
        BY <3>3
      <4>2. g[k] = f[k] /\ g[k - 1] = f[k - 1]
        BY <3>3, <4>1
      <4>3. f[k] = Grown(f[k - 1])
        BY <2>1, <3>3, <4>1 DEF BallsUpTo
      <4> HIDE DEF g
      <4> QED
        BY <3>3, <4>2, <4>3
    <3> QED
      BY <3>1, <3>2, <3>3
  <2>3. g = [k \in 0 .. m + 1 |-> g[k]]
    OBVIOUS
  <2> HIDE DEF g
  <2>4. BallsUpTo(r, m + 1, g)
    BY <2>2, <2>3, Zenon DEF BallsUpTo
  <2> QED
    BY <2>4
<1> HIDE DEF Good
<1>3. 0 .. n \subseteq Good
  BY <1>1, <1>2, SetInduction
<1>4. n \in Good
  BY <1>3
<1> QED
  BY <1>4 DEF Good

\* A ball is the one before with its neighbors.
LEMMA BallSteps ==
  ASSUME NEW r
  PROVE  Ball(r, 0) = {r} /\ \A k \in 1 .. V : Ball(r, k) = Grown(Ball(r, k - 1))
<1> DEFINE F == CHOOSE f : BallsUpTo(r, V, f)
<1>1. \A k : Ball(r, k) = F[k]
  BY DEF Ball, BallsUpTo
<1>2. BallsUpTo(r, V, F)
  BY BallsExist, GraphSpacesAssumption
<1> HIDE DEF F
<1>3. F[0] = {r}
  BY <1>2, GraphSpacesAssumption DEF BallsUpTo
<1>4. \A k \in 1 .. V : F[k] = Grown(F[k - 1])
  <2>1. \A k \in 0 .. V : F[k] = IF k = 0 THEN {r} ELSE Grown(F[k - 1])
    BY <1>2, Zenon DEF BallsUpTo
  <2>2. \A k \in 1 .. V : k \in 0 .. V /\ k # 0
    BY GraphSpacesAssumption
  <2> QED
    BY <2>1, <2>2
<1> QED
  BY <1>1, <1>3, <1>4

\* No edge leads out of S.
Closed(S) == \A e \in 0 .. EdgeCount - 1 : \A u, w \in Ends(e) : u \in S => w \in S

\* One step of growth.
LEMMA GrownFacts ==
  ASSUME Types, NEW S \in SUBSET Vertex
  PROVE  /\ S \subseteq Grown(S) /\ Grown(S) \subseteq Vertex
         /\ Closed(S) <=> Grown(S) = S
         /\ \A e \in 0 .. EdgeCount - 1 : \A u, w \in Ends(e) : u \in S => w \in Grown(S)
         /\ \A w \in Grown(S) : w \in S \/ \E e \in 0 .. EdgeCount - 1 : w \in Ends(e) /\ \E u \in Ends(e) : u \in S
<1>1. \A e \in 0 .. EdgeCount - 1 : Ends(e) \subseteq Vertex
  BY EndsAreVertices
<1>2. \A w : w \in Grown(S) <=>
        w \in S \/ \E e \in 0 .. EdgeCount - 1 : w \in Ends(e) /\ \E u \in Ends(e) : u \in S
  BY Zenon DEF Grown
<1> QED
  BY <1>1, <1>2 DEF Closed

\* Balls are sets of vertices, around their centre, each in the next.
LEMMA BallFacts ==
  ASSUME Types, NEW r \in Vertex
  PROVE  \A k \in 0 .. V :
           /\ Ball(r, k) \subseteq Vertex /\ r \in Ball(r, k)
           /\ k > 0 => Ball(r, k - 1) \subseteq Ball(r, k)
           /\ Ball(r, k) \subseteq Ball(r, V)
<1> DEFINE Good == {k \in Nat : k <= V => Ball(r, k) \subseteq Vertex /\ r \in Ball(r, k)}
<1>1. V \in Nat
  BY GraphSpacesAssumption
<1>2. 0 \in Good
  BY BallSteps
<1>3. ASSUME NEW k \in Nat, k < V, k \in Good
      PROVE  k + 1 \in Good
  <2>1. k + 1 \in 1 .. V /\ (k + 1) - 1 = k
    BY <1>1, <1>3
  <2>2. Ball(r, k + 1) = Grown(Ball(r, k))
    BY <2>1, BallSteps
  <2>3. Ball(r, k) \subseteq Vertex /\ r \in Ball(r, k)
    BY <1>1, <1>3
  <2> QED
    BY <2>2, <2>3, GrownFacts
<1> HIDE DEF Good
<1>4. 0 .. V \subseteq Good
  BY <1>1, <1>2, <1>3, SetInduction
<1>5. \A k \in 0 .. V : Ball(r, k) \subseteq Vertex /\ r \in Ball(r, k)
  BY <1>1, <1>4 DEF Good
<1>6. \A k \in 0 .. V : k > 0 => Ball(r, k - 1) \subseteq Ball(r, k)
  <2> TAKE k \in 0 .. V
  <2>1. CASE k > 0
    <3>1. k \in 1 .. V /\ k - 1 \in 0 .. V
      BY <1>1, <2>1
    <3>2. Ball(r, k) = Grown(Ball(r, k - 1))
      BY <3>1, BallSteps
    <3>3. PICK S \in SUBSET Vertex : S = Ball(r, k - 1)
      BY <1>5, <3>1
    <3>4. S \subseteq Grown(S)
      BY GrownFacts
    <3> QED
      BY <3>2, <3>3, <3>4
  <2> QED
    BY <2>1
<1> DEFINE Least == {j \in Nat : j <= V => Ball(r, V - j) \subseteq Ball(r, V)}
<1>7. 0 \in Least
  BY <1>1
<1>8. ASSUME NEW j \in Nat, j < V, j \in Least
      PROVE  j + 1 \in Least
  <2>1. V - j \in 0 .. V /\ V - j > 0 /\ (V - j) - 1 = V - (j + 1)
    BY <1>1, <1>8
  <2>2. Ball(r, V - (j + 1)) \subseteq Ball(r, V - j)
    BY <1>6, <2>1
  <2> QED
    BY <1>1, <1>8, <2>2
<1> HIDE DEF Least
<1>9. 0 .. V \subseteq Least
  BY <1>1, <1>7, <1>8, SetInduction
<1>10. \A k \in 0 .. V : Ball(r, k) \subseteq Ball(r, V)
  <2> TAKE k \in 0 .. V
  <2>1. V - k \in 0 .. V /\ V - (V - k) = k
    BY <1>1
  <2>2. V - k \in Least
    BY <1>9, <2>1
  <2>3. Ball(r, V - (V - k)) \subseteq Ball(r, V)
    BY <2>1, <2>2 DEF Least
  <2> QED
    BY <2>1, <2>3
<1> QED
  BY <1>5, <1>6, <1>10

\* A ball of as many steps as there are vertices is closed: a ball that is not
\* grows by a vertex.
LEMMA BallCloses ==
  ASSUME Types, NEW r \in Vertex
  PROVE  Closed(Ball(r, V))
<1>1. V \in Nat /\ IsFiniteSet(Vertex) /\ Cardinality(Vertex) = V
  <2>1. V \in Nat /\ 0 \in Int /\ V - 1 \in Int
    BY GraphSpacesAssumption
  <2>2. IsFiniteSet(0 .. V - 1) /\ Cardinality(0 .. V - 1) = IF 0 > V - 1 THEN 0 ELSE (V - 1) - 0 + 1
    BY <2>1, FS_Interval
  <2> QED
    BY <2>1, <2>2 DEF Vertex
<1>2. \A S \in SUBSET Vertex : IsFiniteSet(S) /\ Cardinality(S) \in Nat /\ Cardinality(S) <= V
  BY <1>1, FS_Subset, FS_CardinalityType
<1> DEFINE Good == {k \in Nat : k <= V => Closed(Ball(r, k)) \/ Cardinality(Ball(r, k)) >= k + 1}
<1>3. 0 \in Good
  <2>1. Ball(r, 0) = {r} /\ Cardinality({r}) = 1
    BY BallSteps, FS_Singleton
  <2>2. Cardinality(Ball(r, 0)) >= 0 + 1
    BY <2>1
  <2> QED
    BY <2>2
<1>4. ASSUME NEW k \in Nat, k < V, k \in Good
      PROVE  k + 1 \in Good
  <2>1. k + 1 \in 1 .. V /\ k \in 0 .. V /\ (k + 1) - 1 = k /\ k <= V
    BY <1>1, <1>4
  <2>2. PICK A, B : A = Ball(r, k) /\ B = Ball(r, k + 1)
    OBVIOUS
  <2>3. B = Grown(A) /\ A \in SUBSET Vertex
    BY <2>1, <2>2, BallSteps, BallFacts
  <2>4. A \subseteq B /\ B \subseteq Vertex /\ (Closed(A) <=> B = A)
    BY <2>3, GrownFacts
  <2>5. CASE Closed(A)
    BY <2>2, <2>4, <2>5
  <2>6. CASE ~Closed(A)
    <3>1. A # B
      BY <2>4, <2>6
    <3>2. Cardinality(A) < Cardinality(B)
      BY <1>2, <2>4, <3>1, FS_Subset
    <3>3. Cardinality(A) >= k + 1
      BY <1>4, <2>1, <2>2, <2>6
    <3>4. Cardinality(A) \in Nat /\ Cardinality(B) \in Nat
      BY <1>2, <2>3, <2>4
    <3>5. Cardinality(B) >= (k + 1) + 1
      BY <3>2, <3>3, <3>4
    <3> QED
      BY <2>2, <3>5
  <2> QED
    BY <2>5, <2>6
<1> HIDE DEF Good
<1>5. 0 .. V \subseteq Good
  BY <1>1, <1>3, <1>4, SetInduction
<1>6. V \in Good
  BY <1>1, <1>5
<1>7. Closed(Ball(r, V)) \/ Cardinality(Ball(r, V)) >= V + 1
  BY <1>1, <1>6 DEF Good
<1>8. Cardinality(Ball(r, V)) \in Nat /\ Cardinality(Ball(r, V)) <= V
  BY <1>1, <1>2, BallFacts
<1> QED
  BY <1>1, <1>7, <1>8

\* It is in every closed set with its centre.
LEMMA BallLeast ==
  ASSUME Types, NEW r \in Vertex, NEW S \in SUBSET Vertex, Closed(S), r \in S
  PROVE  Ball(r, V) \subseteq S
<1> DEFINE Good == {k \in Nat : k <= V => Ball(r, k) \subseteq S}
<1>1. V \in Nat
  BY GraphSpacesAssumption
<1>2. 0 \in Good
  BY BallSteps
<1>3. ASSUME NEW k \in Nat, k < V, k \in Good
      PROVE  k + 1 \in Good
  <2>1. k + 1 \in 1 .. V /\ (k + 1) - 1 = k /\ k \in 0 .. V
    BY <1>1, <1>3
  <2>2. Ball(r, k + 1) = Grown(Ball(r, k))
    BY <2>1, BallSteps
  <2>3. Ball(r, k) \subseteq S /\ Ball(r, k) \in SUBSET Vertex
    BY <1>1, <1>3
  <2>4. \A w \in Grown(Ball(r, k)) :
          w \in Ball(r, k) \/ \E e \in 0 .. EdgeCount - 1 : w \in Ends(e) /\ \E u \in Ends(e) : u \in Ball(r, k)
    BY <2>3, GrownFacts
  <2>5. Grown(Ball(r, k)) \subseteq S
    BY <2>3, <2>4 DEF Closed
  <2> QED
    BY <2>2, <2>5
<1> HIDE DEF Good
<1>4. 0 .. V \subseteq Good
  BY <1>1, <1>2, <1>3, SetInduction
<1> QED
  BY <1>1, <1>4 DEF Good

\* What is outside of a closed set is closed.
LEMMA OutsideClosed ==
  ASSUME Types, NEW S, Closed(S)
  PROVE  Closed(Vertex \ S)
BY EndsAreVertices DEF Closed

\* The vertices of a component have the same component.
LEMMA SameComponent ==
  ASSUME Types, NEW v \in Vertex, NEW w \in Ball(v, V)
  PROVE  w \in Vertex /\ v \in Ball(w, V) /\ Ball(w, V) = Ball(v, V)
<1>1. V \in 0 .. V /\ V \in Nat
  BY GraphSpacesAssumption
<1>2. Ball(v, V) \subseteq Vertex
  BY <1>1, BallFacts
<1>3. w \in Vertex /\ w \in Ball(w, V) /\ Ball(w, V) \subseteq Vertex
  BY <1>1, <1>2, BallFacts
<1>4. Closed(Ball(v, V)) /\ Closed(Ball(w, V))
  BY <1>3, BallCloses
<1>5. Ball(w, V) \subseteq Ball(v, V)
  BY <1>2, <1>3, <1>4, BallLeast
<1>6. v \in Ball(w, V)
  <2> SUFFICES ASSUME v \notin Ball(w, V)
               PROVE  FALSE
    OBVIOUS
  <2>1. PICK S : S = Vertex \ Ball(w, V)
    OBVIOUS
  <2>2. Closed(S) /\ S \in SUBSET Vertex /\ v \in S
    BY <1>4, <2>1, OutsideClosed
  <2>3. Ball(v, V) \subseteq S
    BY <2>2, BallLeast
  <2> QED
    BY <1>3, <2>1, <2>3
<1>7. Ball(v, V) \subseteq Ball(w, V)
  BY <1>3, <1>4, <1>6, BallLeast
<1> QED
  BY <1>3, <1>5, <1>6, <1>7

\* The root of a vertex is the least vertex of its component, and the root of
\* all of the component.
LEMMA RootFacts ==
  ASSUME Types, NEW v \in Vertex
  PROVE  /\ Root[v] \in Vertex /\ Root[v] \in Ball(v, V) /\ v \in Ball(Root[v], V)
         /\ \A w \in Ball(v, V) : Root[v] <= w /\ Root[w] = Root[v]
<1>1. V \in 0 .. V /\ V \in Nat /\ Vertex \subseteq Nat
  BY GraphSpacesAssumption DEF Vertex
<1>2. Ball(v, V) \subseteq Vertex /\ v \in Ball(v, V)
  BY <1>1, BallFacts
<1>3. PICK B : B = Ball(v, V)
  OBVIOUS
<1>4. B \in SUBSET Nat /\ B # {}
  BY <1>1, <1>2, <1>3
<1>5. Root[v] = Min(B)
  BY <1>3 DEF Root
<1>6. Root[v] \in B /\ \A w \in B : Root[v] <= w
  BY <1>4, <1>5, MinLeast
<1>7. ASSUME NEW w \in B
      PROVE  Root[w] = Root[v]
  <2>1. w \in Vertex /\ Ball(w, V) = B
    BY <1>3, SameComponent
  <2>2. Root[w] = Min(Ball(w, V))
    BY <2>1 DEF Root
  <2> QED
    BY <1>5, <2>1, <2>2
<1>8. v \in Ball(Root[v], V)
  BY <1>3, <1>6, SameComponent
<1> QED
  BY <1>2, <1>3, <1>6, <1>7, <1>8

\* The distance is the least radius that reaches the vertex from its root.
LEMMA DistanceFacts ==
  ASSUME Types, NEW v \in Vertex
  PROVE  /\ Distance[v] \in 0 .. V /\ v \in Ball(Root[v], Distance[v])
         /\ \A k \in 0 .. V : v \in Ball(Root[v], k) => Distance[v] <= k
<1>1. V \in Nat
  BY GraphSpacesAssumption
<1>2. PICK K : K = {k \in 0 .. V : v \in Ball(Root[v], k)}
  OBVIOUS
<1>3. V \in K /\ K \in SUBSET Nat
  BY <1>1, <1>2, RootFacts
<1>4. Distance[v] = Min(K)
  BY <1>2 DEF Distance
<1>5. Min(K) \in K /\ \A k \in K : Min(K) <= k
  BY <1>3, MinLeast
<1> QED
  BY <1>2, <1>4, <1>5

\* Edges stay in their component and lead one step away at most.
LEMMA EdgeFacts ==
  ASSUME Types, NEW e \in 0 .. EdgeCount - 1, NEW u \in Ends(e), NEW w \in Ends(e)
  PROVE  /\ u \in Vertex /\ w \in Vertex
         /\ Root[u] = Root[w] /\ Distance[w] <= Distance[u] + 1
<1>1. V \in Nat /\ V \in 0 .. V
  BY GraphSpacesAssumption
<1>2. u \in Vertex /\ w \in Vertex
  BY EndsAreVertices
<1>3. Closed(Ball(u, V)) /\ u \in Ball(u, V)
  BY <1>1, <1>2, BallCloses, BallFacts
<1>4. w \in Ball(u, V)
  BY <1>3 DEF Closed
<1>5. Root[u] = Root[w]
  BY <1>2, <1>4, RootFacts
<1>6. PICK r, d : r = Root[u] /\ d = Distance[u]
  OBVIOUS
<1>7. r \in Vertex /\ d \in 0 .. V /\ u \in Ball(r, d) /\ Ball(r, d) \in SUBSET Vertex
  BY <1>2, <1>6, RootFacts, DistanceFacts, BallFacts
<1>8. Distance[w] \in 0 .. V
  BY <1>2, DistanceFacts
<1>9. CASE d = V
  <2>1. Distance[w] <= Distance[u] + 1
    BY <1>1, <1>6, <1>8, <1>9
  <2> QED
    BY <1>2, <1>5, <2>1
<1>10. CASE d # V
  <2>1. d + 1 \in 1 .. V /\ (d + 1) - 1 = d /\ d + 1 \in 0 .. V
    BY <1>1, <1>7, <1>10
  <2>2. Ball(r, d + 1) = Grown(Ball(r, d))
    BY <2>1, BallSteps
  <2>3. w \in Ball(r, d + 1)
    BY <1>7, <2>2, GrownFacts
  <2> QED
    BY <1>2, <1>5, <1>6, <2>1, <2>3, DistanceFacts
<1> QED
  BY <1>2, <1>5, <1>9, <1>10

\* A vertex away from its root has a neighbor that is nearer; the root is not.
LEMMA NearerNeighbor ==
  ASSUME Types, NEW v \in Vertex
  PROVE  /\ Distance[v] = 0 => v = Root[v]
         /\ Root[v] = v => Distance[v] = 0
         /\ Distance[v] > 0 => \E e \in 0 .. EdgeCount - 1 : v \in Ends(e) /\
              \E u \in Ends(e) : u \in Vertex /\ Root[u] = Root[v] /\ Distance[u] < Distance[v]
<1>1. V \in Nat
  BY GraphSpacesAssumption
<1>2. PICK r, d : r = Root[v] /\ d = Distance[v]
  OBVIOUS
<1>3. r \in Vertex /\ d \in 0 .. V /\ v \in Ball(r, d)
  BY <1>2, RootFacts, DistanceFacts
<1>4. d = 0 => v = r
  BY <1>3, BallSteps
<1>5. v = r => d = 0
  <2>1. 0 \in 0 .. V /\ (v = r => v \in Ball(r, 0))
    BY <1>1, BallSteps
  <2>2. v = r => d <= 0
    BY <1>2, <2>1, DistanceFacts
  <2> QED
    BY <1>1, <1>3, <2>2
<1>6. ASSUME d > 0
      PROVE  \E e \in 0 .. EdgeCount - 1 : v \in Ends(e) /\
               \E u \in Ends(e) : u \in Vertex /\ Root[u] = Root[v] /\ Distance[u] < Distance[v]
  <2>1. d \in 1 .. V /\ d - 1 \in 0 .. V
    BY <1>1, <1>3, <1>6
  <2>2. PICK B : B = Ball(r, d - 1)
    OBVIOUS
  <2>3. B \in SUBSET Vertex /\ v \in Grown(B)
    BY <1>3, <2>1, <2>2, BallSteps, BallFacts
  <2>4. v \notin B
    <3> SUFFICES ASSUME v \in B PROVE FALSE
      OBVIOUS
    <3>1. Distance[v] <= d - 1
      BY <1>2, <2>1, <2>2, DistanceFacts
    <3> QED
      BY <1>1, <1>2, <1>3, <3>1
  <2>5. PICK e \in 0 .. EdgeCount - 1 : v \in Ends(e) /\ \E u \in Ends(e) : u \in B
    BY <2>3, <2>4, GrownFacts
  <2>6. PICK u \in Ends(e) : u \in B
    BY <2>5
  <2>7. u \in Vertex /\ Root[u] = Root[v]
    BY <2>5, EdgeFacts
  <2>8. Distance[u] <= d - 1 /\ Distance[u] \in 0 .. V
    BY <1>2, <2>1, <2>2, <2>6, <2>7, DistanceFacts
  <2>9. Distance[u] < Distance[v]
    BY <1>1, <1>2, <1>3, <2>8
  <2> QED
    BY <2>5, <2>7, <2>9
<1> QED
  BY <1>2, <1>4, <1>5, <1>6

----------------------------------------------------------------------------
(* The neighbors of a vertex.                                              *)

\* The edge of a simple graph between v and its neighbor is no other edge.
LEMMA EdgeEnds ==
  ASSUME Types, IsSimple(edges), NEW e \in 0 .. EdgeCount - 1, NEW v \in Ends(e)
  PROVE  /\ Neighbor(v, e) \in Vertex /\ Neighbor(v, e) # v /\ Ends(e) = {v, Neighbor(v, e)}
         /\ \A f \in 0 .. EdgeCount - 1 : Ends(f) = Ends(e) => f = e
<1>1. EdgeCount \in Nat /\ DOMAIN edges = 1 .. EdgeCount
  BY LenProperties DEF Types, EdgeCount
<1>2. PICK i : i = e + 1
  OBVIOUS
<1>3. i \in 1 .. EdgeCount
  BY <1>1, <1>2
<1>4. /\ edges[i][1] # edges[i][2]
      /\ \A j \in DOMAIN edges \ {i} : {edges[i][1], edges[i][2]} # {edges[j][1], edges[j][2]}
  BY <1>1, <1>3 DEF IsSimple
<1>5. PICK a, b : a = edges[i][1] /\ b = edges[i][2]
  OBVIOUS
<1>6. Ends(e) = {a, b} /\ a # b
  BY <1>2, <1>4, <1>5 DEF Ends
<1>7. \E w \in Ends(e) : w # v
  BY <1>6
<1>8. Neighbor(v, e) \in Ends(e) /\ Neighbor(v, e) # v
  BY <1>7 DEF Neighbor
<1>9. Ends(e) = {v, Neighbor(v, e)}
  BY <1>6, <1>8
<1>10. ASSUME NEW f \in 0 .. EdgeCount - 1, Ends(f) = Ends(e)
       PROVE  f = e
  <2>1. f + 1 \in 1 .. EdgeCount
    BY <1>1
  <2>2. {edges[i][1], edges[i][2]} = {edges[f + 1][1], edges[f + 1][2]}
    BY <1>2, <1>10 DEF Ends
  <2>3. f + 1 = i
    BY <1>1, <1>4, <2>1, <2>2
  <2> QED
    BY <1>1, <1>2, <2>3
<1> QED
  BY <1>8, <1>9, <1>10, EndsAreVertices

\* The list of neighbors has each vertex at the other end of an edge, once.
LEMMA NeighborsFacts ==
  ASSUME Types, IsSimple(edges), NEW v \in Vertex
  PROVE  /\ Neighbors(v) \in Seq(Vertex) /\ IsInjective(Neighbors(v))
         /\ Range(Neighbors(v)) =
              {w \in Vertex \ {v} : \E e \in 0 .. EdgeCount - 1 : v \in Ends(e) /\ w \in Ends(e)}
<1>1. PICK q : q = Incident(v)
  OBVIOUS
<1>2. q \in Seq(0 .. EdgeCount - 1) /\ Range(q) = {e \in 0 .. EdgeCount - 1 : v \in Ends(e)} /\ IsInjective(q)
  BY <1>1, IncidentProperties
<1>3. \A i \in DOMAIN q : q[i] \in 0 .. EdgeCount - 1 /\ v \in Ends(q[i])
  BY <1>2 DEF Range
<1>4. PICK n : n = Neighbors(v)
  OBVIOUS
<1>5. DOMAIN n = DOMAIN q /\ \A i \in DOMAIN q : n[i] = Neighbor(v, q[i])
  BY <1>1, <1>4 DEF Neighbors
<1>6. ASSUME NEW i \in DOMAIN n, NEW j \in DOMAIN n, n[i] = n[j]
      PROVE  i = j
  <2>1. Ends(q[i]) = {v, n[i]} /\ Ends(q[j]) = {v, n[j]}
    BY <1>3, <1>5, EdgeEnds
  <2>2. q[i] = q[j]
    BY <1>3, <1>5, <1>6, <2>1, EdgeEnds
  <2> QED
    BY <1>2, <1>5, <2>2 DEF IsInjective
<1>7. ASSUME NEW i \in DOMAIN n
      PROVE  n[i] \in Vertex \ {v} /\ \E e \in 0 .. EdgeCount - 1 : v \in Ends(e) /\ n[i] \in Ends(e)
  <2>1. n[i] \in Vertex /\ n[i] # v /\ Ends(q[i]) = {v, n[i]}
    BY <1>3, <1>5, EdgeEnds
  <2> QED
    BY <1>3, <1>5, <2>1
<1>8. ASSUME NEW w \in Vertex \ {v}, NEW e \in 0 .. EdgeCount - 1, v \in Ends(e), w \in Ends(e)
      PROVE  \E i \in DOMAIN n : n[i] = w
  <2>1. PICK i \in DOMAIN q : q[i] = e
    BY <1>2, <1>8 DEF Range
  <2>2. Ends(e) = {v, Neighbor(v, e)}
    BY <1>8, EdgeEnds
  <2> QED
    BY <1>5, <1>8, <2>1, <2>2
<1>9. Range(n) = {w \in Vertex \ {v} : \E e \in 0 .. EdgeCount - 1 : v \in Ends(e) /\ w \in Ends(e)}
  <2>1. \A w : w \in Range(n) <=> \E i \in DOMAIN n : n[i] = w
    BY Zenon DEF Range
  <2> QED
    BY <1>7, <1>8, <2>1
<1>10. n \in Seq(Vertex)
  BY <1>4, NeighborsAreVertices
<1> QED
  BY <1>4, <1>6, <1>9, <1>10 DEF IsInjective

----------------------------------------------------------------------------
(* The order of the search: by the root of the component, then by the      *)
(* distance from it.                                                       *)

\* The search has u before v, or they are at the same distance.
NotAfter(u, v) == Root[u] < Root[v] \/ (Root[u] = Root[v] /\ Distance[u] <= Distance[v])

\* An edge belongs to the component of its ends, at the distance of the nearer.
EdgeRoot(e) == Root[Min(Ends(e))]

EdgeDepth(e) == Min({Distance[v] : v \in Ends(e)})

\* The same order of edges, and lists of edges in it.
EdgeNotAfter(e, f) == EdgeRoot(e) < EdgeRoot(f) \/ (EdgeRoot(e) = EdgeRoot(f) /\ EdgeDepth(e) <= EdgeDepth(f))

InSearchOrder(q) == \A i, j \in DOMAIN q : i < j => EdgeNotAfter(q[i], q[j])

\* The search in the order it keeps: with the vertices v it has visited and the
\* queue q, it is through with those it has left, all of whose neighbors are
\* visited; it leaves and visits the vertices in order, and the edges o are those
\* of the vertices it has left, in order.
InOrder(v, q, o) ==
  LET left == v \ Range(q)
  IN /\ IsInjective(q)
     /\ \A k \in DOMAIN o : \E u \in Ends(o[k]) : u \in left
     /\ \A e \in 0 .. EdgeCount - 1 : \A u, w \in Ends(e) : u \in left => w \in v
     /\ \A u \in left, w \in Vertex \ left : NotAfter(u, w)
     /\ \A i, j \in DOMAIN q : i < j => NotAfter(q[i], q[j])
     /\ \A u \in v, w \in Vertex \ v : NotAfter(u, w)
     /\ InSearchOrder(o)

\* The queue and the list are in order, and the list stays so.
SearchInv ==
  /\ stage = "bfs" => InOrder(visited, queue, order)
  /\ stage = "validate" /\ strategy = "bfs" => InSearchOrder(order)

\* Roots and distances are numbers.
LEMMA RankNumbers ==
  ASSUME Types, NEW v \in Vertex
  PROVE  Root[v] \in Nat /\ Distance[v] \in Nat
<1>1. V \in Nat /\ Vertex \subseteq Nat
  BY GraphSpacesAssumption DEF Vertex
<1>2. PICK r, d : r = Root[v] /\ d = Distance[v]
  OBVIOUS
<1>3. r \in Vertex /\ d \in 0 .. V
  BY <1>2, RootFacts, DistanceFacts
<1>4. r \in Nat /\ d \in Nat
  BY <1>1, <1>3
<1> QED
  BY <1>2, <1>4

\* The root and the depth of an edge, by its ends.
LEMMA EdgeRank ==
  ASSUME Types, NEW e \in 0 .. EdgeCount - 1, NEW u \in Ends(e)
  PROVE  /\ EdgeRoot(e) = Root[u] /\ Root[u] \in Nat
         /\ EdgeDepth(e) \in Nat /\ EdgeDepth(e) <= Distance[u] /\ Distance[u] \in Nat
         /\ (\A w \in Ends(e) : Distance[u] <= Distance[w]) => EdgeDepth(e) = Distance[u]
<1>1. V \in Nat /\ Vertex \subseteq Nat
  BY GraphSpacesAssumption DEF Vertex
<1>2. Ends(e) \in SUBSET Nat /\ Ends(e) # {} /\ Ends(e) \subseteq Vertex
  BY <1>1, EndsAreVertices
<1>3. Min(Ends(e)) \in Ends(e)
  BY <1>2, MinLeast
<1>4. EdgeRoot(e) = Root[u] /\ Root[u] \in Nat
  BY <1>1, <1>2, <1>3, EdgeFacts, RootFacts DEF EdgeRoot
<1>5. PICK D : D = {Distance[w] : w \in Ends(e)}
  OBVIOUS
<1>6. \A w \in Ends(e) : Distance[w] \in Nat
  BY <1>1, <1>2, DistanceFacts
<1>7. D \in SUBSET Nat /\ Distance[u] \in D
  BY <1>5, <1>6
<1>8. Min(D) \in D /\ \A i \in D : Min(D) <= i
  BY <1>7, MinLeast
<1>9. EdgeDepth(e) = Min(D)
  BY <1>5 DEF EdgeDepth
<1>10. ASSUME \A w \in Ends(e) : Distance[u] <= Distance[w]
       PROVE  Min(D) = Distance[u]
  <2>1. Distance[u] <= Min(D)
    BY <1>5, <1>8, <1>10
  <2>2. Min(D) <= Distance[u] /\ Min(D) \in Nat /\ Distance[u] \in Nat
    BY <1>7, <1>8
  <2> QED
    BY <2>1, <2>2
<1> QED
  BY <1>4, <1>6, <1>7, <1>8, <1>9, <1>10

\* A vertex that is no neighbor of those left, and not before h, the next one to
\* leave, is farther away than h.
LEMMA Farther ==
  ASSUME Types, NEW v, NEW q, NEW o, InOrder(v, q, o), v \subseteq Vertex,
         NEW h \in v, h \in Range(q), \A x \in Range(q) : NotAfter(h, x),
         NEW w \in Vertex \ v
  PROVE  /\ Root[h] <= Root[w] /\ Root[h] \in Nat /\ Root[w] \in Nat
         /\ Distance[h] \in Nat /\ Distance[w] \in Nat
         /\ Root[h] = Root[w] => Distance[h] + 1 <= Distance[w]
<1>1. V \in Nat /\ Vertex \subseteq Nat
  BY GraphSpacesAssumption DEF Vertex
<1>2. h \in Vertex /\ w \in Vertex
  OBVIOUS
<1>3. Root[h] \in Nat /\ Root[w] \in Nat /\ Distance[h] \in Nat /\ Distance[w] \in Nat
  BY <1>2, RankNumbers
<1>4. NotAfter(h, w)
  BY DEF InOrder
<1>5. Root[h] <= Root[w] /\ (Root[h] = Root[w] => Distance[h] <= Distance[w])
  BY <1>3, <1>4 DEF NotAfter
<1>6. ASSUME Root[h] = Root[w], Distance[h] = Distance[w]
      PROVE  FALSE
  <2>1. CASE Distance[w] = 0
    <3>1. w = h
      BY <1>2, <1>6, <2>1, NearerNeighbor
    <3> QED
      BY <3>1
  <2>2. CASE Distance[w] > 0
    <3>1. PICK e \in 0 .. EdgeCount - 1 : w \in Ends(e) /\
                 \E u \in Ends(e) : u \in Vertex /\ Root[u] = Root[w] /\ Distance[u] < Distance[w]
      BY <1>2, <2>2, NearerNeighbor
    <3>2. PICK u \in Ends(e) : u \in Vertex /\ Root[u] = Root[w] /\ Distance[u] < Distance[w]
      BY <3>1
    <3>3. Root[u] \in Nat /\ Distance[u] \in Nat
      BY <3>2, RankNumbers
    <3>4. ~NotAfter(h, u)
      BY <1>3, <1>6, <3>2, <3>3 DEF NotAfter
    <3>5. u \in v
      BY <3>2, <3>4 DEF InOrder
    <3>6. u \notin Range(q)
      BY <3>4
    <3> QED
      BY <3>1, <3>2, <3>5, <3>6 DEF InOrder
  <2> QED
    BY <1>3, <2>1, <2>2
<1> QED
  BY <1>3, <1>5, <1>6

\* Two entries of c, in this order, are entries of q, or of r, or of q and of r.
Joined(c, q, r) ==
  \A i, j \in DOMAIN c : i < j =>
    \/ i \in DOMAIN q /\ j \in DOMAIN q /\ c[i] = q[i] /\ c[j] = q[j]
    \/ c[i] \in Range(q) /\ c[j] \in Range(r)
    \/ c[i] \in Range(r) /\ c[j] \in Range(r)

\* Lists that are put together.
LEMMA ConcatPairs ==
  ASSUME NEW T, NEW q \in Seq(T), NEW r \in Seq(T), NEW c, c = q \o r
  PROVE  Joined(c, q, r)
<1> SUFFICES ASSUME NEW i \in DOMAIN c, NEW j \in DOMAIN c, i < j
             PROVE  \/ i \in DOMAIN q /\ j \in DOMAIN q /\ c[i] = q[i] /\ c[j] = q[j]
                    \/ c[i] \in Range(q) /\ c[j] \in Range(r)
                    \/ c[i] \in Range(r) /\ c[j] \in Range(r)
  BY DEF Joined
<1>1. PICK m, k : m = Len(q) /\ k = Len(r)
  OBVIOUS
<1>2. /\ m \in Nat /\ k \in Nat /\ DOMAIN q = 1 .. m /\ DOMAIN r = 1 .. k /\ DOMAIN c = 1 .. m + k
      /\ \A a \in 1 .. m : c[a] = q[a]
      /\ \A a \in m + 1 .. m + k : c[a] = r[a - m]
  BY <1>1, ConcatProperties, LenProperties
<1>3. \A a \in 1 .. m : c[a] \in Range(q)
  BY <1>2 DEF Range
<1>4. \A a \in m + 1 .. m + k : c[a] \in Range(r)
  <2>1. \A a \in m + 1 .. m + k : a - m \in 1 .. k
    BY <1>2
  <2> QED
    BY <1>2, <2>1 DEF Range
<1>5. i \in 1 .. m + k /\ j \in 1 .. m + k
  BY <1>2
<1>6. CASE j <= m
  <2>1. i \in 1 .. m /\ j \in 1 .. m
    BY <1>2, <1>5, <1>6
  <2> QED
    BY <1>2, <2>1
<1>7. CASE i <= m /\ j > m
  <2>1. i \in 1 .. m /\ j \in m + 1 .. m + k
    BY <1>2, <1>5, <1>7
  <2> QED
    BY <1>3, <1>4, <2>1
<1>8. CASE i > m
  <2>1. i \in m + 1 .. m + k /\ j \in m + 1 .. m + k
    BY <1>2, <1>5, <1>8
  <2> QED
    BY <1>4, <2>1
<1> QED
  BY <1>2, <1>5, <1>6, <1>7, <1>8

\* h comes first in q, and r is what follows.
IsPopped(h, r, q) ==
  /\ Range(q) = {h} \union Range(r)
  /\ IsInjective(q) => IsInjective(r) /\ h \notin Range(r)
  /\ 1 \in DOMAIN q /\ h = q[1]
  /\ \A i \in DOMAIN q : i # 1 => 1 < i
  /\ \A i, j \in DOMAIN r : i < j => \E k, l \in DOMAIN q : k < l /\ r[i] = q[k] /\ r[j] = q[l]

\* The head of a list and the rest.
LEMMA QueueHead ==
  ASSUME NEW T, NEW q \in Seq(T), q # << >>, NEW h, h = Head(q), NEW rest, rest = Tail(q)
  PROVE  h \in T /\ rest \in Seq(T) /\ IsPopped(h, rest, q)
<1>1. PICK n : n = Len(q)
  OBVIOUS
<1>2. /\ n \in Nat \ {0} /\ DOMAIN q = 1 .. n /\ h = q[1] /\ h \in T
      /\ rest \in Seq(T) /\ DOMAIN rest = 1 .. n - 1
      /\ \A i \in 1 .. n - 1 : rest[i] = q[i + 1]
  BY <1>1, HeadTailProperties, LenProperties
<1>3. \A i \in 1 .. n - 1 : i + 1 \in 1 .. n /\ i + 1 # 1 /\ rest[i] = q[i + 1]
  BY <1>2
<1>4. 1 \in 1 .. n /\ \A i \in 1 .. n : i # 1 => 1 < i /\ i - 1 \in 1 .. n - 1 /\ rest[i - 1] = q[i]
  BY <1>2
<1>5. IsInjective(q) => IsInjective(rest) /\ h \notin Range(rest)
  <2> SUFFICES ASSUME IsInjective(q) PROVE IsInjective(rest) /\ h \notin Range(rest)
    OBVIOUS
  <2>1. \A i, j \in 1 .. n : q[i] = q[j] => i = j
    BY <1>2 DEF IsInjective
  <2>2. \A i, j \in 1 .. n - 1 : rest[i] = rest[j] => i = j
    BY <1>2, <1>3, <2>1
  <2>3. \A i \in 1 .. n - 1 : rest[i] # h
    BY <1>2, <1>3, <1>4, <2>1
  <2> QED
    BY <1>2, <2>2, <2>3 DEF IsInjective, Range
<1>6. Range(q) = {h} \union Range(rest)
  <2>1. \A i \in 1 .. n - 1 : rest[i] \in Range(q)
    BY <1>2, <1>3 DEF Range
  <2>2. Range(rest) \subseteq Range(q) /\ h \in Range(q)
    BY <1>2, <1>4, <2>1 DEF Range
  <2>3. \A i \in 1 .. n : q[i] \in {h} \union Range(rest)
    BY <1>2, <1>4 DEF Range
  <2>4. Range(q) \subseteq {h} \union Range(rest)
    BY <1>2, <2>3 DEF Range
  <2> QED
    BY <2>2, <2>4
<1>7. ASSUME NEW i \in DOMAIN rest, NEW j \in DOMAIN rest, i < j
      PROVE  \E k, l \in DOMAIN q : k < l /\ rest[i] = q[k] /\ rest[j] = q[l]
  <2>1. i + 1 < j + 1 /\ i + 1 \in DOMAIN q /\ j + 1 \in DOMAIN q /\ rest[i] = q[i + 1] /\ rest[j] = q[j + 1]
    BY <1>2, <1>3, <1>7
  <2> QED
    BY <2>1
<1> QED
  BY <1>2, <1>4, <1>5, <1>6, <1>7 DEF IsPopped

\* The search leaves h, whose edges m follow those that are out and whose new
\* neighbors f go to the end of the queue.
Leaving(v, q, o, h, r, m, f, near, p, y) ==
  /\ v \subseteq Vertex /\ Range(q) \subseteq v /\ h \in v
  /\ IsInjective(r) /\ h \notin Range(r) /\ Range(q) = {h} \union Range(r)
  /\ \A x \in Range(q) : NotAfter(h, x)
  /\ \A i, j \in DOMAIN r : i < j => NotAfter(r[i], r[j])
  /\ \A e \in Range(o) : e \in 0 .. EdgeCount - 1
  /\ \A e \in 0 .. EdgeCount - 1 : \A u \in Ends(e) : u \in v /\ u \notin Range(q) => e \in Range(o)
  /\ near = {w \in Vertex \ {h} : \E e \in 0 .. EdgeCount - 1 : h \in Ends(e) /\ w \in Ends(e)}
  /\ Range(m) = {e \in 0 .. EdgeCount - 1 : h \in Ends(e)} \ Range(o)
  /\ Range(f) = near \ v
  /\ Range(p) = Range(r) \union Range(f) /\ IsInjective(p) /\ Joined(p, r, f)
  /\ Range(y) = Range(o) \union Range(m) /\ Joined(y, o, m)

\* Then it stays in order.
LEMMA LeaveInOrder ==
  ASSUME Types, NEW v, NEW q, NEW o, InOrder(v, q, o),
         NEW h, NEW r, NEW m, NEW f, NEW near, NEW p, NEW y,
         Leaving(v, q, o, h, r, m, f, near, p, y)
  PROVE  InOrder(v \union near, p, y)
<1>0. /\ v \subseteq Vertex /\ Range(q) \subseteq v /\ h \in v
      /\ IsInjective(r) /\ h \notin Range(r) /\ Range(q) = {h} \union Range(r)
      /\ \A x \in Range(q) : NotAfter(h, x)
      /\ \A i, j \in DOMAIN r : i < j => NotAfter(r[i], r[j])
      /\ \A e \in Range(o) : e \in 0 .. EdgeCount - 1
      /\ \A e \in 0 .. EdgeCount - 1 : \A u \in Ends(e) : u \in v /\ u \notin Range(q) => e \in Range(o)
      /\ near = {w \in Vertex \ {h} : \E e \in 0 .. EdgeCount - 1 : h \in Ends(e) /\ w \in Ends(e)}
      /\ Range(m) = {e \in 0 .. EdgeCount - 1 : h \in Ends(e)} \ Range(o)
      /\ Range(f) = near \ v
      /\ Range(p) = Range(r) \union Range(f) /\ IsInjective(p) /\ Joined(p, r, f)
      /\ Range(y) = Range(o) \union Range(m) /\ Joined(y, o, m)
  BY DEF Leaving
<1> USE <1>0
<1>1. h \in Vertex /\ h \in Range(q)
  OBVIOUS
<1>2. PICK L : L = v \ Range(q)
  OBVIOUS
<1>3. /\ \A k \in DOMAIN o : \E u \in Ends(o[k]) : u \in L
      /\ \A e \in 0 .. EdgeCount - 1 : \A u, w \in Ends(e) : u \in L => w \in v
      /\ \A u \in L, w \in Vertex \ L : NotAfter(u, w)
      /\ \A u \in v, w \in Vertex \ v : NotAfter(u, w)
      /\ InSearchOrder(o)
  BY <1>2 DEF InOrder
<1>4. \A e \in Range(o) : \E u \in Ends(e) : u \in L
  BY <1>3 DEF Range
<1>5. PICK M, x : M = L \union {h} /\ x = v \union near
  OBVIOUS
<1>6. x \ Range(p) = M /\ L \subseteq v
  BY <1>2, <1>5
<1>7. \A e \in 0 .. EdgeCount - 1 : \A u, w \in Ends(e) : u \in M => w \in x
  <2> TAKE e \in 0 .. EdgeCount - 1
  <2> TAKE u, w \in Ends(e)
  <2> HAVE u \in M
  <2>1. w \in Vertex
    BY EndsAreVertices
  <2> QED
    BY <1>3, <1>5, <2>1
<1>8. \A w \in Vertex \ L : NotAfter(h, w)
  <2> TAKE w \in Vertex \ L
  <2>1. w \in Range(q) \/ w \notin v
    BY <1>2
  <2> QED
    BY <1>3, <2>1
<1>9. \A u \in M, w \in Vertex \ M : NotAfter(u, w)
  BY <1>3, <1>5, <1>8
<1>10. Root[h] \in Nat /\ Distance[h] \in Nat
  BY <1>1, RankNumbers
<1>11. \A w \in near \ v : w \in Vertex /\ Root[w] = Root[h] /\ Distance[w] = Distance[h] + 1
  <2> TAKE w \in near \ v
  <2>1. PICK e \in 0 .. EdgeCount - 1 : h \in Ends(e) /\ w \in Ends(e)
    OBVIOUS
  <2>2. w \in Vertex /\ Root[h] = Root[w] /\ Distance[w] <= Distance[h] + 1
    BY <2>1, EdgeFacts
  <2>3. Distance[w] \in Nat /\ Distance[h] + 1 <= Distance[w]
    BY <1>1, <2>2, Farther
  <2> QED
    BY <1>10, <2>2, <2>3
<1>12. \A u \in x, w \in Vertex \ x : NotAfter(u, w)
  <2> TAKE u \in x, w \in Vertex \ x
  <2>1. w \in Vertex \ v
    BY <1>5
  <2>2. CASE u \in v
    BY <1>3, <2>1, <2>2
  <2>3. CASE u \in near \ v
    <3>1. Root[u] = Root[h] /\ Distance[u] = Distance[h] + 1
      BY <1>11, <2>3
    <3>2. /\ Root[h] <= Root[w] /\ Root[w] \in Nat /\ Distance[w] \in Nat
          /\ Root[h] = Root[w] => Distance[h] + 1 <= Distance[w]
      BY <1>1, <2>1, Farther
    <3> QED
      BY <1>10, <3>1, <3>2 DEF NotAfter
  <2> QED
    BY <1>5, <2>2, <2>3
<1>13. \A i, j \in DOMAIN p : i < j => NotAfter(p[i], p[j])
  <2> TAKE i, j \in DOMAIN p
  <2> HAVE i < j
  <2>4. \/ i \in DOMAIN r /\ j \in DOMAIN r /\ p[i] = r[i] /\ p[j] = r[j]
        \/ p[i] \in Range(r) /\ p[j] \in Range(f)
        \/ p[i] \in Range(f) /\ p[j] \in Range(f)
    BY DEF Joined
  <2>1. CASE i \in DOMAIN r /\ j \in DOMAIN r /\ p[i] = r[i] /\ p[j] = r[j]
    BY <2>1
  <2>2. CASE p[i] \in Range(r) /\ p[j] \in Range(f)
    <3>1. p[i] \in v /\ p[j] \in Vertex \ v
      BY <2>2
    <3> QED
      BY <1>3, <3>1
  <2>3. CASE p[i] \in Range(f) /\ p[j] \in Range(f)
    <3>1. PICK a, b : a = p[i] /\ b = p[j]
      OBVIOUS
    <3>2. a \in near \ v /\ b \in near \ v
      BY <2>3, <3>1
    <3>3. Root[a] = Root[b] /\ Distance[a] = Distance[b] /\ Distance[a] \in Nat
      BY <1>10, <1>11, <3>2
    <3>4. NotAfter(a, b)
      BY <3>3 DEF NotAfter
    <3> QED
      BY <3>1, <3>4
  <2> QED
    BY <2>1, <2>2, <2>3, <2>4
<1>14. \A e \in Range(m) :
         e \in 0 .. EdgeCount - 1 /\ h \in Ends(e) /\ EdgeRoot(e) = Root[h] /\ EdgeDepth(e) = Distance[h]
  <2> TAKE e \in Range(m)
  <2>1. e \in 0 .. EdgeCount - 1 /\ h \in Ends(e) /\ e \notin Range(o)
    OBVIOUS
  <2>2. \A w \in Ends(e) : Distance[h] <= Distance[w]
    <3> TAKE w \in Ends(e)
    <3>1. w \in Vertex /\ Root[h] = Root[w]
      BY <2>1, EdgeFacts
    <3>2. w \notin L
      BY <1>2, <2>1
    <3>3. NotAfter(h, w)
      BY <1>8, <3>1, <3>2
    <3> QED
      BY <1>10, <3>1, <3>3 DEF NotAfter
  <2> QED
    BY <2>1, <2>2, EdgeRank
<1>15. \A e \in Range(y) : \E u \in Ends(e) : u \in M
  BY <1>4, <1>5, <1>14
<1>16. \A k \in DOMAIN y : \E u \in Ends(y[k]) : u \in M
  BY <1>15 DEF Range
<1>17. ASSUME NEW e \in Range(o), NEW g \in Range(m)
       PROVE  EdgeNotAfter(e, g)
  <2>1. PICK u \in Ends(e) : u \in L
    BY <1>4
  <2>2. NotAfter(u, h)
    BY <1>1, <1>2, <1>3, <2>1
  <2>3. /\ EdgeRoot(e) = Root[u] /\ Root[u] \in Nat
        /\ EdgeDepth(e) \in Nat /\ EdgeDepth(e) <= Distance[u] /\ Distance[u] \in Nat
    BY EdgeRank
  <2>4. EdgeRoot(g) = Root[h] /\ EdgeDepth(g) = Distance[h]
    BY <1>14
  <2> QED
    BY <1>10, <2>2, <2>3, <2>4 DEF EdgeNotAfter, NotAfter
<1>18. ASSUME NEW e \in Range(m), NEW g \in Range(m)
       PROVE  EdgeNotAfter(e, g)
  <2>1. EdgeRoot(e) = EdgeRoot(g) /\ EdgeDepth(e) = EdgeDepth(g) /\ EdgeDepth(e) \in Nat
    BY <1>10, <1>14
  <2> QED
    BY <2>1 DEF EdgeNotAfter
<1>19. InSearchOrder(y)
  <2> SUFFICES ASSUME NEW i \in DOMAIN y, NEW j \in DOMAIN y, i < j
               PROVE  EdgeNotAfter(y[i], y[j])
    BY DEF InSearchOrder
  <2>4. \/ i \in DOMAIN o /\ j \in DOMAIN o /\ y[i] = o[i] /\ y[j] = o[j]
        \/ y[i] \in Range(o) /\ y[j] \in Range(m)
        \/ y[i] \in Range(m) /\ y[j] \in Range(m)
    BY DEF Joined
  <2>1. CASE i \in DOMAIN o /\ j \in DOMAIN o /\ y[i] = o[i] /\ y[j] = o[j]
    BY <1>3, <2>1 DEF InSearchOrder
  <2>2. CASE y[i] \in Range(o) /\ y[j] \in Range(m)
    BY <1>17, <2>2
  <2>3. CASE y[i] \in Range(m) /\ y[j] \in Range(m)
    BY <1>18, <2>3
  <2> QED
    BY <2>1, <2>2, <2>3, <2>4
<1>20. InOrder(x, p, y)
  BY <1>6, <1>7, <1>9, <1>12, <1>13, <1>16, <1>19 DEF InOrder
<1> QED
  BY <1>5, <1>20

----------------------------------------------------------------------------
(* Every step of the program keeps the order of the search.                *)

\* The order only depends on the graph.
LEMMA SameGraph ==
  ASSUME edges' = edges
  PROVE  /\ \A v, q, o : InOrder(v, q, o) => InOrder(v, q, o)'
         /\ \A q : InSearchOrder(q) => InSearchOrder(q)'
<1>1. Root' = Root
  BY DEF Root, Ball, Grown, Ends, EdgeCount
<1>2. Distance' = Distance
  BY DEF Distance, Root, Ball, Grown, Ends, EdgeCount
<1>3. \A e : Ends(e)' = Ends(e)
  BY DEF Ends
<1>4. EdgeCount' = EdgeCount
  BY DEF EdgeCount
<1>5. \A q : InSearchOrder(q)' <=> InSearchOrder(q)
  <2>1. \A e : EdgeRoot(e)' = EdgeRoot(e)
    BY <1>1, <1>3 DEF EdgeRoot
  <2>2. \A e : EdgeDepth(e)' = EdgeDepth(e)
    <3> TAKE e
    <3>1. Ends(e)' = Ends(e)
      BY <1>3
    <3> QED
      BY <1>2, <3>1 DEF EdgeDepth
  <2>3. \A e, f : EdgeNotAfter(e, f)' <=> EdgeNotAfter(e, f)
    BY <2>1, <2>2 DEF EdgeNotAfter
  <2> QED
    BY <2>3 DEF InSearchOrder
<1>6. \A u, w : NotAfter(u, w)' <=> NotAfter(u, w)
  BY <1>1, <1>2 DEF NotAfter
<1> QED
  BY <1>3, <1>4, <1>5, <1>6 DEF InOrder

\* Nothing has been searched at the start.
LEMMA SearchInit == Init => SearchInv
BY DEF Init, SearchInv

\* The search starts with nothing visited.
LEMMA StartBfsInOrder == GInv /\ StartBfs => SearchInv'
<1> SUFFICES ASSUME GInv, StartBfs
             PROVE  SearchInv'
  OBVIOUS
<1>1. visited' = {} /\ queue' = << >> /\ order' = << >> /\ stage' = "bfs"
  BY DEF GInv, Progress, StartBfs, bfs_vars
<1>2. DOMAIN << >> = {}
  OBVIOUS
<1>3. InOrder(visited, queue, order)'
  BY <1>1, <1>2 DEF InOrder, InSearchOrder, IsInjective, Range
<1> QED
  BY <1>1, <1>3 DEF SearchInv

\* A component starts with the least vertex not visited, which is its root:
\* what has been visited is closed.
LEMMA StartComponentInOrder == GInv /\ SearchInv /\ StartComponent => SearchInv'
<1> SUFFICES ASSUME GInv, SearchInv, StartComponent
             PROVE  SearchInv'
  OBVIOUS
<1>1. /\ Types /\ edges' = edges /\ stage = "bfs" /\ stage' = "bfs"
      /\ queue = << >> /\ visited \subseteq Vertex /\ visited # Vertex /\ order' = order
  BY DEF GInv, Types, StartComponent, graph_vars
<1>2. PICK r, v, o : r = Min(Vertex \ visited) /\ v = visited /\ o = order
  OBVIOUS
<1>3. visited' = v \union {r} /\ queue' = <<r>>
  BY <1>2 DEF StartComponent
<1>4. V \in Nat /\ Vertex \subseteq Nat
  BY GraphSpacesAssumption DEF Vertex
<1>5. r \in Vertex \ v /\ \A w \in Vertex \ v : r <= w
  <2>1. Vertex \ v \in SUBSET Nat /\ Vertex \ v # {}
    BY <1>1, <1>2, <1>4
  <2> QED
    BY <1>2, <2>1, MinLeast
<1>6. PICK q : q = <<r>>
  OBVIOUS
<1>7. DOMAIN q = {1} /\ q[1] = r /\ Range(q) = {r} /\ DOMAIN << >> = {}
  BY <1>6 DEF Range
<1>8. Range(<< >>) = {}
  BY <1>7 DEF Range
<1>9. /\ \A k \in DOMAIN o : \E u \in Ends(o[k]) : u \in v
      /\ \A e \in 0 .. EdgeCount - 1 : \A u, w \in Ends(e) : u \in v => w \in v
      /\ \A u \in v, w \in Vertex \ v : NotAfter(u, w)
      /\ InSearchOrder(o)
  BY <1>1, <1>2, <1>8 DEF SearchInv, InOrder
<1>10. ASSUME NEW w \in Vertex \ (v \union {r})
       PROVE  NotAfter(r, w)
  <2>1. Closed(Vertex \ v)
    BY <1>1, <1>9, OutsideClosed DEF Closed
  <2>2. w \in Vertex \ v /\ w \in Vertex /\ r \in Vertex /\ Vertex \ v \in SUBSET Vertex
    BY <1>5
  <2>3. Ball(r, V) \subseteq Vertex \ v /\ Ball(w, V) \subseteq Vertex \ v
    BY <1>1, <1>5, <2>1, <2>2, BallLeast
  <2>4. Root[r] \in Vertex \ v /\ Root[w] \in Vertex \ v
    BY <1>1, <2>2, <2>3, RootFacts
  <2>5. r <= Root[r] /\ r <= Root[w]
    BY <1>5, <2>4
  <2>6. Root[r] <= r
    <3>1. r \in Ball(r, V)
      BY <1>1, <1>4, <2>2, BallFacts
    <3> QED
      BY <1>1, <2>2, <3>1, RootFacts
  <2>7. Root[r] \in Nat /\ Root[w] \in Nat /\ Distance[w] \in Nat /\ r \in Nat
    BY <1>1, <1>4, <2>2, RankNumbers
  <2>8. Root[r] = r
    BY <2>5, <2>6, <2>7
  <2>9. Distance[r] = 0
    BY <1>1, <2>2, <2>8, NearerNeighbor
  <2> QED
    BY <2>5, <2>7, <2>8, <2>9 DEF NotAfter
<1>11. PICK x : x = v \union {r}
  OBVIOUS
<1>12. x \ Range(q) = v
  BY <1>5, <1>7, <1>11
<1>13. \A u \in x, w \in Vertex \ x : NotAfter(u, w)
  BY <1>9, <1>10, <1>11
<1>14. IsInjective(q) /\ \A i, j \in DOMAIN q : ~(i < j)
  BY <1>7 DEF IsInjective
<1>15. \A e \in 0 .. EdgeCount - 1 : \A u, w \in Ends(e) : u \in v => w \in x
  BY <1>9, <1>11
<1>16. InOrder(x, q, o)
  BY <1>9, <1>12, <1>13, <1>14, <1>15 DEF InOrder
<1>17. InOrder(x, q, o)'
  BY <1>1, <1>16, SameGraph
<1>18. visited' = x /\ queue' = q /\ order' = o
  BY <1>1, <1>2, <1>3, <1>6, <1>11
<1> QED
  BY <1>1, <1>17, <1>18 DEF SearchInv

\* A vertex is left.
LEMMA VisitVertexInOrder == GInv /\ SearchInv /\ VisitVertex => SearchInv'
<1> SUFFICES ASSUME GInv, SearchInv, VisitVertex
             PROVE  SearchInv'
  OBVIOUS
<1>1. /\ Types /\ IsSimple(edges) /\ edges' = edges /\ stage = "bfs" /\ stage' = "bfs"
      /\ queue \in Seq(Vertex) /\ queue # << >> /\ visited \subseteq Vertex /\ Range(queue) \subseteq visited
      /\ order \in Seq(Nat) /\ EdgeCount \in Nat
  BY LenProperties DEF GInv, Types, Reading, VisitVertex, graph_vars, EdgeCount
<1>2. PICK v, q, o : v = visited /\ q = queue /\ o = order
  OBVIOUS
<1>3. PICK h, r : h = Head(q) /\ r = Tail(q)
  OBVIOUS
<1>4. h \in Vertex /\ r \in Seq(Vertex) /\ IsPopped(h, r, q)
  <2>1. q \in Seq(Vertex) /\ q # << >>
    BY <1>1, <1>2
  <2> QED
    BY <1>3, <2>1, QueueHead
<1>5. InOrder(v, q, o)
  BY <1>1, <1>2 DEF SearchInv
<1>6. IsInjective(r) /\ h \notin Range(r) /\ \A i, j \in DOMAIN r : i < j => NotAfter(r[i], r[j])
  BY <1>4, <1>5 DEF InOrder, IsPopped
<1>7. \A x \in Range(q) : NotAfter(h, x)
  <2>1. NotAfter(h, h)
    BY <1>1, <1>4, RankNumbers DEF NotAfter
  <2>2. \A i \in DOMAIN q : NotAfter(h, q[i])
    BY <1>4, <1>5, <2>1 DEF InOrder, IsPopped
  <2> QED
    BY <2>2 DEF Range
<1>8. PICK m, n, f : m = NotYet(Incident(h), Range(o)) /\ n = Neighbors(h) /\ f = NotYet(n, v)
  OBVIOUS
<1>9. PICK near : near = Range(n)
  OBVIOUS
<1>10. PICK p, x, y : p = r \o f /\ x = v \union near /\ y = o \o m
  OBVIOUS
<1>11. order' = y /\ queue' = p /\ visited' = x
  BY <1>2, <1>3, <1>8, <1>9, <1>10 DEF VisitVertex
<1>12. m \in Seq(Nat) /\ Range(m) = {e \in 0 .. EdgeCount - 1 : h \in Ends(e)} \ Range(o)
  <2>1. /\ Incident(h) \in Seq(0 .. EdgeCount - 1)
        /\ Range(Incident(h)) = {e \in 0 .. EdgeCount - 1 : h \in Ends(e)}
    BY <1>1, <1>4, IncidentProperties
  <2>2. m \in Seq(0 .. EdgeCount - 1) /\ Range(m) = Range(Incident(h)) \ Range(o)
    BY <1>8, <2>1, NotYetProperties
  <2>3. 0 .. EdgeCount - 1 \subseteq Nat
    BY <1>1
  <2> QED
    BY <2>1, <2>2, <2>3, SeqMonotonic
<1>13. /\ n \in Seq(Vertex) /\ IsInjective(n)
       /\ near = {w \in Vertex \ {h} : \E e \in 0 .. EdgeCount - 1 : h \in Ends(e) /\ w \in Ends(e)}
  BY <1>1, <1>4, <1>8, <1>9, NeighborsFacts
<1>14. f \in Seq(Vertex) /\ Range(f) = near \ v /\ IsInjective(f)
  <2>1. f \in Seq(Vertex) /\ Range(f) = Range(n) \ v /\ (IsInjective(n) => IsInjective(f))
    BY <1>8, <1>13, NotYetProperties, Zenon
  <2> QED
    BY <1>9, <1>13, <2>1
<1>15. Range(p) = Range(r) \union Range(f) /\ IsInjective(p)
  <2>1. Range(r) \intersect Range(f) = {}
    BY <1>1, <1>2, <1>4, <1>14 DEF IsPopped
  <2> QED
    BY <1>4, <1>6, <1>10, <1>14, <2>1, ConcatRange
<1>16. Range(y) = Range(o) \union Range(m)
  BY <1>1, <1>2, <1>10, <1>12, ConcatRange
<1>17. Joined(p, r, f)
  BY <1>4, <1>10, <1>14, ConcatPairs, Zenon
<1>18. Joined(y, o, m)
  BY <1>1, <1>2, <1>10, <1>12, ConcatPairs, Zenon
<1>19. /\ \A e \in Range(o) : e \in 0 .. EdgeCount - 1
       /\ \A e \in 0 .. EdgeCount - 1 : \A u \in Ends(e) : u \in v /\ u \notin Range(q) => e \in Range(o)
  BY <1>1, <1>2 DEF GInv, Searching
<1>20. h \in v /\ v \subseteq Vertex /\ Range(q) \subseteq v
  BY <1>1, <1>2, <1>4 DEF IsPopped
<1>21. InOrder(v \union near, p, y)
  <2>1. Range(q) = {h} \union Range(r)
    BY <1>4 DEF IsPopped
  <2>2. Leaving(v, q, o, h, r, m, f, near, p, y)
    BY <1>6, <1>7, <1>12, <1>13, <1>14, <1>15, <1>16, <1>17, <1>18, <1>19, <1>20, <2>1 DEF Leaving
  <2> QED
    BY <1>1, <1>5, <2>2, LeaveInOrder
<1>22. InOrder(x, p, y)'
  BY <1>1, <1>10, <1>21, SameGraph
<1> QED
  BY <1>1, <1>11, <1>22 DEF SearchInv

\* At the end all edges are out, in order; no other step has to do with it.
LEMMA SearchStep == GInv /\ SearchInv /\ [Next]_vars => SearchInv'
<1> SUFFICES ASSUME GInv, SearchInv, [Next]_vars
             PROVE  SearchInv'
  OBVIOUS
<1>1. CASE FinishBfs
  <2>1. edges' = edges /\ stage = "bfs" /\ stage' = "validate" /\ order' = order
    BY <1>1 DEF FinishBfs, graph_vars
  <2>2. PICK o : o = order
    OBVIOUS
  <2>3. InSearchOrder(o)
    BY <2>1, <2>2 DEF SearchInv, InOrder
  <2>4. InSearchOrder(o)'
    BY <2>1, <2>3, SameGraph
  <2> QED
    BY <2>1, <2>2, <2>4 DEF SearchInv
<1>2. CASE UNCHANGED vars
  <2>1. /\ edges' = edges /\ stage' = stage /\ strategy' = strategy
        /\ order' = order /\ visited' = visited /\ queue' = queue
    BY <1>2 DEF vars, graph_vars, bfs_vars
  <2>2. PICK v, q, o : v = visited /\ q = queue /\ o = order
    OBVIOUS
  <2>3. /\ stage = "bfs" => InOrder(v, q, o)
        /\ stage = "validate" /\ strategy = "bfs" => InSearchOrder(o)
    BY <2>2 DEF SearchInv
  <2>4. /\ stage = "bfs" => InOrder(v, q, o)'
        /\ stage = "validate" /\ strategy = "bfs" => InSearchOrder(o)'
    BY <2>1, <2>3, SameGraph
  <2> QED
    BY <2>1, <2>2, <2>4 DEF SearchInv
<1>3. ASSUME \/ AddEdge \/ RefuseEdge \/ FinishGraph \/ ListEdges \/ TrustOrder \/ FailOrdering
             \/ AcceptOrder \/ RefuseOrder
             \/ RefuseSpace \/ CreateSpace \/ RefuseLevel \/ Panic \/ MapEdge \/ FinishSpace
      PROVE  SearchInv'
  <2>1. stage' # "bfs" /\ (stage' = "validate" => strategy' # "bfs")
    BY <1>3 DEF AddEdge, ReadingGraph, RefuseEdge, FinishGraph, ListEdges, TrustOrder, FailOrdering,
       AcceptOrder, RefuseOrder, RefuseSpace, CreateSpace, RefuseLevel, Panic, MapEdge, Mapping, FinishSpace, Return
  <2> QED
    BY <2>1 DEF SearchInv
<1> QED
  BY <1>1, <1>2, <1>3, StartBfsInOrder, StartComponentInOrder, VisitVertexInOrder DEF Next

----------------------------------------------------------------------------
(* Theorems.                                                               *)

\* The invariant of the way from pairs of endpoints to a space.
THEOREM Invariance == Spec => []GInv
BY Initially, Preserved, PTL DEF Spec

\* Graph::from_edges accepts exactly the simple graphs, EdgeOrder::new exactly
\* the permutations of all edges, and the built-in strategies, the breadth first
\* search among them, always return one.
THEOREM SimpleGraphsAndPermutations == Spec => []AcceptsExactly
<1>1. GInv => AcceptsExactly
  BY DEF GInv
<1> QED
  BY <1>1, Invariance, PTL

\* A graph space has two maps that are inverse bijections, whatever order a
\* strategy returns, and once there is an order of all edges nothing but the
\* node limit refuses it.
THEOREM SpaceMapsAreInverse == Spec => []MapsInverse
<1>1. GInv => MapsInverse
  BY DEF GInv
<1> QED
  BY <1>1, Invariance, PTL
\* BfsOrder emits the edges component by component and by their distance.
THEOREM SearchIsBreadthFirst == Spec => []BreadthFirst
<1>1. Init => SearchInv
  BY SearchInit
<1>2. GInv /\ SearchInv /\ [Next]_vars => SearchInv'
  BY SearchStep
<1>3. GInv /\ SearchInv => BreadthFirst
  <2> SUFFICES ASSUME GInv, SearchInv, strategy = "bfs", stage = "validate"
               PROVE  /\ Len(order) = EdgeCount /\ IsOrder(order)
                      /\ \A i, j \in DOMAIN order : i < j => EdgeNotAfter(order[i], order[j])
    BY DEF BreadthFirst, EdgeNotAfter, EdgeRoot, EdgeDepth
  <2>1. Len(order) = EdgeCount /\ IsOrder(order)
    BY DEF GInv, Ordered, GoodOrder
  <2> QED
    BY <2>1 DEF SearchInv, InSearchOrder
<1> QED
  BY <1>1, <1>2, <1>3, Invariance, PTL DEF Spec

=============================================================================
