--------------------------- MODULE FrontierStates ---------------------------
(***************************************************************************)
(* What the states of the three built-in problems have in common: one      *)
(* entry per frontier slot, grown for the endpoints of a step, truncated   *)
(* to the slots still in use, and component labels renumbered in slot      *)
(* order.  Slot s is position s + 1 of a sequence.                         *)
(***************************************************************************)
EXTENDS Integers, Sequences, FiniteSets, FiniteSetsExt

NoComponent == -1

Position(step, k) == step.endpoint_slots[k] + 1
EndPositions(step) == {Position(step, 1), Position(step, 2)}

\* slots.resize to hold both endpoints.
Grow(slots, step, default) ==
  [p \in 1 .. Max(EndPositions(step) \union {Len(slots)}) |->
     IF p <= Len(slots) THEN slots[p] ELSE default]

\* slots.truncate to the highest slot of the next frontier.
Truncate(slots, view) ==
  LET used == {s + 1 : s \in {s \in DOMAIN view : view[s] # NoComponent}} \union {0}
  IN SubSeq(slots, 1, Min({Max(used), Len(slots)}))

IsListed(v, list) == \E k \in DOMAIN list : list[k] = v

\* Positions of the vertices a step introduces or forgets.
PositionsOf(step, list) ==
  {Position(step, k) : k \in {j \in 1 .. 2 : IsListed(step.endpoints[j], list)}}

\* introduce: entries of vertices that enter start from the default.
Introduced(slots, step, default) ==
  LET grown == Grow(slots, step, default)
  IN [p \in DOMAIN grown |->
        IF p \in PositionsOf(step, step.introduced) THEN default ELSE grown[p]]

Components(slots) == {slots[p].component : p \in DOMAIN slots} \ {NoComponent}

\* next_component: one more than the largest label in use.
NextComponent(slots) == IF Components(slots) = {} THEN 0 ELSE Max(Components(slots)) + 1

\* first.component.or(second.component), or a new label.
JoinedComponent(slots, a, b) ==
  IF slots[a].component # NoComponent THEN slots[a].component
  ELSE IF slots[b].component # NoComponent THEN slots[b].component
  ELSE NextComponent(slots)

\* canonicalize: labels are renumbered by their first slot.
Renumbered(slots) ==
  LET First(c) == Min({p \in DOMAIN slots : slots[p].component = c})
      Label(c) == Cardinality(Components(SubSeq(slots, 1, First(c) - 1)))
  IN [p \in DOMAIN slots |->
        IF slots[p].component = NoComponent THEN slots[p]
        ELSE [slots[p] EXCEPT !.component = Label(@)]]
=============================================================================
