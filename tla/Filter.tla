------------------------------- MODULE Filter -------------------------------
(***************************************************************************)
(* The filters of a family (SetFamily::filter_* and CardinalityFilter):    *)
(* one work-stack engine, ZddManager::filter, for five predicates.  A key  *)
(* is a root together with what the predicate still has to see: how many   *)
(* required elements were met (position) or how many elements may follow   *)
(* (lower, upper).                                                         *)
(*                                                                         *)
(* The engine touches no shared table, so one call is modelled on its own; *)
(* the other users of the node store appear as the choice whether a new    *)
(* node still fits.                                                        *)
(***************************************************************************)
EXTENDS Families, Sequences

CONSTANTS
  Sources,    \* families that are filtered
  Requests,   \* calls of the filter methods
  MemoLimit   \* Limits::max_operation_memo_entries

\* element = N and bounds above N are arguments the methods have to refuse or
\* cut: VariableId of a larger space, any usize.
Request ==
  [kind : {"contains", "excludes"}, elements : {{e} : e \in 0 .. N}, lower : {0}, upper : {0}] \union
  [kind : {"subsets", "supersets"}, elements : SUBSET (0 .. N), lower : {0}, upper : {0}] \union
  [kind : {"at_most"}, elements : {{}}, lower : {0}, upper : Nat] \union
  [kind : {"at_least"}, elements : {{}}, lower : Nat, upper : {0}] \union
  [kind : {"between"}, elements : {{}}, lower : Nat, upper : Nat]

ASSUME FilterAssumption ==
  /\ Sources \subseteq Family
  /\ Requests \subseteq Request
  /\ MemoLimit \in Nat

VARIABLES
  source,    \* the family of the call
  request,   \* the call
  pc,        \* "called", "work" or "returned"
  memo,      \* memo_keys
  results,   \* results, a partial function of keys
  work,      \* the stack of work, its top first
  outcome    \* how the call ended

vars == <<source, request, pc, memo, results, work, outcome>>

Key == [root : Family, position : Nat, lower : Nat, upper : Nat]

Outcome ==
  [kind : {"none", "ok", "invalid_element", "invalid_range", "memo_limit", "node_limit"}, value : Family]

Ok(F) == [kind |-> "ok", value |-> F]
Failed(k) == [kind |-> k, value |-> Zero]

Least(a, b) == IF a <= b THEN a ELSE b

----------------------------------------------------------------------------
(* The methods: arguments are checked, normalised, or answered at once.    *)

InvalidElement(r) == ~(r.elements \subseteq Var)

\* The answers that need no work, an option: the set of at most one outcome.
AnsweredAtOnce(r) ==
  CASE InvalidElement(r) -> {Failed("invalid_element")}
    [] r.kind = "supersets" /\ r.elements = {} -> {Ok(source)}
    [] r.kind = "at_most" /\ r.upper >= N -> {Ok(source)}
    [] r.kind = "at_least" /\ r.lower = 0 -> {Ok(source)}
    [] r.kind = "at_least" /\ r.lower > N -> {Ok(Zero)}
    [] r.kind = "between" /\ r.lower > r.upper -> {Failed("invalid_range")}
    [] r.kind = "between" /\ r.lower <= r.upper /\ r.lower > N -> {Ok(Zero)}
    [] OTHER -> {}

\* FilterSpec::Cardinality of the three methods; the other specs carry (0, 0).
Bounds(r) ==
  CASE r.kind = "at_most"  -> <<0, r.upper>>
    [] r.kind = "at_least" -> <<r.lower, N>>
    [] r.kind = "between"  -> <<r.lower, Least(r.upper, N)>>
    [] OTHER               -> <<0, 0>>

RootKey ==
  [root |-> source, position |-> 0, lower |-> Bounds(request)[1], upper |-> Bounds(request)[2]]

----------------------------------------------------------------------------
(* The dynamic program on keys.                                            *)

CountsElements == request.kind \in {"at_most", "at_least", "between"}
Requires == request.kind \in {"contains", "supersets"}

\* The required elements that were not met yet, in ascending order.
Missing(k) ==
  {e \in request.elements : Cardinality({d \in request.elements : d < e}) >= k.position}

\* The keys that are answered without a memo entry, an option.
TerminalResult(k) ==
  IF k.root = Zero THEN {Zero}
  ELSE IF Requires /\ Missing(k) = {} THEN {k.root}
  ELSE IF k.root # One THEN {}
  ELSE {IF Requires \/ (CountsElements /\ k.lower # 0) THEN Zero ELSE One}

Top(k) == TopVar(k.root)

Same(k, F) == [k EXCEPT !.root = F]

IsWanted(k) == Requires /\ Top(k) \in Missing(k) /\ \A e \in Missing(k) : Top(k) <= e

\* Keys decided by their variable alone, an option: the variable the predicate
\* waits for is skipped by every set of the root.
Decided(k) ==
  CASE Requires /\ (\E e \in Missing(k) : e < Top(k)) -> {Zero}
    [] request.kind = "excludes" /\ (\A e \in request.elements : e < Top(k)) -> {k.root}
    [] OTHER -> {}

\* Keys that have the result of their LO child: the variable is not allowed.
Dropped(k) ==
  \/ request.kind = "excludes" /\ Top(k) \in request.elements
  \/ request.kind = "subsets" /\ Top(k) \notin request.elements

\* Mutant: the element is not counted against the lower bound.
HiKeyKeepsLower(k) ==
  LET hi == Hi(Top(k), k.root)
  IN CASE IsWanted(k) -> [root |-> hi, position |-> k.position + 1, lower |-> 0, upper |-> 0]
       [] CountsElements /\ k.upper = 0 -> [root |-> Zero, position |-> 0, lower |-> 0, upper |-> 0]
       [] CountsElements /\ k.upper # 0 ->
            [root |-> hi, position |-> 0, lower |-> k.lower, upper |-> k.upper - 1]
       [] OTHER -> Same(k, hi)

\* Mutant: the upper bound is lowered below zero.
HiKeyUnderflow(k) ==
  LET hi == Hi(Top(k), k.root)
  IN CASE IsWanted(k) -> [root |-> hi, position |-> k.position + 1, lower |-> 0, upper |-> 0]
       [] CountsElements ->
            [root |-> hi, position |-> 0, lower |-> IF k.lower = 0 THEN 0 ELSE k.lower - 1, upper |-> k.upper - 1]
       [] OTHER -> Same(k, hi)

\* The key of the HI child: the variable is taken.
HiKey(k) ==
  LET hi == Hi(Top(k), k.root)
  IN CASE IsWanted(k) -> [root |-> hi, position |-> k.position + 1, lower |-> 0, upper |-> 0]
       [] CountsElements /\ k.upper = 0 -> [root |-> Zero, position |-> 0, lower |-> 0, upper |-> 0]
       [] CountsElements /\ k.upper # 0 ->
            [root |-> hi, position |-> 0, lower |-> IF k.lower = 0 THEN 0 ELSE k.lower - 1, upper |-> k.upper - 1]
       [] OTHER -> Same(k, hi)

\* The key of the LO child: nothing is left where the variable was required.
LoKey(k) == Same(k, IF IsWanted(k) THEN Zero ELSE Lo(Top(k), k.root))

Visit(k) == [kind |-> "visit", key |-> k]
MakeItem(k) == [kind |-> "make_node", key |-> k, variable |-> Top(k), hi |-> HiKey(k), lo |-> LoKey(k)]
AliasItem(k) == [kind |-> "alias", key |-> k, child |-> LoKey(k)]

WorkItem ==
  [kind : {"visit"}, key : Key] \union
  [kind : {"make_node"}, key : Key, variable : Var, hi : Key, lo : Key] \union
  [kind : {"alias"}, key : Key, child : Key]

\* Mutant: the alias is followed before its child is computed.
ExpandAliasFirst(k) ==
  IF Dropped(k)
  THEN <<AliasItem(k), Visit(LoKey(k))>>
  ELSE <<Visit(LoKey(k)), Visit(HiKey(k)), MakeItem(k)>>

Expand(k) ==
  IF Dropped(k)
  THEN <<Visit(LoKey(k)), AliasItem(k)>>
  ELSE <<Visit(LoKey(k)), Visit(HiKey(k)), MakeItem(k)>>

Put(f, k, x) == [y \in DOMAIN f \union {k} |-> IF y = k THEN x ELSE f[y]]

Empty == [k \in {} |-> Zero]

----------------------------------------------------------------------------
Init ==
  /\ source \in Sources
  /\ request \in Requests
  /\ pc = "called"
  /\ memo = {}
  /\ results = Empty
  /\ work = << >>
  /\ outcome = Failed("none")

Return(o) ==
  /\ pc' = "returned"
  /\ memo' = {}
  /\ results' = Empty
  /\ work' = << >>
  /\ outcome' = o
  /\ UNCHANGED <<source, request>>

AnswerAtOnce ==
  /\ pc = "called"
  /\ \E o \in AnsweredAtOnce(request) : Return(o)

Start ==
  /\ pc = "called"
  /\ AnsweredAtOnce(request) = {}
  /\ pc' = "work"
  /\ work' = <<Visit(RootKey)>>
  /\ UNCHANGED <<source, request, memo, results, outcome>>

Doing(kind) == pc = "work" /\ work # << >> /\ Head(work).kind = kind

Current == Head(work).key

Record(x) ==
  /\ results' = Put(results, Current, x)
  /\ work' = Tail(work)

Known == Current \in memo \union DOMAIN results

VisitKnown ==
  /\ Doing("visit") /\ Known
  /\ work' = Tail(work)
  /\ UNCHANGED <<source, request, pc, memo, results, outcome>>

VisitTerminal ==
  /\ Doing("visit") /\ ~Known
  /\ \E x \in TerminalResult(Current) : Record(x)
  /\ UNCHANGED <<source, request, pc, memo, outcome>>

\* The key needs a memo entry.
Undecided == Doing("visit") /\ ~Known /\ TerminalResult(Current) = {}

\* Mutant: the entry the limit still allows is refused.
OverMemoLimitEarly ==
  /\ Undecided
  /\ Cardinality(memo) + 1 >= MemoLimit
  /\ Return(Failed("memo_limit"))

OverMemoLimit ==
  /\ Undecided
  /\ Cardinality(memo) = MemoLimit
  /\ Return(Failed("memo_limit"))

VisitDecided ==
  /\ Undecided
  /\ Cardinality(memo) # MemoLimit
  /\ memo' = memo \union {Current}
  /\ \E x \in Decided(Current) : Record(x)
  /\ UNCHANGED <<source, request, pc, outcome>>

VisitExpand ==
  /\ Undecided
  /\ Cardinality(memo) # MemoLimit
  /\ Decided(Current) = {}
  /\ memo' = memo \union {Current}
  /\ work' = Expand(Current) \o Tail(work)
  /\ UNCHANGED <<source, request, pc, results, outcome>>

Combining ==
  /\ Doing("make_node")
  /\ {Head(work).hi, Head(work).lo} \subseteq DOMAIN results

Combined == Node(Head(work).variable, results[Head(work).hi], results[Head(work).lo])

MakeNode ==
  /\ Combining
  /\ Record(Combined)
  /\ UNCHANGED <<source, request, pc, memo, outcome>>

\* The nodes this call and its caller are known to keep alive.
KeptNodes == Nodes(ManagerRoots \union {source} \union {results[k] : k \in DOMAIN results})

\* The node is new and the store is full.
OverNodeLimit ==
  /\ Combining
  /\ results[Head(work).hi] # Zero
  /\ Combined \notin KeptNodes
  /\ Return(Failed("node_limit"))

FollowAlias ==
  /\ Doing("alias")
  /\ Head(work).child \in DOMAIN results
  /\ Record(results[Head(work).child])
  /\ UNCHANGED <<source, request, pc, memo, outcome>>

Finish ==
  /\ pc = "work" /\ work = << >>
  /\ RootKey \in DOMAIN results
  /\ Return(Ok(results[RootKey]))

Next ==
  \/ AnswerAtOnce
  \/ Start
  \/ VisitKnown
  \/ VisitTerminal
  \/ OverMemoLimit
  \/ VisitDecided
  \/ VisitExpand
  \/ MakeNode
  \/ OverNodeLimit
  \/ FollowAlias
  \/ Finish

Spec == Init /\ [][Next]_vars

\* The caller's thread runs until the call returns.
FairSpec == Spec /\ WF_vars(Next)

----------------------------------------------------------------------------
(* Properties.                                                             *)

\* The variables keep their types.
TypeOK ==
  /\ source \in Family
  /\ request \in Request
  /\ pc \in {"called", "work", "returned"}
  /\ memo \subseteq Key
  /\ DOMAIN results \subseteq Key
  /\ \A k \in DOMAIN results : results[k] \in Family
  /\ work \in Seq(WorkItem)
  /\ outcome \in Outcome

\* What each method's doc promises of a set of the source.
Satisfies(S, r) ==
  CASE r.kind = "contains"  -> r.elements \subseteq S
    [] r.kind = "supersets" -> r.elements \subseteq S
    [] r.kind = "excludes"  -> r.elements \intersect S = {}
    [] r.kind = "subsets"   -> S \subseteq r.elements
    [] r.kind = "at_most"   -> Cardinality(S) <= r.upper
    [] r.kind = "at_least"  -> Cardinality(S) >= r.lower
    [] r.kind = "between"   -> Cardinality(S) \in r.lower .. r.upper

\* What a key stands for: the members of its root that satisfy what remains.
Meaning(k) ==
  {S \in k.root :
     CASE Requires -> Missing(k) \subseteq S
       [] request.kind = "excludes" -> request.elements \intersect S = {}
       [] request.kind = "subsets" -> S \subseteq request.elements
       [] CountsElements -> Cardinality(S) \in k.lower .. k.upper}

\* A filter returns exactly the sets of the source that satisfy its predicate,
\* with bounds inside, at and beyond the size of the universe, and refuses
\* exactly the calls whose arguments its doc excludes.  One table serves five
\* predicates, whose keys carry different fields: no entry ever answers a key of
\* another position or of other bounds.
FilterExact ==
  /\ \A k \in DOMAIN results : results[k] = Meaning(k)
  /\ outcome.kind = "ok" => outcome.value = {S \in source : Satisfies(S, request)}
  /\ pc = "returned" =>
       /\ outcome.kind = "invalid_element" <=> InvalidElement(request)
       /\ outcome.kind = "invalid_range" <=> request.kind = "between" /\ request.lower > request.upper

\* The keys the dynamic program needs for a key, and all it needs for a call,
\* found level by level from the root key.
Needs(k) ==
  IF TerminalResult(k) # {} \/ Decided(k) # {} THEN {}
  ELSE IF Dropped(k) THEN {LoKey(k)} ELSE {HiKey(k), LoKey(k)}

Reached[i \in 0 .. N] ==
  IF i = 0 THEN {RootKey} ELSE Reached[i - 1] \union UNION {Needs(k) : k \in Reached[i - 1]}

Subproblems == {k \in Reached[N] : TerminalResult(k) = {}}

\* The memo limit is exact: a call fails with it exactly when the filter has
\* more distinct open subproblems than the limit.  Unlike for apply, nothing
\* another call left behind can change that.
MemoLimitExact ==
  /\ outcome.kind = "memo_limit" => Cardinality(Subproblems) > MemoLimit
  /\ outcome.kind = "ok" /\ AnsweredAtOnce(request) = {} => Cardinality(Subproblems) <= MemoLimit

\* Every call returns: no key is expanded twice, and no `expect` of the engine
\* panics, for a node or an alias finds its children computed, and the empty
\* stack its root key.
CallReturns == <>(pc = "returned")
=============================================================================
