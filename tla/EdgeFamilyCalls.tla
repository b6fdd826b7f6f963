--------------------------- MODULE EdgeFamilyCalls ---------------------------
(***************************************************************************)
(* What EdgeFamily and GraphSpace promise their callers: families of sets  *)
(* of the graph's own edges, whatever edge order a space has chosen.  Two  *)
(* spaces never mix, an unknown edge is refused, a call that fails leaves  *)
(* every family as it was, and compaction copies families into a new space *)
(* of the same order.  Variables, diagrams and walks do not appear; only   *)
(* the lists of edges handed out follow the order of the space.            *)
(***************************************************************************)
EXTENDS Families, SequencesExt

CONSTANTS
  EdgeLists,   \* lists of edge ids a program passes; N is no edge
  SetLists,    \* the arguments of from_edge_sets: lists of such lists
  Solutions,   \* what the graph problems stand for: families of edge sets
  Ranges,      \* cardinality ranges
  MaxCalls     \* bound of the model: calls made

VARIABLES
  orders,      \* per graph space: its edges in variable order
  held,        \* the edge families the program owns, each with its space
  call,        \* the call in progress, or the last one
  busy,        \* whether it is in progress
  answer,      \* its answer
  iterator,    \* an EdgeSolutionIterator, an option
  calls        \* calls made so far

vars == <<orders, held, call, busy, answer, iterator, calls>>

Edge == 0 .. N - 1

Comparisons == {"equivalent", "is_subset_of"}
ListFilters == {"filter_subsets_of", "filter_supersets_of"}
EdgeFilters == {"filter_contains", "filter_excludes"}

----------------------------------------------------------------------------
(* Calls and answers.                                                      *)

NoRange == <<0, 0>>

Request(op, space, on, lists, range, target) ==
  [op |-> op, space |-> space, on |-> on, lists |-> lists, range |-> range, target |-> target]

Plain(op, space, on) == Request(op, space, on, << >>, NoRange, Zero)
Listing(op, space, on, lists) == Request(op, space, on, lists, NoRange, Zero)

\* The calls a program can make that holds the families H and k spaces.
Requests(H, k) ==
  {Plain(op, c, << >>) : op \in {"empty", "unit", "powerset"}, c \in 1 .. k}
  \union {Listing("from_edge_sets", c, << >>, q) : q \in SetLists, c \in 1 .. k}
  \union {Request("build", c, << >>, << >>, NoRange, F) : F \in Solutions, c \in 1 .. k}
  \union {Plain(op, l.space, <<l, r>>) : op \in Ops \union Comparisons, l \in H, r \in H}
  \union {Listing(op, f.space, <<f>>, <<q>>) : op \in ListFilters \union {"contains"}, f \in H, q \in EdgeLists}
  \union {Listing(op, f.space, <<f>>, <<<<e>>>>) : op \in EdgeFilters, f \in H, e \in 0 .. N}
  \union {Request("cardinality", f.space, <<f>>, << >>, r, Zero) : f \in H, r \in Ranges}
  \union {Plain("sample", f.space, <<f>>) : f \in H}
  \union {Plain("compact", c, on) : c \in 1 .. k, on \in BoundedSeq(H, 2)}

\* An answer: families for the caller, a truth value, or the edges of a solution.
Answer(kind, families, truth, solution) ==
  [kind |-> kind, families |-> families, truth |-> truth, solution |-> solution]

NoAnswer == Answer("none", << >>, FALSE, << >>)
Error(kind) == Answer(kind, << >>, FALSE, << >>)
Gives(fs) == Answer("families", fs, FALSE, << >>)
Truth(b) == Answer("truth", << >>, b, << >>)
Solution(kind, q) == Answer(kind, << >>, FALSE, q)

\* The calls that meet no limit.
Infallible == {"empty", "unit", "powerset", "contains", "equivalent", "compact"}

----------------------------------------------------------------------------
Init ==
  /\ orders \in Seq(Bijection(1 .. N, Edge))
  /\ held = {}
  /\ call = Plain("empty", 1, << >>)
  /\ busy = FALSE
  /\ answer = NoAnswer
  /\ iterator = {}
  /\ calls = 0

Ask ==
  /\ ~busy /\ calls < MaxCalls
  /\ call' \in Requests(held, Len(orders))
  /\ busy' = TRUE
  /\ answer' = NoAnswer
  /\ calls' = calls + 1
  /\ UNCHANGED <<orders, held, iterator>>

\* Both operands, and the space asked to compact them, must be of one space.
Mismatch == \E f \in Range(call.on) : f.space # call.space

Unknown == (UNION {Range(q) : q \in Range(call.lists)}) \ Edge

Refuse ==
  /\ busy
  /\ \/ Mismatch /\ answer' = Error("context_mismatch")
     \/ ~Mismatch /\ Unknown # {} /\ answer' = Error("invalid_edge")
  /\ busy' = FALSE
  /\ UNCHANGED <<orders, held, call, iterator, calls>>

Valid == busy /\ ~Mismatch /\ Unknown = {}

\* A limit of the space.
Fail ==
  /\ Valid /\ call.op \notin Infallible
  /\ answer' = Error("limit")
  /\ busy' = FALSE
  /\ UNCHANGED <<orders, held, call, iterator, calls>>

Operand(i) == call.on[i].family
Listed(i) == Range(call.lists[i])

Selected(S) ==
  CASE call.op = "filter_contains" -> Listed(1) \subseteq S
    [] call.op = "filter_excludes" -> Listed(1) \intersect S = {}
    [] call.op = "filter_subsets_of" -> S \subseteq Listed(1)
    [] call.op = "filter_supersets_of" -> Listed(1) \subseteq S
    [] call.op = "cardinality" -> call.range[1] <= Cardinality(S) /\ Cardinality(S) <= call.range[2]

Value ==
  CASE call.op = "empty" -> Zero
    [] call.op = "unit" -> One
    [] call.op = "powerset" -> SUBSET Edge
    [] call.op = "from_edge_sets" -> {Listed(i) : i \in DOMAIN call.lists}
    [] call.op = "build" -> call.target
    [] call.op \in Ops -> Denote(call.op, Operand(1), Operand(2))
    [] OTHER -> {S \in Operand(1) : Selected(S)}

Producing ==
  {"empty", "unit", "powerset", "from_edge_sets", "build", "cardinality"}
    \union Ops \union ListFilters \union EdgeFilters

\* The caller owns the families of the answer too.
Give(fs) ==
  /\ answer' = Gives(fs)
  /\ held' = held \union Range(fs)

Produce ==
  /\ Valid /\ call.op \in Producing
  /\ Give(<<[space |-> call.space, family |-> Value]>>)
  /\ busy' = FALSE
  /\ UNCHANGED <<orders, call, iterator, calls>>

Compare ==
  /\ Valid
  /\ \/ call.op = "equivalent" /\ answer' = Truth(Operand(1) = Operand(2))
     \/ call.op = "is_subset_of" /\ answer' = Truth(Operand(1) \subseteq Operand(2))
     \/ call.op = "contains" /\ answer' = Truth(Listed(1) \in Operand(1))
  /\ busy' = FALSE
  /\ UNCHANGED <<orders, held, call, iterator, calls>>

\* Whether the space has d before e.
IsAhead(c, d, e) == \E i, j \in 1 .. N : i < j /\ orders[c][i] = d /\ orders[c][j] = e

\* The edges of S in the order of their space.
Listings(c, S) ==
  {q \in [1 .. Cardinality(S) -> S] : \A i, j \in DOMAIN q : i < j => IsAhead(c, q[i], q[j])}

Sample ==
  /\ Valid /\ call.op = "sample"
  /\ \/ Operand(1) = Zero /\ answer' = Solution("no_solution", << >>)
     \/ \E S \in Operand(1) : \E q \in Listings(call.space, S) : answer' = Solution("solution", q)
  /\ busy' = FALSE
  /\ UNCHANGED <<orders, held, call, iterator, calls>>

Compact ==
  /\ Valid /\ call.op = "compact"
  /\ orders' = Append(orders, orders[call.space])
  /\ Give([i \in DOMAIN call.on |-> [space |-> Len(orders) + 1, family |-> Operand(i)]])
  /\ busy' = FALSE
  /\ UNCHANGED <<call, iterator, calls>>

----------------------------------------------------------------------------
(* An iterator lives beside the other calls.                               *)

Iterate ==
  /\ ~busy /\ calls < MaxCalls
  /\ \E f \in held : iterator' = {[space |-> f.space, left |-> f.family]}
  /\ answer' = NoAnswer
  /\ calls' = calls + 1
  /\ UNCHANGED <<orders, held, call, busy>>

\* Every solution comes once, its edges in the order of the space.
NextSolution ==
  /\ ~busy
  /\ \E it \in iterator : \E S \in it.left :
       /\ \E q \in Listings(it.space, S) : answer' = Solution("solution", q)
       /\ iterator' = {[it EXCEPT !.left = @ \ {S}]}
  /\ UNCHANGED <<orders, held, call, busy, calls>>

Exhaust ==
  /\ ~busy
  /\ \E it \in iterator : it.left = {}
  /\ iterator' = {}
  /\ answer' = Solution("no_solution", << >>)
  /\ UNCHANGED <<orders, held, call, busy, calls>>

Respond == Refuse \/ Fail \/ Produce \/ Compare \/ Sample \/ Compact

Next == Ask \/ Respond \/ Iterate \/ NextSolution \/ Exhaust

Spec == Init /\ [][Next]_vars

\* Every call is answered.
FairSpec == Spec /\ WF_vars(Respond)
=============================================================================
