-------------------------------- MODULE Sort --------------------------------
(***************************************************************************)
(* The introsort of runtime/container.c, a comparison to a step (the two   *)
(* of a sift and the three of a pivot are one step).  A comparison calls   *)
(* code of the program, which may answer anything (a comparator given to   *)
(* sort_by need not be an order) and may panic, so what the array holds at *)
(* every comparison matters.  `pending` holds the range each enclosing     *)
(* sort_introsort call goes on with once the call it made returns.         *)
(***************************************************************************)
EXTENDS Integers, Sequences, FiniteSets

CONSTANTS
    MaxCount,     \* bound: elements to sort
    Values,       \* what they compare by
    Small,        \* LOKE_RT_SORT_SMALL, 16 in the code
    PerHalving    \* levels allowed for each halving of the count, {2} in the code

SortAssumption ==
    /\ MaxCount \in Nat /\ Values \subseteq Int /\ Small \in Nat \ {0}
    /\ PerHalving \subseteq Nat

VARIABLES
    input,        \* history: the elements as they were given
    a,            \* the elements, from index 0
    descending,
    lawful,       \* the comparator is the order of Values; otherwise it answers anything
    range,        \* the range [low, high) being sorted, and the levels it has left
    pending,
    pc, i, j      \* where in the algorithm, and its two indices
vars == <<input, a, descending, lawful, range, pending, pc, i, j>>

Count == Cardinality(DOMAIN input)

TwoTo[n \in Nat] == IF n = 0 THEN 1 ELSE 2 * TwoTo[n - 1]

\* The depth limit: so much for each time that the span, halved from the count on, is
\* still more than 1.
Levels(count, perHalving) ==
    perHalving * Cardinality({k \in 0 .. count : count \div TwoTo[k] > 1})

\* A sort of `count` elements begins.  A comparator that answers anything is tried on
\* elements told apart.
Begin(count) ==
    /\ lawful \in BOOLEAN
    /\ input \in IF lawful THEN [0 .. count - 1 -> Values] ELSE {[k \in 0 .. count - 1 |-> k]}
    /\ a = input
    /\ descending \in IF lawful THEN BOOLEAN ELSE {FALSE}
    /\ range \in {[low |-> 0, high |-> count, depth |-> Levels(count, p)] : p \in PerHalving}
    /\ pending = <<>>
    /\ pc = IF count < 2 THEN "done" ELSE "loop"
    /\ i = 0 /\ j = 0

Init == \E count \in 0 .. MaxCount : Begin(count)

low == range.low
high == range.high
mid == low + (high - low) \div 2

Swap(s, x, y) == [s EXCEPT ![x] = s[y], ![y] = s[x]]

\* What sort_before may answer for the elements at x and y.
sort_before(s, x, y) ==
    IF ~lawful THEN BOOLEAN
    ELSE {IF descending THEN s[y] < s[x] ELSE s[x] < s[y]}

At(step) == pc = step
Go(step) == pc' = step
Keep == UNCHANGED <<input, descending, lawful>>

-----------------------------------------------------------------------------
(* sort_introsort: each turn of its loop splits the range or finishes it.  *)

Loop ==
    /\ At("loop") /\ UNCHANGED <<a, range, pending>> /\ Keep
    /\ \/ /\ high - low > Small /\ range.depth > 0
          /\ Go("pivot") /\ UNCHANGED <<i, j>>
       \/ /\ high - low > Small /\ range.depth = 0
          /\ Go("heapify") /\ j' = mid /\ UNCHANGED i
       \/ /\ high - low <= Small
          /\ Go("insert") /\ i' = low + 1 /\ j' = low + 1

\* Median of three, moved to low.
ChoosePivot ==
    /\ At("pivot")
    /\ \E b1 \in sort_before(a, mid, low) :
       LET s1 == IF b1 THEN Swap(a, mid, low) ELSE a IN
       \E b2 \in sort_before(s1, high - 1, mid) :
       LET s2 == IF b2 THEN Swap(s1, high - 1, mid) ELSE s1 IN
       \E b3 \in IF b2 THEN sort_before(s2, mid, low) ELSE {FALSE} :
       LET s3 == IF b3 THEN Swap(s2, mid, low) ELSE s2 IN
       a' = Swap(s3, low, mid)
    /\ Go("up") /\ i' = low /\ j' = high
    /\ UNCHANGED <<range, pending>> /\ Keep

\* Mutant of ScanUp: only the comparison stops the scan.
ScanUpUnbounded ==
    /\ At("up") /\ i' = i + 1
    /\ \E before \in sort_before(a, (i + 1) % Count, low) : IF before THEN Go("up") ELSE Go("down")
    /\ UNCHANGED <<a, j, range, pending>> /\ Keep

\* The two scans of sort_partition, each bounded by the range as well.
ScanUp ==
    /\ At("up") /\ i' = i + 1
    /\ \E before \in IF i + 1 < high THEN sort_before(a, i + 1, low) ELSE {FALSE} :
          IF before THEN Go("up") ELSE Go("down")
    /\ UNCHANGED <<a, j, range, pending>> /\ Keep

ScanDown ==
    /\ At("down") /\ j' = j - 1
    /\ \E before \in IF j - 1 > low THEN sort_before(a, low, j - 1) ELSE {FALSE} :
          IF before THEN Go("down") ELSE Go("meet")
    /\ UNCHANGED <<a, i, range, pending>> /\ Keep

Exchange ==
    /\ At("meet") /\ i < j
    /\ a' = Swap(a, i, j)
    /\ Go("up")
    /\ UNCHANGED <<i, j, range, pending>> /\ Keep

Below == [low |-> low, high |-> j, depth |-> range.depth - 1]
Above == [low |-> j + 1, high |-> high, depth |-> range.depth - 1]

\* The smaller side goes to the recursive call, the larger to this loop.
Sides == IF j - low < high - j - 1 THEN <<Below, Above>> ELSE <<Above, Below>>

Split ==
    /\ At("meet") /\ i >= j
    /\ a' = Swap(a, low, j)
    /\ range' = Sides[1]
    /\ pending' = Append(pending, Sides[2])
    /\ Go("loop")
    /\ UNCHANGED <<i, j>> /\ Keep

\* The range is sorted: the call returns.
Return ==
    /\ At("return")
    /\ IF pending = <<>> THEN Go("done") /\ UNCHANGED <<range, pending>>
       ELSE /\ range' = pending[Len(pending)]
            /\ pending' = SubSeq(pending, 1, Len(pending) - 1)
            /\ Go("loop")
    /\ UNCHANGED <<a, i, j>> /\ Keep

-----------------------------------------------------------------------------
(* A small range: insertion by rotation, the element at j on its way down. *)

Insert ==
    /\ At("insert") /\ UNCHANGED <<range, pending>> /\ Keep
    /\ IF i >= high THEN Go("return") /\ UNCHANGED <<a, i, j>>
       ELSE /\ Go("insert")
            /\ \E before \in IF j > low THEN sort_before(a, j, j - 1) ELSE {FALSE} :
                  IF before THEN a' = Swap(a, j, j - 1) /\ j' = j - 1 /\ i' = i
                            ELSE a' = a /\ i' = i + 1 /\ j' = i + 1

-----------------------------------------------------------------------------
(* No level left: heapsort.  i is the node that sinks; j the node the heap *)
(* is built down to, and then the end of the heap.                         *)

\* The children of a node, and what one turn of sort_sift_down may do.
Child(node) == 2 * (node - low) + 1 + low

SiftStep(node, end, back) ==
    LET first == Child(node) IN
    IF first >= end THEN Go(back) /\ UNCHANGED <<a, i>>
    ELSE \E right \in IF first + 1 < end THEN sort_before(a, first, first + 1) ELSE {FALSE} :
         LET child == IF right THEN first + 1 ELSE first IN
         \E sinks \in sort_before(a, node, child) :
            IF sinks THEN a' = Swap(a, node, child) /\ i' = child /\ UNCHANGED pc
                     ELSE Go(back) /\ UNCHANGED <<a, i>>

\* The heap is built from the middle down to low.
Heapify ==
    /\ At("heapify")
    /\ IF j > low THEN i' = j - 1 /\ j' = j - 1 /\ Go("sink")
                  ELSE j' = high /\ Go("extract") /\ UNCHANGED i
    /\ UNCHANGED <<a, range, pending>> /\ Keep

Sink ==
    /\ At("sink")
    /\ SiftStep(i, high, "heapify")
    /\ UNCHANGED <<j, range, pending>> /\ Keep

Extract ==
    /\ At("extract")
    /\ IF j - low > 1 THEN /\ j' = j - 1
                           /\ a' = Swap(a, low, j - 1)
                           /\ i' = low /\ Go("settle")
       ELSE Go("return") /\ UNCHANGED <<a, i, j>>
    /\ UNCHANGED <<range, pending>> /\ Keep

\* Mutant of Settle: the element just taken out is still in the heap.
SettleWide ==
    /\ At("settle")
    /\ SiftStep(i, j + 1, "extract")
    /\ UNCHANGED <<j, range, pending>> /\ Keep

Settle ==
    /\ At("settle")
    /\ SiftStep(i, j, "extract")
    /\ UNCHANGED <<j, range, pending>> /\ Keep

Done == pc = "done" /\ UNCHANGED vars

Next ==
    \/ Loop \/ ChoosePivot \/ ScanUp \/ ScanDown \/ Exchange \/ Split \/ Return
    \/ Insert \/ Heapify \/ Sink \/ Extract \/ Settle \/ Done

Spec == Init /\ [][Next]_vars

-----------------------------------------------------------------------------
TypeOK ==
    /\ DOMAIN a = 0 .. Count - 1
    /\ pc \in {"loop", "pivot", "up", "down", "meet", "insert", "heapify", "sink",
               "extract", "settle", "return", "done"}
    /\ range.depth \in Nat
    /\ \A k \in 1 .. Len(pending) : pending[k].depth \in Nat
    /\ i \in Int /\ j \in Int

\* The elements a step may compare or swap.
Touched ==
    CASE pc = "pivot" -> {low, mid, high - 1}
      [] pc = "up" -> {low} \cup ({i + 1} \ {high})
      [] pc = "down" -> {low, j - 1}
      [] pc = "meet" -> IF i < j THEN {i, j} ELSE {low, j}
      [] pc = "insert" /\ i < high -> {i, j}
      [] pc = "sink" -> {i}
      [] pc = "settle" -> {i, j}
      [] OTHER -> {}

\* Whatever the comparator answers, sorting touches only the range it was given,
\* and that range lies in the array.
InBounds ==
    /\ 0 <= low /\ low <= high /\ high <= Count
    /\ Touched \subseteq low .. high - 1

\* Whatever the comparator answers, and so wherever it panics, the array holds the
\* elements it was given, each as often: none is held aside while it is called.
Permutes ==
    \A v \in {input[k] : k \in DOMAIN input} :
        Cardinality({k \in DOMAIN a : a[k] = v}) = Cardinality({k \in DOMAIN input : input[k] = v})

\* The recursion is logarithmically deep, however bad the partitions are.
StackLogarithmic == pending # <<>> => TwoTo[Len(pending)] <= Count

\* What sort_introsort keeps whatever the comparator answers: its place in the array,
\* the elements and the depth of its recursion.
Inv == TypeOK /\ InBounds /\ Permutes /\ StackLogarithmic

Ordered(x, y) == IF descending THEN a[x] >= a[y] ELSE a[x] <= a[y]

\* The ranges still to sort: all of them, once the current one is sorted, are the
\* suspended ones.
Open == {pending[k] : k \in 1 .. Len(pending)} \cup (IF pc = "loop" THEN {range} ELSE {})

\* With an order for a comparator, two elements that are not in one range still to
\* sort are already in order, so the ranges can be sorted in any order.
Partitioned ==
    lawful /\ pc \in {"loop", "return", "done"} =>
        \A x, y \in DOMAIN a :
            x < y => Ordered(x, y) \/ \E r \in Open : r.low <= x /\ y < r.high

\* With an order for a comparator, the array ends sorted by it, and is partitioned on
\* the way there.
Sorted ==
    /\ Partitioned
    /\ lawful /\ pc = "done" => \A x, y \in DOMAIN a : x <= y => Ordered(x, y)

=============================================================================
