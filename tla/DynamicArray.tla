---------------------------- MODULE DynamicArray ----------------------------
(***************************************************************************)
(* runtime/container.c, the dynamic array: growth that may be refused,     *)
(* insertion from a source that may lie in the array itself, copy hooks    *)
(* that may refuse or panic part-way, and drop hooks that may panic.       *)
(*                                                                         *)
(* `elems` is what the slots below `len` hold, so len = Len(elems); bytes  *)
(* above it are dead between calls.  Instances are told apart by value     *)
(* only: `owned` counts, for each value, the instances the array was given *)
(* or made and that no drop hook received and no caller got back.          *)
(*                                                                         *)
(* Elements have a size: a zero-sized element, which needs no storage, is  *)
(* left out.                                                               *)
(***************************************************************************)
EXTENDS Integers, FiniteSets, Sequences

CONSTANTS
    Elem,
    Zero,       \* the all-zero value, whose drop does nothing
    Junk,       \* bytes of no value
    MinCap,     \* 8: the smallest capacity
    MaxCap,     \* bound: a larger request overflows or is always refused
    MaxCount,   \* bound: elements given to one call
    Requests    \* capacities and lengths asked for

DynAssumption ==
    /\ IsFiniteSet(Elem) /\ Zero \notin Elem /\ Junk \notin Elem \cup {Zero}
    /\ MinCap \in Nat \ {0} /\ MaxCap \in Nat /\ MaxCount \in Nat
    /\ Requests \subseteq 0 .. MaxCap

VARIABLES
    elems, cap,
    bound,          \* self->allocator != 0
    owned,
    phase,          \* "running", "unwinding" or "ended"
    copyPanicked,   \* a hook has panicked while elements were being copied
    answer          \* of the last call

vars == <<elems, cap, bound, owned, phase, copyPanicked, answer>>

len == Len(elems)

TypeOK ==
    /\ elems \in Seq(Elem \cup {Zero, Junk})
    /\ cap \in 0 .. MaxCap /\ len <= cap
    /\ bound \in BOOLEAN /\ copyPanicked \in BOOLEAN
    /\ owned \in [Elem -> Int]    \* below zero: dropped twice
    /\ phase \in {"running", "unwinding", "ended"}
    /\ answer \in {"ok", "refused", "panicked"}

-----------------------------------------------------------------------------
Tally(s) == [e \in Elem |-> Cardinality({p \in DOMAIN s : s[p] = e})]
Gain(s) == owned' = [e \in Elem |-> owned[e] + Tally(s)[e]]
Lose(s) == owned' = [e \in Elem |-> owned[e] - Tally(s)[e]]

Calls == phase # "ended"
Done == answer' = "ok" /\ UNCHANGED <<phase, copyPanicked>>
Refuse == answer' = "refused" /\ UNCHANGED <<elems, cap, owned, phase, copyPanicked>>
Panic == phase = "running" /\ phase' = "unwinding" /\ answer' = "panicked"

Larger(x, y) == IF x < y THEN y ELSE x

dyn_growth_target(need) == Larger(Larger(need, 2 * cap), MinCap)

-----------------------------------------------------------------------------
(* dyn_append_owned and dyn_insert: `count` elements go in at index `at`. *)

\* A source: elements of the caller's, or the array's own from index `from` on.
Theirs == [own : {FALSE}, items : UNION {[1 .. n -> Elem] : n \in 1 .. MaxCount}]
Ours == {s \in [own : {TRUE}, from : 0 .. len - 1, count : 1 .. MaxCount] : s.from + s.count <= len}
CountOf(src) == IF src.own THEN src.count ELSE Len(src.items)

\* Mutant of MustRegrow: the shift may run over the source.
RegrowWhenFull(op, src) == len + CountOf(src) > cap

\* Whether a fresh block is built: for want of room, or because an insertion's
\* shift would overwrite a source inside the array.
MustRegrow(op, src) == len + CountOf(src) > cap \/ (src.own /\ op = "insert")

\* The slots once the elements from `at` on have moved up; the bits in between
\* are still those of the elements that moved.
Shifted(at, count) ==
    [p \in 0 .. len + count - 1 |->
        IF p < at THEN elems[p + 1]
        ELSE IF p >= at + count THEN elems[p - count + 1]
        ELSE IF p < len THEN elems[p + 1] ELSE Junk]

\* What dyn_fill reads for each new element, in order: from the caller, from the
\* old block when a fresh one is built, or else from slots it may have overwritten.
Items(op, at, src) ==
    LET count == CountOf(src)
        slots == Shifted(at, count)
        read[j \in 0 .. count - 1] ==
            IF ~src.own THEN src.items[j + 1]
            ELSE LET p == src.from + j IN
                 IF MustRegrow(op, src) THEN elems[p + 1]
                 ELSE IF p >= at /\ p < at + j THEN read[p - at] ELSE slots[p]
    IN  [j \in 1 .. count |-> read[j - 1]]

\* The slots below `length` once the first n new elements are in.
Filled(op, at, src, n, length) ==
    [p \in 1 .. length |->
        IF p > at /\ p <= at + n THEN Items(op, at, src)[p - at] ELSE Shifted(at, CountOf(src))[p - 1]]

\* Mutant of RolledBack: the elements stay shifted.
StayShifted(op, at, src) == Filled(op, at, src, 0, len)

\* A copy that was refused: the old block is back, or the elements move down again.
RolledBack(op, at, src) ==
    IF MustRegrow(op, src) THEN elems
    ELSE [p \in 1 .. len |->
            Shifted(at, CountOf(src))[IF p <= at THEN p - 1 ELSE p - 1 + CountOf(src)]]

\* The elements numbered in `moved` are handed over, the others copied.
Put(op, at, src, moved) ==
    LET count == CountOf(src)
        target == IF MustRegrow(op, src) THEN dyn_growth_target(len + count) ELSE cap
    IN  /\ Calls
        /\ bound' = TRUE
        /\ \/ MustRegrow(op, src) /\ Refuse
           \/ /\ target <= MaxCap
              /\ elems' = Filled(op, at, src, count, len + count)
              /\ cap' = target
              /\ Gain(Items(op, at, src))
              /\ Done
           \/ /\ target <= MaxCap
              /\ moved # 1 .. count         \* the copy of some element is refused
              /\ elems' = RolledBack(op, at, src)
              /\ answer' = "refused"
              /\ UNCHANGED <<cap, owned, phase, copyPanicked>>
           \/ /\ target <= MaxCap
              \* the copy hook of element j panics, or the copy is refused and the
              \* drop hook of the last of the copies `dropped` panics
              /\ \E j \in (1 .. count) \ moved : \E dropped \in {0} \cup ((1 .. j - 1) \ moved) :
                    /\ elems' = Filled(op, at, src, j - 1, len)
                    /\ Gain([i \in (dropped + 1 .. j - 1) \ moved |-> Items(op, at, src)[i]])
              /\ cap' = target
              /\ Panic /\ copyPanicked' = TRUE

dyn_append(src, moved) == Put("append", len, src, moved)
dyn_insert(at, src, move) == Put("insert", at, src, IF move THEN 1 .. CountOf(src) ELSE {})

-----------------------------------------------------------------------------
(* Elements that leave *)

Pop ==
    /\ Calls /\ len > 0
    /\ elems' = SubSeq(elems, 1, len - 1)
    /\ Lose(<<elems[len]>>)
    /\ Done /\ UNCHANGED <<cap, bound>>

Remove(index, unordered) ==
    /\ Calls /\ index < len
    /\ elems' = [p \in 1 .. len - 1 |->
                    IF p <= index THEN elems[p]
                    ELSE IF ~unordered THEN elems[p + 1]
                    ELSE IF p = index + 1 THEN elems[len] ELSE elems[p]]
    /\ Lose(<<elems[index + 1]>>)
    /\ Done /\ UNCHANGED <<cap, bound>>

\* Mutant of CutAt: the length is cut after the hook has run.
CutAfterHook(p) == p

\* The length when the hook of element p runs.
CutAt(p) == p - 1

\* The hooks run from the last element down to p, whose hook panics.
TruncatePanics(new_len) ==
    /\ \E p \in new_len + 1 .. len :
        /\ elems' = SubSeq(elems, 1, CutAt(p))
        /\ Lose(SubSeq(elems, p, len))
    /\ Panic
    /\ UNCHANGED <<cap, bound, copyPanicked>>

dyn_truncate(new_len) ==
    /\ Calls
    /\ \/ TruncatePanics(new_len)
       \/ /\ elems' = SubSeq(elems, 1, new_len)
          /\ Lose(SubSeq(elems, new_len + 1, len))
          /\ Done /\ UNCHANGED <<cap, bound>>

Clear == dyn_truncate(0)

\* The zero array stays usable, unless this is the drop that ends an unwind.
Drop ==
    /\ Calls
    /\ \/ TruncatePanics(0)
       \/ /\ elems' = <<>> /\ cap' = 0 /\ bound' = FALSE
          /\ Lose(elems)
          /\ phase' = IF phase = "unwinding" THEN "ended" ELSE phase
          /\ answer' = "ok" /\ UNCHANGED copyPanicked

-----------------------------------------------------------------------------
(* Capacity *)

Reserve(n) ==
    /\ Calls
    /\ bound' = TRUE
    /\ IF n <= cap THEN Done /\ UNCHANGED <<elems, cap, owned>>
       ELSE \/ Refuse
            \/ /\ dyn_growth_target(n) <= MaxCap
               /\ cap' = dyn_growth_target(n)
               /\ Done /\ UNCHANGED <<elems, owned>>

Resize(n) ==
    \/ n <= len /\ dyn_truncate(n)
    \/ /\ Calls /\ n > len
       /\ bound' = TRUE
       /\ \/ n > cap /\ Refuse
          \/ /\ cap' = IF n <= cap THEN cap ELSE dyn_growth_target(n)
             /\ cap' <= MaxCap
             /\ elems' = elems \o [i \in 1 .. n - len |-> Zero]
             /\ Done /\ UNCHANGED owned

ShrunkTo(n) == Larger(len, n)

Shrink(n) ==
    /\ Calls
    /\ \/ /\ cap' = IF ShrunkTo(n) < cap THEN ShrunkTo(n) ELSE cap
          /\ Done /\ UNCHANGED <<elems, owned>>
       \/ 0 < ShrunkTo(n) /\ ShrunkTo(n) < cap /\ Refuse
    /\ UNCHANGED bound

\* dyn_clone, after which the clone takes the place of the array, which is
\* dropped.  A hook that panics while the clone is made leaves the array alone, and
\* what the clone holds is no part of its ledger.  (The hooks of the array's own
\* drop do not panic here: Drop has that case.)
CloneAndDrop ==
    /\ Calls
    /\ \/ /\ cap' = IF len = 0 THEN 0 ELSE Larger(len, MinCap)
          /\ cap' <= MaxCap
          /\ bound' = TRUE
          /\ Done /\ UNCHANGED <<elems, owned>>
       \/ len > 0 /\ Refuse /\ UNCHANGED bound
       \/ len > 0 /\ Panic /\ UNCHANGED <<elems, cap, bound, owned, copyPanicked>>

-----------------------------------------------------------------------------
Init ==
    /\ elems = <<>> /\ cap = 0 /\ bound = FALSE
    /\ owned = [e \in Elem |-> 0]
    /\ phase = "running" /\ copyPanicked = FALSE /\ answer = "ok"

Next ==
    \/ \E src \in Theirs : \E moved \in SUBSET (1 .. CountOf(src)) : dyn_append(src, moved)
    \/ \E src \in Ours : dyn_append(src, {})
    \/ \E src \in Theirs \cup Ours, at \in 0 .. len : \E move \in BOOLEAN : dyn_insert(at, src, move)
    \/ Pop \/ Clear \/ Drop \/ CloneAndDrop
    \/ \E index \in 0 .. len - 1, unordered \in BOOLEAN : Remove(index, unordered)
    \/ \E n \in Requests : Reserve(n) \/ Resize(n) \/ Shrink(n)

Spec == Init /\ [][Next]_vars

-----------------------------------------------------------------------------
(* What the array owes its users. *)

\* The slots below the length hold exactly the instances the array still has to
\* drop, each once, whichever drop hook panics: so the unwind's drop finishes
\* the work.  Not so once a hook has panicked in the midst of copying, see DroppedAtMostOnce.
CountIsAccurate == TypeOK /\ (copyPanicked \/ owned = Tally(elems))

\* No instance is in two slots below the length, or in one after it was dropped.
\* design.md: "That order is what keeps the count accurate at every point a panic
\* can unwind from."
DroppedAtMostOnce == \A e \in Elem : Tally(elems)[e] <= owned[e]

\* Whatever the source, an insertion or append has the effect of splicing in the
\* source's elements as they were before the call, even when they lie in the
\* array that is being shifted or moved.
InsertIsSplice ==
    \A src \in Theirs \cup Ours, op \in {"insert", "append"} :
    \A at \in IF op = "insert" THEN 0 .. len ELSE {len} :
        LET given == IF src.own THEN SubSeq(elems, src.from + 1, src.from + src.count) ELSE src.items
        IN  Filled(op, at, src, CountOf(src), len + CountOf(src))
                = SubSeq(elems, 1, at) \o given \o SubSeq(elems, at + 1, len)

\* A call that fails leaves the elements and the capacity as they were.
RefusalKeepsElements == [][answer' = "refused" => UNCHANGED <<elems, cap, owned>>]_vars

=============================================================================
