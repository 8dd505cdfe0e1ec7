----------------------------- MODULE Allocator -----------------------------
(***************************************************************************)
(* What the four operations of an allocator record                         *)
(* (loke_rt_allocator_ops_v1) owe their callers, whatever the strategy:    *)
(* `live` is the set of allocations a program may use.  A new allocation   *)
(* is aligned and shares no byte with a live one; a resize keeps its place *)
(* or moves to bytes that are free, the old ones still intact for the      *)
(* copy; a refusal changes nothing; a reset ends everything.               *)
(***************************************************************************)
EXTENDS Naturals

CONSTANT Word     \* addresses and sizes are below Word

VARIABLE live

Allocation == [at : 1 .. Word - 1, size : 1 .. Word - 1, align : 1 .. Word - 1]

\* Two allocations share no byte.
Apart(a, b) == a.at + a.size <= b.at \/ b.at + b.size <= a.at

Fits(new, others) ==
    /\ new \in Allocation
    /\ new.at % new.align = 0
    /\ \A a \in others : Apart(new, a)

Alloc ==
    \E new \in live' :
        /\ Fits(new, live)
        /\ live' = live \cup {new}

Resize ==
    \E old \in live, new \in live' :
        /\ Fits(new, live \ {old})
        /\ new.align = old.align
        /\ new.at = old.at \/ Apart(new, old)
        /\ live' = (live \ {old}) \cup {new}

Free == \E old \in live : live' = live \ {old}

Reset == live' = {}

Init == live = {}
Next == Alloc \/ Resize \/ Free \/ Reset
Spec == Init /\ [][Next]_live

=============================================================================
