---------------------------- MODULE StringStore ----------------------------
(***************************************************************************)
(* The storage of `string` values in runtime/text.c: handles on many       *)
(* threads share reference-counted blocks.  A handle is empty, a static    *)
(* literal, or an owner of a block.  The decrement of a release and the    *)
(* freeing that may follow it are separate steps, and a freed block is     *)
(* given out again.                                                        *)
(*                                                                         *)
(* Memory order: seen[t] holds <<u, b>> when u's last access to block b    *)
(* happens before what t does next, and rel[b] the threads of which an     *)
(* acquire of b's count learns.  A retain is relaxed and gives nothing.    *)
(***************************************************************************)
EXTENDS Integers, FiniteSets

CONSTANTS
    Thread, Allocator,
    Block,          \* bound: blocks allocated at one time
    Slot,           \* bound: handles at one time
    Empty, Static,  \* the owner_flags of a handle without a block
    Nil,            \* "no handle", "no block", "no thread"
    MaxLen,         \* bound: the longest text, in the place of the largest i64
    Header          \* sizeof(loke_rt_string_header_v1)

Headers == [handles : Int, allocator : Allocator, block_size : Nat]

StoreAssumption ==
    /\ MaxLen \in Nat \ {0} /\ Header \in Nat \ {0}
    /\ Empty # Static /\ Empty # Nil /\ Static # Nil /\ Nil \notin Headers
    /\ \A x \in {Empty, Static, Nil} : x \notin Block /\ x \notin Thread /\ x \notin Allocator

VARIABLES
    owner, len, at,  \* of each handle: owner_flags, byte_len, and the thread that holds it
    header,          \* of each block: loke_rt_string_header_v1, or Nil when it is not allocated
    out,             \* of each allocator: the bytes it has given out
    freeing,         \* of each thread: the block whose last handle it gave up
    unwinding,       \* the threads whose allocation failure became a panic
    running,
    seen, rel

handles == <<owner, len, at>>
memory == <<seen, rel>>
vars == <<handles, header, out, freeing, unwinding, running, memory>>

TypeOK ==
    /\ owner \in [Slot -> Block \cup {Empty, Static, Nil}]
    /\ len \in [Slot -> 0 .. MaxLen] /\ at \in [Slot -> Thread \cup {Nil}]
    /\ header \in [Block -> Headers \cup {Nil}]
    /\ out \in [Allocator -> Int]
    /\ freeing \in [Thread -> Block \cup {Nil}]
    /\ unwinding \in SUBSET Thread /\ running \in BOOLEAN
    /\ seen \in [Thread -> SUBSET (Thread \X Block)] /\ rel \in [Block -> SUBSET Thread]

Init ==
    /\ owner = [s \in Slot |-> Nil] /\ len = [s \in Slot |-> 0] /\ at = [s \in Slot |-> Nil]
    /\ header = [b \in Block |-> Nil] /\ out = [a \in Allocator |-> 0]
    /\ freeing = [t \in Thread |-> Nil] /\ unwinding = {} /\ running = TRUE
    /\ seen = [t \in Thread |-> Thread \X Block] /\ rel = [b \in Block |-> {}]

Held(t) == {s \in Slot : at[s] = t}
Ready(t) == running /\ freeing[t] = Nil
Working(t) == Ready(t) /\ t \notin unwinding

\* A value in a new handle of t.
Publish(t, o, n) ==
    \E s \in Held(Nil) : /\ owner' = [owner EXCEPT ![s] = o] /\ len' = [len EXCEPT ![s] = n]
                         /\ at' = [at EXCEPT ![s] = t]

\* t accesses block b, of which no one else knows yet.
Access(t, b) ==
    /\ seen' = [u \in Thread |-> IF u = t THEN seen[u] \cup {<<t, b>>} ELSE seen[u] \ {<<t, b>>}]
    /\ rel' = [rel EXCEPT ![b] = @ \ {t}]

\* NULL for an owner without a block.
header_of(o) == IF o \in Block THEN header[o] ELSE Nil

-----------------------------------------------------------------------------
(* Creation *)

\* Header, bytes and terminator in one block.  The provider orders a block's
\* earlier life before its next one.
allocate_buffer(t, n, a) == \E b \in Block :
    /\ header[b] = Nil
    /\ header' = [header EXCEPT ![b] = [handles |-> 1, allocator |-> a, block_size |-> Header + n + 1]]
    /\ out' = [out EXCEPT ![a] = @ + Header + n + 1]
    /\ Publish(t, b, n)
    /\ seen' = [u \in Thread |-> IF u = t THEN seen[u] \cup (Thread \X {b}) ELSE seen[u] \ {<<t, b>>}]
    /\ rel' = [rel EXCEPT ![b] = {}]

publish_empty(t) == Publish(t, Empty, 0) /\ UNCHANGED <<header, out, memory>>

\* The allocator's policy: a panic, which unwinds, or the end of the process.
alloc_failed(t) ==
    /\ \/ unwinding' = unwinding \cup {t} /\ UNCHANGED running
       \/ running' = FALSE /\ UNCHANGED unwinding
    /\ UNCHANGED <<handles, header, out, memory>>

\* A text of n bytes from allocator a, or its refusal.
Made(t, n, a) ==
    \/ n = 0 /\ publish_empty(t) /\ UNCHANGED <<unwinding, running>>
    \/ n > 0 /\ allocate_buffer(t, n, a) /\ UNCHANGED <<unwinding, running>>
    \/ n > 0 /\ alloc_failed(t)

Literal(t) ==
    /\ Working(t)
    /\ \E n \in 0 .. MaxLen : Publish(t, Static, n)
    /\ UNCHANGED <<header, out, freeing, unwinding, running, memory>>

\* loke_rt_v1_string_from_bytes and _from_runes, of input that is text: other
\* input leaves no handle.
from_bytes(t) ==
    /\ Working(t)
    /\ \E n \in 0 .. MaxLen, a \in Allocator : Made(t, n, a)
    /\ UNCHANGED freeing

\* `.copy()`, which applies the policy, and strings.allocate_string, whose caller
\* gets a refusal as an error and no handle.
clone(t) ==
    /\ Working(t)
    /\ \E s \in Held(t), a \in Allocator : Made(t, len[s], a)
    /\ UNCHANGED freeing

\* `+`: the lengths are added checked, and a sum too long is refused like memory.
concat(t) ==
    /\ Working(t)
    /\ \E s, r \in Held(t), a \in Allocator :
         \/ len[s] + len[r] <= MaxLen /\ Made(t, len[s] + len[r], a)
         \/ len[s] + len[r] > MaxLen /\ alloc_failed(t)
    /\ UNCHANGED freeing

-----------------------------------------------------------------------------
(* Sharing *)

\* A copy of a handle.
retain(t) ==
    /\ Working(t)
    /\ \E s \in Held(t) :
         /\ Publish(t, owner[s], len[s])
         /\ header' = IF header_of(owner[s]) = Nil THEN header
                      ELSE [header EXCEPT ![owner[s]].handles = @ + 1]
    /\ UNCHANGED <<out, freeing, unwinding, running, memory>>

\* The program reads the text of a handle.
Read(t) ==
    /\ Working(t)
    /\ \E s \in Held(t) : owner[s] \in Block /\ Access(t, owner[s])
    /\ UNCHANGED <<handles, header, out, freeing, unwinding, running>>

\* The program moves a handle to another thread, which synchronizes the two.
Give(t, u) ==
    /\ Working(t) /\ t # u
    /\ \E s \in Held(t) : at' = [at EXCEPT ![s] = u]
    /\ seen' = [seen EXCEPT ![u] = @ \cup seen[t]]
    /\ UNCHANGED <<owner, len, header, out, freeing, unwinding, running, rel>>

\* Mutant of ReleaseSub: the decrement is relaxed.
ReleaseSubRelaxed(t) ==
    /\ Ready(t)
    /\ \E s \in Held(t) :
         /\ owner' = [owner EXCEPT ![s] = Nil] /\ len' = [len EXCEPT ![s] = 0] /\ at' = [at EXCEPT ![s] = Nil]
         /\ LET b == owner[s]
            IN  IF header_of(b) = Nil THEN UNCHANGED <<header, freeing>>
                ELSE /\ header' = [header EXCEPT ![b].handles = @ - 1]
                     /\ freeing' = IF header[b].handles = 1 THEN [freeing EXCEPT ![t] = b] ELSE freeing
    /\ UNCHANGED <<out, unwinding, running, memory>>

\* loke_rt_v1_string_release up to its decrement.
ReleaseSub(t) ==
    /\ Ready(t)
    /\ \E s \in Held(t) :
         /\ owner' = [owner EXCEPT ![s] = Nil] /\ len' = [len EXCEPT ![s] = 0] /\ at' = [at EXCEPT ![s] = Nil]
         /\ LET b == owner[s]
            IN  IF header_of(b) = Nil THEN UNCHANGED <<header, freeing, memory>>
                ELSE /\ header' = [header EXCEPT ![b].handles = @ - 1]
                     /\ freeing' = IF header[b].handles = 1 THEN [freeing EXCEPT ![t] = b] ELSE freeing
                     /\ rel' = [rel EXCEPT ![b] = @ \cup {u \in Thread : <<u, b>> \in seen[t]}]
                     /\ seen' = [seen EXCEPT ![t] = @ \cup (rel[b] \X {b})]
    /\ UNCHANGED <<out, unwinding, running>>

\* The last handle's release reads the header and returns the block.
ReleaseFree(t) ==
    /\ running /\ freeing[t] # Nil
    /\ LET b == freeing[t] IN
         /\ out' = [out EXCEPT ![header[b].allocator] = @ - header[b].block_size]
         /\ header' = [header EXCEPT ![b] = Nil]
    /\ freeing' = [freeing EXCEPT ![t] = Nil]
    /\ UNCHANGED <<handles, unwinding, running, memory>>

\* A thread that panicked has run its cleanups, and the process ends.
Abort(t) ==
    /\ Ready(t) /\ t \in unwinding /\ Held(t) = {}
    /\ running' = FALSE
    /\ UNCHANGED <<handles, header, out, freeing, unwinding, memory>>

-----------------------------------------------------------------------------
Next == \E t \in Thread :
    \/ Literal(t) \/ from_bytes(t) \/ clone(t) \/ concat(t)
    \/ retain(t) \/ Read(t) \/ ReleaseSub(t) \/ ReleaseFree(t) \/ Abort(t)
    \/ \E u \in Thread : Give(t, u)

Spec == Init /\ [][Next]_vars

-----------------------------------------------------------------------------
\* A block counts the handles on all threads that own it, and exists exactly while
\* it has one or its last release is under way: it is freed once, and never while
\* a handle can still read it.
HandlesCounted == \A b \in Block :
    LET owners == {s \in Slot : owner[s] = b}
        freers == {t \in Thread : freeing[t] = b}
    IN  IF header[b] = Nil THEN owners = {} /\ freers = {}
        ELSE /\ header[b].handles = Cardinality(owners)
             /\ Cardinality(freers) = IF owners = {} THEN 1 ELSE 0

\* The bytes of the blocks that are a's, by their headers.
Bytes(a) == UNION {{b} \X (1 .. header[b].block_size) :
                   b \in {x \in Block : header[x] # Nil /\ header[x].allocator = a}}

\* What an allocator has out is what the headers will return to it: each block goes
\* back to the allocator it came from with the size it was asked for, and nothing is
\* out when no handle and no release is left.
Ledger == \A a \in Allocator : out[a] = Cardinality(Bytes(a))

\* The thread that frees a block has seen every other thread's last access to it,
\* although copies of a handle are counted without ordering.
FreedAfterUse == \A t \in Thread : freeing[t] # Nil => Thread \X {freeing[t]} \subseteq seen[t]

\* The store's invariant: counts, ledger and memory order agree with the handles.
Inv == TypeOK /\ HandlesCounted /\ Ledger /\ FreedAfterUse

=============================================================================
