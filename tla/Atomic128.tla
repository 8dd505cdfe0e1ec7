----------------------------- MODULE Atomic128 -----------------------------
(***************************************************************************)
(* The 128-bit atomics of runtime/atomic.c: a value is two halves that a   *)
(* thread reads and writes one at a time, under one spin lock.  Memory is  *)
(* sequentially consistent here, so the orderings an operation is called   *)
(* with, and the barriers they add around the lock, change nothing.        *)
(***************************************************************************)
EXTENDS Bits

CONSTANTS
    Thread,
    HalfBits,    \* bits in one half of a value, 64 in the code
    Operands,    \* the values operations are called with
    Kinds        \* the operations called

WidthAssumption ==
    /\ HalfBits \in Nat \ {0}
    /\ Operands \subseteq 0 .. Weight[2 * HalfBits] - 1
    /\ Kinds \subseteq {"load", "store", "exchange", "compare_exchange", "add", "sub", "and", "or", "xor"}

Half == Weight[HalfBits]
Low(v) == v % Half
High(v) == v \div Half
Whole(h) == h.low + Half * h.high

VARIABLES
    gate,      \* loke_rt_atomic_gate
    mem,       \* the two halves at the address
    call,      \* the operation each thread is in
    pc,        \* how far
    seen,      \* the halves it has read
    answer,    \* what its last operation told it
    before     \* history: the value when the gate was taken
vars == <<gate, mem, call, pc, seen, answer, before>>

Cell == INSTANCE WideCell WITH cell <- IF gate = 1 THEN before ELSE Whole(mem)

Halves == [low : 0 .. Half - 1, high : 0 .. Half - 1]
Zero == [low |-> 0, high |-> 0]

Init ==
    /\ gate = 0
    /\ mem = Zero
    /\ call = [t \in Thread |-> Cell!Idle]
    /\ pc = [t \in Thread |-> "idle"]
    /\ seen = [t \in Thread |-> Zero]
    /\ answer = [t \in Thread |-> 0]
    /\ before = 0

Call(t, op) ==
    /\ pc[t] = "idle"
    /\ call' = [call EXCEPT ![t] = op]
    /\ pc' = [pc EXCEPT ![t] = "enter"]
    /\ UNCHANGED <<gate, mem, seen, answer, before>>

\* The spin that finds the gate free.  Only a store reads nothing.
enter(t) ==
    /\ pc[t] = "enter" /\ gate = 0
    /\ gate' = 1
    /\ before' = Whole(mem)
    /\ pc' = [pc EXCEPT ![t] = IF call[t].kind = "store" THEN "write low" ELSE "read low"]
    /\ UNCHANGED <<mem, call, seen, answer>>

ReadLow(t) ==
    /\ pc[t] = "read low"
    /\ seen' = [seen EXCEPT ![t].low = mem.low]
    /\ pc' = [pc EXCEPT ![t] = "read high"]
    /\ UNCHANGED <<gate, mem, call, answer, before>>

\* A load ends here, and so does a comparison that fails.
Writes(op, old) ==
    op.kind # "load" /\ (op.kind = "compare_exchange" => Whole(old) = op.expected)

ReadHigh(t) ==
    LET old == [seen[t] EXCEPT !.high = mem.high] IN
    /\ pc[t] = "read high"
    /\ seen' = [seen EXCEPT ![t] = old]
    /\ pc' = [pc EXCEPT ![t] = IF Writes(call[t], old) THEN "write low" ELSE "leave"]
    /\ UNCHANGED <<gate, mem, call, answer, before>>

\* Mutant of add: a low half that comes back to itself carries.
add_carry_late(a, b) ==
    LET low == (a.low + b.low) % Half
    IN  [low |-> low, high |-> (a.high + b.high + (IF low <= a.low THEN 1 ELSE 0)) % Half]

add(a, b) ==
    LET low == (a.low + b.low) % Half
    IN  [low |-> low, high |-> (a.high + b.high + (IF low < a.low THEN 1 ELSE 0)) % Half]

sub(a, b) ==
    [low |-> (a.low + Half - b.low) % Half,
     high |-> (a.high + 2 * Half - b.high - (IF a.low < b.low THEN 1 ELSE 0)) % Half]

\* What the operation writes, from the halves it read.
Result(op, a) ==
    LET b == [low |-> Low(op.value), high |-> High(op.value)] IN
    CASE op.kind = "add" -> add(a, b)
      [] op.kind = "sub" -> sub(a, b)
      [] op.kind \in {"and", "or", "xor"} ->
            [low |-> Bitwise(op.kind, HalfBits, a.low, b.low),
             high |-> Bitwise(op.kind, HalfBits, a.high, b.high)]
      [] OTHER -> b

WriteLow(t) ==
    /\ pc[t] = "write low"
    /\ mem' = [mem EXCEPT !.low = Result(call[t], seen[t]).low]
    /\ pc' = [pc EXCEPT ![t] = "write high"]
    /\ UNCHANGED <<gate, call, seen, answer, before>>

WriteHigh(t) ==
    /\ pc[t] = "write high"
    /\ mem' = [mem EXCEPT !.high = Result(call[t], seen[t]).high]
    /\ pc' = [pc EXCEPT ![t] = "leave"]
    /\ UNCHANGED <<gate, call, seen, answer, before>>

\* The operation answers the value it found, a failed comparison through its
\* `expected` and a successful one by having found it.
leave(t) ==
    /\ pc[t] = "leave"
    /\ gate' = 0
    /\ pc' = [pc EXCEPT ![t] = "idle"]
    /\ call' = [call EXCEPT ![t] = Cell!Idle]
    /\ answer' = [answer EXCEPT ![t] = IF call[t].kind = "store" THEN 0 ELSE Whole(seen[t])]
    /\ seen' = [seen EXCEPT ![t] = Zero]
    /\ UNCHANGED <<mem, before>>

Next ==
    \E t \in Thread :
        \/ \E op \in Cell!Operation : Call(t, op)
        \/ enter(t) \/ ReadLow(t) \/ ReadHigh(t) \/ WriteLow(t) \/ WriteHigh(t) \/ leave(t)

Spec == Init /\ [][Next]_vars

-----------------------------------------------------------------------------
TypeOK ==
    /\ gate \in {0, 1} /\ mem \in Halves
    /\ call \in [Thread -> Cell!Operation \cup {Cell!Idle}]
    /\ pc \in [Thread -> {"idle", "enter", "read low", "read high", "write low", "write high", "leave"}]
    /\ seen \in [Thread -> Halves]
    /\ answer \in [Thread -> Cell!Value] /\ before \in Cell!Value

\* Every operation is indivisible, whatever the others do meanwhile: no caller
\* sees or leaves half a value, and carries and borrows cross the halves as they
\* would in one 128-bit number.
Indivisible == []TypeOK /\ Cell!Spec

=============================================================================
