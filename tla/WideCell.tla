------------------------------ MODULE WideCell ------------------------------
(***************************************************************************)
(* What runtime/atomic.c promises of a 128-bit atomic: every operation is  *)
(* indivisible.  A cell holds one value of twice HalfBits bits; an         *)
(* operation that a thread has called takes effect, and answers, in one    *)
(* step.                                                                   *)
(***************************************************************************)
EXTENDS Bits

CONSTANTS
    Thread,
    HalfBits,    \* bits in one half of a value, 64 in the code
    Operands,    \* the values operations are called with
    Kinds        \* the operations called

VARIABLES cell, call, answer
cellVars == <<cell, call, answer>>

Values == Weight[2 * HalfBits]
Value == 0 .. Values - 1
Idle == [kind |-> "idle", value |-> 0, expected |-> 0]
Operation ==
    [kind : Kinds \ {"load", "compare_exchange"}, value : Operands, expected : {0}]
    \cup [kind : Kinds \cap {"load"}, value : {0}, expected : {0}]
    \cup [kind : Kinds \cap {"compare_exchange"}, value : Operands, expected : Operands]

\* The value an operation leaves in a cell that holds old.
Applied(op, old) ==
    CASE op.kind = "load" -> old
      [] op.kind \in {"store", "exchange"} -> op.value
      [] op.kind = "compare_exchange" -> IF old = op.expected THEN op.value ELSE old
      [] op.kind = "add" -> (old + op.value) % Values
      [] op.kind = "sub" -> (old + Values - op.value) % Values
      [] op.kind \in {"and", "or", "xor"} -> Bitwise(op.kind, 2 * HalfBits, old, op.value)

\* What an operation tells its caller of the value it found.
Answers(op, old) == IF op.kind = "store" THEN 0 ELSE old

Init ==
    /\ cell = 0
    /\ call = [t \in Thread |-> Idle]
    /\ answer = [t \in Thread |-> 0]

Call(t, op) ==
    /\ call[t] = Idle
    /\ call' = [call EXCEPT ![t] = op]
    /\ UNCHANGED <<cell, answer>>

TakeEffect(t) ==
    /\ call[t] # Idle
    /\ cell' = Applied(call[t], cell)
    /\ answer' = [answer EXCEPT ![t] = Answers(call[t], cell)]
    /\ call' = [call EXCEPT ![t] = Idle]

Next == \E t \in Thread : TakeEffect(t) \/ \E op \in Operation : Call(t, op)

Spec == Init /\ [][Next]_cellVars

=============================================================================
