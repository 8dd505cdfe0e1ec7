-------------------------------- MODULE Bits --------------------------------
(***************************************************************************)
(* Numbers as bits: the operators & | and ^ of C on words of so many bits. *)
(***************************************************************************)
EXTENDS Naturals

Weight[i \in Nat] == IF i = 0 THEN 1 ELSE 2 * Weight[i - 1]
Bit(x, i) == (x \div Weight[i]) % 2

\* One bit of the operators.
BitOf(kind, a, b) ==
    CASE kind = "and" -> a * b
      [] kind = "or" -> a + b - a * b
      [] kind = "xor" -> (a + b) % 2

\* The operator on words, bit by bit.
Bitwise(kind, bits, x, y) ==
    LET low[i \in 0 .. bits] ==
            IF i = 0 THEN 0
            ELSE low[i - 1] + Weight[i - 1] * BitOf(kind, Bit(x, i - 1), Bit(y, i - 1))
    IN  low[bits]

=============================================================================
