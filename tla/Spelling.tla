------------------------------ MODULE Spelling ------------------------------
(***************************************************************************)
(* The scalar spellings of runtime/format.c: integers of both widths in    *)
(* every base, the shortest spelling of a float and its layout, and quoted *)
(* text.  A state is one thing to print.                                   *)
(*                                                                         *)
(* The widths are scaled.  Bits stands for 64, and the buffers shrink with *)
(* it.  Floats are exact: a value, and a decimal, is a whole number of     *)
(* parts of 10^-7, and a format's values are the multiples of a power of   *)
(* two that its mantissa holds.  A digit is its value, a mark its ASCII    *)
(* code.                                                                   *)
(***************************************************************************)
EXTENDS Integers, Sequences, FiniteSets

CONSTANTS
    Bits,       \* width of a machine word, 64 in the code
    Bases,      \* the bases options ask for
    Formats,    \* float formats: bits p of mantissa, exponents low .. high of its last bit
    F64,        \* the format the C library reads and prints
    Layouts,    \* digits and exponent of a %.*e spelling
    Texts       \* the byte strings to quote

SpellingAssumption ==
    /\ Bits \in Nat \ {0} /\ Bases \subseteq Int
    /\ F64 \in Formats /\ \A f \in Formats : f.p \in Nat \ {0} /\ f.low \in -7 .. f.high /\ f.p + f.high <= 5

VARIABLES kind, subject

Minus == 45
Point == 46
Exponent == 101
Wide == 2 * Bits
Pow10[n \in Nat] == IF n = 0 THEN 1 ELSE 10 * Pow10[n - 1]

-----------------------------------------------------------------------------
(* Integers *)

base_of(base) == IF base < 2 \/ base > 36 THEN 10 ELSE base

\* The digits of a number, the most significant first.
spell_unsigned128(value, base) ==
    LET digits[v \in 0 .. value] ==
            IF v \div base = 0 THEN <<v % base>> ELSE digits[v \div base] \o <<v % base>>
    IN  digits[value]

fmt_u64(value, base) == spell_unsigned128(value, base_of(base))

fmt_i64(value, base) ==
    IF value < 0
    THEN <<Minus>> \o spell_unsigned128(((-(value + 1)) + 1) % 2 ^ Bits, base_of(base))
    ELSE spell_unsigned128(value, base_of(base))

\* A wide integer comes as two words.
fmt_u128(low, high, base) == spell_unsigned128(high * 2 ^ Bits + low, base_of(base))

fmt_i128(low, high, base) ==
    LET bits == high * 2 ^ Bits + low
    IN  IF high \div 2 ^ (Bits - 1) # 0
        THEN <<Minus>> \o spell_unsigned128((2 ^ Wide - 1 - bits + 1) % 2 ^ Wide, base_of(base))
        ELSE spell_unsigned128(bits, base_of(base))

\* `<nil>`, or `0x` and the digits.
NilText == <<60, 23, 18, 21, 62>>
fmt_ptr(value) == IF value = 0 THEN NilText ELSE <<0, 33>> \o spell_unsigned128(value, 16)

-----------------------------------------------------------------------------
(* Floats *)

Unit(q) == 78125 * 2 ^ (q + 7)     \* 2^q, in parts

HalfEven(x, unit) ==
    LET n == x \div unit
        r == x % unit
    IN  IF 2 * r > unit \/ (2 * r = unit /\ n % 2 = 1) THEN n + 1 ELSE n

\* The nearest value of a format; -1 past its range.
Nearest(f, x) ==
    IF x >= 2 ^ f.p * Unit(f.high) THEN -1
    ELSE LET q == CHOOSE q \in f.low .. f.high :
                     /\ x < 2 ^ f.p * Unit(q)
                     /\ \A l \in f.low .. q - 1 : x >= 2 ^ f.p * Unit(l)
             n == HalfEven(x, Unit(q)) * Unit(q)
         IN  IF n >= 2 ^ f.p * Unit(f.high) THEN -1 ELSE n

FloatsOf(f) == {m * Unit(q) : m \in 0 .. 2 ^ f.p - 1, q \in f.low .. f.high}

\* The parts a %.*e spelling denotes.
Real(sci) ==
    LET sum[i \in 0 .. Len(sci.digits)] ==
            IF i = 0 THEN 0 ELSE sum[i - 1] + sci.digits[i] * Pow10[sci.exp - i + 8]
    IN  sum[Len(sci.digits)]

Digits(d, n) == [i \in 1 .. n |-> (d \div Pow10[n - i]) % 10]

\* The C library's %.*e with n digits, rounding to nearest, ties to even.
Printed(x, n) ==
    IF x = 0 THEN [digits |-> [i \in 1 .. n |-> 0], exp |-> 0]
    ELSE LET e == CHOOSE e \in -7 .. 1 : Pow10[e + 7] <= x /\ x < Pow10[e + 8]
             d == HalfEven(x, Pow10[e - n + 8])
         IN  IF d = Pow10[n] THEN [digits |-> Digits(Pow10[n - 1], n), exp |-> e + 1]
             ELSE [digits |-> Digits(d, n), exp |-> e]

\* One unit up in the last digit: nines become zeros, and a carry out of the leading
\* digit raises the exponent.
spell_up(sci) ==
    LET nines == {i \in 1 .. Len(sci.digits) : \A k \in i .. Len(sci.digits) : sci.digits[k] = 9}
        last == Len(sci.digits) - Cardinality(nines)
    IN  [digits |-> [i \in 1 .. Len(sci.digits) |->
                        IF i < last THEN sci.digits[i]
                        ELSE IF i = last THEN sci.digits[i] + 1
                        ELSE IF last = 0 /\ i = 1 THEN 1 ELSE 0],
         exp |-> IF last = 0 THEN sci.exp + 1 ELSE sci.exp]

\* Read as a double, then narrowed to the width the value has.
reads_back(sci, x, f) ==
    LET back == Nearest(F64, Real(sci)) IN back # -1 /\ Nearest(f, back) = x

\* The digits that always suffice: 17, 9 and 5 for 53, 24 and 11 bits.
widest(f) == CHOOSE n \in 1 .. 6 : Pow10[n - 1] > 2 ^ f.p /\ (n = 1 \/ Pow10[n - 2] <= 2 ^ f.p)

\* Mutant of spell_float: only the nearest spelling of each precision is tried.
spell_float_nearest(x, f) ==
    LET try[n \in 1 .. widest(f)] ==
            IF n = widest(f) \/ reads_back(Printed(x, n), x, f) THEN Printed(x, n) ELSE try[n + 1]
    IN  try[1]

\* The first precision whose nearest spelling, or the one above it, reads back.
spell_float(x, f) ==
    LET try[n \in 1 .. widest(f)] ==
            IF n = widest(f) \/ reads_back(Printed(x, n), x, f) THEN Printed(x, n)
            ELSE IF reads_back(spell_up(Printed(x, n)), x, f) THEN spell_up(Printed(x, n))
            ELSE try[n + 1]
    IN  try[1]

\* Without the zeros at its end, but for a first digit.
Trimmed(digits) ==
    LET kept == {i \in 1 .. Len(digits) : i = 1 \/ \E k \in i .. Len(digits) : digits[k] # 0}
    IN  SubSeq(digits, 1, Cardinality(kept))

Spelled(n) == IF n < 0 THEN <<Minus>> \o spell_unsigned128(-n, 10) ELSE spell_unsigned128(n, 10)

\* Mutant of Fraction: a whole number has none.
FractionBare(digits, exp) ==
    IF Len(digits) > exp + 1 THEN <<Point>> \o SubSeq(digits, exp + 2, Len(digits)) ELSE <<>>

\* What follows the whole part: a fixed spelling keeps one fractional digit.
Fraction(digits, exp) ==
    <<Point>> \o IF Len(digits) > exp + 1 THEN SubSeq(digits, exp + 2, Len(digits)) ELSE <<0>>

\* Fixed notation from 1e-4 to below 1e17, and an exponent outside that.
spell_general(neg, sci) ==
    LET digits == Trimmed(sci.digits)
    IN  (IF neg THEN <<Minus>> ELSE <<>>) \o
        IF sci.exp < -4 \/ sci.exp >= 17
        THEN <<digits[1]>> \o (IF Len(digits) > 1 THEN <<Point>> \o Tail(digits) ELSE <<>>)
                 \o <<Exponent>> \o Spelled(sci.exp)
        ELSE IF sci.exp < 0 THEN <<0, Point>> \o [i \in 1 .. -sci.exp - 1 |-> 0] \o digits
        ELSE [i \in 1 .. sci.exp + 1 |-> IF i <= Len(digits) THEN digits[i] ELSE 0]
                 \o Fraction(digits, sci.exp)

\* The characters of %.*f of a number of `whole` digits before its point.
fmt_fixed_length(whole, digits) ==
    LET shown == IF digits < 0 THEN 0 ELSE IF digits > 40 THEN 40 ELSE digits
    IN  1 + whole + (IF shown > 0 THEN 1 + shown ELSE 0)

-----------------------------------------------------------------------------
(* Quoted text *)

Backslash == 92
Hex(d) == IF d < 10 THEN 48 + d ELSE 55 + d

\* What a byte is written as: itself, or an escape.
Escape(b, quote) ==
    CASE b = Backslash \/ b = quote -> <<Backslash, b>>
      [] b = 10 -> <<Backslash, 110>>
      [] b = 13 -> <<Backslash, 114>>
      [] b = 9 -> <<Backslash, 116>>
      [] (b < 32 /\ b \notin {9, 10, 13}) \/ b = 127 -> <<Backslash, 120, Hex(b \div 16), Hex(b % 16)>>
      [] OTHER -> <<b>>

\* Runs of plain bytes are written whole, between the escapes.
fmt_quoted(bytes, quote) ==
    LET plain(i) == Escape(bytes[i], quote) = <<bytes[i]>>
        write[i \in 1 .. Len(bytes) + 1, start \in 1 .. Len(bytes) + 1] ==
            IF i > Len(bytes) THEN SubSeq(bytes, start, Len(bytes))
            ELSE IF plain(i) THEN write[i + 1, start]
            ELSE SubSeq(bytes, start, i - 1) \o Escape(bytes[i], quote) \o write[i + 1, i + 1]
    IN  <<quote>> \o write[1, 1] \o <<quote>>

-----------------------------------------------------------------------------
\* The buffers the spellings are made in: 64, 66, 128, 129 and 18 bytes at 64 bits;
\* a float has the 24 its longest spelling is said to take.
buffer(op) ==
    CASE op = "u64" -> Bits [] op = "i64" -> Bits + 2
      [] op = "u128" -> Wide [] op = "i128" -> Wide + 1
      [] op = "ptr" -> 2 + (Bits + 3) \div 4
      [] op = "float" -> 24 [] op = "fixed" -> 352

Words == 0 .. 2 ^ Bits - 1

Init ==
    \/ kind = "u64" /\ subject \in [value : Words, base : Bases]
    \/ kind = "i64" /\ subject \in [value : -(2 ^ (Bits - 1)) .. 2 ^ (Bits - 1) - 1, base : Bases]
    \/ kind \in {"u128", "i128"} /\ subject \in [low : Words, high : Words, base : Bases]
    \/ kind = "ptr" /\ subject \in [value : Words]
    \/ kind = "float" /\ \E f \in Formats : subject \in [value : FloatsOf(f), format : {f}]
    \/ kind = "layout" /\ subject \in [neg : BOOLEAN, sci : Layouts]
    \/ kind = "fixed" /\ subject \in [whole : 1 .. 309, digits : -1 .. 42]
    \/ kind = "quoted" /\ subject \in [bytes : Texts, quote : {34, 39}]

Out ==
    CASE kind = "u64" -> fmt_u64(subject.value, subject.base)
      [] kind = "i64" -> fmt_i64(subject.value, subject.base)
      [] kind = "u128" -> fmt_u128(subject.low, subject.high, subject.base)
      [] kind = "i128" -> fmt_i128(subject.low, subject.high, subject.base)
      [] kind = "ptr" -> fmt_ptr(subject.value)
      [] kind = "layout" -> spell_general(subject.neg, subject.sci)
      [] kind = "quoted" -> fmt_quoted(subject.bytes, subject.quote)
      [] OTHER -> <<>>

-----------------------------------------------------------------------------
\* The number a sequence of digits denotes in a base.
Number(digits, base) ==
    LET sum[i \in 0 .. Len(digits)] == IF i = 0 THEN 0 ELSE sum[i - 1] * base + digits[i]
    IN  sum[Len(digits)]

\* An integer's digits, in the base asked for or ten, denote it: the most negative
\* value of either width too, and without a leading zero.
SpellsValue ==
    kind \in {"u64", "i64", "u128", "i128"} =>
        LET neg == Out[1] = Minus
            digits == IF neg THEN Tail(Out) ELSE Out
            base == IF subject.base \in 2 .. 36 THEN subject.base ELSE 10
            number == IF neg THEN -Number(digits, base) ELSE Number(digits, base)
            whole == subject.low + subject.high * 2 ^ Bits
        IN  /\ number = CASE kind \in {"u64", "i64"} -> subject.value
                           [] kind = "u128" -> whole
                           [] OTHER -> IF whole >= 2 ^ (Wide - 1) THEN whole - 2 ^ Wide ELSE whole
            /\ digits[1] = 0 => Len(digits) = 1 /\ ~neg

\* No spelling is longer than the buffer it is made in, whatever the base, the sign
\* or the digits asked for: 129 bytes for a wide integer leave none over.  The nil
\* pointer's is a literal and needs none.
BuffersHold ==
    /\ kind \in {"u64", "i64", "u128", "i128", "ptr"} /\ Out # NilText => Len(Out) <= buffer(kind)
    /\ kind = "layout" => Len(Out) <= buffer("float")
    /\ kind = "fixed" => fmt_fixed_length(subject.whole, subject.digits) + 1 <= buffer("fixed")

\* A float's spelling reads back as the same value, and no decimal of fewer digits
\* does: where the gap below a power of two is the smaller one as well.
ShortestSpelling ==
    kind = "float" =>
        LET sci == spell_float(subject.value, subject.format)
        IN  /\ reads_back(sci, subject.value, subject.format)
            /\ \A n \in 1 .. Len(sci.digits) - 1, e \in -3 .. 1 :
                  \A d \in Pow10[n - 1] .. Pow10[n] - 1 :
                      ~reads_back([digits |-> Digits(d, n), exp |-> e], subject.value, subject.format)

\* What a reader takes from a spelling: its sign, its digits from the first to the
\* last that is not zero, and the exponent of the first.
Read(out) ==
    LET body == IF out[1] = Minus THEN Tail(out) ELSE out
        Marks(m) == {i \in 1 .. Len(body) : body[i] = m}
        mend == IF Marks(Exponent) = {} THEN Len(body) ELSE (CHOOSE i \in Marks(Exponent) : TRUE) - 1
        point == IF Marks(Point) = {} THEN mend + 1 ELSE CHOOSE i \in Marks(Point) : TRUE
        raised == SubSeq(body, mend + 2, Len(body))
        power == IF raised = <<>> THEN 0
                 ELSE IF raised[1] = Minus THEN -Number(Tail(raised), 10) ELSE Number(raised, 10)
        significant == {i \in 1 .. mend : body[i] \in 1 .. 9}
        first == CHOOSE i \in significant : \A k \in significant : i <= k
        last == CHOOSE i \in significant : \A k \in significant : k <= i
    IN  IF significant = {} THEN [neg |-> out[1] = Minus, digits |-> <<0>>, exp |-> 0]
        ELSE [neg |-> out[1] = Minus,
              digits |-> SelectSeq(SubSeq(body, first, last), LAMBDA c : c # Point),
              exp |-> power + (IF first < point THEN point - first - 1 ELSE point - first)]

\* The layout of a float denotes the number its digits and exponent do, and never
\* reads as an integer.
LayoutReads ==
    kind = "layout" =>
        /\ Read(Out) = [neg |-> subject.neg, digits |-> Trimmed(subject.sci.digits), exp |-> subject.sci.exp]
        /\ \E i \in 2 .. Len(Out) - 1 : Out[i] \in {Point, Exponent}

\* The text a literal spells.
Unquoted(out) ==
    LET Digit(c) == IF c < 58 THEN c - 48 ELSE c - 55
        from[i \in 2 .. Len(out)] ==
            IF i = Len(out) THEN <<>>
            ELSE IF out[i] # Backslash THEN <<out[i]>> \o from[i + 1]
            ELSE IF out[i + 1] = 120 THEN <<Digit(out[i + 2]) * 16 + Digit(out[i + 3])>> \o from[i + 4]
            ELSE <<CASE out[i + 1] = 110 -> 10 [] out[i + 1] = 114 -> 13 [] out[i + 1] = 116 -> 9
                     [] OTHER -> out[i + 1]>> \o from[i + 2]
    IN  from[2]

\* Quoted text read as a literal is the text, and no control byte is written raw.
QuotedReadsBack ==
    kind = "quoted" =>
        /\ Unquoted(Out) = subject.bytes
        /\ \A i \in 1 .. Len(Out) : Out[i] >= 32 /\ Out[i] # 127

\* What is printed reads back as what it was printed from, and fits where it is made.
SpellingsRead == SpellsValue /\ BuffersHold /\ LayoutReads /\ QuotedReadsBack

=============================================================================
