-------------------------------- MODULE Utf8 --------------------------------
(***************************************************************************)
(* The text codec of runtime/text.c and the argument conversion of         *)
(* runtime/args.c, at their real byte and code point values.  Both work    *)
(* one code point at a time, so the operators below are checked over every *)
(* short text built from the values at which their cases change.  A state  *)
(* is one text, given as bytes, as runes or as UTF-16 code units.          *)
(***************************************************************************)
EXTENDS Integers, Sequences

SX == INSTANCE SequencesExt

CONSTANTS
    Bytes, Runes, Units,       \* the bytes, runes and code units texts are made of
    MaxBytes, MaxRunes, MaxUnits   \* bounds: their longest texts

ValuesAssumption ==
    /\ Bytes \subseteq 0 .. 255 /\ Runes \subseteq Int /\ Units \subseteq 1 .. 65535
    /\ {MaxBytes, MaxRunes, MaxUnits} \subseteq Nat

VARIABLES kind, text, other

-----------------------------------------------------------------------------
(* Decoding.                                                               *)

\* The lead byte of a sequence: how many bytes it needs, the bits it gives, and
\* the lowest value that needs so many.
Lead(b) ==
    CASE b < 128 -> [need |-> 1, bits |-> b, lowest |-> 0]
      [] b \div 32 = 6 -> [need |-> 2, bits |-> b % 32, lowest |-> 128]
      [] b \div 16 = 14 -> [need |-> 3, bits |-> b % 16, lowest |-> 2048]
      [] b \div 8 = 30 -> [need |-> 4, bits |-> b % 8, lowest |-> 65536]
      [] OTHER -> [need |-> 0, bits |-> 0, lowest |-> 0]

Surrogate(v) == v >= 55296 /\ v <= 57343          \* 0xD800 .. 0xDFFF
Rejected == [used |-> 0, rune |-> 65533]          \* U+FFFD

\* Mutant of rune_at: overlong encodings pass.
rune_at_overlong(data, offset) ==
    LET lead == Lead(data[offset + 1])
        value[i \in 1 .. lead.need] ==
            IF i = 1 THEN lead.bits ELSE value[i - 1] * 64 + (data[offset + i] % 64)
    IN  IF lead.need = 0 \/ offset + lead.need > Len(data) THEN Rejected
        ELSE IF \E i \in 2 .. lead.need : data[offset + i] \div 64 # 2 THEN Rejected
        ELSE LET v == value[lead.need]
             IN  IF v > 1114111 \/ Surrogate(v) THEN Rejected ELSE [used |-> lead.need, rune |-> v]

\* The rune at a zero-based offset below the end, and its bytes.
rune_at(data, offset) ==
    LET lead == Lead(data[offset + 1])
        value[i \in 1 .. lead.need] ==
            IF i = 1 THEN lead.bits ELSE value[i - 1] * 64 + (data[offset + i] % 64)
    IN  IF lead.need = 0 \/ offset + lead.need > Len(data) THEN Rejected
        ELSE IF \E i \in 2 .. lead.need : data[offset + i] \div 64 # 2 THEN Rejected
        ELSE LET v == value[lead.need]
             IN  IF v < lead.lowest \/ v > 1114111 \/ Surrogate(v)
                 THEN Rejected ELSE [used |-> lead.need, rune |-> v]

utf8_valid(data) ==
    LET from[offset \in 0 .. Len(data)] ==
            offset = Len(data) \/ LET r == rune_at(data, offset) IN r.used > 0 /\ from[offset + r.used]
    IN  from[0]

rune_count(data) ==
    LET from[offset \in 0 .. Len(data)] ==
            IF offset = Len(data) THEN 0
            ELSE LET r == rune_at(data, offset)
                 IN  IF r.used = 0 THEN 0 ELSE 1 + from[offset + r.used]
    IN  from[0]

\* The runes of a text, up to the first byte that starts none and never past the
\* slots counted for them.
string_to_runes(data) ==
    LET from[offset \in 0 .. Len(data), written \in 0 .. rune_count(data)] ==
            IF offset = Len(data) \/ written = rune_count(data) THEN <<>>
            ELSE LET r == rune_at(data, offset)
                 IN  IF r.used = 0 THEN <<>> ELSE <<r.rune>> \o from[offset + r.used, written + 1]
    IN  from[0, 0]

-----------------------------------------------------------------------------
(* Encoding.                                                               *)

\* The bytes of a rune, none for a value that is not one.
encode_rune(v) ==
    CASE v < 0 \/ v > 1114111 \/ Surrogate(v) -> <<>>
      [] v \in 0 .. 127 -> <<v>>
      [] v \in 128 .. 2047 -> <<192 + (v \div 64), 128 + (v % 64)>>
      [] v \in 2048 .. 65535 -> <<224 + (v \div 4096), 128 + ((v \div 64) % 64), 128 + (v % 64)>>
      [] OTHER -> <<240 + (v \div 262144), 128 + ((v \div 4096) % 64), 128 + ((v \div 64) % 64), 128 + (v % 64)>>

Encoded(runes) == SX!FlattenSeq([i \in 1 .. Len(runes) |-> encode_rune(runes[i])])

\* A text of runes is refused as a whole when one of them has no encoding.
string_from_runes(runes) ==
    IF \E i \in 1 .. Len(runes) : encode_rune(runes[i]) = <<>>
    THEN [ok |-> FALSE, data |-> <<>>]
    ELSE [ok |-> TRUE, data |-> Encoded(runes)]

High(u) == u >= 55296 /\ u <= 56319     \* 0xD800 .. 0xDBFF
Low(u) == u >= 56320 /\ u <= 57343      \* 0xDC00 .. 0xDFFF

\* The code points of a UTF-16 argument: pairs combine, an unpaired surrogate
\* becomes U+FFFD.
wide_runes(wide) ==
    LET from[at \in 1 .. Len(wide) + 1] ==
            IF at > Len(wide) THEN <<>>
            ELSE IF High(wide[at]) /\ at < Len(wide) /\ Low(wide[at + 1])
                 THEN <<65536 + (wide[at] - 55296) * 1024 + (wide[at + 1] - 56320)>> \o from[at + 2]
            ELSE <<IF Surrogate(wide[at]) THEN 65533 ELSE wide[at]>> \o from[at + 1]
    IN  from[1]

to_utf8(wide) == Encoded(wide_runes(wide))

-----------------------------------------------------------------------------
(* Comparison.                                                             *)

\* Byte-wise lexical order: -1, 0 or 1.
bytes_compare(a, b) ==
    LET differ == {i \in 1 .. Len(a) : i <= Len(b) /\ a[i] # b[i]}
    IN  IF differ # {}
        THEN LET i == CHOOSE k \in differ : \A l \in differ : k <= l
             IN  IF a[i] < b[i] THEN -1 ELSE 1
        ELSE IF Len(a) = Len(b) THEN 0 ELSE IF Len(a) < Len(b) THEN -1 ELSE 1

-----------------------------------------------------------------------------
TextsOf(values, max) == UNION {[1 .. n -> values] : n \in 0 .. max}

Init ==
    \/ kind = "bytes" /\ text \in TextsOf(Bytes, MaxBytes) /\ other = <<>>
    \/ kind = "runes" /\ text \in TextsOf(Runes, MaxRunes) /\ other \in TextsOf(Runes, MaxRunes)
    \/ kind = "wide" /\ text \in TextsOf(Units, MaxUnits) /\ other = <<>>

-----------------------------------------------------------------------------
\* The well-formed byte sequences of the Unicode standard (table 3-7), by the
\* ranges of their first two bytes; any others are 0x80 .. 0xBF.
WellFormed ==
    {[lead |-> 0 .. 127, second |-> {}, need |-> 1],
     [lead |-> 194 .. 223, second |-> 128 .. 191, need |-> 2],
     [lead |-> {224}, second |-> 160 .. 191, need |-> 3],
     [lead |-> (225 .. 239) \ {237}, second |-> 128 .. 191, need |-> 3],
     [lead |-> {237}, second |-> 128 .. 159, need |-> 3],
     [lead |-> {240}, second |-> 144 .. 191, need |-> 4],
     [lead |-> 241 .. 243, second |-> 128 .. 191, need |-> 4],
     [lead |-> {244}, second |-> 128 .. 143, need |-> 4]}

Starts(form, data, offset) ==
    /\ offset + form.need <= Len(data)
    /\ data[offset + 1] \in form.lead
    /\ form.need > 1 => data[offset + 2] \in form.second
    /\ \A i \in 3 .. form.need : data[offset + i] \in 128 .. 191

\* rune_at accepts exactly the well-formed sequences, at every offset, and takes
\* all their bytes: no overlong form, surrogate or value past U+10FFFF passes.
AcceptsWellFormed ==
    kind = "bytes" =>
        \A offset \in 0 .. Len(text) - 1 :
            LET forms == {form \in WellFormed : Starts(form, text, offset)}
            IN  rune_at(text, offset).used = IF forms = {} THEN 0 ELSE (CHOOSE f \in forms : TRUE).need

\* Text survives the way through runes, whichever side it starts on; a text of
\* runes is refused only for a value that is not a rune.
RoundTrip ==
    /\ kind = "bytes" /\ utf8_valid(text) =>
          string_from_runes(string_to_runes(text)) = [ok |-> TRUE, data |-> text]
    /\ kind = "runes" =>
          LET made == string_from_runes(text)
          IN  /\ made.ok <=> \A i \in 1 .. Len(text) : text[i] \in 0 .. 1114111 /\ ~Surrogate(text[i])
              /\ made.ok => utf8_valid(made.data) /\ string_to_runes(made.data) = text

\* The UTF-16 spelling of a rune, and an argument with its unpaired surrogates
\* replaced.
Utf16(v) == IF v < 65536 THEN <<v>> ELSE <<55296 + ((v - 65536) \div 1024), 56320 + ((v - 65536) % 1024)>>
Paired(wide, i) ==
    \/ High(wide[i]) /\ i < Len(wide) /\ Low(wide[i + 1])
    \/ Low(wide[i]) /\ i > 1 /\ High(wide[i - 1])
Cleaned(wide) == [i \in 1 .. Len(wide) |-> IF Surrogate(wide[i]) /\ ~Paired(wide, i) THEN 65533 ELSE wide[i]]

\* An argument becomes valid text that spells the same code units, whatever
\* surrogates it holds, and fits the four bytes a unit that were reserved.
ArgumentsAreText ==
    kind = "wide" =>
        /\ utf8_valid(to_utf8(text))
        /\ LET runes == string_to_runes(to_utf8(text))
           IN  SX!FlattenSeq([i \in 1 .. Len(runes) |-> Utf16(runes[i])]) = Cleaned(text)
        /\ Len(to_utf8(text)) + 1 <= Len(text) * 4 + 1

\* Comparing bytes orders text as comparing code points would.
RuneOrder(a, b) ==
    LET differ == {i \in 1 .. Len(a) : i <= Len(b) /\ a[i] # b[i]}
    IN  IF \E i \in differ : a[i] < b[i] /\ \A k \in differ : i <= k THEN -1
        ELSE IF differ # {} THEN 1
        ELSE IF Len(a) < Len(b) THEN -1 ELSE IF Len(a) > Len(b) THEN 1 ELSE 0
ComparesByRune ==
    kind = "runes" /\ string_from_runes(text).ok /\ string_from_runes(other).ok =>
        bytes_compare(Encoded(text), Encoded(other)) = RuneOrder(text, other)

\* The codec is exact: what is accepted, what it decodes to and how it compares.
TextExact == AcceptsWellFormed /\ RoundTrip /\ ArgumentsAreText /\ ComparesByRune

=============================================================================
