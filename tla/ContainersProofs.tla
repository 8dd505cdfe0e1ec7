-------------------------- MODULE ContainersProofs --------------------------
(***************************************************************************)
(* Proofs about the dynamic array, the map and the sort of                 *)
(* runtime/container.c, for every set of elements and keys, every bound on *)
(* capacities, counts and doublings, all hash functions, any requests and  *)
(* any comparator.                                                         *)
(*                                                                         *)
(* The array's count is inductive as it stands.  The map's invariant is    *)
(* not: MapKept adds that no slot between a key's home and its entry is    *)
(* empty, that live and vacated slots together stay within the capacity,   *)
(* that slots owe values only during an unwind, and that no two slots      *)
(* claim the same value.  Nor are the sort's: SortKept adds that the       *)
(* ranges still to sort lie apart, each level of the stack at most half of *)
(* the one before, that anything out of order lies within one of them, and *)
(* what the scans, the insertion and the heap have established so far.     *)
(***************************************************************************)
EXTENDS MCContainers, SortPart, FiniteSetTheorems, NaturalsInduction, WellFoundedInduction, TLAPS

-----------------------------------------------------------------------------
(* The array: what an insertion puts where *)

Value == Elem \cup {Zero, Junk}

\* What a source gives: the caller's elements, or the array's own.
Given(s, src) == IF src.own THEN [j \in 1 .. src.count |-> s[src.from + j]] ELSE src.items

\* A source the array may be given.
LEMMA SourceIs ==
  ASSUME elems \in Seq(Value), NEW src \in Dyn!Theirs \cup Dyn!Ours
  PROVE  /\ src.own \in BOOLEAN
         /\ Dyn!CountOf(src) \in 1 .. MaxCount
         /\ ~src.own => src.items \in [1 .. Dyn!CountOf(src) -> Elem]
         /\ src.own => /\ src.from \in 0 .. Len(elems) - 1 /\ src.count = Dyn!CountOf(src)
                       /\ src.from + src.count <= Len(elems)
  <1>1. CASE src \in Dyn!Theirs
    <2>1. ~src.own /\ src.own = FALSE /\ src.items \in UNION {[1 .. n -> Elem] : n \in 1 .. MaxCount}
      BY <1>1 DEF Dyn!Theirs
    <2>2. PICK n \in 1 .. MaxCount : src.items \in [1 .. n -> Elem]
      BY <2>1
    <2>3. n \in Nat /\ Len(src.items) = n
      BY <2>2, ArrayAssumption DEF Dyn!DynAssumption
    <2>. QED  BY <2>1, <2>2, <2>3 DEF Dyn!CountOf
  <1>2. CASE src \in Dyn!Ours
    BY <1>2 DEF Dyn!Ours, Dyn!CountOf, Dyn!len
  <1>. QED  BY <1>1, <1>2

\* dyn_fill reads the source as it was before the call: an insertion from the array
\* itself reads the old block, and an append's new slots lie above its source.
LEMMA ItemsAre ==
  ASSUME elems \in Seq(Value), NEW src \in Dyn!Theirs \cup Dyn!Ours, NEW op \in {"insert", "append"},
         NEW at \in 0 .. Len(elems), op = "append" => at = Len(elems)
  PROVE  Dyn!Items(op, at, src) = Given(elems, src)
  <1>. DEFINE count == Dyn!CountOf(src)
              step(f, j) == IF ~src.own THEN src.items[j + 1]
                            ELSE LET p == src.from + j IN
                                 IF Dyn!MustRegrow(op, src) THEN elems[p + 1]
                                 ELSE IF p >= at /\ p < at + j THEN f[p - at] ELSE Dyn!Shifted(at, count)[p]
              eqn(f) == f = [j \in 0 .. count - 1 |-> step(f, j)]
  <1>1. PICK c \in Nat : c = count /\ c >= 1
    BY SourceIs, ArrayAssumption DEF Dyn!DynAssumption
  <1>2. PICK v : v = [j \in 0 .. c - 1 |-> Given(elems, src)[j + 1]]
    OBVIOUS
  <1>3. ASSUME NEW f, NEW j \in 0 .. c - 1
        PROVE  step(f, j) = Given(elems, src)[j + 1]
    <2>1. CASE ~src.own
      BY <2>1 DEF Given
    <2>2. CASE src.own
      <3>1. src.from \in Nat /\ src.count = c /\ src.from + c <= Len(elems) /\ Len(elems) \in Nat
        BY <1>1, <2>2, SourceIs
      <3>2. Given(elems, src)[j + 1] = elems[src.from + j + 1]
        BY <2>2, <3>1 DEF Given
      <3>3. CASE Dyn!MustRegrow(op, src)
        BY <2>2, <3>1, <3>2, <3>3
      <3>4. CASE ~Dyn!MustRegrow(op, src)
        <4>1. op = "append" /\ at = Len(elems)
          BY <2>2, <3>4 DEF Dyn!MustRegrow
        <4>2. src.from + j \in Nat /\ src.from + j < at
          BY <3>1, <4>1
        <4>3. Dyn!Shifted(at, count)[src.from + j] = elems[src.from + j + 1]
          BY <1>1, <3>1, <4>1, <4>2 DEF Dyn!Shifted, Dyn!len
        <4>. QED  BY <2>2, <3>2, <3>4, <4>1, <4>2, <4>3
      <3>. QED  BY <3>3, <3>4
    <2>. QED  BY <2>1, <2>2, SourceIs
  <1>4. eqn(v)
    <2>1. [j \in 0 .. c - 1 |-> step(v, j)] = [j \in 0 .. c - 1 |-> Given(elems, src)[j + 1]]
      <3>. HIDE DEF step
      <3>. QED  BY <1>3
    <2>. QED  BY <1>1, <1>2, <2>1
  <1>5. PICK f : f = CHOOSE g : eqn(g)
    OBVIOUS
  <1>6. eqn(f)
    <2>. HIDE DEF eqn
    <2>. QED  BY <1>4, <1>5, Zenon
  <1>7. ASSUME NEW j \in 0 .. c - 1 PROVE f[j] = Given(elems, src)[j + 1]
    <2>1. f[j] = step(f, j)
      <3>. HIDE DEF step
      <3>. QED  BY <1>1, <1>6
    <2>. QED  BY <1>3, <2>1
  <1>8. Dyn!Items(op, at, src) = [j \in 1 .. c |-> f[j - 1]]
    <2>1. Dyn!Items(op, at, src) = [j \in 1 .. count |-> f[j - 1]]
      BY <1>5 DEF Dyn!Items
    <2>. QED  BY <1>1, <2>1
  <1>9. [j \in 1 .. c |-> f[j - 1]] = [j \in 1 .. c |-> Given(elems, src)[j]]
    BY <1>1, <1>7
  <1>10. Given(elems, src) = [j \in 1 .. c |-> Given(elems, src)[j]]
    <2>1. CASE ~src.own
      BY <1>1, <2>1, SourceIs DEF Given
    <2>2. CASE src.own
      BY <1>1, <2>2, SourceIs DEF Given
    <2>. QED  BY <2>1, <2>2, SourceIs
  <1>. QED  BY <1>8, <1>9, <1>10

\* s with the c items put in after the first `at`.
Spliced(s, at, items, c) ==
    [p \in 1 .. Len(s) + c |->
        IF p <= at THEN s[p] ELSE IF p <= at + c THEN items[p - at] ELSE s[p - c]]

\* The slots after dyn_append_owned or dyn_insert.
LEMMA FilledIs ==
  ASSUME elems \in Seq(Value), NEW src \in Dyn!Theirs \cup Dyn!Ours, NEW op \in {"insert", "append"},
         NEW at \in 0 .. Len(elems), op = "append" => at = Len(elems)
  PROVE  Dyn!Filled(op, at, src, Dyn!CountOf(src), Dyn!len + Dyn!CountOf(src))
            = Spliced(elems, at, Given(elems, src), Dyn!CountOf(src))
  <1>1. PICK c \in Nat : c = Dyn!CountOf(src)
    BY SourceIs, ArrayAssumption DEF Dyn!DynAssumption
  <1>2. PICK w : w = Given(elems, src)
    OBVIOUS
  <1>3. Dyn!Items(op, at, src) = w
    BY <1>2, ItemsAre
  <1>4. PICK L \in Nat : L = Len(elems)
    OBVIOUS
  <1>5. Dyn!len = L
    BY <1>4 DEF Dyn!len
  <1>6. ASSUME NEW p \in 1 .. L + c, ~(p > at /\ p <= at + c)
        PROVE  Dyn!Shifted(at, c)[p - 1] = IF p <= at THEN elems[p] ELSE elems[p - c]
    <2>1. p - 1 \in 0 .. L + c - 1
      BY <1>1, <1>4
    <2>2. Dyn!Shifted(at, c) = [q \in 0 .. L + c - 1 |->
            IF q < at THEN elems[q + 1]
            ELSE IF q >= at + c THEN elems[q - c + 1]
            ELSE IF q < L THEN elems[q + 1] ELSE Junk]
      BY <1>5, Zenon DEF Dyn!Shifted
    <2>3. CASE p <= at
      <3>1. p - 1 < at /\ (p - 1) + 1 = p
        BY <1>4, <2>3
      <3>. QED  BY <2>1, <2>2, <2>3, <3>1
    <2>4. CASE p > at + c
      <3>1. ~(p - 1 < at) /\ p - 1 >= at + c /\ (p - 1) - c + 1 = p - c /\ ~(p <= at)
        BY <1>1, <1>4, <2>4
      <3>. QED  BY <2>1, <2>2, <3>1
    <2>. QED  BY <1>1, <1>4, <1>6, <2>3, <2>4
  <1>7. Dyn!Filled(op, at, src, c, L + c)
          = [p \in 1 .. L + c |-> IF p > at /\ p <= at + c THEN w[p - at] ELSE Dyn!Shifted(at, c)[p - 1]]
    BY <1>1, <1>3, Zenon DEF Dyn!Filled
  <1>8. Spliced(elems, at, w, c)
          = [p \in 1 .. L + c |-> IF p > at /\ p <= at + c THEN w[p - at] ELSE Dyn!Shifted(at, c)[p - 1]]
    <2>1. ASSUME NEW p \in 1 .. L + c
          PROVE  (IF p <= at THEN elems[p] ELSE IF p <= at + c THEN w[p - at] ELSE elems[p - c])
                   = (IF p > at /\ p <= at + c THEN w[p - at] ELSE Dyn!Shifted(at, c)[p - 1])
      BY <1>1, <1>4, <1>6
    <2>. QED  BY <1>4, <2>1 DEF Spliced
  <1>. QED  BY <1>1, <1>2, <1>5, <1>7, <1>8

\* The parts of a concatenation.
LEMMA Concatenation ==
  ASSUME NEW a \in Seq(Value), NEW b \in Seq(Value)
  PROVE  /\ a \o b \in Seq(Value) /\ Len(a \o b) = Len(a) + Len(b)
         /\ \A i \in 1 .. Len(a) + Len(b) : (a \o b)[i] = IF i <= Len(a) THEN a[i] ELSE b[i - Len(a)]
  OBVIOUS

\* What the elements before, the items, and the elements after make together.
LEMMA SplicedIs ==
  ASSUME NEW s \in Seq(Value), NEW at \in 0 .. Len(s), NEW c \in Nat, NEW items \in [1 .. c -> Value]
  PROVE  /\ Spliced(s, at, items, c) = SubSeq(s, 1, at) \o items \o SubSeq(s, at + 1, Len(s))
         /\ Spliced(s, at, items, c) \in Seq(Value)
         /\ Len(Spliced(s, at, items, c)) = Len(s) + c
  <1>1. PICK L \in Nat : L = Len(s) /\ DOMAIN s = 1 .. L
    OBVIOUS
  <1>2. PICK a : a = SubSeq(s, 1, at)
    OBVIOUS
  <1>3. PICK b : b = SubSeq(s, at + 1, L)
    OBVIOUS
  <1>4. a \in Seq(Value) /\ Len(a) = at /\ \A i \in 1 .. at : a[i] = s[i]
    BY <1>1, <1>2
  <1>5. b \in Seq(Value) /\ Len(b) = L - at /\ \A i \in 1 .. L - at : b[i] = s[at + i]
    BY <1>1, <1>3
  <1>6. items \in Seq(Value) /\ Len(items) = c
    OBVIOUS
  <1>7. PICK d : d = a \o items
    OBVIOUS
  <1>8. /\ d \in Seq(Value) /\ Len(d) = at + c
        /\ \A i \in 1 .. at + c : d[i] = IF i <= at THEN s[i] ELSE items[i - at]
    <2>1. /\ d \in Seq(Value) /\ Len(d) = Len(a) + Len(items)
          /\ \A i \in 1 .. Len(a) + Len(items) : d[i] = IF i <= Len(a) THEN a[i] ELSE items[i - Len(a)]
      BY ONLY <1>4, <1>6, <1>7, Concatenation
    <2>2. /\ d \in Seq(Value) /\ Len(d) = at + c
          /\ \A i \in 1 .. at + c : d[i] = IF i <= at THEN a[i] ELSE items[i - at]
      BY <1>4, <1>6, <2>1
    <2>. QED  BY <1>4, <2>2
  <1>9. PICK e : e = d \o b
    OBVIOUS
  <1>10. /\ e \in Seq(Value) /\ Len(e) = L + c
         /\ \A i \in 1 .. L + c : e[i] = IF i <= at + c THEN d[i] ELSE b[i - (at + c)]
    <2>1. /\ e \in Seq(Value) /\ Len(e) = Len(d) + Len(b)
          /\ \A i \in 1 .. Len(d) + Len(b) : e[i] = IF i <= Len(d) THEN d[i] ELSE b[i - Len(d)]
      BY ONLY <1>5, <1>8, <1>9, Concatenation
    <2>2. Len(d) + Len(b) = L + c
      BY <1>1, <1>5, <1>8
    <2>. QED  BY <1>8, <2>1, <2>2
  <1>11. ASSUME NEW i \in 1 .. L + c PROVE e[i] = Spliced(s, at, items, c)[i]
    <2>1. CASE i <= at + c
      BY <1>1, <1>8, <1>10, <2>1 DEF Spliced
    <2>2. CASE i > at + c
      <3>1. i - (at + c) \in 1 .. L - at
        BY <1>1, <2>2
      <3>2. b[i - (at + c)] = s[at + (i - (at + c))] /\ at + (i - (at + c)) = i - c
        BY <1>5, <3>1
      <3>. QED  BY <1>1, <1>10, <2>2, <3>2 DEF Spliced
    <2>. QED  BY <1>1, <2>1, <2>2
  <1>12. DOMAIN Spliced(s, at, items, c) = 1 .. L + c
    BY <1>1 DEF Spliced
  <1>13. Spliced(s, at, items, c) = [i \in 1 .. L + c |-> Spliced(s, at, items, c)[i]]
    BY <1>1 DEF Spliced
  <1>14. e = Spliced(s, at, items, c)
    BY <1>10, <1>11, <1>13
  <1>. QED  BY <1>1, <1>2, <1>3, <1>7, <1>9, <1>10, <1>14

\* A source's elements, as values.
LEMMA GivenType ==
  ASSUME elems \in Seq(Value), NEW src \in Dyn!Theirs \cup Dyn!Ours
  PROVE  Given(elems, src) \in [1 .. Dyn!CountOf(src) -> Value]
  <1>1. CASE ~src.own
    BY <1>1, SourceIs DEF Given, Value
  <1>2. CASE src.own
    <2>1. PICK c \in Nat : c = Dyn!CountOf(src) /\ src.count = c
      BY <1>2, SourceIs, ArrayAssumption DEF Dyn!DynAssumption
    <2>2. \A j \in 1 .. c : src.from + j \in 1 .. Len(elems)
      BY <1>2, <2>1, SourceIs
    <2>3. \A j \in 1 .. c : elems[src.from + j] \in Value
      BY <2>2
    <2>. QED  BY <1>2, <2>1, <2>3 DEF Given
  <1>. QED  BY <1>1, <1>2, SourceIs

\* Insertions and appends splice, whatever the source.
LEMMA Splices ==
  ASSUME elems \in Seq(Value)
  PROVE  Dyn!InsertIsSplice
  <1>1. SUFFICES ASSUME NEW src \in Dyn!Theirs \cup Dyn!Ours, NEW op \in {"insert", "append"},
                        NEW at \in IF op = "insert" THEN 0 .. Dyn!len ELSE {Dyn!len}
                 PROVE  Dyn!Filled(op, at, src, Dyn!CountOf(src), Dyn!len + Dyn!CountOf(src))
                          = SubSeq(elems, 1, at)
                            \o (IF src.own THEN SubSeq(elems, src.from + 1, src.from + src.count) ELSE src.items)
                            \o SubSeq(elems, at + 1, Dyn!len)
    BY Zenon DEF Dyn!InsertIsSplice
  <1>2. at \in 0 .. Len(elems) /\ (op = "append" => at = Len(elems)) /\ Dyn!len = Len(elems)
    BY <1>1 DEF Dyn!len
  <1>3. PICK c \in Nat : c = Dyn!CountOf(src)
    BY SourceIs, ArrayAssumption DEF Dyn!DynAssumption
  <1>4. Given(elems, src) \in [1 .. c -> Value]
    BY <1>3, GivenType
  <1>5. Given(elems, src) = IF src.own THEN SubSeq(elems, src.from + 1, src.from + src.count) ELSE src.items
    <2>1. CASE src.own
      <3>1. src.from \in Nat /\ src.count = c /\ src.from + c <= Len(elems) /\ Len(elems) \in Nat
        BY <1>3, <2>1, SourceIs
      <3>2. SubSeq(elems, src.from + 1, src.from + c) = [j \in 1 .. c |-> elems[src.from + j]]
        BY <1>3, <3>1
      <3>. QED  BY <2>1, <3>1, <3>2 DEF Given
    <2>2. CASE ~src.own
      BY <2>2 DEF Given
    <2>. QED  BY <2>1, <2>2
  <1>6. Spliced(elems, at, Given(elems, src), c)
          = SubSeq(elems, 1, at) \o Given(elems, src) \o SubSeq(elems, at + 1, Len(elems))
    BY <1>2, <1>4, SplicedIs
  <1>7. Dyn!Filled(op, at, src, Dyn!CountOf(src), Dyn!len + Dyn!CountOf(src))
          = Spliced(elems, at, Given(elems, src), c)
    BY <1>2, <1>3, FilledIs
  <1>. QED  BY <1>2, <1>5, <1>6, <1>7

-----------------------------------------------------------------------------
(* The array: counting instances *)

\* A bijection keeps the number of elements.
LEMMA SameSize ==
  ASSUME NEW S, NEW T, IsFiniteSet(S), NEW f \in [S -> T],
         \A x, y \in S : f[x] = f[y] => x = y,
         \A z \in T : \E x \in S : f[x] = z
  PROVE  IsFiniteSet(T) /\ Cardinality(T) = Cardinality(S)
  <1>1. f \in Bijection(S, T)
    BY DEF Bijection, Injection, Surjection, IsInjective
  <1>2. ExistsBijection(S, T)
    BY <1>1 DEF ExistsBijection
  <1>. QED  BY <1>2, FS_Bijection

\* The places of e in f.
At(f, e) == {p \in DOMAIN f : f[p] = e}

\* Splicing adds what the items hold to what the sequence holds.
LEMMA SplicedCount ==
  ASSUME NEW s \in Seq(Value), NEW at \in 0 .. Len(s), NEW c \in Nat, NEW items \in [1 .. c -> Value], NEW e
  PROVE  Cardinality(At(Spliced(s, at, items, c), e)) = Cardinality(At(s, e)) + Cardinality(At(items, e))
  <1>1. PICK L \in Nat : L = Len(s) /\ DOMAIN s = 1 .. L
    OBVIOUS
  <1>2. PICK z : z = Spliced(s, at, items, c)
    OBVIOUS
  <1>3. /\ DOMAIN z = 1 .. L + c
        /\ \A p \in 1 .. L + c : z[p] = IF p <= at THEN s[p] ELSE IF p <= at + c THEN items[p - at] ELSE s[p - c]
    BY <1>1, <1>2 DEF Spliced
  <1>4. IsFiniteSet(At(s, e)) /\ IsFiniteSet(At(items, e)) /\ Cardinality(At(s, e)) \in Nat /\ Cardinality(At(items, e)) \in Nat
    <2>1. At(s, e) \in SUBSET (1 .. L) /\ At(items, e) \in SUBSET (1 .. c)
      BY <1>1 DEF At
    <2>2. IsFiniteSet(1 .. L) /\ IsFiniteSet(1 .. c)
      BY <1>1, FS_Interval
    <2>3. IsFiniteSet(At(s, e)) /\ IsFiniteSet(At(items, e))
      BY <2>1, <2>2, FS_Subset
    <2>. QED  BY <2>3, FS_CardinalityType
  <1>5. PICK A : A = {p \in At(z, e) : p > at /\ p <= at + c}
    OBVIOUS
  <1>6. PICK B : B = {p \in At(z, e) : ~(p > at /\ p <= at + c)}
    OBVIOUS
  <1>7. IsFiniteSet(A) /\ Cardinality(A) = Cardinality(At(items, e))
    <2>1. PICK f : f = [j \in At(items, e) |-> at + j]
      OBVIOUS
    <2>2. \A j \in At(items, e) : j \in 1 .. c /\ items[j] = e
      BY DEF At
    <2>3. f \in [At(items, e) -> A]
      <3>1. ASSUME NEW j \in At(items, e) PROVE at + j \in A
        <4>1. at + j \in 1 .. L + c /\ at + j > at /\ at + j <= at + c /\ (at + j) - at = j
          BY <1>1, <2>2
        <4>2. z[at + j] = e
          BY <1>1, <1>3, <2>2, <4>1
        <4>. QED  BY <1>3, <1>5, <4>1, <4>2 DEF At
      <3>. QED  BY <2>1, <3>1
    <2>4. \A x, y \in At(items, e) : f[x] = f[y] => x = y
      BY <1>1, <2>1, <2>2
    <2>5. \A q \in A : \E x \in At(items, e) : f[x] = q
      <3>1. ASSUME NEW q \in A PROVE \E x \in At(items, e) : f[x] = q
        <4>1. q \in 1 .. L + c /\ z[q] = e /\ q > at /\ q <= at + c
          BY <1>3, <1>5 DEF At
        <4>2. q - at \in 1 .. c /\ items[q - at] = e /\ at + (q - at) = q
          BY <1>1, <1>3, <4>1
        <4>. QED  BY <2>1, <4>2 DEF At
      <3>. QED  BY <3>1
    <2>. QED  BY <1>4, <2>3, <2>4, <2>5, SameSize
  <1>8. IsFiniteSet(B) /\ Cardinality(B) = Cardinality(At(s, e))
    <2>1. PICK f : f = [j \in At(s, e) |-> IF j <= at THEN j ELSE j + c]
      OBVIOUS
    <2>2. \A j \in At(s, e) : j \in 1 .. L /\ s[j] = e
      BY <1>1 DEF At
    <2>3. f \in [At(s, e) -> B]
      <3>1. ASSUME NEW j \in At(s, e) PROVE f[j] \in B
        <4>1. f[j] = (IF j <= at THEN j ELSE j + c) /\ j \in 1 .. L /\ s[j] = e
          BY <2>1, <2>2
        <4>2. f[j] \in 1 .. L + c /\ ~(f[j] > at /\ f[j] <= at + c)
          BY <1>1, <4>1
        <4>3. z[f[j]] = e
          <5>1. CASE j <= at
            BY <1>3, <4>1, <4>2, <5>1
          <5>2. CASE j > at
            <6>1. f[j] = j + c /\ ~(f[j] <= at) /\ ~(f[j] <= at + c) /\ f[j] - c = j
              BY <1>1, <4>1, <5>2
            <6>. QED  BY <1>3, <4>1, <4>2, <6>1
          <5>. QED  BY <1>1, <4>1, <5>1, <5>2
        <4>. QED  BY <1>3, <1>6, <4>2, <4>3 DEF At
      <3>. QED  BY <2>1, <3>1
    <2>4. \A x, y \in At(s, e) : f[x] = f[y] => x = y
      BY <1>1, <2>1, <2>2
    <2>5. \A q \in B : \E x \in At(s, e) : f[x] = q
      <3>1. ASSUME NEW q \in B PROVE \E x \in At(s, e) : f[x] = q
        <4>1. q \in 1 .. L + c /\ z[q] = e /\ ~(q > at /\ q <= at + c)
          BY <1>3, <1>6 DEF At
        <4>2. CASE q <= at
          <5>1. q \in 1 .. L /\ s[q] = e
            BY <1>1, <1>3, <4>1, <4>2
          <5>2. q \in At(s, e) /\ f[q] = q
            BY <1>1, <2>1, <4>2, <5>1 DEF At
          <5>. QED  BY <5>2
        <4>3. CASE q > at + c
          <5>1. q - c \in 1 .. L /\ s[q - c] = e /\ q - c > at /\ (q - c) + c = q
            BY <1>1, <1>3, <4>1, <4>3
          <5>2. q - c \in At(s, e) /\ f[q - c] = q
            BY <1>1, <2>1, <5>1 DEF At
          <5>. QED  BY <5>2
        <4>. QED  BY <1>1, <4>1, <4>2, <4>3
      <3>. QED  BY <3>1
    <2>. QED  BY <1>4, <2>3, <2>4, <2>5, SameSize
  <1>9. At(z, e) = A \cup B /\ A \cap B = {}
    BY <1>5, <1>6
  <1>10. Cardinality(A \cup B) = Cardinality(A) + Cardinality(B) - Cardinality(A \cap B) /\ Cardinality({}) = 0
    BY <1>7, <1>8, FS_Union, FS_EmptySet
  <1>11. Cardinality(A) + Cardinality(B) - 0 = Cardinality(At(s, e)) + Cardinality(At(items, e))
    BY <1>4, <1>7, <1>8
  <1>. QED  BY <1>2, <1>9, <1>10, <1>11

\* The places of e in a finite function are finitely many.
LEMMA AtFinite ==
  ASSUME NEW f, IsFiniteSet(DOMAIN f), NEW e
  PROVE  IsFiniteSet(At(f, e)) /\ Cardinality(At(f, e)) \in Nat
  <1>1. At(f, e) \in SUBSET DOMAIN f
    BY DEF At
  <1>2. IsFiniteSet(At(f, e))
    BY <1>1, FS_Subset
  <1>. QED  BY <1>2, FS_CardinalityType

\* A sequence has finitely many places.
LEMMA PlacesFinite ==
  ASSUME NEW s \in Seq(Value)
  PROVE  IsFiniteSet(DOMAIN s)
  <1>1. DOMAIN s = 1 .. Len(s) /\ Len(s) \in Nat /\ 1 \in Int
    OBVIOUS
  <1>. QED  BY <1>1, FS_Interval

\* What Remove leaves of s: the elements behind move down, or the last one moves in.
Without(s, index, unordered) ==
    [p \in 1 .. Len(s) - 1 |->
        IF p <= index THEN s[p]
        ELSE IF ~unordered THEN s[p + 1]
        ELSE IF p = index + 1 THEN s[Len(s)] ELSE s[p]]

\* One place is gone, and with it what it held.
LEMMA WithoutCount ==
  ASSUME NEW s \in Seq(Value), NEW index \in 0 .. Len(s) - 1, NEW unordered \in BOOLEAN, NEW e
  PROVE  /\ Without(s, index, unordered) \in Seq(Value)
         /\ Len(Without(s, index, unordered)) = Len(s) - 1
         /\ Cardinality(At(Without(s, index, unordered), e))
              = Cardinality(At(s, e)) - (IF s[index + 1] = e THEN 1 ELSE 0)
  <1>1. PICK L \in Nat : L = Len(s) /\ DOMAIN s = 1 .. L /\ \A p \in 1 .. L : s[p] \in Value
    OBVIOUS
  <1>2. PICK z : z = Without(s, index, unordered)
    OBVIOUS
  <1>3. PICK h : h = [p \in 1 .. L - 1 |-> IF p <= index THEN p
                                          ELSE IF ~unordered THEN p + 1
                                          ELSE IF p = index + 1 THEN L ELSE p]
    OBVIOUS
  <1>4. \A p \in 1 .. L - 1 : h[p] \in 1 .. L /\ h[p] # index + 1
    BY <1>1, <1>3
  <1>5. \A p, q \in 1 .. L - 1 : h[p] = h[q] => p = q
    BY <1>1, <1>3
  <1>6. \A q \in 1 .. L : q # index + 1 => \E p \in 1 .. L - 1 : h[p] = q
    <2>1. ASSUME NEW q \in 1 .. L, q # index + 1 PROVE \E p \in 1 .. L - 1 : h[p] = q
      <3>1. CASE q <= index
        <4>1. q \in 1 .. L - 1 /\ h[q] = q
          BY <1>1, <1>3, <3>1
        <4>. QED  BY <4>1
      <3>2. CASE q > index + 1 /\ ~unordered
        <4>1. q - 1 \in 1 .. L - 1 /\ h[q - 1] = q
          BY <1>1, <1>3, <3>2
        <4>. QED  BY <4>1
      <3>3. CASE q > index + 1 /\ unordered /\ q = L
        <4>1. index + 1 \in 1 .. L - 1 /\ h[index + 1] = q
          BY <1>1, <1>3, <3>3
        <4>. QED  BY <4>1
      <3>4. CASE q > index + 1 /\ unordered /\ q # L
        <4>1. q \in 1 .. L - 1 /\ h[q] = q
          BY <1>1, <1>3, <3>4
        <4>. QED  BY <4>1
      <3>. QED  BY <1>1, <2>1, <3>1, <3>2, <3>3, <3>4
    <2>. QED  BY <2>1
  <1>7. DOMAIN z = 1 .. L - 1 /\ \A p \in 1 .. L - 1 : z[p] = s[h[p]]
    BY <1>1, <1>2, <1>3 DEF Without
  <1>8. z \in Seq(Value) /\ Len(z) = L - 1
    <2>1. L - 1 \in Nat
      BY <1>1
    <2>2. \A p \in 1 .. L - 1 : z[p] \in Value
      BY <1>1, <1>4, <1>7
    <2>3. z = [p \in 1 .. L - 1 |-> z[p]]
      BY <1>1, <1>2 DEF Without
    <2>. QED  BY <2>1, <2>2, <2>3
  <1>9. PICK T : T = At(s, e) \ {index + 1}
    OBVIOUS
  <1>10. IsFiniteSet(At(s, e)) /\ Cardinality(At(s, e)) \in Nat
    BY PlacesFinite, AtFinite
  <1>11. IsFiniteSet(T) /\ Cardinality(T) = IF index + 1 \in At(s, e) THEN Cardinality(At(s, e)) - 1 ELSE Cardinality(At(s, e))
    BY <1>9, <1>10, FS_RemoveElement
  <1>12. index + 1 \in At(s, e) <=> s[index + 1] = e
    BY <1>1 DEF At
  <1>13. IsFiniteSet(At(z, e))
    BY <1>8, PlacesFinite, AtFinite
  <1>14. PICK f : f = [p \in At(z, e) |-> h[p]]
    OBVIOUS
  <1>15. \A p \in At(z, e) : p \in 1 .. L - 1 /\ s[h[p]] = e
    BY <1>7 DEF At
  <1>16. f \in [At(z, e) -> T]
    <2>1. \A p \in At(z, e) : h[p] \in T
      BY <1>1, <1>4, <1>9, <1>15 DEF At
    <2>. QED  BY <1>14, <2>1
  <1>17. \A p, q \in At(z, e) : f[p] = f[q] => p = q
    BY <1>5, <1>14, <1>15
  <1>18. \A q \in T : \E p \in At(z, e) : f[p] = q
    <2>1. ASSUME NEW q \in T PROVE \E p \in At(z, e) : f[p] = q
      <3>1. q \in 1 .. L /\ s[q] = e /\ q # index + 1
        BY <1>1, <1>9 DEF At
      <3>2. PICK p \in 1 .. L - 1 : h[p] = q
        BY <1>6, <3>1
      <3>3. p \in At(z, e)
        BY <1>7, <3>1, <3>2 DEF At
      <3>. QED  BY <1>14, <3>2, <3>3
    <2>. QED  BY <2>1
  <1>19. Cardinality(At(z, e)) = Cardinality(T)
    BY <1>13, <1>16, <1>17, <1>18, SameSize
  <1>20. Cardinality(At(z, e)) = Cardinality(At(s, e)) - (IF s[index + 1] = e THEN 1 ELSE 0)
    BY <1>10, <1>11, <1>12, <1>19
  <1>. QED  BY <1>1, <1>2, <1>8, <1>20

\* A sequence of one value holds it once.
LEMMA SingleCount ==
  ASSUME NEW v, NEW e
  PROVE  Cardinality(At(<<v>>, e)) = IF v = e THEN 1 ELSE 0
  <1>1. CASE v = e
    <2>1. At(<<v>>, e) = {1}
      BY <1>1 DEF At
    <2>. QED  BY <1>1, <2>1, FS_Singleton
  <1>2. CASE v # e
    <2>1. At(<<v>>, e) = {}
      BY <1>2 DEF At
    <2>. QED  BY <1>2, <2>1, FS_EmptySet
  <1>. QED  BY <1>1, <1>2

\* The instances below a cut and those above it are all there are.
LEMMA CutCount ==
  ASSUME NEW s \in Seq(Value), NEW k \in 0 .. Len(s), NEW e
  PROVE  /\ SubSeq(s, 1, k) \in Seq(Value) /\ Len(SubSeq(s, 1, k)) = k
         /\ SubSeq(s, k + 1, Len(s)) \in Seq(Value)
         /\ Cardinality(At(SubSeq(s, 1, k), e)) + Cardinality(At(SubSeq(s, k + 1, Len(s)), e)) = Cardinality(At(s, e))
  <1>1. PICK L \in Nat : L = Len(s) /\ DOMAIN s = 1 .. L
    OBVIOUS
  <1>2. PICK a : a = SubSeq(s, 1, k)
    OBVIOUS
  <1>3. PICK b : b = SubSeq(s, k + 1, L)
    OBVIOUS
  <1>4. a \in Seq(Value) /\ Len(a) = k /\ \A i \in 1 .. k : a[i] = s[i]
    BY <1>1, <1>2
  <1>5. b \in Seq(Value) /\ Len(b) = L - k /\ \A i \in 1 .. L - k : b[i] = s[k + i]
    BY <1>1, <1>3
  <1>6. PICK c \in Nat : c = L - k
    <2>1. L - k \in Nat
      BY <1>1
    <2>. QED  BY <2>1
  <1>7. b \in [1 .. c -> Value] /\ k \in 0 .. Len(a)
    BY <1>1, <1>4, <1>5, <1>6
  <1>8. Spliced(a, k, b, c) = s
    <2>1. DOMAIN Spliced(a, k, b, c) = 1 .. L
      BY <1>1, <1>4, <1>6 DEF Spliced
    <2>2. ASSUME NEW p \in 1 .. L PROVE Spliced(a, k, b, c)[p] = s[p]
      <3>1. Spliced(a, k, b, c)[p] = IF p <= k THEN a[p] ELSE IF p <= k + c THEN b[p - k] ELSE a[p - c]
        BY <1>1, <1>4, <1>6 DEF Spliced
      <3>2. CASE p <= k
        BY <1>4, <3>1, <3>2
      <3>3. CASE p > k
        <4>1. p <= k + c /\ p - k \in 1 .. L - k /\ k + (p - k) = p
          BY <1>1, <1>6, <3>3
        <4>. QED  BY <1>1, <1>5, <3>1, <3>3, <4>1
      <3>. QED  BY <1>1, <3>2, <3>3
    <2>3. Spliced(a, k, b, c) = [p \in 1 .. L |-> Spliced(a, k, b, c)[p]]
      BY <1>1, <1>4, <1>6 DEF Spliced
    <2>4. s = [p \in 1 .. L |-> s[p]]
      BY <1>1
    <2>. QED  BY <2>2, <2>3, <2>4
  <1>9. Cardinality(At(s, e)) = Cardinality(At(a, e)) + Cardinality(At(b, e))
    BY <1>4, <1>7, <1>8, SplicedCount
  <1>. QED  BY <1>1, <1>2, <1>3, <1>4, <1>5, <1>9

-----------------------------------------------------------------------------
(* The array: its steps *)

\* What every step of the array keeps: the count, and the elements if it fails.
ArrayKept ==
    /\ Dyn!CountIsAccurate'
    /\ dynAnswer' = "refused" => UNCHANGED <<elems, room, dynOwned>>

\* The array's own assumptions.
LEMMA ArrayFacts ==
  /\ MinCap \in Nat /\ MaxCap \in Nat /\ MaxCount \in Nat /\ Lengths \subseteq 0 .. MaxCap
  /\ Zero \notin Elem /\ Junk \notin Elem
  BY ArrayAssumption DEF Dyn!DynAssumption

\* Tally counts places.
LEMMA TallyIs ==
  ASSUME NEW s
  PROVE  Dyn!Tally(s) = [e \in Elem |-> Cardinality(At(s, e))]
  <1>1. \A e \in Elem : {p \in DOMAIN s : s[p] = e} = At(s, e)
    BY DEF At
  <1>2. \A S : Dyn!Cardinality(S) = Cardinality(S)
    BY Zenon DEF Dyn!Cardinality, Cardinality
  <1>3. \A e \in Elem : Dyn!Cardinality({p \in DOMAIN s : s[p] = e}) = Cardinality(At(s, e))
    BY <1>1, <1>2
  <1>. QED  BY <1>3 DEF Dyn!Tally

\* The parts of the invariant.
LEMMA ArrayShape ==
  ASSUME Dyn!CountIsAccurate
  PROVE  /\ elems \in Seq(Value) /\ Len(elems) \in Nat /\ Dyn!len = Len(elems)
         /\ room \in 0 .. MaxCap /\ room \in Nat /\ Len(elems) <= room
         /\ dynBound \in BOOLEAN /\ copyPanicked \in BOOLEAN
         /\ dynOwned \in [Elem -> Int]
         /\ dynPhase \in {"running", "unwinding", "ended"}
         /\ dynAnswer \in {"ok", "refused", "panicked"}
         /\ ~copyPanicked => \A e \in Elem : dynOwned[e] = Cardinality(At(elems, e))
  <1>1. Dyn!TypeOK /\ (copyPanicked \/ dynOwned = Dyn!Tally(elems))
    BY DEF Dyn!CountIsAccurate
  <1>2. elems \in Seq(Value) /\ room \in 0 .. MaxCap /\ Dyn!len <= room
    BY <1>1 DEF Dyn!TypeOK, Value
  <1>3. Len(elems) \in Nat /\ room \in Nat /\ Dyn!len = Len(elems)
    BY <1>2, ArrayFacts DEF Dyn!len
  <1>4. ~copyPanicked => \A e \in Elem : dynOwned[e] = Cardinality(At(elems, e))
    BY <1>1, TallyIs
  <1>. QED  BY <1>1, <1>2, <1>3, <1>4 DEF Dyn!TypeOK

\* The invariant from its parts.
LEMMA ArrayAgain ==
  ASSUME elems' \in Seq(Value), room' \in 0 .. MaxCap, Len(elems') <= room',
         dynBound' \in BOOLEAN, copyPanicked' \in BOOLEAN, dynOwned' \in [Elem -> Int],
         dynPhase' \in {"running", "unwinding", "ended"},
         dynAnswer' \in {"ok", "refused", "panicked"},
         ~copyPanicked' => \A e \in Elem : dynOwned'[e] = Cardinality(At(elems', e))
  PROVE  Dyn!CountIsAccurate'
  <1>1. Dyn!TypeOK'
    BY DEF Dyn!TypeOK, Value, Dyn!len
  <1>2. copyPanicked' \/ dynOwned' = Dyn!Tally(elems')
    <2>1. CASE ~copyPanicked'
      <3>1. dynOwned' = [e \in Elem |-> Cardinality(At(elems', e))]
        BY <2>1
      <3>. QED  BY <3>1, TallyIs
    <2>. QED  BY <2>1
  <1>. QED  BY <1>1, <1>2 DEF Dyn!CountIsAccurate

\* Instances come to the ledger.
LEMMA Gains ==
  ASSUME dynOwned \in [Elem -> Int], NEW f, IsFiniteSet(DOMAIN f), Dyn!Gain(f)
  PROVE  /\ dynOwned' \in [Elem -> Int]
         /\ \A e \in Elem : dynOwned'[e] = dynOwned[e] + Cardinality(At(f, e))
  <1>1. dynOwned' = [e \in Elem |-> dynOwned[e] + Cardinality(At(f, e))]
    BY TallyIs DEF Dyn!Gain
  <1>2. \A e \in Elem : Cardinality(At(f, e)) \in Nat
    BY AtFinite
  <1>. QED  BY <1>1, <1>2

\* Instances leave it.
LEMMA Losses ==
  ASSUME dynOwned \in [Elem -> Int], NEW f, IsFiniteSet(DOMAIN f), Dyn!Lose(f)
  PROVE  /\ dynOwned' \in [Elem -> Int]
         /\ \A e \in Elem : dynOwned'[e] = dynOwned[e] - Cardinality(At(f, e))
  <1>1. dynOwned' = [e \in Elem |-> dynOwned[e] - Cardinality(At(f, e))]
    BY TallyIs DEF Dyn!Lose
  <1>2. \A e \in Elem : Cardinality(At(f, e)) \in Nat
    BY AtFinite
  <1>. QED  BY <1>1, <1>2

\* A call that touches no element.
LEMMA ArrayUntouched ==
  ASSUME Dyn!CountIsAccurate, UNCHANGED <<elems, dynOwned, copyPanicked>>,
         room' \in 0 .. MaxCap, Len(elems) <= room',
         dynBound' \in BOOLEAN, dynPhase' \in {"running", "unwinding", "ended"},
         dynAnswer' \in {"ok", "refused", "panicked"}
  PROVE  Dyn!CountIsAccurate'
  BY ArrayShape, ArrayAgain

\* A refusal.
LEMMA ArrayRefuses ==
  ASSUME Dyn!CountIsAccurate, Dyn!Refuse, dynBound' \in BOOLEAN
  PROVE  ArrayKept
  BY ArrayShape, ArrayUntouched DEF Dyn!Refuse, ArrayKept

\* Growth makes room, and is never below the capacity asked for.
LEMMA GrowthTarget ==
  ASSUME NEW need \in Nat, room \in Nat
  PROVE  Dyn!dyn_growth_target(need) \in Nat /\ Dyn!dyn_growth_target(need) >= need
  BY ArrayFacts DEF Dyn!dyn_growth_target, Dyn!Larger

\* pop.
LEMMA ArrayPop ==
  ASSUME Dyn!CountIsAccurate, Dyn!Pop
  PROVE  ArrayKept
  <1>1. Len(elems) > 0 /\ elems' = SubSeq(elems, 1, Len(elems) - 1) /\ Dyn!Lose(<<elems[Len(elems)]>>)
        /\ dynAnswer' = "ok" /\ UNCHANGED <<dynPhase, copyPanicked, room, dynBound>>
    BY DEF Dyn!Pop, Dyn!Done, Dyn!len
  <1>2. PICK L \in Nat : L = Len(elems) /\ L > 0
    BY <1>1, ArrayShape
  <1>3. elems' = Without(elems, L - 1, FALSE)
    <2>1. elems' = [p \in 1 .. L - 1 |-> elems[p]]
      BY <1>1, <1>2, ArrayShape
    <2>. QED  BY <1>2, <2>1 DEF Without
  <1>. DEFINE last == <<elems[L]>>
  <1>4. IsFiniteSet(DOMAIN last)
    <2>1. DOMAIN last = 1 .. 1 /\ 1 \in Int
      OBVIOUS
    <2>. QED  BY <2>1, FS_Interval
  <1>5. dynOwned' \in [Elem -> Int] /\ \A e \in Elem : dynOwned'[e] = dynOwned[e] - Cardinality(At(last, e))
    BY <1>1, <1>2, <1>4, ArrayShape, Losses
  <1>6. L - 1 \in 0 .. Len(elems) - 1
    BY <1>2
  <1>7. elems' \in Seq(Value) /\ Len(elems') = L - 1
    BY <1>2, <1>3, <1>6, ArrayShape, WithoutCount
  <1>8. ASSUME ~copyPanicked, NEW e \in Elem
        PROVE  dynOwned'[e] = Cardinality(At(elems', e))
    <2>1. Cardinality(At(elems', e)) = Cardinality(At(elems, e)) - (IF elems[L - 1 + 1] = e THEN 1 ELSE 0)
      BY <1>3, <1>6, ArrayShape, WithoutCount
    <2>2. L - 1 + 1 = L
      OBVIOUS
    <2>3. Cardinality(At(last, e)) = IF elems[L] = e THEN 1 ELSE 0
      BY SingleCount
    <2>. QED  BY <1>5, <1>8, <2>1, <2>2, <2>3, ArrayShape
  <1>9. Len(elems') <= room'
    BY <1>1, <1>2, <1>7, ArrayShape
  <1>10. Dyn!CountIsAccurate'
    BY <1>1, <1>5, <1>7, <1>8, <1>9, ArrayShape, ArrayAgain
  <1>. QED  BY <1>1, <1>10 DEF ArrayKept

\* remove_at and unordered_remove.
LEMMA ArrayRemove ==
  ASSUME Dyn!CountIsAccurate, NEW index \in 0 .. Dyn!len - 1, NEW unordered \in BOOLEAN, Dyn!Remove(index, unordered)
  PROVE  ArrayKept
  <1>1. /\ elems' = Without(elems, index, unordered) /\ Dyn!Lose(<<elems[index + 1]>>)
        /\ dynAnswer' = "ok" /\ UNCHANGED <<dynPhase, copyPanicked, room, dynBound>>
    BY DEF Dyn!Remove, Dyn!Done, Dyn!len, Without
  <1>2. PICK L \in Nat : L = Len(elems) /\ index \in 0 .. L - 1
    BY ArrayShape
  <1>. DEFINE gone == <<elems[index + 1]>>
  <1>4. IsFiniteSet(DOMAIN gone)
    <2>1. DOMAIN gone = 1 .. 1 /\ 1 \in Int
      OBVIOUS
    <2>. QED  BY <2>1, FS_Interval
  <1>5. dynOwned' \in [Elem -> Int] /\ \A e \in Elem : dynOwned'[e] = dynOwned[e] - Cardinality(At(gone, e))
    BY <1>1, <1>2, <1>4, ArrayShape, Losses
  <1>7. elems' \in Seq(Value) /\ Len(elems') = L - 1
    BY <1>1, <1>2, ArrayShape, WithoutCount
  <1>8. ASSUME ~copyPanicked, NEW e \in Elem
        PROVE  dynOwned'[e] = Cardinality(At(elems', e))
    <2>1. Cardinality(At(elems', e)) = Cardinality(At(elems, e)) - (IF elems[index + 1] = e THEN 1 ELSE 0)
      BY <1>1, <1>2, ArrayShape, WithoutCount
    <2>3. Cardinality(At(gone, e)) = IF elems[index + 1] = e THEN 1 ELSE 0
      BY SingleCount
    <2>. QED  BY <1>5, <1>8, <2>1, <2>3, ArrayShape
  <1>9. Len(elems') <= room'
    BY <1>1, <1>2, <1>7, ArrayShape
  <1>10. Dyn!CountIsAccurate'
    BY <1>1, <1>5, <1>7, <1>8, <1>9, ArrayShape, ArrayAgain
  <1>. QED  BY <1>1, <1>10 DEF ArrayKept

\* The length is k, and what lay above has been given to its hooks.
LEMMA ArrayCut ==
  ASSUME Dyn!CountIsAccurate, NEW k \in 0 .. Dyn!len,
         elems' = SubSeq(elems, 1, k), Dyn!Lose(SubSeq(elems, k + 1, Dyn!len)), UNCHANGED copyPanicked,
         room' \in 0 .. MaxCap, k <= room', dynBound' \in BOOLEAN,
         dynPhase' \in {"running", "unwinding", "ended"}, dynAnswer' \in {"ok", "panicked"}
  PROVE  ArrayKept
  <1>1. elems \in Seq(Value) /\ Dyn!len = Len(elems) /\ k \in 0 .. Len(elems)
    BY ArrayShape
  <1>2. elems' \in Seq(Value) /\ Len(elems') = k /\ SubSeq(elems, k + 1, Len(elems)) \in Seq(Value)
    BY <1>1, CutCount
  <1>3. IsFiniteSet(DOMAIN SubSeq(elems, k + 1, Len(elems)))
    BY <1>2, PlacesFinite
  <1>4. /\ dynOwned' \in [Elem -> Int]
        /\ \A e \in Elem : dynOwned'[e] = dynOwned[e] - Cardinality(At(SubSeq(elems, k + 1, Len(elems)), e))
    BY <1>1, <1>3, ArrayShape, Losses
  <1>5. ASSUME ~copyPanicked, NEW e \in Elem
        PROVE  dynOwned'[e] = Cardinality(At(elems', e))
    <2>1. PICK a \in Nat : a = Cardinality(At(elems', e))
      BY <1>2, PlacesFinite, AtFinite
    <2>2. PICK b \in Nat : b = Cardinality(At(SubSeq(elems, k + 1, Len(elems)), e))
      BY <1>2, PlacesFinite, AtFinite
    <2>3. a + b = Cardinality(At(elems, e))
      BY <1>1, <2>1, <2>2, CutCount
    <2>4. dynOwned[e] = a + b
      BY <1>5, <2>3, ArrayShape
    <2>5. dynOwned'[e] = (a + b) - b
      BY <1>4, <2>2, <2>4
    <2>. QED  BY <2>1, <2>2, <2>5
  <1>6. Dyn!CountIsAccurate'
    BY <1>2, <1>4, <1>5, ArrayShape, ArrayAgain
  <1>. QED  BY <1>6 DEF ArrayKept

\* A drop hook panics: its element and those above it are no longer counted.
LEMMA ArrayCutPanics ==
  ASSUME Dyn!CountIsAccurate, NEW n \in 0 .. Dyn!len, Dyn!TruncatePanics(n)
  PROVE  ArrayKept
  <1>1. PICK p \in n + 1 .. Dyn!len : elems' = SubSeq(elems, 1, p - 1) /\ Dyn!Lose(SubSeq(elems, p, Dyn!len))
    BY DEF Dyn!TruncatePanics, Dyn!CutAt
  <1>2. dynPhase' = "unwinding" /\ dynAnswer' = "panicked" /\ UNCHANGED <<room, dynBound, copyPanicked>>
    BY DEF Dyn!TruncatePanics, Dyn!Panic
  <1>3. p - 1 \in 0 .. Dyn!len /\ (p - 1) + 1 = p /\ p - 1 <= room
    BY ArrayShape
  <1>. QED  BY <1>1, <1>2, <1>3, ArrayShape, ArrayCut

\* dyn_truncate.
LEMMA ArrayTruncate ==
  ASSUME Dyn!CountIsAccurate, NEW n \in 0 .. Dyn!len, Dyn!dyn_truncate(n)
  PROVE  ArrayKept
  <1>1. CASE Dyn!TruncatePanics(n)
    BY <1>1, ArrayCutPanics
  <1>2. CASE /\ elems' = SubSeq(elems, 1, n)
             /\ Dyn!Lose(SubSeq(elems, n + 1, Dyn!len))
             /\ Dyn!Done /\ UNCHANGED <<room, dynBound>>
    <2>1. n <= room
      BY ArrayShape
    <2>. QED  BY <1>2, <2>1, ArrayShape, ArrayCut DEF Dyn!Done
  <1>. QED  BY <1>1, <1>2 DEF Dyn!dyn_truncate

\* drop.
LEMMA ArrayDrop ==
  ASSUME Dyn!CountIsAccurate, Dyn!Drop
  PROVE  ArrayKept
  <1>0. 0 \in 0 .. Dyn!len
    BY ArrayShape
  <1>1. CASE Dyn!TruncatePanics(0)
    BY <1>0, <1>1, ArrayCutPanics
  <1>2. CASE /\ elems' = <<>> /\ room' = 0 /\ dynBound' = FALSE
             /\ Dyn!Lose(elems)
             /\ dynPhase' = IF dynPhase = "unwinding" THEN "ended" ELSE dynPhase
             /\ dynAnswer' = "ok" /\ UNCHANGED copyPanicked
    <2>1. elems' = SubSeq(elems, 1, 0) /\ elems = SubSeq(elems, 0 + 1, Dyn!len)
      BY <1>2, ArrayShape
    <2>2. room' \in 0 .. MaxCap /\ 0 <= room'
      BY <1>2, ArrayFacts
    <2>3. Dyn!Lose(SubSeq(elems, 0 + 1, Dyn!len))
      BY <1>2, <2>1
    <2>. QED  BY <1>0, <1>2, <2>1, <2>2, <2>3, ArrayShape, ArrayCut
  <1>. QED  BY <1>1, <1>2 DEF Dyn!Drop

\* The slots below the old length hold values while elements are being put in.
LEMMA HalfFilled ==
  ASSUME elems \in Seq(Value), NEW src \in Dyn!Theirs \cup Dyn!Ours, NEW op \in {"insert", "append"},
         NEW at \in 0 .. Len(elems), op = "append" => at = Len(elems), NEW j \in 1 .. Dyn!CountOf(src)
  PROVE  /\ Dyn!Filled(op, at, src, j - 1, Dyn!len) \in Seq(Value)
         /\ Len(Dyn!Filled(op, at, src, j - 1, Dyn!len)) = Len(elems)
  <1>1. PICK c \in Nat : c = Dyn!CountOf(src) /\ j \in 1 .. c
    BY SourceIs, ArrayFacts
  <1>2. PICK w \in [1 .. c -> Value] : w = Given(elems, src)
    BY <1>1, GivenType
  <1>3. Dyn!Items(op, at, src) = w
    BY <1>2, ItemsAre
  <1>4. PICK L \in Nat : L = Len(elems) /\ Dyn!len = L /\ \A p \in 1 .. L : elems[p] \in Value
    BY DEF Dyn!len
  <1>5. Dyn!Filled(op, at, src, j - 1, L)
          = [p \in 1 .. L |-> IF p > at /\ p <= at + (j - 1) THEN w[p - at] ELSE Dyn!Shifted(at, c)[p - 1]]
    BY <1>1, <1>3, Zenon DEF Dyn!Filled
  <1>6. ASSUME NEW p \in 1 .. L PROVE Dyn!Shifted(at, c)[p - 1] \in Value
    <2>1. p - 1 \in 0 .. L + c - 1
      BY <1>1, <1>4
    <2>2. Dyn!Shifted(at, c) = [q \in 0 .. L + c - 1 |->
            IF q < at THEN elems[q + 1]
            ELSE IF q >= at + c THEN elems[q - c + 1]
            ELSE IF q < L THEN elems[q + 1] ELSE Junk]
      BY <1>4, Zenon DEF Dyn!Shifted
    <2>3. Dyn!Shifted(at, c)[p - 1] \in {elems[(p - 1) + 1], elems[(p - 1) - c + 1]}
          /\ (p - 1 < at + c => Dyn!Shifted(at, c)[p - 1] = elems[(p - 1) + 1])
      BY <1>1, <1>4, <2>1, <2>2
    <2>4. (p - 1) + 1 = p /\ (p - 1 >= at + c => (p - 1) - c + 1 \in 1 .. L)
      BY <1>1, <1>4
    <2>. QED  BY <1>1, <1>4, <2>3, <2>4
  <1>7. ASSUME NEW p \in 1 .. L, p > at, p <= at + (j - 1) PROVE w[p - at] \in Value
    <2>1. p - at \in 1 .. c
      BY <1>1, <1>4, <1>7
    <2>. QED  BY <1>2, <2>1
  <1>8. Dyn!Filled(op, at, src, j - 1, L) \in [1 .. L -> Value]
    BY <1>5, <1>6, <1>7
  <1>. QED  BY <1>4, <1>8

\* A refused copy leaves the elements as they were.
LEMMA RollsBack ==
  ASSUME elems \in Seq(Value), NEW src \in Dyn!Theirs \cup Dyn!Ours, NEW op, NEW at \in 0 .. Len(elems)
  PROVE  Dyn!RolledBack(op, at, src) = elems
  <1>1. PICK c \in Nat : c = Dyn!CountOf(src)
    BY SourceIs, ArrayFacts
  <1>2. PICK L \in Nat : L = Len(elems) /\ Dyn!len = L /\ elems = [p \in 1 .. L |-> elems[p]]
    BY DEF Dyn!len
  <1>3. ASSUME NEW p \in 1 .. L
        PROVE  Dyn!Shifted(at, c)[IF p <= at THEN p - 1 ELSE p - 1 + c] = elems[p]
    <2>1. Dyn!Shifted(at, c) = [q \in 0 .. L + c - 1 |->
            IF q < at THEN elems[q + 1]
            ELSE IF q >= at + c THEN elems[q - c + 1]
            ELSE IF q < L THEN elems[q + 1] ELSE Junk]
      BY <1>2, Zenon DEF Dyn!Shifted
    <2>2. CASE p <= at
      <3>1. p - 1 \in 0 .. L + c - 1 /\ p - 1 < at /\ (p - 1) + 1 = p
        BY <1>1, <1>2, <2>2
      <3>. QED  BY <2>1, <2>2, <3>1
    <2>3. CASE p > at
      <3>1. p - 1 + c \in 0 .. L + c - 1 /\ ~(p - 1 + c < at) /\ p - 1 + c >= at + c /\ (p - 1 + c) - c + 1 = p
            /\ ~(p <= at)
        BY <1>1, <1>2, <2>3
      <3>. QED  BY <2>1, <3>1
    <2>. QED  BY <1>2, <2>2, <2>3
  <1>4. CASE Dyn!MustRegrow(op, src)
    BY <1>4 DEF Dyn!RolledBack
  <1>5. CASE ~Dyn!MustRegrow(op, src)
    <2>1. Dyn!RolledBack(op, at, src) = [p \in 1 .. L |-> Dyn!Shifted(at, c)[IF p <= at THEN p - 1 ELSE p - 1 + c]]
      BY <1>1, <1>2, <1>5 DEF Dyn!RolledBack
    <2>2. [p \in 1 .. L |-> Dyn!Shifted(at, c)[IF p <= at THEN p - 1 ELSE p - 1 + c]] = [p \in 1 .. L |-> elems[p]]
      BY <1>3
    <2>. QED  BY <1>2, <2>1, <2>2
  <1>. QED  BY <1>4, <1>5

\* dyn_append_owned and dyn_insert.
LEMMA ArrayPut ==
  ASSUME Dyn!CountIsAccurate, NEW src \in Dyn!Theirs \cup Dyn!Ours, NEW op \in {"insert", "append"},
         NEW at \in 0 .. Dyn!len, op = "append" => at = Dyn!len, NEW moved, Dyn!Put(op, at, src, moved)
  PROVE  ArrayKept
  <1>1. /\ elems \in Seq(Value) /\ Dyn!len = Len(elems) /\ at \in 0 .. Len(elems)
        /\ op = "append" => at = Len(elems)
    BY ArrayShape
  <1>2. PICK c \in Nat : c = Dyn!CountOf(src)
    BY <1>1, SourceIs, ArrayFacts
  <1>3. PICK target : target = IF Dyn!MustRegrow(op, src) THEN Dyn!dyn_growth_target(Dyn!len + c) ELSE room
    OBVIOUS
  <1>4. target \in Nat /\ Len(elems) + c <= target
    <2>1. Len(elems) + c \in Nat /\ Len(elems) \in Nat
      BY <1>1
    <2>2. CASE Dyn!MustRegrow(op, src)
      BY <1>1, <1>3, <2>1, <2>2, ArrayShape, GrowthTarget
    <2>3. CASE ~Dyn!MustRegrow(op, src)
      <3>1. ~(Dyn!len + Dyn!CountOf(src) > room)
        BY <2>3 DEF Dyn!MustRegrow
      <3>. QED  BY <1>1, <1>2, <1>3, <2>1, <2>3, <3>1, ArrayShape
    <2>. QED  BY <2>2, <2>3
  <1>5. Given(elems, src) \in [1 .. c -> Value]
    BY <1>1, <1>2, GivenType
  <1>6. Dyn!Items(op, at, src) = Given(elems, src)
    BY <1>1, ItemsAre
  <1>7. dynBound' = TRUE
    BY Zenon DEF Dyn!Put
  <1>8. CASE Dyn!MustRegrow(op, src) /\ Dyn!Refuse
    BY <1>7, <1>8, ArrayRefuses
  <1>9. CASE /\ target <= MaxCap
             /\ elems' = Dyn!Filled(op, at, src, c, Dyn!len + c)
             /\ room' = target
             /\ Dyn!Gain(Dyn!Items(op, at, src))
             /\ Dyn!Done
    <2>1. elems' = Spliced(elems, at, Given(elems, src), c)
      BY <1>1, <1>2, <1>9, FilledIs
    <2>2. elems' \in Seq(Value) /\ Len(elems') = Len(elems) + c
      BY <1>1, <1>5, <2>1, SplicedIs
    <2>3. IsFiniteSet(DOMAIN Given(elems, src))
      <3>1. DOMAIN Given(elems, src) = 1 .. c /\ 1 \in Int /\ c \in Int
        BY <1>5
      <3>. QED  BY <3>1, FS_Interval
    <2>4. /\ dynOwned' \in [Elem -> Int]
          /\ \A e \in Elem : dynOwned'[e] = dynOwned[e] + Cardinality(At(Given(elems, src), e))
      BY <1>6, <1>9, <2>3, ArrayShape, Gains
    <2>5. ASSUME ~copyPanicked, NEW e \in Elem
          PROVE  dynOwned'[e] = Cardinality(At(elems', e))
      <3>1. Cardinality(At(elems', e)) = Cardinality(At(elems, e)) + Cardinality(At(Given(elems, src), e))
        BY <1>1, <1>5, <2>1, SplicedCount
      <3>. QED  BY <2>4, <2>5, <3>1, ArrayShape
    <2>6. dynAnswer' = "ok" /\ UNCHANGED <<dynPhase, copyPanicked>>
      BY <1>9 DEF Dyn!Done
    <2>7. room' \in 0 .. MaxCap /\ Len(elems') <= room'
      BY <1>4, <1>9, <2>2, ArrayFacts
    <2>8. Dyn!CountIsAccurate'
      BY <1>7, <2>2, <2>4, <2>5, <2>6, <2>7, ArrayShape, ArrayAgain
    <2>. QED  BY <2>6, <2>8 DEF ArrayKept
  <1>10. CASE /\ elems' = Dyn!RolledBack(op, at, src)
              /\ dynAnswer' = "refused"
              /\ UNCHANGED <<room, dynOwned, dynPhase, copyPanicked>>
    <2>1. elems' = elems
      BY <1>1, <1>10, RollsBack
    <2>2. Dyn!CountIsAccurate'
      BY <1>7, <1>10, <2>1, ArrayShape, ArrayUntouched
    <2>. QED  BY <1>10, <2>1, <2>2 DEF ArrayKept
  <1>11. CASE /\ target <= MaxCap
              /\ \E j \in (1 .. c) \ moved : \E dropped \in {0} \cup ((1 .. j - 1) \ moved) :
                    /\ elems' = Dyn!Filled(op, at, src, j - 1, Dyn!len)
                    /\ Dyn!Gain([i \in (dropped + 1 .. j - 1) \ moved |-> Dyn!Items(op, at, src)[i]])
              /\ room' = target
              /\ Dyn!Panic /\ copyPanicked' = TRUE
    <2>1. PICK j \in 1 .. c, dropped \in Nat :
                    /\ elems' = Dyn!Filled(op, at, src, j - 1, Dyn!len)
                    /\ Dyn!Gain([i \in (dropped + 1 .. j - 1) \ moved |-> Dyn!Items(op, at, src)[i]])
      <3>1. PICK j \in (1 .. c) \ moved : \E dropped \in {0} \cup ((1 .. j - 1) \ moved) :
                    /\ elems' = Dyn!Filled(op, at, src, j - 1, Dyn!len)
                    /\ Dyn!Gain([i \in (dropped + 1 .. j - 1) \ moved |-> Dyn!Items(op, at, src)[i]])
        BY <1>11, Zenon
      <3>2. PICK dropped \in {0} \cup ((1 .. j - 1) \ moved) :
                    /\ elems' = Dyn!Filled(op, at, src, j - 1, Dyn!len)
                    /\ Dyn!Gain([i \in (dropped + 1 .. j - 1) \ moved |-> Dyn!Items(op, at, src)[i]])
        BY <3>1, Zenon
      <3>3. dropped \in Nat /\ j \in 1 .. c
        OBVIOUS
      <3>. QED  BY <3>2, <3>3, Zenon
    <2>2. elems' \in Seq(Value) /\ Len(elems') = Len(elems)
      BY <1>1, <1>2, <2>1, HalfFilled
    <2>3. PICK f : f = [i \in (dropped + 1 .. j - 1) \ moved |-> Dyn!Items(op, at, src)[i]]
      OBVIOUS
    <2>4. IsFiniteSet(DOMAIN f)
      <3>1. dropped + 1 \in Int /\ j - 1 \in Int
        OBVIOUS
      <3>2. IsFiniteSet(dropped + 1 .. j - 1)
        BY <3>1, FS_Interval
      <3>3. DOMAIN f \in SUBSET (dropped + 1 .. j - 1)
        BY <2>3
      <3>. QED  BY <3>2, <3>3, FS_Subset
    <2>5. dynOwned' \in [Elem -> Int]
      <3>1. Dyn!Gain(f)
        BY <2>1, <2>3
      <3>. QED  BY <2>4, <3>1, ArrayShape, Gains
    <2>6. dynAnswer' = "panicked" /\ dynPhase' = "unwinding"
      BY <1>11 DEF Dyn!Panic
    <2>7. room' \in 0 .. MaxCap /\ Len(elems') <= room'
      <3>1. Len(elems) \in Nat
        BY <1>1
      <3>. QED  BY <1>4, <1>11, <2>2, <3>1, ArrayFacts
    <2>8. copyPanicked' = TRUE
      BY <1>11
    <2>9. Dyn!CountIsAccurate'
      BY <1>7, <2>2, <2>5, <2>6, <2>7, <2>8, ArrayAgain
    <2>. QED  BY <2>6, <2>9 DEF ArrayKept
  <1>. QED
    <2>. DEFINE count == Dyn!CountOf(src)
                to == IF Dyn!MustRegrow(op, src) THEN Dyn!dyn_growth_target(Dyn!len + count) ELSE room
    <2>1. \/ Dyn!MustRegrow(op, src) /\ Dyn!Refuse
          \/ /\ to <= MaxCap
             /\ elems' = Dyn!Filled(op, at, src, count, Dyn!len + count)
             /\ room' = to
             /\ Dyn!Gain(Dyn!Items(op, at, src))
             /\ Dyn!Done
          \/ /\ elems' = Dyn!RolledBack(op, at, src)
             /\ dynAnswer' = "refused"
             /\ UNCHANGED <<room, dynOwned, dynPhase, copyPanicked>>
          \/ /\ to <= MaxCap
             /\ \E j \in (1 .. count) \ moved : \E dropped \in {0} \cup ((1 .. j - 1) \ moved) :
                    /\ elems' = Dyn!Filled(op, at, src, j - 1, Dyn!len)
                    /\ Dyn!Gain([i \in (dropped + 1 .. j - 1) \ moved |-> Dyn!Items(op, at, src)[i]])
             /\ room' = to
             /\ Dyn!Panic /\ copyPanicked' = TRUE
      BY Zenon DEF Dyn!Put
    <2>2. count = c /\ to = target
      BY <1>2, <1>3
    <2>. HIDE DEF count, to
    <2>3. CASE Dyn!MustRegrow(op, src) /\ Dyn!Refuse
      BY <1>8, <2>3
    <2>4. CASE /\ to <= MaxCap
               /\ elems' = Dyn!Filled(op, at, src, count, Dyn!len + count)
               /\ room' = to
               /\ Dyn!Gain(Dyn!Items(op, at, src))
               /\ Dyn!Done
      BY <1>9, <2>2, <2>4
    <2>5. CASE /\ elems' = Dyn!RolledBack(op, at, src)
               /\ dynAnswer' = "refused"
               /\ UNCHANGED <<room, dynOwned, dynPhase, copyPanicked>>
      BY <1>10, <2>5
    <2>6. CASE /\ to <= MaxCap
               /\ \E j \in (1 .. count) \ moved : \E dropped \in {0} \cup ((1 .. j - 1) \ moved) :
                    /\ elems' = Dyn!Filled(op, at, src, j - 1, Dyn!len)
                    /\ Dyn!Gain([i \in (dropped + 1 .. j - 1) \ moved |-> Dyn!Items(op, at, src)[i]])
               /\ room' = to
               /\ Dyn!Panic /\ copyPanicked' = TRUE
      BY <1>11, <2>2, <2>6
    <2>. QED  BY <2>1, <2>3, <2>4, <2>5, <2>6, Zenon

\* reserve.
LEMMA ArrayReserve ==
  ASSUME Dyn!CountIsAccurate, NEW n \in Lengths, Dyn!Reserve(n)
  PROVE  ArrayKept
  <1>0. n \in Nat /\ dynBound' = TRUE
    BY ArrayFacts DEF Dyn!Reserve
  <1>1. CASE n <= room
    <2>1. Dyn!Done /\ UNCHANGED <<elems, room, dynOwned>>
      BY <1>1 DEF Dyn!Reserve
    <2>2. Dyn!CountIsAccurate'
      BY <1>0, <2>1, ArrayShape, ArrayUntouched DEF Dyn!Done
    <2>. QED  BY <2>1, <2>2 DEF ArrayKept
  <1>2. CASE ~(n <= room) /\ Dyn!Refuse
    BY <1>0, <1>2, ArrayRefuses
  <1>3. CASE ~(n <= room) /\ ~Dyn!Refuse
    <2>1. Dyn!dyn_growth_target(n) <= MaxCap /\ room' = Dyn!dyn_growth_target(n) /\ Dyn!Done /\ UNCHANGED <<elems, dynOwned>>
      BY <1>3 DEF Dyn!Reserve
    <2>2. room' \in Nat /\ room' >= n
      BY <1>0, <2>1, ArrayShape, GrowthTarget
    <2>3. room' \in 0 .. MaxCap /\ Len(elems) <= room'
      BY <1>0, <1>3, <2>1, <2>2, ArrayShape, ArrayFacts
    <2>4. Dyn!CountIsAccurate'
      BY <1>0, <2>1, <2>3, ArrayShape, ArrayUntouched DEF Dyn!Done
    <2>. QED  BY <2>1, <2>4 DEF ArrayKept, Dyn!Done
  <1>. QED  BY <1>1, <1>2, <1>3

\* resize: zeroes are no instances.
LEMMA ArrayResize ==
  ASSUME Dyn!CountIsAccurate, NEW n \in Lengths, Dyn!Resize(n)
  PROVE  ArrayKept
  <1>0. n \in Nat
    BY ArrayFacts
  <1>1. CASE n <= Dyn!len /\ Dyn!dyn_truncate(n)
    <2>1. n \in 0 .. Dyn!len
      BY <1>0, <1>1, ArrayShape
    <2>. QED  BY <1>1, <2>1, ArrayTruncate
  <1>2. CASE dynBound' = TRUE /\ Dyn!Refuse
    BY <1>2, ArrayRefuses
  <1>3. CASE /\ n > Dyn!len /\ dynBound' = TRUE
             /\ room' = IF n <= room THEN room ELSE Dyn!dyn_growth_target(n)
             /\ room' <= MaxCap
             /\ elems' = elems \o [i \in 1 .. n - Dyn!len |-> Zero]
             /\ Dyn!Done /\ UNCHANGED dynOwned
    <2>1. PICK L \in Nat : L = Len(elems) /\ Dyn!len = L /\ n > L /\ DOMAIN elems = 1 .. L
      BY <1>3, ArrayShape
    <2>2. PICK m \in Nat : m = n - L
      <3>1. n - L \in Nat
        BY <1>0, <2>1
      <3>. QED  BY <3>1
    <2>3. PICK z : z = [i \in 1 .. m |-> Zero]
      OBVIOUS
    <2>4. z \in Seq(Value) /\ Len(z) = m /\ \A i \in 1 .. m : z[i] = Zero
      BY <2>3 DEF Value
    <2>5. elems' = elems \o z
      BY <1>3, <2>1, <2>2, <2>3
    <2>6. /\ elems' \in Seq(Value) /\ Len(elems') = Len(elems) + Len(z)
          /\ \A i \in 1 .. Len(elems) + Len(z) : elems'[i] = IF i <= Len(elems) THEN elems[i] ELSE z[i - Len(elems)]
      BY <2>4, <2>5, ArrayShape, Concatenation
    <2>7. Len(elems') = n /\ \A i \in 1 .. n : elems'[i] = IF i <= L THEN elems[i] ELSE Zero
      BY <1>0, <2>1, <2>2, <2>4, <2>6
    <2>8. DOMAIN elems' = 1 .. n
      BY <2>6, <2>7
    <2>9. ASSUME NEW e \in Elem PROVE At(elems', e) = At(elems, e)
      BY <1>0, <2>1, <2>7, <2>8, ArrayFacts DEF At
    <2>10. room' \in 0 .. MaxCap /\ n <= room'
      <3>1. CASE n <= room
        BY <1>0, <1>3, <3>1, ArrayShape
      <3>2. CASE ~(n <= room)
        <4>1. Dyn!dyn_growth_target(n) \in Nat /\ Dyn!dyn_growth_target(n) >= n
          BY <1>0, ArrayShape, GrowthTarget
        <4>. QED  BY <1>0, <1>3, <3>2, <4>1, ArrayFacts
      <3>. QED  BY <3>1, <3>2
    <2>11. dynAnswer' = "ok" /\ UNCHANGED <<dynPhase, copyPanicked, dynOwned>>
      BY <1>3 DEF Dyn!Done
    <2>12. Dyn!CountIsAccurate'
      BY <1>3, <2>6, <2>7, <2>9, <2>10, <2>11, ArrayShape, ArrayAgain
    <2>. QED  BY <2>11, <2>12 DEF ArrayKept
  <1>. QED  BY <1>1, <1>2, <1>3, Zenon DEF Dyn!Resize

\* shrink.
LEMMA ArrayShrink ==
  ASSUME Dyn!CountIsAccurate, NEW n \in Lengths, Dyn!Shrink(n)
  PROVE  ArrayKept
  <1>0. n \in Nat /\ UNCHANGED dynBound
    BY ArrayFacts DEF Dyn!Shrink
  <1>1. CASE Dyn!Refuse
    BY <1>0, <1>1, ArrayShape, ArrayRefuses
  <1>2. CASE ~Dyn!Refuse
    <2>1. /\ room' = IF Dyn!ShrunkTo(n) < room THEN Dyn!ShrunkTo(n) ELSE room
          /\ Dyn!Done /\ UNCHANGED <<elems, dynOwned>>
      BY <1>2, Zenon DEF Dyn!Shrink
    <2>2. Dyn!ShrunkTo(n) \in Nat /\ Dyn!ShrunkTo(n) >= Len(elems)
      BY <1>0, ArrayShape DEF Dyn!ShrunkTo, Dyn!Larger
    <2>3. room' \in 0 .. MaxCap /\ Len(elems) <= room'
      BY <2>1, <2>2, ArrayShape, ArrayFacts
    <2>4. Dyn!CountIsAccurate'
      BY <1>0, <2>1, <2>3, ArrayShape, ArrayUntouched DEF Dyn!Done
    <2>. QED  BY <2>1, <2>4 DEF ArrayKept, Dyn!Done
  <1>. QED  BY <1>1, <1>2

\* dyn_clone and the drop of the original.
LEMMA ArrayClone ==
  ASSUME Dyn!CountIsAccurate, Dyn!CloneAndDrop
  PROVE  ArrayKept
  <1>1. CASE /\ room' = IF Dyn!len = 0 THEN 0 ELSE Dyn!Larger(Dyn!len, MinCap)
             /\ room' <= MaxCap
             /\ dynBound' = TRUE
             /\ Dyn!Done /\ UNCHANGED <<elems, dynOwned>>
    <2>1. room' \in 0 .. MaxCap /\ Len(elems) <= room'
      BY <1>1, ArrayShape, ArrayFacts DEF Dyn!Larger
    <2>2. Dyn!CountIsAccurate'
      BY <1>1, <2>1, ArrayShape, ArrayUntouched DEF Dyn!Done
    <2>. QED  BY <1>1, <2>2 DEF ArrayKept, Dyn!Done
  <1>2. CASE Dyn!Refuse /\ UNCHANGED dynBound
    BY <1>2, ArrayShape, ArrayRefuses
  <1>3. CASE Dyn!Panic /\ UNCHANGED <<elems, room, dynBound, dynOwned, copyPanicked>>
    <2>1. Dyn!CountIsAccurate'
      BY <1>3, ArrayShape, ArrayUntouched DEF Dyn!Panic
    <2>. QED  BY <1>3, <2>1 DEF ArrayKept, Dyn!Panic
  <1>. QED  BY <1>1, <1>2, <1>3, Zenon DEF Dyn!CloneAndDrop

\* Every step of the array keeps its count, and its elements if it fails.
LEMMA ArrayStep ==
  ASSUME Dyn!CountIsAccurate, Dyn!Next
  PROVE  ArrayKept
  <1>1. ASSUME NEW src \in Dyn!Theirs, NEW moved, Dyn!dyn_append(src, moved) PROVE ArrayKept
    <2>1. Dyn!len \in 0 .. Dyn!len /\ src \in Dyn!Theirs \cup Dyn!Ours /\ "append" \in {"insert", "append"}
      BY ArrayShape
    <2>. QED  BY <1>1, <2>1, ArrayPut DEF Dyn!dyn_append
  <1>2. ASSUME NEW src \in Dyn!Ours, Dyn!dyn_append(src, {}) PROVE ArrayKept
    <2>1. Dyn!len \in 0 .. Dyn!len /\ src \in Dyn!Theirs \cup Dyn!Ours /\ "append" \in {"insert", "append"}
      BY ArrayShape
    <2>. QED  BY <1>2, <2>1, ArrayPut DEF Dyn!dyn_append
  <1>3. ASSUME NEW src \in Dyn!Theirs \cup Dyn!Ours, NEW at \in 0 .. Dyn!len, NEW move \in BOOLEAN, Dyn!dyn_insert(at, src, move)
        PROVE  ArrayKept
    <2>1. "insert" \in {"insert", "append"} /\ "insert" # "append"
      OBVIOUS
    <2>2. Dyn!Put("insert", at, src, IF move THEN 1 .. Dyn!CountOf(src) ELSE {})
      BY <1>3 DEF Dyn!dyn_insert
    <2>. QED  BY <2>1, <2>2, ArrayPut
  <1>4. CASE Dyn!Pop
    BY <1>4, ArrayPop
  <1>5. CASE Dyn!Clear
    <2>1. 0 \in 0 .. Dyn!len
      BY ArrayShape
    <2>. QED  BY <1>5, <2>1, ArrayTruncate DEF Dyn!Clear
  <1>6. CASE Dyn!Drop
    BY <1>6, ArrayDrop
  <1>7. CASE Dyn!CloneAndDrop
    BY <1>7, ArrayClone
  <1>8. ASSUME NEW index \in 0 .. Dyn!len - 1, NEW unordered \in BOOLEAN, Dyn!Remove(index, unordered) PROVE ArrayKept
    BY <1>8, ArrayRemove
  <1>9. ASSUME NEW n \in Lengths, Dyn!Reserve(n) \/ Dyn!Resize(n) \/ Dyn!Shrink(n) PROVE ArrayKept
    BY <1>9, ArrayReserve, ArrayResize, ArrayShrink
  <1>. QED  BY <1>1, <1>2, <1>3, <1>4, <1>5, <1>6, <1>7, <1>8, <1>9, Zenon DEF Dyn!Next

\* Steps of either container keep the array's count.
LEMMA ArrayAll ==
  ASSUME Dyn!CountIsAccurate, [MCNext]_all
  PROVE  Dyn!CountIsAccurate' /\ [dynAnswer' = "refused" => UNCHANGED <<elems, room, dynOwned>>]_Dyn!vars
  <1>1. CASE Dyn!Next
    BY <1>1, ArrayStep DEF ArrayKept
  <1>2. CASE UNCHANGED array
    <2>1. UNCHANGED <<elems, room, dynBound, dynOwned, dynPhase, copyPanicked, dynAnswer>>
      BY <1>2 DEF array
    <2>2. UNCHANGED Dyn!vars
      BY <2>1 DEF Dyn!vars
    <2>3. Dyn!CountIsAccurate'
      BY <2>1, ArrayShape, ArrayUntouched
    <2>. QED  BY <2>2, <2>3
  <1>. QED  BY <1>1, <1>2 DEF MCNext, all

\* An array starts empty.
LEMMA ArrayStart ==
  ASSUME Dyn!Init
  PROVE  Dyn!CountIsAccurate
  <1>1. /\ elems = <<>> /\ room = 0 /\ dynBound = FALSE /\ dynOwned = [e \in Elem |-> 0]
        /\ dynPhase = "running" /\ copyPanicked = FALSE /\ dynAnswer = "ok"
    BY Zenon DEF Dyn!Init
  <1>2. Dyn!TypeOK
    <2>1. elems \in Seq(Elem \cup {Zero, Junk}) /\ Dyn!len = 0
      BY <1>1 DEF Dyn!len
    <2>2. room \in 0 .. MaxCap /\ Dyn!len <= room
      BY <1>1, <2>1, ArrayFacts
    <2>3. dynOwned \in [Elem -> Int]
      BY <1>1
    <2>. QED  BY <1>1, <2>1, <2>2, <2>3, Zenon DEF Dyn!TypeOK
  <1>3. \A e \in Elem : Cardinality(At(elems, e)) = 0
    <2>1. \A e \in Elem : At(elems, e) = {}
      BY <1>1 DEF At
    <2>. QED  BY <2>1, FS_EmptySet
  <1>4. dynOwned = Dyn!Tally(elems)
    BY <1>1, <1>3, TallyIs
  <1>. QED  BY <1>2, <1>4 DEF Dyn!CountIsAccurate

\* Whatever is appended, inserted, removed, cut, cloned and dropped, whichever calls are
\* refused and whichever drop hooks panic, the slots below a dynamic array's length hold
\* exactly what the array still has to drop.
THEOREM ArrayCountIsAccurate == MCSpec => []CountIsAccurate
  <1>1. MCInit => Dyn!CountIsAccurate
    BY ArrayStart DEF MCInit
  <1>2. Dyn!CountIsAccurate /\ [MCNext]_all => Dyn!CountIsAccurate'
    BY ArrayAll
  <1>. QED  BY <1>1, <1>2, PTL DEF MCSpec, CountIsAccurate

\* dyn_insert and dyn_append_owned splice in their source as it was before the call, also
\* when it lies in the array that is shifted or moved.
THEOREM ArrayInsertIsSplice == MCSpec => []InsertIsSplice
  <1>1. Dyn!CountIsAccurate => InsertIsSplice
    BY ArrayShape, Splices DEF InsertIsSplice
  <1>2. MCSpec => []Dyn!CountIsAccurate
    BY ArrayCountIsAccurate DEF CountIsAccurate
  <1>. QED  BY <1>1, <1>2, PTL

\* A call of a dynamic array that fails leaves its elements and its capacity alone.
THEOREM ArrayRefusalKeepsElements == MCSpec => RefusalKeepsElements
  <1>1. MCInit => Dyn!CountIsAccurate
    BY ArrayStart DEF MCInit
  <1>2. Dyn!CountIsAccurate /\ [MCNext]_all
          => Dyn!CountIsAccurate' /\ [dynAnswer' = "refused" => UNCHANGED <<elems, room, dynOwned>>]_Dyn!vars
    BY ArrayAll
  <1>. QED  BY <1>1, <1>2, PTL DEF MCSpec, RefusalKeepsElements, Dyn!RefusalKeepsElements

-----------------------------------------------------------------------------
(* Numbers and recursion *)

\* A set of numbers has a least one.
LEMMA LeastNumber ==
  ASSUME NEW T, T \subseteq Nat, T # {}
  PROVE  \E x \in T : \A y \in T : x <= y
  <1>1. PICK R : R = {ss \in Nat \X Nat : ss[1] < ss[2]}
    OBVIOUS
  <1>2. IsWellFoundedOn(R, Nat)
    BY <1>1, NatLessThanWellFounded, Zenon DEF OpToRel
  <1>3. PICK x \in T : \A y \in T : ~(<<y, x>> \in R)
    BY <1>2, WFMin
  <1>4. ASSUME NEW y \in T, ~(x <= y) PROVE FALSE
    <2>1. x \in Nat /\ y \in Nat /\ y < x
      BY <1>4
    <2>2. <<y, x>> \in Nat \X Nat /\ <<y, x>>[1] = y /\ <<y, x>>[2] = x
      BY <2>1
    <2>3. <<y, x>> \in R
      BY <1>1, <2>1, <2>2
    <2>. QED  BY <1>3, <2>3
  <1>. QED  BY <1>4

\* Induction, for a set of numbers.
LEMMA Inductive ==
  ASSUME NEW S, 0 \in S, \A n \in Nat : n \in S => n + 1 \in S
  PROVE  \A n \in Nat : n \in S
  <1>. SUFFICES ASSUME NEW n \in Nat, n \notin S PROVE FALSE
    OBVIOUS
  <1>1. PICK T : T = Nat \ S
    OBVIOUS
  <1>2. PICK x \in T : \A y \in T : x <= y
    <2>1. T \subseteq Nat /\ T # {}
      BY <1>1
    <2>. QED  BY <2>1, LeastNumber
  <1>3. x \in Nat /\ x # 0 /\ x \notin S
    BY <1>1
  <1>4. x - 1 \in Nat /\ (x - 1) + 1 = x /\ ~(x <= x - 1)
    BY <1>3
  <1>5. x - 1 \in S
    BY <1>1, <1>2, <1>4
  <1>. QED  BY <1>3, <1>4, <1>5

\* The beginnings of the sequence with first element c whose element i is made by d from
\* the one before.
Begun(V, c, d, n) == {g \in [0 .. n -> V] : g[0] = c /\ \A i \in 1 .. n : g[i] = d[<<i, g[i - 1]>>]}

\* g, with n + 1 as its last index, goes on a beginning that ends at n.
GoesOn(V, c, d, n, g) == \E h \in Begun(V, c, d, n) : h[n] = g[n] /\ g[n + 1] = d[<<n + 1, h[n]>>]

\* Some beginning goes on h, which ends at n.
GoneOn(V, c, d, n, h) == \E g \in Begun(V, c, d, n + 1) : g[n + 1] = d[<<n + 1, h[n]>>]

\* A beginning without its last element is a beginning.
LEMMA BegunLess ==
  ASSUME NEW V, NEW c, NEW d, NEW n \in Nat, NEW g \in Begun(V, c, d, n + 1)
  PROVE  GoesOn(V, c, d, n, g)
  <1>1. PICK h : h = [i \in 0 .. n |-> g[i]]
    OBVIOUS
  <1>2. g \in [0 .. n + 1 -> V] /\ g[0] = c /\ \A i \in 1 .. n + 1 : g[i] = d[<<i, g[i - 1]>>]
    BY DEF Begun
  <1>3. \A i \in 0 .. n : i \in 0 .. n + 1
    OBVIOUS
  <1>4. h \in [0 .. n -> V]
    BY <1>1, <1>2, <1>3
  <1>5. h[0] = c /\ h[n] = g[n]
    BY <1>1, <1>2
  <1>6. ASSUME NEW i \in 1 .. n PROVE h[i] = d[<<i, h[i - 1]>>]
    <2>1. i \in 0 .. n /\ i - 1 \in 0 .. n /\ i \in 1 .. n + 1
      OBVIOUS
    <2>. QED  BY <1>1, <1>2, <2>1
  <1>7. h \in Begun(V, c, d, n)
    BY <1>4, <1>5, <1>6 DEF Begun
  <1>8. n + 1 \in 1 .. n + 1 /\ (n + 1) - 1 = n
    OBVIOUS
  <1>9. h[n] = g[n] /\ g[n + 1] = d[<<n + 1, h[n]>>]
    BY <1>2, <1>5, <1>8
  <1>. QED  BY ONLY <1>7, <1>9, Zenon DEF GoesOn

\* A beginning can go on.
LEMMA BegunMore ==
  ASSUME NEW V, NEW c \in V, NEW d \in [Nat \X V -> V], NEW n \in Nat, NEW h \in Begun(V, c, d, n)
  PROVE  GoneOn(V, c, d, n, h)
  <1>1. PICK v : v = d[<<n + 1, h[n]>>]
    OBVIOUS
  <1>2. h \in [0 .. n -> V] /\ h[0] = c /\ \A i \in 1 .. n : h[i] = d[<<i, h[i - 1]>>]
    BY DEF Begun
  <1>3. v \in V
    <2>1. n \in 0 .. n /\ n + 1 \in Nat
      OBVIOUS
    <2>2. <<n + 1, h[n]>> \in Nat \X V
      BY <1>2, <2>1
    <2>. QED  BY <1>1, <2>2
  <1>4. PICK g : g = [i \in 0 .. n + 1 |-> IF i = n + 1 THEN v ELSE h[i]]
    OBVIOUS
  <1>5. \A i \in 0 .. n + 1 : i = n + 1 \/ i \in 0 .. n
    OBVIOUS
  <1>6. g \in [0 .. n + 1 -> V]
    BY <1>2, <1>3, <1>4, <1>5
  <1>7. n + 1 \in 0 .. n + 1 /\ 0 \in 0 .. n + 1 /\ 0 # n + 1
    OBVIOUS
  <1>8. g[n + 1] = v /\ g[0] = c
    BY <1>2, <1>4, <1>7
  <1>9. ASSUME NEW i \in 1 .. n + 1 PROVE g[i] = d[<<i, g[i - 1]>>]
    <2>1. i - 1 \in 0 .. n + 1 /\ i - 1 # n + 1 /\ i \in 0 .. n + 1
      OBVIOUS
    <2>2. g[i - 1] = h[i - 1]
      BY <1>4, <2>1
    <2>3. CASE i = n + 1
      <3>1. i - 1 = n
        BY <2>3
      <3>. QED  BY <1>1, <1>8, <2>2, <2>3, <3>1
    <2>4. CASE i # n + 1
      <3>1. i \in 1 .. n
        BY <2>4
      <3>. QED  BY <1>2, <1>4, <2>1, <2>2, <2>4, <3>1
    <2>. QED  BY <2>3, <2>4
  <1>10. g \in Begun(V, c, d, n + 1)
    BY <1>6, <1>8, <1>9 DEF Begun
  <1>. QED  BY ONLY <1>1, <1>8, <1>10 DEF GoneOn

\* There is such a sequence.
Recursive(V, c, d) ==
    \E f \in [Nat -> V] : f[0] = c /\ \A n \in Nat : f[n + 1] = d[<<n + 1, f[n]>>]

\* Recursion over the numbers: the whole sequence exists.
LEMMA Recursion ==
  ASSUME NEW V, NEW c \in V, NEW d \in [Nat \X V -> V]
  PROVE  Recursive(V, c, d)
  <1>. DEFINE B(n) == Begun(V, c, d, n)
  <1>1. PICK S : S = {n \in Nat : \E v \in V : (\E g \in B(n) : g[n] = v) /\ \A g \in B(n) : g[n] = v}
    OBVIOUS
  <1>2. 0 \in S
    <2>1. PICK g : g = [i \in 0 .. 0 |-> c]
      OBVIOUS
    <2>2. g \in B(0) /\ g[0] = c
      BY <2>1 DEF Begun
    <2>3. \A h \in B(0) : h[0] = c
      BY DEF Begun
    <2>. QED  BY <1>1, <2>2, <2>3
  <1>3. ASSUME NEW n \in Nat, n \in S PROVE n + 1 \in S
    <2>1. PICK v \in V : (\E g \in B(n) : g[n] = v) /\ \A g \in B(n) : g[n] = v
      BY <1>1, <1>3
    <2>2. PICK w : w = d[<<n + 1, v>>]
      OBVIOUS
    <2>3. w \in V
      <3>1. <<n + 1, v>> \in Nat \X V
        OBVIOUS
      <3>. QED  BY <2>2, <3>1
    <2>4. \E g \in B(n + 1) : g[n + 1] = w
      <3>1. PICK h \in B(n) : h[n] = v
        BY <2>1
      <3>2. h \in Begun(V, c, d, n) /\ c \in V /\ d \in [Nat \X V -> V] /\ n \in Nat
        OBVIOUS
      <3>3. GoneOn(V, c, d, n, h)
        BY ONLY <3>2, BegunMore
      <3>. QED  BY <2>2, <3>1, <3>3 DEF GoneOn
    <2>5. \A g \in B(n + 1) : g[n + 1] = w
      <3>1. ASSUME NEW g \in B(n + 1) PROVE g[n + 1] = w
        <4>1. n \in Nat /\ g \in Begun(V, c, d, n + 1)
          OBVIOUS
        <4>2. GoesOn(V, c, d, n, g)
          BY ONLY <4>1, BegunLess
        <4>3. PICK h \in B(n) : h[n] = g[n] /\ g[n + 1] = d[<<n + 1, h[n]>>]
          BY <4>2 DEF GoesOn
        <4>4. h[n] = v
          BY <2>1
        <4>. QED  BY <2>2, <4>3, <4>4
      <3>. QED  BY <3>1
    <2>6. n + 1 \in Nat
      OBVIOUS
    <2>. QED  BY <1>1, <2>3, <2>4, <2>5, <2>6
  <1>4. \A n \in Nat : n \in S
    BY <1>2, <1>3, Inductive
  <1>5. PICK f : f = [n \in Nat |-> CHOOSE v \in V : (\E g \in B(n) : g[n] = v) /\ \A g \in B(n) : g[n] = v]
    OBVIOUS
  <1>6. ASSUME NEW n \in Nat
        PROVE  f[n] \in V /\ (\E g \in B(n) : g[n] = f[n]) /\ \A g \in B(n) : g[n] = f[n]
    <2>. HIDE DEF B
    <2>1. \E v \in V : (\E g \in B(n) : g[n] = v) /\ \A g \in B(n) : g[n] = v
      BY <1>1, <1>4
    <2>2. f[n] = CHOOSE v \in V : (\E g \in B(n) : g[n] = v) /\ \A g \in B(n) : g[n] = v
      BY <1>5
    <2>. QED  BY <2>1, <2>2, Zenon
  <1>7. f \in [Nat -> V]
    <2>1. \A n \in Nat : f[n] \in V
      BY <1>6
    <2>. QED  BY <1>5, <2>1
  <1>8. f[0] = c
    <2>1. \A g \in B(0) : g[0] = c
      BY DEF Begun
    <2>. QED  BY <1>6, <2>1
  <1>9. ASSUME NEW n \in Nat PROVE f[n + 1] = d[<<n + 1, f[n]>>]
    <2>0. n + 1 \in Nat
      OBVIOUS
    <2>1. PICK g \in B(n + 1) : g[n + 1] = f[n + 1]
      BY <1>6, <2>0
    <2>2. PICK h \in B(n) : h[n] = g[n] /\ g[n + 1] = d[<<n + 1, h[n]>>]
      <3>1. ASSUME NEW k \in B(n + 1) PROVE \E h \in B(n) : h[n] = k[n] /\ k[n + 1] = d[<<n + 1, h[n]>>]
        <4>1. n \in Nat /\ k \in Begun(V, c, d, n + 1)
          OBVIOUS
        <4>2. GoesOn(V, c, d, n, k)
          BY ONLY <4>1, BegunLess
        <4>. QED  BY <4>2 DEF GoesOn
      <3>. QED  BY <3>1
    <2>3. h[n] = f[n]
      BY <1>6
    <2>. QED  BY <2>1, <2>2, <2>3
  <1>. QED  BY <1>7, <1>8, <1>9 DEF Recursive

-----------------------------------------------------------------------------
(* The map's sizes *)

\* The slot counts are those of repeated doubling.
LEMMA DoubledFacts ==
  /\ \A n \in Nat : Doubled[n] \in Nat /\ Doubled[n] >= MinSlots
  <1>0. MinSlots \in Nat
    BY MapAssumption
  <1>1. PICK d \in [Nat \X Nat -> Nat] : d = [p \in Nat \X Nat |-> 2 * p[2]]
    <2>1. \A p \in Nat \X Nat : 2 * p[2] \in Nat
      OBVIOUS
    <2>. QED  BY <2>1
  <1>3. PICK c \in Nat : c = MinSlots
    BY <1>0
  <1>4. PICK f \in [Nat -> Nat] : f[0] = c /\ \A n \in Nat : f[n + 1] = d[<<n + 1, f[n]>>]
    <2>1. c \in Nat /\ d \in [Nat \X Nat -> Nat]
      OBVIOUS
    <2>2. Recursive(Nat, c, d)
      BY ONLY <2>1, Recursion
    <2>. QED  BY <2>2 DEF Recursive
  <1>5. ASSUME NEW n \in Nat PROVE f[n + 1] = 2 * f[n]
    <2>1. <<n + 1, f[n]>> \in Nat \X Nat /\ <<n + 1, f[n]>>[2] = f[n]
      OBVIOUS
    <2>. QED  BY <1>1, <1>4, <2>1
  <1>6. f = [i \in Nat |-> IF i = 0 THEN MinSlots ELSE 2 * f[i - 1]]
    <2>1. ASSUME NEW i \in Nat PROVE f[i] = IF i = 0 THEN MinSlots ELSE 2 * f[i - 1]
      <3>1. CASE i = 0
        BY <1>3, <1>4, <3>1
      <3>2. CASE i # 0
        <4>1. i - 1 \in Nat /\ (i - 1) + 1 = i
          BY <3>2
        <4>2. f[(i - 1) + 1] = 2 * f[i - 1]
          BY <1>5, <4>1
        <4>. QED  BY <3>2, <4>1, <4>2
      <3>. QED  BY <3>1, <3>2
    <2>. QED  BY <2>1
  <1>7. Doubled = [i \in Nat |-> IF i = 0 THEN MinSlots ELSE 2 * Doubled[i - 1]]
    BY <1>6, Zenon DEF Doubled
  <1>8. PICK S : S = {n \in Nat : Doubled[n] \in Nat /\ Doubled[n] >= MinSlots}
    OBVIOUS
  <1>9. 0 \in S
    BY <1>0, <1>7, <1>8
  <1>10. ASSUME NEW n \in Nat, n \in S PROVE n + 1 \in S
    <2>1. n + 1 \in Nat /\ n + 1 # 0 /\ (n + 1) - 1 = n
      OBVIOUS
    <2>2. Doubled[n + 1] = IF n + 1 = 0 THEN MinSlots ELSE 2 * Doubled[(n + 1) - 1]
      BY ONLY <1>7, <2>1
    <2>3. PICK w \in Nat : w = Doubled[n] /\ w >= MinSlots
      BY <1>8, <1>10
    <2>4. Doubled[n + 1] = 2 * w
      BY ONLY <2>1, <2>2, <2>3
    <2>. QED  BY <1>0, <1>8, <2>1, <2>3, <2>4
  <1>11. \A n \in Nat : n \in S
    BY <1>9, <1>10, Inductive
  <1>. QED  BY <1>8, <1>11

\* A table has at least MinSlots slots, and at least Spare.
LEMMA CountFacts ==
  ASSUME NEW n \in SlotCounts
  PROVE  n \in Nat /\ n >= MinSlots /\ n >= Spare /\ n > 1
  <1>1. PICK i \in 0 .. Doublings : n = Doubled[i]
    BY DEF SlotCounts
  <1>2. i \in Nat /\ MinSlots \in Nat /\ Spare \in 2 .. MinSlots
    BY MapAssumption
  <1>3. n \in Nat /\ n >= MinSlots
    BY <1>1, <1>2, DoubledFacts
  <1>. QED  BY <1>2, <1>3

\* The capacity leaves at least one slot spare.
LEMMA CapacityFacts ==
  ASSUME NEW n \in SlotCounts
  PROVE  map_capacity_of(n) \in Nat /\ map_capacity_of(n) < n
  <1>1. PICK d \in Nat : d = Spare /\ d >= 2 /\ n >= d /\ n \in Nat
    BY CountFacts, MapAssumption
  <1>2. n \div d \in Nat /\ n \div d >= 1 /\ n \div d <= n
    BY ONLY <1>1, d \in Nat, SMT
  <1>. QED  BY <1>1, <1>2 DEF map_capacity_of

\* The least of a set of numbers.
LEMMA LeastIs ==
  ASSUME NEW S, S \subseteq Nat, S # {}
  PROVE  Least(S) \in S /\ \A m \in S : Least(S) <= m
  <1>1. \E n \in S : \A m \in S : n <= m
    BY LeastNumber
  <1>. QED  BY <1>1, Zenon DEF Least

-----------------------------------------------------------------------------
(* Probe runs *)

\* Walking on from a home slot.
LEMMA Walk ==
  ASSUME NEW n \in Nat, n > 0, NEW h \in Nat, NEW i \in 0 .. n - 1
  PROVE  (h + i) % n = IF (h % n) + i < n THEN (h % n) + i ELSE (h % n) + i - n
  <1>1. PICK q \in Nat : q = h \div n
    BY SMT
  <1>2. PICK r \in Nat : r = h % n /\ r < n
    <2>1. h % n \in Nat /\ h % n < n
      BY SMT
    <2>. QED  BY <2>1
  <1>3. h = n * q + r
    BY <1>1, <1>2, SMT
  <1>4. \A a, b \in Nat : b < n => (n * a + b) % n = b
    BY SMT
  <1>5. CASE r + i < n
    <2>1. h + i = n * q + (r + i) /\ r + i \in Nat
      BY <1>3
    <2>. QED  BY <1>2, <1>4, <1>5, <2>1
  <1>6. CASE ~(r + i < n)
    <2>1. r + i - n \in Nat /\ r + i - n < n /\ q + 1 \in Nat
      BY <1>2, <1>6
    <2>2. n * (q + 1) = n * q + n
      BY ONLY n \in Nat, q \in Nat
    <2>3. n * q \in Nat
      BY ONLY n \in Nat, q \in Nat
    <2>4. h + i = n * (q + 1) + (r + i - n)
      BY <1>2, <1>3, <2>1, <2>2, <2>3
    <2>. QED  BY <1>2, <1>4, <1>6, <2>1, <2>4
  <1>. QED  BY <1>5, <1>6

\* Tables of n slots.
Tables(n) == [slots : [0 .. n - 1 -> Slot], seed : Seeds]

\* What probing rests on: entries have keys, a key is in one slot only, and no slot is
\* empty between a key's home and its slot.
TableOK(t, n) ==
    /\ t \in Tables(n)
    /\ \A s \in 0 .. n - 1 : t.slots[s].ctl \in {"occupied", "value_owed"} => t.slots[s].key \in Key
    /\ \A s, u \in 0 .. n - 1 :
        t.slots[s].ctl = "occupied" /\ t.slots[u].ctl = "occupied" /\ t.slots[s].key = t.slots[u].key => s = u
    /\ \A s \in 0 .. n - 1 : t.slots[s].ctl = "occupied" =>
        \A i \in 0 .. n - 1 : Nth(t, t.slots[s].key, i) = s =>
            \A j \in 0 .. i - 1 : t.slots[Nth(t, t.slots[s].key, j)].ctl # "empty"

\* The number of slots.
LEMMA SlotsNumber ==
  ASSUME NEW n \in Nat
  PROVE  IsFiniteSet(0 .. n - 1) /\ Cardinality(0 .. n - 1) = n
  <1>1. 0 \in Int /\ n - 1 \in Int
    OBVIOUS
  <1>2. IsFiniteSet(0 .. n - 1) /\ Cardinality(0 .. n - 1) = IF 0 > n - 1 THEN 0 ELSE (n - 1) - 0 + 1
    BY <1>1, FS_Interval
  <1>. QED  BY <1>2

\* The slot i steps after a key's home.
LEMMA NthIs ==
  ASSUME NEW n \in Nat, n > 0, NEW t \in Tables(n), NEW k \in Key, NEW i \in 0 .. n - 1
  PROVE  /\ t.seed[k] % n \in 0 .. n - 1
         /\ Nth(t, k, i) = IF (t.seed[k] % n) + i < n THEN (t.seed[k] % n) + i ELSE (t.seed[k] % n) + i - n
         /\ Nth(t, k, i) \in 0 .. n - 1
  <1>1. DOMAIN t.slots = 0 .. n - 1 /\ t.seed \in [Key -> Nat]
    BY MapAssumption DEF Tables
  <1>2. Cardinality(DOMAIN t.slots) = n
    BY <1>1, SlotsNumber
  <1>3. PICK h \in Nat : h = t.seed[k]
    BY <1>1
  <1>4. h % n \in 0 .. n - 1
    BY SMT
  <1>5. (h + i) % n = IF (h % n) + i < n THEN (h % n) + i ELSE (h % n) + i - n
    BY Walk
  <1>6. Nth(t, k, i) = (h + i) % n
    BY <1>2, <1>3 DEF Nth
  <1>. QED  BY <1>3, <1>4, <1>5, <1>6

\* A probe run meets every slot.
LEMMA NthOnto ==
  ASSUME NEW n \in Nat, n > 0, NEW t \in Tables(n), NEW k \in Key, NEW s \in 0 .. n - 1
  PROVE  \E i \in 0 .. n - 1 : Nth(t, k, i) = s
  <1>1. PICK r \in 0 .. n - 1 : r = t.seed[k] % n
    <2>1. 0 \in 0 .. n - 1
      OBVIOUS
    <2>. QED  BY <2>1, NthIs
  <1>2. CASE s >= r
    <2>1. s - r \in 0 .. n - 1 /\ r + (s - r) < n /\ r + (s - r) = s
      BY <1>2
    <2>. QED  BY <1>1, <2>1, NthIs
  <1>3. CASE s < r
    <2>1. s - r + n \in 0 .. n - 1 /\ ~(r + (s - r + n) < n) /\ r + (s - r + n) - n = s
      BY <1>3
    <2>. QED  BY <1>1, <2>1, NthIs
  <1>. QED  BY <1>2, <1>3

\* And none twice.
LEMMA NthOnce ==
  ASSUME NEW n \in Nat, n > 0, NEW t \in Tables(n), NEW k \in Key, NEW i \in 0 .. n - 1, NEW j \in 0 .. n - 1,
         Nth(t, k, i) = Nth(t, k, j)
  PROVE  i = j
  <1>1. PICK r \in 0 .. n - 1 : r = t.seed[k] % n
    BY NthIs
  <1>2. Nth(t, k, i) = IF r + i < n THEN r + i ELSE r + i - n
    BY <1>1, NthIs
  <1>3. Nth(t, k, j) = IF r + j < n THEN r + j ELSE r + j - n
    BY <1>1, NthIs
  <1>4. (IF r + i < n THEN r + i ELSE r + i - n) = (IF r + j < n THEN r + j ELSE r + j - n)
    BY <1>2, <1>3
  <1>5. r \in Nat /\ i \in Nat /\ j \in Nat /\ n \in Nat /\ r < n /\ i < n /\ j < n
    OBVIOUS
  <1>. QED  BY ONLY <1>4, <1>5

\* Where a probe run first meets one of `stops`.
LEMMA FirstInIs ==
  ASSUME NEW n \in Nat, n > 0, NEW t \in Tables(n), NEW k \in Key, NEW stops, stops \subseteq 0 .. n - 1, stops # {}
  PROVE  \E i \in 0 .. n - 1 : /\ FirstIn(t, k, stops) = Nth(t, k, i) /\ Nth(t, k, i) \in stops
                               /\ \A j \in 0 .. i - 1 : Nth(t, k, j) \notin stops
  <1>1. PICK at : at = {i \in DOMAIN t.slots : Nth(t, k, i) \in stops}
    OBVIOUS
  <1>2. DOMAIN t.slots = 0 .. n - 1
    BY DEF Tables
  <1>3. PICK s \in 0 .. n - 1 : s \in stops
    OBVIOUS
  <1>4. PICK i0 \in 0 .. n - 1 : Nth(t, k, i0) = s
    BY NthOnto
  <1>5. at # {} /\ at \subseteq Nat
    BY <1>1, <1>2, <1>3, <1>4
  <1>6. PICK i : i = Least(at)
    OBVIOUS
  <1>7. i \in at /\ \A m \in at : i <= m
    BY <1>5, <1>6, LeastIs
  <1>8. FirstIn(t, k, stops) = Nth(t, k, i)
    BY <1>1, <1>5, <1>6 DEF FirstIn
  <1>9. i \in 0 .. n - 1 /\ Nth(t, k, i) \in stops
    BY <1>1, <1>2, <1>7
  <1>10. ASSUME NEW j \in 0 .. i - 1, Nth(t, k, j) \in stops PROVE FALSE
    <2>1. j \in 0 .. n - 1 /\ ~(i <= j)
      BY <1>9
    <2>2. j \in at
      BY <1>1, <1>2, <1>10, <2>1
    <2>. QED  BY <1>7, <2>1, <2>2
  <1>. QED  BY <1>8, <1>9, <1>10

\* A free slot, and only occupied ones before it.
LEMMA FreeSlotIs ==
  ASSUME NEW n \in Nat, n > 0, NEW t \in Tables(n), NEW k \in Key,
         NEW f \in 0 .. n - 1, t.slots[f].ctl # "occupied"
  PROVE  \E i \in 0 .. n - 1 : /\ FreeSlot(t, k) = Nth(t, k, i) /\ t.slots[Nth(t, k, i)].ctl # "occupied"
                               /\ \A j \in 0 .. i - 1 : t.slots[Nth(t, k, j)].ctl = "occupied"
  <1>1. PICK stops : stops = {s \in DOMAIN t.slots : t.slots[s].ctl # "occupied"}
    OBVIOUS
  <1>2. DOMAIN t.slots = 0 .. n - 1
    BY DEF Tables
  <1>3. stops \subseteq 0 .. n - 1 /\ stops # {}
    BY <1>1, <1>2
  <1>4. PICK i \in 0 .. n - 1 : /\ FirstIn(t, k, stops) = Nth(t, k, i) /\ Nth(t, k, i) \in stops
                                /\ \A j \in 0 .. i - 1 : Nth(t, k, j) \notin stops
    BY <1>3, FirstInIs
  <1>5. FreeSlot(t, k) = FirstIn(t, k, stops)
    BY <1>1 DEF FreeSlot
  <1>6. ASSUME NEW j \in 0 .. i - 1 PROVE t.slots[Nth(t, k, j)].ctl = "occupied"
    <2>1. j \in 0 .. n - 1
      OBVIOUS
    <2>2. Nth(t, k, j) \in 0 .. n - 1
      BY <2>1, NthIs
    <2>. QED  BY <1>1, <1>2, <1>4, <2>2
  <1>7. t.slots[Nth(t, k, i)].ctl # "occupied"
    BY <1>1, <1>4
  <1>. QED  BY <1>4, <1>5, <1>6, <1>7

\* Runs depend on the seed and the number of slots only.
LEMMA NthSame ==
  ASSUME NEW n \in Nat, NEW t \in Tables(n), NEW u \in Tables(n), u.seed = t.seed, NEW k, NEW i
  PROVE  Nth(u, k, i) = Nth(t, k, i)
  BY DEF Nth, Tables

\* A table in which entries only go away stays good.
LEMMA TableKept ==
  ASSUME NEW n \in Nat, n > 0, NEW t, TableOK(t, n), NEW u \in Tables(n), u.seed = t.seed,
         \A s \in 0 .. n - 1 : u.slots[s].ctl = "occupied" =>
            t.slots[s].ctl = "occupied" /\ t.slots[s].key = u.slots[s].key,
         \A s \in 0 .. n - 1 : u.slots[s].ctl = "value_owed" => u.slots[s].key \in Key,
         \A s \in 0 .. n - 1 : t.slots[s].ctl # "empty" => u.slots[s].ctl # "empty"
  PROVE  TableOK(u, n)
  <1>1. t \in Tables(n)
    BY DEF TableOK
  <1>2. \A s \in 0 .. n - 1 : u.slots[s].ctl \in {"occupied", "value_owed"} => u.slots[s].key \in Key
    BY DEF TableOK
  <1>3. \A s, v \in 0 .. n - 1 :
          u.slots[s].ctl = "occupied" /\ u.slots[v].ctl = "occupied" /\ u.slots[s].key = u.slots[v].key => s = v
    BY DEF TableOK
  <1>4. ASSUME NEW s \in 0 .. n - 1, u.slots[s].ctl = "occupied",
               NEW i \in 0 .. n - 1, Nth(u, u.slots[s].key, i) = s, NEW j \in 0 .. i - 1
        PROVE  u.slots[Nth(u, u.slots[s].key, j)].ctl # "empty"
    <2>1. PICK k \in Key : k = u.slots[s].key /\ k = t.slots[s].key
      BY <1>2, <1>4
    <2>2. Nth(t, k, i) = s /\ Nth(u, k, j) = Nth(t, k, j)
      BY <1>1, <1>4, <2>1, NthSame
    <2>3. t.slots[Nth(t, k, j)].ctl # "empty"
      BY <1>4, <2>1, <2>2 DEF TableOK
    <2>4. j \in 0 .. n - 1
      OBVIOUS
    <2>5. Nth(t, k, j) \in 0 .. n - 1
      BY <1>1, <2>4, NthIs
    <2>. QED  BY <2>1, <2>2, <2>3, <2>5
  <1>. QED  BY <1>2, <1>3, <1>4 DEF TableOK

\* A table without entries is good.
LEMMA TableEmpty ==
  ASSUME NEW n \in Nat, NEW s \in Seeds
  PROVE  TableOK([slots |-> [i \in 0 .. n - 1 |-> EmptySlot], seed |-> s], n)
  <1>1. PICK t : t = [slots |-> [i \in 0 .. n - 1 |-> EmptySlot], seed |-> s]
    OBVIOUS
  <1>2. EmptySlot \in Slot /\ EmptySlot.ctl = "empty"
    BY DEF EmptySlot, Slot, Control, Gen
  <1>3. t \in Tables(n) /\ \A i \in 0 .. n - 1 : t.slots[i].ctl = "empty"
    BY <1>1, <1>2 DEF Tables
  <1>. QED  BY <1>1, <1>3 DEF TableOK

\* An entry under a new key put into the first free slot of its run keeps a table good.
LEMMA TablePlaced ==
  ASSUME NEW n \in Nat, n > 0, NEW t, TableOK(t, n), NEW e \in Slot, e.ctl = "occupied", e.key \in Key,
         \A s \in 0 .. n - 1 : ~(t.slots[s].ctl = "occupied" /\ t.slots[s].key = e.key),
         NEW f \in 0 .. n - 1, t.slots[f].ctl # "occupied"
  PROVE  /\ FreeSlot(t, e.key) \in 0 .. n - 1
         /\ t.slots[FreeSlot(t, e.key)].ctl # "occupied"
         /\ TableOK([slots |-> [t.slots EXCEPT ![FreeSlot(t, e.key)] = e], seed |-> t.seed], n)
  <1>1. t \in Tables(n)
    BY DEF TableOK
  <1>2. PICK k \in Key : k = e.key
    OBVIOUS
  <1>3. PICK i \in 0 .. n - 1 : /\ FreeSlot(t, k) = Nth(t, k, i) /\ t.slots[Nth(t, k, i)].ctl # "occupied"
                                /\ \A j \in 0 .. i - 1 : t.slots[Nth(t, k, j)].ctl = "occupied"
    BY <1>1, FreeSlotIs
  <1>4. PICK at \in 0 .. n - 1 : at = FreeSlot(t, k) /\ at = Nth(t, k, i) /\ t.slots[at].ctl # "occupied"
    BY <1>1, <1>3, NthIs
  <1>5. PICK u : u = [slots |-> [t.slots EXCEPT ![at] = e], seed |-> t.seed]
    OBVIOUS
  <1>6. u \in Tables(n) /\ u.seed = t.seed /\ u.slots[at] = e /\ \A s \in 0 .. n - 1 : s # at => u.slots[s] = t.slots[s]
    BY <1>1, <1>5 DEF Tables
  <1>7. \A s \in 0 .. n - 1 : u.slots[s].ctl \in {"occupied", "value_owed"} => u.slots[s].key \in Key
    BY <1>6 DEF TableOK
  <1>8. ASSUME NEW s \in 0 .. n - 1, NEW v \in 0 .. n - 1,
               u.slots[s].ctl = "occupied", u.slots[v].ctl = "occupied", u.slots[s].key = u.slots[v].key
        PROVE  s = v
    BY <1>6, <1>8 DEF TableOK
  <1>9. ASSUME NEW s \in 0 .. n - 1, u.slots[s].ctl = "occupied",
               NEW m \in 0 .. n - 1, Nth(u, u.slots[s].key, m) = s, NEW j \in 0 .. m - 1
        PROVE  u.slots[Nth(u, u.slots[s].key, j)].ctl # "empty"
    <2>1. PICK q \in Key : q = u.slots[s].key
      BY <1>7, <1>9
    <2>2. Nth(t, q, m) = s /\ Nth(u, q, j) = Nth(t, q, j)
      BY <1>1, <1>6, <1>9, <2>1, NthSame
    <2>3. j \in 0 .. n - 1
      OBVIOUS
    <2>4. PICK p \in 0 .. n - 1 : p = Nth(t, q, j)
      BY <1>1, <2>3, NthIs
    <2>5. t.slots[p].ctl # "empty"
      <3>1. CASE s = at
        <4>1. q = k
          BY <1>2, <1>6, <2>1, <3>1
        <4>2. m = i
          BY <1>1, <1>4, <2>2, <3>1, <4>1, NthOnce
        <4>. QED  BY <1>3, <2>4, <4>1, <4>2
      <3>2. CASE s # at
        <4>1. t.slots[s].ctl = "occupied" /\ t.slots[s].key = q
          BY <1>6, <1>9, <2>1, <3>2
        <4>. QED  BY <2>2, <2>4, <4>1 DEF TableOK
      <3>. QED  BY <3>1, <3>2
    <2>6. u.slots[p].ctl # "empty"
      BY <1>6, <2>5
    <2>. QED  BY <2>1, <2>2, <2>4, <2>6
  <1>10. TableOK(u, n)
    BY <1>6, <1>7, <1>8, <1>9 DEF TableOK
  <1>. QED  BY <1>2, <1>4, <1>5, <1>10

-----------------------------------------------------------------------------
(* Rebuilds *)

\* The occupied slots among D.
Occ(f, D) == {i \in D : f[i].ctl = "occupied"}

\* u is a good table of m slots that holds the entries of the slots of f below i, and
\* nothing else.
Carries(u, m, f, i) ==
    /\ TableOK(u, m)
    /\ \A x \in 0 .. m - 1 : u.slots[x].ctl \in {"empty", "occupied"}
    /\ \A x \in 0 .. m - 1 : u.slots[x].ctl = "occupied" => \E y \in 0 .. i - 1 : f[y] = u.slots[x]
    /\ \A y \in 0 .. i - 1 : f[y].ctl = "occupied" => \E x \in 0 .. m - 1 : u.slots[x] = f[y]
    /\ Cardinality(Occ(u.slots, 0 .. m - 1)) = Cardinality(Occ(f, 0 .. i - 1))

\* Slots of which entries are to be moved: those of a good table.
Movable(f, n) ==
    /\ f \in [0 .. n - 1 -> Slot]
    /\ \A s \in 0 .. n - 1 : f[s].ctl = "occupied" => f[s].key \in Key
    /\ \A s, u \in 0 .. n - 1 : f[s].ctl = "occupied" /\ f[u].ctl = "occupied" /\ f[s].key = f[u].key => s = u

\* Occupied slots are finitely many.
LEMMA OccFinite ==
  ASSUME NEW n \in Nat, NEW f, NEW D, D \subseteq 0 .. n - 1
  PROVE  IsFiniteSet(Occ(f, D)) /\ Cardinality(Occ(f, D)) \in Nat
  <1>1. Occ(f, D) \in SUBSET (0 .. n - 1)
    BY DEF Occ
  <1>2. IsFiniteSet(Occ(f, D))
    BY <1>1, SlotsNumber, FS_Subset
  <1>. QED  BY <1>2, FS_CardinalityType

\* map_place_moved changes one slot.
LEMMA PlaceIs ==
  ASSUME NEW m \in Nat, NEW t \in Tables(m), NEW e \in Slot
  PROVE  /\ map_place_moved(t, e) = [slots |-> [t.slots EXCEPT ![FreeSlot(t, e.key)] = e], seed |-> t.seed]
         /\ map_place_moved(t, e) \in Tables(m)
  <1>1. PICK at : at = FreeSlot(t, e.key)
    OBVIOUS
  <1>2. [t EXCEPT !.slots[at] = e] = [slots |-> [t.slots EXCEPT ![at] = e], seed |-> t.seed]
    BY DEF Tables
  <1>3. [slots |-> [t.slots EXCEPT ![at] = e], seed |-> t.seed] \in Tables(m)
    BY DEF Tables
  <1>. QED  BY <1>1, <1>2, <1>3 DEF map_place_moved

\* One more entry is moved.
LEMMA CarriesMore ==
  ASSUME NEW m \in Nat, m > 0, NEW n \in Nat, NEW f, Movable(f, n), Cardinality(Occ(f, 0 .. n - 1)) < m,
         NEW i \in 0 .. n - 1, NEW u, Carries(u, m, f, i), f[i].ctl = "occupied"
  PROVE  Carries(map_place_moved(u, f[i]), m, f, i + 1)
  <1>1. u \in Tables(m) /\ TableOK(u, m)
    BY DEF Carries, TableOK
  <1>2. PICK e \in Slot : e = f[i] /\ e.ctl = "occupied" /\ e.key \in Key
    BY DEF Movable
  <1>3. PICK A : A = Occ(f, 0 .. i - 1)
    OBVIOUS
  <1>4. PICK B : B = Occ(u.slots, 0 .. m - 1)
    OBVIOUS
  <1>5. IsFiniteSet(A) /\ IsFiniteSet(B) /\ Cardinality(A) = Cardinality(B) /\ Cardinality(A) \in Nat
    <2>1. 0 .. i - 1 \subseteq 0 .. n - 1
      OBVIOUS
    <2>. QED  BY <1>3, <1>4, <2>1, OccFinite DEF Carries
  <1>6. i \notin A /\ Occ(f, 0 .. (i + 1) - 1) = A \cup {i}
    <2>1. \A y : y \in 0 .. (i + 1) - 1 <=> y \in 0 .. i - 1 \/ y = i
      OBVIOUS
    <2>. QED  BY <1>2, <1>3, <2>1 DEF Occ
  <1>7. Cardinality(A \cup {i}) = Cardinality(A) + 1
    BY <1>5, <1>6, FS_AddElement
  <1>8. PICK free \in 0 .. m - 1 : u.slots[free].ctl # "occupied"
    <2>1. A \in SUBSET Occ(f, 0 .. n - 1)
      BY <1>3 DEF Occ
    <2>2. Cardinality(A) <= Cardinality(Occ(f, 0 .. n - 1)) /\ Cardinality(Occ(f, 0 .. n - 1)) \in Nat
      <3>1. IsFiniteSet(Occ(f, 0 .. n - 1)) /\ Cardinality(Occ(f, 0 .. n - 1)) \in Nat
        BY OccFinite
      <3>. QED  BY <2>1, <3>1, FS_Subset
    <2>3. Cardinality(B) # m
      BY <1>5, <2>2
    <2>4. B # 0 .. m - 1
      BY <2>3, SlotsNumber
    <2>. QED  BY <1>4, <2>4 DEF Occ
  <1>9. \A s \in 0 .. m - 1 : ~(u.slots[s].ctl = "occupied" /\ u.slots[s].key = e.key)
    <2>1. ASSUME NEW s \in 0 .. m - 1, u.slots[s].ctl = "occupied", u.slots[s].key = e.key PROVE FALSE
      <3>1. PICK y \in 0 .. i - 1 : f[y] = u.slots[s]
        BY <2>1 DEF Carries
      <3>2. y \in 0 .. n - 1 /\ y # i
        OBVIOUS
      <3>. QED  BY <1>2, <2>1, <3>1, <3>2 DEF Movable
    <2>. QED  BY <2>1
  <1>10. PICK at \in 0 .. m - 1 : at = FreeSlot(u, e.key) /\ u.slots[at].ctl # "occupied"
    BY <1>1, <1>2, <1>8, <1>9, TablePlaced
  <1>11. PICK v : v = map_place_moved(u, e)
    OBVIOUS
  <1>12. v = [slots |-> [u.slots EXCEPT ![at] = e], seed |-> u.seed]
    BY <1>1, <1>10, <1>11, PlaceIs
  <1>13. TableOK(v, m)
    BY <1>1, <1>2, <1>8, <1>9, <1>10, <1>12, TablePlaced
  <1>14. v.slots[at] = e /\ \A x \in 0 .. m - 1 : x # at => v.slots[x] = u.slots[x]
    BY <1>1, <1>12 DEF Tables
  <1>15. \A x \in 0 .. m - 1 : v.slots[x].ctl \in {"empty", "occupied"}
    BY <1>2, <1>14 DEF Carries
  <1>16. ASSUME NEW x \in 0 .. m - 1, v.slots[x].ctl = "occupied"
         PROVE  \E y \in 0 .. (i + 1) - 1 : f[y] = v.slots[x]
    <2>1. CASE x = at
      <3>1. i \in 0 .. (i + 1) - 1
        OBVIOUS
      <3>. QED  BY <1>2, <1>14, <2>1, <3>1
    <2>2. CASE x # at
      <3>1. PICK y \in 0 .. i - 1 : f[y] = u.slots[x]
        BY <1>14, <1>16, <2>2 DEF Carries
      <3>2. y \in 0 .. (i + 1) - 1
        OBVIOUS
      <3>. QED  BY <1>14, <2>2, <3>1, <3>2
    <2>. QED  BY <2>1, <2>2
  <1>17. ASSUME NEW y \in 0 .. (i + 1) - 1, f[y].ctl = "occupied"
         PROVE  \E x \in 0 .. m - 1 : v.slots[x] = f[y]
    <2>1. CASE y = i
      BY <1>2, <1>14, <2>1
    <2>2. CASE y # i
      <3>1. y \in 0 .. i - 1
        BY <2>2
      <3>2. PICK x \in 0 .. m - 1 : u.slots[x] = f[y]
        BY <1>17, <3>1 DEF Carries
      <3>3. x # at
        BY <1>10, <1>17, <3>2
      <3>. QED  BY <1>14, <3>2, <3>3
    <2>. QED  BY <2>1, <2>2
  <1>18. Occ(v.slots, 0 .. m - 1) = B \cup {at} /\ at \notin B
    BY <1>2, <1>4, <1>10, <1>14 DEF Occ
  <1>19. Cardinality(Occ(v.slots, 0 .. m - 1)) = Cardinality(Occ(f, 0 .. (i + 1) - 1))
    <2>1. Cardinality(B \cup {at}) = Cardinality(B) + 1
      BY <1>5, <1>18, FS_AddElement
    <2>2. Cardinality(B \cup {at}) = Cardinality(A \cup {i})
      BY <1>5, <1>7, <2>1
    <2>. QED  BY <1>6, <1>18, <2>2, Zenon
  <1>20. Carries(v, m, f, i + 1)
    BY <1>13, <1>15, <1>16, <1>17, <1>19 DEF Carries
  <1>. QED  BY <1>2, <1>11, <1>20

\* A slot without an entry adds nothing.
LEMMA CarriesSame ==
  ASSUME NEW m \in Nat, NEW f, NEW i \in Nat, NEW u, Carries(u, m, f, i), f[i].ctl # "occupied"
  PROVE  Carries(u, m, f, i + 1)
  <1>1. \A y : y \in 0 .. (i + 1) - 1 <=> y \in 0 .. i - 1 \/ y = i
    OBVIOUS
  <1>2. Occ(f, 0 .. (i + 1) - 1) = Occ(f, 0 .. i - 1)
    BY <1>1 DEF Occ
  <1>. QED  BY <1>1, <1>2 DEF Carries

\* A rebuild moves every entry.
LEMMA RebuiltIs ==
  ASSUME NEW m \in Nat, m > 0, NEW n \in Nat, Movable(slots, n), Cardinality(Occ(slots, 0 .. n - 1)) < m,
         NEW s \in Seeds
  PROVE  Carries(Rebuilt(m, s), m, slots, n) /\ Rebuilt(m, s).seed = s
  <1>. DEFINE fresh == [slots |-> [i \in 0 .. m - 1 |-> EmptySlot], seed |-> s]
              step(g, i) == IF i = 0 THEN fresh
                            ELSE IF slots[i - 1].ctl = "occupied" THEN map_place_moved(g[i - 1], slots[i - 1])
                            ELSE g[i - 1]
              eqn(g) == g = [i \in 0 .. slot_count |-> step(g, i)]
  <1>1. slot_count = n
    <2>1. DOMAIN slots = 0 .. n - 1
      BY DEF Movable
    <2>. QED  BY <2>1, SlotsNumber DEF slot_count
  <1>2. TableOK(fresh, m) /\ fresh \in Tables(m)
    BY TableEmpty DEF TableOK
  <1>3. PICK d : d = [p \in Nat \X Tables(m) |->
                        IF p[1] \in 1 .. n THEN (IF slots[p[1] - 1].ctl = "occupied"
                                                 THEN map_place_moved(p[2], slots[p[1] - 1]) ELSE p[2])
                        ELSE p[2]]
    OBVIOUS
  <1>4. d \in [Nat \X Tables(m) -> Tables(m)]
    <2>1. ASSUME NEW p \in Nat \X Tables(m)
          PROVE  (IF p[1] \in 1 .. n THEN (IF slots[p[1] - 1].ctl = "occupied"
                                           THEN map_place_moved(p[2], slots[p[1] - 1]) ELSE p[2])
                  ELSE p[2]) \in Tables(m)
      <3>1. p[2] \in Tables(m) /\ p[1] \in Nat
        OBVIOUS
      <3>2. CASE p[1] \in 1 .. n
        <4>1. p[1] - 1 \in 0 .. n - 1
          BY <3>2
        <4>2. slots[p[1] - 1] \in Slot
          BY <4>1 DEF Movable
        <4>3. map_place_moved(p[2], slots[p[1] - 1]) \in Tables(m)
          BY <3>1, <4>2, PlaceIs
        <4>. QED  BY <3>1, <4>3
      <3>. QED  BY <3>1, <3>2
    <2>. QED  BY <1>3, <2>1
  <1>5. Recursive(Tables(m), fresh, d)
    BY ONLY <1>2, <1>4, Recursion
  <1>6. PICK w \in [Nat -> Tables(m)] : w[0] = fresh /\ \A i \in Nat : w[i + 1] = d[<<i + 1, w[i]>>]
    BY <1>5 DEF Recursive
  <1>7. PICK g0 : g0 = [i \in 0 .. n |-> w[i]]
    OBVIOUS
  <1>8. ASSUME NEW i \in 0 .. n PROVE w[i] = step(g0, i)
    <2>1. CASE i = 0
      BY <1>6, <2>1
    <2>2. CASE i # 0
      <3>1. i - 1 \in Nat /\ (i - 1) + 1 = i /\ i \in 1 .. n /\ i - 1 \in 0 .. n
        BY <2>2
      <3>2. PICK p : p = <<i, w[i - 1]>>
        OBVIOUS
      <3>3. p \in Nat \X Tables(m) /\ p[1] = i /\ p[2] = w[i - 1]
        BY <3>1, <3>2
      <3>4. d[p] = IF p[1] \in 1 .. n THEN (IF slots[p[1] - 1].ctl = "occupied"
                                            THEN map_place_moved(p[2], slots[p[1] - 1]) ELSE p[2])
                   ELSE p[2]
        BY <1>3, <3>3
      <3>5. d[p] = IF slots[i - 1].ctl = "occupied" THEN map_place_moved(w[i - 1], slots[i - 1]) ELSE w[i - 1]
        BY <3>1, <3>3, <3>4
      <3>6. w[i] = d[p]
        BY <1>6, <3>1, <3>2
      <3>7. g0[i - 1] = w[i - 1]
        BY <1>7, <3>1
      <3>. QED  BY <2>2, <3>5, <3>6, <3>7
    <2>. QED  BY <2>1, <2>2
  <1>9. eqn(g0)
    <2>. HIDE DEF step
    <2>. QED  BY <1>1, <1>7, <1>8
  <1>10. PICK g : g = CHOOSE h : eqn(h)
    OBVIOUS
  <1>11. eqn(g)
    <2>. HIDE DEF eqn
    <2>. QED  BY <1>9, <1>10, Zenon
  <1>12. Rebuilt(m, s) = g[n]
    <2>1. Rebuilt(m, s) = g[slot_count]
      BY <1>10 DEF Rebuilt
    <2>. QED  BY <1>1, <2>1
  <1>13. ASSUME NEW i \in 0 .. n PROVE g[i] = step(g, i)
    <2>. HIDE DEF step
    <2>. QED  BY <1>1, <1>11
  <1>14. g[0] = fresh
    <2>1. 0 \in 0 .. n
      OBVIOUS
    <2>2. g[0] = step(g, 0)
      BY <1>13, <2>1
    <2>. QED  BY <2>2
  <1>15. Carries(fresh, m, slots, 0) /\ fresh.seed = s
    <2>1. \A x \in 0 .. m - 1 : fresh.slots[x].ctl = "empty"
      BY DEF EmptySlot
    <2>2. Occ(fresh.slots, 0 .. m - 1) = {} /\ 0 .. 0 - 1 = {} /\ Occ(slots, 0 .. 0 - 1) = {}
      BY <2>1 DEF Occ
    <2>3. fresh.seed = s
      OBVIOUS
    <2>4. PICK ff : ff = fresh
      OBVIOUS
    <2>5. TableOK(ff, m) /\ (\A x \in 0 .. m - 1 : ff.slots[x].ctl = "empty") /\ Occ(ff.slots, 0 .. m - 1) = {}
      BY <1>2, <2>1, <2>2, <2>4
    <2>6. Carries(ff, m, slots, 0)
      BY <2>2, <2>5 DEF Carries
    <2>. QED  BY <2>3, <2>4, <2>6
  <1>16. PICK S : S = {i \in Nat : i <= n => Carries(g[i], m, slots, i) /\ g[i].seed = s}
    OBVIOUS
  <1>17. 0 \in S
    BY <1>14, <1>15, <1>16
  <1>18. ASSUME NEW i \in Nat, i \in S PROVE i + 1 \in S
    <2>1. CASE i + 1 <= n
      <3>1. Carries(g[i], m, slots, i) /\ g[i].seed = s
        BY <1>16, <1>18, <2>1
      <3>2. i \in 0 .. n - 1 /\ i + 1 \in 0 .. n /\ (i + 1) - 1 = i /\ i + 1 # 0
        BY <2>1
      <3>3. g[i + 1] = step(g, i + 1)
        BY <1>13, <3>2
      <3>4. g[i + 1] = IF slots[i].ctl = "occupied" THEN map_place_moved(g[i], slots[i]) ELSE g[i]
        BY <3>2, <3>3
      <3>5. CASE slots[i].ctl = "occupied"
        <4>1. g[i + 1] = map_place_moved(g[i], slots[i])
          BY <3>4, <3>5
        <4>2. Carries(g[i + 1], m, slots, i + 1)
          BY <3>1, <3>2, <3>5, <4>1, CarriesMore
        <4>3. slots[i] \in Slot /\ g[i] \in Tables(m)
          BY <3>1, <3>2 DEF Movable, Carries, TableOK
        <4>4. g[i + 1].seed = s
          BY <3>1, <4>1, <4>3, PlaceIs
        <4>. QED  BY <1>16, <4>2, <4>4
      <3>6. CASE slots[i].ctl # "occupied"
        BY <1>16, <3>1, <3>4, <3>6, CarriesSame
      <3>. QED  BY <3>5, <3>6
    <2>2. CASE ~(i + 1 <= n)
      BY <1>16, <2>2
    <2>. QED  BY <2>1, <2>2
  <1>19. \A i \in Nat : i \in S
    BY <1>17, <1>18, Inductive
  <1>. QED  BY <1>12, <1>16, <1>19

-----------------------------------------------------------------------------
(* The inductive invariant of the map *)

\* The vacated slots among D.
Vac(f, D) == {i \in D : f[i].ctl \in {"tombstone", "value_owed"}}

\* The key or value x is what slot s still has to drop.
Claimed(f, s, x) ==
    \/ f[s].ctl = "occupied" /\ x = f[s].key
    \/ f[s].ctl \in {"occupied", "value_owed"} /\ x = <<f[s].key, f[s].g>>

\* No table, or a good one of n slots.
Good(f, sd, n) ==
    \/ n = 0 /\ f \in [0 .. n - 1 -> Slot] /\ sd \in Seeds \cup {NoSeed}
    \/ n \in SlotCounts /\ TableOK([slots |-> f, seed |-> sd], n)

\* The counters: what they count, and room for what they count below the capacity.
Tallied(f, n, occ, tomb, l, c, def) ==
    /\ occ \in Nat /\ tomb \in Nat /\ occ = Cardinality(Occ(f, 0 .. n - 1)) /\ l = occ
    /\ tomb >= Cardinality(Vac(f, 0 .. n - 1))
    /\ ~def => tomb = Cardinality(Vac(f, 0 .. n - 1))
    /\ c = map_capacity_of(n) /\ occ + tomb <= c

\* The ledger: a value is claimed by one slot only, what is claimed is owned, and what is
\* owned is claimed.  A slot owes a value only once a hook has panicked.
Ledger(f, n, own, def, ph) ==
    /\ own \subseteq Key \cup Instance
    /\ ph = "running" => \A s \in 0 .. n - 1 : f[s].ctl # "value_owed"
    /\ \A s, u \in 0 .. n - 1 :
        /\ f[s].ctl \in {"occupied", "value_owed"} /\ f[u].ctl \in {"occupied", "value_owed"}
        /\ f[s].key = f[u].key /\ f[s].g = f[u].g
        => s = u
    /\ \A s \in 0 .. n - 1 : \A x : Claimed(f, s, x) => x \in own
    /\ ~def => \A x \in own : \E s \in 0 .. n - 1 : Claimed(f, s, x)

\* What the other variables may be.
Flags(b, d, p, a) ==
    /\ b \in BOOLEAN /\ d \in BOOLEAN
    /\ p \in {"running", "unwinding", "ended"} /\ a \in {"ok", "refused", "panicked"}

\* The map's inductive invariant.
MapKept ==
    /\ Flags(bound, deferred, phase, answer)
    /\ \E n \in {0} \cup SlotCounts :
        /\ Good(slots, seed, n)
        /\ Tallied(slots, n, occupied, tombstones, len, cap, deferred)
        /\ Ledger(slots, n, owned, deferred, phase)

\* What a good table is, whether there is one or not.
LEMMA GoodFacts ==
  ASSUME NEW n, NEW f, NEW sd, Good(f, sd, n)
  PROVE  /\ n \in Nat /\ n \in {0} \cup SlotCounts /\ f \in [0 .. n - 1 -> Slot] /\ sd \in Seeds \cup {NoSeed}
         /\ Movable(f, n)
         /\ \A s \in 0 .. n - 1 : f[s].ctl \in {"occupied", "value_owed"} => f[s].key \in Key
         /\ n # 0 => n \in SlotCounts /\ n > 0 /\ TableOK([slots |-> f, seed |-> sd], n)
  <1>1. CASE n = 0 /\ f \in [0 .. n - 1 -> Slot] /\ sd \in Seeds \cup {NoSeed}
    <2>1. n = 0 /\ 0 .. n - 1 = {}
      BY <1>1
    <2>. QED  BY <1>1, <2>1 DEF Movable
  <1>2. CASE n \in SlotCounts /\ TableOK([slots |-> f, seed |-> sd], n)
    <2>1. n \in Nat /\ n > 1
      BY <1>2, CountFacts
    <2>2. PICK t : t = [slots |-> f, seed |-> sd]
      OBVIOUS
    <2>3. t.slots = f /\ t.seed = sd /\ TableOK(t, n)
      BY <1>2, <2>2
    <2>4. f \in [0 .. n - 1 -> Slot] /\ sd \in Seeds
      BY <2>3 DEF TableOK, Tables
    <2>5. \A s \in 0 .. n - 1 : f[s].ctl \in {"occupied", "value_owed"} => f[s].key \in Key
      BY <2>3 DEF TableOK
    <2>6. \A s, u \in 0 .. n - 1 : f[s].ctl = "occupied" /\ f[u].ctl = "occupied" /\ f[s].key = f[u].key => s = u
      BY <2>3 DEF TableOK
    <2>7. Movable(f, n)
      BY <2>4, <2>5, <2>6 DEF Movable
    <2>. QED  BY <1>2, <2>1, <2>4, <2>5, <2>7
  <1>. QED  BY <1>1, <1>2 DEF Good

\* A good table is a good pair of slots and seed.
LEMMA GoodTable ==
  ASSUME NEW n \in SlotCounts, NEW t, TableOK(t, n)
  PROVE  Good(t.slots, t.seed, n)
  <1>1. t = [slots |-> t.slots, seed |-> t.seed]
    BY DEF TableOK, Tables
  <1>. QED  BY <1>1 DEF Good

\* Vacated slots are finitely many.
LEMMA VacFinite ==
  ASSUME NEW n \in Nat, NEW f, NEW D, D \subseteq 0 .. n - 1
  PROVE  IsFiniteSet(Vac(f, D)) /\ Cardinality(Vac(f, D)) \in Nat
  <1>1. Vac(f, D) \in SUBSET (0 .. n - 1)
    BY DEF Vac
  <1>2. IsFiniteSet(Vac(f, D))
    BY <1>1, SlotsNumber, FS_Subset
  <1>. QED  BY <1>2, FS_CardinalityType

\* The capacity of no table, and of a table.
LEMMA CapIs ==
  ASSUME NEW n \in {0} \cup SlotCounts
  PROVE  n \in Nat /\ map_capacity_of(n) \in Nat /\ map_capacity_of(n) <= n /\ (n # 0 => map_capacity_of(n) < n)
  <1>1. CASE n = 0
    <2>1. PICK d \in Nat : d = Spare /\ d >= 2
      BY MapAssumption
    <2>2. 0 \div d = 0
      BY <2>1, SMT
    <2>. QED  BY <1>1, <2>1, <2>2 DEF map_capacity_of
  <1>2. CASE n \in SlotCounts
    BY <1>2, CountFacts, CapacityFacts
  <1>. QED  BY <1>1, <1>2

\* Two finite sets without a common member.
LEMMA JoinedCount ==
  ASSUME NEW A, NEW B, IsFiniteSet(A), IsFiniteSet(B), A \cap B = {}
  PROVE  IsFiniteSet(A \cup B) /\ Cardinality(A \cup B) = Cardinality(A) + Cardinality(B)
  <1>1. IsFiniteSet(A \cup B) /\ Cardinality(A \cup B) = Cardinality(A) + Cardinality(B) - Cardinality(A \cap B)
    BY FS_Union
  <1>2. Cardinality(A \cap B) = 0
    BY FS_EmptySet
  <1>3. Cardinality(A) \in Nat /\ Cardinality(B) \in Nat
    BY FS_CardinalityType
  <1>. QED  BY <1>1, <1>2, <1>3

\* A finite set without a part of it.
LEMMA LessCount ==
  ASSUME NEW A, NEW L, IsFiniteSet(A), L \subseteq A
  PROVE  /\ Cardinality(A \ L) = Cardinality(A) - Cardinality(L) /\ Cardinality(L) \in Nat
         /\ IsFiniteSet(L) /\ Cardinality(L) <= Cardinality(A)
  <1>1. Cardinality(A \ L) = Cardinality(A) - Cardinality(A \cap L)
    BY FS_Difference
  <1>2. A \cap L = L
    OBVIOUS
  <1>3. L \in SUBSET A
    OBVIOUS
  <1>4. IsFiniteSet(L) /\ Cardinality(L) <= Cardinality(A)
    BY <1>3, FS_Subset
  <1>5. Cardinality(L) \in Nat
    BY <1>4, FS_CardinalityType
  <1>. QED  BY <1>1, <1>2, <1>4, <1>5

\* A table that is not over its capacity has an empty slot.
LEMMA EmptyLeft ==
  ASSUME NEW n \in SlotCounts, NEW f \in [0 .. n - 1 -> Slot], NEW occ, NEW tomb, NEW l, NEW c, NEW def,
         Tallied(f, n, occ, tomb, l, c, def)
  PROVE  \E s \in 0 .. n - 1 : f[s].ctl = "empty"
  <1>1. n \in Nat /\ map_capacity_of(n) \in Nat /\ map_capacity_of(n) < n
    BY CountFacts, CapacityFacts
  <1>2. PICK A : A = Occ(f, 0 .. n - 1)
    OBVIOUS
  <1>3. PICK B : B = Vac(f, 0 .. n - 1)
    OBVIOUS
  <1>4. IsFiniteSet(A) /\ Cardinality(A) \in Nat /\ IsFiniteSet(B) /\ Cardinality(B) \in Nat
    BY <1>1, <1>2, <1>3, OccFinite, VacFinite
  <1>5. IsFiniteSet(A \cup B) /\ Cardinality(A \cup B) <= Cardinality(A) + Cardinality(B)
    <2>1. A \cap B = {}
      BY <1>2, <1>3 DEF Occ, Vac
    <2>2. Cardinality(A \cup B) = Cardinality(A) + Cardinality(B)
      BY <1>4, <2>1, JoinedCount
    <2>3. IsFiniteSet(A \cup B)
      BY <1>4, FS_Union
    <2>. QED  BY <1>4, <2>2, <2>3
  <1>6. Cardinality(A \cup B) \in Nat
    BY <1>5, FS_CardinalityType
  <1>7. Cardinality(A \cup B) # n
    BY <1>1, <1>2, <1>3, <1>4, <1>5, <1>6 DEF Tallied
  <1>8. A \cup B # 0 .. n - 1
    BY <1>1, <1>7, SlotsNumber
  <1>9. PICK s \in 0 .. n - 1 : s \notin A \cup B
    BY <1>2, <1>3, <1>8 DEF Occ, Vac
  <1>10. f[s].ctl \in {"empty", "tombstone", "occupied", "value_owed"}
    BY DEF Slot, Control
  <1>. QED  BY <1>2, <1>3, <1>9, <1>10 DEF Occ, Vac

\* A claim is one slot's only.
LEMMA ClaimOnce ==
  ASSUME NEW n, NEW f, NEW sd, Good(f, sd, n), NEW own, NEW def, NEW ph, Ledger(f, n, own, def, ph),
         NEW s \in 0 .. n - 1, NEW u \in 0 .. n - 1, NEW x, Claimed(f, s, x), Claimed(f, u, x)
  PROVE  s = u
  <1>1. f[s].ctl \in {"occupied", "value_owed"} /\ f[u].ctl \in {"occupied", "value_owed"}
    BY DEF Claimed
  <1>2. f[s].key \in Key /\ f[u].key \in Key /\ f[s].g \in Gen /\ f[u].g \in Gen
    <2>1. f[s].key \in Key /\ f[u].key \in Key
      BY <1>1, GoodFacts
    <2>2. f[s] \in Slot /\ f[u] \in Slot
      BY GoodFacts
    <2>. QED  BY <2>1, <2>2 DEF Slot
  <1>3. <<f[s].key, f[s].g>> \notin Key /\ <<f[u].key, f[u].g>> \notin Key
    BY <1>2, MapAssumption DEF Instance
  <1>4. CASE x \in Key
    <2>1. f[s].ctl = "occupied" /\ f[u].ctl = "occupied" /\ f[s].key = f[u].key
      BY <1>3, <1>4 DEF Claimed
    <2>. QED  BY <2>1, GoodFacts DEF Movable
  <1>5. CASE x \notin Key
    <2>1. <<f[s].key, f[s].g>> = <<f[u].key, f[u].g>>
      BY <1>2, <1>5 DEF Claimed
    <2>2. f[s].key = f[u].key /\ f[s].g = f[u].g
      BY <2>1
    <2>. QED  BY <1>1, <2>2 DEF Ledger
  <1>. QED  BY <1>4, <1>5

-----------------------------------------------------------------------------
(* What the calls do to the counters *)

\* The entries of the slots L have gone.
LEMMA TallyVacated ==
  ASSUME NEW n \in {0} \cup SlotCounts, NEW f, NEW occ, NEW tomb, NEW l, NEW c, NEW def,
         Tallied(f, n, occ, tomb, l, c, def), NEW L, L \subseteq Occ(f, 0 .. n - 1), NEW h,
         \A i \in 0 .. n - 1 : h[i].ctl = "occupied" <=> i \in Occ(f, 0 .. n - 1) /\ i \notin L,
         \A i \in 0 .. n - 1 : h[i].ctl \in {"tombstone", "value_owed"} <=> i \in Vac(f, 0 .. n - 1) \/ i \in L
  PROVE  Cardinality(L) \in Nat /\ Tallied(h, n, occ - Cardinality(L), tomb + Cardinality(L), l - Cardinality(L), c, def)
  <1>1. PICK A : A = Occ(f, 0 .. n - 1)
    OBVIOUS
  <1>2. PICK B : B = Vac(f, 0 .. n - 1)
    OBVIOUS
  <1>3. n \in Nat
    BY CapIs
  <1>4. IsFiniteSet(A) /\ Cardinality(A) \in Nat /\ IsFiniteSet(B) /\ Cardinality(B) \in Nat
    BY <1>1, <1>2, <1>3, OccFinite, VacFinite
  <1>5. Occ(h, 0 .. n - 1) = A \ L
    BY <1>1 DEF Occ
  <1>6. Vac(h, 0 .. n - 1) = B \cup L
    BY <1>1, <1>2 DEF Occ, Vac
  <1>7. /\ Cardinality(A \ L) = Cardinality(A) - Cardinality(L) /\ Cardinality(L) \in Nat
        /\ IsFiniteSet(L) /\ Cardinality(L) <= Cardinality(A)
    BY <1>1, <1>4, LessCount
  <1>8. Cardinality(B \cup L) = Cardinality(B) + Cardinality(L)
    <2>1. B \cap L = {}
      BY <1>1, <1>2 DEF Occ, Vac
    <2>. QED  BY <1>4, <1>7, <2>1, JoinedCount
  <1>9. PICK w \in Nat : w = Cardinality(L)
    BY <1>7
  <1>10. map_capacity_of(n) \in Nat
    BY CapIs
  <1>11. /\ occ \in Nat /\ tomb \in Nat /\ occ = Cardinality(A) /\ l = occ /\ tomb >= Cardinality(B)
         /\ (~def => tomb = Cardinality(B)) /\ c = map_capacity_of(n) /\ occ + tomb <= c
    BY <1>1, <1>2 DEF Tallied
  <1>12. Cardinality(Occ(h, 0 .. n - 1)) = occ - w /\ Cardinality(Vac(h, 0 .. n - 1)) = Cardinality(B) + w
    BY <1>5, <1>6, <1>7, <1>8, <1>9, <1>11
  <1>13. occ - w \in Nat /\ tomb + w \in Nat /\ (occ - w) + (tomb + w) <= c
    <2>1. w <= occ /\ c \in Nat
      BY <1>7, <1>9, <1>10, <1>11
    <2>2. occ - w \in Nat /\ tomb + w \in Nat /\ (occ - w) + (tomb + w) = occ + tomb
      BY <1>11, <2>1
    <2>. QED  BY <1>11, <2>2
  <1>14. Tallied(h, n, occ - w, tomb + w, l - w, c, def)
    BY <1>4, <1>11, <1>12, <1>13 DEF Tallied
  <1>. QED  BY <1>9, <1>14

\* An entry can take the slot `at` of f, which makes it h.
Takes(f, n, occ, tomb, l, c, def, at, h, late) ==
    /\ n \in {0} \cup SlotCounts /\ Tallied(f, n, occ, tomb, l, c, def) /\ occ + tomb + 1 <= c
    /\ at \in 0 .. n - 1 /\ f[at].ctl # "occupied" /\ h[at].ctl = "occupied"
    /\ \A i \in 0 .. n - 1 : i # at => h[i] = f[i]
    /\ ~late => ~def /\ f[at].ctl # "value_owed"

\* An entry has taken a free slot.
LEMMA TallyPlaced ==
  ASSUME NEW f, NEW n, NEW occ, NEW tomb, NEW l, NEW c, NEW def, NEW at, NEW h, NEW late,
         Takes(f, n, occ, tomb, l, c, def, at, h, late)
  PROVE  Tallied(h, n, occ + 1, IF f[at].ctl = "tombstone" THEN tomb - 1 ELSE tomb, l + 1, c, late)
  <1>. /\ n \in {0} \cup SlotCounts /\ Tallied(f, n, occ, tomb, l, c, def) /\ occ + tomb + 1 <= c
       /\ at \in 0 .. n - 1 /\ f[at].ctl # "occupied" /\ h[at].ctl = "occupied"
       /\ \A i \in 0 .. n - 1 : i # at => h[i] = f[i]
       /\ ~late => ~def /\ f[at].ctl # "value_owed"
    BY DEF Takes
  <1>1. PICK A : A = Occ(f, 0 .. n - 1)
    OBVIOUS
  <1>2. PICK B : B = Vac(f, 0 .. n - 1)
    OBVIOUS
  <1>3. n \in Nat
    BY CapIs
  <1>4. IsFiniteSet(A) /\ Cardinality(A) \in Nat /\ IsFiniteSet(B) /\ Cardinality(B) \in Nat
    BY <1>1, <1>2, <1>3, OccFinite, VacFinite
  <1>5. Occ(h, 0 .. n - 1) = A \cup {at} /\ at \notin A
    BY <1>1 DEF Occ
  <1>6. Vac(h, 0 .. n - 1) = B \ {at}
    BY <1>2 DEF Vac
  <1>7. Cardinality(A \cup {at}) = Cardinality(A) + 1
    BY <1>4, <1>5, FS_AddElement
  <1>8. Cardinality(B \ {at}) = IF at \in B THEN Cardinality(B) - 1 ELSE Cardinality(B)
    BY <1>4, FS_RemoveElement
  <1>9. at \in B => Cardinality(B) >= 1
    <2>1. ASSUME at \in B PROVE Cardinality(B) # 0
      BY <1>4, <2>1, FS_EmptySet
    <2>. QED  BY <1>4, <2>1
  <1>10. at \in B <=> f[at].ctl \in {"tombstone", "value_owed"}
    BY <1>2 DEF Vac
  <1>11. /\ occ \in Nat /\ tomb \in Nat /\ occ = Cardinality(A) /\ l = occ /\ tomb >= Cardinality(B)
         /\ (~def => tomb = Cardinality(B)) /\ c = map_capacity_of(n)
    BY <1>1, <1>2 DEF Tallied
  <1>12. PICK b \in Nat : b = Cardinality(B)
    BY <1>4
  <1>13. PICK v : v = Cardinality(Vac(h, 0 .. n - 1))
    OBVIOUS
  <1>14. v = IF at \in B THEN b - 1 ELSE b
    BY <1>6, <1>8, <1>12, <1>13
  <1>15. PICK t : t = IF f[at].ctl = "tombstone" THEN tomb - 1 ELSE tomb
    OBVIOUS
  <1>16. t \in Nat /\ t <= tomb /\ t >= v /\ (~late => t = v)
    <2>1. CASE f[at].ctl = "tombstone"
      <3>1. at \in B
        BY <1>10, <2>1
      <3>2. t = tomb - 1 /\ v = b - 1 /\ b >= 1 /\ tomb >= b /\ (~def => tomb = b)
        BY <1>9, <1>11, <1>12, <1>14, <1>15, <2>1, <3>1
      <3>. QED  BY <1>11, <1>12, <3>2
    <2>2. CASE f[at].ctl = "value_owed"
      <3>1. at \in B
        BY <1>10, <2>2
      <3>2. t = tomb /\ v = b - 1 /\ tomb >= b /\ late
        BY <1>11, <1>12, <1>14, <1>15, <2>2, <3>1
      <3>. QED  BY <1>11, <1>12, <3>2
    <2>3. CASE f[at].ctl \notin {"tombstone", "value_owed"}
      <3>1. at \notin B
        BY <1>10, <2>3
      <3>2. t = tomb /\ v = b /\ tomb >= b /\ (~def => tomb = b)
        BY <1>11, <1>12, <1>14, <1>15, <2>3, <3>1
      <3>. QED  BY <1>11, <1>12, <3>2
    <2>. QED  BY <2>1, <2>2, <2>3
  <1>17. PICK w \in Nat : w = map_capacity_of(n)
    BY CapIs
  <1>18. (occ + 1) + t <= c
    BY <1>11, <1>16, <1>17
  <1>19. Cardinality(Occ(h, 0 .. n - 1)) = occ + 1
    BY <1>5, <1>7, <1>11
  <1>20. Tallied(h, n, occ + 1, t, l + 1, c, late)
    <2>1. occ + 1 \in Nat /\ l + 1 = occ + 1
      BY <1>11
    <2>2. t >= Cardinality(Vac(h, 0 .. n - 1)) /\ (~late => t = Cardinality(Vac(h, 0 .. n - 1)))
      BY <1>13, <1>16
    <2>. QED  BY <1>11, <1>16, <1>18, <1>19, <2>1, <2>2 DEF Tallied
  <1>. QED  BY <1>15, <1>20

\* The entries have moved to a table that holds nothing else.
LEMMA TallyRebuilt ==
  ASSUME NEW n \in Nat, NEW f, NEW occ, NEW tomb, NEW l, NEW c, NEW def, Tallied(f, n, occ, tomb, l, c, def),
         NEW m \in SlotCounts, NEW u, Carries(u, m, f, n), occ <= map_capacity_of(m), NEW late
  PROVE  Tallied(u.slots, m, occ, 0, l, map_capacity_of(m), late)
  <1>1. Cardinality(Occ(u.slots, 0 .. m - 1)) = occ
    BY DEF Carries, Tallied
  <1>2. Vac(u.slots, 0 .. m - 1) = {}
    BY DEF Carries, Vac
  <1>3. Cardinality(Vac(u.slots, 0 .. m - 1)) = 0
    BY <1>2, FS_EmptySet
  <1>4. occ \in Nat /\ l = occ
    BY DEF Tallied
  <1>5. PICK w \in Nat : w = map_capacity_of(m)
    BY CapacityFacts
  <1>6. occ + 0 <= w
    BY <1>4, <1>5
  <1>. QED  BY <1>1, <1>3, <1>4, <1>5, <1>6 DEF Tallied

\* No slot has changed kind.
LEMMA TallySame ==
  ASSUME NEW n \in Nat, NEW f, NEW occ, NEW tomb, NEW l, NEW c, NEW def, Tallied(f, n, occ, tomb, l, c, def), NEW h,
         \A i \in 0 .. n - 1 : h[i].ctl = "occupied" <=> f[i].ctl = "occupied",
         \A i \in 0 .. n - 1 : h[i].ctl \in {"tombstone", "value_owed"} <=> f[i].ctl \in {"tombstone", "value_owed"}
  PROVE  Tallied(h, n, occ, tomb, l, c, def)
  <1>1. Occ(h, 0 .. n - 1) = Occ(f, 0 .. n - 1)
    BY DEF Occ
  <1>2. Vac(h, 0 .. n - 1) = Vac(f, 0 .. n - 1)
    BY DEF Vac
  <1>. QED  BY <1>1, <1>2 DEF Tallied

\* No slot holds or held anything.
LEMMA TallyEmptied ==
  ASSUME NEW n \in {0} \cup SlotCounts, NEW h, \A i \in 0 .. n - 1 : h[i].ctl = "empty", NEW def
  PROVE  Tallied(h, n, 0, 0, 0, map_capacity_of(n), def)
  <1>1. Occ(h, 0 .. n - 1) = {} /\ Vac(h, 0 .. n - 1) = {}
    BY DEF Occ, Vac
  <1>2. Cardinality(Occ(h, 0 .. n - 1)) = 0 /\ Cardinality(Vac(h, 0 .. n - 1)) = 0
    BY <1>1, FS_EmptySet
  <1>3. map_capacity_of(n) \in Nat
    BY CapIs
  <1>. QED  BY <1>2, <1>3 DEF Tallied

-----------------------------------------------------------------------------
(* What the calls do to the ledger *)

\* The entries have moved; deferred code may have left an owed value behind.
LEMMA LedgerRebuilt ==
  ASSUME NEW n, NEW f, NEW sd, Good(f, sd, n), NEW own, NEW def, NEW ph, Ledger(f, n, own, def, ph),
         NEW m \in Nat, NEW u, Carries(u, m, f, n), NEW late, ~late => ~def /\ ph = "running"
  PROVE  Ledger(u.slots, m, own, late, ph)
  <1>1. PICK h : h = u.slots
    OBVIOUS
  <1>2. own \subseteq Key \cup Instance
    BY DEF Ledger
  <1>3. \A s \in 0 .. m - 1 : h[s].ctl \in {"empty", "occupied"}
    BY <1>1 DEF Carries
  <1>4. \A s, v \in 0 .. m - 1 : h[s].ctl = "occupied" /\ h[v].ctl = "occupied" /\ h[s].key = h[v].key => s = v
    BY <1>1 DEF Carries, TableOK
  <1>5. ASSUME NEW s \in 0 .. m - 1, NEW x, Claimed(h, s, x) PROVE x \in own
    <2>1. h[s].ctl = "occupied"
      BY <1>3, <1>5 DEF Claimed
    <2>2. PICK y \in 0 .. n - 1 : f[y] = h[s]
      BY <1>1, <2>1 DEF Carries
    <2>3. Claimed(f, y, x)
      BY <1>5, <2>2 DEF Claimed
    <2>. QED  BY <2>3 DEF Ledger
  <1>6. ASSUME ~late, NEW x \in own PROVE \E s \in 0 .. m - 1 : Claimed(h, s, x)
    <2>1. PICK y \in 0 .. n - 1 : Claimed(f, y, x)
      BY <1>6 DEF Ledger
    <2>2. f[y].ctl = "occupied"
      BY <1>6, <2>1 DEF Ledger, Claimed
    <2>3. PICK s \in 0 .. m - 1 : h[s] = f[y]
      BY <1>1, <2>2 DEF Carries
    <2>4. Claimed(h, s, x)
      BY <2>1, <2>3 DEF Claimed
    <2>. QED  BY <2>4
  <1>7. Ledger(h, m, own, late, ph)
    BY <1>2, <1>3, <1>4, <1>5, <1>6 DEF Ledger
  <1>. QED  BY <1>1, <1>7

\* A new entry, whose value the ledger does not have yet, has taken a free slot.
LEMMA LedgerPlaced ==
  ASSUME NEW n, NEW f, NEW sd, Good(f, sd, n), NEW own, NEW def, NEW ph, Ledger(f, n, own, def, ph),
         NEW k \in Key, NEW g \in Gen, <<k, g>> \notin own,
         NEW at \in 0 .. n - 1, f[at].ctl # "occupied", NEW h, h[at] = [ctl |-> "occupied", key |-> k, g |-> g],
         \A i \in 0 .. n - 1 : i # at => h[i] = f[i], NEW late, ~late => ~def /\ ph = "running"
  PROVE  Ledger(h, n, own \cup {k, <<k, g>>}, late, ph)
  <1>1. h[at].ctl = "occupied" /\ h[at].key = k /\ h[at].g = g
    OBVIOUS
  <1>2. own \cup {k, <<k, g>>} \subseteq Key \cup Instance
    BY DEF Ledger, Instance
  <1>3. ph = "running" => \A s \in 0 .. n - 1 : h[s].ctl # "value_owed"
    BY <1>1 DEF Ledger
  <1>4. \A s \in 0 .. n - 1 : f[s].ctl \in {"occupied", "value_owed"} => <<f[s].key, f[s].g>> \in own
    BY DEF Ledger, Claimed
  <1>5. ASSUME NEW s \in 0 .. n - 1, NEW v \in 0 .. n - 1,
               h[s].ctl \in {"occupied", "value_owed"}, h[v].ctl \in {"occupied", "value_owed"},
               h[s].key = h[v].key, h[s].g = h[v].g
        PROVE  s = v
    <2>1. CASE s # at /\ v # at
      BY <1>5, <2>1 DEF Ledger
    <2>2. CASE s = at /\ v # at
      <3>1. <<f[v].key, f[v].g>> \in own /\ <<f[v].key, f[v].g>> = <<k, g>>
        BY <1>1, <1>4, <1>5, <2>2
      <3>. QED  BY <3>1
    <2>3. CASE s # at /\ v = at
      <3>1. <<f[s].key, f[s].g>> \in own /\ <<f[s].key, f[s].g>> = <<k, g>>
        BY <1>1, <1>4, <1>5, <2>3
      <3>. QED  BY <3>1
    <2>. QED  BY <2>1, <2>2, <2>3
  <1>6. ASSUME NEW s \in 0 .. n - 1, NEW x, Claimed(h, s, x) PROVE x \in own \cup {k, <<k, g>>}
    <2>1. CASE s = at
      BY <1>1, <1>6, <2>1 DEF Claimed
    <2>2. CASE s # at
      <3>1. Claimed(f, s, x)
        BY <1>6, <2>2 DEF Claimed
      <3>. QED  BY <3>1 DEF Ledger
    <2>. QED  BY <2>1, <2>2
  <1>7. ASSUME ~late, NEW x \in own \cup {k, <<k, g>>} PROVE \E s \in 0 .. n - 1 : Claimed(h, s, x)
    <2>1. CASE x \in {k, <<k, g>>}
      <3>1. Claimed(h, at, x)
        BY <1>1, <2>1 DEF Claimed
      <3>. QED  BY <3>1
    <2>2. CASE x \in own
      <3>1. PICK s \in 0 .. n - 1 : Claimed(f, s, x)
        BY <1>7, <2>2 DEF Ledger
      <3>2. s # at
        BY <1>7, <3>1 DEF Ledger, Claimed
      <3>3. Claimed(h, s, x)
        BY <3>1, <3>2 DEF Claimed
      <3>. QED  BY <3>3
    <2>. QED  BY <2>1, <2>2
  <1>. QED  BY <1>2, <1>3, <1>5, <1>6, <1>7 DEF Ledger

\* Hooks or the caller have received `given`, and the slots have given up that much.
LEMMA LedgerShrunk ==
  ASSUME NEW n, NEW f, NEW own, NEW def, NEW ph, Ledger(f, n, own, def, ph), NEW h, NEW given, NEW next,
         \A i \in 0 .. n - 1 : h[i].ctl \in {"occupied", "value_owed"} =>
            f[i].ctl \in {"occupied", "value_owed"} /\ h[i].key = f[i].key /\ h[i].g = f[i].g,
         \A i \in 0 .. n - 1 : h[i].ctl = "occupied" => f[i].ctl = "occupied",
         \A i \in 0 .. n - 1 : \A x : Claimed(h, i, x) => x \notin given,
         \A i \in 0 .. n - 1 : \A x : Claimed(f, i, x) /\ x \notin given => Claimed(h, i, x),
         next = "running" => \A s \in 0 .. n - 1 : h[s].ctl # "value_owed"
  PROVE  Ledger(h, n, own \ given, def, next)
  <1>1. own \ given \subseteq Key \cup Instance
    BY DEF Ledger
  <1>2. ASSUME NEW s \in 0 .. n - 1, NEW v \in 0 .. n - 1,
               h[s].ctl \in {"occupied", "value_owed"}, h[v].ctl \in {"occupied", "value_owed"},
               h[s].key = h[v].key, h[s].g = h[v].g
        PROVE  s = v
    BY <1>2 DEF Ledger
  <1>3. ASSUME NEW s \in 0 .. n - 1, NEW x, Claimed(h, s, x) PROVE x \in own \ given
    <2>1. Claimed(f, s, x)
      BY <1>3 DEF Claimed
    <2>. QED  BY <1>3, <2>1 DEF Ledger
  <1>4. ASSUME ~def, NEW x \in own \ given PROVE \E s \in 0 .. n - 1 : Claimed(h, s, x)
    BY <1>4 DEF Ledger
  <1>. QED  BY <1>1, <1>2, <1>3, <1>4 DEF Ledger

\* Everything that was claimed has been given.
LEMMA LedgerEmptied ==
  ASSUME NEW n, NEW f, NEW own, NEW def, NEW ph, Ledger(f, n, own, def, ph), NEW m, NEW h, NEW given, NEW next,
         \A i \in 0 .. m - 1 : h[i].ctl = "empty",
         \A i \in 0 .. n - 1 : \A x : Claimed(f, i, x) => x \in given
  PROVE  Ledger(h, m, own \ given, def, next)
  BY DEF Ledger, Claimed

-----------------------------------------------------------------------------
(* What follows from the inductive invariant *)

\* The parts of the invariant that speak of the slots.
Kept(n) ==
    /\ Good(slots, seed, n)
    /\ Tallied(slots, n, occupied, tombstones, len, cap, deferred)
    /\ Ledger(slots, n, owned, deferred, phase)

\* The slots and how many they are.
LEMMA SlotsAre ==
  ASSUME NEW n, Kept(n)
  PROVE  /\ n \in Nat /\ n \in {0} \cup SlotCounts /\ slots \in [0 .. n - 1 -> Slot] /\ DOMAIN slots = 0 .. n - 1
         /\ slot_count = n /\ (NoTable <=> n = 0)
  <1>1. n \in Nat /\ n \in {0} \cup SlotCounts /\ slots \in [0 .. n - 1 -> Slot]
    BY GoodFacts DEF Kept
  <1>2. DOMAIN slots = 0 .. n - 1
    BY <1>1
  <1>3. slot_count = n
    BY <1>1, <1>2, SlotsNumber DEF slot_count
  <1>. QED  BY <1>1, <1>2, <1>3 DEF NoTable

\* map_probe finds a key that is there, and finds out that one is not.
LEMMA ProbeIs ==
  ASSUME NEW n, Kept(n), NEW k \in Key
  PROVE  \/ /\ map_probe(k) = -1
            /\ \A s \in 0 .. n - 1 : ~(slots[s].ctl = "occupied" /\ slots[s].key = k)
         \/ /\ map_probe(k) \in 0 .. n - 1 /\ map_probe(k) # -1
            /\ slots[map_probe(k)].ctl = "occupied" /\ slots[map_probe(k)].key = k
  <1>1. n \in Nat /\ n \in {0} \cup SlotCounts /\ slots \in [0 .. n - 1 -> Slot] /\ DOMAIN slots = 0 .. n - 1
    BY SlotsAre
  <1>2. PICK stops : stops = {s \in DOMAIN slots : \/ slots[s].ctl = "empty"
                                                   \/ slots[s].ctl = "occupied" /\ slots[s].key = k}
    OBVIOUS
  <1>3. PICK at : at = FirstIn(Current, k, stops)
    OBVIOUS
  <1>4. map_probe(k) = IF at = -1 THEN -1 ELSE IF slots[at].ctl = "empty" THEN -1 ELSE at
    BY <1>2, <1>3 DEF map_probe
  <1>5. CASE n = 0
    <2>1. 0 .. n - 1 = {}
      BY <1>5
    <2>2. DOMAIN Current.slots = {}
      BY <1>1, <2>1 DEF Current
    <2>3. {i \in DOMAIN Current.slots : Nth(Current, k, i) \in stops} = {}
      BY <2>2
    <2>4. at = -1
      BY <1>3, <2>3 DEF FirstIn
    <2>. QED  BY <1>4, <2>1, <2>4
  <1>6. CASE n # 0
    <2>1. n > 0 /\ n \in SlotCounts /\ TableOK(Current, n)
      BY <1>6, GoodFacts DEF Kept, Current
    <2>2. Current \in Tables(n) /\ Current.slots = slots
      BY <2>1 DEF TableOK, Current
    <2>3. PICK e \in 0 .. n - 1 : slots[e].ctl = "empty"
      BY <1>1, <2>1, EmptyLeft DEF Kept
    <2>4. stops \subseteq 0 .. n - 1 /\ stops # {}
      BY <1>1, <1>2, <2>3
    <2>5. PICK i \in 0 .. n - 1 : /\ FirstIn(Current, k, stops) = Nth(Current, k, i) /\ Nth(Current, k, i) \in stops
                                  /\ \A j \in 0 .. i - 1 : Nth(Current, k, j) \notin stops
      BY <1>1, <2>1, <2>2, <2>4, FirstInIs
    <2>6. at \in stops /\ at \in 0 .. n - 1 /\ at # -1 /\ at = Nth(Current, k, i)
      <3>1. at \in stops /\ at = Nth(Current, k, i)
        BY <1>3, <2>5
      <3>2. at \in 0 .. n - 1
        BY <2>4, <3>1
      <3>3. -1 \notin 0 .. n - 1
        BY <1>1
      <3>. QED  BY <3>1, <3>2, <3>3
    <2>7. CASE slots[at].ctl = "empty"
      <3>1. map_probe(k) = -1
        BY <1>4, <2>7
      <3>2. ASSUME NEW s \in 0 .. n - 1, slots[s].ctl = "occupied", slots[s].key = k PROVE FALSE
        <4>1. PICK j \in 0 .. n - 1 : Nth(Current, k, j) = s
          BY <1>1, <2>1, <2>2, NthOnto
        <4>2. s \in stops
          BY <1>1, <1>2, <3>2
        <4>3. j \notin 0 .. i - 1
          BY <2>5, <4>1, <4>2
        <4>4. j # i
          BY <2>6, <2>7, <3>2, <4>1
        <4>5. i \in 0 .. j - 1
          BY <4>3, <4>4
        <4>6. Current.slots[Nth(Current, Current.slots[s].key, i)].ctl # "empty"
          BY <2>1, <2>2, <3>2, <4>1, <4>5 DEF TableOK
        <4>. QED  BY <2>2, <2>6, <2>7, <3>2, <4>6
      <3>. QED  BY <3>1, <3>2
    <2>8. CASE slots[at].ctl # "empty"
      <3>1. map_probe(k) = at
        BY <1>4, <2>6, <2>8
      <3>2. slots[at].ctl = "occupied" /\ slots[at].key = k
        BY <1>2, <2>6, <2>8
      <3>. QED  BY <2>6, <3>1, <3>2
    <2>. QED  BY <2>7, <2>8
  <1>. QED  BY <1>5, <1>6

\* FindAgrees.
LEMMA KeptFinds ==
  ASSUME NEW n, Kept(n)
  PROVE  FindAgrees
  <1>. SUFFICES ASSUME NEW k \in Key, NEW holding,
                       holding = {s \in DOMAIN slots : slots[s].ctl = "occupied" /\ slots[s].key = k}
                PROVE  IF holding = {} THEN map_probe(k) = -1 ELSE holding = {map_probe(k)}
    BY DEF FindAgrees
  <1>1. DOMAIN slots = 0 .. n - 1
    BY SlotsAre
  <1>2. \A s, u \in 0 .. n - 1 :
          slots[s].ctl = "occupied" /\ slots[u].ctl = "occupied" /\ slots[s].key = slots[u].key => s = u
    BY GoodFacts DEF Kept, Movable
  <1>3. CASE map_probe(k) = -1 /\ \A s \in 0 .. n - 1 : ~(slots[s].ctl = "occupied" /\ slots[s].key = k)
    <2>1. holding = {}
      BY <1>1, <1>3
    <2>. QED  BY <1>3, <2>1
  <1>4. CASE /\ map_probe(k) \in 0 .. n - 1 /\ map_probe(k) # -1
             /\ slots[map_probe(k)].ctl = "occupied" /\ slots[map_probe(k)].key = k
    <2>1. PICK p \in 0 .. n - 1 : p = map_probe(k)
      BY <1>4
    <2>2. p \in holding
      BY <1>1, <1>4, <2>1
    <2>3. \A s \in holding : s = p
      BY <1>1, <1>2, <1>4, <2>1
    <2>4. holding = {p}
      BY <2>2, <2>3
    <2>. QED  BY <2>1, <2>4
  <1>. QED  BY <1>3, <1>4, ProbeIs

\* EmptyRemains.
LEMMA KeptHasRoom ==
  ASSUME NEW n, Kept(n)
  PROVE  EmptyRemains
  <1>1. /\ n \in {0} \cup SlotCounts /\ slots \in [0 .. n - 1 -> Slot] /\ DOMAIN slots = 0 .. n - 1
        /\ (NoTable <=> n = 0)
    BY SlotsAre
  <1>2. CASE n = 0
    BY <1>1, <1>2 DEF EmptyRemains
  <1>3. CASE n \in SlotCounts
    <2>1. \E s \in 0 .. n - 1 : slots[s].ctl = "empty"
      BY <1>1, <1>3, EmptyLeft DEF Kept
    <2>. QED  BY <1>1, <2>1 DEF EmptyRemains
  <1>. QED  BY <1>1, <1>2, <1>3

\* CountersMatch.
LEMMA KeptCounts ==
  ASSUME NEW n, Kept(n)
  PROVE  CountersMatch
  <1>1. /\ n \in Nat /\ DOMAIN slots = 0 .. n - 1 /\ slot_count = n /\ n \in {0} \cup SlotCounts
    BY SlotsAre
  <1>2. Entries(DOMAIN slots) = Cardinality(Occ(slots, 0 .. n - 1))
    BY <1>1 DEF Entries, Occ
  <1>3. {s \in DOMAIN slots : slots[s].ctl \in {"tombstone", "value_owed"}} = Vac(slots, 0 .. n - 1)
    BY <1>1 DEF Vac
  <1>4. /\ occupied \in Nat /\ tombstones \in Nat /\ occupied = Cardinality(Occ(slots, 0 .. n - 1)) /\ len = occupied
        /\ tombstones >= Cardinality(Vac(slots, 0 .. n - 1))
        /\ (~deferred => tombstones = Cardinality(Vac(slots, 0 .. n - 1)))
        /\ cap = map_capacity_of(n) /\ occupied + tombstones <= cap
    BY DEF Kept, Tallied
  <1>5. len <= cap
    <2>1. map_capacity_of(n) \in Nat
      BY <1>1, CapIs
    <2>. QED  BY <1>4, <2>1
  <1>. QED  BY <1>1, <1>2, <1>3, <1>4, <1>5 DEF CountersMatch

\* What the slots claim.
LEMMA HeldIs ==
  ASSUME NEW n, Kept(n), NEW x
  PROVE  /\ x \in Held <=> \E s \in 0 .. n - 1 : Claimed(slots, s, x)
         /\ AllGiven = Held
  <1>1. DOMAIN slots = 0 .. n - 1
    BY SlotsAre
  <1>2. ASSUME NEW s \in 0 .. n - 1
        PROVE  s \in Holding /\ x \in GivenUpTo(s, "elem") <=> Claimed(slots, s, x)
    BY <1>1 DEF Holding, GivenUpTo, Claimed
  <1>3. \A s \in Holding : s \in 0 .. n - 1
    BY <1>1 DEF Holding
  <1>4. x \in Held <=> \E s \in Holding : x \in GivenUpTo(s, "elem")
    BY DEF Held
  <1>5. AllGiven = Held
    BY DEF AllGiven, Held
  <1>. QED  BY <1>2, <1>3, <1>4, <1>5

\* map_scan stops at an occupied slot and walks on past another.
LEMMA ScanIs ==
  ASSUME NEW n, Kept(n)
  PROVE  /\ map_scan(n) = 0
         /\ \A c \in 0 .. n - 1 : slots[c].ctl = "occupied" => map_scan(c) = c + 1
         /\ \A c \in 0 .. n - 1 : slots[c].ctl # "occupied" => map_scan(c) = map_scan(c + 1)
  <1>1. n \in Nat /\ DOMAIN slots = 0 .. n - 1
    BY SlotsAre
  <1>. DEFINE at(c) == {s \in DOMAIN slots : s >= c /\ slots[s].ctl = "occupied"}
  <1>2. ASSUME NEW c PROVE map_scan(c) = IF at(c) = {} THEN 0 ELSE Least(at(c)) + 1
    BY DEF map_scan
  <1>3. map_scan(n) = 0
    <2>1. at(n) = {}
      BY <1>1
    <2>. HIDE DEF at
    <2>. QED  BY <1>2, <2>1
  <1>4. ASSUME NEW c \in 0 .. n - 1, slots[c].ctl = "occupied" PROVE map_scan(c) = c + 1
    <2>1. c \in at(c) /\ at(c) \subseteq Nat /\ \A s \in at(c) : s >= c
      BY <1>1, <1>4
    <2>. HIDE DEF at
    <2>2. PICK T : T = at(c)
      OBVIOUS
    <2>3. Least(T) \in T /\ \A m \in T : Least(T) <= m
      BY <2>1, <2>2, LeastIs
    <2>4. Least(T) = c
      BY <2>1, <2>2, <2>3
    <2>. QED  BY <1>2, <2>1, <2>2, <2>4
  <1>5. ASSUME NEW c \in 0 .. n - 1, slots[c].ctl # "occupied" PROVE map_scan(c) = map_scan(c + 1)
    <2>1. \A s \in DOMAIN slots : slots[s].ctl = "occupied" => (s >= c <=> s >= c + 1)
      BY <1>1, <1>5
    <2>2. at(c) = at(c + 1)
      BY <2>1
    <2>. HIDE DEF at
    <2>. QED  BY <1>2, <2>2
  <1>. QED  BY <1>3, <1>4, <1>5

\* A key put before a sequence of keys.
LEMMA Longer ==
  ASSUME NEW k \in Key, NEW q \in Seq(Key)
  PROVE  /\ <<k>> \o q \in Seq(Key) /\ Len(<<k>> \o q) = Len(q) + 1
         /\ \A x : (\E i \in 1 .. Len(q) + 1 : (<<k>> \o q)[i] = x) <=> (x = k \/ \E i \in 1 .. Len(q) : q[i] = x)
  <1>1. PICK p : p = <<k>> \o q
    OBVIOUS
  <1>2. p \in Seq(Key) /\ Len(p) = Len(q) + 1 /\ p[1] = k /\ \A i \in 2 .. Len(q) + 1 : p[i] = q[i - 1]
    BY <1>1
  <1>3. PICK L \in Nat : L = Len(q)
    OBVIOUS
  <1>4. ASSUME NEW x, NEW i \in 1 .. L + 1, p[i] = x PROVE x = k \/ \E j \in 1 .. L : q[j] = x
    <2>1. CASE i = 1
      BY <1>2, <1>4, <2>1
    <2>2. CASE i # 1
      <3>1. i - 1 \in 1 .. L /\ i \in 2 .. L + 1
        BY <2>2
      <3>2. q[i - 1] = x
        BY <1>2, <1>3, <1>4, <3>1
      <3>. QED  BY <3>1, <3>2
    <2>. QED  BY <2>1, <2>2
  <1>5. ASSUME NEW x, x = k \/ \E j \in 1 .. L : q[j] = x PROVE \E i \in 1 .. L + 1 : p[i] = x
    <2>1. CASE x = k
      <3>1. 1 \in 1 .. L + 1
        OBVIOUS
      <3>. QED  BY <1>2, <2>1, <3>1
    <2>2. CASE \E j \in 1 .. L : q[j] = x
      <3>1. PICK j \in 1 .. L : q[j] = x
        BY <2>2
      <3>2. j + 1 \in 1 .. L + 1 /\ j + 1 \in 2 .. L + 1 /\ (j + 1) - 1 = j
        OBVIOUS
      <3>3. p[j + 1] = x
        BY <1>2, <1>3, <3>1, <3>2
      <3>. QED  BY <3>2, <3>3
    <2>. QED  BY <1>5, <2>1, <2>2
  <1>6. \A x : (\E i \in 1 .. L + 1 : p[i] = x) <=> (x = k \/ \E j \in 1 .. L : q[j] = x)
    BY <1>4, <1>5
  <1>. QED  BY <1>1, <1>2, <1>3, <1>6

\* A walk over the slots from a cursor: the entry there, if any, then the rest.
Walks(g, n) ==
    /\ g[n] = <<>>
    /\ \A c \in 0 .. n - 1 : g[c] = IF slots[c].ctl = "occupied" THEN <<slots[c].key>> \o g[c + 1] ELSE g[c + 1]

\* There is a walk.
LEMMA WalkExists ==
  ASSUME NEW n, Kept(n)
  PROVE  \E g : DOMAIN g = 0 .. n /\ g = [c \in 0 .. n |-> g[c]] /\ Walks(g, n)
  <1>1. n \in Nat /\ slots \in [0 .. n - 1 -> Slot]
    BY SlotsAre
  <1>2. \A s \in 0 .. n - 1 : slots[s].ctl = "occupied" => slots[s].key \in Key
    BY GoodFacts DEF Kept
  <1>3. PICK d : d = [p \in Nat \X Seq(Key) |->
                        IF p[1] \in 1 .. n THEN (IF slots[n - p[1]].ctl = "occupied"
                                                 THEN <<slots[n - p[1]].key>> \o p[2] ELSE p[2])
                        ELSE p[2]]
    OBVIOUS
  <1>4. d \in [Nat \X Seq(Key) -> Seq(Key)]
    <2>1. ASSUME NEW p \in Nat \X Seq(Key)
          PROVE  (IF p[1] \in 1 .. n THEN (IF slots[n - p[1]].ctl = "occupied"
                                           THEN <<slots[n - p[1]].key>> \o p[2] ELSE p[2])
                  ELSE p[2]) \in Seq(Key)
      <3>1. p[2] \in Seq(Key) /\ p[1] \in Nat
        OBVIOUS
      <3>2. CASE p[1] \in 1 .. n /\ slots[n - p[1]].ctl = "occupied"
        <4>1. n - p[1] \in 0 .. n - 1
          BY <1>1, <3>2
        <4>2. slots[n - p[1]].key \in Key
          BY <1>2, <3>2, <4>1
        <4>3. <<slots[n - p[1]].key>> \o p[2] \in Seq(Key)
          BY <3>1, <4>2, Longer
        <4>. QED  BY <3>2, <4>3
      <3>. QED  BY <3>1, <3>2
    <2>. QED  BY <1>3, <2>1
  <1>5. PICK e : e = <<>> /\ e \in Seq(Key)
    <2>1. <<>> \in Seq(Key)
      OBVIOUS
    <2>. QED  BY <2>1
  <1>6. Recursive(Seq(Key), e, d)
    BY ONLY <1>4, <1>5, Recursion
  <1>7. PICK w \in [Nat -> Seq(Key)] : w[0] = e /\ \A i \in Nat : w[i + 1] = d[<<i + 1, w[i]>>]
    BY <1>6 DEF Recursive
  <1>8. PICK g : g = [c \in 0 .. n |-> w[n - c]]
    OBVIOUS
  <1>9. g[n] = <<>>
    <2>1. n \in 0 .. n /\ n - n = 0
      BY <1>1
    <2>. QED  BY <1>5, <1>7, <1>8, <2>1
  <1>10. ASSUME NEW c \in 0 .. n - 1
         PROVE  g[c] = IF slots[c].ctl = "occupied" THEN <<slots[c].key>> \o g[c + 1] ELSE g[c + 1]
    <2>1. PICK i \in Nat : i = n - c - 1
      <3>1. n - c - 1 \in Nat
        BY <1>1
      <3>. QED  BY <3>1
    <2>2. /\ i + 1 \in 1 .. n /\ n - (i + 1) = c /\ n - c = i + 1 /\ n - (c + 1) = i
          /\ c \in 0 .. n /\ c + 1 \in 0 .. n
      BY <1>1, <2>1
    <2>3. g[c] = w[i + 1] /\ g[c + 1] = w[i]
      BY <1>8, <2>2
    <2>4. PICK p : p = <<i + 1, w[i]>>
      OBVIOUS
    <2>5. p \in Nat \X Seq(Key) /\ p[1] = i + 1 /\ p[2] = w[i]
      <3>1. i + 1 \in Nat
        OBVIOUS
      <3>2. w[i] \in Seq(Key)
        OBVIOUS
      <3>3. p[1] = i + 1 /\ p[2] = w[i]
        BY ONLY <2>4
      <3>4. p \in Nat \X Seq(Key)
        BY <2>4, <3>1, <3>2, Zenon
      <3>. QED  BY <3>3, <3>4
    <2>6. d[p] = IF p[1] \in 1 .. n THEN (IF slots[n - p[1]].ctl = "occupied"
                                          THEN <<slots[n - p[1]].key>> \o p[2] ELSE p[2])
                 ELSE p[2]
      BY <1>3, <2>5
    <2>7. d[p] = IF slots[c].ctl = "occupied" THEN <<slots[c].key>> \o w[i] ELSE w[i]
      BY <2>2, <2>5, <2>6
    <2>8. w[i + 1] = d[p]
      BY <1>7, <2>4
    <2>. QED  BY <2>3, <2>7, <2>8
  <1>11. DOMAIN g = 0 .. n /\ g = [c \in 0 .. n |-> g[c]]
    BY <1>8
  <1>. QED  BY <1>9, <1>10, <1>11 DEF Walks

\* q has the keys of the entries of the slots D, as many as there are.
Met(q, D) ==
    /\ q \in Seq(Key) /\ Len(q) = Cardinality(Occ(slots, D))
    /\ \A x : (\E i \in 1 .. Len(q) : q[i] = x) <=> \E s \in Occ(slots, D) : slots[s].key = x

\* Every walk meets each entry once.
LEMMA WalkMeets ==
  ASSUME NEW n, Kept(n), NEW g, Walks(g, n)
  PROVE  Met(g[0], 0 .. n - 1)
  <1>1. n \in Nat /\ slots \in [0 .. n - 1 -> Slot]
    BY SlotsAre
  <1>2. \A s \in 0 .. n - 1 : slots[s].ctl = "occupied" => slots[s].key \in Key
    BY GoodFacts DEF Kept
  <1>. DEFINE Meets(q, c) ==
          /\ q \in Seq(Key) /\ Len(q) = Cardinality(Occ(slots, c .. n - 1))
          /\ \A x : (\E i \in 1 .. Len(q) : q[i] = x) <=> \E s \in Occ(slots, c .. n - 1) : slots[s].key = x
  <1>3. PICK S : S = {i \in Nat : i <= n => Meets(g[n - i], n - i)}
    OBVIOUS
  <1>4. 0 \in S
    <2>1. n - 0 = n /\ n .. n - 1 = {}
      BY <1>1
    <2>2. Occ(slots, n .. n - 1) = {}
      BY <2>1 DEF Occ
    <2>3. PICK q : q = g[n]
      OBVIOUS
    <2>4. q = <<>>
      BY <2>3 DEF Walks
    <2>5. q \in Seq(Key) /\ Len(q) = 0 /\ 1 .. Len(q) = {}
      BY <2>4
    <2>6. Cardinality(Occ(slots, n .. n - 1)) = 0
      BY <2>2, FS_EmptySet
    <2>7. Meets(q, n)
      BY <2>2, <2>5, <2>6
    <2>8. Meets(g[n - 0], n - 0)
      BY <2>1, <2>3, <2>7
    <2>. HIDE DEF Meets
    <2>. QED  BY <1>3, <2>8
  <1>5. ASSUME NEW i \in Nat, i \in S PROVE i + 1 \in S
    <2>1. CASE ~(i + 1 <= n)
      <3>. HIDE DEF Meets
      <3>. QED  BY <1>3, <2>1
    <2>2. CASE i + 1 <= n
      <3>1. PICK c \in 0 .. n - 1 : c = n - (i + 1) /\ c + 1 = n - i
        <4>1. n - (i + 1) \in 0 .. n - 1 /\ n - (i + 1) + 1 = n - i
          BY <1>1, <2>2
        <4>. QED  BY <4>1
      <3>2. PICK q : q = g[c + 1]
        OBVIOUS
      <3>3. PICK p : p = g[c]
        OBVIOUS
      <3>4. Meets(q, c + 1)
        <4>. HIDE DEF Meets
        <4>1. Meets(g[n - i], n - i)
          BY <1>1, <1>3, <1>5, <2>2
        <4>. QED  BY <3>1, <3>2, <4>1
      <3>5. \A y : y \in c .. n - 1 <=> y = c \/ y \in (c + 1) .. n - 1
        BY <1>1
      <3>6. CASE slots[c].ctl = "occupied"
        <4>1. PICK k \in Key : k = slots[c].key
          BY <1>2, <3>6
        <4>2. p = <<k>> \o q
          BY <3>2, <3>3, <3>6, <4>1 DEF Walks
        <4>3. PICK B : B = Occ(slots, (c + 1) .. n - 1)
          OBVIOUS
        <4>4. Occ(slots, c .. n - 1) = B \cup {c} /\ c \notin B
          <5>1. c \notin (c + 1) .. n - 1
            OBVIOUS
          <5>. QED  BY <3>5, <3>6, <4>3, <5>1 DEF Occ
        <4>5. IsFiniteSet(B) /\ Cardinality(B) \in Nat
          <5>1. (c + 1) .. n - 1 \subseteq 0 .. n - 1
            BY <1>1
          <5>. QED  BY <1>1, <4>3, <5>1, OccFinite
        <4>6. Cardinality(B \cup {c}) = Cardinality(B) + 1
          BY <4>4, <4>5, FS_AddElement
        <4>7. /\ p \in Seq(Key) /\ Len(p) = Len(q) + 1
              /\ \A x : (\E j \in 1 .. Len(q) + 1 : p[j] = x) <=> (x = k \/ \E j \in 1 .. Len(q) : q[j] = x)
          <5>1. k \in Key /\ q \in Seq(Key)
            BY <3>4
          <5>2. /\ <<k>> \o q \in Seq(Key) /\ Len(<<k>> \o q) = Len(q) + 1
                /\ \A x : (\E j \in 1 .. Len(q) + 1 : (<<k>> \o q)[j] = x) <=> (x = k \/ \E j \in 1 .. Len(q) : q[j] = x)
            BY ONLY <5>1, Longer, Zenon
          <5>. QED  BY <4>2, <5>2, Zenon
        <4>8. Len(p) = Cardinality(Occ(slots, c .. n - 1))
          <5>1. Len(q) = Cardinality(B)
            BY <3>4, <4>3
          <5>. QED  BY <4>4, <4>6, <4>7, <5>1
        <4>9. ASSUME NEW x
              PROVE (\E j \in 1 .. Len(p) : p[j] = x) <=> \E s \in Occ(slots, c .. n - 1) : slots[s].key = x
          <5>1. (\E j \in 1 .. Len(q) : q[j] = x) <=> \E s \in B : slots[s].key = x
            BY <3>4, <4>3
          <5>2. (\E s \in B \cup {c} : slots[s].key = x) <=> (x = k \/ \E s \in B : slots[s].key = x)
            BY <4>1
          <5>3. (\E j \in 1 .. Len(q) + 1 : p[j] = x) <=> (x = k \/ \E j \in 1 .. Len(q) : q[j] = x)
            BY <4>7
          <5>. QED  BY <4>4, <4>7, <5>1, <5>2, <5>3, Zenon
        <4>10. Meets(p, c)
          BY <4>7, <4>8, <4>9
        <4>11. Meets(g[n - (i + 1)], n - (i + 1))
          <5>. HIDE DEF Meets
          <5>. QED  BY <3>1, <3>3, <4>10
        <4>. HIDE DEF Meets
        <4>. QED  BY <1>3, <4>11
      <3>7. CASE slots[c].ctl # "occupied"
        <4>1. p = q
          BY <3>2, <3>3, <3>7 DEF Walks
        <4>2. Occ(slots, c .. n - 1) = Occ(slots, (c + 1) .. n - 1)
          BY <3>5, <3>7 DEF Occ
        <4>3. Meets(p, c)
          BY <3>4, <4>1, <4>2
        <4>4. Meets(g[n - (i + 1)], n - (i + 1))
          <5>. HIDE DEF Meets
          <5>. QED  BY <3>1, <3>3, <4>3
        <4>. HIDE DEF Meets
        <4>. QED  BY <1>3, <4>4
      <3>. QED  BY <3>6, <3>7
    <2>. QED  BY <2>1, <2>2
  <1>6. n \in S
    <2>. HIDE DEF Meets
    <2>. QED  BY <1>1, <1>4, <1>5, Inductive
  <1>7. Meets(g[0], 0)
    <2>. HIDE DEF Meets
    <2>1. n - n = 0 /\ n <= n
      BY <1>1
    <2>2. Meets(g[n - n], n - n)
      BY <1>3, <1>6, <2>1
    <2>. QED  BY <2>1, <2>2
  <1>. QED  BY <1>7 DEF Met

\* ScanVisitsEach.
LEMMA KeptScans ==
  ASSUME NEW n, Kept(n)
  PROVE  ScanVisitsEach
  <1>. DEFINE step(g, c) == IF map_scan(c) = 0 THEN <<>> ELSE <<slots[map_scan(c) - 1].key>> \o g[map_scan(c)]
              eqn(g) == g = [c \in 0 .. slot_count |-> step(g, c)]
  <1>1. n \in Nat /\ slot_count = n
    BY SlotsAre
  <1>2. PICK g0 : DOMAIN g0 = 0 .. n /\ g0 = [c \in 0 .. n |-> g0[c]] /\ Walks(g0, n)
    BY WalkExists
  <1>3. PICK S : S = {i \in Nat : i <= n => g0[n - i] = step(g0, n - i)}
    OBVIOUS
  <1>4. 0 \in S
    <2>1. n - 0 = n
      BY <1>1
    <2>2. g0[n] = step(g0, n)
      BY <1>2, ScanIs DEF Walks
    <2>. HIDE DEF step
    <2>. QED  BY <1>3, <2>1, <2>2
  <1>5. ASSUME NEW i \in Nat, i \in S PROVE i + 1 \in S
    <2>1. CASE ~(i + 1 <= n)
      <3>. HIDE DEF step
      <3>. QED  BY <1>3, <2>1
    <2>2. CASE i + 1 <= n
      <3>1. PICK c \in 0 .. n - 1 : c = n - (i + 1) /\ c + 1 = n - i
        <4>1. n - (i + 1) \in 0 .. n - 1 /\ n - (i + 1) + 1 = n - i
          BY <1>1, <2>2
        <4>. QED  BY <4>1
      <3>2. g0[c + 1] = step(g0, c + 1)
        <4>. HIDE DEF step
        <4>1. g0[n - i] = step(g0, n - i)
          BY <1>1, <1>3, <1>5, <2>2
        <4>. QED  BY <3>1, <4>1
      <3>3. g0[c] = IF slots[c].ctl = "occupied" THEN <<slots[c].key>> \o g0[c + 1] ELSE g0[c + 1]
        BY <1>2 DEF Walks
      <3>4. g0[c] = step(g0, c)
        <4>1. CASE slots[c].ctl = "occupied"
          <5>1. map_scan(c) = c + 1 /\ c + 1 # 0 /\ (c + 1) - 1 = c
            BY <4>1, ScanIs
          <5>2. g0[c] = <<slots[c].key>> \o g0[c + 1]
            BY <3>3, <4>1
          <5>. QED  BY <5>1, <5>2
        <4>2. CASE slots[c].ctl # "occupied"
          <5>1. map_scan(c) = map_scan(c + 1)
            BY <4>2, ScanIs
          <5>2. g0[c] = g0[c + 1]
            BY <3>3, <4>2
          <5>. QED  BY <3>2, <5>1, <5>2
        <4>. QED  BY <4>1, <4>2
      <3>. HIDE DEF step
      <3>5. g0[n - (i + 1)] = step(g0, n - (i + 1))
        BY <3>1, <3>4
      <3>. QED  BY <1>3, <3>5
    <2>. QED  BY <2>1, <2>2
  <1>6. \A i \in Nat : i \in S
    BY <1>4, <1>5, Inductive
  <1>7. ASSUME NEW c \in 0 .. n PROVE g0[c] = step(g0, c)
    <2>. HIDE DEF step
    <2>1. PICK i \in Nat : i = n - c
      <3>1. n - c \in Nat
        BY <1>1
      <3>. QED  BY <3>1
    <2>2. n - i = c /\ i <= n
      BY <1>1, <2>1
    <2>3. g0[n - i] = step(g0, n - i)
      BY <1>3, <1>6, <2>2
    <2>. QED  BY <2>2, <2>3
  <1>8. eqn(g0)
    <2>. HIDE DEF step
    <2>1. g0 = [c \in 0 .. n |-> step(g0, c)]
      BY <1>2, <1>7
    <2>. QED  BY <1>1, <2>1
  <1>9. PICK g : g = CHOOSE h : eqn(h)
    OBVIOUS
  <1>10. eqn(g)
    <2>. HIDE DEF eqn
    <2>. QED  BY <1>8, <1>9, Zenon
  <1>11. ASSUME NEW c \in 0 .. n PROVE g[c] = step(g, c)
    <2>. HIDE DEF step
    <2>. QED  BY <1>1, <1>10
  <1>12. Walks(g, n)
    <2>1. g[n] = <<>>
      <3>1. n \in 0 .. n
        BY <1>1
      <3>2. g[n] = step(g, n)
        BY <1>11, <3>1
      <3>. QED  BY <3>2, ScanIs
    <2>2. ASSUME NEW c \in 0 .. n - 1
          PROVE  g[c] = IF slots[c].ctl = "occupied" THEN <<slots[c].key>> \o g[c + 1] ELSE g[c + 1]
      <3>1. c \in 0 .. n /\ c + 1 \in 0 .. n
        BY <1>1
      <3>2. g[c] = step(g, c) /\ g[c + 1] = step(g, c + 1)
        BY <1>11, <3>1
      <3>3. CASE slots[c].ctl = "occupied"
        <4>1. map_scan(c) = c + 1 /\ c + 1 # 0 /\ (c + 1) - 1 = c
          BY <3>3, ScanIs
        <4>2. g[c] = <<slots[c].key>> \o g[c + 1]
          BY <3>2, <4>1
        <4>. QED  BY <3>3, <4>2
      <3>4. CASE slots[c].ctl # "occupied"
        <4>1. map_scan(c) = map_scan(c + 1)
          BY <3>4, ScanIs
        <4>2. g[c] = g[c + 1]
          BY <3>2, <4>1
        <4>. QED  BY <3>4, <4>2
      <3>. QED  BY <3>3, <3>4
    <2>. QED  BY <2>1, <2>2 DEF Walks
  <1>13. PICK visited : visited = g[0]
    OBVIOUS
  <1>14. /\ visited \in Seq(Key) /\ Len(visited) = Cardinality(Occ(slots, 0 .. n - 1))
         /\ \A x : (\E i \in 1 .. Len(visited) : visited[i] = x) <=> \E s \in Occ(slots, 0 .. n - 1) : slots[s].key = x
    <2>1. Met(visited, 0 .. n - 1)
      BY <1>12, <1>13, WalkMeets
    <2>. QED  BY <2>1, Zenon DEF Met
  <1>15. Len(visited) = len
    BY <1>14 DEF Kept, Tallied
  <1>16. ASSUME NEW x
         PROVE  x \in {visited[i] : i \in 1 .. Len(visited)} <=> x \in {k \in Key : map_probe(k) # -1}
    <2>1. x \in {visited[i] : i \in 1 .. Len(visited)} <=> \E s \in Occ(slots, 0 .. n - 1) : slots[s].key = x
      <3>1. x \in {visited[i] : i \in 1 .. Len(visited)} <=> \E i \in 1 .. Len(visited) : visited[i] = x
        OBVIOUS
      <3>. QED  BY <1>14, <3>1
    <2>2. \A s \in 0 .. n - 1 : slots[s].ctl = "occupied" => slots[s].key \in Key
      BY GoodFacts DEF Kept
    <2>3. (\E s \in Occ(slots, 0 .. n - 1) : slots[s].key = x) <=> x \in Key /\ map_probe(x) # -1
      <3>1. ASSUME NEW s \in Occ(slots, 0 .. n - 1), slots[s].key = x PROVE x \in Key /\ map_probe(x) # -1
        <4>1. s \in 0 .. n - 1 /\ slots[s].ctl = "occupied"
          BY DEF Occ
        <4>2. x \in Key
          BY <2>2, <3>1, <4>1
        <4>. QED  BY <3>1, <4>1, <4>2, ProbeIs
      <3>2. ASSUME x \in Key, map_probe(x) # -1 PROVE \E s \in Occ(slots, 0 .. n - 1) : slots[s].key = x
        <4>1. PICK p : p = map_probe(x)
          OBVIOUS
        <4>2. p \in 0 .. n - 1 /\ slots[p].ctl = "occupied" /\ slots[p].key = x
          BY <3>2, <4>1, ProbeIs
        <4>. QED  BY <4>2 DEF Occ
      <3>. QED  BY <3>1, <3>2
    <2>. QED  BY <2>1, <2>3
  <1>17. {visited[i] : i \in 1 .. Len(visited)} = {k \in Key : map_probe(k) # -1}
    BY <1>16
  <1>. QED  BY <1>9, <1>13, <1>15, <1>17 DEF ScanVisitsEach

\* The inductive invariant gives the map's invariant, and that nothing is lost.
LEMMA KeptIsInv ==
  ASSUME MapKept
  PROVE  Inv /\ NothingLost
  <1>1. PICK n \in {0} \cup SlotCounts : Kept(n)
    BY DEF MapKept, Kept
  <1>2. /\ n \in Nat /\ slots \in [0 .. n - 1 -> Slot] /\ seed \in Seeds \cup {NoSeed}
    BY <1>1, GoodFacts DEF Kept
  <1>3. TypeOK
    <2>1. /\ occupied \in Nat /\ tombstones \in Nat /\ len \in Nat /\ cap \in Nat
      <3>1. map_capacity_of(n) \in Nat
        BY CapIs
      <3>. QED  BY <1>1, <3>1 DEF Kept, Tallied
    <2>2. owned \subseteq Key \cup Instance
      BY <1>1 DEF Kept, Ledger
    <2>3. bound \in BOOLEAN /\ deferred \in BOOLEAN
      BY DEF MapKept, Flags
    <2>4. phase \in {"running", "unwinding", "ended"} /\ answer \in {"ok", "refused", "panicked"}
      BY DEF MapKept, Flags
    <2>. QED  BY <1>2, <2>1, <2>2, <2>3, <2>4 DEF TypeOK
  <1>4. NoDoubleDrop
    <2>1. ASSUME NEW x \in Held PROVE x \in owned
      BY <1>1, <2>1, HeldIs DEF Kept, Ledger
    <2>. QED  BY <2>1 DEF NoDoubleDrop
  <1>5. NothingLost
    <2>1. ASSUME ~deferred, NEW x \in owned PROVE x \in Held
      <3>1. \E s \in 0 .. n - 1 : Claimed(slots, s, x)
        BY <1>1, <2>1 DEF Kept, Ledger
      <3>. QED  BY <1>1, <3>1, HeldIs
    <2>. QED  BY <2>1 DEF NothingLost
  <1>6. FindAgrees /\ EmptyRemains /\ CountersMatch /\ ScanVisitsEach
    BY <1>1, KeptFinds, KeptHasRoom, KeptCounts, KeptScans
  <1>. QED  BY <1>3, <1>4, <1>5, <1>6 DEF Inv

-----------------------------------------------------------------------------
(* The function that a table stands for *)

\* What the refinement maps the slots f to.
Contents(f) ==
    LET live == {s \in DOMAIN f : f[s].ctl = "occupied"} IN
    [k \in {f[s].key : s \in live} |->
        LET s == CHOOSE i \in live : f[i].key = k IN <<k, f[s].g>>]

\* c is a function on the keys of the entries of f, to their values.
StandsFor(c, f, n) ==
    /\ c = [k \in DOMAIN c |-> c[k]]
    /\ \A k : k \in DOMAIN c <=> \E s \in 0 .. n - 1 : f[s].ctl = "occupied" /\ f[s].key = k
    /\ \A s \in 0 .. n - 1 : f[s].ctl = "occupied" => c[f[s].key] = <<f[s].key, f[s].g>>

\* A step of AbstractMap.
Turns(c, d) ==
    \/ \E k \in Key, v \in Instance : d = [j \in DOMAIN c \cup {k} |-> IF j = k THEN v ELSE c[j]]
    \/ \E gone \in SUBSET DOMAIN c : d = [k \in (DOMAIN c) \ gone |-> c[k]]
    \/ d \in [DOMAIN c -> Instance]

\* The keys of the entries are mapped to their values.
LEMMA ContentsAre ==
  ASSUME NEW n, NEW f, Movable(f, n)
  PROVE  StandsFor(Contents(f), f, n)
  <1>1. DOMAIN f = 0 .. n - 1
    BY DEF Movable
  <1>2. PICK live : live = {s \in DOMAIN f : f[s].ctl = "occupied"}
    OBVIOUS
  <1>3. PICK c : c = Contents(f)
    OBVIOUS
  <1>4. c = [k \in {f[s].key : s \in live} |-> <<k, f[CHOOSE i \in live : f[i].key = k].g>>]
    BY <1>2, <1>3 DEF Contents
  <1>5. c = [k \in DOMAIN c |-> c[k]]
    <2>. DEFINE val(k) == <<k, f[CHOOSE i \in live : f[i].key = k].g>>
    <2>1. c = [k \in {f[s].key : s \in live} |-> val(k)]
      BY <1>4
    <2>. HIDE DEF val
    <2>. QED  BY <2>1
  <1>6. ASSUME NEW k PROVE k \in DOMAIN c <=> \E s \in 0 .. n - 1 : f[s].ctl = "occupied" /\ f[s].key = k
    <2>1. DOMAIN c = {f[s].key : s \in live}
      BY <1>4
    <2>2. k \in DOMAIN c <=> \E s \in live : f[s].key = k
      BY <2>1
    <2>. QED  BY <1>1, <1>2, <2>2
  <1>7. ASSUME NEW s \in 0 .. n - 1, f[s].ctl = "occupied" PROVE c[f[s].key] = <<f[s].key, f[s].g>>
    <2>1. PICK k : k = f[s].key
      OBVIOUS
    <2>2. s \in live /\ \A i \in live : f[i].key = k => i = s
      BY <1>1, <1>2, <1>7, <2>1 DEF Movable
    <2>3. PICK p : p = CHOOSE i \in live : f[i].key = k
      OBVIOUS
    <2>4. p \in live /\ f[p].key = k
      BY <2>1, <2>2, <2>3, Zenon
    <2>5. p = s
      BY <2>2, <2>4
    <2>6. k \in {f[i].key : i \in live}
      BY <2>1, <2>2
    <2>7. c[k] = <<k, f[p].g>>
      BY <1>4, <2>3, <2>6
    <2>. QED  BY <2>1, <2>5, <2>7
  <1>8. StandsFor(c, f, n)
    BY <1>5, <1>6, <1>7 DEF StandsFor
  <1>. QED  BY <1>3, <1>8

\* Only one function does.
LEMMA StandsOnce ==
  ASSUME NEW n, NEW f, NEW c, NEW d, StandsFor(c, f, n), StandsFor(d, f, n)
  PROVE  c = d
  <1>1. DOMAIN c = DOMAIN d
    <2>1. \A k : k \in DOMAIN c <=> k \in DOMAIN d
      BY DEF StandsFor
    <2>. QED  BY <2>1
  <1>2. ASSUME NEW k \in DOMAIN c PROVE c[k] = d[k]
    <2>1. PICK s \in 0 .. n - 1 : f[s].ctl = "occupied" /\ f[s].key = k
      BY DEF StandsFor
    <2>. QED  BY <2>1 DEF StandsFor
  <1>3. c = [k \in DOMAIN c |-> c[k]] /\ d = [k \in DOMAIN d |-> d[k]]
    BY DEF StandsFor
  <1>4. [k \in DOMAIN c |-> c[k]] = [k \in DOMAIN c |-> d[k]]
    BY <1>2
  <1>. QED  BY <1>1, <1>3, <1>4, Zenon

\* Its values are values.
LEMMA StandsType ==
  ASSUME NEW n, NEW f, Movable(f, n), NEW c, StandsFor(c, f, n)
  PROVE  c \in [DOMAIN c -> Instance]
  <1>1. ASSUME NEW k \in DOMAIN c PROVE c[k] \in Instance
    <2>1. PICK s \in 0 .. n - 1 : f[s].ctl = "occupied" /\ f[s].key = k
      BY DEF StandsFor
    <2>2. f[s] \in Slot /\ f[s].key \in Key
      BY <2>1 DEF Movable
    <2>3. f[s].g \in Gen
      BY <2>2 DEF Slot
    <2>4. c[k] = <<f[s].key, f[s].g>>
      BY <2>1 DEF StandsFor
    <2>. QED  BY <2>2, <2>3, <2>4 DEF Instance
  <1>2. c = [k \in DOMAIN c |-> c[k]]
    BY DEF StandsFor
  <1>. QED  BY <1>1, <1>2

\* A rebuild changes nothing.
LEMMA TurnRebuilt ==
  ASSUME NEW n, NEW f, Movable(f, n), NEW m, NEW u, Carries(u, m, f, n), Movable(u.slots, m)
  PROVE  Contents(u.slots) = Contents(f)
  <1>1. PICK c : c = Contents(u.slots) /\ StandsFor(c, u.slots, m)
    BY ContentsAre
  <1>2. c = [k \in DOMAIN c |-> c[k]]
    BY <1>1 DEF StandsFor
  <1>3. ASSUME NEW s \in 0 .. n - 1, f[s].ctl = "occupied" PROVE f[s].key \in DOMAIN c /\ c[f[s].key] = <<f[s].key, f[s].g>>
    <2>1. PICK x \in 0 .. m - 1 : u.slots[x] = f[s]
      BY <1>3 DEF Carries
    <2>. QED  BY <1>1, <1>3, <2>1 DEF StandsFor
  <1>4. ASSUME NEW k \in DOMAIN c PROVE \E s \in 0 .. n - 1 : f[s].ctl = "occupied" /\ f[s].key = k
    <2>1. PICK x \in 0 .. m - 1 : u.slots[x].ctl = "occupied" /\ u.slots[x].key = k
      BY <1>1 DEF StandsFor
    <2>2. PICK y \in 0 .. n - 1 : f[y] = u.slots[x]
      BY <2>1 DEF Carries
    <2>. QED  BY <2>1, <2>2
  <1>5. StandsFor(c, f, n)
    BY <1>2, <1>3, <1>4 DEF StandsFor
  <1>6. StandsFor(Contents(f), f, n)
    BY ContentsAre
  <1>. QED  BY <1>1, <1>5, <1>6, StandsOnce

\* A step that changes nothing.
LEMMA TurnNone ==
  ASSUME NEW n, NEW f, Movable(f, n)
  PROVE  Turns(Contents(f), Contents(f))
  <1>1. Contents(f) \in [DOMAIN Contents(f) -> Instance]
    BY ContentsAre, StandsType
  <1>. QED  BY <1>1 DEF Turns

\* An entry is new, or has a new value.
LEMMA TurnPlaced ==
  ASSUME NEW n, NEW f, Movable(f, n), NEW h, Movable(h, n), NEW k \in Key, NEW g \in Gen, NEW at \in 0 .. n - 1,
         h[at].ctl = "occupied", h[at].key = k, h[at].g = g,
         \A i \in 0 .. n - 1 : i # at => h[i] = f[i],
         f[at].ctl = "occupied" => f[at].key = k
  PROVE  Turns(Contents(f), Contents(h))
  <1>1. PICK c : c = Contents(f) /\ StandsFor(c, f, n)
    BY ContentsAre
  <1>2. PICK v \in Instance : v = <<k, g>>
    BY DEF Instance
  <1>3. PICK d : d = [j \in DOMAIN c \cup {k} |-> IF j = k THEN v ELSE c[j]]
    OBVIOUS
  <1>4. DOMAIN d = DOMAIN c \cup {k} /\ d = [j \in DOMAIN d |-> d[j]]
    BY <1>3
  <1>5. ASSUME NEW s \in 0 .. n - 1, h[s].ctl = "occupied"
        PROVE  h[s].key \in DOMAIN d /\ d[h[s].key] = <<h[s].key, h[s].g>>
    <2>1. CASE s = at
      BY <1>2, <1>3, <1>4, <2>1
    <2>2. CASE s # at
      <3>1. f[s] = h[s] /\ h[s].key # k
        BY <1>5, <2>2 DEF Movable
      <3>2. h[s].key \in DOMAIN c /\ c[h[s].key] = <<h[s].key, h[s].g>>
        BY <1>1, <1>5, <3>1 DEF StandsFor
      <3>. QED  BY <1>3, <1>4, <3>1, <3>2
    <2>. QED  BY <2>1, <2>2
  <1>6. ASSUME NEW j \in DOMAIN d PROVE \E s \in 0 .. n - 1 : h[s].ctl = "occupied" /\ h[s].key = j
    <2>1. CASE j = k
      BY <2>1
    <2>2. CASE j # k
      <3>1. j \in DOMAIN c
        BY <1>4, <2>2
      <3>2. PICK s \in 0 .. n - 1 : f[s].ctl = "occupied" /\ f[s].key = j
        BY <1>1, <3>1 DEF StandsFor
      <3>3. s # at
        BY <2>2, <3>2
      <3>. QED  BY <3>2, <3>3
    <2>. QED  BY <2>1, <2>2
  <1>7. StandsFor(d, h, n)
    BY <1>4, <1>5, <1>6 DEF StandsFor
  <1>8. StandsFor(Contents(h), h, n)
    BY ContentsAre
  <1>9. d = Contents(h)
    BY <1>7, <1>8, StandsOnce
  <1>10. Turns(c, d)
    BY <1>3 DEF Turns
  <1>. QED  BY <1>1, <1>9, <1>10

\* Entries are gone.
LEMMA TurnVacated ==
  ASSUME NEW n, NEW f, Movable(f, n), NEW m, NEW h, Movable(h, m),
         \A i \in 0 .. m - 1 : h[i].ctl = "occupied" =>
            i \in 0 .. n - 1 /\ f[i].ctl = "occupied" /\ h[i].key = f[i].key /\ h[i].g = f[i].g
  PROVE  Turns(Contents(f), Contents(h))
  <1>1. PICK c : c = Contents(f) /\ StandsFor(c, f, n)
    BY ContentsAre
  <1>2. PICK d : d = Contents(h) /\ StandsFor(d, h, m)
    BY ContentsAre
  <1>3. ASSUME NEW k \in DOMAIN d PROVE k \in DOMAIN c /\ d[k] = c[k]
    <2>1. PICK s \in 0 .. m - 1 : h[s].ctl = "occupied" /\ h[s].key = k
      BY <1>2 DEF StandsFor
    <2>2. s \in 0 .. n - 1 /\ f[s].ctl = "occupied" /\ f[s].key = k /\ f[s].g = h[s].g
      BY <2>1
    <2>3. k \in DOMAIN c /\ c[k] = <<k, f[s].g>>
      BY <1>1, <2>2 DEF StandsFor
    <2>4. d[k] = <<k, h[s].g>>
      BY <1>2, <2>1 DEF StandsFor
    <2>. QED  BY <2>2, <2>3, <2>4
  <1>4. PICK gone \in SUBSET DOMAIN c : gone = (DOMAIN c) \ (DOMAIN d)
    OBVIOUS
  <1>5. (DOMAIN c) \ gone = DOMAIN d
    BY <1>3, <1>4
  <1>6. d = [k \in DOMAIN d |-> d[k]]
    BY <1>2 DEF StandsFor
  <1>7. [k \in DOMAIN d |-> d[k]] = [k \in DOMAIN d |-> c[k]]
    BY <1>3
  <1>8. d = [k \in (DOMAIN c) \ gone |-> c[k]]
    BY <1>5, <1>6, <1>7
  <1>9. Turns(c, d)
    BY <1>8 DEF Turns
  <1>. QED  BY <1>1, <1>2, <1>9

\* Every entry has another value.
LEMMA TurnCloned ==
  ASSUME NEW n, NEW f, Movable(f, n), NEW h, Movable(h, n),
         \A i \in 0 .. n - 1 : h[i].ctl = "occupied" <=> f[i].ctl = "occupied",
         \A i \in 0 .. n - 1 : f[i].ctl = "occupied" => h[i].key = f[i].key
  PROVE  Turns(Contents(f), Contents(h))
  <1>1. PICK c : c = Contents(f) /\ StandsFor(c, f, n)
    BY ContentsAre
  <1>2. PICK d : d = Contents(h) /\ StandsFor(d, h, n)
    BY ContentsAre
  <1>3. \A k : k \in DOMAIN c <=> k \in DOMAIN d
    BY <1>1, <1>2 DEF StandsFor
  <1>4. DOMAIN c = DOMAIN d
    BY <1>3
  <1>5. d \in [DOMAIN c -> Instance]
    BY <1>2, <1>4, StandsType
  <1>. QED  BY <1>1, <1>2, <1>5 DEF Turns

-----------------------------------------------------------------------------
(* The map's steps *)

\* What is shown of every step: the invariant stays, and the contents take a step.
Onward == MapKept' /\ Turns(Contents(slots), Contents(slots'))

\* The slots after a step are good, counted and accounted for.
LEMMA OnwardIs ==
  ASSUME NEW m, Good(slots', seed', m), Tallied(slots', m, occupied', tombstones', len', cap', deferred'),
         Ledger(slots', m, owned', deferred', phase'), Flags(bound', deferred', phase', answer'),
         Turns(Contents(slots), Contents(slots'))
  PROVE  Onward
  <1>1. m \in {0} \cup SlotCounts
    BY GoodFacts
  <1>2. MapKept'
    BY <1>1 DEF MapKept
  <1>. QED  BY <1>2 DEF Onward

\* A step that leaves the slots and what is counted and owned alone.
LEMMA OnwardSame ==
  ASSUME MapKept, UNCHANGED <<table, len, cap, owned, deferred>>, Flags(bound', deferred', phase', answer'),
         phase' = phase \/ phase' # "running"
  PROVE  Onward
  <1>1. PICK n \in {0} \cup SlotCounts : Kept(n)
    BY DEF MapKept, Kept
  <1>2. Good(slots', seed', n)
    BY <1>1 DEF Kept, table
  <1>3. Tallied(slots', n, occupied', tombstones', len', cap', deferred')
    BY <1>1 DEF Kept, table
  <1>4. Ledger(slots', n, owned', deferred', phase')
    <2>1. Ledger(slots, n, owned, deferred, phase')
      BY <1>1 DEF Kept, Ledger
    <2>. QED  BY <2>1 DEF table
  <1>5. Movable(slots, n)
    BY <1>1, GoodFacts DEF Kept
  <1>6. Turns(Contents(slots), Contents(slots'))
    <2>1. Turns(Contents(slots), Contents(slots))
      BY <1>5, TurnNone
    <2>2. slots' = slots
      BY DEF table
    <2>. QED  BY <2>1, <2>2
  <1>. QED  BY <1>2, <1>3, <1>4, <1>6, OnwardIs

\* What the flags are.
LEMMA FlagsAre ==
  ASSUME MapKept
  PROVE  Flags(bound, deferred, phase, answer)
  BY DEF MapKept

\* A call with nothing to do.
LEMMA StayStep ==
  ASSUME MapKept, Stay, bound' \in BOOLEAN
  PROVE  Onward
  <1>1. Flags(bound', deferred', phase', answer')
    BY FlagsAre DEF Flags, Stay
  <1>. QED  BY <1>1, OnwardSame DEF Stay

\* A refused call.
LEMMA RefuseStep ==
  ASSUME MapKept, Refuse, bound' \in BOOLEAN
  PROVE  Onward
  <1>1. Flags(bound', deferred', phase', answer')
    BY FlagsAre DEF Flags, Refuse
  <1>. QED  BY <1>1, OnwardSame DEF Refuse

\* A hook panics before anything has changed.
LEMMA PanicStep ==
  ASSUME MapKept, Panic, UNCHANGED <<table, len, cap, bound, owned, deferred>>
  PROVE  Onward
  <1>1. Flags(bound', deferred', phase', answer')
    BY FlagsAre DEF Flags, Panic
  <1>2. phase' # "running"
    BY DEF Panic
  <1>. QED  BY <1>1, <1>2, OnwardSame

\* The least slot count with room.
LEMMA RoomIs ==
  ASSUME NEW want, SlotsFor(want) # {}
  PROVE  Least(SlotsFor(want)) \in SlotCounts /\ map_capacity_of(Least(SlotsFor(want))) >= want
  <1>1. PICK S : S = SlotsFor(want)
    OBVIOUS
  <1>2. S \subseteq SlotCounts /\ \A m \in S : map_capacity_of(m) >= want
    BY <1>1 DEF SlotsFor
  <1>3. S \subseteq Nat
    BY <1>2, CountFacts
  <1>4. Least(S) \in S
    BY <1>1, <1>3, LeastIs
  <1>. QED  BY <1>1, <1>2, <1>4

\* What a rebuilt table is.
LEMMA RebuiltFacts ==
  ASSUME NEW n, Kept(n), NEW m \in SlotCounts, occupied <= map_capacity_of(m), NEW s \in Seeds,
         NEW late, ~late => ~deferred /\ phase = "running"
  PROVE  /\ Carries(Rebuilt(m, s), m, slots, n) /\ Rebuilt(m, s).seed = s /\ TableOK(Rebuilt(m, s), m)
         /\ Good(Rebuilt(m, s).slots, s, m)
         /\ Tallied(Rebuilt(m, s).slots, m, occupied, 0, len, map_capacity_of(m), late)
         /\ Ledger(Rebuilt(m, s).slots, m, owned, late, phase)
         /\ Contents(Rebuilt(m, s).slots) = Contents(slots)
  <1>1. n \in Nat /\ Movable(slots, n)
    BY GoodFacts DEF Kept
  <1>2. m \in Nat /\ m > 0
    BY CountFacts
  <1>3. Cardinality(Occ(slots, 0 .. n - 1)) < m
    <2>1. map_capacity_of(m) \in Nat /\ map_capacity_of(m) < m
      BY CapacityFacts
    <2>2. occupied \in Nat /\ occupied = Cardinality(Occ(slots, 0 .. n - 1))
      BY DEF Kept, Tallied
    <2>. QED  BY <1>2, <2>1, <2>2
  <1>4. PICK u : u = Rebuilt(m, s)
    OBVIOUS
  <1>5. Carries(u, m, slots, n) /\ u.seed = s
    BY <1>1, <1>2, <1>3, <1>4, RebuiltIs
  <1>6. TableOK(u, m)
    BY <1>5 DEF Carries
  <1>7. Good(u.slots, s, m)
    BY <1>5, <1>6, GoodTable
  <1>8. Tallied(u.slots, m, occupied, 0, len, map_capacity_of(m), late)
    BY <1>1, <1>5, TallyRebuilt DEF Kept
  <1>9. Ledger(u.slots, m, owned, late, phase)
    BY <1>2, <1>5, LedgerRebuilt DEF Kept
  <1>10. Movable(u.slots, m)
    BY <1>7, GoodFacts
  <1>11. Contents(u.slots) = Contents(slots)
    BY <1>1, <1>5, <1>10, TurnRebuilt
  <1>. QED  BY <1>4, <1>5, <1>6, <1>7, <1>8, <1>9, <1>11

\* Whether deferred code has been at work, after a step that is such code's in an unwind.
LEMMA LateIs ==
  ASSUME MapKept, phase # "ended", deferred' = (deferred \/ Unwinding)
  PROVE  deferred' \in BOOLEAN /\ (~deferred' => ~deferred /\ phase = "running")
  <1>1. phase \in {"running", "unwinding", "ended"} /\ deferred \in BOOLEAN
    BY FlagsAre DEF Flags
  <1>. QED  BY <1>1 DEF Unwinding

\* The entries move to another table.
LEMMA ReplaceStep ==
  ASSUME MapKept, phase # "ended", NEW m \in SlotCounts, occupied <= map_capacity_of(m), Replace(m), bound' \in BOOLEAN
  PROVE  Onward
  <1>1. PICK n \in {0} \cup SlotCounts : Kept(n)
    BY DEF MapKept, Kept
  <1>2. PICK s \in Seeds : slots' = Rebuilt(m, s).slots /\ seed' = s
    BY DEF Replace
  <1>3. /\ occupied' = occupied /\ tombstones' = 0 /\ cap' = map_capacity_of(m) /\ len' = len /\ owned' = owned
        /\ phase' = phase /\ answer' = "ok" /\ deferred' = (deferred \/ Unwinding)
    BY DEF Replace
  <1>4. deferred' \in BOOLEAN /\ (~deferred' => ~deferred /\ phase = "running")
    BY <1>3, LateIs
  <1>5. PICK late : late = deferred'
    OBVIOUS
  <1>6. /\ Good(Rebuilt(m, s).slots, s, m)
        /\ Tallied(Rebuilt(m, s).slots, m, occupied, 0, len, map_capacity_of(m), late)
        /\ Ledger(Rebuilt(m, s).slots, m, owned, late, phase)
        /\ Contents(Rebuilt(m, s).slots) = Contents(slots)
    BY <1>1, <1>4, <1>5, RebuiltFacts
  <1>7. Good(slots', seed', m)
    BY <1>2, <1>6
  <1>8. Tallied(slots', m, occupied', tombstones', len', cap', deferred')
    BY <1>2, <1>3, <1>5, <1>6
  <1>9. Ledger(slots', m, owned', deferred', phase')
    BY <1>2, <1>3, <1>5, <1>6
  <1>10. Flags(bound', deferred', phase', answer')
    BY <1>3, <1>4, FlagsAre DEF Flags
  <1>11. Turns(Contents(slots), Contents(slots'))
    <2>1. Movable(slots, n)
      BY <1>1, GoodFacts DEF Kept
    <2>. QED  BY <1>2, <1>6, <2>1, TurnNone
  <1>. QED  BY <1>7, <1>8, <1>9, <1>10, <1>11, OnwardIs

\* map_reserve.
LEMMA ReserveStep ==
  ASSUME MapKept, NEW n \in Requests, Reserve(n)
  PROVE  Onward
  <1>1. n \in Nat
    BY MapAssumption
  <1>2. phase # "ended" /\ bound' \in BOOLEAN
    BY DEF Reserve
  <1>3. occupied \in Nat /\ len = occupied
    BY DEF MapKept, Tallied
  <1>4. PICK want \in Nat : want = (IF n < len THEN len ELSE n) /\ want >= occupied
    BY <1>1, <1>3
  <1>5. Stay \/ Refuse \/ (SlotsFor(want) # {} /\ Replace(Least(SlotsFor(want))))
    BY <1>4 DEF Reserve
  <1>6. CASE SlotsFor(want) # {} /\ Replace(Least(SlotsFor(want)))
    <2>1. PICK m : m = Least(SlotsFor(want))
      OBVIOUS
    <2>2. m \in SlotCounts /\ map_capacity_of(m) >= want
      BY <1>6, <2>1, RoomIs
    <2>3. map_capacity_of(m) \in Nat
      BY <2>2, CapacityFacts
    <2>4. occupied <= map_capacity_of(m)
      BY <1>3, <1>4, <2>2, <2>3
    <2>. QED  BY <1>2, <1>6, <2>1, <2>2, <2>4, ReplaceStep
  <1>. QED  BY <1>2, <1>5, <1>6, StayStep, RefuseStep

\* map_shrink.
LEMMA ShrinkStep ==
  ASSUME MapKept, NEW n \in Requests, Shrink(n)
  PROVE  Onward
  <1>1. n \in Nat
    BY MapAssumption
  <1>2. phase # "ended" /\ bound' \in BOOLEAN
    BY FlagsAre DEF Shrink, Flags
  <1>3. PICK c \in {0} \cup SlotCounts : Kept(c)
    BY DEF MapKept, Kept
  <1>4. occupied \in Nat /\ len = occupied
    BY <1>3 DEF Kept, Tallied
  <1>5. PICK want \in Nat : want = (IF len < n THEN n ELSE len) /\ want >= occupied
    BY <1>1, <1>4
  <1>6. PICK fit : fit = Least(SlotsFor(want))
    OBVIOUS
  <1>7. PICK to : to = IF fit > slot_count THEN slot_count ELSE fit
    OBVIOUS
  <1>8. Stay \/ Refuse \/ (~NoTable /\ SlotsFor(want) # {} /\ Replace(to))
    BY <1>5, <1>6, <1>7 DEF Shrink
  <1>9. CASE ~NoTable /\ SlotsFor(want) # {} /\ Replace(to)
    <2>1. fit \in SlotCounts /\ map_capacity_of(fit) >= want
      BY <1>6, <1>9, RoomIs
    <2>2. slot_count = c /\ c \in SlotCounts
      BY <1>3, <1>9, SlotsAre
    <2>3. to \in SlotCounts /\ occupied <= map_capacity_of(to)
      <3>1. CASE to = fit
        <4>1. map_capacity_of(fit) \in Nat
          BY <2>1, CapacityFacts
        <4>. QED  BY <1>4, <1>5, <2>1, <3>1, <4>1
      <3>2. CASE to = slot_count
        <4>1. map_capacity_of(c) \in Nat /\ tombstones \in Nat /\ occupied + tombstones <= map_capacity_of(c)
          BY <1>3, <2>2, CapacityFacts DEF Kept, Tallied
        <4>. QED  BY <1>4, <2>2, <3>2, <4>1
      <3>. QED  BY <1>7, <3>1, <3>2
    <2>. QED  BY <1>2, <1>9, <2>3, ReplaceStep
  <1>. QED  BY <1>2, <1>8, <1>9, StayStep, RefuseStep

\* The instance a new value gets.
LEMMA FreshIs ==
  ASSUME NEW k, Fresh(k) # {}
  PROVE  Least(Fresh(k)) \in Gen /\ <<k, Least(Fresh(k))>> \notin owned
  <1>1. PICK S : S = Fresh(k)
    OBVIOUS
  <1>2. S \subseteq Gen /\ \A g \in S : <<k, g>> \notin owned
    BY <1>1 DEF Fresh
  <1>3. S \subseteq Nat
    BY <1>2 DEF Gen
  <1>4. Least(S) \in S
    BY <1>1, <1>3, LeastIs
  <1>. QED  BY <1>1, <1>2, <1>4

\* The slots of t with a new entry under k.
Entered(t, k) == [t.slots EXCEPT ![FreeSlot(t, k)] = [ctl |-> "occupied", key |-> k, g |-> Least(Fresh(k))]]

\* A table t of m slots that has room for an entry under k, which it does not have.
Ready(t, m, tomb, c, def, k) ==
    /\ m \in SlotCounts /\ TableOK(t, m)
    /\ Tallied(t.slots, m, occupied, tomb, len, c, def) /\ occupied + tomb + 1 <= c
    /\ Ledger(t.slots, m, owned, def, phase)
    /\ k \in Key /\ Fresh(k) # {}
    /\ \A s \in 0 .. m - 1 : ~(t.slots[s].ctl = "occupied" /\ t.slots[s].key = k)

\* The table with the entry.
Done(t, m, tomb, c, late, k) ==
    /\ Good(Entered(t, k), t.seed, m)
    /\ Tallied(Entered(t, k), m, occupied + 1,
               IF t.slots[FreeSlot(t, k)].ctl = "tombstone" THEN tomb - 1 ELSE tomb, len + 1, c, late)
    /\ Ledger(Entered(t, k), m, owned \cup {k, <<k, Least(Fresh(k))>>}, late, phase)
    /\ Turns(Contents(t.slots), Contents(Entered(t, k)))
    /\ FreeSlot(t, k) \in 0 .. m - 1

\* A new entry takes its slot in a good table.
LEMMA PublishIs ==
  ASSUME NEW t, NEW m, NEW tomb, NEW c, NEW def, NEW k, NEW late, Ready(t, m, tomb, c, def, k),
         ~late => ~def /\ phase = "running"
  PROVE  Done(t, m, tomb, c, late, k)
  <1>. /\ m \in SlotCounts /\ TableOK(t, m)
       /\ Tallied(t.slots, m, occupied, tomb, len, c, def) /\ occupied + tomb + 1 <= c
       /\ Ledger(t.slots, m, owned, def, phase)
       /\ k \in Key /\ Fresh(k) # {}
       /\ \A s \in 0 .. m - 1 : ~(t.slots[s].ctl = "occupied" /\ t.slots[s].key = k)
    BY DEF Ready
  <1>1. m \in Nat /\ m > 0 /\ m \in {0} \cup SlotCounts
    BY CountFacts
  <1>2. PICK g \in Gen : g = Least(Fresh(k)) /\ <<k, g>> \notin owned
    BY FreshIs
  <1>3. PICK e \in Slot : e = [ctl |-> "occupied", key |-> k, g |-> g]
    BY DEF Slot, Control
  <1>4. e.ctl = "occupied" /\ e.key = k /\ e.g = g
    BY <1>3
  <1>5. PICK f : f = t.slots
    OBVIOUS
  <1>6. f \in [0 .. m - 1 -> Slot] /\ t.seed \in Seeds /\ Good(f, t.seed, m)
    BY <1>5, GoodTable DEF TableOK, Tables
  <1>7. PICK free \in 0 .. m - 1 : f[free].ctl = "empty"
    BY <1>5, <1>6, EmptyLeft
  <1>8. PICK at : at = FreeSlot(t, k)
    OBVIOUS
  <1>9. /\ at \in 0 .. m - 1 /\ f[at].ctl # "occupied"
        /\ TableOK([slots |-> [t.slots EXCEPT ![at] = e], seed |-> t.seed], m)
    <2>1. /\ FreeSlot(t, e.key) \in 0 .. m - 1
          /\ t.slots[FreeSlot(t, e.key)].ctl # "occupied"
          /\ TableOK([slots |-> [t.slots EXCEPT ![FreeSlot(t, e.key)] = e], seed |-> t.seed], m)
      BY <1>1, <1>4, <1>5, <1>7, TablePlaced
    <2>. QED  BY <1>4, <1>5, <1>8, <2>1
  <1>10. PICK h : h = Entered(t, k) /\ h = [f EXCEPT ![at] = e]
    BY <1>2, <1>3, <1>5, <1>8 DEF Entered
  <1>11. Good(h, t.seed, m)
    BY <1>5, <1>9, <1>10 DEF Good
  <1>12. h[at] = e /\ \A i \in 0 .. m - 1 : i # at => h[i] = f[i]
    BY <1>6, <1>9, <1>10
  <1>13. ~late => ~def /\ f[at].ctl # "value_owed"
    BY <1>5, <1>9 DEF Ledger
  <1>14. Tallied(h, m, occupied + 1, IF f[at].ctl = "tombstone" THEN tomb - 1 ELSE tomb, len + 1, c, late)
    <2>1. /\ m \in {0} \cup SlotCounts /\ Tallied(f, m, occupied, tomb, len, c, def) /\ occupied + tomb + 1 <= c
          /\ at \in 0 .. m - 1 /\ f[at].ctl # "occupied" /\ h[at].ctl = "occupied"
      BY <1>1, <1>4, <1>5, <1>9, <1>12
    <2>2. Takes(f, m, occupied, tomb, len, c, def, at, h, late)
      BY <1>12, <1>13, <2>1 DEF Takes
    <2>. QED  BY ONLY <2>2, TallyPlaced
  <1>15. Ledger(h, m, owned \cup {k, <<k, g>>}, late, phase)
    <2>1. /\ Good(f, t.seed, m) /\ Ledger(f, m, owned, def, phase) /\ k \in Key /\ g \in Gen /\ <<k, g>> \notin owned
          /\ at \in 0 .. m - 1 /\ f[at].ctl # "occupied" /\ h[at] = [ctl |-> "occupied", key |-> k, g |-> g]
          /\ (~late => ~def /\ phase = "running")
      BY <1>2, <1>3, <1>5, <1>6, <1>9, <1>12
    <2>. QED  BY ONLY <1>12, <2>1, LedgerPlaced
  <1>16. Turns(Contents(f), Contents(h))
    <2>1. Movable(f, m) /\ Movable(h, m)
      BY <1>6, <1>11, GoodFacts
    <2>2. /\ k \in Key /\ g \in Gen /\ at \in 0 .. m - 1 /\ h[at].ctl = "occupied" /\ h[at].key = k /\ h[at].g = g
          /\ f[at].ctl # "occupied"
      BY <1>4, <1>9, <1>12
    <2>. QED  BY ONLY <1>12, <2>1, <2>2, TurnPlaced
  <1>. QED  BY <1>2, <1>5, <1>8, <1>9, <1>10, <1>11, <1>14, <1>15, <1>16 DEF Done

\* map_entry and the commit, in a table that has room.
LEMMA PublishStep ==
  ASSUME MapKept, phase # "ended", NEW k \in Key, Fresh(k) # {}, map_probe(k) = -1,
         ~NeedsRebuild, Publish(Current, k, FALSE), UNCHANGED cap,
         len' = len + 1, bound' = TRUE, owned' = owned \cup {k, <<k, Least(Fresh(k))>>},
         deferred' = (deferred \/ Unwinding), answer' = "ok", UNCHANGED phase
  PROVE  Onward
  <1>1. PICK n \in {0} \cup SlotCounts : Kept(n)
    BY DEF MapKept, Kept
  <1>2. n \in SlotCounts /\ slot_count = n
    BY <1>1, SlotsAre DEF NeedsRebuild
  <1>3. TableOK(Current, n) /\ Current.slots = slots /\ Current.seed = seed
    <2>1. n # 0
      BY <1>2, CountFacts
    <2>. QED  BY <1>1, <2>1, GoodFacts DEF Kept, Current
  <1>4. deferred' \in BOOLEAN /\ (~deferred' => ~deferred /\ phase = "running")
    BY LateIs
  <1>5. occupied + tombstones + 1 <= cap
    <2>1. /\ occupied \in Nat /\ tombstones \in Nat /\ cap = map_capacity_of(n)
      BY <1>1 DEF Kept, Tallied
    <2>2. cap \in Nat
      BY <1>2, <2>1, CapacityFacts
    <2>3. ~(occupied + tombstones + 1 > cap)
      BY <1>2, <2>1 DEF NeedsRebuild
    <2>. QED  BY <2>1, <2>2, <2>3
  <1>6. \A s \in 0 .. n - 1 : ~(slots[s].ctl = "occupied" /\ slots[s].key = k)
    BY <1>1, ProbeIs
  <1>7. PICK late : late = deferred'
    OBVIOUS
  <1>8. PICK h : h = slots'
    OBVIOUS
  <1>9. h = Entered(Current, k)
    BY <1>8 DEF Publish, Entered
  <1>10. /\ Good(h, seed, n)
         /\ Tallied(h, n, occupied + 1, IF slots[FreeSlot(Current, k)].ctl = "tombstone" THEN tombstones - 1 ELSE tombstones,
                    len + 1, cap, late)
         /\ Ledger(h, n, owned \cup {k, <<k, Least(Fresh(k))>>}, late, phase)
         /\ Turns(Contents(slots), Contents(h))
    <2>1. Tallied(Current.slots, n, occupied, tombstones, len, cap, deferred)
      BY <1>1, <1>3 DEF Kept
    <2>2. Ledger(Current.slots, n, owned, deferred, phase)
      BY <1>1, <1>3 DEF Kept
    <2>3. \A s \in 0 .. n - 1 : ~(Current.slots[s].ctl = "occupied" /\ Current.slots[s].key = k)
      BY <1>3, <1>6
    <2>4. ~late => ~deferred /\ phase = "running"
      BY <1>4, <1>7
    <2>5. PICK t : t = Current
      OBVIOUS
    <2>6. /\ TableOK(t, n) /\ Tallied(t.slots, n, occupied, tombstones, len, cap, deferred)
          /\ Ledger(t.slots, n, owned, deferred, phase)
          /\ \A s \in 0 .. n - 1 : ~(t.slots[s].ctl = "occupied" /\ t.slots[s].key = k)
          /\ h = Entered(t, k)
      BY <1>3, <1>9, <2>1, <2>2, <2>3, <2>5
    <2>7. /\ Good(h, t.seed, n)
          /\ Tallied(h, n, occupied + 1, IF t.slots[FreeSlot(t, k)].ctl = "tombstone" THEN tombstones - 1 ELSE tombstones,
                    len + 1, cap, late)
          /\ Ledger(h, n, owned \cup {k, <<k, Least(Fresh(k))>>}, late, phase)
          /\ Turns(Contents(t.slots), Contents(h))
      <3>1. n \in SlotCounts /\ k \in Key /\ Fresh(k) # {}
        BY <1>2
      <3>2. /\ Good(Entered(t, k), t.seed, n)
            /\ Tallied(Entered(t, k), n, occupied + 1,
                       IF t.slots[FreeSlot(t, k)].ctl = "tombstone" THEN tombstones - 1 ELSE tombstones, len + 1, cap, late)
            /\ Ledger(Entered(t, k), n, owned \cup {k, <<k, Least(Fresh(k))>>}, late, phase)
            /\ Turns(Contents(t.slots), Contents(Entered(t, k)))
        <4>1. Ready(t, n, tombstones, cap, deferred, k)
          BY <1>5, <2>6, <3>1 DEF Ready
        <4>2. Done(t, n, tombstones, cap, late, k)
          BY <2>4, <4>1, PublishIs
        <4>. QED  BY <4>2 DEF Done
      <3>. QED  BY <2>6, <3>2
    <2>. QED  BY <1>3, <2>5, <2>7
  <1>11. Good(slots', seed', n)
    <2>1. seed' = seed
      BY <1>3 DEF Publish
    <2>. QED  BY <1>8, <1>10, <2>1
  <1>12. Tallied(slots', n, occupied', tombstones', len', cap', deferred')
    <2>1. /\ occupied' = occupied + 1
          /\ tombstones' = IF slots[FreeSlot(Current, k)].ctl = "tombstone" THEN tombstones - 1 ELSE tombstones
      BY <1>3 DEF Publish
    <2>. QED  BY <1>7, <1>8, <1>10, <2>1
  <1>13. Ledger(slots', n, owned', deferred', phase')
    BY <1>7, <1>8, <1>10
  <1>14. Flags(bound', deferred', phase', answer')
    BY <1>4, FlagsAre DEF Flags
  <1>15. Turns(Contents(slots), Contents(slots'))
    BY <1>8, <1>10
  <1>. QED  BY <1>11, <1>12, <1>13, <1>14, <1>15, OnwardIs

\* The same with a rebuild first.
LEMMA PublishMovedStep ==
  ASSUME MapKept, phase # "ended", NEW k \in Key, Fresh(k) # {}, map_probe(k) = -1,
         RebuildCounts # {}, NEW s \in Seeds, Publish(Rebuilt(Least(RebuildCounts), s), k, TRUE),
         cap' = map_capacity_of(Least(RebuildCounts)),
         len' = len + 1, bound' = TRUE, owned' = owned \cup {k, <<k, Least(Fresh(k))>>},
         deferred' = (deferred \/ Unwinding), answer' = "ok", UNCHANGED phase
  PROVE  Onward
  <1>1. PICK n \in {0} \cup SlotCounts : Kept(n)
    BY DEF MapKept, Kept
  <1>2. PICK m : m = Least(RebuildCounts)
    OBVIOUS
  <1>3. m \in SlotCounts /\ map_capacity_of(m) >= len + 1
    <2>1. RebuildCounts \subseteq SlotCounts /\ \A c \in RebuildCounts : map_capacity_of(c) >= len + 1
      BY DEF RebuildCounts, SlotsFor
    <2>2. PICK S : S = RebuildCounts
      OBVIOUS
    <2>3. S \subseteq Nat
      BY <2>1, <2>2, CountFacts
    <2>4. Least(S) \in S
      BY <2>2, <2>3, LeastIs
    <2>. QED  BY <1>2, <2>1, <2>2, <2>4
  <1>4. deferred' \in BOOLEAN /\ (~deferred' => ~deferred /\ phase = "running")
    BY LateIs
  <1>5. occupied \in Nat /\ len = occupied /\ occupied + 0 + 1 <= map_capacity_of(m) /\ occupied <= map_capacity_of(m)
    <2>1. occupied \in Nat /\ len = occupied
      BY <1>1 DEF Kept, Tallied
    <2>2. map_capacity_of(m) \in Nat
      BY <1>3, CapacityFacts
    <2>. QED  BY <1>3, <2>1, <2>2
  <1>6. \A i \in 0 .. n - 1 : ~(slots[i].ctl = "occupied" /\ slots[i].key = k)
    BY <1>1, ProbeIs
  <1>7. PICK late : late = deferred'
    OBVIOUS
  <1>8. PICK h : h = slots'
    OBVIOUS
  <1>9. PICK t : t = Rebuilt(m, s)
    OBVIOUS
  <1>10. /\ Carries(t, m, slots, n) /\ t.seed = s /\ TableOK(t, m)
         /\ Tallied(t.slots, m, occupied, 0, len, map_capacity_of(m), late)
         /\ Ledger(t.slots, m, owned, late, phase)
         /\ Contents(t.slots) = Contents(slots)
    BY <1>1, <1>3, <1>4, <1>5, <1>7, <1>9, RebuiltFacts
  <1>11. h = Entered(t, k)
    BY <1>2, <1>8, <1>9 DEF Publish, Entered
  <1>12. \A i \in 0 .. m - 1 : ~(t.slots[i].ctl = "occupied" /\ t.slots[i].key = k)
    <2>1. ASSUME NEW i \in 0 .. m - 1, t.slots[i].ctl = "occupied", t.slots[i].key = k PROVE FALSE
      <3>1. PICK y \in 0 .. n - 1 : slots[y] = t.slots[i]
        BY <1>10, <2>1 DEF Carries
      <3>. QED  BY <1>6, <2>1, <3>1
    <2>. QED  BY <2>1
  <1>13. /\ Good(h, t.seed, m)
         /\ Tallied(h, m, occupied + 1, IF t.slots[FreeSlot(t, k)].ctl = "tombstone" THEN 0 - 1 ELSE 0,
                    len + 1, map_capacity_of(m), late)
         /\ Ledger(h, m, owned \cup {k, <<k, Least(Fresh(k))>>}, late, phase)
         /\ Turns(Contents(t.slots), Contents(h))
         /\ FreeSlot(t, k) \in 0 .. m - 1
    <2>1. ~late => ~late /\ phase = "running"
      BY <1>4, <1>7
    <2>2. m \in SlotCounts /\ k \in Key /\ Fresh(k) # {} /\ occupied + 0 + 1 <= map_capacity_of(m)
      BY <1>3, <1>5
    <2>3. /\ Good(Entered(t, k), t.seed, m)
          /\ Tallied(Entered(t, k), m, occupied + 1, IF t.slots[FreeSlot(t, k)].ctl = "tombstone" THEN 0 - 1 ELSE 0,
                    len + 1, map_capacity_of(m), late)
          /\ Ledger(Entered(t, k), m, owned \cup {k, <<k, Least(Fresh(k))>>}, late, phase)
          /\ Turns(Contents(t.slots), Contents(Entered(t, k)))
          /\ FreeSlot(t, k) \in 0 .. m - 1
      <3>1. Ready(t, m, 0, map_capacity_of(m), late, k)
        BY <1>10, <1>12, <2>2 DEF Ready
      <3>2. Done(t, m, 0, map_capacity_of(m), late, k)
        BY <2>1, <3>1, PublishIs
      <3>. QED  BY <3>2 DEF Done
    <2>. QED  BY <1>11, <2>3
  <1>14. Good(slots', seed', m)
    <2>1. seed' = t.seed
      BY <1>2, <1>9 DEF Publish
    <2>. QED  BY <1>8, <1>13, <2>1
  <1>15. Tallied(slots', m, occupied', tombstones', len', cap', deferred')
    <2>1. occupied' = occupied + 1 /\ tombstones' = 0 /\ cap' = map_capacity_of(m)
      BY <1>2 DEF Publish
    <2>2. t.slots[FreeSlot(t, k)].ctl # "tombstone"
      BY <1>10, <1>13 DEF Carries
    <2>3. Tallied(h, m, occupied + 1, 0, len + 1, map_capacity_of(m), late)
      BY <1>13, <2>2
    <2>. QED  BY <1>7, <1>8, <2>1, <2>3
  <1>16. Ledger(slots', m, owned', deferred', phase')
    BY <1>7, <1>8, <1>13
  <1>17. Flags(bound', deferred', phase', answer')
    BY <1>4, FlagsAre DEF Flags
  <1>18. Turns(Contents(slots), Contents(slots'))
    BY <1>8, <1>10, <1>13
  <1>. QED  BY <1>14, <1>15, <1>16, <1>17, <1>18, OnwardIs

\* Slots that keep their kind or are vacated keep a table good.
LEMMA GoodKept ==
  ASSUME NEW n, NEW f, NEW sd, Good(f, sd, n), NEW h \in [0 .. n - 1 -> Slot],
         \A s \in 0 .. n - 1 : h[s].ctl = "occupied" => f[s].ctl = "occupied" /\ f[s].key = h[s].key,
         \A s \in 0 .. n - 1 : h[s].ctl = "value_owed" => h[s].key \in Key,
         \A s \in 0 .. n - 1 : f[s].ctl # "empty" => h[s].ctl # "empty"
  PROVE  Good(h, sd, n)
  <1>1. n \in Nat /\ sd \in Seeds \cup {NoSeed} /\ (n # 0 => n \in SlotCounts /\ n > 0 /\ TableOK([slots |-> f, seed |-> sd], n))
    BY GoodFacts
  <1>2. CASE n = 0
    BY <1>1, <1>2 DEF Good
  <1>3. CASE n # 0
    <2>1. PICK t : t = [slots |-> f, seed |-> sd]
      OBVIOUS
    <2>2. PICK u : u = [slots |-> h, seed |-> sd]
      OBVIOUS
    <2>3. t.slots = f /\ t.seed = sd /\ u.slots = h /\ u.seed = sd /\ TableOK(t, n) /\ n > 0 /\ n \in SlotCounts
      BY <1>1, <1>3, <2>1, <2>2
    <2>4. u \in Tables(n) /\ u.seed = t.seed
      BY <2>2, <2>3 DEF TableOK, Tables
    <2>5. /\ \A s \in 0 .. n - 1 : u.slots[s].ctl = "occupied" => t.slots[s].ctl = "occupied" /\ t.slots[s].key = u.slots[s].key
          /\ \A s \in 0 .. n - 1 : u.slots[s].ctl = "value_owed" => u.slots[s].key \in Key
          /\ \A s \in 0 .. n - 1 : t.slots[s].ctl # "empty" => u.slots[s].ctl # "empty"
      BY <2>3
    <2>6. TableOK(u, n)
      <3>1. n \in Nat /\ n > 0 /\ TableOK(t, n) /\ u \in Tables(n) /\ u.seed = t.seed
        BY <1>1, <2>3, <2>4
      <3>. QED  BY ONLY <2>5, <3>1, TableKept
    <2>. QED  BY <2>2, <2>3, <2>6 DEF Good
  <1>. QED  BY <1>2, <1>3

\* An entry's value is replaced by one the ledger does not have.
LEMMA LedgerRenewed ==
  ASSUME NEW n, NEW f, NEW sd, Good(f, sd, n), NEW own, NEW def, NEW ph, Ledger(f, n, own, def, ph),
         NEW k \in Key, NEW g \in Gen, <<k, g>> \notin own,
         NEW at \in 0 .. n - 1, f[at].ctl = "occupied", f[at].key = k,
         NEW h, h[at].ctl = "occupied", h[at].key = k, h[at].g = g, \A i \in 0 .. n - 1 : i # at => h[i] = f[i]
  PROVE  Ledger(h, n, (own \ {<<k, f[at].g>>}) \cup {<<k, g>>}, def, ph)
  <1>1. PICK mine : mine = (own \ {<<k, f[at].g>>}) \cup {<<k, g>>}
    OBVIOUS
  <1>2. mine \subseteq Key \cup Instance
    BY <1>1 DEF Ledger, Instance
  <1>3. ph = "running" => \A s \in 0 .. n - 1 : h[s].ctl # "value_owed"
    BY DEF Ledger
  <1>4. \A s \in 0 .. n - 1 : f[s].ctl \in {"occupied", "value_owed"} => <<f[s].key, f[s].g>> \in own
    BY DEF Ledger, Claimed
  <1>5. ASSUME NEW s \in 0 .. n - 1, NEW v \in 0 .. n - 1,
               h[s].ctl \in {"occupied", "value_owed"}, h[v].ctl \in {"occupied", "value_owed"},
               h[s].key = h[v].key, h[s].g = h[v].g
        PROVE  s = v
    <2>1. CASE s # at /\ v # at
      BY <1>5, <2>1 DEF Ledger
    <2>2. CASE s = at /\ v # at
      <3>1. <<f[v].key, f[v].g>> \in own /\ <<f[v].key, f[v].g>> = <<k, g>>
        BY <1>4, <1>5, <2>2
      <3>. QED  BY <3>1
    <2>3. CASE s # at /\ v = at
      <3>1. <<f[s].key, f[s].g>> \in own /\ <<f[s].key, f[s].g>> = <<k, g>>
        BY <1>4, <1>5, <2>3
      <3>. QED  BY <3>1
    <2>. QED  BY <2>1, <2>2, <2>3
  <1>6. f[at].g \in Gen
    <2>1. f[at] \in Slot
      BY GoodFacts
    <2>. QED  BY <2>1 DEF Slot
  <1>7. <<k, f[at].g>> # k /\ k \in own /\ Claimed(f, at, <<k, f[at].g>>)
    <2>1. <<k, f[at].g>> \notin Key
      BY <1>6, MapAssumption DEF Instance
    <2>2. Claimed(f, at, k) /\ Claimed(f, at, <<k, f[at].g>>)
      BY DEF Claimed
    <2>. QED  BY <2>1, <2>2 DEF Ledger
  <1>8. ASSUME NEW s \in 0 .. n - 1, NEW x, Claimed(h, s, x) PROVE x \in mine
    <2>1. CASE s = at
      <3>1. x = k \/ x = <<k, g>>
        BY <1>8, <2>1 DEF Claimed
      <3>. QED  BY <1>1, <1>7, <3>1
    <2>2. CASE s # at
      <3>1. Claimed(f, s, x)
        BY <1>8, <2>2 DEF Claimed
      <3>2. x \in own
        BY <3>1 DEF Ledger
      <3>3. x # <<k, f[at].g>>
        BY <1>7, <2>2, <3>1, ClaimOnce
      <3>. QED  BY <1>1, <3>2, <3>3
    <2>. QED  BY <2>1, <2>2
  <1>9. ASSUME ~def, NEW x \in mine PROVE \E s \in 0 .. n - 1 : Claimed(h, s, x)
    <2>1. CASE x = <<k, g>>
      <3>1. Claimed(h, at, x)
        BY <2>1 DEF Claimed
      <3>. QED  BY <3>1
    <2>2. CASE x # <<k, g>>
      <3>1. x \in own /\ x # <<k, f[at].g>>
        BY <1>1, <2>2
      <3>2. PICK s \in 0 .. n - 1 : Claimed(f, s, x)
        BY <1>9, <3>1 DEF Ledger
      <3>3. Claimed(h, s, x)
        <4>1. CASE s = at
          <5>1. x = k
            BY <3>1, <3>2, <4>1 DEF Claimed
          <5>. QED  BY <4>1, <5>1 DEF Claimed
        <4>2. CASE s # at
          BY <3>2, <4>2 DEF Claimed
        <4>. QED  BY <4>1, <4>2
      <3>. QED  BY <3>3
    <2>. QED  BY <2>1, <2>2
  <1>10. Ledger(h, n, mine, def, ph)
    BY <1>2, <1>3, <1>5, <1>8, <1>9 DEF Ledger
  <1>. QED  BY <1>1, <1>10

\* The key is there: the new value takes the old one's place.
LEMMA RenewStep ==
  ASSUME MapKept, NEW k \in Key, Fresh(k) # {}, NEW at, at = map_probe(k), at # -1, NEW g, g = Least(Fresh(k)),
         slots' = [slots EXCEPT ![at].g = g], owned' = (owned \ {<<k, slots[at].g>>}) \cup {<<k, g>>},
         answer' = "ok", UNCHANGED <<seed, occupied, tombstones, len, cap, bound, phase, deferred>>
  PROVE  Onward
  <1>1. PICK n \in {0} \cup SlotCounts : Kept(n)
    BY DEF MapKept, Kept
  <1>2. n \in Nat /\ slots \in [0 .. n - 1 -> Slot] /\ Good(slots, seed, n)
    BY <1>1, SlotsAre DEF Kept
  <1>3. at \in 0 .. n - 1 /\ slots[at].ctl = "occupied" /\ slots[at].key = k
    BY <1>1, ProbeIs
  <1>4. g \in Gen /\ <<k, g>> \notin owned
    BY FreshIs
  <1>5. PICK h : h = slots'
    OBVIOUS
  <1>6. h = [slots EXCEPT ![at] = [slots[at] EXCEPT !.g = g]]
    BY <1>5
  <1>7. PICK e : e = [slots[at] EXCEPT !.g = g]
    OBVIOUS
  <1>8. e \in Slot /\ e.ctl = "occupied" /\ e.key = k /\ e.g = g
    BY <1>2, <1>3, <1>4, <1>7 DEF Slot
  <1>9. h \in [0 .. n - 1 -> Slot] /\ h[at] = e /\ \A i \in 0 .. n - 1 : i # at => h[i] = slots[i]
    BY <1>2, <1>3, <1>6, <1>7, <1>8
  <1>10. \A i \in 0 .. n - 1 : h[i].ctl = slots[i].ctl /\ h[i].key = slots[i].key
    BY <1>3, <1>8, <1>9
  <1>11. Good(h, seed, n)
    <2>1. \A s \in 0 .. n - 1 : h[s].ctl = "value_owed" => h[s].key \in Key
      BY <1>2, <1>10, GoodFacts
    <2>. QED  BY <1>2, <1>9, <1>10, <2>1, GoodKept
  <1>12. Tallied(h, n, occupied, tombstones, len, cap, deferred)
    BY <1>1, <1>2, <1>10, TallySame DEF Kept
  <1>13. Ledger(h, n, (owned \ {<<k, slots[at].g>>}) \cup {<<k, g>>}, deferred, phase)
    <2>1. /\ Ledger(slots, n, owned, deferred, phase) /\ k \in Key
          /\ h[at].ctl = "occupied" /\ h[at].key = k /\ h[at].g = g
      BY <1>1, <1>8, <1>9 DEF Kept
    <2>. QED  BY ONLY <1>2, <1>3, <1>4, <1>9, <2>1, LedgerRenewed
  <1>14. Turns(Contents(slots), Contents(h))
    <2>1. Movable(slots, n) /\ Movable(h, n)
      BY <1>2, <1>11, GoodFacts
    <2>2. h[at].ctl = "occupied" /\ h[at].key = k /\ h[at].g = g /\ k \in Key
      BY <1>8, <1>9
    <2>. QED  BY ONLY <1>3, <1>4, <1>9, <2>1, <2>2, TurnPlaced
  <1>15. Good(slots', seed', n)
    BY <1>5, <1>11
  <1>16. Tallied(slots', n, occupied', tombstones', len', cap', deferred')
    BY <1>5, <1>12
  <1>17. Ledger(slots', n, owned', deferred', phase')
    BY <1>5, <1>13
  <1>18. Flags(bound', deferred', phase', answer')
    BY FlagsAre DEF Flags
  <1>19. Turns(Contents(slots), Contents(slots'))
    BY <1>5, <1>14
  <1>. QED  BY <1>15, <1>16, <1>17, <1>18, <1>19, OnwardIs

\* map_entry and the caller's commit.
LEMMA InsertStep ==
  ASSUME MapKept, NEW k \in Key, Insert(k)
  PROVE  Onward
  <1>1. phase # "ended" /\ Fresh(k) # {} /\ bound \in BOOLEAN
    BY FlagsAre DEF Insert, Flags
  <1>2. PICK at : at = map_probe(k)
    OBVIOUS
  <1>3. PICK g : g = Least(Fresh(k))
    OBVIOUS
  <1>4. CASE /\ at # -1 /\ slots' = [slots EXCEPT ![at].g = g]
             /\ owned' = (owned \ {<<k, slots[at].g>>}) \cup {<<k, g>>} /\ answer' = "ok"
             /\ UNCHANGED <<seed, occupied, tombstones, len, cap, bound, phase, deferred>>
    BY <1>1, <1>2, <1>3, <1>4, RenewStep
  <1>5. CASE at = -1 /\ Refuse /\ UNCHANGED bound
    BY <1>1, <1>5, RefuseStep
  <1>6. CASE at = -1 /\ Panic /\ UNCHANGED <<table, len, cap, bound, owned, deferred>>
    BY <1>6, PanicStep
  <1>7. CASE /\ at = -1
             /\ IF NeedsRebuild
                THEN /\ RebuildCounts # {}
                     /\ \E s \in Seeds : Publish(Rebuilt(Least(RebuildCounts), s), k, TRUE)
                     /\ cap' = map_capacity_of(Least(RebuildCounts))
                ELSE Publish(Current, k, FALSE) /\ UNCHANGED cap
             /\ len' = len + 1 /\ bound' = TRUE /\ owned' = owned \cup {k, <<k, g>>}
             /\ deferred' = (deferred \/ Unwinding) /\ answer' = "ok" /\ UNCHANGED phase
    <2>1. /\ len' = len + 1 /\ bound' = TRUE /\ owned' = owned \cup {k, <<k, Least(Fresh(k))>>}
          /\ deferred' = (deferred \/ Unwinding) /\ answer' = "ok" /\ UNCHANGED phase /\ map_probe(k) = -1
      BY <1>2, <1>3, <1>7
    <2>2. CASE NeedsRebuild
      <3>1. RebuildCounts # {} /\ cap' = map_capacity_of(Least(RebuildCounts))
        BY <1>7, <2>2
      <3>2. PICK s \in Seeds : Publish(Rebuilt(Least(RebuildCounts), s), k, TRUE)
        BY <1>7, <2>2
      <3>. QED  BY <1>1, <2>1, <3>1, <3>2, PublishMovedStep
    <2>3. CASE ~NeedsRebuild
      <3>1. Publish(Current, k, FALSE) /\ UNCHANGED cap
        BY <1>7, <2>3
      <3>. QED  BY <1>1, <2>1, <2>3, <3>1, PublishStep
    <2>. QED  BY <2>2, <2>3
  <1>. QED  BY <1>2, <1>3, <1>4, <1>5, <1>6, <1>7 DEF Insert

\* What a tombstone and an owed slot are.
LEMMA LeavesAre ==
  ASSUME NEW n, Kept(n), NEW s \in 0 .. n - 1, slots[s].ctl \in {"occupied", "value_owed"}, NEW hook
  PROVE  /\ Tombstone \in Slot /\ Tombstone.ctl = "tombstone"
         /\ PanicLeaves(s, hook) \in Slot /\ PanicLeaves(s, hook).ctl \in {"tombstone", "value_owed"}
         /\ hook = "key" => /\ PanicLeaves(s, hook).ctl = "value_owed"
                            /\ PanicLeaves(s, hook).key = slots[s].key /\ PanicLeaves(s, hook).g = slots[s].g
         /\ hook # "key" => PanicLeaves(s, hook) = Tombstone
  <1>1. slots[s] \in Slot
    BY SlotsAre
  <1>2. Tombstone \in Slot /\ Tombstone.ctl = "tombstone"
    BY DEF Tombstone, Slot, Control, Gen
  <1>3. PICK e : e = [slots[s] EXCEPT !.ctl = "value_owed"]
    OBVIOUS
  <1>4. e \in Slot /\ e.ctl = "value_owed" /\ e.key = slots[s].key /\ e.g = slots[s].g
    BY <1>1, <1>3 DEF Slot, Control
  <1>5. PanicLeaves(s, hook) = IF hook = "key" THEN e ELSE Tombstone
    BY <1>3 DEF PanicLeaves
  <1>. QED  BY <1>2, <1>4, <1>5

\* The entries of the slots L go, and with them what hooks or the caller were given.
LEMMA VacateStep ==
  ASSUME MapKept, NEW n, Kept(n), NEW L, L \subseteq Occ(slots, 0 .. n - 1), slots' \in [0 .. n - 1 -> Slot],
         \A i \in 0 .. n - 1 : slots'[i].ctl = "occupied" <=> i \in Occ(slots, 0 .. n - 1) /\ i \notin L,
         \A i \in 0 .. n - 1 : slots'[i].ctl \in {"tombstone", "value_owed"} <=> i \in Vac(slots, 0 .. n - 1) \/ i \in L,
         \A i \in 0 .. n - 1 : slots'[i].ctl \in {"occupied", "value_owed"} =>
            /\ slots[i].ctl \in {"occupied", "value_owed"}
            /\ slots'[i].key = slots[i].key /\ slots'[i].g = slots[i].g,
         occupied' = occupied - Cardinality(L), len' = len - Cardinality(L), tombstones' = tombstones + Cardinality(L),
         NEW given, owned' = owned \ given,
         \A i \in 0 .. n - 1 : \A x : Claimed(slots', i, x) => x \notin given,
         \A i \in 0 .. n - 1 : \A x : Claimed(slots, i, x) /\ x \notin given => Claimed(slots', i, x),
         phase' = "running" => \A s \in 0 .. n - 1 : slots'[s].ctl # "value_owed",
         UNCHANGED <<seed, cap, bound, deferred>>, phase' \in {"running", "unwinding", "ended"}, answer' \in {"ok", "panicked"}
  PROVE  Onward
  <1>1. n \in Nat /\ n \in {0} \cup SlotCounts /\ slots \in [0 .. n - 1 -> Slot] /\ Good(slots, seed, n)
    BY SlotsAre DEF Kept
  <1>2. PICK h : h = slots'
    OBVIOUS
  <1>3. PICK next : next = phase'
    OBVIOUS
  <1>4. Good(h, seed, n)
    <2>1. \A s \in 0 .. n - 1 : h[s].ctl = "occupied" => slots[s].ctl = "occupied" /\ slots[s].key = h[s].key
      BY <1>2 DEF Occ
    <2>2. \A s \in 0 .. n - 1 : h[s].ctl = "value_owed" => h[s].key \in Key
      <3>1. \A s \in 0 .. n - 1 : slots[s].ctl \in {"occupied", "value_owed"} => slots[s].key \in Key
        BY <1>1, GoodFacts
      <3>. QED  BY <1>2, <3>1
    <2>3. ASSUME NEW s \in 0 .. n - 1, slots[s].ctl # "empty" PROVE h[s].ctl # "empty"
      <3>1. slots[s].ctl \in {"tombstone", "occupied", "value_owed"}
        BY <1>1, <2>3 DEF Slot, Control
      <3>2. s \in Occ(slots, 0 .. n - 1) \/ s \in Vac(slots, 0 .. n - 1)
        BY <3>1 DEF Occ, Vac
      <3>. QED  BY <1>2, <3>2
    <2>4. h \in [0 .. n - 1 -> Slot]
      BY <1>2
    <2>. QED  BY ONLY <1>1, <2>1, <2>2, <2>3, <2>4, GoodKept
  <1>5. Tallied(h, n, occupied - Cardinality(L), tombstones + Cardinality(L), len - Cardinality(L), cap, deferred)
    <2>1. /\ \A i \in 0 .. n - 1 : h[i].ctl = "occupied" <=> i \in Occ(slots, 0 .. n - 1) /\ i \notin L
          /\ \A i \in 0 .. n - 1 : h[i].ctl \in {"tombstone", "value_owed"} <=> i \in Vac(slots, 0 .. n - 1) \/ i \in L
      BY <1>2
    <2>2. Tallied(slots, n, occupied, tombstones, len, cap, deferred) /\ L \subseteq Occ(slots, 0 .. n - 1)
      BY DEF Kept
    <2>. QED  BY ONLY <1>1, <2>1, <2>2, TallyVacated
  <1>6. Ledger(h, n, owned \ given, deferred, next)
    <2>1. Ledger(slots, n, owned, deferred, phase)
      BY DEF Kept
    <2>2. /\ \A i \in 0 .. n - 1 : h[i].ctl \in {"occupied", "value_owed"} =>
                slots[i].ctl \in {"occupied", "value_owed"} /\ h[i].key = slots[i].key /\ h[i].g = slots[i].g
          /\ \A i \in 0 .. n - 1 : h[i].ctl = "occupied" => slots[i].ctl = "occupied"
          /\ (next = "running" => \A s \in 0 .. n - 1 : h[s].ctl # "value_owed")
      BY <1>2, <1>3 DEF Occ
    <2>3. /\ \A i \in 0 .. n - 1 : \A x : Claimed(h, i, x) => x \notin given
          /\ \A i \in 0 .. n - 1 : \A x : Claimed(slots, i, x) /\ x \notin given => Claimed(h, i, x)
      BY <1>2
    <2>. QED  BY ONLY <2>1, <2>2, <2>3, LedgerShrunk
  <1>7. Turns(Contents(slots), Contents(h))
    <2>1. Movable(slots, n) /\ Movable(h, n)
      BY <1>1, <1>4, GoodFacts
    <2>2. \A i \in 0 .. n - 1 : h[i].ctl = "occupied" =>
            i \in 0 .. n - 1 /\ slots[i].ctl = "occupied" /\ h[i].key = slots[i].key /\ h[i].g = slots[i].g
      BY <1>2 DEF Occ
    <2>. QED  BY ONLY <2>1, <2>2, TurnVacated
  <1>8. Good(slots', seed', n)
    BY <1>2, <1>4
  <1>9. Tallied(slots', n, occupied', tombstones', len', cap', deferred')
    BY <1>2, <1>5
  <1>10. Ledger(slots', n, owned', deferred', phase')
    BY <1>2, <1>3, <1>6
  <1>11. Flags(bound', deferred', phase', answer')
    BY FlagsAre DEF Flags
  <1>12. Turns(Contents(slots), Contents(slots'))
    BY <1>2, <1>7
  <1>. QED  BY <1>8, <1>9, <1>10, <1>11, <1>12, OnwardIs

\* map_remove.
LEMMA RemoveStep ==
  ASSUME MapKept, NEW k \in Key, Remove(k)
  PROVE  Onward
  <1>1. PICK n \in {0} \cup SlotCounts : Kept(n)
    BY DEF MapKept, Kept
  <1>2. bound' \in BOOLEAN /\ UNCHANGED bound
    BY FlagsAre DEF Remove, Flags
  <1>3. PICK at : at = map_probe(k)
    OBVIOUS
  <1>4. CASE at = -1 /\ Stay
    BY <1>2, <1>4, StayStep
  <1>5. CASE /\ at # -1 /\ Lose(1) /\ tombstones' = tombstones + 1 /\ UNCHANGED <<seed, cap, deferred>>
             /\ \/ /\ slots' = [slots EXCEPT ![at] = Tombstone]
                   /\ owned' = owned \ {k, <<k, slots[at].g>>} /\ answer' = "ok" /\ UNCHANGED phase
                \/ /\ slots' = [slots EXCEPT ![at] = PanicLeaves(at, "key")] /\ owned' = owned \ {k} /\ Panic
    <2>1. at \in 0 .. n - 1 /\ slots[at].ctl = "occupied" /\ slots[at].key = k
      BY <1>1, <1>3, <1>5, ProbeIs
    <2>2. n \in Nat /\ slots \in [0 .. n - 1 -> Slot] /\ Good(slots, seed, n) /\ Ledger(slots, n, owned, deferred, phase)
      BY <1>1, SlotsAre DEF Kept
    <2>3. slots[at].g \in Gen /\ <<k, slots[at].g>> # k /\ Claimed(slots, at, k) /\ Claimed(slots, at, <<k, slots[at].g>>)
      <3>1. slots[at] \in Slot
        BY <2>1, <2>2
      <3>2. slots[at].g \in Gen
        BY <3>1 DEF Slot
      <3>3. <<k, slots[at].g>> \notin Key
        BY <3>2, MapAssumption DEF Instance
      <3>. QED  BY <2>1, <3>2, <3>3 DEF Claimed
    <2>4. PICK L : L = {at}
      OBVIOUS
    <2>5. L \subseteq Occ(slots, 0 .. n - 1) /\ Cardinality(L) = 1
      BY <2>1, <2>4, FS_Singleton DEF Occ
    <2>6. occupied' = occupied - Cardinality(L) /\ len' = len - Cardinality(L) /\ tombstones' = tombstones + Cardinality(L)
      BY <1>5, <2>5 DEF Lose
    <2>7. PICK e : e = slots'[at]
      OBVIOUS
    <2>8. PICK given : owned' = owned \ given /\ given \subseteq {k, <<k, slots[at].g>>} /\ k \in given
                       /\ \/ e = Tombstone /\ <<k, slots[at].g>> \in given /\ phase' = phase /\ answer' = "ok"
                          \/ e = PanicLeaves(at, "key") /\ <<k, slots[at].g>> \notin given /\ Panic
      <3>1. CASE /\ slots' = [slots EXCEPT ![at] = Tombstone]
                 /\ owned' = owned \ {k, <<k, slots[at].g>>} /\ answer' = "ok" /\ UNCHANGED phase
        <4>1. e = Tombstone
          BY <2>1, <2>2, <2>7, <3>1
        <4>2. PICK G : G = {k, <<k, slots[at].g>>}
          OBVIOUS
        <4>3. owned' = owned \ G /\ G \subseteq {k, <<k, slots[at].g>>} /\ k \in G /\ <<k, slots[at].g>> \in G
          BY <3>1, <4>2
        <4>4. phase' = phase /\ answer' = "ok"
          BY <3>1
        <4>. QED  BY <4>1, <4>3, <4>4, Zenon
      <3>2. CASE /\ slots' = [slots EXCEPT ![at] = PanicLeaves(at, "key")] /\ owned' = owned \ {k} /\ Panic
        <4>1. e = PanicLeaves(at, "key")
          BY <2>1, <2>2, <2>7, <3>2
        <4>2. PICK G : G = {k}
          OBVIOUS
        <4>3. owned' = owned \ G /\ G \subseteq {k, <<k, slots[at].g>>} /\ k \in G /\ <<k, slots[at].g>> \notin G
          BY <2>3, <3>2, <4>2
        <4>. QED  BY <3>2, <4>1, <4>3, Zenon
      <3>. QED  BY <1>5, <3>1, <3>2
    <2>9. /\ e \in Slot /\ e.ctl \in {"tombstone", "value_owed"}
          /\ e.ctl = "value_owed" => /\ e.key = k /\ e.g = slots[at].g
                                     /\ <<k, slots[at].g>> \notin given /\ Panic
          /\ e.ctl = "tombstone" => <<k, slots[at].g>> \in given
      <3>1. /\ Tombstone \in Slot /\ Tombstone.ctl = "tombstone"
            /\ PanicLeaves(at, "key") \in Slot /\ PanicLeaves(at, "key").ctl = "value_owed"
            /\ PanicLeaves(at, "key").key = slots[at].key /\ PanicLeaves(at, "key").g = slots[at].g
        BY <1>1, <2>1, LeavesAre
      <3>. QED  BY <2>1, <2>8, <3>1
    <2>10. slots' \in [0 .. n - 1 -> Slot] /\ \A i \in 0 .. n - 1 : i # at => slots'[i] = slots[i]
      <3>1. slots' = [slots EXCEPT ![at] = e]
        BY <1>5, <2>1, <2>2, <2>7
      <3>. QED  BY <2>1, <2>2, <2>9, <3>1
    <2>11. /\ \A i \in 0 .. n - 1 : slots'[i].ctl = "occupied" <=> i \in Occ(slots, 0 .. n - 1) /\ i \notin L
           /\ \A i \in 0 .. n - 1 : slots'[i].ctl \in {"tombstone", "value_owed"} <=> i \in Vac(slots, 0 .. n - 1) \/ i \in L
      BY <2>1, <2>4, <2>7, <2>9, <2>10 DEF Occ, Vac
    <2>12. \A i \in 0 .. n - 1 : slots'[i].ctl \in {"occupied", "value_owed"} =>
             /\ slots[i].ctl \in {"occupied", "value_owed"}
             /\ slots'[i].key = slots[i].key /\ slots'[i].g = slots[i].g
      BY <2>1, <2>7, <2>9, <2>10
    <2>13. ASSUME NEW i \in 0 .. n - 1, NEW x, Claimed(slots', i, x) PROVE x \notin given
      <3>1. CASE i = at
        <4>1. e.ctl = "value_owed" /\ x = <<e.key, e.g>>
          BY <2>7, <2>9, <2>13, <3>1 DEF Claimed
        <4>. QED  BY <2>9, <4>1
      <3>2. CASE i # at
        <4>1. Claimed(slots, i, x)
          BY <2>10, <2>13, <3>2 DEF Claimed
        <4>2. ~Claimed(slots, at, x)
          BY <2>1, <2>2, <3>2, <4>1, ClaimOnce
        <4>. QED  BY <2>3, <2>8, <4>2
      <3>. QED  BY <3>1, <3>2
    <2>14. ASSUME NEW i \in 0 .. n - 1, NEW x, Claimed(slots, i, x), x \notin given PROVE Claimed(slots', i, x)
      <3>1. CASE i = at
        <4>1. x = <<k, slots[at].g>>
          BY <2>1, <2>8, <2>14, <3>1 DEF Claimed
        <4>2. e.ctl = "value_owed" /\ e.key = k /\ e.g = slots[at].g
          BY <2>9, <2>14, <4>1
        <4>. QED  BY <2>7, <3>1, <4>1, <4>2 DEF Claimed
      <3>2. CASE i # at
        BY <2>10, <2>14, <3>2 DEF Claimed
      <3>. QED  BY <3>1, <3>2
    <2>15. phase' = "running" => \A s \in 0 .. n - 1 : slots'[s].ctl # "value_owed"
      <3>1. ASSUME phase' = "running", NEW s \in 0 .. n - 1, slots'[s].ctl = "value_owed" PROVE FALSE
        <4>1. ~Panic
          BY <3>1 DEF Panic
        <4>2. phase = "running"
          BY <2>8, <3>1, <4>1
        <4>3. s # at
          BY <2>7, <2>9, <3>1, <4>1
        <4>. QED  BY <2>2, <2>10, <3>1, <4>2, <4>3 DEF Ledger
      <3>. QED  BY <3>1
    <2>16. phase' \in {"running", "unwinding", "ended"} /\ answer' \in {"ok", "panicked"}
      BY <2>8, FlagsAre DEF Panic, Flags
    <2>17. UNCHANGED <<seed, cap, bound, deferred>>
      BY <1>2, <1>5
    <2>. QED  BY <1>1, <2>5, <2>6, <2>8, <2>10, <2>11, <2>12, <2>13, <2>14, <2>15, <2>16, <2>17, VacateStep
  <1>. QED  BY <1>3, <1>4, <1>5 DEF Remove

\* What a hook or the caller is given of slot s is what the slot claims.
LEMMA GivenIs ==
  ASSUME NEW s, slots[s].ctl \in {"occupied", "value_owed"}, NEW x
  PROVE  /\ x \in GivenUpTo(s, "elem") <=> Claimed(slots, s, x)
         /\ x \in GivenUpTo(s, "key") <=> slots[s].ctl = "occupied" /\ x = slots[s].key
  BY DEF GivenUpTo, Claimed

\* A hook of slot s panics while every entry is being dropped.
LEMMA DropPanicsStep ==
  ASSUME MapKept, NEW s \in Holding, NEW hook \in Hooks(s), DropPanics(s, hook)
  PROVE  Onward
  <1>1. PICK n \in {0} \cup SlotCounts : Kept(n)
    BY DEF MapKept, Kept
  <1>2. /\ n \in Nat /\ slots \in [0 .. n - 1 -> Slot] /\ DOMAIN slots = 0 .. n - 1
        /\ Good(slots, seed, n) /\ Ledger(slots, n, owned, deferred, phase)
    BY <1>1, SlotsAre DEF Kept
  <1>3. phase = "running" /\ phase' = "unwinding" /\ answer' = "panicked"
    BY DEF DropPanics, Panic
  <1>4. \A i \in 0 .. n - 1 : slots[i].ctl # "value_owed"
    BY <1>2, <1>3 DEF Ledger
  <1>5. Holding = Occ(slots, 0 .. n - 1)
    BY <1>2, <1>4 DEF Holding, Occ
  <1>6. s \in 0 .. n - 1 /\ slots[s].ctl = "occupied"
    BY <1>5 DEF Occ
  <1>7. hook \in {"key", "elem"}
    BY <1>6 DEF Hooks
  <1>8. PICK below : below = {i \in Holding : i < s}
    OBVIOUS
  <1>9. PICK L : L = below \cup {s}
    OBVIOUS
  <1>10. L \subseteq Occ(slots, 0 .. n - 1) /\ below \subseteq 0 .. n - 1 /\ s \notin below
    <2>1. s \notin below
      BY <1>6, <1>8
    <2>. QED  BY <1>5, <1>8, <1>9, <2>1 DEF Occ
  <1>11. Entries(below \cup {s}) = Cardinality(L)
    <2>1. {i \in L : slots[i].ctl = "occupied"} = L
      BY <1>10 DEF Occ
    <2>. QED  BY <1>9, <2>1 DEF Entries
  <1>12. slots' = [i \in 0 .. n - 1 |-> IF i \in below THEN Tombstone ELSE IF i = s THEN PanicLeaves(s, hook) ELSE slots[i]]
    BY <1>2, <1>8 DEF DropPanics
  <1>13. occupied' = occupied - Cardinality(L) /\ len' = len - Cardinality(L) /\ tombstones' = tombstones + Cardinality(L)
    BY <1>8, <1>11 DEF DropPanics, Lose
  <1>14. PICK given : given = GivenUpTo(s, hook) \cup UNION {GivenUpTo(i, "elem") : i \in below}
    OBVIOUS
  <1>15. owned' = owned \ given
    BY <1>8, <1>14 DEF DropPanics
  <1>16. \A x : x \in given <=> x \in GivenUpTo(s, hook) \/ \E i \in below : Claimed(slots, i, x)
    <2>1. \A i \in below : slots[i].ctl \in {"occupied", "value_owed"}
      BY <1>9, <1>10 DEF Occ
    <2>2. \A i \in below : \A x : x \in GivenUpTo(i, "elem") <=> Claimed(slots, i, x)
      BY <2>1, GivenIs
    <2>. QED  BY <1>14, <2>2
  <1>17. \A x : x \in GivenUpTo(s, hook) <=> (IF hook = "key" THEN x = slots[s].key ELSE Claimed(slots, s, x))
    BY <1>6, <1>7, GivenIs
  <1>18. \A x : x \in GivenUpTo(s, hook) => Claimed(slots, s, x)
    BY <1>6, <1>17 DEF Claimed
  <1>19. /\ Tombstone \in Slot /\ Tombstone.ctl = "tombstone"
         /\ PanicLeaves(s, hook) \in Slot /\ PanicLeaves(s, hook).ctl \in {"tombstone", "value_owed"}
         /\ hook = "key" => /\ PanicLeaves(s, hook).ctl = "value_owed"
                            /\ PanicLeaves(s, hook).key = slots[s].key /\ PanicLeaves(s, hook).g = slots[s].g
         /\ hook # "key" => PanicLeaves(s, hook) = Tombstone
    BY <1>1, <1>6, LeavesAre
  <1>20. PICK e : e = PanicLeaves(s, hook)
    OBVIOUS
  <1>21. /\ slots' \in [0 .. n - 1 -> Slot]
         /\ \A i \in 0 .. n - 1 : i \in below => slots'[i] = Tombstone
         /\ slots'[s] = e
         /\ \A i \in 0 .. n - 1 : i \notin below /\ i # s => slots'[i] = slots[i]
    BY <1>2, <1>6, <1>10, <1>12, <1>19, <1>20
  <1>22. /\ e.ctl \in {"tombstone", "value_owed"}
         /\ (hook = "key" => e.ctl = "value_owed" /\ e.key = slots[s].key /\ e.g = slots[s].g)
         /\ (hook # "key" => e.ctl = "tombstone")
    BY <1>19, <1>20
  <1>23. /\ \A i \in 0 .. n - 1 : slots'[i].ctl = "occupied" <=> i \in Occ(slots, 0 .. n - 1) /\ i \notin L
         /\ \A i \in 0 .. n - 1 : slots'[i].ctl \in {"tombstone", "value_owed"} <=> i \in Vac(slots, 0 .. n - 1) \/ i \in L
    <2>1. ASSUME NEW i \in 0 .. n - 1
          PROVE  /\ slots'[i].ctl = "occupied" <=> i \in Occ(slots, 0 .. n - 1) /\ i \notin L
                 /\ slots'[i].ctl \in {"tombstone", "value_owed"} <=> i \in Vac(slots, 0 .. n - 1) \/ i \in L
      <3>1. CASE i \in below
        <4>1. slots'[i].ctl = "tombstone" /\ i \in L
          BY <1>9, <1>19, <1>21, <3>1
        <4>. QED  BY <4>1
      <3>2. CASE i = s
        <4>1. slots'[i].ctl \in {"tombstone", "value_owed"} /\ i \in L
          BY <1>9, <1>21, <1>22, <3>2
        <4>. QED  BY <4>1
      <3>3. CASE i \notin below /\ i # s
        <4>1. slots'[i] = slots[i] /\ i \notin L
          BY <1>9, <1>21, <3>3
        <4>. QED  BY <4>1 DEF Occ, Vac
      <3>. QED  BY <3>1, <3>2, <3>3
    <2>. QED  BY <2>1
  <1>24. ASSUME NEW i \in 0 .. n - 1, slots'[i].ctl \in {"occupied", "value_owed"}
         PROVE  /\ slots[i].ctl \in {"occupied", "value_owed"}
                /\ slots'[i].key = slots[i].key /\ slots'[i].g = slots[i].g
    <2>1. i \notin below
      BY <1>19, <1>21, <1>24
    <2>2. CASE i = s
      BY <1>6, <1>21, <1>22, <1>24, <2>2
    <2>3. CASE i # s
      BY <1>21, <1>24, <2>1, <2>3
    <2>. QED  BY <2>2, <2>3
  <1>25. ASSUME NEW i \in 0 .. n - 1, NEW x, Claimed(slots', i, x), x \in given PROVE FALSE
    <2>1. Claimed(slots, i, x)
      BY <1>23, <1>24, <1>25 DEF Claimed, Occ
    <2>2. PICK j \in L : Claimed(slots, j, x)
      BY <1>9, <1>16, <1>18, <1>25
    <2>3. j \in 0 .. n - 1
      BY <1>10 DEF Occ
    <2>4. i = j
      BY <1>2, <2>1, <2>2, <2>3, ClaimOnce
    <2>5. i = s
      <3>1. i \notin below
        BY <1>19, <1>21, <1>25 DEF Claimed
      <3>. QED  BY <1>9, <2>4, <3>1
    <2>6. hook = "key" /\ x = <<slots[s].key, slots[s].g>>
      BY <1>21, <1>22, <1>25, <2>5 DEF Claimed
    <2>7. \A b \in below : ~Claimed(slots, b, x)
      BY <1>2, <1>10, <2>1, <2>5, ClaimOnce
    <2>8. x = slots[s].key
      BY <1>16, <1>17, <1>25, <2>6, <2>7
    <2>9. slots[s].key \in Key /\ slots[s].g \in Gen
      <3>1. slots[s] \in Slot
        BY <1>2, <1>6
      <3>2. slots[s].g \in Gen
        BY <3>1 DEF Slot
      <3>3. slots[s].key \in Key
        BY <1>2, <1>6, GoodFacts
      <3>. QED  BY <3>2, <3>3
    <2>10. <<slots[s].key, slots[s].g>> \notin Key
      BY <2>9, MapAssumption DEF Instance
    <2>. QED  BY <2>6, <2>8, <2>9, <2>10
  <1>26. ASSUME NEW i \in 0 .. n - 1, NEW x, Claimed(slots, i, x), x \notin given PROVE Claimed(slots', i, x)
    <2>1. i \notin below
      BY <1>16, <1>26
    <2>2. CASE i = s
      <3>1. hook = "key" /\ x = <<slots[s].key, slots[s].g>>
        BY <1>16, <1>17, <1>26, <2>2 DEF Claimed
      <3>. QED  BY <1>21, <1>22, <2>2, <3>1 DEF Claimed
    <2>3. CASE i # s
      BY <1>21, <1>26, <2>1, <2>3 DEF Claimed
    <2>. QED  BY <2>2, <2>3
  <1>27. UNCHANGED <<seed, cap, bound, deferred>>
    BY DEF DropPanics
  <1>28. phase' # "running"
    BY <1>3
  <1>. QED  BY <1>1, <1>3, <1>10, <1>13, <1>15, <1>21, <1>23, <1>24, <1>25, <1>26, <1>27, <1>28, VacateStep

\* Every entry is dropped: the slots are emptied, or there is no table any more.
LEMMA EmptyStep ==
  ASSUME MapKept, NEW m \in {0} \cup SlotCounts, Good(slots', seed', m), \A i \in 0 .. m - 1 : slots'[i].ctl = "empty",
         occupied' = 0, tombstones' = 0, len' = 0, cap' = map_capacity_of(m), owned' = owned \ AllGiven,
         UNCHANGED deferred, Flags(bound', deferred', phase', answer')
  PROVE  Onward
  <1>1. PICK n \in {0} \cup SlotCounts : Kept(n)
    BY DEF MapKept, Kept
  <1>2. PICK h : h = slots'
    OBVIOUS
  <1>3. PICK next : next = phase'
    OBVIOUS
  <1>4. Tallied(h, m, 0, 0, 0, map_capacity_of(m), deferred)
    <2>1. \A i \in 0 .. m - 1 : h[i].ctl = "empty"
      BY <1>2
    <2>. QED  BY <2>1, TallyEmptied
  <1>5. Ledger(h, m, owned \ AllGiven, deferred, next)
    <2>1. \A i \in 0 .. n - 1 : \A x : Claimed(slots, i, x) => x \in AllGiven
      BY <1>1, HeldIs
    <2>2. Ledger(slots, n, owned, deferred, phase)
      BY <1>1 DEF Kept
    <2>3. \A i \in 0 .. m - 1 : h[i].ctl = "empty"
      BY <1>2
    <2>. QED  BY ONLY <2>1, <2>2, <2>3, LedgerEmptied
  <1>6. Turns(Contents(slots), Contents(h))
    <2>1. Good(slots, seed, n)
      BY <1>1 DEF Kept
    <2>2. Movable(slots, n)
      BY <2>1, GoodFacts
    <2>3. Movable(h, m)
      BY <1>2, GoodFacts
    <2>4. \A i \in 0 .. m - 1 : h[i].ctl = "empty"
      BY <1>2
    <2>5. \A i \in 0 .. m - 1 : h[i].ctl = "occupied" =>
            i \in 0 .. n - 1 /\ slots[i].ctl = "occupied" /\ h[i].key = slots[i].key /\ h[i].g = slots[i].g
      BY <2>4
    <2>. QED  BY ONLY <2>2, <2>3, <2>5, TurnVacated
  <1>7. Tallied(slots', m, occupied', tombstones', len', cap', deferred')
    BY <1>2, <1>4
  <1>8. Ledger(slots', m, owned', deferred', phase')
    BY <1>2, <1>3, <1>5
  <1>9. Turns(Contents(slots), Contents(slots'))
    BY <1>2, <1>6
  <1>. QED  BY <1>7, <1>8, <1>9, OnwardIs

\* No table.
LEMMA NoTableIs ==
  ASSUME NEW sd, sd = NoSeed
  PROVE  Good(<<>>, sd, 0) /\ 0 .. 0 - 1 = {} /\ map_capacity_of(0) = 0
  <1>1. 0 .. 0 - 1 = {}
    OBVIOUS
  <1>2. <<>> \in [{} -> Slot]
    OBVIOUS
  <1>3. Good(<<>>, sd, 0)
    BY <1>1, <1>2 DEF Good
  <1>4. map_capacity_of(0) \in Nat /\ map_capacity_of(0) <= 0
    BY CapIs
  <1>. QED  BY <1>1, <1>3, <1>4

\* map_clear.
LEMMA ClearStep ==
  ASSUME MapKept, Clear
  PROVE  Onward
  <1>1. PICK n \in {0} \cup SlotCounts : Kept(n)
    BY DEF MapKept, Kept
  <1>2. /\ n \in SlotCounts /\ DOMAIN slots = 0 .. n - 1
    BY <1>1, SlotsAre DEF Clear
  <1>3. CASE \E s \in Holding : \E hook \in Hooks(s) : DropPanics(s, hook)
    BY <1>3, DropPanicsStep
  <1>4. CASE /\ slots' = [s \in DOMAIN slots |-> EmptySlot] /\ occupied' = 0 /\ tombstones' = 0 /\ len' = 0
             /\ owned' = owned \ AllGiven /\ answer' = "ok" /\ UNCHANGED <<seed, cap, bound, phase, deferred>>
    <2>1. n \in Nat /\ n # 0
      BY <1>2, CountFacts
    <2>2. seed \in Seeds
      <3>1. TableOK([slots |-> slots, seed |-> seed], n)
        BY <1>1, <2>1, GoodFacts DEF Kept
      <3>2. PICK t : t = [slots |-> slots, seed |-> seed]
        OBVIOUS
      <3>3. t \in Tables(n) /\ t.seed = seed
        BY <3>1, <3>2 DEF TableOK
      <3>. QED  BY <3>3 DEF Tables
    <2>3. TableOK([slots |-> [i \in 0 .. n - 1 |-> EmptySlot], seed |-> seed], n)
      BY <2>1, <2>2, TableEmpty
    <2>4. slots' = [i \in 0 .. n - 1 |-> EmptySlot] /\ seed' = seed
      BY <1>2, <1>4
    <2>5. Good(slots', seed', n)
      BY <1>2, <2>3, <2>4 DEF Good
    <2>6. \A i \in 0 .. n - 1 : slots'[i].ctl = "empty"
      BY <2>4 DEF EmptySlot
    <2>7. cap' = map_capacity_of(n)
      BY <1>1, <1>4 DEF Kept, Tallied
    <2>8. Flags(bound', deferred', phase', answer')
      BY <1>4, FlagsAre DEF Flags
    <2>. QED  BY <1>4, <2>5, <2>6, <2>7, <2>8, EmptyStep
  <1>. QED  BY <1>3, <1>4 DEF Clear

\* map_drop.
LEMMA DropStep ==
  ASSUME MapKept, Drop
  PROVE  Onward
  <1>1. CASE \E s \in Holding : \E hook \in Hooks(s) : DropPanics(s, hook)
    BY <1>1, DropPanicsStep
  <1>2. CASE /\ slots' = <<>> /\ seed' = NoSeed /\ occupied' = 0 /\ tombstones' = 0
             /\ len' = 0 /\ cap' = 0 /\ bound' = FALSE /\ owned' = owned \ AllGiven
             /\ phase' = (IF Unwinding THEN "ended" ELSE phase) /\ answer' = "ok" /\ UNCHANGED deferred
    <2>1. Good(slots', seed', 0) /\ 0 .. 0 - 1 = {} /\ cap' = map_capacity_of(0)
      BY <1>2, NoTableIs
    <2>2. Flags(bound', deferred', phase', answer')
      BY <1>2, FlagsAre DEF Flags
    <2>3. \A i \in 0 .. 0 - 1 : slots'[i].ctl = "empty"
      BY <2>1
    <2>. QED  BY <1>2, <2>1, <2>2, <2>3, EmptyStep
  <1>. QED  BY <1>1, <1>2 DEF Drop

\* Every value is replaced by one the ledger does not have, and an owed one is given up.
LEMMA LedgerCloned ==
  ASSUME NEW n, NEW f, NEW sd, Good(f, sd, n), NEW own, NEW def, NEW ph, Ledger(f, n, own, def, ph), NEW h, NEW mine,
         \A i \in 0 .. n - 1 : h[i].ctl = "occupied" <=> f[i].ctl = "occupied",
         \A i \in 0 .. n - 1 : h[i].ctl # "value_owed",
         \A i \in 0 .. n - 1 : f[i].ctl = "occupied" => h[i].key = f[i].key /\ h[i].g \in Gen,
         \A x : x \in mine <=>
            \/ x \in own /\ \A s \in 0 .. n - 1 : f[s].ctl \in {"occupied", "value_owed"} => x # <<f[s].key, f[s].g>>
            \/ \E s \in 0 .. n - 1 : f[s].ctl = "occupied" /\ x = <<h[s].key, h[s].g>>
  PROVE  Ledger(h, n, mine, def, ph)
  <1>1. /\ \A s \in 0 .. n - 1 : f[s].ctl \in {"occupied", "value_owed"} => f[s].key \in Key /\ f[s].g \in Gen
        /\ \A s, u \in 0 .. n - 1 : f[s].ctl = "occupied" /\ f[u].ctl = "occupied" /\ f[s].key = f[u].key => s = u
    <2>1. \A s \in 0 .. n - 1 : f[s].ctl \in {"occupied", "value_owed"} => f[s].key \in Key
      BY GoodFacts
    <2>2. f \in [0 .. n - 1 -> Slot] /\ Movable(f, n)
      BY GoodFacts
    <2>3. \A s \in 0 .. n - 1 : f[s].g \in Gen
      BY <2>2 DEF Slot
    <2>4. \A s, u \in 0 .. n - 1 : f[s].ctl = "occupied" /\ f[u].ctl = "occupied" /\ f[s].key = f[u].key => s = u
      BY <2>2 DEF Movable
    <2>. QED  BY <2>1, <2>3, <2>4
  <1>2. \A k \in Key, g \in Gen : <<k, g>> \in Instance /\ <<k, g>> \notin Key
    BY MapAssumption DEF Instance
  <1>3. mine \subseteq Key \cup Instance
    <2>1. ASSUME NEW x \in mine PROVE x \in Key \cup Instance
      <3>1. CASE x \in own
        BY <3>1 DEF Ledger
      <3>2. CASE x \notin own
        <4>1. PICK s \in 0 .. n - 1 : f[s].ctl = "occupied" /\ x = <<h[s].key, h[s].g>>
          BY <2>1, <3>2
        <4>2. h[s].key \in Key /\ h[s].g \in Gen
          BY <1>1, <4>1
        <4>. QED  BY <1>2, <4>1, <4>2
      <3>. QED  BY <3>1, <3>2
    <2>. QED  BY <2>1
  <1>4. ASSUME NEW s \in 0 .. n - 1, NEW v \in 0 .. n - 1,
               h[s].ctl \in {"occupied", "value_owed"}, h[v].ctl \in {"occupied", "value_owed"},
               h[s].key = h[v].key, h[s].g = h[v].g
        PROVE  s = v
    <2>1. f[s].ctl = "occupied" /\ f[v].ctl = "occupied"
      BY <1>4
    <2>. QED  BY <1>1, <1>4, <2>1
  <1>5. ASSUME NEW s \in 0 .. n - 1, NEW x, Claimed(h, s, x) PROVE x \in mine
    <2>1. h[s].ctl = "occupied" /\ (x = h[s].key \/ x = <<h[s].key, h[s].g>>)
      BY <1>5 DEF Claimed
    <2>2. f[s].ctl = "occupied" /\ h[s].key = f[s].key
      BY <2>1
    <2>3. CASE x = <<h[s].key, h[s].g>>
      BY <2>2, <2>3
    <2>4. CASE x = h[s].key
      <3>1. Claimed(f, s, x)
        BY <2>2, <2>4 DEF Claimed
      <3>2. x \in own
        BY <3>1 DEF Ledger
      <3>3. x \in Key
        BY <1>1, <2>2, <2>4
      <3>4. \A u \in 0 .. n - 1 : f[u].ctl \in {"occupied", "value_owed"} => x # <<f[u].key, f[u].g>>
        BY <1>1, <1>2, <3>3
      <3>. QED  BY <3>2, <3>4
    <2>. QED  BY <2>1, <2>3, <2>4
  <1>6. ASSUME ~def, NEW x \in mine PROVE \E s \in 0 .. n - 1 : Claimed(h, s, x)
    <2>1. CASE \E s \in 0 .. n - 1 : f[s].ctl = "occupied" /\ x = <<h[s].key, h[s].g>>
      <3>1. PICK s \in 0 .. n - 1 : f[s].ctl = "occupied" /\ x = <<h[s].key, h[s].g>>
        BY <2>1
      <3>2. Claimed(h, s, x)
        BY <3>1 DEF Claimed
      <3>. QED  BY <3>2
    <2>2. CASE x \in own /\ \A s \in 0 .. n - 1 : f[s].ctl \in {"occupied", "value_owed"} => x # <<f[s].key, f[s].g>>
      <3>1. PICK s \in 0 .. n - 1 : Claimed(f, s, x)
        BY <1>6, <2>2 DEF Ledger
      <3>2. f[s].ctl = "occupied" /\ x = f[s].key
        BY <2>2, <3>1 DEF Claimed
      <3>3. Claimed(h, s, x)
        BY <3>2 DEF Claimed
      <3>. QED  BY <3>3
    <2>. QED  BY <1>6, <2>1, <2>2
  <1>. QED  BY <1>3, <1>4, <1>5, <1>6 DEF Ledger

\* The clone takes the map's place.
LEMMA CloneStep ==
  ASSUME MapKept, CloneAndDrop
  PROVE  Onward
  <1>1. PICK n \in {0} \cup SlotCounts : Kept(n)
    BY DEF MapKept, Kept
  <1>2. /\ n \in Nat /\ slots \in [0 .. n - 1 -> Slot] /\ DOMAIN slots = 0 .. n - 1
        /\ Good(slots, seed, n) /\ Ledger(slots, n, owned, deferred, phase)
    BY <1>1, SlotsAre DEF Kept
  <1>3. CASE len > 0 /\ Refuse /\ UNCHANGED bound
    <2>1. bound' \in BOOLEAN
      BY <1>3, FlagsAre DEF Flags
    <2>. QED  BY <1>3, <2>1, RefuseStep
  <1>4. CASE len > 0 /\ Panic /\ UNCHANGED <<table, len, cap, bound, owned, deferred>>
    BY <1>4, PanicStep
  <1>5. CASE /\ \A s \in Holding : Fresh(slots[s].key) # {}
             /\ slots' = [s \in DOMAIN slots |->
                            CASE slots[s].ctl = "occupied" -> [slots[s] EXCEPT !.g = Least(Fresh(slots[s].key))]
                              [] slots[s].ctl = "value_owed" -> Tombstone
                              [] OTHER -> slots[s]]
             /\ owned' = (owned \ {<<slots[s].key, slots[s].g>> : s \in Holding})
                         \cup {<<slots[s].key, Least(Fresh(slots[s].key))>> :
                                s \in {i \in Holding : slots[i].ctl = "occupied"}}
             /\ bound' = TRUE /\ answer' = "ok"
             /\ UNCHANGED <<seed, occupied, tombstones, len, cap, phase, deferred>>
    <2>1. PICK h : h = slots'
      OBVIOUS
    <2>2. \A s : s \in Holding <=> s \in 0 .. n - 1 /\ slots[s].ctl \in {"occupied", "value_owed"}
      BY <1>2 DEF Holding
    <2>3. ASSUME NEW i \in 0 .. n - 1
          PROVE  /\ h[i] \in Slot
                 /\ slots[i].ctl = "occupied" => /\ h[i].ctl = "occupied" /\ h[i].key = slots[i].key
                                                 /\ h[i].g = Least(Fresh(slots[i].key)) /\ h[i].g \in Gen
                 /\ slots[i].ctl = "value_owed" => h[i].ctl = "tombstone"
                 /\ slots[i].ctl \notin {"occupied", "value_owed"} => h[i].ctl = slots[i].ctl
      <3>1. slots[i] \in Slot
        BY <1>2
      <3>2. CASE slots[i].ctl = "occupied"
        <4>1. PICK g : g = Least(Fresh(slots[i].key))
          OBVIOUS
        <4>2. g \in Gen
          BY <1>5, <2>2, <3>2, <4>1, FreshIs
        <4>3. h[i] = [slots[i] EXCEPT !.g = g]
          BY <1>2, <1>5, <2>1, <3>2, <4>1
        <4>4. h[i] \in Slot /\ h[i].ctl = "occupied" /\ h[i].key = slots[i].key /\ h[i].g = g
          BY <3>1, <3>2, <4>2, <4>3 DEF Slot
        <4>. QED  BY <3>2, <4>1, <4>2, <4>4
      <3>3. CASE slots[i].ctl = "value_owed"
        <4>1. h[i] = Tombstone
          BY <1>2, <1>5, <2>1, <3>3
        <4>. QED  BY <3>3, <4>1 DEF Tombstone, Slot, Control, Gen
      <3>4. CASE slots[i].ctl \notin {"occupied", "value_owed"}
        <4>1. h[i] = slots[i]
          BY <1>2, <1>5, <2>1, <3>4
        <4>. QED  BY <3>1, <3>4, <4>1
      <3>. QED  BY <3>2, <3>3, <3>4
    <2>4. h \in [0 .. n - 1 -> Slot]
      <3>1. h = [i \in 0 .. n - 1 |-> h[i]]
        <4>. DEFINE val(s) == CASE slots[s].ctl = "occupied" -> [slots[s] EXCEPT !.g = Least(Fresh(slots[s].key))]
                                [] slots[s].ctl = "value_owed" -> Tombstone
                                [] OTHER -> slots[s]
        <4>1. h = [s \in 0 .. n - 1 |-> val(s)]
          BY <1>2, <1>5, <2>1
        <4>. HIDE DEF val
        <4>. QED  BY <4>1
      <3>. QED  BY <2>3, <3>1
    <2>5. /\ \A i \in 0 .. n - 1 : h[i].ctl = "occupied" <=> slots[i].ctl = "occupied"
          /\ \A i \in 0 .. n - 1 : h[i].ctl \in {"tombstone", "value_owed"} <=> slots[i].ctl \in {"tombstone", "value_owed"}
          /\ \A i \in 0 .. n - 1 : h[i].ctl # "value_owed"
          /\ \A i \in 0 .. n - 1 : slots[i].ctl = "occupied" => h[i].key = slots[i].key /\ h[i].g \in Gen
      <3>1. ASSUME NEW i \in 0 .. n - 1
            PROVE  /\ h[i].ctl = "occupied" <=> slots[i].ctl = "occupied"
                   /\ h[i].ctl \in {"tombstone", "value_owed"} <=> slots[i].ctl \in {"tombstone", "value_owed"}
                   /\ h[i].ctl # "value_owed"
        BY <2>3
      <3>. QED  BY <2>3, <3>1
    <2>6. Good(h, seed, n)
      <3>1. /\ \A s \in 0 .. n - 1 : h[s].ctl = "occupied" => slots[s].ctl = "occupied" /\ slots[s].key = h[s].key
            /\ \A s \in 0 .. n - 1 : h[s].ctl = "value_owed" => h[s].key \in Key
        BY <2>5
      <3>2. \A s \in 0 .. n - 1 : slots[s].ctl # "empty" => h[s].ctl # "empty"
        BY <2>3
      <3>. QED  BY ONLY <1>2, <2>4, <3>1, <3>2, GoodKept
    <2>7. Tallied(h, n, occupied, tombstones, len, cap, deferred)
      <3>1. Tallied(slots, n, occupied, tombstones, len, cap, deferred)
        BY <1>1 DEF Kept
      <3>. QED  BY ONLY <1>2, <2>5, <3>1, TallySame
    <2>8. PICK mine : mine = owned'
      OBVIOUS
    <2>9. ASSUME NEW x
          PROVE  x \in mine <=>
                    \/ x \in owned /\ \A s \in 0 .. n - 1 : slots[s].ctl \in {"occupied", "value_owed"} => x # <<slots[s].key, slots[s].g>>
                    \/ \E s \in 0 .. n - 1 : slots[s].ctl = "occupied" /\ x = <<h[s].key, h[s].g>>
      <3>1. x \in mine <=> \/ x \in owned /\ \A s \in Holding : x # <<slots[s].key, slots[s].g>>
                           \/ \E s \in {i \in Holding : slots[i].ctl = "occupied"} : x = <<slots[s].key, Least(Fresh(slots[s].key))>>
        BY <1>5, <2>8
      <3>2. (\A s \in Holding : x # <<slots[s].key, slots[s].g>>)
            <=> \A s \in 0 .. n - 1 : slots[s].ctl \in {"occupied", "value_owed"} => x # <<slots[s].key, slots[s].g>>
        BY <2>2
      <3>3. (\E s \in {i \in Holding : slots[i].ctl = "occupied"} : x = <<slots[s].key, Least(Fresh(slots[s].key))>>)
            <=> \E s \in 0 .. n - 1 : slots[s].ctl = "occupied" /\ x = <<h[s].key, h[s].g>>
        <4>1. \A s \in 0 .. n - 1 : slots[s].ctl = "occupied" =>
                s \in Holding /\ <<h[s].key, h[s].g>> = <<slots[s].key, Least(Fresh(slots[s].key))>>
          BY <2>2, <2>3
        <4>. QED  BY <2>2, <4>1
      <3>. QED  BY <3>1, <3>2, <3>3
    <2>10. Ledger(h, n, mine, deferred, phase)
      BY ONLY <1>2, <2>5, <2>9, LedgerCloned
    <2>11. Turns(Contents(slots), Contents(h))
      <3>1. Movable(slots, n) /\ Movable(h, n)
        BY <1>2, <2>6, GoodFacts
      <3>. QED  BY <2>5, <3>1, TurnCloned
    <2>12. Good(slots', seed', n)
      BY <1>5, <2>1, <2>6
    <2>13. Tallied(slots', n, occupied', tombstones', len', cap', deferred')
      BY <1>5, <2>1, <2>7
    <2>14. Ledger(slots', n, owned', deferred', phase')
      BY <1>5, <2>1, <2>8, <2>10
    <2>15. Flags(bound', deferred', phase', answer')
      BY <1>5, FlagsAre DEF Flags
    <2>16. Turns(Contents(slots), Contents(slots'))
      BY <2>1, <2>11
    <2>. QED  BY <2>12, <2>13, <2>14, <2>15, <2>16, OnwardIs
  <1>6. CASE /\ len = 0
             /\ slots' = <<>> /\ seed' = NoSeed /\ occupied' = 0 /\ tombstones' = 0 /\ cap' = 0
             /\ owned' = owned \ AllGiven /\ bound' = TRUE /\ answer' = "ok"
             /\ UNCHANGED <<len, phase, deferred>>
    <2>1. Good(slots', seed', 0) /\ 0 .. 0 - 1 = {} /\ cap' = map_capacity_of(0) /\ len' = 0
      BY <1>6, NoTableIs
    <2>2. Flags(bound', deferred', phase', answer')
      BY <1>6, FlagsAre DEF Flags
    <2>3. \A i \in 0 .. 0 - 1 : slots'[i].ctl = "empty"
      BY <2>1
    <2>. QED  BY <1>6, <2>1, <2>2, <2>3, EmptyStep
  <1>. QED  BY <1>3, <1>4, <1>5, <1>6 DEF CloneAndDrop

\* Every step of the map.
LEMMA MapStep ==
  ASSUME MapKept, Next
  PROVE  Onward
  <1>1. CASE \E n \in Requests : Reserve(n) \/ Shrink(n)
    BY <1>1, ReserveStep, ShrinkStep
  <1>2. CASE \E k \in Key : Insert(k) \/ Remove(k)
    BY <1>2, InsertStep, RemoveStep
  <1>. QED  BY <1>1, <1>2, ClearStep, DropStep, CloneStep DEF Next

\* A step of the array leaves the map alone.
LEMMA MapUntouched ==
  ASSUME MapKept, UNCHANGED vars
  PROVE  Onward
  <1>1. Flags(bound', deferred', phase', answer')
    BY FlagsAre DEF vars
  <1>. QED  BY <1>1, OnwardSame DEF vars

\* Every step.
LEMMA EveryStep ==
  ASSUME MapKept, [MCNext]_all
  PROVE  Onward
  <1>1. CASE part = "map" /\ Next
    BY <1>1, MapStep
  <1>2. CASE UNCHANGED vars
    BY <1>2, MapUntouched
  <1>. QED  BY <1>1, <1>2 DEF MCNext, all

\* The zero map.
LEMMA MapStarts ==
  ASSUME Init
  PROVE  MapKept /\ Contents(slots) = <<>>
  <1>1. Good(<<>>, NoSeed, 0) /\ 0 .. 0 - 1 = {} /\ map_capacity_of(0) = 0
    BY NoTableIs
  <1>2. Good(slots, seed, 0)
    BY <1>1 DEF Init
  <1>3. Tallied(slots, 0, 0, 0, 0, map_capacity_of(0), FALSE)
    <2>1. \A i \in 0 .. 0 - 1 : slots[i].ctl = "empty"
      BY <1>1
    <2>. QED  BY <2>1, TallyEmptied
  <1>4. Tallied(slots, 0, occupied, tombstones, len, cap, deferred)
    BY <1>1, <1>3 DEF Init
  <1>5. Ledger(slots, 0, owned, deferred, phase)
    BY <1>1 DEF Ledger, Init
  <1>6. Flags(bound, deferred, phase, answer)
    BY DEF Flags, Init
  <1>7. MapKept
    BY <1>2, <1>4, <1>5, <1>6 DEF MapKept
  <1>8. Contents(slots) = <<>>
    <2>1. Movable(slots, 0)
      BY <1>2, GoodFacts
    <2>2. PICK c : c = Contents(slots) /\ StandsFor(c, slots, 0)
      BY <2>1, ContentsAre
    <2>3. DOMAIN c = {}
      BY <1>1, <2>2 DEF StandsFor
    <2>4. c = [k \in DOMAIN c |-> c[k]]
      BY <2>2 DEF StandsFor
    <2>5. c = [k \in {} |-> c[k]]
      BY <2>3, <2>4
    <2>6. [k \in {} |-> c[k]] = <<>>
      OBVIOUS
    <2>. QED  BY <2>2, <2>5, <2>6
  <1>. QED  BY <1>7, <1>8

\* The inductive invariant holds in every state.
LEMMA MapAlways == MCSpec => []MapKept
  <1>1. MCInit => MapKept
    BY MapStarts DEF MCInit
  <1>2. MapKept /\ [MCNext]_all => MapKept'
    BY EveryStep DEF Onward
  <1>. QED  BY <1>1, <1>2, PTL DEF MCSpec

\* The map's counters, probes and iterations agree with its slots, a slot is always left
\* empty, and no drop hook gets anything twice.
THEOREM MapInvariant == MCSpec => []Inv
  <1>1. MapKept => Inv
    BY KeptIsInv
  <1>. QED  BY <1>1, MapAlways, PTL

\* What was handed to the map and not given back is claimed by a slot.
THEOREM MapNothingLost == MCSpec => []NothingLost
  <1>1. MapKept => NothingLost
    BY KeptIsInv
  <1>. QED  BY <1>1, MapAlways, PTL

\* The table implements a function from keys to values.
THEOREM MapRefinement == MCSpec => ImplementsMap
  <1>1. MCInit => Abstract!Init
    <2>1. ASSUME MCInit PROVE Abstract!Init
      <3>1. Contents(slots) = <<>>
        BY <2>1, MapStarts DEF MCInit
      <3>. QED  BY <3>1 DEF Abstract!Init, Contents
    <2>. QED  BY <2>1
  <1>2. MapKept /\ [MCNext]_all => [Abstract!Next]_(Contents(slots))
    <2>1. ASSUME MapKept, [MCNext]_all PROVE Abstract!Next
      <3>1. Turns(Contents(slots), Contents(slots'))
        BY <2>1, EveryStep DEF Onward
      <3>. QED  BY <3>1 DEF Turns, Contents, Abstract!Next, Abstract!Insert, Abstract!Remove, Abstract!Without, Abstract!Clone
    <2>. QED  BY <2>1
  <1>. QED  BY <1>1, <1>2, MapAlways, PTL DEF MCSpec, ImplementsMap, Abstract!Spec, Contents

-----------------------------------------------------------------------------
(* Sorting: arrays of numbers *)

\* The array with two elements exchanged.
Swapped(s, x, y) == [s EXCEPT ![x] = s[y], ![y] = s[x]]

Within(r, x) == r.low <= x /\ x < r.high

\* Two elements out of order lie in one of the ranges R.
Paired(s, n, R) ==
    \A x, y \in 0 .. n - 1 : x < y => s[x] <= s[y] \/ \E r \in R : Within(r, x) /\ Within(r, y)

Apart(r, q) == \A x \in Int : ~(Within(r, x) /\ Within(q, x))

\* c is a child of the node n in a heap that begins at lo.
Kid(lo, n, c) == c = 2 * (n - lo) + 1 + lo \/ c = 2 * (n - lo) + 2 + lo

\* From the node `from` on, no child is above its parent.
Heap(s, lo, from, end) ==
    \A n \in from .. end - 1, c \in lo .. end - 1 : Kid(lo, n, c) => s[c] <= s[n]

\* The same but for the children of `gap`, which its parent is not below.
HeapBut(s, lo, from, end, gap) ==
    /\ \A n \in from .. end - 1, c \in lo .. end - 1 : n # gap /\ Kid(lo, n, c) => s[c] <= s[n]
    /\ \A n \in from .. end - 1, c \in lo .. end - 1 : Kid(lo, n, gap) /\ Kid(lo, gap, c) => s[c] <= s[n]

\* From `end` on the range is sorted, and nothing before is greater.
Topped(s, lo, end, hi) == \A x \in lo .. hi - 1, y \in end .. hi - 1 : x < y => s[x] <= s[y]

\* What partitioning has found, below and above the pivot v.
Lower(s, lo, e, v) == \A x \in lo + 1 .. e : s[x] <= v
Upper(s, b, hi, v) == \A x \in b .. hi - 1 : v <= s[x]

\* Up to the element m on its way down, and after it up to e, the range is sorted.
Inserting(s, lo, hi, e, m) == \A x, y \in lo .. hi - 1 : x < y /\ y <= e /\ y # m => s[x] <= s[y]

\* An array of n numbers.
Numbers(n) == [0 .. n - 1 -> Int]

\* What an exchange does.
LEMMA SwappedIs ==
  ASSUME NEW n \in Nat, NEW s \in Numbers(n), NEW x \in 0 .. n - 1, NEW y \in 0 .. n - 1
  PROVE  /\ Swapped(s, x, y) \in Numbers(n)
         /\ Swapped(s, x, y)[x] = s[y] /\ Swapped(s, x, y)[y] = s[x]
         /\ \A z \in 0 .. n - 1 : z # x /\ z # y => Swapped(s, x, y)[z] = s[z]
  BY DEF Swapped, Numbers

\* An exchange within a range leaves what is out of order in one range.
LEMMA PairedSwap ==
  ASSUME NEW n \in Nat, NEW s \in Numbers(n), NEW R, NEW r \in R,
         r.low \in Nat, r.high \in Nat, r.high <= n,
         \A q \in R : q # r => Apart(r, q),
         NEW x \in r.low .. r.high - 1, NEW y \in r.low .. r.high - 1,
         Paired(s, n, R)
  PROVE  Paired(Swapped(s, x, y), n, R)
  <1>1. PICK t : t = Swapped(s, x, y)
    OBVIOUS
  <1>2. x \in 0 .. n - 1 /\ y \in 0 .. n - 1
    OBVIOUS
  <1>3. /\ t[x] = s[y] /\ t[y] = s[x]
        /\ \A z \in 0 .. n - 1 : z # x /\ z # y => t[z] = s[z]
    BY ONLY n \in Nat, s \in Numbers(n), <1>1, <1>2, SwappedIs
  <1>4. ASSUME NEW u \in 0 .. n - 1, NEW v \in 0 .. n - 1, u < v
        PROVE  t[u] <= t[v] \/ \E q \in R : Within(q, u) /\ Within(q, v)
    <2>1. CASE Within(r, u) /\ Within(r, v)
      BY <2>1
    <2>2. CASE ~Within(r, u) /\ ~Within(r, v)
      <3>1. t[u] = s[u] /\ t[v] = s[v]
        BY <1>3, <2>2 DEF Within
      <3>. QED  BY <1>4, <3>1 DEF Paired
    <2>3. CASE Within(r, u) /\ ~Within(r, v)
      <3>1. t[v] = s[v] /\ r.high <= v
        BY <1>3, <1>4, <2>3 DEF Within
      <3>2. PICK w \in 0 .. n - 1 : t[u] = s[w] /\ Within(r, w)
        BY <1>2, <1>3, <2>3 DEF Within
      <3>3. w < v
        BY <3>1, <3>2 DEF Within
      <3>4. s[w] <= s[v] \/ \E q \in R : Within(q, w) /\ Within(q, v)
        BY <3>3 DEF Paired
      <3>5. ASSUME NEW q \in R, Within(q, w), Within(q, v) PROVE FALSE
        <4>1. q # r
          BY <2>3, <3>5
        <4>. QED  BY <3>2, <3>5, <4>1 DEF Apart
      <3>. QED  BY <3>1, <3>2, <3>4, <3>5
    <2>4. CASE ~Within(r, u) /\ Within(r, v)
      <3>1. t[u] = s[u] /\ u < r.low
        BY <1>3, <1>4, <2>4 DEF Within
      <3>2. PICK w \in 0 .. n - 1 : t[v] = s[w] /\ Within(r, w)
        BY <1>2, <1>3, <2>4 DEF Within
      <3>3. u < w
        BY <3>1, <3>2 DEF Within
      <3>4. s[u] <= s[w] \/ \E q \in R : Within(q, u) /\ Within(q, w)
        BY <3>3 DEF Paired
      <3>5. ASSUME NEW q \in R, Within(q, u), Within(q, w) PROVE FALSE
        <4>1. q # r
          BY <2>4, <3>5
        <4>. QED  BY <3>2, <3>5, <4>1 DEF Apart
      <3>. QED  BY <3>1, <3>2, <3>4, <3>5
    <2>. QED  BY <2>1, <2>2, <2>3, <2>4
  <1>. QED  BY <1>1, <1>4 DEF Paired

\* A range that is sorted need not be kept.
LEMMA PairedSorted ==
  ASSUME NEW n \in Nat, NEW s, NEW R, NEW Q, NEW r,
         \A q \in R : q = r \/ q \in Q,
         \A x, y \in 0 .. n - 1 : x < y /\ Within(r, x) /\ Within(r, y) => s[x] <= s[y],
         Paired(s, n, R)
  PROVE  Paired(s, n, Q)
  <1>1. ASSUME NEW x \in 0 .. n - 1, NEW y \in 0 .. n - 1, x < y
        PROVE  s[x] <= s[y] \/ \E q \in Q : Within(q, x) /\ Within(q, y)
    <2>1. s[x] <= s[y] \/ \E q \in R : Within(q, x) /\ Within(q, y)
      BY <1>1 DEF Paired
    <2>. QED  BY <1>1, <2>1
  <1>. QED  BY <1>1 DEF Paired

\* A range around a pivot in its place can be kept as its two sides.
LEMMA PairedSplit ==
  ASSUME NEW n \in Nat, NEW s \in Numbers(n), NEW R, NEW Q, NEW r, NEW b, NEW c, NEW p \in 0 .. n - 1,
         r.low \in Nat, r.high \in Nat, r.high <= n,
         r.low <= p, p < r.high,
         b.low = r.low, b.high = p, c.low = p + 1, c.high = r.high,
         \A q \in R : q = r \/ q \in Q, b \in Q, c \in Q,
         \A x \in r.low .. p - 1 : s[x] <= s[p],
         \A x \in p + 1 .. r.high - 1 : s[p] <= s[x],
         Paired(s, n, R)
  PROVE  Paired(s, n, Q)
  <1>1. ASSUME NEW x \in 0 .. n - 1, NEW y \in 0 .. n - 1, x < y
        PROVE  s[x] <= s[y] \/ \E q \in Q : Within(q, x) /\ Within(q, y)
    <2>1. s[x] <= s[y] \/ \E q \in R : Within(q, x) /\ Within(q, y)
      BY <1>1 DEF Paired
    <2>2. CASE Within(r, x) /\ Within(r, y)
      <3>0. s[x] \in Int /\ s[y] \in Int /\ s[p] \in Int
        BY DEF Numbers
      <3>1. CASE y < p
        BY <1>1, <2>2, <3>1 DEF Within
      <3>2. CASE p < x
        BY <1>1, <2>2, <3>2 DEF Within
      <3>3. CASE x <= p /\ p <= y
        <4>1. s[x] <= s[p]
          BY <2>2, <3>0, <3>3 DEF Within
        <4>2. s[p] <= s[y]
          BY <2>2, <3>0, <3>3 DEF Within
        <4>. QED  BY <3>0, <4>1, <4>2
      <3>. QED  BY <3>1, <3>2, <3>3
    <2>. QED  BY <2>1, <2>2
  <1>. QED  BY <1>1 DEF Paired

-----------------------------------------------------------------------------
(* Sorting: the two scans *)

\* The exchange of two elements on the wrong sides.
LEMMA ScansSwap ==
  ASSUME NEW n \in Nat, NEW s \in Numbers(n), NEW lo \in Nat, NEW hi \in Nat, hi <= n,
         NEW x \in lo + 1 .. hi - 1, NEW y \in lo + 1 .. hi - 1, x < y,
         Lower(s, lo, x - 1, s[lo]), s[lo] <= s[x], Upper(s, y + 1, hi, s[lo]), s[y] <= s[lo]
  PROVE  /\ Lower(Swapped(s, x, y), lo, x, Swapped(s, x, y)[lo])
         /\ Upper(Swapped(s, x, y), y, hi, Swapped(s, x, y)[lo])
  <1>1. PICK t : t = Swapped(s, x, y)
    OBVIOUS
  <1>2. x \in 0 .. n - 1 /\ y \in 0 .. n - 1 /\ lo \in 0 .. n - 1 /\ lo # x /\ lo # y
    OBVIOUS
  <1>3. /\ t[x] = s[y] /\ t[y] = s[x]
        /\ \A z \in 0 .. n - 1 : z # x /\ z # y => t[z] = s[z]
    BY ONLY n \in Nat, s \in Numbers(n), <1>1, <1>2, SwappedIs
  <1>4. t[lo] = s[lo]
    BY <1>2, <1>3
  <1>5. ASSUME NEW z \in lo + 1 .. x PROVE t[z] <= t[lo]
    <2>1. CASE z = x
      BY <1>3, <1>4, <2>1
    <2>2. CASE z # x
      <3>1. z \in lo + 1 .. x - 1 /\ z \in 0 .. n - 1 /\ z # y
        BY <2>2
      <3>. QED  BY <1>3, <1>4, <2>2, <3>1 DEF Lower
    <2>. QED  BY <2>1, <2>2
  <1>6. ASSUME NEW z \in y .. hi - 1 PROVE t[lo] <= t[z]
    <2>1. CASE z = y
      BY <1>3, <1>4, <2>1
    <2>2. CASE z # y
      <3>1. z \in y + 1 .. hi - 1 /\ z \in 0 .. n - 1 /\ z # x
        BY <2>2
      <3>. QED  BY <1>3, <1>4, <2>2, <3>1 DEF Upper
    <2>. QED  BY <2>1, <2>2
  <1>. QED  BY <1>1, <1>5, <1>6 DEF Lower, Upper

\* The pivot moves between the two sides.
LEMMA ScansMeet ==
  ASSUME NEW n \in Nat, NEW s \in Numbers(n), NEW lo \in Nat, NEW hi \in Nat, hi <= n,
         NEW x \in Int, NEW y \in lo .. hi - 1, y <= x,
         Lower(s, lo, x - 1, s[lo]), Upper(s, y + 1, hi, s[lo]), s[y] <= s[lo]
  PROVE  /\ \A z \in lo .. y - 1 : Swapped(s, lo, y)[z] <= Swapped(s, lo, y)[y]
         /\ \A z \in y + 1 .. hi - 1 : Swapped(s, lo, y)[y] <= Swapped(s, lo, y)[z]
  <1>1. PICK t : t = Swapped(s, lo, y)
    OBVIOUS
  <1>2. lo \in 0 .. n - 1 /\ y \in 0 .. n - 1
    OBVIOUS
  <1>3. /\ t[lo] = s[y] /\ t[y] = s[lo]
        /\ \A z \in 0 .. n - 1 : z # lo /\ z # y => t[z] = s[z]
    BY ONLY n \in Nat, s \in Numbers(n), <1>1, <1>2, SwappedIs
  <1>4. ASSUME NEW z \in lo .. y - 1 PROVE t[z] <= t[y]
    <2>1. CASE z = lo
      BY <1>3, <2>1
    <2>2. CASE z # lo
      <3>1. z \in lo + 1 .. x - 1 /\ z \in 0 .. n - 1 /\ z # y
        BY <2>2
      <3>. QED  BY <1>3, <2>2, <3>1 DEF Lower
    <2>. QED  BY <2>1, <2>2
  <1>5. ASSUME NEW z \in y + 1 .. hi - 1 PROVE t[y] <= t[z]
    <2>1. z \in 0 .. n - 1 /\ z # y /\ z # lo
      OBVIOUS
    <2>. QED  BY <1>3, <2>1 DEF Upper
  <1>. QED  BY <1>1, <1>4, <1>5

-----------------------------------------------------------------------------
(* Sorting: insertion *)

\* The element moves down past a greater one.
LEMMA InsertingSwap ==
  ASSUME NEW n \in Nat, NEW s \in Numbers(n), NEW lo \in Nat, NEW hi \in Nat, hi <= n,
         NEW e \in lo .. hi - 1, NEW m \in lo + 1 .. e,
         Inserting(s, lo, hi, e, m), s[m] < s[m - 1]
  PROVE  Inserting(Swapped(s, m, m - 1), lo, hi, e, m - 1)
  <1>1. PICK t : t = Swapped(s, m, m - 1)
    OBVIOUS
  <1>2. m \in 0 .. n - 1 /\ m - 1 \in 0 .. n - 1 /\ m \in lo .. hi - 1 /\ m - 1 \in lo .. hi - 1
    OBVIOUS
  <1>3. /\ t[m] = s[m - 1] /\ t[m - 1] = s[m]
        /\ \A z \in 0 .. n - 1 : z # m /\ z # m - 1 => t[z] = s[z]
    BY ONLY n \in Nat, s \in Numbers(n), <1>1, <1>2, SwappedIs
  <1>4. \A z \in 0 .. n - 1 : s[z] \in Int
    BY DEF Numbers
  <1>5. ASSUME NEW x \in lo .. hi - 1, NEW y \in lo .. hi - 1, x < y, y <= e, y # m - 1
        PROVE  t[x] <= t[y]
    <2>0. x \in 0 .. n - 1 /\ y \in 0 .. n - 1
      OBVIOUS
    <2>1. CASE y = m
      <3>1. CASE x = m - 1
        BY <1>2, <1>3, <1>4, <2>1, <3>1
      <3>2. CASE x # m - 1
        <4>1. x < m - 1 /\ m - 1 <= e /\ m - 1 # m /\ x # m
          BY <1>5, <2>1, <3>2
        <4>2. s[x] <= s[m - 1]
          BY <1>2, <4>1 DEF Inserting
        <4>. QED  BY <1>3, <2>0, <2>1, <3>2, <4>1, <4>2
      <3>. QED  BY <3>1, <3>2
    <2>2. CASE y # m
      <3>0. t[y] = s[y]
        BY <1>3, <1>5, <2>0, <2>2
      <3>1. CASE x = m
        <4>1. m - 1 < y
          BY <1>5, <3>1
        <4>2. s[m - 1] <= s[y]
          BY <1>2, <1>5, <2>2, <4>1 DEF Inserting
        <4>. QED  BY <1>3, <3>0, <3>1, <4>2
      <3>2. CASE x = m - 1
        <4>1. m < y
          BY <1>5, <2>2, <3>2
        <4>2. s[m] <= s[y]
          BY <1>2, <1>5, <2>2, <4>1 DEF Inserting
        <4>. QED  BY <1>3, <3>0, <3>2, <4>2
      <3>3. CASE x # m /\ x # m - 1
        <4>1. t[x] = s[x]
          BY <1>3, <2>0, <3>3
        <4>2. s[x] <= s[y]
          BY <1>5, <2>2 DEF Inserting
        <4>. QED  BY <3>0, <4>1, <4>2
      <3>. QED  BY <3>1, <3>2, <3>3
    <2>. QED  BY <2>1, <2>2
  <1>. QED  BY <1>1, <1>5 DEF Inserting

\* The element has come to its place, and the next one starts.
LEMMA InsertingNext ==
  ASSUME NEW n \in Nat, NEW s \in Numbers(n), NEW lo \in Nat, NEW hi \in Nat, hi <= n,
         NEW e \in lo .. hi - 1, NEW m \in lo .. e,
         Inserting(s, lo, hi, e, m), m > lo => s[m - 1] <= s[m]
  PROVE  Inserting(s, lo, hi, e + 1, e + 1)
  <1>1. \A z \in 0 .. n - 1 : s[z] \in Int
    BY DEF Numbers
  <1>2. ASSUME NEW x \in lo .. hi - 1, NEW y \in lo .. hi - 1, x < y, y <= e + 1, y # e + 1
        PROVE  s[x] <= s[y]
    <2>1. y <= e
      BY <1>2
    <2>2. CASE y # m
      BY <1>2, <2>1, <2>2 DEF Inserting
    <2>3. CASE y = m
      <3>1. m > lo /\ m - 1 \in lo .. hi - 1 /\ m - 1 <= e /\ m - 1 # m /\ x <= m - 1
        BY <1>2, <2>3
      <3>2. CASE x = m - 1
        BY <2>3, <3>1, <3>2
      <3>3. CASE x # m - 1
        <4>1. s[x] <= s[m - 1]
          BY <3>1, <3>3 DEF Inserting
        <4>2. s[x] \in Int /\ s[m - 1] \in Int /\ s[m] \in Int
          BY <1>1, <3>1
        <4>. QED  BY <2>3, <3>1, <4>1, <4>2
      <3>. QED  BY <3>2, <3>3
    <2>. QED  BY <2>2, <2>3
  <1>. QED  BY <1>2 DEF Inserting

-----------------------------------------------------------------------------
(* Sorting: the heap *)

\* A child comes after its parent, and has one parent.
LEMMA KidFacts ==
  ASSUME NEW lo \in Int, NEW n \in Int, NEW c \in Int, n >= lo, Kid(lo, n, c)
  PROVE  c > n /\ \A m \in Int : Kid(lo, m, c) => m = n
  BY DEF Kid

\* The gap sinks to the place of its greater child.
LEMMA HeapSwap ==
  ASSUME NEW n \in Nat, NEW s \in Numbers(n), NEW lo \in Nat, NEW end \in Nat, end <= n,
         NEW from \in lo .. end - 1, NEW g \in from .. end - 1, NEW c \in lo .. end - 1, Kid(lo, g, c),
         HeapBut(s, lo, from, end, g),
         \A d \in lo .. end - 1 : Kid(lo, g, d) => s[d] <= s[c], s[g] < s[c]
  PROVE  HeapBut(Swapped(s, g, c), lo, from, end, c)
  <1>1. PICK t : t = Swapped(s, g, c)
    OBVIOUS
  <1>2. g \in 0 .. n - 1 /\ c \in 0 .. n - 1 /\ c > g /\ c \in from .. end - 1 /\ g >= lo
    BY KidFacts
  <1>3. /\ t[g] = s[c] /\ t[c] = s[g]
        /\ \A z \in 0 .. n - 1 : z # g /\ z # c => t[z] = s[z]
    BY ONLY n \in Nat, s \in Numbers(n), <1>1, <1>2, SwappedIs
  <1>4. \A z \in 0 .. n - 1 : s[z] \in Int
    BY DEF Numbers
  <1>5. ASSUME NEW m \in from .. end - 1, NEW d \in lo .. end - 1, m # c, Kid(lo, m, d)
        PROVE  t[d] <= t[m]
    <2>0. m \in 0 .. n - 1 /\ d \in 0 .. n - 1 /\ m >= lo /\ d > m
      BY <1>5, KidFacts
    <2>1. CASE m = g
      <3>1. CASE d = c
        BY <1>2, <1>3, <1>4, <2>1, <3>1
      <3>2. CASE d # c
        BY <1>3, <1>5, <2>0, <2>1, <3>2
      <3>. QED  BY <3>1, <3>2
    <2>2. CASE m # g
      <3>0. t[m] = s[m]
        BY <1>3, <1>5, <2>0, <2>2
      <3>1. CASE d = g
        BY <1>3, <1>5, <3>0, <3>1 DEF HeapBut
      <3>2. CASE d = c
        BY <1>2, <1>5, <2>0, <2>2, <3>2, KidFacts
      <3>3. CASE d # g /\ d # c
        BY <1>3, <1>5, <2>0, <2>2, <3>0, <3>3 DEF HeapBut
      <3>. QED  BY <3>1, <3>2, <3>3
    <2>. QED  BY <2>1, <2>2
  <1>6. ASSUME NEW m \in from .. end - 1, NEW d \in lo .. end - 1, Kid(lo, m, c), Kid(lo, c, d)
        PROVE  t[d] <= t[m]
    <2>1. m = g
      BY <1>2, <1>6, KidFacts
    <2>2. d > c /\ d \in 0 .. n - 1
      BY <1>2, <1>6, KidFacts
    <2>3. t[d] = s[d]
      BY <1>2, <1>3, <2>2
    <2>4. s[d] <= s[c]
      BY <1>2, <1>6 DEF HeapBut
    <2>. QED  BY <1>3, <2>1, <2>3, <2>4
  <1>. QED  BY <1>1, <1>5, <1>6 DEF HeapBut

\* The gap has sunk far enough.
LEMMA HeapSettled ==
  ASSUME NEW s, NEW lo, NEW from, NEW end, NEW g,
         HeapBut(s, lo, from, end, g),
         \A d \in lo .. end - 1 : Kid(lo, g, d) => s[d] <= s[g]
  PROVE  Heap(s, lo, from, end)
  BY DEF HeapBut, Heap

\* The heap is to begin one node earlier.
LEMMA HeapDown ==
  ASSUME NEW s, NEW lo \in Nat, NEW end \in Nat, NEW m \in lo + 1 .. end, Heap(s, lo, m, end)
  PROVE  HeapBut(s, lo, m - 1, end, m - 1)
  <1>1. ASSUME NEW k \in m - 1 .. end - 1, NEW c \in lo .. end - 1, k # m - 1, Kid(lo, k, c)
        PROVE  s[c] <= s[k]
    <2>1. k \in m .. end - 1
      BY <1>1
    <2>. QED  BY <1>1, <2>1 DEF Heap
  <1>2. ASSUME NEW k \in m - 1 .. end - 1, Kid(lo, k, m - 1) PROVE FALSE
    BY <1>2, KidFacts
  <1>. QED  BY <1>1, <1>2 DEF HeapBut

\* The first node of a heap is its greatest.
LEMMA HeapTop ==
  ASSUME NEW n \in Nat, NEW s \in Numbers(n), NEW lo \in Nat, NEW end \in Nat, end <= n, Heap(s, lo, lo, end)
  PROVE  \A x \in lo .. end - 1 : s[x] <= s[lo]
  <1>. SUFFICES ASSUME NEW z \in lo .. end - 1, ~(s[z] <= s[lo]) PROVE FALSE
    OBVIOUS
  <1>1. PICK T : T = {x \in lo .. end - 1 : ~(s[x] <= s[lo])}
    OBVIOUS
  <1>2. T \subseteq Nat /\ T # {}
    BY <1>1
  <1>3. PICK x \in T : \A y \in T : x <= y
    BY <1>2, LeastNumber
  <1>4. \A y \in lo .. end - 1 : s[y] \in Int
    BY DEF Numbers
  <1>5. x \in lo .. end - 1 /\ ~(s[x] <= s[lo]) /\ x # lo
    BY <1>1, <1>4
  <1>6. PICK p \in lo .. end - 1 : Kid(lo, p, x) /\ p < x
    <2>1. PICK p \in Nat : x - lo - 1 = 2 * p \/ x - lo - 1 = 2 * p + 1
      <3>1. PICK q \in Nat : q = x - lo - 1
        BY <1>5
      <3>2. q \div 2 \in Nat /\ (q = 2 * (q \div 2) \/ q = 2 * (q \div 2) + 1)
        OBVIOUS
      <3>. QED  BY <3>1, <3>2
    <2>2. lo + p \in lo .. end - 1 /\ Kid(lo, lo + p, x) /\ lo + p < x
      BY <1>5, <2>1 DEF Kid
    <2>. QED  BY <2>2
  <1>7. s[x] <= s[p]
    BY <1>5, <1>6 DEF Heap
  <1>8. s[p] <= s[lo]
    <2>1. p \notin T
      BY <1>3, <1>5, <1>6
    <2>. QED  BY <1>1, <2>1
  <1>. QED  BY <1>4, <1>5, <1>7, <1>8

\* The greatest leaves the heap for the sorted end of the range.
LEMMA HeapPop ==
  ASSUME NEW n \in Nat, NEW s \in Numbers(n), NEW lo \in Nat, NEW hi \in Nat, hi <= n,
         NEW end \in lo + 2 .. hi, Heap(s, lo, lo, end), Topped(s, lo, end, hi)
  PROVE  /\ HeapBut(Swapped(s, lo, end - 1), lo, lo, end - 1, lo)
         /\ Topped(Swapped(s, lo, end - 1), lo, end - 1, hi)
  <1>1. PICK t : t = Swapped(s, lo, end - 1)
    OBVIOUS
  <1>2. lo \in 0 .. n - 1 /\ end - 1 \in 0 .. n - 1 /\ lo < end - 1
    OBVIOUS
  <1>3. /\ t[lo] = s[end - 1] /\ t[end - 1] = s[lo]
        /\ \A z \in 0 .. n - 1 : z # lo /\ z # end - 1 => t[z] = s[z]
    BY ONLY n \in Nat, s \in Numbers(n), <1>1, <1>2, SwappedIs
  <1>4. \A z \in lo .. end - 1 : s[z] <= s[lo]
    BY HeapTop
  <1>5. HeapBut(t, lo, lo, end - 1, lo)
    <2>1. ASSUME NEW m \in lo .. end - 1 - 1, NEW c \in lo .. end - 1 - 1, m # lo, Kid(lo, m, c)
          PROVE  t[c] <= t[m]
      <3>1. c > m
        BY <2>1, KidFacts
      <3>2. t[c] = s[c] /\ t[m] = s[m]
        BY <1>3, <2>1, <3>1
      <3>3. s[c] <= s[m]
        BY <2>1 DEF Heap
      <3>. QED  BY <3>2, <3>3
    <2>2. ASSUME NEW m \in lo .. end - 1 - 1, Kid(lo, m, lo) PROVE FALSE
      BY <2>2, KidFacts
    <2>. QED  BY <2>1, <2>2 DEF HeapBut
  <1>6. ASSUME NEW x \in lo .. hi - 1, NEW y \in end - 1 .. hi - 1, x < y
        PROVE  t[x] <= t[y]
    <2>0. x \in 0 .. n - 1 /\ y \in 0 .. n - 1 /\ y # lo
      BY <1>2
    <2>1. CASE y = end - 1
      <3>1. CASE x = lo
        BY <1>2, <1>3, <1>4, <2>1, <3>1
      <3>2. CASE x # lo
        <4>1. t[x] = s[x] /\ x \in lo .. end - 1
          BY <1>3, <1>6, <2>0, <2>1, <3>2
        <4>. QED  BY <1>3, <1>4, <2>1, <4>1
      <3>. QED  BY <3>1, <3>2
    <2>2. CASE y # end - 1
      <3>1. t[y] = s[y] /\ y \in end .. hi - 1
        BY <1>3, <2>0, <2>2
      <3>2. PICK z \in lo .. hi - 1 : t[x] = s[z] /\ z < y
        <4>1. CASE x = lo
          BY <1>2, <1>3, <3>1, <4>1
        <4>2. CASE x = end - 1
          BY <1>2, <1>3, <3>1, <4>2
        <4>3. CASE x # lo /\ x # end - 1
          BY <1>3, <1>6, <2>0, <4>3
        <4>. QED  BY <4>1, <4>2, <4>3
      <3>. QED  BY <3>1, <3>2 DEF Topped
    <2>. QED  BY <2>1, <2>2
  <1>. QED  BY <1>1, <1>5, <1>6 DEF Topped

\* An exchange within the heap leaves what is above it.
LEMMA ToppedSwap ==
  ASSUME NEW n \in Nat, NEW s \in Numbers(n), NEW lo \in Nat, NEW hi \in Nat, hi <= n,
         NEW end \in lo .. hi, NEW x \in lo .. end - 1, NEW y \in lo .. end - 1, Topped(s, lo, end, hi)
  PROVE  Topped(Swapped(s, x, y), lo, end, hi)
  <1>1. PICK t : t = Swapped(s, x, y)
    OBVIOUS
  <1>2. x \in 0 .. n - 1 /\ y \in 0 .. n - 1
    OBVIOUS
  <1>3. /\ t[x] = s[y] /\ t[y] = s[x]
        /\ \A z \in 0 .. n - 1 : z # x /\ z # y => t[z] = s[z]
    BY ONLY n \in Nat, s \in Numbers(n), <1>1, <1>2, SwappedIs
  <1>4. ASSUME NEW u \in lo .. hi - 1, NEW v \in end .. hi - 1, u < v
        PROVE  t[u] <= t[v]
    <2>1. t[v] = s[v]
      BY <1>3
    <2>2. PICK z \in lo .. hi - 1 : t[u] = s[z] /\ z < v
      <3>1. CASE u = x
        BY <1>3, <3>1
      <3>2. CASE u = y
        BY <1>3, <3>2
      <3>3. CASE u # x /\ u # y
        BY <1>3, <1>4, <3>3
      <3>. QED  BY <3>1, <3>2, <3>3
    <2>. QED  BY <2>1, <2>2 DEF Topped
  <1>. QED  BY <1>1, <1>4 DEF Topped

-----------------------------------------------------------------------------
(* Sorting: what is kept *)

\* The powers of two.
LEMMA TwoToFacts ==
  /\ Sorting!TwoTo[0] = 1
  /\ \A n \in Nat : Sorting!TwoTo[n] \in Nat /\ Sorting!TwoTo[n + 1] = 2 * Sorting!TwoTo[n]
  <1>1. PICK d \in [Nat \X Nat -> Nat] : d = [p \in Nat \X Nat |-> 2 * p[2]]
    <2>1. \A p \in Nat \X Nat : 2 * p[2] \in Nat
      OBVIOUS
    <2>. QED  BY <2>1
  <1>2. PICK c \in Nat : c = 1
    OBVIOUS
  <1>3. PICK f \in [Nat -> Nat] : f[0] = c /\ \A n \in Nat : f[n + 1] = d[<<n + 1, f[n]>>]
    <2>1. c \in Nat /\ d \in [Nat \X Nat -> Nat]
      OBVIOUS
    <2>2. Recursive(Nat, c, d)
      BY ONLY <2>1, Recursion
    <2>. QED  BY <2>2 DEF Recursive
  <1>4. ASSUME NEW n \in Nat PROVE f[n + 1] = 2 * f[n]
    <2>1. <<n + 1, f[n]>> \in Nat \X Nat /\ <<n + 1, f[n]>>[2] = f[n]
      OBVIOUS
    <2>. QED  BY <1>1, <1>3, <2>1
  <1>5. f = [n \in Nat |-> IF n = 0 THEN 1 ELSE 2 * f[n - 1]]
    <2>1. ASSUME NEW n \in Nat PROVE f[n] = IF n = 0 THEN 1 ELSE 2 * f[n - 1]
      <3>1. CASE n = 0
        BY <1>2, <1>3, <3>1
      <3>2. CASE n # 0
        <4>1. n - 1 \in Nat /\ (n - 1) + 1 = n
          BY <3>2
        <4>2. f[(n - 1) + 1] = 2 * f[n - 1]
          BY <1>4, <4>1
        <4>. QED  BY <3>2, <4>1, <4>2
      <3>. QED  BY <3>1, <3>2
    <2>. QED  BY <2>1
  <1>6. PICK g : g = Sorting!TwoTo
    OBVIOUS
  <1>7. g = [n \in Nat |-> IF n = 0 THEN 1 ELSE 2 * g[n - 1]]
    BY <1>5, <1>6, Zenon DEF Sorting!TwoTo
  <1>8. PICK S : S = {n \in Nat : g[n] \in Nat}
    OBVIOUS
  <1>9. 0 \in S
    BY <1>7, <1>8
  <1>10. ASSUME NEW n \in Nat PROVE g[n + 1] = 2 * g[n]
    <2>1. n + 1 \in Nat /\ n + 1 # 0 /\ (n + 1) - 1 = n
      OBVIOUS
    <2>2. g[n + 1] = IF n + 1 = 0 THEN 1 ELSE 2 * g[(n + 1) - 1]
      BY ONLY <1>7, <2>1
    <2>. QED  BY <2>1, <2>2
  <1>11. ASSUME NEW n \in Nat, n \in S PROVE n + 1 \in S
    BY <1>8, <1>10, <1>11
  <1>12. \A n \in Nat : n \in S
    BY <1>9, <1>11, Inductive
  <1>. QED  BY <1>6, <1>7, <1>8, <1>10, <1>12

\* t is s with its n elements in another order.
Rearranges(t, s, n) ==
    \E p \in [0 .. n - 1 -> 0 .. n - 1] :
        /\ \A x, y \in 0 .. n - 1 : p[x] = p[y] => x = y
        /\ \A y \in 0 .. n - 1 : \E x \in 0 .. n - 1 : p[x] = y
        /\ t = [k \in 0 .. n - 1 |-> s[p[k]]]

\* What the elements compare by, ascending.
KeysOf(t, n, down) == [k \in 0 .. n - 1 |-> IF down THEN 0 - t[k] ELSE t[k]]

Ranges == [low : Nat, high : Nat, depth : Nat]
IsRange(r, n) == r \in Ranges /\ r.low <= r.high /\ r.high <= n

\* The ranges still to sort.
Unsorted(st, r, q) == {q[k] : k \in 1 .. Len(q)} \cup (IF st \in {"return", "done"} THEN {} ELSE {r})

\* The ranges lie apart, and each level of the stack has halved what it sorts.
StackKept(r, q, n) ==
    /\ q \in Seq(Ranges)
    /\ IsRange(r, n)
    /\ (r.high - r.low) * Sorting!TwoTo[Len(q)] <= n
    /\ \A k \in 1 .. Len(q) :
        /\ IsRange(q[k], n)
        /\ (q[k].high - q[k].low) * Sorting!TwoTo[k - 1] <= n
        /\ Sorting!TwoTo[k] <= n
        /\ Apart(r, q[k])
        /\ \A m \in 1 .. k - 1 : Apart(q[m], q[k])

\* Where the indices are.
PlaceKept(st, r, x, y, q) ==
    /\ st \in {"loop", "pivot", "up", "down", "meet", "insert", "heapify", "sink",
               "extract", "settle", "return", "done"}
    /\ x \in Int /\ y \in Int
    /\ st \in {"pivot", "up", "down", "meet", "heapify", "sink", "extract", "settle"} => r.high - r.low >= 2
    /\ st \in {"pivot", "up", "down", "meet"} => r.depth > 0
    /\ st = "up" => r.low <= x /\ x < r.high /\ r.low < y /\ y <= r.high
    /\ st = "down" => r.low < x /\ x <= r.high /\ r.low < y /\ y <= r.high
    /\ st = "meet" => r.low < x /\ x <= r.high /\ r.low <= y /\ y < r.high
    /\ st = "insert" => r.low <= y /\ y <= x /\ r.low < x /\ (x >= r.high => y = x)
    /\ st = "heapify" => r.low <= y /\ y < r.high
    /\ st = "sink" => r.low <= y /\ y <= x /\ x < r.high
    /\ st = "extract" => r.low < y /\ y <= r.high
    /\ st = "settle" => r.low <= x /\ x < y /\ y < r.high
    /\ st = "done" => q = <<>>

\* How far the range is sorted.
LocalKept(st, r, x, y, s) ==
    /\ st = "up" => Lower(s, r.low, x, s[r.low]) /\ Upper(s, y, r.high, s[r.low])
    /\ st = "down" => /\ Lower(s, r.low, x - 1, s[r.low]) /\ (x < r.high => s[r.low] <= s[x])
                      /\ Upper(s, y, r.high, s[r.low])
    /\ st = "meet" => /\ Lower(s, r.low, x - 1, s[r.low]) /\ (x < r.high => s[r.low] <= s[x])
                      /\ Upper(s, y + 1, r.high, s[r.low]) /\ s[y] <= s[r.low]
    /\ st = "insert" => Inserting(s, r.low, r.high, x, y)
    /\ st = "heapify" => Heap(s, r.low, y, r.high)
    /\ st = "sink" => HeapBut(s, r.low, y, r.high, x)
    /\ st = "extract" => Heap(s, r.low, r.low, y) /\ Topped(s, r.low, y, r.high)
    /\ st = "settle" => HeapBut(s, r.low, r.low, y, x) /\ Topped(s, r.low, y, r.high)

\* With an order for a comparator: what is out of order is in a range still to sort.
OrderKept(t, n, down, st, r, q, x, y) ==
    /\ Paired(KeysOf(t, n, down), n, Unsorted(st, r, q))
    /\ LocalKept(st, r, x, y, KeysOf(t, n, down))

\* The elements given.
GivenKept == /\ Sorting!Count \in Nat /\ DOMAIN input = 0 .. Sorting!Count - 1
             /\ lawful => input \in Numbers(Sorting!Count)

SortKept ==
    /\ GivenKept
    /\ Rearranges(list, input, Sorting!Count)
    /\ StackKept(range, pending, Sorting!Count)
    /\ PlaceKept(stage, range, lower, upper, pending)
    /\ lawful => OrderKept(list, Sorting!Count, descending, stage, range, pending, lower, upper)

\* An exchange rearranges.
LEMMA RearrangesSwap ==
  ASSUME NEW n \in Nat, NEW s, NEW t, Rearranges(t, s, n), NEW x \in 0 .. n - 1, NEW y \in 0 .. n - 1
  PROVE  Rearranges(Swapped(t, x, y), s, n)
  <1>1. PICK p \in [0 .. n - 1 -> 0 .. n - 1] :
            /\ \A u, v \in 0 .. n - 1 : p[u] = p[v] => u = v
            /\ \A v \in 0 .. n - 1 : \E u \in 0 .. n - 1 : p[u] = v
            /\ t = [k \in 0 .. n - 1 |-> s[p[k]]]
    BY DEF Rearranges
  <1>2. PICK q : q = Swapped(p, x, y)
    OBVIOUS
  <1>3. /\ q \in [0 .. n - 1 -> 0 .. n - 1] /\ q[x] = p[y] /\ q[y] = p[x]
        /\ \A z \in 0 .. n - 1 : z # x /\ z # y => q[z] = p[z]
    BY <1>1, <1>2 DEF Swapped
  <1>4. ASSUME NEW u \in 0 .. n - 1, NEW v \in 0 .. n - 1, q[u] = q[v] PROVE u = v
    <2>1. PICK a \in 0 .. n - 1 : q[u] = p[a] /\ (u = x => a = y) /\ (u = y => a = x) /\ (u # x /\ u # y => a = u)
      BY <1>3
    <2>2. PICK b \in 0 .. n - 1 : q[v] = p[b] /\ (v = x => b = y) /\ (v = y => b = x) /\ (v # x /\ v # y => b = v)
      BY <1>3
    <2>3. a = b
      BY <1>1, <1>4, <2>1, <2>2
    <2>4. CASE u = x
      BY ONLY <2>1, <2>2, <2>3, <2>4
    <2>5. CASE u # x /\ u = y
      BY ONLY <2>1, <2>2, <2>3, <2>5
    <2>6. CASE u # x /\ u # y
      BY ONLY <2>1, <2>2, <2>3, <2>6
    <2>. QED  BY <2>4, <2>5, <2>6
  <1>5. ASSUME NEW v \in 0 .. n - 1 PROVE \E u \in 0 .. n - 1 : q[u] = v
    <2>1. PICK u \in 0 .. n - 1 : p[u] = v
      BY <1>1
    <2>. QED  BY <1>3, <2>1
  <1>6. Swapped(t, x, y) = [k \in 0 .. n - 1 |-> s[q[k]]]
    <2>1. \A k \in 0 .. n - 1 : Swapped(t, x, y)[k] = s[q[k]]
      BY <1>1, <1>3 DEF Swapped
    <2>2. Swapped(t, x, y) = [k \in 0 .. n - 1 |-> Swapped(t, x, y)[k]]
      BY <1>1 DEF Swapped
    <2>. QED  BY <2>1, <2>2
  <1>. QED  BY <1>3, <1>4, <1>5, <1>6 DEF Rearranges

\* What is rearranged has the same numbers.
LEMMA RearrangesNumbers ==
  ASSUME NEW n \in Nat, NEW s \in Numbers(n), NEW t, Rearranges(t, s, n)
  PROVE  t \in Numbers(n)
  BY DEF Rearranges, Numbers

\* How often the array holds v.
TimesIn(t, v) == Cardinality({k \in DOMAIN t : t[k] = v})

\* What is rearranged has every value as often.
LEMMA RearrangesCounts ==
  ASSUME NEW n \in Nat, NEW s, DOMAIN s = 0 .. n - 1, NEW t, Rearranges(t, s, n), NEW v
  PROVE  TimesIn(t, v) = TimesIn(s, v)
  <1>1. PICK p \in [0 .. n - 1 -> 0 .. n - 1] :
            /\ \A x, y \in 0 .. n - 1 : p[x] = p[y] => x = y
            /\ \A y \in 0 .. n - 1 : \E x \in 0 .. n - 1 : p[x] = y
            /\ t = [k \in 0 .. n - 1 |-> s[p[k]]]
    BY DEF Rearranges
  <1>2. PICK A : A = {k \in DOMAIN t : t[k] = v}
    OBVIOUS
  <1>3. PICK B : B = {k \in DOMAIN s : s[k] = v}
    OBVIOUS
  <1>4. PICK f : f = [k \in A |-> p[k]]
    OBVIOUS
  <1>5. A = {k \in 0 .. n - 1 : s[p[k]] = v}
    BY <1>1, <1>2
  <1>6. f \in Bijection(A, B)
    <2>1. f \in [A -> B] /\ \A x, y \in A : f[x] = f[y] => x = y
      BY <1>1, <1>3, <1>4, <1>5
    <2>2. ASSUME NEW y \in B PROVE \E x \in A : f[x] = y
      <3>1. y \in 0 .. n - 1 /\ s[y] = v
        BY <1>3
      <3>2. PICK x \in 0 .. n - 1 : p[x] = y
        BY <1>1, <3>1
      <3>. QED  BY <1>4, <1>5, <3>1, <3>2
    <2>. QED  BY <2>1, <2>2 DEF Bijection, Injection, Surjection, IsInjective
  <1>7. IsFiniteSet(A)
    <2>1. IsFiniteSet(0 .. n - 1)
      BY FS_Interval
    <2>. QED  BY <1>5, <2>1, FS_Subset
  <1>8. Cardinality(A) = Cardinality(B)
    BY <1>6, <1>7, FS_Bijection DEF ExistsBijection
  <1>. QED  BY <1>2, <1>3, <1>8 DEF TimesIn

\* Exchanging elements exchanges what they compare by.
LEMMA KeysSwap ==
  ASSUME NEW n \in Nat, NEW t \in Numbers(n), NEW down, NEW x \in 0 .. n - 1, NEW y \in 0 .. n - 1
  PROVE  /\ KeysOf(t, n, down) \in Numbers(n)
         /\ KeysOf(Swapped(t, x, y), n, down) = Swapped(KeysOf(t, n, down), x, y)
  <1>1. KeysOf(t, n, down) \in Numbers(n)
    BY DEF KeysOf, Numbers
  <1>2. ASSUME NEW k \in 0 .. n - 1 PROVE KeysOf(Swapped(t, x, y), n, down)[k] = Swapped(KeysOf(t, n, down), x, y)[k]
    BY DEF KeysOf, Swapped, Numbers
  <1>. QED  BY <1>1, <1>2 DEF KeysOf, Swapped, Numbers

-----------------------------------------------------------------------------
(* Sorting: what every step uses *)

\* The array in terms of its length.
LEMMA SortFacts ==
  ASSUME SortKept
  PROVE  /\ Sorting!Count \in Nat
         /\ range.low \in Nat /\ range.high \in Nat /\ range.depth \in Nat
         /\ range.low <= range.high /\ range.high <= Sorting!Count
         /\ Sorting!low = range.low /\ Sorting!high = range.high
         /\ Sorting!mid = range.low + (range.high - range.low) \div 2
         /\ lower \in Int /\ upper \in Int
         /\ lawful => /\ list \in Numbers(Sorting!Count)
                      /\ KeysOf(list, Sorting!Count, descending) \in Numbers(Sorting!Count)
  <1>1. Sorting!Count \in Nat /\ IsRange(range, Sorting!Count) /\ lower \in Int /\ upper \in Int
    BY DEF SortKept, GivenKept, StackKept, PlaceKept
  <1>2. ASSUME lawful
        PROVE  list \in Numbers(Sorting!Count) /\ KeysOf(list, Sorting!Count, descending) \in Numbers(Sorting!Count)
    <2>1. list \in Numbers(Sorting!Count)
      BY <1>1, <1>2, RearrangesNumbers DEF SortKept, GivenKept
    <2>. QED  BY <2>1 DEF KeysOf, Numbers
  <1>. QED  BY <1>1, <1>2 DEF IsRange, Ranges, Sorting!low, Sorting!high, Sorting!mid

\* A step keeps the invariant if it keeps its parts.
LEMMA SortGoesOn ==
  ASSUME SortKept, Sorting!Keep,
         Rearranges(list', input, Sorting!Count),
         StackKept(range', pending', Sorting!Count),
         PlaceKept(stage', range', lower', upper', pending'),
         lawful => OrderKept(list', Sorting!Count, descending, stage', range', pending', lower', upper')
  PROVE  SortKept'
  <1>1. input' = input /\ lawful' = lawful /\ descending' = descending
    BY DEF Sorting!Keep
  <1>2. Sorting!Count' = Sorting!Count
    BY <1>1 DEF Sorting!Count
  <1>3. GivenKept'
    BY <1>1, <1>2 DEF SortKept, GivenKept
  <1>. QED  BY <1>1, <1>2, <1>3 DEF SortKept

\* What a comparator that is the order answers.
LEMMA Compares ==
  ASSUME lawful, NEW n \in Nat, NEW t \in Numbers(n), NEW x \in 0 .. n - 1, NEW y \in 0 .. n - 1,
         NEW b \in Sorting!sort_before(t, x, y)
  PROVE  b <=> KeysOf(t, n, descending)[x] < KeysOf(t, n, descending)[y]
  <1>1. t[x] \in Int /\ t[y] \in Int
    BY DEF Numbers
  <1>2. b <=> IF descending THEN t[y] < t[x] ELSE t[x] < t[y]
    BY DEF Sorting!sort_before
  <1>3. KeysOf(t, n, descending)[x] = (IF descending THEN 0 - t[x] ELSE t[x])
        /\ KeysOf(t, n, descending)[y] = (IF descending THEN 0 - t[y] ELSE t[y])
    BY DEF KeysOf
  <1>. QED  BY <1>1, <1>2, <1>3

\* Within the range at work any two elements may be exchanged.
LEMMA Working ==
  ASSUME SortKept, lawful, stage \notin {"return", "done"}, NEW t \in Numbers(Sorting!Count),
         Paired(KeysOf(t, Sorting!Count, descending), Sorting!Count, Unsorted(stage, range, pending)),
         NEW x \in range.low .. range.high - 1, NEW y \in range.low .. range.high - 1
  PROVE  /\ Swapped(t, x, y) \in Numbers(Sorting!Count)
         /\ KeysOf(Swapped(t, x, y), Sorting!Count, descending)
                = Swapped(KeysOf(t, Sorting!Count, descending), x, y)
         /\ Paired(KeysOf(Swapped(t, x, y), Sorting!Count, descending), Sorting!Count,
                   Unsorted(stage, range, pending))
  <1>1. PICK n \in Nat : n = Sorting!Count
    BY SortFacts
  <1>2. PICK R : R = Unsorted(stage, range, pending)
    OBVIOUS
  <1>3. PICK s : s = KeysOf(t, n, descending)
    OBVIOUS
  <1>4. /\ range \in R /\ range.low \in Nat /\ range.high \in Nat /\ range.high <= n
        /\ x \in 0 .. n - 1 /\ y \in 0 .. n - 1
    <2>1. range \in R
      BY <1>2 DEF Unsorted
    <2>2. range.low \in Nat /\ range.high \in Nat /\ range.high <= n
      BY <1>1, SortFacts
    <2>. QED  BY <1>1, <2>1, <2>2
  <1>5. \A q \in R : q # range => Apart(range, q)
    BY <1>2 DEF Unsorted, SortKept, StackKept
  <1>6. s \in Numbers(n) /\ KeysOf(Swapped(t, x, y), n, descending) = Swapped(s, x, y)
    BY <1>1, <1>3, <1>4, KeysSwap
  <1>7. Paired(s, n, R)
    BY <1>1, <1>2, <1>3
  <1>8. Paired(Swapped(s, x, y), n, R)
    BY <1>4, <1>5, <1>6, <1>7, PairedSwap
  <1>9. Swapped(t, x, y) \in Numbers(n)
    BY <1>1, <1>4, SwappedIs
  <1>. QED  BY <1>1, <1>2, <1>3, <1>6, <1>8, <1>9

\* An exchange within the range at work.
LEMMA WorkingSwap ==
  ASSUME SortKept, stage \notin {"return", "done"},
         NEW x \in range.low .. range.high - 1, NEW y \in range.low .. range.high - 1
  PROVE  /\ Rearranges(Swapped(list, x, y), input, Sorting!Count)
         /\ lawful => /\ KeysOf(Swapped(list, x, y), Sorting!Count, descending)
                             = Swapped(KeysOf(list, Sorting!Count, descending), x, y)
                      /\ Paired(Swapped(KeysOf(list, Sorting!Count, descending), x, y), Sorting!Count,
                                Unsorted(stage, range, pending))
  <1>1. Sorting!Count \in Nat /\ x \in 0 .. Sorting!Count - 1 /\ y \in 0 .. Sorting!Count - 1
    BY SortFacts
  <1>2. Rearranges(Swapped(list, x, y), input, Sorting!Count)
    BY <1>1, RearrangesSwap DEF SortKept
  <1>3. ASSUME lawful
        PROVE  /\ KeysOf(Swapped(list, x, y), Sorting!Count, descending)
                             = Swapped(KeysOf(list, Sorting!Count, descending), x, y)
               /\ Paired(Swapped(KeysOf(list, Sorting!Count, descending), x, y), Sorting!Count,
                                Unsorted(stage, range, pending))
    <2>1. list \in Numbers(Sorting!Count)
      BY <1>3, SortFacts
    <2>2. Paired(KeysOf(list, Sorting!Count, descending), Sorting!Count, Unsorted(stage, range, pending))
      BY <1>3 DEF SortKept, OrderKept
    <2>3. /\ KeysOf(Swapped(list, x, y), Sorting!Count, descending)
                = Swapped(KeysOf(list, Sorting!Count, descending), x, y)
          /\ Paired(KeysOf(Swapped(list, x, y), Sorting!Count, descending), Sorting!Count,
                   Unsorted(stage, range, pending))
      BY <1>3, <2>1, <2>2, Working
    <2>. QED  BY <2>3
  <1>. QED  BY <1>2, <1>3

\* Two stages of work have the same ranges to sort.
LEMMA SameUnsorted ==
  ASSUME NEW st, NEW su, NEW r, NEW q, st \notin {"return", "done"}, su \notin {"return", "done"}
  PROVE  Unsorted(st, r, q) = Unsorted(su, r, q)
  BY DEF Unsorted

-----------------------------------------------------------------------------
(* Sorting: the steps *)

\* A turn of sort_introsort's loop begins.
LEMMA SortLoop ==
  ASSUME SortKept, Sorting!Loop
  PROVE  SortKept'
  <1>. USE DEF Sorting!At, Sorting!Go
  <1>1. stage = "loop" /\ list' = list /\ range' = range /\ pending' = pending /\ Sorting!Keep
    BY DEF Sorting!Loop
  <1>2. Rearranges(list', input, Sorting!Count) /\ StackKept(range', pending', Sorting!Count)
    BY <1>1 DEF SortKept
  <1>3. SortSmall \in Nat /\ SortSmall >= 1
    BY SortingAssumption DEF Sorting!SortAssumption
  <1>4. PlaceKept(stage', range', lower', upper', pending') /\ stage' \notin {"return", "done"}
    <2>0. range.low \in Nat /\ range.high \in Nat /\ range.depth \in Nat /\ range.low <= range.high
          /\ lower \in Int /\ upper \in Int
      BY SortFacts
    <2>1. CASE Sorting!high - Sorting!low > SortSmall /\ range.depth > 0 /\ stage' = "pivot" /\ UNCHANGED <<lower, upper>>
      BY <1>1, <1>3, <2>0, <2>1 DEF PlaceKept, Sorting!low, Sorting!high
    <2>2. CASE Sorting!high - Sorting!low > SortSmall /\ stage' = "heapify" /\ upper' = Sorting!mid /\ lower' = lower
      <3>1. PICK d \in Nat : d = range.high - range.low
        BY <2>0
      <3>2. d \div 2 \in Nat /\ d \div 2 < d
        BY <1>3, <2>0, <2>2, <3>1 DEF Sorting!low, Sorting!high
      <3>3. Sorting!mid = range.low + d \div 2
        BY <3>1, SortFacts
      <3>. QED  BY <1>1, <1>3, <2>0, <2>2, <3>1, <3>2, <3>3 DEF PlaceKept, Sorting!low, Sorting!high
    <2>3. CASE stage' = "insert" /\ lower' = Sorting!low + 1 /\ upper' = Sorting!low + 1
      BY <1>1, <2>0, <2>3 DEF PlaceKept, Sorting!low
    <2>. QED  BY <2>1, <2>2, <2>3 DEF Sorting!Loop
  <1>5. ASSUME lawful
        PROVE  OrderKept(list', Sorting!Count, descending, stage', range', pending', lower', upper')
    <2>1. Unsorted(stage', range', pending') = Unsorted(stage, range, pending)
      BY <1>1, <1>4, SameUnsorted
    <2>2. PICK s : s = KeysOf(list, Sorting!Count, descending)
      OBVIOUS
    <2>3. stage' = "insert" => Inserting(s, range.low, range.high, lower', upper')
      BY <1>1, SortFacts DEF Sorting!Loop, Inserting
    <2>4. stage' = "heapify" => Heap(s, range.low, upper', range.high)
      <3>1. SUFFICES ASSUME stage' = "heapify" PROVE Heap(s, range.low, upper', range.high)
        OBVIOUS
      <3>2. PICK d \in Nat : d = range.high - range.low
        BY SortFacts
      <3>3. PICK h \in Nat : h = d \div 2 /\ d <= 2 * h + 1
        OBVIOUS
      <3>4. upper' = range.low + h
        BY <1>1, <3>1, <3>2, <3>3, SortFacts DEF Sorting!Loop
      <3>5. ASSUME NEW m \in upper' .. range.high - 1, NEW c \in range.low .. range.high - 1, Kid(range.low, m, c)
            PROVE  FALSE
        BY <3>2, <3>3, <3>4, <3>5, SortFacts DEF Kid
      <3>. QED  BY <3>5 DEF Heap
    <2>5. LocalKept(stage', range', lower', upper', s)
      BY <1>1, <2>3, <2>4 DEF Sorting!Loop, LocalKept
    <2>. QED  BY <1>1, <1>5, <2>1, <2>2, <2>5 DEF SortKept, OrderKept
  <1>. QED  BY <1>1, <1>2, <1>4, <1>5, SortGoesOn

\* sort_choose_pivot moves elements of the range only.
LEMMA SortChoosePivot ==
  ASSUME SortKept, Sorting!ChoosePivot
  PROVE  SortKept'
  <1>. USE DEF Sorting!At, Sorting!Go
  <1>1. /\ stage = "pivot" /\ stage' = "up" /\ range' = range /\ pending' = pending /\ Sorting!Keep
        /\ lower' = range.low /\ upper' = range.high
    BY DEF Sorting!ChoosePivot, Sorting!low, Sorting!high
  <1>2. PICK n \in Nat : n = Sorting!Count
    BY SortFacts
  <1>3. PICK lo \in Nat, me \in Nat, hi \in Nat :
            /\ lo = range.low /\ me = Sorting!mid /\ hi = range.high
            /\ lo <= me /\ me < hi /\ hi - lo >= 2 /\ range.depth > 0 /\ hi <= n
    <2>1. range.high - range.low >= 2 /\ range.depth > 0
      BY <1>1 DEF SortKept, PlaceKept
    <2>2. PICK d \in Nat : d = range.high - range.low
      BY SortFacts
    <2>3. d \div 2 \in Nat /\ d \div 2 < d
      BY <2>1, <2>2
    <2>. QED  BY <1>2, <2>1, <2>2, <2>3, SortFacts
  <1>. DEFINE good(t) == /\ Rearranges(t, input, n)
                         /\ lawful => /\ t \in Numbers(n)
                                      /\ Paired(KeysOf(t, n, descending), n, Unsorted(stage, range, pending))
  <1>5. ASSUME NEW t, good(t), NEW x \in lo .. hi - 1, NEW y \in lo .. hi - 1
        PROVE  good(Sorting!Swap(t, x, y))
    <2>0. Sorting!Swap(t, x, y) = Swapped(t, x, y)
      BY DEF Sorting!Swap, Swapped
    <2>1. x \in 0 .. n - 1 /\ y \in 0 .. n - 1
      BY <1>3
    <2>2. Rearranges(Swapped(t, x, y), input, n)
      BY <1>5, <2>1, RearrangesSwap
    <2>3. ASSUME lawful
          PROVE  /\ Swapped(t, x, y) \in Numbers(n)
                 /\ Paired(KeysOf(Swapped(t, x, y), n, descending), n, Unsorted(stage, range, pending))
      <3>1. t \in Numbers(Sorting!Count) /\ stage \notin {"return", "done"}
            /\ x \in range.low .. range.high - 1 /\ y \in range.low .. range.high - 1
            /\ Paired(KeysOf(t, Sorting!Count, descending), Sorting!Count, Unsorted(stage, range, pending))
        BY <1>1, <1>2, <1>3, <1>5, <2>3
      <3>. QED  BY <1>2, <2>3, <3>1, Working
    <2>. QED  BY <2>0, <2>2, <2>3
  <1>6. good(list)
    BY <1>2, SortFacts DEF SortKept, OrderKept
  <1>7. good(list')
    <2>. HIDE DEF good
    <2>0. lo \in lo .. hi - 1 /\ me \in lo .. hi - 1 /\ hi - 1 \in lo .. hi - 1
          /\ Sorting!low = lo /\ Sorting!mid = me /\ Sorting!high = hi
      BY <1>3, SortFacts
    <2>1. PICK b1 \in Sorting!sort_before(list, Sorting!mid, Sorting!low) :
            LET s1 == IF b1 THEN Sorting!Swap(list, Sorting!mid, Sorting!low) ELSE list IN
            \E b2 \in Sorting!sort_before(s1, Sorting!high - 1, Sorting!mid) :
            LET s2 == IF b2 THEN Sorting!Swap(s1, Sorting!high - 1, Sorting!mid) ELSE s1 IN
            \E b3 \in IF b2 THEN Sorting!sort_before(s2, Sorting!mid, Sorting!low) ELSE {FALSE} :
            LET s3 == IF b3 THEN Sorting!Swap(s2, Sorting!mid, Sorting!low) ELSE s2 IN
            list' = Sorting!Swap(s3, Sorting!low, Sorting!mid)
      BY DEF Sorting!ChoosePivot
    <2>2. PICK s1 : s1 = IF b1 THEN Sorting!Swap(list, Sorting!mid, Sorting!low) ELSE list
      OBVIOUS
    <2>3. PICK b2 \in Sorting!sort_before(s1, Sorting!high - 1, Sorting!mid) :
            LET s2 == IF b2 THEN Sorting!Swap(s1, Sorting!high - 1, Sorting!mid) ELSE s1 IN
            \E b3 \in IF b2 THEN Sorting!sort_before(s2, Sorting!mid, Sorting!low) ELSE {FALSE} :
            LET s3 == IF b3 THEN Sorting!Swap(s2, Sorting!mid, Sorting!low) ELSE s2 IN
            list' = Sorting!Swap(s3, Sorting!low, Sorting!mid)
      BY <2>1, <2>2
    <2>4. PICK s2 : s2 = IF b2 THEN Sorting!Swap(s1, Sorting!high - 1, Sorting!mid) ELSE s1
      OBVIOUS
    <2>5. PICK b3 \in IF b2 THEN Sorting!sort_before(s2, Sorting!mid, Sorting!low) ELSE {FALSE} :
            LET s3 == IF b3 THEN Sorting!Swap(s2, Sorting!mid, Sorting!low) ELSE s2 IN
            list' = Sorting!Swap(s3, Sorting!low, Sorting!mid)
      BY <2>3, <2>4
    <2>6. PICK s3 : s3 = IF b3 THEN Sorting!Swap(s2, Sorting!mid, Sorting!low) ELSE s2
      OBVIOUS
    <2>7. good(s1)
      BY <1>5, <1>6, <2>0, <2>2
    <2>8. good(s2)
      BY <1>5, <2>0, <2>4, <2>7
    <2>9. good(s3)
      BY <1>5, <2>0, <2>6, <2>8
    <2>10. list' = Sorting!Swap(s3, Sorting!low, Sorting!mid)
      BY <2>5, <2>6
    <2>. QED  BY <1>5, <2>0, <2>9, <2>10
  <1>8. Rearranges(list', input, Sorting!Count) /\ StackKept(range', pending', Sorting!Count)
    BY <1>1, <1>2, <1>7 DEF SortKept
  <1>9. PlaceKept(stage', range', lower', upper', pending')
    BY <1>1, <1>3 DEF PlaceKept
  <1>10. ASSUME lawful
        PROVE  OrderKept(list', Sorting!Count, descending, stage', range', pending', lower', upper')
    <2>1. Unsorted(stage', range', pending') = Unsorted(stage, range, pending)
      BY <1>1, SameUnsorted
    <2>2. \A s : LocalKept(stage', range', lower', upper', s)
      BY <1>1, <1>3 DEF LocalKept, Lower, Upper
    <2>. QED  BY <1>2, <1>7, <1>10, <2>1, <2>2 DEF OrderKept
  <1>. QED  BY <1>1, <1>8, <1>9, <1>10, SortGoesOn

\* The upward scan stays in the range and passes what is below the pivot.
LEMMA SortScanUp ==
  ASSUME SortKept, Sorting!ScanUp
  PROVE  SortKept'
  <1>. USE DEF Sorting!At, Sorting!Go
  <1>1. /\ stage = "up" /\ range' = range /\ pending' = pending /\ Sorting!Keep /\ list' = list
        /\ lower' = lower + 1 /\ upper' = upper /\ stage' \in {"up", "down"}
    BY DEF Sorting!ScanUp
  <1>2. PICK n \in Nat : n = Sorting!Count
    BY SortFacts
  <1>3. PICK lo \in Nat, hi \in Nat : lo = range.low /\ hi = range.high /\ hi <= n
    BY <1>2, SortFacts
  <1>4. /\ hi - lo >= 2 /\ range.depth > 0 /\ lower \in Int /\ upper \in Int
        /\ lo <= lower /\ lower < hi /\ lo < upper /\ upper <= hi
    BY <1>1, <1>3 DEF SortKept, PlaceKept
  <1>5. PICK before \in IF lower + 1 < hi THEN Sorting!sort_before(list, lower + 1, lo) ELSE {FALSE} :
            IF before THEN stage' = "up" ELSE stage' = "down"
    BY <1>3 DEF Sorting!ScanUp, Sorting!low, Sorting!high
  <1>6. Rearranges(list', input, Sorting!Count) /\ StackKept(range', pending', Sorting!Count)
    BY <1>1 DEF SortKept
  <1>9. stage' = "up" => lower + 1 < hi /\ before
    <2>1. CASE lower + 1 < hi
      BY <1>5, <2>1
    <2>2. CASE ~(lower + 1 < hi)
      BY <1>5, <2>2
    <2>. QED  BY <2>1, <2>2
  <1>7. PlaceKept(stage', range', lower', upper', pending')
    <2>1. CASE stage' = "up"
      BY <1>1, <1>3, <1>4, <1>9, <2>1 DEF PlaceKept
    <2>2. CASE stage' = "down"
      BY <1>1, <1>3, <1>4, <2>2 DEF PlaceKept
    <2>. QED  BY <1>1, <2>1, <2>2
  <1>8. ASSUME lawful
        PROVE  OrderKept(list', Sorting!Count, descending, stage', range', pending', lower', upper')
    <2>1. Unsorted(stage', range', pending') = Unsorted(stage, range, pending)
      BY <1>1, SameUnsorted
    <2>2. PICK s : s = KeysOf(list, n, descending)
      OBVIOUS
    <2>3. s \in Numbers(n) /\ list \in Numbers(n) /\ Lower(s, lo, lower, s[lo]) /\ Upper(s, upper, hi, s[lo])
          /\ Paired(s, n, Unsorted(stage, range, pending))
      BY <1>1, <1>2, <1>3, <1>8, <2>2, SortFacts DEF SortKept, OrderKept, LocalKept
    <2>4. lower + 1 < hi => (before <=> s[lower + 1] < s[lo])
      <3>1. SUFFICES ASSUME lower + 1 < hi PROVE before <=> s[lower + 1] < s[lo]
        OBVIOUS
      <3>2. lower + 1 \in 0 .. n - 1 /\ lo \in 0 .. n - 1 /\ before \in Sorting!sort_before(list, lower + 1, lo)
        BY <1>3, <1>4, <1>5, <3>1
      <3>. QED  BY <1>8, <2>2, <2>3, <3>2, Compares
    <2>5. \A x \in 0 .. n - 1 : s[x] \in Int
      BY <2>3 DEF Numbers
    <2>6. CASE stage' = "up"
      <3>1. lower + 1 < hi /\ s[lower + 1] < s[lo] /\ lower + 1 \in 0 .. n - 1 /\ lo \in 0 .. n - 1
        BY <1>3, <1>4, <1>9, <2>4, <2>6
      <3>2. s[lower + 1] <= s[lo]
        BY <2>5, <3>1
      <3>3. \A x \in lo + 1 .. lower + 1 : x = lower + 1 \/ x \in lo + 1 .. lower
        BY <1>4
      <3>4. Lower(s, lo, lower + 1, s[lo])
        BY <2>3, <3>2, <3>3 DEF Lower
      <3>5. LocalKept(stage', range', lower', upper', s)
        BY <1>1, <1>3, <2>3, <2>6, <3>4 DEF LocalKept
      <3>. QED  BY <1>1, <1>2, <2>1, <2>2, <2>3, <3>5 DEF OrderKept
    <2>7. CASE stage' = "down"
      <3>1. lower + 1 < hi => s[lo] <= s[lower + 1]
        <4>1. SUFFICES ASSUME lower + 1 < hi PROVE s[lo] <= s[lower + 1]
          OBVIOUS
        <4>2. lower + 1 \in 0 .. n - 1 /\ lo \in 0 .. n - 1 /\ ~(s[lower + 1] < s[lo])
          BY <1>3, <1>4, <1>5, <2>4, <2>7, <4>1
        <4>. QED  BY <2>5, <4>2
      <3>2. (lower + 1) - 1 = lower
        BY <1>4
      <3>3. LocalKept(stage', range', lower', upper', s)
        BY <1>1, <1>3, <2>3, <2>7, <3>1, <3>2 DEF LocalKept
      <3>. QED  BY <1>1, <1>2, <2>1, <2>2, <2>3, <3>3 DEF OrderKept
    <2>. QED  BY <1>1, <2>6, <2>7
  <1>. QED  BY <1>1, <1>6, <1>7, <1>8, SortGoesOn

\* The downward scan stays in the range and passes what is above the pivot.
LEMMA SortScanDown ==
  ASSUME SortKept, Sorting!ScanDown
  PROVE  SortKept'
  <1>. USE DEF Sorting!At, Sorting!Go
  <1>1. /\ stage = "down" /\ range' = range /\ pending' = pending /\ Sorting!Keep /\ list' = list
        /\ lower' = lower /\ upper' = upper - 1 /\ stage' \in {"down", "meet"}
    BY DEF Sorting!ScanDown
  <1>2. PICK n \in Nat : n = Sorting!Count
    BY SortFacts
  <1>3. PICK lo \in Nat, hi \in Nat : lo = range.low /\ hi = range.high /\ hi <= n
    BY <1>2, SortFacts
  <1>4. /\ hi - lo >= 2 /\ range.depth > 0 /\ lower \in Int /\ upper \in Int
        /\ lo < lower /\ lower <= hi /\ lo < upper /\ upper <= hi
    BY <1>1, <1>3 DEF SortKept, PlaceKept
  <1>5. PICK before \in IF upper - 1 > lo THEN Sorting!sort_before(list, lo, upper - 1) ELSE {FALSE} :
            IF before THEN stage' = "down" ELSE stage' = "meet"
    BY <1>3 DEF Sorting!ScanDown, Sorting!low, Sorting!high
  <1>6. Rearranges(list', input, Sorting!Count) /\ StackKept(range', pending', Sorting!Count)
    BY <1>1 DEF SortKept
  <1>7. stage' = "down" => upper - 1 > lo /\ before
    <2>1. CASE upper - 1 > lo
      BY <1>5, <2>1
    <2>2. CASE ~(upper - 1 > lo)
      BY <1>5, <2>2
    <2>. QED  BY <2>1, <2>2
  <1>8. PlaceKept(stage', range', lower', upper', pending')
    <2>1. CASE stage' = "down"
      BY <1>1, <1>3, <1>4, <1>7, <2>1 DEF PlaceKept
    <2>2. CASE stage' = "meet"
      BY <1>1, <1>3, <1>4, <2>2 DEF PlaceKept
    <2>. QED  BY <1>1, <2>1, <2>2
  <1>9. ASSUME lawful
        PROVE  OrderKept(list', Sorting!Count, descending, stage', range', pending', lower', upper')
    <2>1. Unsorted(stage', range', pending') = Unsorted(stage, range, pending)
      BY <1>1, SameUnsorted
    <2>2. PICK s : s = KeysOf(list, n, descending)
      OBVIOUS
    <2>3. s \in Numbers(n) /\ list \in Numbers(n) /\ Lower(s, lo, lower - 1, s[lo]) /\ Upper(s, upper, hi, s[lo])
          /\ (lower < hi => s[lo] <= s[lower]) /\ Paired(s, n, Unsorted(stage, range, pending))
      BY <1>1, <1>2, <1>3, <1>9, <2>2, SortFacts DEF SortKept, OrderKept, LocalKept
    <2>4. upper - 1 > lo => (before <=> s[lo] < s[upper - 1])
      <3>1. SUFFICES ASSUME upper - 1 > lo PROVE before <=> s[lo] < s[upper - 1]
        OBVIOUS
      <3>2. upper - 1 \in 0 .. n - 1 /\ lo \in 0 .. n - 1 /\ before \in Sorting!sort_before(list, lo, upper - 1)
        BY <1>3, <1>4, <1>5, <3>1
      <3>. QED  BY <1>9, <2>2, <2>3, <3>2, Compares
    <2>5. \A x \in 0 .. n - 1 : s[x] \in Int
      BY <2>3 DEF Numbers
    <2>6. CASE stage' = "down"
      <3>1. upper - 1 > lo /\ s[lo] < s[upper - 1] /\ upper - 1 \in 0 .. n - 1 /\ lo \in 0 .. n - 1
        BY <1>3, <1>4, <1>7, <2>4, <2>6
      <3>2. s[lo] <= s[upper - 1]
        BY <2>5, <3>1
      <3>3. \A x \in upper - 1 .. hi - 1 : x = upper - 1 \/ x \in upper .. hi - 1
        BY <1>4
      <3>4. Upper(s, upper - 1, hi, s[lo])
        BY <2>3, <3>2, <3>3 DEF Upper
      <3>5. LocalKept(stage', range', lower', upper', s)
        BY <1>1, <1>3, <2>3, <2>6, <3>4 DEF LocalKept
      <3>. QED  BY <1>1, <1>2, <2>1, <2>2, <2>3, <3>5 DEF OrderKept
    <2>7. CASE stage' = "meet"
      <3>1. s[upper - 1] <= s[lo]
        <4>1. upper - 1 \in 0 .. n - 1 /\ lo \in 0 .. n - 1
          BY <1>3, <1>4
        <4>2. CASE upper - 1 > lo
          <5>1. ~(s[lo] < s[upper - 1])
            BY <1>5, <2>4, <2>7, <4>2
          <5>. QED  BY <2>5, <4>1, <5>1
        <4>3. CASE ~(upper - 1 > lo)
          <5>1. upper - 1 = lo
            BY <1>3, <1>4, <4>3
          <5>. QED  BY <2>5, <4>1, <5>1
        <4>. QED  BY <4>2, <4>3
      <3>2. (upper - 1) + 1 = upper
        BY <1>4
      <3>3. LocalKept(stage', range', lower', upper', s)
        BY <1>1, <1>3, <2>3, <2>7, <3>1, <3>2 DEF LocalKept
      <3>. QED  BY <1>1, <1>2, <2>1, <2>2, <2>3, <3>3 DEF OrderKept
    <2>. QED  BY <1>1, <2>6, <2>7
  <1>. QED  BY <1>1, <1>6, <1>8, <1>9, SortGoesOn

\* The scans have stopped at two elements on the wrong sides.
LEMMA SortExchange ==
  ASSUME SortKept, Sorting!Exchange
  PROVE  SortKept'
  <1>. USE DEF Sorting!At, Sorting!Go
  <1>1. /\ stage = "meet" /\ stage' = "up" /\ range' = range /\ pending' = pending /\ Sorting!Keep
        /\ lower' = lower /\ upper' = upper /\ lower < upper /\ list' = Swapped(list, lower, upper)
    BY DEF Sorting!Exchange, Sorting!Swap, Swapped
  <1>2. PICK n \in Nat : n = Sorting!Count
    BY SortFacts
  <1>3. PICK lo \in Nat, hi \in Nat : lo = range.low /\ hi = range.high /\ hi <= n
    BY <1>2, SortFacts
  <1>4. /\ hi - lo >= 2 /\ range.depth > 0 /\ lower \in Int /\ upper \in Int
        /\ lo < lower /\ lower <= hi /\ lo <= upper /\ upper < hi
    BY <1>1, <1>3 DEF SortKept, PlaceKept
  <1>5. /\ lower \in range.low .. range.high - 1 /\ upper \in range.low .. range.high - 1
        /\ stage \notin {"return", "done"}
        /\ lower \in lo + 1 .. hi - 1 /\ upper \in lo + 1 .. hi - 1
    BY <1>1, <1>3, <1>4
  <1>6. Rearranges(list', input, Sorting!Count) /\ StackKept(range', pending', Sorting!Count)
    BY <1>1, <1>5, WorkingSwap DEF SortKept
  <1>7. PlaceKept(stage', range', lower', upper', pending')
    BY <1>1, <1>3, <1>4 DEF PlaceKept
  <1>8. ASSUME lawful
        PROVE  OrderKept(list', Sorting!Count, descending, stage', range', pending', lower', upper')
    <2>1. Unsorted(stage', range', pending') = Unsorted(stage, range, pending)
      BY <1>1, SameUnsorted
    <2>2. PICK s : s = KeysOf(list, n, descending)
      OBVIOUS
    <2>3. s \in Numbers(n) /\ Lower(s, lo, lower - 1, s[lo]) /\ Upper(s, upper + 1, hi, s[lo])
          /\ (lower < hi => s[lo] <= s[lower]) /\ s[upper] <= s[lo]
      BY <1>1, <1>2, <1>3, <1>8, <2>2, SortFacts DEF SortKept, OrderKept, LocalKept
    <2>4. /\ Lower(Swapped(s, lower, upper), lo, lower, Swapped(s, lower, upper)[lo])
          /\ Upper(Swapped(s, lower, upper), upper, hi, Swapped(s, lower, upper)[lo])
      <3>1. lower < upper /\ hi <= n /\ s[lo] <= s[lower] /\ s[upper] <= s[lo]
            /\ Lower(s, lo, lower - 1, s[lo]) /\ Upper(s, upper + 1, hi, s[lo]) /\ s \in Numbers(n)
        BY <1>1, <1>3, <1>4, <2>3
      <3>. QED  BY ONLY <1>5, <3>1, n \in Nat, lo \in Nat, hi \in Nat, ScansSwap
    <2>5. KeysOf(list', Sorting!Count, descending) = Swapped(s, lower, upper)
          /\ Paired(Swapped(s, lower, upper), Sorting!Count, Unsorted(stage, range, pending))
      BY <1>1, <1>2, <1>5, <1>8, <2>2, WorkingSwap
    <2>6. LocalKept(stage', range', lower', upper', Swapped(s, lower, upper))
      BY <1>1, <1>3, <2>4 DEF LocalKept
    <2>. QED  BY <2>1, <2>5, <2>6 DEF OrderKept
  <1>. QED  BY <1>1, <1>6, <1>7, <1>8, SortGoesOn

\* The last suspended range is taken up, or everything is sorted.
LEMMA SortReturn ==
  ASSUME SortKept, Sorting!Return
  PROVE  SortKept'
  <1>. USE DEF Sorting!At, Sorting!Go
  <1>1. stage = "return" /\ Sorting!Keep /\ list' = list /\ lower' = lower /\ upper' = upper
    BY DEF Sorting!Return
  <1>2. PICK n \in Nat : n = Sorting!Count
    BY SortFacts
  <1>3. Rearranges(list', input, Sorting!Count) /\ lower \in Int /\ upper \in Int /\ StackKept(range, pending, n)
        /\ pending \in Seq(Ranges)
    BY <1>1, <1>2, SortFacts DEF SortKept, StackKept
  <1>4. CASE pending = <<>>
    <2>1. stage' = "done" /\ range' = range /\ pending' = pending
      BY <1>4 DEF Sorting!Return
    <2>2. PlaceKept(stage', range', lower', upper', pending')
      BY <1>1, <1>3, <1>4, <2>1 DEF PlaceKept
    <2>3. Unsorted(stage', range', pending') = Unsorted(stage, range, pending)
      BY <1>1, <2>1 DEF Unsorted
    <2>4. \A s : LocalKept(stage', range', lower', upper', s)
      BY <2>1 DEF LocalKept
    <2>5. lawful => OrderKept(list', Sorting!Count, descending, stage', range', pending', lower', upper')
      BY <1>1, <2>3, <2>4 DEF SortKept, OrderKept
    <2>. QED  BY <1>1, <1>2, <1>3, <2>1, <2>2, <2>5, SortGoesOn
  <1>5. CASE pending # <<>>
    <2>0. stage' = "loop" /\ range' = pending[Len(pending)] /\ pending' = SubSeq(pending, 1, Len(pending) - 1)
      BY <1>5 DEF Sorting!Return
    <2>1. PICK L \in Nat : L = Len(pending) /\ L >= 1
      BY <1>3, <1>5
    <2>2. /\ pending' \in Seq(Ranges) /\ Len(pending') = L - 1
          /\ \A k \in 1 .. L - 1 : pending'[k] = pending[k]
      BY <1>3, <2>0, <2>1
    <2>3. range' = pending[L] /\ L \in 1 .. Len(pending)
      BY <2>0, <2>1
    <2>4. StackKept(range', pending', n)
      <3>1. IsRange(pending[L], n) /\ (pending[L].high - pending[L].low) * Sorting!TwoTo[L - 1] <= n
        BY <1>3, <2>3 DEF StackKept
      <3>2. ASSUME NEW k \in 1 .. L - 1
            PROVE  /\ IsRange(pending[k], n)
                   /\ (pending[k].high - pending[k].low) * Sorting!TwoTo[k - 1] <= n
                   /\ Sorting!TwoTo[k] <= n
                   /\ Apart(pending[L], pending[k])
                   /\ \A m \in 1 .. k - 1 : Apart(pending[m], pending[k])
        <4>1. k \in 1 .. Len(pending)
          BY <2>1
        <4>2. Apart(pending[k], pending[L])
          BY <1>3, <2>3 DEF StackKept
        <4>3. Apart(pending[L], pending[k])
          BY <4>2 DEF Apart
        <4>. QED  BY <1>3, <4>1, <4>3 DEF StackKept
      <3>3. \A k \in 1 .. L - 1 : \A m \in 1 .. k - 1 : pending'[m] = pending[m]
        BY <2>2
      <3>. QED  BY <2>2, <2>3, <3>1, <3>2, <3>3 DEF StackKept
    <2>5. PlaceKept(stage', range', lower', upper', pending')
      BY <1>1, <1>3, <2>0 DEF PlaceKept
    <2>6. Unsorted(stage', range', pending') = Unsorted(stage, range, pending)
      <3>1. \A k \in 1 .. L : k = L \/ k \in 1 .. L - 1
        BY <2>1
      <3>2. \A k \in 1 .. L - 1 : k \in 1 .. L
        BY <2>1
      <3>3. {pending[k] : k \in 1 .. L} = {pending'[k] : k \in 1 .. L - 1} \cup {pending[L]}
        BY <2>1, <2>2, <2>3, <3>1, <3>2
      <3>. QED  BY <1>1, <2>0, <2>1, <2>2, <2>3, <3>3 DEF Unsorted
    <2>7. \A s : LocalKept(stage', range', lower', upper', s)
      BY <2>0 DEF LocalKept
    <2>8. lawful => OrderKept(list', Sorting!Count, descending, stage', range', pending', lower', upper')
      BY <1>1, <2>6, <2>7 DEF SortKept, OrderKept
    <2>. QED  BY <1>1, <1>2, <1>3, <2>4, <2>5, <2>8, SortGoesOn
  <1>. QED  BY <1>4, <1>5

\* A step of the insertion, which moves elements of the range only.
LEMMA SortInsert ==
  ASSUME SortKept, Sorting!Insert
  PROVE  SortKept'
  <1>. USE DEF Sorting!At, Sorting!Go
  <1>1. stage = "insert" /\ range' = range /\ pending' = pending /\ Sorting!Keep
    BY DEF Sorting!Insert
  <1>2. PICK n \in Nat : n = Sorting!Count
    BY SortFacts
  <1>3. PICK lo \in Nat, hi \in Nat : lo = range.low /\ hi = range.high /\ lo <= hi /\ hi <= n
    BY <1>2, SortFacts
  <1>4. /\ lower \in Int /\ upper \in Int
        /\ lo <= upper /\ upper <= lower /\ lo < lower /\ (lower >= hi => upper = lower)
    BY <1>1, <1>3 DEF SortKept, PlaceKept
  <1>5. StackKept(range', pending', Sorting!Count)
    BY <1>1 DEF SortKept
  <1>6. ASSUME lawful
        PROVE  /\ KeysOf(list, n, descending) \in Numbers(n) /\ list \in Numbers(n)
               /\ Inserting(KeysOf(list, n, descending), lo, hi, lower, upper)
               /\ Paired(KeysOf(list, n, descending), n, Unsorted(stage, range, pending))
    BY <1>1, <1>2, <1>3, <1>6, SortFacts DEF SortKept, OrderKept, LocalKept
  <1>7. CASE lower >= hi
    <2>1. stage' = "return" /\ list' = list /\ lower' = lower /\ upper' = upper
      BY <1>3, <1>7 DEF Sorting!Insert, Sorting!high
    <2>2. PlaceKept(stage', range', lower', upper', pending')
      BY <1>1, <1>3, <1>4, <2>1 DEF PlaceKept
    <2>3. ASSUME lawful
          PROVE  OrderKept(list', Sorting!Count, descending, stage', range', pending', lower', upper')
      <3>1. PICK s : s = KeysOf(list, n, descending)
        OBVIOUS
      <3>2. ASSUME NEW x \in 0 .. n - 1, NEW y \in 0 .. n - 1, x < y, Within(range, x), Within(range, y)
            PROVE  s[x] <= s[y]
        <4>1. x \in lo .. hi - 1 /\ y \in lo .. hi - 1 /\ y <= lower /\ y # upper
          BY <1>3, <1>4, <1>7, <3>2 DEF Within
        <4>. QED  BY <1>6, <2>3, <3>1, <3>2, <4>1 DEF Inserting
      <3>3. \A q \in Unsorted(stage, range, pending) : q = range \/ q \in Unsorted(stage', range', pending')
        BY <1>1 DEF Unsorted
      <3>4. Paired(s, n, Unsorted(stage', range', pending'))
        BY <1>6, <2>3, <3>1, <3>2, <3>3, PairedSorted
      <3>5. LocalKept(stage', range', lower', upper', s)
        BY <2>1 DEF LocalKept
      <3>. QED  BY <1>2, <2>1, <3>1, <3>4, <3>5 DEF OrderKept
    <2>4. Rearranges(list', input, Sorting!Count)
      BY <2>1 DEF SortKept
    <2>. QED  BY <1>1, <1>5, <2>2, <2>3, <2>4, SortGoesOn
  <1>8. CASE ~(lower >= hi)
    <2>1. lower < hi /\ lower \in lo .. hi - 1 /\ upper \in lo .. lower /\ upper \in range.low .. range.high - 1
      BY <1>3, <1>4, <1>8
    <2>2. stage' = "insert"
      BY <1>3, <1>8 DEF Sorting!Insert, Sorting!high
    <2>3. PICK before \in IF upper > lo THEN Sorting!sort_before(list, upper, upper - 1) ELSE {FALSE} :
            IF before THEN list' = Swapped(list, upper, upper - 1) /\ upper' = upper - 1 /\ lower' = lower
                      ELSE list' = list /\ lower' = lower + 1 /\ upper' = lower + 1
      BY <1>3, <1>8 DEF Sorting!Insert, Sorting!high, Sorting!low, Sorting!Swap, Swapped
    <2>4. Unsorted(stage', range', pending') = Unsorted(stage, range, pending)
      BY <1>1, <2>2
    <2>5. ASSUME lawful, upper > lo
          PROVE  before <=> KeysOf(list, n, descending)[upper] < KeysOf(list, n, descending)[upper - 1]
      <3>1. upper \in 0 .. n - 1 /\ upper - 1 \in 0 .. n - 1
        BY <1>3, <2>1, <2>5
      <3>2. before \in Sorting!sort_before(list, upper, upper - 1)
        BY <2>3, <2>5
      <3>. QED  BY <1>6, <2>5, <3>1, <3>2, Compares
    <2>6. CASE before
      <3>1. upper > lo
        <4>1. CASE upper > lo
          BY <4>1
        <4>2. CASE ~(upper > lo)
          BY <2>3, <2>6, <4>2
        <4>. QED  BY <4>1, <4>2
      <3>2. list' = Swapped(list, upper, upper - 1) /\ upper' = upper - 1 /\ lower' = lower
        BY <2>3, <2>6
      <3>3. upper - 1 \in range.low .. range.high - 1 /\ upper \in range.low .. range.high - 1
            /\ stage \notin {"return", "done"} /\ upper \in lo + 1 .. lower
        BY <1>1, <1>3, <2>1, <3>1
      <3>4. Rearranges(list', input, Sorting!Count)
        BY <3>2, <3>3, WorkingSwap
      <3>5. PlaceKept(stage', range', lower', upper', pending')
        BY <1>1, <1>3, <1>4, <2>1, <2>2, <3>1, <3>2 DEF PlaceKept
      <3>6. ASSUME lawful
            PROVE  OrderKept(list', Sorting!Count, descending, stage', range', pending', lower', upper')
        <4>1. PICK s : s = KeysOf(list, n, descending)
          OBVIOUS
        <4>2. s[upper] < s[upper - 1] /\ s \in Numbers(n) /\ Inserting(s, lo, hi, lower, upper)
          BY <1>6, <2>5, <2>6, <3>1, <3>6, <4>1
        <4>3. Inserting(Swapped(s, upper, upper - 1), lo, hi, lower, upper - 1)
          BY ONLY n \in Nat, lo \in Nat, hi \in Nat, <1>3, <2>1, <3>3, <4>2, InsertingSwap
        <4>4. KeysOf(list', Sorting!Count, descending) = Swapped(s, upper, upper - 1)
              /\ Paired(Swapped(s, upper, upper - 1), Sorting!Count, Unsorted(stage, range, pending))
          BY <1>2, <3>2, <3>3, <3>6, <4>1, WorkingSwap
        <4>5. LocalKept(stage', range', lower', upper', Swapped(s, upper, upper - 1))
          BY <1>1, <1>3, <2>2, <3>2, <4>3 DEF LocalKept
        <4>. QED  BY <2>4, <4>4, <4>5 DEF OrderKept
      <3>. QED  BY <1>1, <1>5, <3>4, <3>5, <3>6, SortGoesOn
    <2>7. CASE ~before
      <3>1. list' = list /\ lower' = lower + 1 /\ upper' = lower + 1
        BY <2>3, <2>7
      <3>2. Rearranges(list', input, Sorting!Count)
        BY <3>1 DEF SortKept
      <3>3. PlaceKept(stage', range', lower', upper', pending')
        BY <1>1, <1>3, <1>4, <2>1, <2>2, <3>1 DEF PlaceKept
      <3>4. ASSUME lawful
            PROVE  OrderKept(list', Sorting!Count, descending, stage', range', pending', lower', upper')
        <4>1. PICK s : s = KeysOf(list, n, descending)
          OBVIOUS
        <4>2. s \in Numbers(n) /\ Inserting(s, lo, hi, lower, upper) /\ \A x \in 0 .. n - 1 : s[x] \in Int
          BY <1>6, <3>4, <4>1 DEF Numbers
        <4>3. upper > lo => s[upper - 1] <= s[upper]
          <5>1. SUFFICES ASSUME upper > lo PROVE s[upper - 1] <= s[upper]
            OBVIOUS
          <5>2. ~(s[upper] < s[upper - 1]) /\ upper \in 0 .. n - 1 /\ upper - 1 \in 0 .. n - 1
            BY <1>3, <2>1, <2>5, <2>7, <3>4, <4>1, <5>1
          <5>. QED  BY <4>2, <5>2
        <4>4. Inserting(s, lo, hi, lower + 1, lower + 1)
          BY ONLY n \in Nat, lo \in Nat, hi \in Nat, <1>3, <2>1, <4>2, <4>3, InsertingNext
        <4>5. LocalKept(stage', range', lower', upper', s)
          BY <1>1, <1>3, <2>2, <3>1, <4>4 DEF LocalKept
        <4>. QED  BY <1>2, <1>6, <2>4, <3>1, <3>4, <4>1, <4>5 DEF OrderKept
      <3>. QED  BY <1>1, <1>5, <3>2, <3>3, <3>4, SortGoesOn
    <2>. QED  BY <2>6, <2>7
  <1>. QED  BY <1>7, <1>8

\* A product grows with its first factor.
LEMMA TimesGrows ==
  ASSUME NEW x \in Nat, NEW y \in Nat, NEW t \in Nat, x <= y
  PROVE  x * t <= y * t
  <1>1. PICK d \in Nat : y = x + d
    BY y - x \in Nat
  <1>2. d * t \in Nat /\ x * t \in Nat
    OBVIOUS
  <1>3. y * t = x * t + d * t
    BY <1>1
  <1>. QED  BY <1>2, <1>3

\* Of the two sides of a range the smaller goes on and the other is suspended.
LEMMA StackSplit ==
  ASSUME NEW n \in Nat, NEW r, NEW q, StackKept(r, q, n), NEW b, NEW c, IsRange(b, n), IsRange(c, n),
         r.high - r.low >= 2, 2 * (b.high - b.low) <= r.high - r.low, c.high - c.low <= r.high - r.low,
         \A x \in Int : Within(b, x) \/ Within(c, x) => Within(r, x), Apart(b, c)
  PROVE  StackKept(b, Append(q, c), n)
  <1>1. PICK L \in Nat : L = Len(q)
    BY DEF StackKept
  <1>2. PICK u : u = Append(q, c)
    OBVIOUS
  <1>3. /\ u \in Seq(Ranges) /\ Len(u) = L + 1 /\ u[L + 1] = c
        /\ \A k \in 1 .. L : u[k] = q[k]
    BY <1>1, <1>2 DEF StackKept, IsRange
  <1>4. PICK w \in Nat, x \in Nat, y \in Nat :
            w = r.high - r.low /\ x = b.high - b.low /\ y = c.high - c.low
    <2>1. ASSUME NEW v, IsRange(v, n) PROVE v.high - v.low \in Nat
      BY <2>1 DEF IsRange, Ranges
    <2>2. IsRange(r, n)
      BY DEF StackKept
    <2>. QED  BY <2>1, <2>2
  <1>5. PICK T \in Nat : T = Sorting!TwoTo[L] /\ Sorting!TwoTo[L + 1] = 2 * T
    BY TwoToFacts
  <1>6. w * T <= n
    BY <1>1, <1>4, <1>5 DEF StackKept
  <1>7. x * (2 * T) <= n /\ y * T <= n /\ 2 * T <= n
    <2>1. (2 * x) * T <= w * T /\ y * T <= w * T /\ 2 * T <= w * T
      <3>1. 2 * x \in Nat /\ 2 * x <= w /\ y <= w /\ 2 <= w /\ 2 \in Nat
        BY <1>4
      <3>. QED  BY <3>1, TimesGrows
    <2>2. (2 * x) * T = x * (2 * T)
      OBVIOUS
    <2>3. w * T \in Nat /\ (2 * x) * T \in Nat /\ y * T \in Nat /\ 2 * T \in Nat
      OBVIOUS
    <2>. QED  BY <1>6, <2>1, <2>2, <2>3
  <1>8. (b.high - b.low) * Sorting!TwoTo[Len(u)] <= n
    BY <1>3, <1>4, <1>5, <1>7
  <1>9. ASSUME NEW k \in 1 .. Len(u)
        PROVE  /\ IsRange(u[k], n)
               /\ (u[k].high - u[k].low) * Sorting!TwoTo[k - 1] <= n
               /\ Sorting!TwoTo[k] <= n
               /\ Apart(b, u[k])
               /\ \A m \in 1 .. k - 1 : Apart(u[m], u[k])
    <2>1. k \in 1 .. L \/ k = L + 1
      BY <1>3
    <2>2. CASE k \in 1 .. L
      <3>1. u[k] = q[k] /\ \A m \in 1 .. k - 1 : u[m] = q[m]
        BY <1>3, <2>2
      <3>2. /\ IsRange(q[k], n)
            /\ (q[k].high - q[k].low) * Sorting!TwoTo[k - 1] <= n
            /\ Sorting!TwoTo[k] <= n
            /\ Apart(r, q[k])
            /\ \A m \in 1 .. k - 1 : Apart(q[m], q[k])
        BY <1>1, <2>2 DEF StackKept
      <3>3. Apart(b, q[k])
        BY <3>2 DEF Apart
      <3>. QED  BY <3>1, <3>2, <3>3
    <2>3. CASE k = L + 1
      <3>1. u[k] = c /\ k - 1 = L /\ \A m \in 1 .. k - 1 : u[m] = q[m] /\ m \in 1 .. L
        BY <1>3, <2>3
      <3>2. ASSUME NEW m \in 1 .. L PROVE Apart(q[m], c)
        <4>1. Apart(r, q[m])
          BY <1>1 DEF StackKept
        <4>. QED  BY <4>1 DEF Apart
      <3>. QED  BY <1>4, <1>5, <1>7, <2>3, <3>1, <3>2
    <2>. QED  BY <2>1, <2>2, <2>3
  <1>. QED  BY <1>2, <1>3, <1>8, <1>9 DEF StackKept

\* The pivot comes to its place between the two sides.
LEMMA SortSplit ==
  ASSUME SortKept, Sorting!Split
  PROVE  SortKept'
  <1>. USE DEF Sorting!At, Sorting!Go
  <1>1. /\ stage = "meet" /\ stage' = "loop" /\ Sorting!Keep /\ lower' = lower /\ upper' = upper
        /\ lower >= upper /\ list' = Swapped(list, range.low, upper)
        /\ range' = Sorting!Sides[1] /\ pending' = Append(pending, Sorting!Sides[2])
    BY DEF Sorting!Split, Sorting!Swap, Swapped, Sorting!low
  <1>2. PICK n \in Nat : n = Sorting!Count
    BY SortFacts
  <1>3. PICK lo \in Nat, hi \in Nat : lo = range.low /\ hi = range.high /\ hi <= n
    BY <1>2, SortFacts
  <1>4. /\ hi - lo >= 2 /\ range.depth > 0 /\ lower \in Int /\ upper \in Int
        /\ lo < lower /\ lower <= hi /\ lo <= upper /\ upper < hi
    BY <1>1, <1>3 DEF SortKept, PlaceKept
  <1>5. PICK d \in Nat : d = range.depth - 1
    BY <1>4, SortFacts
  <1>6. PICK below : below = [low |-> lo, high |-> upper, depth |-> d]
    OBVIOUS
  <1>7. PICK above : above = [low |-> upper + 1, high |-> hi, depth |-> d]
    OBVIOUS
  <1>8. /\ below.low = lo /\ below.high = upper /\ above.low = upper + 1 /\ above.high = hi
        /\ IsRange(below, n) /\ IsRange(above, n)
    BY <1>3, <1>4, <1>6, <1>7 DEF IsRange, Ranges
  <1>9. \/ range' = below /\ pending' = Append(pending, above) /\ upper - lo < hi - upper - 1
        \/ range' = above /\ pending' = Append(pending, below) /\ ~(upper - lo < hi - upper - 1)
    BY <1>1, <1>3, <1>5, <1>6, <1>7 DEF Sorting!Sides, Sorting!Below, Sorting!Above, Sorting!low, Sorting!high
  <1>10. /\ upper \in range.low .. range.high - 1 /\ range.low \in range.low .. range.high - 1
         /\ stage \notin {"return", "done"}
    <2>1. upper \in lo .. hi - 1 /\ lo \in lo .. hi - 1
      BY <1>4
    <2>. QED  BY <1>1, <1>3, <2>1
  <1>11. Rearranges(list', input, Sorting!Count)
    BY <1>1, <1>10, WorkingSwap
  <1>12. StackKept(range', pending', n)
    <2>1. StackKept(range, pending, n)
      BY <1>2 DEF SortKept
    <2>2. /\ \A x \in Int : Within(below, x) \/ Within(above, x) => Within(range, x)
          /\ Apart(below, above) /\ Apart(above, below)
      BY <1>3, <1>4, <1>8 DEF Within, Apart
    <2>3. CASE range' = below /\ pending' = Append(pending, above) /\ upper - lo < hi - upper - 1
      <3>1. /\ range.high - range.low >= 2 /\ 2 * (below.high - below.low) <= range.high - range.low
            /\ above.high - above.low <= range.high - range.low
        <4>1. upper - lo < hi - upper - 1
          BY <2>3
        <4>2. 2 * (upper - lo) <= hi - lo /\ hi - (upper + 1) <= hi - lo
          BY <1>4, <4>1
        <4>. QED  BY <1>3, <1>4, <1>8, <4>2
      <3>. QED  BY <1>8, <2>1, <2>2, <2>3, <3>1, StackSplit
    <2>4. CASE range' = above /\ pending' = Append(pending, below) /\ ~(upper - lo < hi - upper - 1)
      <3>1. /\ range.high - range.low >= 2 /\ 2 * (above.high - above.low) <= range.high - range.low
            /\ below.high - below.low <= range.high - range.low
        <4>1. hi - upper - 1 <= upper - lo
          BY <1>4, <2>4
        <4>2. 2 * (hi - (upper + 1)) <= hi - lo /\ upper - lo <= hi - lo
          BY <1>4, <4>1
        <4>. QED  BY <1>3, <1>4, <1>8, <4>2
      <3>. QED  BY <1>8, <2>1, <2>2, <2>4, <3>1, StackSplit
    <2>. QED  BY <1>9, <2>3, <2>4
  <1>13. PlaceKept(stage', range', lower', upper', pending')
    BY <1>1, <1>4 DEF PlaceKept
  <1>14. ASSUME lawful
         PROVE  OrderKept(list', Sorting!Count, descending, stage', range', pending', lower', upper')
    <2>1. PICK s : s = KeysOf(list, n, descending)
      OBVIOUS
    <2>2. PICK t : t = Swapped(s, lo, upper)
      OBVIOUS
    <2>3. PICK R : R = Unsorted(stage, range, pending)
      OBVIOUS
    <2>4. PICK Q : Q = Unsorted(stage', range', pending')
      OBVIOUS
    <2>5. s \in Numbers(n) /\ Lower(s, lo, lower - 1, s[lo]) /\ Upper(s, upper + 1, hi, s[lo])
          /\ s[upper] <= s[lo]
      BY <1>1, <1>2, <1>3, <1>14, <2>1, SortFacts DEF SortKept, OrderKept, LocalKept
    <2>6. /\ \A z \in lo .. upper - 1 : t[z] <= t[upper]
          /\ \A z \in upper + 1 .. hi - 1 : t[upper] <= t[z]
      <3>1. upper \in lo .. hi - 1 /\ upper <= lower /\ hi <= n /\ lower \in Int
        BY <1>1, <1>3, <1>4
      <3>. QED  BY ONLY <2>2, <2>5, <3>1, n \in Nat, lo \in Nat, hi \in Nat, ScansMeet
    <2>7. KeysOf(list', n, descending) = t /\ Paired(t, n, R)
      BY <1>1, <1>2, <1>3, <1>10, <1>14, <2>1, <2>2, <2>3, WorkingSwap
    <2>8. t \in Numbers(n) /\ upper \in 0 .. n - 1
      BY <1>3, <1>4, <2>2, <2>5, SwappedIs
    <2>9. (\A q \in R : q = range \/ q \in Q) /\ below \in Q /\ above \in Q
      <3>1. PICK L \in Nat : L = Len(pending) /\ pending \in Seq(Ranges)
        BY DEF SortKept, StackKept
      <3>2. ASSUME NEW c \in Ranges, pending' = Append(pending, c)
            PROVE  {pending'[k] : k \in 1 .. Len(pending')} = {pending[k] : k \in 1 .. Len(pending)} \cup {c}
        <4>1. /\ Len(pending') = L + 1 /\ pending'[L + 1] = c
              /\ \A k \in 1 .. L : pending'[k] = pending[k]
          BY <3>1, <3>2
        <4>2. \A k \in 1 .. L + 1 : k = L + 1 \/ k \in 1 .. L
          OBVIOUS
        <4>3. L + 1 \in 1 .. L + 1 /\ \A k \in 1 .. L : k \in 1 .. L + 1
          OBVIOUS
        <4>. QED  BY <3>1, <4>1, <4>2, <4>3
      <3>3. below \in Ranges /\ above \in Ranges
        BY <1>8 DEF IsRange
      <3>4. PICK A : A = {pending[k] : k \in 1 .. Len(pending)}
        OBVIOUS
      <3>5. PICK B : B = {pending'[k] : k \in 1 .. Len(pending')}
        OBVIOUS
      <3>6. \/ range' = below /\ B = A \cup {above}
            \/ range' = above /\ B = A \cup {below}
        BY <1>9, <3>2, <3>3, <3>4, <3>5
      <3>7. R = A \cup {range} /\ Q = B \cup {range'}
        BY <1>1, <2>3, <2>4, <3>4, <3>5 DEF Unsorted
      <3>. QED  BY <3>6, <3>7
    <2>10. Paired(t, n, Q)
      <3>1. /\ range.low \in Nat /\ range.high \in Nat /\ range.high <= n
            /\ range.low <= upper /\ upper < range.high
            /\ below.low = range.low /\ below.high = upper /\ above.low = upper + 1 /\ above.high = range.high
            /\ \A x \in range.low .. upper - 1 : t[x] <= t[upper]
            /\ \A x \in upper + 1 .. range.high - 1 : t[upper] <= t[x]
        BY <1>3, <1>4, <1>8, <2>6
      <3>. QED  BY ONLY n \in Nat, <2>7, <2>8, <2>9, <3>1, PairedSplit
    <2>11. LocalKept(stage', range', lower', upper', t)
      BY <1>1 DEF LocalKept
    <2>. QED  BY <1>2, <2>4, <2>7, <2>10, <2>11 DEF OrderKept
  <1>. QED  BY <1>1, <1>2, <1>11, <1>12, <1>13, <1>14, SortGoesOn

\* The element at `lower` stays where it is, or is exchanged with its greater child.
SiftStays(end, s) == /\ list' = list /\ lower' = lower
                     /\ lawful => \A d \in range.low .. end - 1 : Kid(range.low, lower, d) => s[d] <= s[lower]
SiftSinks(end, s, c) == /\ c \in range.low .. end - 1 /\ Kid(range.low, lower, c)
                        /\ list' = Swapped(list, lower, c) /\ lower' = c
                        /\ lawful => /\ s[lower] < s[c]
                                     /\ \A d \in range.low .. end - 1 : Kid(range.low, lower, d) => s[d] <= s[c]

\* What a turn of sort_sift_down does.
LEMMA Sifts ==
  ASSUME SortKept, NEW end \in Nat, NEW back, Sorting!SiftStep(lower, end, back),
         range.low <= lower, lower < end, end <= range.high
  PROVE  \/ stage' = back /\ SiftStays(end, KeysOf(list, Sorting!Count, descending))
         \/ stage' = stage /\ \E c \in Nat : SiftSinks(end, KeysOf(list, Sorting!Count, descending), c)
  <1>. USE DEF Sorting!Go
  <1>1. PICK n \in Nat : n = Sorting!Count
    BY SortFacts
  <1>2. PICK lo \in Nat, hi \in Nat, g \in Nat : lo = range.low /\ hi = range.high /\ g = lower /\ hi <= n
    BY <1>1, SortFacts
  <1>3. PICK s : s = KeysOf(list, n, descending)
    OBVIOUS
  <1>4. PICK one \in Nat : one = 2 * (g - lo) + 1 + lo
    BY <1>2, 2 * (g - lo) + 1 + lo \in Nat
  <1>5. Sorting!Child(lower) = one
    BY <1>2, <1>4 DEF Sorting!Child, Sorting!low
  <1>6. lo <= g /\ g < one /\ g < end /\ end <= n /\ g \in 0 .. n - 1
        /\ \A d : Kid(lo, g, d) <=> d = one \/ d = one + 1
    BY <1>2, <1>4 DEF Kid
  <1>7. lawful => list \in Numbers(n) /\ s \in Numbers(n) /\ \A x \in 0 .. n - 1 : s[x] \in Int
    BY <1>1, <1>3, SortFacts DEF Numbers
  <1>8. CASE one >= end
    <2>1. stage' = back /\ list' = list /\ lower' = lower
      BY <1>5, <1>8 DEF Sorting!SiftStep
    <2>2. \A d \in lo .. end - 1 : ~Kid(lo, g, d)
      BY <1>6, <1>8
    <2>. QED  BY <1>2, <2>1, <2>2 DEF SiftStays
  <1>9. CASE ~(one >= end)
    <2>0. one < end /\ one \in lo .. end - 1 /\ one \in 0 .. n - 1
      BY <1>6, <1>9
    <2>1. PICK right \in IF one + 1 < end THEN Sorting!sort_before(list, one, one + 1) ELSE {FALSE} :
            LET child == IF right THEN one + 1 ELSE one IN
            \E sinks \in Sorting!sort_before(list, lower, child) :
              IF sinks THEN list' = Swapped(list, lower, child) /\ lower' = child /\ stage' = stage
                       ELSE stage' = back /\ list' = list /\ lower' = lower
      BY <1>5, <1>9 DEF Sorting!SiftStep, Sorting!Swap, Swapped
    <2>2. PICK c : c = IF right THEN one + 1 ELSE one
      OBVIOUS
    <2>3. PICK sinks \in Sorting!sort_before(list, lower, c) :
              IF sinks THEN list' = Swapped(list, lower, c) /\ lower' = c /\ stage' = stage
                       ELSE stage' = back /\ list' = list /\ lower' = lower
      BY <2>1, <2>2
    <2>4. right => one + 1 < end
      <3>1. CASE one + 1 < end
        BY <3>1
      <3>2. CASE ~(one + 1 < end)
        BY <2>1, <3>2
      <3>. QED  BY <3>1, <3>2
    <2>5. c \in Nat /\ c \in lo .. end - 1 /\ c \in 0 .. n - 1 /\ Kid(lo, g, c)
      BY <1>6, <2>0, <2>2, <2>4
    <2>6. ASSUME lawful PROVE \A d \in lo .. end - 1 : Kid(lo, g, d) => s[d] <= s[c]
      <3>1. ASSUME one + 1 < end PROVE right <=> s[one] < s[one + 1]
        <4>1. one + 1 \in 0 .. n - 1 /\ right \in Sorting!sort_before(list, one, one + 1)
          BY <1>6, <2>0, <2>1, <3>1
        <4>. QED  BY <1>3, <1>7, <2>0, <2>6, <4>1, Compares
      <3>2. SUFFICES ASSUME NEW d \in lo .. end - 1, Kid(lo, g, d) PROVE s[d] <= s[c]
        OBVIOUS
      <3>3. d = one \/ d = one + 1
        BY <1>6, <3>2
      <3>4. d \in 0 .. n - 1 /\ s[d] \in Int /\ s[c] \in Int /\ s[one] \in Int
        BY <1>6, <1>7, <2>0, <2>5, <2>6, <3>2
      <3>5. CASE one + 1 < end
        <4>1. s[one + 1] \in Int
          BY <1>6, <1>7, <2>0, <2>6, <3>5
        <4>. QED  BY <2>2, <3>1, <3>3, <3>4, <3>5, <4>1
      <3>6. CASE ~(one + 1 < end)
        <4>1. d = one /\ c = one
          BY <2>2, <2>4, <3>2, <3>3, <3>6
        <4>. QED  BY <3>4, <4>1
      <3>. QED  BY <3>5, <3>6
    <2>7. ASSUME lawful PROVE sinks <=> s[g] < s[c]
      BY <1>2, <1>3, <1>6, <1>7, <2>3, <2>5, <2>7, Compares
    <2>8. CASE sinks
      <3>1. list' = Swapped(list, lower, c) /\ lower' = c /\ stage' = stage
        BY <2>3, <2>8
      <3>2. SiftSinks(end, s, c)
        BY <1>2, <2>5, <2>6, <2>7, <2>8, <3>1 DEF SiftSinks
      <3>. QED  BY <1>1, <1>3, <2>5, <3>1, <3>2
    <2>9. CASE ~sinks
      <3>1. stage' = back /\ list' = list /\ lower' = lower
        BY <2>3, <2>9
      <3>2. ASSUME lawful, NEW d \in lo .. end - 1, Kid(lo, g, d) PROVE s[d] <= s[g]
        <4>1. s[d] <= s[c] /\ ~(s[g] < s[c])
          BY <2>6, <2>7, <2>9, <3>2
        <4>2. s[d] \in Int /\ s[c] \in Int /\ s[g] \in Int
          BY <1>6, <1>7, <2>5, <3>2
        <4>. QED  BY <4>1, <4>2
      <3>3. SiftStays(end, s)
        BY <1>2, <3>1, <3>2 DEF SiftStays
      <3>. QED  BY <1>1, <1>3, <3>1, <3>3
    <2>. QED  BY <2>8, <2>9
  <1>. QED  BY <1>8, <1>9

\* The heap is built one node further down, or is complete.
LEMMA SortHeapify ==
  ASSUME SortKept, Sorting!Heapify
  PROVE  SortKept'
  <1>. USE DEF Sorting!At, Sorting!Go
  <1>1. stage = "heapify" /\ range' = range /\ pending' = pending /\ Sorting!Keep /\ list' = list
    BY DEF Sorting!Heapify
  <1>2. PICK n \in Nat : n = Sorting!Count
    BY SortFacts
  <1>3. PICK lo \in Nat, hi \in Nat : lo = range.low /\ hi = range.high /\ hi <= n
    BY <1>2, SortFacts
  <1>4. hi - lo >= 2 /\ lower \in Int /\ upper \in Int /\ lo <= upper /\ upper < hi
    BY <1>1, <1>3 DEF SortKept, PlaceKept
  <1>6. Rearranges(list', input, Sorting!Count) /\ StackKept(range', pending', Sorting!Count)
    BY <1>1 DEF SortKept
  <1>7. \/ upper > lo /\ lower' = upper - 1 /\ upper' = upper - 1 /\ stage' = "sink"
        \/ ~(upper > lo) /\ lower' = lower /\ upper' = hi /\ stage' = "extract"
    BY <1>3 DEF Sorting!Heapify, Sorting!low, Sorting!high
  <1>8. PlaceKept(stage', range', lower', upper', pending') /\ stage' \notin {"return", "done"}
    <2>1. CASE upper > lo /\ lower' = upper - 1 /\ upper' = upper - 1 /\ stage' = "sink"
      BY <1>1, <1>3, <1>4, <2>1 DEF PlaceKept
    <2>2. CASE ~(upper > lo) /\ lower' = lower /\ upper' = hi /\ stage' = "extract"
      BY <1>1, <1>3, <1>4, <2>2 DEF PlaceKept
    <2>. QED  BY <1>7, <2>1, <2>2
  <1>9. ASSUME lawful
        PROVE  OrderKept(list', Sorting!Count, descending, stage', range', pending', lower', upper')
    <2>1. Unsorted(stage', range', pending') = Unsorted(stage, range, pending)
      BY <1>1, <1>8, SameUnsorted
    <2>2. PICK s : s = KeysOf(list, n, descending)
      OBVIOUS
    <2>3. Heap(s, lo, upper, hi) /\ Paired(s, n, Unsorted(stage, range, pending))
      BY <1>1, <1>2, <1>3, <1>9, <2>2 DEF SortKept, OrderKept, LocalKept
    <2>4. LocalKept(stage', range', lower', upper', s)
      <3>1. CASE upper > lo /\ lower' = upper - 1 /\ upper' = upper - 1 /\ stage' = "sink"
        <4>1. upper \in lo + 1 .. hi
          BY <1>4, <3>1
        <4>2. HeapBut(s, lo, upper - 1, hi, upper - 1)
          BY <2>3, <4>1, HeapDown
        <4>. QED  BY <1>1, <1>3, <3>1, <4>2 DEF LocalKept
      <3>2. CASE ~(upper > lo) /\ lower' = lower /\ upper' = hi /\ stage' = "extract"
        <4>1. upper = lo
          BY <1>4, <3>2
        <4>2. Topped(s, lo, hi, hi)
          BY DEF Topped
        <4>. QED  BY <1>1, <1>3, <2>3, <3>2, <4>1, <4>2 DEF LocalKept
      <3>. QED  BY <1>7, <3>1, <3>2
    <2>. QED  BY <1>1, <1>2, <2>1, <2>2, <2>3, <2>4 DEF OrderKept
  <1>. QED  BY <1>1, <1>6, <1>8, <1>9, SortGoesOn

\* A node sinks while the heap is built.
LEMMA SortSink ==
  ASSUME SortKept, Sorting!Sink
  PROVE  SortKept'
  <1>. USE DEF Sorting!At
  <1>1. stage = "sink" /\ range' = range /\ pending' = pending /\ Sorting!Keep /\ upper' = upper
    BY DEF Sorting!Sink
  <1>2. PICK n \in Nat : n = Sorting!Count
    BY SortFacts
  <1>3. PICK lo \in Nat, hi \in Nat : lo = range.low /\ hi = range.high /\ hi <= n
    BY <1>2, SortFacts
  <1>4. hi - lo >= 2 /\ lower \in Int /\ upper \in Int /\ lo <= upper /\ upper <= lower /\ lower < hi
    BY <1>1, <1>3 DEF SortKept, PlaceKept
  <1>5. StackKept(range', pending', Sorting!Count)
    BY <1>1 DEF SortKept
  <1>6. PICK s : s = KeysOf(list, n, descending)
    OBVIOUS
  <1>7. lawful => s \in Numbers(n) /\ HeapBut(s, lo, upper, hi, lower) /\ Paired(s, n, Unsorted(stage, range, pending))
    BY <1>1, <1>2, <1>3, <1>6, SortFacts DEF SortKept, OrderKept, LocalKept
  <1>8. \/ stage' = "heapify" /\ SiftStays(hi, s)
        \/ stage' = stage /\ \E c \in Nat : SiftSinks(hi, s, c)
    <2>1. Sorting!SiftStep(lower, hi, "heapify")
      BY <1>3 DEF Sorting!Sink, Sorting!high
    <2>2. range.low <= lower /\ lower < hi /\ hi <= range.high
      BY <1>3, <1>4
    <2>. QED  BY <1>2, <1>6, <2>1, <2>2, Sifts
  <1>9. CASE stage' = "heapify" /\ SiftStays(hi, s)
    <2>1. list' = list /\ lower' = lower
      BY <1>9 DEF SiftStays
    <2>2. Rearranges(list', input, Sorting!Count)
      BY <2>1 DEF SortKept
    <2>3. PlaceKept(stage', range', lower', upper', pending')
      BY <1>1, <1>3, <1>4, <1>9, <2>1 DEF PlaceKept
    <2>4. ASSUME lawful
          PROVE  OrderKept(list', Sorting!Count, descending, stage', range', pending', lower', upper')
      <3>1. Unsorted(stage', range', pending') = Unsorted(stage, range, pending)
        BY <1>1, <1>9, SameUnsorted
      <3>2. \A d \in lo .. hi - 1 : Kid(lo, lower, d) => s[d] <= s[lower]
        BY <1>3, <1>9, <2>4 DEF SiftStays
      <3>3. Heap(s, lo, upper, hi)
        BY <1>7, <2>4, <3>2, HeapSettled
      <3>4. LocalKept(stage', range', lower', upper', s)
        BY <1>1, <1>3, <1>9, <3>3 DEF LocalKept
      <3>. QED  BY <1>2, <1>6, <1>7, <2>1, <2>4, <3>1, <3>4 DEF OrderKept
    <2>. QED  BY <1>1, <1>5, <2>2, <2>3, <2>4, SortGoesOn
  <1>10. ASSUME stage' = stage, NEW c \in Nat, SiftSinks(hi, s, c) PROVE SortKept'
    <2>1. c \in lo .. hi - 1 /\ Kid(lo, lower, c) /\ list' = Swapped(list, lower, c) /\ lower' = c /\ c > lower
      BY <1>3, <1>4, <1>10, KidFacts DEF SiftSinks
    <2>2. c \in range.low .. range.high - 1 /\ lower \in range.low .. range.high - 1
          /\ stage \notin {"return", "done"}
      BY <1>1, <1>3, <1>4, <2>1
    <2>3. Rearranges(list', input, Sorting!Count)
      BY <2>1, <2>2, WorkingSwap
    <2>4. PlaceKept(stage', range', lower', upper', pending')
      BY <1>1, <1>3, <1>4, <1>10, <2>1 DEF PlaceKept
    <2>5. ASSUME lawful
          PROVE  OrderKept(list', Sorting!Count, descending, stage', range', pending', lower', upper')
      <3>1. s[lower] < s[c] /\ \A d \in lo .. hi - 1 : Kid(lo, lower, d) => s[d] <= s[c]
        BY <1>3, <1>10, <2>5 DEF SiftSinks
      <3>2. upper \in lo .. hi - 1 /\ lower \in upper .. hi - 1 /\ s \in Numbers(n)
            /\ HeapBut(s, lo, upper, hi, lower) /\ hi <= n
        BY <1>3, <1>4, <1>7, <2>5
      <3>3. HeapBut(Swapped(s, lower, c), lo, upper, hi, c)
        BY ONLY n \in Nat, lo \in Nat, hi \in Nat, <2>1, <3>1, <3>2, HeapSwap
      <3>4. KeysOf(list', Sorting!Count, descending) = Swapped(s, lower, c)
            /\ Paired(Swapped(s, lower, c), Sorting!Count, Unsorted(stage, range, pending))
        BY <1>2, <1>6, <2>1, <2>2, <2>5, WorkingSwap
      <3>5. LocalKept(stage', range', lower', upper', Swapped(s, lower, c))
        BY <1>1, <1>3, <1>10, <2>1, <3>3 DEF LocalKept
      <3>6. Unsorted(stage', range', pending') = Unsorted(stage, range, pending)
        BY <1>1, <1>10
      <3>. QED  BY <3>4, <3>5, <3>6 DEF OrderKept
    <2>. QED  BY <1>1, <1>5, <2>3, <2>4, <2>5, SortGoesOn
  <1>. QED  BY <1>8, <1>9, <1>10

\* The greatest element leaves the heap, or the range is sorted.
LEMMA SortExtract ==
  ASSUME SortKept, Sorting!Extract
  PROVE  SortKept'
  <1>. USE DEF Sorting!At, Sorting!Go
  <1>1. stage = "extract" /\ range' = range /\ pending' = pending /\ Sorting!Keep
    BY DEF Sorting!Extract
  <1>2. PICK n \in Nat : n = Sorting!Count
    BY SortFacts
  <1>3. PICK lo \in Nat, hi \in Nat : lo = range.low /\ hi = range.high /\ hi <= n
    BY <1>2, SortFacts
  <1>4. hi - lo >= 2 /\ lower \in Int /\ upper \in Int /\ lo < upper /\ upper <= hi
    BY <1>1, <1>3 DEF SortKept, PlaceKept
  <1>5. StackKept(range', pending', Sorting!Count)
    BY <1>1 DEF SortKept
  <1>6. PICK s : s = KeysOf(list, n, descending)
    OBVIOUS
  <1>7. lawful => s \in Numbers(n) /\ Heap(s, lo, lo, upper) /\ Topped(s, lo, upper, hi)
                  /\ Paired(s, n, Unsorted(stage, range, pending))
    BY <1>1, <1>2, <1>3, <1>6, SortFacts DEF SortKept, OrderKept, LocalKept
  <1>8. CASE upper - lo > 1
    <2>1. upper' = upper - 1 /\ list' = Swapped(list, lo, upper - 1) /\ lower' = lo /\ stage' = "settle"
      BY <1>3, <1>8 DEF Sorting!Extract, Sorting!low, Sorting!Swap, Swapped
    <2>2. lo \in range.low .. range.high - 1 /\ upper - 1 \in range.low .. range.high - 1
          /\ stage \notin {"return", "done"}
      BY <1>1, <1>3, <1>4
    <2>3. Rearranges(list', input, Sorting!Count)
      BY <2>1, <2>2, WorkingSwap
    <2>4. PlaceKept(stage', range', lower', upper', pending')
      BY <1>1, <1>3, <1>4, <1>8, <2>1 DEF PlaceKept
    <2>5. ASSUME lawful
          PROVE  OrderKept(list', Sorting!Count, descending, stage', range', pending', lower', upper')
      <3>1. upper \in lo + 2 .. hi /\ hi <= n
        BY <1>3, <1>4, <1>8
      <3>2. HeapBut(Swapped(s, lo, upper - 1), lo, lo, upper - 1, lo)
            /\ Topped(Swapped(s, lo, upper - 1), lo, upper - 1, hi)
        BY <1>7, <2>5, <3>1, HeapPop
      <3>3. KeysOf(list', Sorting!Count, descending) = Swapped(s, lo, upper - 1)
            /\ Paired(Swapped(s, lo, upper - 1), Sorting!Count, Unsorted(stage, range, pending))
        BY <1>2, <1>6, <2>1, <2>2, <2>5, WorkingSwap
      <3>4. LocalKept(stage', range', lower', upper', Swapped(s, lo, upper - 1))
        BY <1>1, <1>3, <2>1, <3>2 DEF LocalKept
      <3>5. Unsorted(stage', range', pending') = Unsorted(stage, range, pending)
        BY <1>1, <2>1, SameUnsorted
      <3>. QED  BY <3>3, <3>4, <3>5 DEF OrderKept
    <2>. QED  BY <1>1, <1>5, <2>3, <2>4, <2>5, SortGoesOn
  <1>9. CASE ~(upper - lo > 1)
    <2>1. stage' = "return" /\ list' = list /\ lower' = lower /\ upper' = upper
      BY <1>3, <1>9 DEF Sorting!Extract, Sorting!low
    <2>2. Rearranges(list', input, Sorting!Count)
      BY <2>1 DEF SortKept
    <2>3. PlaceKept(stage', range', lower', upper', pending')
      BY <1>1, <1>4, <2>1 DEF PlaceKept
    <2>4. ASSUME lawful
          PROVE  OrderKept(list', Sorting!Count, descending, stage', range', pending', lower', upper')
      <3>1. ASSUME NEW x \in 0 .. n - 1, NEW y \in 0 .. n - 1, x < y, Within(range, x), Within(range, y)
            PROVE  s[x] <= s[y]
        <4>1. x \in lo .. hi - 1 /\ y \in upper .. hi - 1
          BY <1>3, <1>4, <1>9, <3>1 DEF Within
        <4>. QED  BY <1>7, <2>4, <3>1, <4>1 DEF Topped
      <3>2. \A q \in Unsorted(stage, range, pending) : q = range \/ q \in Unsorted(stage', range', pending')
        BY <1>1 DEF Unsorted
      <3>3. Paired(s, n, Unsorted(stage', range', pending'))
        BY <1>7, <2>4, <3>1, <3>2, PairedSorted
      <3>4. LocalKept(stage', range', lower', upper', s)
        BY <2>1 DEF LocalKept
      <3>. QED  BY <1>2, <1>6, <2>1, <3>3, <3>4 DEF OrderKept
    <2>. QED  BY <1>1, <1>5, <2>2, <2>3, <2>4, SortGoesOn
  <1>. QED  BY <1>8, <1>9

\* The element put on top of the heap sinks to its place.
LEMMA SortSettle ==
  ASSUME SortKept, Sorting!Settle
  PROVE  SortKept'
  <1>. USE DEF Sorting!At
  <1>1. stage = "settle" /\ range' = range /\ pending' = pending /\ Sorting!Keep /\ upper' = upper
    BY DEF Sorting!Settle
  <1>2. PICK n \in Nat : n = Sorting!Count
    BY SortFacts
  <1>3. PICK lo \in Nat, hi \in Nat : lo = range.low /\ hi = range.high /\ hi <= n
    BY <1>2, SortFacts
  <1>4. hi - lo >= 2 /\ lower \in Int /\ upper \in Int /\ lo <= lower /\ lower < upper /\ upper < hi
    BY <1>1, <1>3 DEF SortKept, PlaceKept
  <1>5. StackKept(range', pending', Sorting!Count)
    BY <1>1 DEF SortKept
  <1>6. PICK s : s = KeysOf(list, n, descending)
    OBVIOUS
  <1>7. lawful => s \in Numbers(n) /\ HeapBut(s, lo, lo, upper, lower) /\ Topped(s, lo, upper, hi)
                  /\ Paired(s, n, Unsorted(stage, range, pending))
    BY <1>1, <1>2, <1>3, <1>6, SortFacts DEF SortKept, OrderKept, LocalKept
  <1>8. PICK end \in Nat : end = upper
    BY <1>3, <1>4
  <1>9. \/ stage' = "extract" /\ SiftStays(end, s)
        \/ stage' = stage /\ \E c \in Nat : SiftSinks(end, s, c)
    <2>1. Sorting!SiftStep(lower, end, "extract")
      BY <1>8 DEF Sorting!Settle
    <2>2. range.low <= lower /\ lower < end /\ end <= range.high
      BY <1>3, <1>4, <1>8
    <2>. QED  BY <1>2, <1>6, <2>1, <2>2, Sifts
  <1>10. CASE stage' = "extract" /\ SiftStays(end, s)
    <2>1. list' = list /\ lower' = lower
      BY <1>10 DEF SiftStays
    <2>2. Rearranges(list', input, Sorting!Count)
      BY <2>1 DEF SortKept
    <2>3. PlaceKept(stage', range', lower', upper', pending')
      BY <1>1, <1>3, <1>4, <1>10, <2>1 DEF PlaceKept
    <2>4. ASSUME lawful
          PROVE  OrderKept(list', Sorting!Count, descending, stage', range', pending', lower', upper')
      <3>1. Unsorted(stage', range', pending') = Unsorted(stage, range, pending)
        BY <1>1, <1>10, SameUnsorted
      <3>2. \A d \in lo .. end - 1 : Kid(lo, lower, d) => s[d] <= s[lower]
        BY <1>3, <1>10, <2>4 DEF SiftStays
      <3>3. Heap(s, lo, lo, end)
        BY <1>7, <1>8, <2>4, <3>2, HeapSettled
      <3>4. LocalKept(stage', range', lower', upper', s)
        BY <1>1, <1>3, <1>7, <1>8, <1>10, <2>4, <3>3 DEF LocalKept
      <3>. QED  BY <1>2, <1>6, <1>7, <2>1, <2>4, <3>1, <3>4 DEF OrderKept
    <2>. QED  BY <1>1, <1>5, <2>2, <2>3, <2>4, SortGoesOn
  <1>11. ASSUME stage' = stage, NEW c \in Nat, SiftSinks(end, s, c) PROVE SortKept'
    <2>1. c \in lo .. end - 1 /\ Kid(lo, lower, c) /\ list' = Swapped(list, lower, c) /\ lower' = c /\ c > lower
      BY <1>3, <1>4, <1>11, KidFacts DEF SiftSinks
    <2>2. c \in range.low .. range.high - 1 /\ lower \in range.low .. range.high - 1
          /\ stage \notin {"return", "done"}
      BY <1>1, <1>3, <1>4, <1>8, <2>1
    <2>3. Rearranges(list', input, Sorting!Count)
      BY <2>1, <2>2, WorkingSwap
    <2>4. PlaceKept(stage', range', lower', upper', pending')
      BY <1>1, <1>3, <1>4, <1>8, <1>11, <2>1 DEF PlaceKept
    <2>5. ASSUME lawful
          PROVE  OrderKept(list', Sorting!Count, descending, stage', range', pending', lower', upper')
      <3>1. s[lower] < s[c] /\ \A d \in lo .. end - 1 : Kid(lo, lower, d) => s[d] <= s[c]
        BY <1>3, <1>11, <2>5 DEF SiftSinks
      <3>2. lo \in lo .. end - 1 /\ lower \in lo .. end - 1 /\ s \in Numbers(n) /\ end \in lo .. hi
            /\ HeapBut(s, lo, lo, end, lower) /\ end <= n /\ Topped(s, lo, end, hi) /\ hi <= n
        BY <1>3, <1>4, <1>7, <1>8, <2>5
      <3>3. HeapBut(Swapped(s, lower, c), lo, lo, end, c)
        BY ONLY n \in Nat, lo \in Nat, end \in Nat, <2>1, <3>1, <3>2, HeapSwap
      <3>4. Topped(Swapped(s, lower, c), lo, end, hi)
        BY ONLY n \in Nat, lo \in Nat, hi \in Nat, <2>1, <3>2, ToppedSwap
      <3>5. KeysOf(list', Sorting!Count, descending) = Swapped(s, lower, c)
            /\ Paired(Swapped(s, lower, c), Sorting!Count, Unsorted(stage, range, pending))
        BY <1>2, <1>6, <2>1, <2>2, <2>5, WorkingSwap
      <3>6. LocalKept(stage', range', lower', upper', Swapped(s, lower, c))
        BY <1>1, <1>3, <1>8, <1>11, <2>1, <3>3, <3>4 DEF LocalKept
      <3>7. Unsorted(stage', range', pending') = Unsorted(stage, range, pending)
        BY <1>1, <1>11
      <3>. QED  BY <3>5, <3>6, <3>7 DEF OrderKept
    <2>. QED  BY <1>1, <1>5, <2>3, <2>4, <2>5, SortGoesOn
  <1>. QED  BY <1>9, <1>10, <1>11

-----------------------------------------------------------------------------
(* Sorting: the theorems *)

\* Cardinality as the instance has it.
LEMMA SortCardinality ==
  \A S : Sorting!Cardinality(S) = Cardinality(S)
  BY Zenon DEF Sorting!Cardinality, Cardinality

\* The depth limit is a number.
LEMMA LevelsIs ==
  ASSUME NEW count \in Nat, NEW p \in Nat
  PROVE  Sorting!Levels(count, p) \in Nat
  <1>1. PICK K : K = {k \in 0 .. count : count \div Sorting!TwoTo[k] > 1}
    OBVIOUS
  <1>2. IsFiniteSet(0 .. count) /\ K \subseteq 0 .. count
    BY <1>1, FS_Interval
  <1>3. Cardinality(K) \in Nat
    BY <1>2, FS_Subset, FS_CardinalityType
  <1>4. Sorting!Levels(count, p) = p * Cardinality(K)
    BY <1>1, SortCardinality DEF Sorting!Levels
  <1>. QED  BY <1>3, <1>4

\* A sort begins with everything in one range.
LEMMA SortBegin ==
  ASSUME Sorting!Init
  PROVE  SortKept
  <1>1. PICK n \in Nat : Sorting!Begin(n)
    BY SortingAssumption DEF Sorting!Init, Sorting!SortAssumption
  <1>2. /\ list = input /\ pending = <<>> /\ lower = 0 /\ upper = 0
        /\ stage = IF n < 2 THEN "done" ELSE "loop"
    BY <1>1 DEF Sorting!Begin
  <1>3. DOMAIN input = 0 .. n - 1 /\ input = [k \in 0 .. n - 1 |-> input[k]] /\ (lawful => input \in Numbers(n))
    <2>1. CASE lawful
      <3>1. input \in [0 .. n - 1 -> SortValues] /\ SortValues \subseteq Int
        BY <1>1, <2>1, SortingAssumption DEF Sorting!Begin, Sorting!SortAssumption
      <3>. QED  BY <3>1 DEF Numbers
    <2>2. CASE ~lawful
      <3>1. input = [k \in 0 .. n - 1 |-> k]
        BY <1>1, <2>2 DEF Sorting!Begin
      <3>. QED  BY <2>2, <3>1
    <2>. QED  BY <2>1, <2>2
  <1>4. Sorting!Count = n
    <2>1. Cardinality(0 .. n - 1) = IF 0 > n - 1 THEN 0 ELSE (n - 1) - 0 + 1
      BY FS_Interval
    <2>2. Cardinality(0 .. n - 1) = n
      BY <2>1
    <2>. QED  BY <1>3, <2>2, SortCardinality DEF Sorting!Count
  <1>5. GivenKept
    BY <1>3, <1>4 DEF GivenKept
  <1>6. Rearranges(list, input, n)
    <2>1. PICK p : p = [k \in 0 .. n - 1 |-> k]
      OBVIOUS
    <2>2. /\ p \in [0 .. n - 1 -> 0 .. n - 1]
          /\ \A x, y \in 0 .. n - 1 : p[x] = p[y] => x = y
          /\ \A y \in 0 .. n - 1 : \E x \in 0 .. n - 1 : p[x] = y
      BY <2>1
    <2>3. list = [k \in 0 .. n - 1 |-> input[p[k]]]
      BY <1>2, <1>3, <2>1
    <2>. QED  BY <2>2, <2>3 DEF Rearranges
  <1>7. range.low = 0 /\ range.high = n /\ range \in Ranges
    <2>1. PICK p \in SortLevels : range = [low |-> 0, high |-> n, depth |-> Sorting!Levels(n, p)]
      BY <1>1 DEF Sorting!Begin
    <2>2. Sorting!Levels(n, p) \in Nat
      BY LevelsIs, SortingAssumption DEF Sorting!SortAssumption
    <2>. QED  BY <2>1, <2>2 DEF Ranges
  <1>8. StackKept(range, pending, n)
    <2>1. pending \in Seq(Ranges) /\ Len(pending) = 0
      BY <1>2
    <2>2. (range.high - range.low) * Sorting!TwoTo[Len(pending)] <= n
      BY <1>7, <2>1, TwoToFacts
    <2>. QED  BY <1>7, <2>1, <2>2 DEF StackKept, IsRange
  <1>9. PlaceKept(stage, range, lower, upper, pending)
    BY <1>2 DEF PlaceKept
  <1>10. ASSUME lawful PROVE OrderKept(list, n, descending, stage, range, pending, lower, upper)
    <2>1. LocalKept(stage, range, lower, upper, KeysOf(list, n, descending))
      BY <1>2 DEF LocalKept
    <2>2. CASE n < 2
      <3>1. \A x, y \in 0 .. n - 1 : ~(x < y)
        BY <2>2
      <3>. QED  BY <2>1, <3>1 DEF OrderKept, Paired
    <2>3. CASE ~(n < 2)
      <3>1. range \in Unsorted(stage, range, pending)
        BY <1>2, <2>3 DEF Unsorted
      <3>2. \A x \in 0 .. n - 1 : Within(range, x)
        BY <1>7 DEF Within
      <3>. QED  BY <2>1, <3>1, <3>2 DEF OrderKept, Paired
    <2>. QED  BY <2>2, <2>3
  <1>. QED  BY <1>4, <1>5, <1>6, <1>8, <1>9, <1>10 DEF SortKept

\* Every step keeps the invariant.
LEMMA SortStep ==
  ASSUME SortKept, [Sorting!Next]_Sorting!vars
  PROVE  SortKept'
  <1>1. CASE UNCHANGED Sorting!vars
    <2>1. /\ Sorting!Keep /\ list' = list /\ range' = range /\ pending' = pending /\ stage' = stage
          /\ lower' = lower /\ upper' = upper
      BY <1>1 DEF Sorting!vars, Sorting!Keep
    <2>. QED  BY <2>1, SortGoesOn DEF SortKept
  <1>2. CASE Sorting!Done
    <2>1. /\ Sorting!Keep /\ list' = list /\ range' = range /\ pending' = pending /\ stage' = stage
          /\ lower' = lower /\ upper' = upper
      BY <1>2 DEF Sorting!Done, Sorting!vars, Sorting!Keep
    <2>. QED  BY <2>1, SortGoesOn DEF SortKept
  <1>3. CASE Sorting!Loop
    BY <1>3, SortLoop
  <1>4. CASE Sorting!ChoosePivot
    BY <1>4, SortChoosePivot
  <1>5. CASE Sorting!ScanUp
    BY <1>5, SortScanUp
  <1>6. CASE Sorting!ScanDown
    BY <1>6, SortScanDown
  <1>7. CASE Sorting!Exchange
    BY <1>7, SortExchange
  <1>8. CASE Sorting!Split
    BY <1>8, SortSplit
  <1>9. CASE Sorting!Return
    BY <1>9, SortReturn
  <1>10. CASE Sorting!Insert
    BY <1>10, SortInsert
  <1>11. CASE Sorting!Heapify
    BY <1>11, SortHeapify
  <1>12. CASE Sorting!Sink
    BY <1>12, SortSink
  <1>13. CASE Sorting!Extract
    BY <1>13, SortExtract
  <1>14. CASE Sorting!Settle
    BY <1>14, SortSettle
  <1>. QED  BY <1>1, <1>2, <1>3, <1>4, <1>5, <1>6, <1>7, <1>8, <1>9, <1>10, <1>11, <1>12, <1>13, <1>14 DEF Sorting!Next

\* What a step touches lies in its range.
LEMMA SortInBounds ==
  ASSUME SortKept
  PROVE  Sorting!InBounds
  <1>1. PICK lo \in Nat, hi \in Nat : lo = range.low /\ hi = range.high /\ lo <= hi /\ hi <= Sorting!Count
    BY SortFacts
  <1>2. PICK me : me = Sorting!mid
    OBVIOUS
  <1>3. hi - lo >= 2 => me \in lo .. hi - 1
    <2>1. PICK d \in Nat : d = hi - lo
      BY <1>1
    <2>2. d >= 2 => d \div 2 \in Nat /\ d \div 2 < d
      OBVIOUS
    <2>. QED  BY <1>1, <1>2, <2>1, <2>2, SortFacts
  <1>4. PlaceKept(stage, range, lower, upper, pending) /\ Sorting!low = lo /\ Sorting!high = hi
        /\ lower \in Int /\ upper \in Int
    BY <1>1, SortFacts DEF SortKept
  <1>5. Sorting!Touched \subseteq lo .. hi - 1
    <2>1. CASE stage = "pivot"
      <3>1. Sorting!Touched = {lo, me, hi - 1}
        BY <1>2, <1>4, <2>1 DEF Sorting!Touched
      <3>. QED  BY <1>1, <1>3, <1>4, <2>1, <3>1 DEF PlaceKept
    <2>2. CASE stage = "up"
      <3>1. Sorting!Touched = {lo} \cup ({lower + 1} \ {hi})
        BY <1>4, <2>2 DEF Sorting!Touched
      <3>2. lo <= lower /\ lower < hi
        BY <1>1, <1>4, <2>2 DEF PlaceKept
      <3>. QED  BY <1>4, <3>1, <3>2
    <2>3. CASE stage = "down"
      <3>1. Sorting!Touched = {lo, upper - 1}
        BY <1>4, <2>3 DEF Sorting!Touched
      <3>2. lo < upper /\ upper <= hi
        BY <1>1, <1>4, <2>3 DEF PlaceKept
      <3>. QED  BY <1>4, <3>1, <3>2
    <2>4. CASE stage = "meet"
      <3>1. Sorting!Touched \subseteq {lo, upper, lower} /\ (lower >= upper => Sorting!Touched = {lo, upper})
        BY <1>4, <2>4 DEF Sorting!Touched
      <3>2. lo < lower /\ lo <= upper /\ upper < hi
        BY <1>1, <1>4, <2>4 DEF PlaceKept
      <3>. QED  BY <1>4, <3>1, <3>2
    <2>5. CASE stage = "insert" /\ lower < hi
      <3>1. Sorting!Touched = {lower, upper}
        BY <1>4, <2>5 DEF Sorting!Touched
      <3>2. lo < lower /\ lo <= upper /\ upper <= lower
        BY <1>1, <1>4, <2>5 DEF PlaceKept
      <3>. QED  BY <1>4, <2>5, <3>1, <3>2
    <2>6. CASE stage = "sink"
      <3>1. Sorting!Touched = {lower}
        BY <1>4, <2>6 DEF Sorting!Touched
      <3>2. lo <= upper /\ upper <= lower /\ lower < hi
        BY <1>1, <1>4, <2>6 DEF PlaceKept
      <3>. QED  BY <1>4, <3>1, <3>2
    <2>7. CASE stage = "settle"
      <3>1. Sorting!Touched = {lower, upper}
        BY <1>4, <2>7 DEF Sorting!Touched
      <3>2. lo <= lower /\ lower < upper /\ upper < hi
        BY <1>1, <1>4, <2>7 DEF PlaceKept
      <3>. QED  BY <1>4, <3>1, <3>2
    <2>8. CASE /\ stage \notin {"pivot", "up", "down", "meet", "sink", "settle"}
               /\ ~(stage = "insert" /\ lower < hi)
      <3>1. Sorting!Touched = {}
        BY <1>4, <2>8 DEF Sorting!Touched
      <3>. QED  BY <3>1
    <2>. QED  BY <2>1, <2>2, <2>3, <2>4, <2>5, <2>6, <2>7, <2>8
  <1>. QED  BY <1>1, <1>4, <1>5 DEF Sorting!InBounds

\* The strengthened invariant implies what sort_introsort keeps.
LEMMA SortKeeps ==
  ASSUME SortKept
  PROVE  Sorting!Inv
  <1>1. PICK n \in Nat : n = Sorting!Count
    BY SortFacts
  <1>2. Rearranges(list, input, n) /\ StackKept(range, pending, n) /\ DOMAIN input = 0 .. n - 1
        /\ PlaceKept(stage, range, lower, upper, pending)
    BY <1>1 DEF SortKept, GivenKept
  <1>3. DOMAIN list = 0 .. n - 1
    BY <1>2 DEF Rearranges
  <1>4. Sorting!TypeOK
    <2>1. \A k \in 1 .. Len(pending) : pending[k].depth \in Nat
      BY <1>2 DEF StackKept, IsRange, Ranges
    <2>2. range.depth \in Nat
      BY SortFacts
    <2>. QED  BY <1>1, <1>2, <1>3, <2>1, <2>2 DEF Sorting!TypeOK, PlaceKept
  <1>5. Sorting!Permutes
    <2>1. ASSUME NEW v
          PROVE  TimesIn(list, v) = TimesIn(input, v)
      BY <1>2, RearrangesCounts
    <2>. QED  BY <2>1, SortCardinality DEF Sorting!Permutes, TimesIn
  <1>6. Sorting!StackLogarithmic
    <2>1. SUFFICES ASSUME pending # <<>> PROVE Sorting!TwoTo[Len(pending)] <= n
      BY <1>1 DEF Sorting!StackLogarithmic
    <2>2. Len(pending) \in 1 .. Len(pending)
      BY <1>2, <2>1 DEF StackKept
    <2>. QED  BY <1>2, <2>2 DEF StackKept
  <1>. QED  BY <1>4, <1>5, <1>6, SortInBounds DEF Sorting!Inv

\* With an order for a comparator it implies that the array is sorted in the end.
LEMMA SortOrders ==
  ASSUME SortKept
  PROVE  Sorting!Sorted
  <1>1. SUFFICES ASSUME lawful PROVE Sorting!Sorted
    BY DEF Sorting!Sorted, Sorting!Partitioned
  <1>2. PICK n \in Nat : n = Sorting!Count
    BY SortFacts
  <1>3. PICK s : s = KeysOf(list, n, descending)
    OBVIOUS
  <1>4. list \in Numbers(n) /\ Paired(s, n, Unsorted(stage, range, pending))
        /\ PlaceKept(stage, range, lower, upper, pending)
    BY <1>1, <1>2, <1>3, SortFacts DEF SortKept, OrderKept
  <1>5. DOMAIN list = 0 .. n - 1
    BY <1>4 DEF Numbers
  <1>6. ASSUME NEW x \in 0 .. n - 1, NEW y \in 0 .. n - 1
        PROVE  Sorting!Ordered(x, y) <=> s[x] <= s[y]
    <2>1. list[x] \in Int /\ list[y] \in Int
      BY <1>4 DEF Numbers
    <2>2. /\ s[x] = (IF descending THEN 0 - list[x] ELSE list[x])
          /\ s[y] = (IF descending THEN 0 - list[y] ELSE list[y])
      BY <1>3 DEF KeysOf
    <2>. QED  BY <2>1, <2>2 DEF Sorting!Ordered
  <1>7. ASSUME stage \in {"loop", "return", "done"}, NEW x \in 0 .. n - 1, NEW y \in 0 .. n - 1, x < y
        PROVE  Sorting!Ordered(x, y) \/ \E r \in Sorting!Open : r.low <= x /\ y < r.high
    <2>1. Unsorted(stage, range, pending) = Sorting!Open
      BY <1>7 DEF Unsorted, Sorting!Open
    <2>2. s[x] <= s[y] \/ \E r \in Sorting!Open : Within(r, x) /\ Within(r, y)
      BY <1>4, <1>7, <2>1 DEF Paired
    <2>. QED  BY <1>6, <2>2 DEF Within
  <1>8. ASSUME stage = "done", NEW x \in 0 .. n - 1, NEW y \in 0 .. n - 1, x <= y
        PROVE  Sorting!Ordered(x, y)
    <2>1. pending = <<>>
      BY <1>4, <1>8 DEF PlaceKept
    <2>2. Unsorted(stage, range, pending) = {}
      BY <1>8, <2>1 DEF Unsorted
    <2>3. CASE x < y
      <3>1. s[x] <= s[y]
        BY <1>4, <2>2, <2>3 DEF Paired
      <3>. QED  BY <1>6, <3>1
    <2>4. CASE x = y
      <3>1. list[x] \in Int
        BY <1>4 DEF Numbers
      <3>. QED  BY <2>4, <3>1 DEF Sorting!Ordered
    <2>. QED  BY <1>8, <2>3, <2>4
  <1>. QED  BY <1>5, <1>7, <1>8 DEF Sorting!Sorted, Sorting!Partitioned

\* sort_introsort, whatever the comparator answers: sorting stays in the range it was
\* given, the array holds the elements it was given at every comparison, and the
\* recursion is logarithmically deep.
THEOREM SortInvariant == SortSpec => []SortInv
  <1>1. Sorting!Init => SortKept
    BY SortBegin
  <1>2. SortKept /\ [Sorting!Next]_Sorting!vars => SortKept'
    BY SortStep
  <1>3. SortKept => Sorting!Inv
    BY SortKeeps
  <1>. QED  BY <1>1, <1>2, <1>3, PTL DEF SortSpec, SortInv, Sorting!Spec

\* sort_introsort with an order for a comparator: what is out of order lies in one range
\* still to sort, and in the end the array is sorted.
THEOREM SortSorts == SortSpec => []Sorted
  <1>1. Sorting!Init => SortKept
    BY SortBegin
  <1>2. SortKept /\ [Sorting!Next]_Sorting!vars => SortKept'
    BY SortStep
  <1>3. SortKept => Sorting!Sorted
    BY SortOrders
  <1>. QED  BY <1>1, <1>2, <1>3, PTL DEF SortSpec, Sorted, Sorting!Spec

=============================================================================
