----------------------------- MODULE RingProofs -----------------------------
(***************************************************************************)
(* Proofs about Ring, for every set of items, every capacity, any number   *)
(* of sends, and loads that may or may not be stale.                       *)
(***************************************************************************)
EXTENDS MCRing, SequenceTheorems, TLAPS

-----------------------------------------------------------------------------
(* Positions.  Division with remainder by Size, and what follows from it   *)
(* for the slot that the k-th send and the k-th take use.                  *)

\* Size is at least two.
LEMMA SizeFacts == Size \in Nat /\ Size >= 2 /\ Capacity = Size - 1 /\ Index = 0 .. Size - 1
  BY CapacityAssumption DEF Size, Index

\* Quotient and remainder of a number by Size are unique.
LEMMA DivisionUnique ==
  ASSUME NEW q \in Nat, NEW r \in Index, NEW p \in Nat, NEW t \in Index,
         Size * q + r = Size * p + t
  PROVE  r = t
  <1>. DEFINE s == Size
  <1>0. s \in Nat /\ s > 0 /\ r \in 0 .. s - 1 /\ t \in 0 .. s - 1
    BY SizeFacts
  <1>00. s * q + r = s * p + t
    OBVIOUS
  <1>. HIDE DEF s
  <1>1. CASE p = q
    BY <1>0, <1>00, <1>1
  <1>2. CASE p < q
    <2>1. PICK d \in Nat : q = p + 1 + d  BY <1>2
    <2>2. s * q = s * p + s + s * d  BY <1>0, <2>1
    <2>3. s * d \in Nat  BY <1>0
    <2>. QED  BY <1>0, <1>00, <2>2, <2>3
  <1>3. CASE q < p
    <2>1. PICK d \in Nat : p = q + 1 + d  BY <1>3
    <2>2. s * p = s * q + s + s * d  BY <1>0, <2>1
    <2>3. s * d \in Nat  BY <1>0
    <2>. QED  BY <1>0, <1>00, <2>2, <2>3
  <1>. QED  BY <1>1, <1>2, <1>3

\* Every k is a multiple of Size plus its position.
LEMMA PosDivision ==
  ASSUME NEW k \in Nat
  PROVE  Pos(k) \in Index /\ \E q \in Nat : k = Size * q + Pos(k)
  <1>. DEFINE s == Size
  <1>0. s \in Nat \ {0} /\ Index = 0 .. s - 1
    BY SizeFacts
  <1>. HIDE DEF s
  <1>1. k % s \in 0 .. s - 1
    BY <1>0
  <1>2. k \div s \in Nat /\ k = s * (k \div s) + (k % s)
    BY <1>0
  <1>. QED  BY <1>0, <1>1, <1>2 DEF Pos, s

\* A position is a slot number.
LEMMA PosInIndex ==
  ASSUME NEW k \in Nat
  PROVE  Pos(k) \in Index
  BY PosDivision

\* The only slot number that k can be written with is its position.
LEMMA PosUnique ==
  ASSUME NEW k \in Nat, NEW r \in Index, \E q \in Nat : k = Size * q + r
  PROVE  Pos(k) = r
  BY PosDivision, DivisionUnique

\* Within one lap positions go up by one until they wrap.
LEMMA PosWithin ==
  ASSUME NEW k \in Nat, NEW d \in 0 .. Size
  PROVE  Pos(k + d) = IF Pos(k) + d < Size THEN Pos(k) + d ELSE Pos(k) + d - Size
  <1>. DEFINE e == IF Pos(k) + d < Size THEN Pos(k) + d ELSE Pos(k) + d - Size
  <1>1. PICK q \in Nat : k = Size * q + Pos(k)
    BY PosDivision
  <1>2. Pos(k) \in Index
    BY PosDivision
  <1>3. e \in Index /\ k + d \in Nat
    BY <1>2, SizeFacts
  <1>4. CASE Pos(k) + d < Size
    <2>1. k + d = Size * q + e
      BY <1>1, <1>2, <1>4, SizeFacts
    <2>. HIDE DEF e
    <2>2. Pos(k + d) = e
      BY <1>3, <2>1, PosUnique
    <2>. QED  BY <2>2 DEF e
  <1>5. CASE ~(Pos(k) + d < Size)
    <2>1. PICK p \in Nat : p = q + 1
      OBVIOUS
    <2>2. Size * p = Size * q + Size
      BY <2>1, SizeFacts
    <2>3. k + d = Size * p + e
      BY <1>1, <1>2, <1>5, <2>2, SizeFacts
    <2>. HIDE DEF e
    <2>4. Pos(k + d) = e
      BY <1>3, <2>3, PosUnique
    <2>. QED  BY <2>4 DEF e
  <1>. QED  BY <1>4, <1>5

\* Ring.next steps from the position of k to that of k + 1.
LEMMA PosNext ==
  ASSUME NEW k \in Nat
  PROVE  Pos(k + 1) = Following(Pos(k))
  <1>1. Pos(k) \in Index
    BY PosDivision
  <1>2. Pos(k + 1) = IF Pos(k) + 1 < Size THEN Pos(k) + 1 ELSE Pos(k) + 1 - Size
    BY PosWithin, SizeFacts
  <1>. QED  BY <1>1, <1>2, SizeFacts DEF Following

\* One lap later the position is the same again.
LEMMA PosLap ==
  ASSUME NEW k \in Nat
  PROVE  Pos(k + Size) = Pos(k)
  <1>1. Pos(k) \in Index
    BY PosDivision
  <1>2. Pos(k + Size) = IF Pos(k) + Size < Size THEN Pos(k) + Size
                        ELSE Pos(k) + Size - Size
    BY PosWithin, SizeFacts
  <1>. QED  BY <1>1, <1>2, SizeFacts

\* Less than a lap apart, two uses share a slot only if they are the same.
LEMMA PosInjective ==
  ASSUME NEW j \in Nat, NEW k \in Nat, j <= k, k < j + Size, Pos(j) = Pos(k)
  PROVE  j = k
  <1>1. PICK d \in 0 .. Size : d = k - j /\ d < Size
    BY SizeFacts
  <1>2. k = j + d
    BY <1>1, SizeFacts
  <1>3. Pos(k) = IF Pos(j) + d < Size THEN Pos(j) + d ELSE Pos(j) + d - Size
    BY <1>2, PosWithin
  <1>4. Pos(j) \in Index
    BY PosDivision
  <1>. QED  BY <1>1, <1>2, <1>3, <1>4, SizeFacts

\* Any Size consecutive uses go through every slot.
LEMMA PosOnto ==
  ASSUME NEW j \in Nat, NEW i \in Index
  PROVE  \E k \in j .. j + Capacity : Pos(k) = i
  <1>. DEFINE d == IF i >= Pos(j) THEN i - Pos(j) ELSE i + Size - Pos(j)
  <1>1. Pos(j) \in Index
    BY PosDivision
  <1>2. d \in 0 .. Size - 1
    BY <1>1, SizeFacts
  <1>3. IF Pos(j) + d < Size THEN Pos(j) + d = i ELSE Pos(j) + d - Size = i
    BY <1>1, SizeFacts
  <1>. HIDE DEF d
  <1>4. Pos(j + d) = i
    <2>1. d \in 0 .. Size
      BY <1>2, SizeFacts
    <2>2. Pos(j + d) = IF Pos(j) + d < Size THEN Pos(j) + d ELSE Pos(j) + d - Size
      BY <2>1, PosWithin
    <2>. QED  BY <1>3, <2>2
  <1>. QED  BY <1>2, <1>4, SizeFacts

-----------------------------------------------------------------------------
(* The inductive invariant. *)

\* What appending to a sequence does.
LEMMA AppendFacts ==
  ASSUME NEW S, NEW q \in Seq(S), NEW x \in S
  PROVE  /\ Append(q, x) \in Seq(S)
         /\ Len(Append(q, x)) = Len(q) + 1
         /\ Len(q) \in Nat
         /\ \A n \in 1 .. Len(q) : Append(q, x)[n] = q[n]
         /\ Append(q, x)[Len(q) + 1] = x
  OBVIOUS

\* The counters of the invariant are numbers, and Following stays in the ring.
LEMMA CounterFacts ==
  ASSUME TypeOK
  PROVE  /\ sent \in Nat /\ taken \in Nat
         /\ Len(tailLog) = sent + 1 /\ Len(headLog) = taken + 1
         /\ low \in {taken, taken + 1} /\ high \in {sent, sent + 1}
         /\ \A i \in Index : Following(i) \in Index
  BY SizeFacts DEF TypeOK, sent, taken, low, high, Following

\* A receiver about to take, or just after taking, knows of a send not taken.
LEMMA TakeFacts ==
  ASSUME Inv, pcR \in {"take", "publish"}
  PROVE  taken + 2 <= rKnown /\ taken < sent
         /\ \E t \in 1 .. rKnown : tail_seen = Pos(t - 1) /\ taken + 1 <= t - 1
  <1>1. phase = "split" /\ rHead = Pos(taken) /\ rHead # tail_seen
    BY DEF Inv, CallsOK, IndicesOK, CachesOK
  <1>2. PICK t \in 1 .. rKnown : tail_seen = Pos(t - 1) /\ taken <= t - 1
    BY <1>1 DEF Inv, CachesOK
  <1>3. taken # t - 1
    BY <1>1, <1>2
  <1>4. rKnown <= Len(tailLog) /\ rKnown \in Nat
    BY CounterFacts DEF Inv, TypeOK
  <1>. QED  BY <1>2, <1>3, <1>4, CounterFacts DEF Inv

\* A sender about to write, or just after writing, knows of a free slot.
LEMMA WriteFacts ==
  ASSUME Inv, pcS \in {"write", "publish"}
  PROVE  \E h \in 1 .. sKnown : /\ head_seen = Pos(h - 1)
                                /\ sent + 1 - (h - 1) <= Capacity
                                /\ h - 1 <= taken
  <1>1. sTail = Pos(sent) /\ Following(sTail) # head_seen
    BY DEF Inv, IndicesOK, CachesOK
  <1>2. PICK h \in 1 .. sKnown : head_seen = Pos(h - 1) /\ sent - (h - 1) <= Capacity
    BY DEF Inv, CachesOK
  <1>3. sent \in Nat /\ taken \in Nat /\ h - 1 \in Nat /\ h - 1 <= taken
    <2>1. sKnown \in 1 .. Len(headLog)
      BY DEF Inv, TypeOK
    <2>. QED  BY <2>1, CounterFacts DEF Inv
  <1>4. sent + 1 # (h - 1) + Size
    <2>1. SUFFICES ASSUME sent + 1 = (h - 1) + Size PROVE FALSE
      OBVIOUS
    <2>2. Pos(sent + 1) = Pos(h - 1)
      BY <2>1, <1>3, PosLap
    <2>. QED  BY <1>1, <1>2, <1>3, <2>2, PosNext
  <1>. QED  BY <1>2, <1>3, <1>4, SizeFacts

\* Equal positions of head and tail mean that nothing is queued.
LEMMA CaughtUp ==
  ASSUME Inv, Pos(taken) = Pos(sent)
  PROVE  taken = sent
  <1>1. taken <= sent /\ sent <= taken + Capacity
    BY DEF Inv, IndicesOK
  <1>2. sent \in Nat /\ taken \in Nat /\ sent < taken + Size
    BY <1>1, CounterFacts, SizeFacts DEF Inv
  <1>. QED  BY <1>1, <1>2, PosInjective

\* Ring.init establishes the invariant.
LEMMA InitInv == Init => Inv
  <1>. SUFFICES ASSUME Init PROVE Inv
    OBVIOUS
  <1>0. Pos(0) = 0
    BY PosUnique, SizeFacts
  <1>1. TypeOK
    <2>1. slots \in [Index -> Slot]
      <3>1. EmptySlot \in Slot
        BY DEF EmptySlot, Slot
      <3>. QED  BY <3>1 DEF Init
    <2>2. 0 \in Index
      BY SizeFacts
    <2>3. tailLog \in Seq(Index) /\ Len(tailLog) = 1
      BY <2>2 DEF Init
    <2>4. headLog \in Seq(Index) /\ Len(headLog) = 1
      BY <2>2 DEF Init
    <2>5. sKnown \in 1 .. Len(headLog) /\ rKnown \in 1 .. Len(tailLog)
      BY <2>3, <2>4 DEF Init
    <2>6. accepted \in Seq(Item) /\ Len(accepted) <= MaxSends
          /\ delivered \in Seq(Item) /\ dropped \in Seq(Item)
      BY MaxSendsAssumption DEF Init
    <2>7. phase = "whole" /\ pcS = "idle" /\ pcR = "idle"
          /\ sAnswer = "none" /\ rAnswer = "none"
      BY DEF Init
    <2>8. sTail = 0 /\ head_seen = 0 /\ rHead = 0 /\ tail_seen = 0
          /\ sItem = NoItem /\ rItem = NoItem
      BY DEF Init
    <2>9. /\ sender_gone \in BOOLEAN /\ receiver_gone \in BOOLEAN
          /\ sSawGone \in BOOLEAN /\ rSawGone \in BOOLEAN /\ sLate \in BOOLEAN
      BY DEF Init
    <2>. QED  BY <2>1, <2>2, <2>3, <2>4, <2>5, <2>6, <2>7, <2>8, <2>9 DEF TypeOK
  <1>2. sent = 0 /\ taken = 0 /\ low = 0 /\ high = 0
    BY DEF Init, sent, taken, low, high
  <1>3. IndicesOK
    BY <1>0, <1>2, SizeFacts DEF Init, IndicesOK
  <1>4. CachesOK
    BY <1>0, <1>2, SizeFacts DEF Init, CachesOK
  <1>5. SlotsOK
    <2>1. ASSUME NEW k \in 0 .. Capacity
          PROVE  slots[Pos(k)].live = 0 /\ slots[Pos(k)].took = 0
      <3>1. Pos(k) \in Index
        BY PosInIndex, CapacityAssumption
      <3>. QED  BY <3>1 DEF Init, EmptySlot
    <2>2. pcR # "publish"
      BY DEF Init
    <2>. QED  BY <1>2, <2>1, <2>2, SizeFacts DEF SlotsOK
  <1>6. InOrder /\ CallsOK
    BY <1>2 DEF Init, InOrder, CallsOK
  <1>. QED  BY <1>1, <1>3, <1>4, <1>5, <1>6 DEF Inv

\* Split preserves the invariant.
LEMMA SplitInv ==
  ASSUME Inv, Split
  PROVE  Inv'
  <1>. USE DEF Split, ringVars, sendVars, recvVars, histVars
  <1>1. TypeOK'
    BY DEF Inv, TypeOK
  <1>2. sent' = sent /\ taken' = taken /\ low' = low /\ high' = high
    BY DEF sent, taken, low, high
  <1>3. IndicesOK'
    BY <1>2 DEF Inv, IndicesOK
  <1>4. CachesOK'
    BY <1>2 DEF Inv, CachesOK
  <1>5. SlotsOK'
    BY <1>2 DEF Inv, SlotsOK
  <1>6. InOrder'
    BY <1>2 DEF Inv, InOrder
  <1>7. CallsOK'
    BY <1>2 DEF Inv, CallsOK
  <1>. QED  BY <1>1, <1>3, <1>4, <1>5, <1>6, <1>7 DEF Inv

\* SendBegin preserves the invariant.
LEMMA SendBeginInv ==
  ASSUME Inv, SendBegin
  PROVE  Inv'
  <1>. USE DEF SendBegin, ringVars, sendVars, recvVars, histVars
  <1>1. TypeOK'
    BY DEF Inv, TypeOK
  <1>2. sent' = sent /\ taken' = taken /\ low' = low /\ high' = high
    BY DEF sent, taken, low, high
  <1>3. IndicesOK'
    BY <1>2 DEF Inv, IndicesOK
  <1>4. CachesOK'
    BY <1>2 DEF Inv, CachesOK
  <1>5. SlotsOK'
    <2>1. high = sent /\ sent \in Nat /\ low \in Nat
      BY CounterFacts DEF Inv, high
    <2>2. \A k \in low .. high - 1 : k # sent
      BY <2>1
    <2>3. accepted' = accepted /\ slots' = slots /\ rItem' = rItem /\ pcR' = pcR
      OBVIOUS
    <2>. QED  BY <1>2, <2>2, <2>3 DEF Inv, SlotsOK
  <1>6. InOrder'
    BY <1>2 DEF Inv, InOrder
  <1>7. CallsOK'
    BY <1>2 DEF Inv, CallsOK
  <1>. QED  BY <1>1, <1>3, <1>4, <1>5, <1>6, <1>7 DEF Inv

\* SendLoadGone preserves the invariant.
LEMMA SendLoadGoneInv ==
  ASSUME Inv, SendLoadGone
  PROVE  Inv'
  <1>. USE DEF SendLoadGone, SenderReadsGone, SendRefuse, FlagLoads, ringVars, sendVars, recvVars, histVars
  <1>1. TypeOK'
    BY DEF Inv, TypeOK
  <1>2. sent' = sent /\ taken' = taken /\ low' = low /\ high' = high
    BY DEF sent, taken, low, high
  <1>3. IndicesOK'
    BY <1>2 DEF Inv, IndicesOK
  <1>4. CachesOK'
    <2>1. PICK h \in 1 .. sKnown : head_seen = Pos(h - 1) /\ sent - (h - 1) <= Capacity
      BY DEF Inv, CachesOK
    <2>2. h \in 1 .. sKnown'
      BY <2>1 DEF Inv, TypeOK
    <2>3. pcS' # "regone" /\ head_seen' = head_seen
      OBVIOUS
    <2>4. pcS' \in {"write", "publish"} => Following(sTail') # head_seen'
      OBVIOUS
    <2>5. UNCHANGED <<phase, pcR, rHead, tail_seen, rKnown>>
      OBVIOUS
    <2>. QED  BY <1>2, <2>1, <2>2, <2>3, <2>4, <2>5 DEF Inv, CachesOK
  <1>5. SlotsOK'
    <2>1. high = sent /\ sent \in Nat /\ low \in Nat
      BY CounterFacts DEF Inv, high
    <2>2. \A k \in low .. high - 1 : k # sent
      BY <2>1
    <2>3. accepted' = accepted /\ slots' = slots /\ rItem' = rItem /\ pcR' = pcR
      OBVIOUS
    <2>. QED  BY <1>2, <2>2, <2>3 DEF Inv, SlotsOK
  <1>6. InOrder'
    BY <1>2 DEF Inv, InOrder
  <1>7. CallsOK'
    BY <1>2 DEF Inv, CallsOK
  <1>. QED  BY <1>1, <1>3, <1>4, <1>5, <1>6, <1>7 DEF Inv

\* SendLoadHead preserves the invariant.
LEMMA SendLoadHeadInv ==
  ASSUME Inv, SendLoadHead
  PROVE  Inv'
  <1>. USE DEF SendLoadHead, Loadable, ringVars, sendVars, recvVars, histVars
  <1>1. TypeOK'
    BY DEF Inv, TypeOK
  <1>2. sent' = sent /\ taken' = taken /\ low' = low /\ high' = high
    BY DEF sent, taken, low, high
  <1>3. IndicesOK'
    BY <1>2 DEF Inv, IndicesOK
  <1>4. CachesOK'
    <2>1. PICK h \in 1 .. sKnown : sent - (h - 1) <= Capacity
      BY DEF Inv, CachesOK
    <2>2. PICK n \in Loadable(headLog, sKnown) :
              head_seen' = headLog[n] /\ sKnown' = n
              /\ pcS' = IF Following(sTail) = headLog[n] THEN "regone" ELSE "write"
      OBVIOUS
    <2>3. n \in 1 .. Len(headLog) /\ n >= sKnown /\ sKnown \in Nat
      BY <2>2 DEF Inv, TypeOK
    <2>4. headLog[n] = Pos(n - 1)
      BY <2>3 DEF Inv, IndicesOK
    <2>5. sent \in Nat /\ Capacity \in Nat
      BY CounterFacts, CapacityAssumption DEF Inv
    <2>6. sent - (n - 1) <= Capacity
      BY <2>1, <2>3, <2>5
    <2>7. UNCHANGED <<phase, pcR, rHead, tail_seen, rKnown, sTail>>
      OBVIOUS
    <2>8. \E g \in 1 .. sKnown' :
              /\ head_seen' = Pos(g - 1)
              /\ sent' - (g - 1) <= Capacity
              /\ pcS' = "regone" => g = sKnown' /\ Following(sTail') = head_seen'
      BY <1>2, <2>2, <2>3, <2>4, <2>6, <2>7
    <2>9. pcS' \in {"write", "publish"} => Following(sTail') # head_seen'
      BY <2>2, <2>7
    <2>. QED  BY <1>2, <2>7, <2>8, <2>9 DEF Inv, CachesOK
  <1>5. SlotsOK'
    BY <1>2 DEF Inv, SlotsOK
  <1>6. InOrder'
    BY <1>2 DEF Inv, InOrder
  <1>7. CallsOK'
    BY <1>2 DEF Inv, CallsOK
  <1>. QED  BY <1>1, <1>3, <1>4, <1>5, <1>6, <1>7 DEF Inv

\* SendReloadGone preserves the invariant.
LEMMA SendReloadGoneInv ==
  ASSUME Inv, SendReloadGone
  PROVE  Inv'
  <1>. USE DEF SendReloadGone, SenderReadsGone, SendRefuse, FlagLoads, ringVars, sendVars, recvVars, histVars
  <1>1. TypeOK'
    BY DEF Inv, TypeOK
  <1>2. sent' = sent /\ taken' = taken /\ low' = low /\ high' = high
    BY DEF sent, taken, low, high
  <1>3. IndicesOK'
    BY <1>2 DEF Inv, IndicesOK
  <1>4. CachesOK'
    <2>1. PICK h \in 1 .. sKnown : head_seen = Pos(h - 1) /\ sent - (h - 1) <= Capacity
      BY DEF Inv, CachesOK
    <2>2. h \in 1 .. sKnown'
      BY <2>1 DEF Inv, TypeOK
    <2>3. pcS' # "regone" /\ head_seen' = head_seen
      OBVIOUS
    <2>4. pcS' \in {"write", "publish"} => Following(sTail') # head_seen'
      OBVIOUS
    <2>5. UNCHANGED <<phase, pcR, rHead, tail_seen, rKnown>>
      OBVIOUS
    <2>. QED  BY <1>2, <2>1, <2>2, <2>3, <2>4, <2>5 DEF Inv, CachesOK
  <1>5. SlotsOK'
    <2>1. high = sent /\ sent \in Nat /\ low \in Nat
      BY CounterFacts DEF Inv, high
    <2>2. \A k \in low .. high - 1 : k # sent
      BY <2>1
    <2>3. accepted' = accepted /\ slots' = slots /\ rItem' = rItem /\ pcR' = pcR
      OBVIOUS
    <2>. QED  BY <1>2, <2>2, <2>3 DEF Inv, SlotsOK
  <1>6. InOrder'
    BY <1>2 DEF Inv, InOrder
  <1>7. CallsOK'
    BY <1>2 DEF Inv, CallsOK
  <1>. QED  BY <1>1, <1>3, <1>4, <1>5, <1>6, <1>7 DEF Inv

\* SenderDrop preserves the invariant.
LEMMA SenderDropInv ==
  ASSUME Inv, SenderDrop
  PROVE  Inv'
  <1>. USE DEF SenderDrop, ringVars, sendVars, recvVars, histVars
  <1>1. TypeOK'
    BY DEF Inv, TypeOK
  <1>2. sent' = sent /\ taken' = taken /\ low' = low /\ high' = high
    BY DEF sent, taken, low, high
  <1>3. IndicesOK'
    BY <1>2 DEF Inv, IndicesOK
  <1>4. CachesOK'
    BY <1>2 DEF Inv, CachesOK
  <1>5. SlotsOK'
    BY <1>2 DEF Inv, SlotsOK
  <1>6. InOrder'
    BY <1>2 DEF Inv, InOrder
  <1>7. CallsOK'
    BY <1>2 DEF Inv, CallsOK
  <1>. QED  BY <1>1, <1>3, <1>4, <1>5, <1>6, <1>7 DEF Inv

\* ReceiveBegin preserves the invariant.
LEMMA ReceiveBeginInv ==
  ASSUME Inv, ReceiveBegin
  PROVE  Inv'
  <1>. USE DEF ReceiveBegin, ringVars, sendVars, recvVars, histVars
  <1>1. TypeOK'
    BY DEF Inv, TypeOK
  <1>2. sent' = sent /\ taken' = taken /\ low' = low /\ high' = high
    BY DEF sent, taken, low, high
  <1>3. IndicesOK'
    BY <1>2 DEF Inv, IndicesOK
  <1>4. CachesOK'
    BY <1>2 DEF Inv, CachesOK
  <1>5. SlotsOK'
    BY <1>2 DEF Inv, SlotsOK
  <1>6. InOrder'
    BY <1>2 DEF Inv, InOrder
  <1>7. CallsOK'
    BY <1>2 DEF Inv, CallsOK
  <1>. QED  BY <1>1, <1>3, <1>4, <1>5, <1>6, <1>7 DEF Inv

\* ReceiveLoadTail preserves the invariant.
LEMMA ReceiveLoadTailInv ==
  ASSUME Inv, ReceiveLoadTail
  PROVE  Inv'
  <1>. USE DEF ReceiveLoadTail, Loadable, ringVars, sendVars, recvVars, histVars
  <1>1. TypeOK'
    BY DEF Inv, TypeOK
  <1>2. sent' = sent /\ taken' = taken /\ low' = low /\ high' = high
    BY DEF sent, taken, low, high
  <1>3. IndicesOK'
    BY <1>2 DEF Inv, IndicesOK
  <1>4. CachesOK'
    <2>1. phase = "split"
      BY DEF Inv, CallsOK
    <2>2. PICK t \in 1 .. rKnown : taken <= t - 1
      BY <2>1 DEF Inv, CachesOK
    <2>3. PICK n \in Loadable(tailLog, rKnown) :
              tail_seen' = tailLog[n] /\ rKnown' = n
              /\ (pcR' = "take" => rHead # tailLog[n])
      OBVIOUS
    <2>4. n \in 1 .. Len(tailLog) /\ n >= rKnown /\ rKnown \in Nat
      BY <2>3 DEF Inv, TypeOK
    <2>5. tailLog[n] = Pos(n - 1)
      BY <2>4 DEF Inv, IndicesOK
    <2>6. taken <= n - 1
      BY <2>2, <2>4, CounterFacts DEF Inv
    <2>7. UNCHANGED <<phase, pcS, sTail, head_seen, sKnown, rHead>>
      OBVIOUS
    <2>8. \E g \in 1 .. rKnown' : tail_seen' = Pos(g - 1) /\ taken' <= g - 1
      BY <1>2, <2>3, <2>4, <2>5, <2>6
    <2>9. pcR' \in {"take", "publish"} => rHead' # tail_seen'
      BY <2>3, <2>7
    <2>. QED  BY <1>2, <2>7, <2>8, <2>9 DEF Inv, CachesOK
  <1>5. SlotsOK'
    BY <1>2 DEF Inv, SlotsOK
  <1>6. InOrder'
    BY <1>2 DEF Inv, InOrder
  <1>7. CallsOK'
    BY <1>2 DEF Inv, CallsOK
  <1>. QED  BY <1>1, <1>3, <1>4, <1>5, <1>6, <1>7 DEF Inv

\* ReceiveLoadGone preserves the invariant.
LEMMA ReceiveLoadGoneInv ==
  ASSUME Inv, ReceiveLoadGone
  PROVE  Inv'
  <1>. USE DEF ReceiveLoadGone, FlagLoads, ringVars, sendVars, recvVars, histVars
  <1>1. TypeOK'
    BY DEF Inv, TypeOK
  <1>2. sent' = sent /\ taken' = taken /\ low' = low /\ high' = high
    BY DEF sent, taken, low, high
  <1>3. IndicesOK'
    BY <1>2 DEF Inv, IndicesOK
  <1>4. CachesOK'
    <2>1. phase = "split"
      BY DEF Inv, CallsOK
    <2>2. PICK t \in 1 .. rKnown : tail_seen = Pos(t - 1) /\ taken <= t - 1
      BY <2>1 DEF Inv, CachesOK
    <2>3. t \in 1 .. rKnown'
      BY <2>2 DEF Inv, TypeOK
    <2>4. pcR' \notin {"take", "publish"}
      OBVIOUS
    <2>5. UNCHANGED <<phase, pcS, sTail, head_seen, sKnown, rHead, tail_seen>>
      OBVIOUS
    <2>. QED  BY <1>2, <2>2, <2>3, <2>4, <2>5 DEF Inv, CachesOK
  <1>5. SlotsOK'
    BY <1>2 DEF Inv, SlotsOK
  <1>6. InOrder'
    BY <1>2 DEF Inv, InOrder
  <1>7. CallsOK'
    BY <1>2 DEF Inv, CallsOK
  <1>. QED  BY <1>1, <1>3, <1>4, <1>5, <1>6, <1>7 DEF Inv

\* ReceiveReloadTail preserves the invariant.
LEMMA ReceiveReloadTailInv ==
  ASSUME Inv, ReceiveReloadTail
  PROVE  Inv'
  <1>. USE DEF ReceiveReloadTail, Loadable, ringVars, sendVars, recvVars, histVars
  <1>1. TypeOK'
    BY DEF Inv, TypeOK
  <1>2. sent' = sent /\ taken' = taken /\ low' = low /\ high' = high
    BY DEF sent, taken, low, high
  <1>3. IndicesOK'
    BY <1>2 DEF Inv, IndicesOK
  <1>4. CachesOK'
    <2>1. phase = "split"
      BY DEF Inv, CallsOK
    <2>2. PICK t \in 1 .. rKnown : taken <= t - 1
      BY <2>1 DEF Inv, CachesOK
    <2>3. PICK n \in Loadable(tailLog, rKnown) :
              tail_seen' = tailLog[n] /\ rKnown' = n
              /\ (pcR' = "take" => rHead # tailLog[n])
      OBVIOUS
    <2>4. n \in 1 .. Len(tailLog) /\ n >= rKnown /\ rKnown \in Nat
      BY <2>3 DEF Inv, TypeOK
    <2>5. tailLog[n] = Pos(n - 1)
      BY <2>4 DEF Inv, IndicesOK
    <2>6. taken <= n - 1
      BY <2>2, <2>4, CounterFacts DEF Inv
    <2>7. UNCHANGED <<phase, pcS, sTail, head_seen, sKnown, rHead>>
      OBVIOUS
    <2>8. \E g \in 1 .. rKnown' : tail_seen' = Pos(g - 1) /\ taken' <= g - 1
      BY <1>2, <2>3, <2>4, <2>5, <2>6
    <2>9. pcR' \in {"take", "publish"} => rHead' # tail_seen'
      BY <2>3, <2>7
    <2>. QED  BY <1>2, <2>7, <2>8, <2>9 DEF Inv, CachesOK
  <1>5. SlotsOK'
    BY <1>2 DEF Inv, SlotsOK
  <1>6. InOrder'
    BY <1>2 DEF Inv, InOrder
  <1>7. CallsOK'
    <2>1. rSawGone /\ sender_gone /\ rKnown = Len(tailLog) /\ phase = "split"
      BY DEF Inv, CallsOK
    <2>2. Loadable(tailLog, rKnown) = {Len(tailLog)}
      BY <2>1 DEF Inv, TypeOK
    <2>3. rKnown' = Len(tailLog) /\ (rAnswer' # rAnswer => rHead = tailLog[Len(tailLog)])
      BY <2>2
    <2>4. tailLog[Len(tailLog)] = Pos(sent) /\ rHead = Pos(taken)
      BY <2>1, CounterFacts DEF Inv, IndicesOK
    <2>5. rHead = tailLog[Len(tailLog)] => taken = sent
      BY <2>4, CaughtUp
    <2>6. UNCHANGED <<phase, pcS, sender_gone, receiver_gone, sItem, accepted, dropped,
                      rSawGone, tailLog>>
      OBVIOUS
    <2>7. pcR' # "retail" /\ rAnswer' \in {rAnswer, "closed"}
      OBVIOUS
    <2>. QED  BY <1>2, <2>1, <2>3, <2>5, <2>6, <2>7 DEF Inv, CallsOK
  <1>. QED  BY <1>1, <1>3, <1>4, <1>5, <1>6, <1>7 DEF Inv

\* ReceiverDrop preserves the invariant.
LEMMA ReceiverDropInv ==
  ASSUME Inv, ReceiverDrop
  PROVE  Inv'
  <1>. USE DEF ReceiverDrop, ringVars, sendVars, recvVars, histVars
  <1>1. TypeOK'
    BY DEF Inv, TypeOK
  <1>2. sent' = sent /\ taken' = taken /\ low' = low /\ high' = high
    BY DEF sent, taken, low, high
  <1>3. IndicesOK'
    BY <1>2 DEF Inv, IndicesOK
  <1>4. CachesOK'
    BY <1>2 DEF Inv, CachesOK
  <1>5. SlotsOK'
    BY <1>2 DEF Inv, SlotsOK
  <1>6. InOrder'
    BY <1>2 DEF Inv, InOrder
  <1>7. CallsOK'
    BY <1>2 DEF Inv, CallsOK
  <1>. QED  BY <1>1, <1>3, <1>4, <1>5, <1>6, <1>7 DEF Inv

\* DrainBegin preserves the invariant.
LEMMA DrainBeginInv ==
  ASSUME Inv, DrainBegin
  PROVE  Inv'
  <1>. USE DEF DrainBegin, ringVars, sendVars, recvVars, histVars
  <1>1. TypeOK'
    BY DEF Inv, TypeOK
  <1>2. sent' = sent /\ taken' = taken /\ low' = low /\ high' = high
    BY DEF sent, taken, low, high
  <1>3. IndicesOK'
    BY <1>2 DEF Inv, IndicesOK
  <1>4. CachesOK'
    BY <1>2 DEF Inv, CachesOK
  <1>5. SlotsOK'
    BY <1>2 DEF Inv, SlotsOK
  <1>6. InOrder'
    BY <1>2 DEF Inv, InOrder
  <1>7. CallsOK'
    BY <1>2 DEF Inv, CallsOK
  <1>. QED  BY <1>1, <1>3, <1>4, <1>5, <1>6, <1>7 DEF Inv

\* DrainEnd preserves the invariant.
LEMMA DrainEndInv ==
  ASSUME Inv, DrainEnd
  PROVE  Inv'
  <1>. USE DEF DrainEnd, ringVars, sendVars, recvVars, histVars
  <1>1. TypeOK'
    BY DEF Inv, TypeOK
  <1>2. sent' = sent /\ taken' = taken /\ low' = low /\ high' = high
    BY DEF sent, taken, low, high
  <1>3. IndicesOK'
    BY <1>2 DEF Inv, IndicesOK
  <1>4. CachesOK'
    BY <1>2 DEF Inv, CachesOK
  <1>5. SlotsOK'
    BY <1>2 DEF Inv, SlotsOK
  <1>6. InOrder'
    BY <1>2 DEF Inv, InOrder
  <1>7. CallsOK'
    <2>1. Last(headLog) = Pos(taken) /\ Last(tailLog) = Pos(sent)
      BY CounterFacts DEF Inv, IndicesOK, Last
    <2>2. taken = sent
      BY <2>1, CaughtUp
    <2>. QED  BY <1>2, <2>2 DEF Inv, CallsOK
  <1>. QED  BY <1>1, <1>3, <1>4, <1>5, <1>6, <1>7 DEF Inv

\* SendWrite preserves the invariant: the slot it fills was free, and comes
\* right after the live ones.
LEMMA SendWriteInv ==
  ASSUME Inv, SendWrite
  PROVE  Inv'
  <1>. USE DEF SendWrite, ringVars, sendVars, recvVars, histVars
  <1>1. sTail \in Index /\ sTail = Pos(sent) /\ slots \in [Index -> Slot]
        /\ sItem \in Item /\ Len(tailLog) \in Nat /\ Len(tailLog) = sent + 1
    BY CounterFacts DEF Inv, TypeOK, IndicesOK, CallsOK
  <1>2. /\ slots' \in [Index -> Slot]
        /\ \A i \in Index \ {sTail} : slots'[i] = slots[i]
        /\ slots'[sTail].live = 1
        /\ slots'[sTail].item = sItem
        /\ slots'[sTail].put = sent + 1
        /\ slots'[sTail].took = slots[sTail].took
    BY <1>1 DEF Slot
  <1>3. TypeOK'
    BY <1>2 DEF Inv, TypeOK
  <1>4. sent' = sent /\ taken' = taken /\ low' = low /\ high = sent /\ high' = sent + 1
    BY DEF sent, taken, low, high
  <1>5. sent \in Nat /\ taken \in Nat /\ low \in Nat /\ taken <= low /\ low <= sent
        /\ sent < low + Capacity
    <2>1. sent < taken + Capacity
      BY WriteFacts, CounterFacts, CapacityAssumption DEF Inv
    <2>2. taken <= sent
      BY DEF Inv, IndicesOK
    <2>3. pcR = "publish" => taken < sent
      BY TakeFacts
    <2>. QED  BY <2>1, <2>2, <2>3, CounterFacts, CapacityAssumption DEF Inv, low
  <1>6. \A k \in low .. low + Capacity : Pos(k) \in Index /\ (Pos(k) = Pos(sent) => k = sent)
    <2>1. SUFFICES ASSUME NEW k \in low .. low + Capacity
                   PROVE  Pos(k) \in Index /\ (Pos(k) = Pos(sent) => k = sent)
      OBVIOUS
    <2>2. k \in Nat /\ k < sent + Size /\ sent < k + Size
      BY <1>5, SizeFacts
    <2>3. CASE k <= sent
      BY <1>5, <2>2, <2>3, PosInjective, PosInIndex
    <2>4. CASE sent <= k
      BY <1>5, <2>2, <2>4, PosInjective, PosInIndex
    <2>. QED  BY <1>5, <2>2, <2>3, <2>4
  <1>7. SlotsOK'
    <2>1. ASSUME NEW k \in low .. high' - 1
          PROVE  /\ slots'[Pos(k)].live = 1
                 /\ slots'[Pos(k)].put = k + 1
                 /\ slots'[Pos(k)].item = IF k = sent THEN sItem ELSE accepted[k + 1]
      <3>1. k \in low .. low + Capacity
        BY <1>4, <1>5, CapacityAssumption
      <3>2. CASE k = sent
        BY <1>1, <1>2, <3>2
      <3>3. CASE k # sent
        <4>1. k \in low .. high - 1 /\ Pos(k) # sTail /\ Pos(k) \in Index
          BY <1>1, <1>4, <1>5, <1>6, <3>1, <3>3
        <4>. QED  BY <1>2, <3>3, <4>1 DEF Inv, SlotsOK
      <3>. QED  BY <3>2, <3>3
    <2>2. ASSUME NEW k \in high' .. low + Capacity
          PROVE  slots'[Pos(k)].live = 0
      <3>1. k \in high .. low + Capacity /\ k \in low .. low + Capacity /\ k # sent
        BY <1>4, <1>5, CapacityAssumption
      <3>. QED  BY <1>1, <1>2, <1>6, <3>1 DEF Inv, SlotsOK
    <2>3. ASSUME NEW k \in low .. low + Capacity
          PROVE  slots'[Pos(k)].took = 0 \/ slots'[Pos(k)].took + Size = k + 1
      <3>1. slots'[Pos(k)].took = slots[Pos(k)].took
        BY <1>2, <1>6
      <3>. QED  BY <3>1 DEF Inv, SlotsOK
    <2>4. UNCHANGED <<pcR, rItem, accepted, sItem>>
      OBVIOUS
    <2>. QED  BY <1>4, <2>1, <2>2, <2>3, <2>4 DEF Inv, SlotsOK
  <1>8. IndicesOK'
    BY <1>4 DEF Inv, IndicesOK
  <1>9. CachesOK'
    BY <1>4 DEF Inv, CachesOK
  <1>10. InOrder' /\ CallsOK'
    BY <1>4 DEF Inv, InOrder, CallsOK
  <1>. QED  BY <1>3, <1>7, <1>8, <1>9, <1>10 DEF Inv

\* SendPublish preserves the invariant: the item written becomes an accepted
\* one, and a slot known to be free is left over.
LEMMA SendPublishInv ==
  ASSUME Inv, SendPublish
  PROVE  Inv'
  <1>. USE DEF SendPublish, SendRefuse, ringVars, sendVars, recvVars, histVars
  <1>1. /\ sTail \in Index /\ sTail = Pos(sent) /\ Following(sTail) \in Index
        /\ tailLog \in Seq(Index) /\ Len(tailLog) = sent + 1 /\ sent \in Nat /\ taken \in Nat
        /\ sItem \in Item /\ accepted \in Seq(Item) /\ Len(accepted) = sent
        /\ Len(accepted) < MaxSends /\ ~sender_gone /\ phase = "split"
    BY CounterFacts DEF Inv, TypeOK, IndicesOK, CallsOK
  <1>2. /\ tailLog' \in Seq(Index) /\ Len(tailLog') = sent + 2
        /\ \A n \in 1 .. sent + 1 : tailLog'[n] = tailLog[n]
        /\ tailLog'[sent + 2] = Following(sTail)
    BY <1>1, AppendFacts
  <1>3. /\ accepted' \in Seq(Item) /\ Len(accepted') = sent + 1
        /\ \A n \in 1 .. sent : accepted'[n] = accepted[n]
        /\ accepted'[sent + 1] = sItem
    BY <1>1, AppendFacts
  <1>4. sent' = sent + 1 /\ taken' = taken /\ low' = low /\ high = sent + 1 /\ high' = high
    BY <1>1, <1>2 DEF sent, taken, low, high
  <1>5. TypeOK'
    <2>1. rKnown \in 1 .. Len(tailLog')
      BY <1>1, <1>2 DEF Inv, TypeOK
    <2>2. Len(accepted') <= MaxSends
      BY <1>1, <1>3, MaxSendsAssumption
    <2>. QED  BY <1>1, <1>2, <1>3, <2>1, <2>2 DEF Inv, TypeOK
  <1>6. Pos(sent + 1) = Following(sTail)
    BY <1>1, PosNext
  <1>7. PICK h \in 1 .. sKnown : /\ head_seen = Pos(h - 1)
                                 /\ sent + 1 - (h - 1) <= Capacity
                                 /\ h - 1 <= taken
    BY WriteFacts
  <1>8. taken <= sent /\ sent + 1 <= taken + Capacity
    <2>1. taken <= sent
      BY DEF Inv, IndicesOK
    <2>2. h \in Nat
      BY <1>7 DEF Inv, TypeOK
    <2>. QED  BY <1>1, <1>7, <2>1, <2>2, CapacityAssumption
  <1>9. IndicesOK'
    <2>1. \A n \in 1 .. Len(tailLog') : tailLog'[n] = Pos(n - 1)
      <3>1. SUFFICES ASSUME NEW n \in 1 .. sent + 2 PROVE tailLog'[n] = Pos(n - 1)
        BY <1>2
      <3>2. CASE n = sent + 2
        BY <1>1, <1>2, <1>6, <3>2
      <3>3. CASE n # sent + 2
        <4>1. n \in 1 .. sent + 1
          BY <1>1, <3>3
        <4>. QED  BY <1>1, <1>2, <4>1 DEF Inv, IndicesOK
      <3>. QED  BY <3>2, <3>3
    <2>2. sTail' = Pos(sent') /\ Len(accepted') = sent' /\ taken' <= sent'
          /\ sent' <= taken' + Capacity
      BY <1>1, <1>3, <1>4, <1>6, <1>8
    <2>3. UNCHANGED <<headLog, phase, rHead>>
      OBVIOUS
    <2>. QED  BY <1>4, <2>1, <2>2, <2>3 DEF Inv, IndicesOK
  <1>10. CachesOK'
    <2>1. UNCHANGED <<phase, pcR, rHead, tail_seen, rKnown, head_seen, sKnown>> /\ pcS' = "idle"
      OBVIOUS
    <2>2. \E g \in 1 .. sKnown' : head_seen' = Pos(g - 1) /\ sent' - (g - 1) <= Capacity
      <3>1. h \in Nat /\ sent \in Nat
        BY <1>1, <1>7 DEF Inv, TypeOK
      <3>2. sent' - (h - 1) <= Capacity
        BY <1>4, <1>7, <3>1
      <3>. QED  BY <1>7, <2>1, <3>2
    <2>. QED  BY <1>4, <2>1, <2>2 DEF Inv, CachesOK
  <1>11. SlotsOK'
    <2>1. low \in Nat /\ low <= sent + 1
      BY <1>1, <1>8, CounterFacts DEF Inv
    <2>2. ASSUME NEW k \in low .. high - 1
          PROVE  (IF k = sent THEN sItem ELSE accepted[k + 1]) = accepted'[k + 1] /\ k # sent + 1
      BY <1>1, <1>3, <1>4, <2>1
    <2>3. UNCHANGED <<slots, pcR, rItem>>
      OBVIOUS
    <2>4. pcR = "publish" => accepted'[taken + 1] = accepted[taken + 1]
      BY <1>1, <1>3, TakeFacts
    <2>. QED  BY <1>4, <2>2, <2>3, <2>4 DEF Inv, SlotsOK
  <1>12. InOrder'
    <2>1. Len(delivered) + Len(dropped) = taken /\ taken <= sent
          /\ Len(delivered) \in Nat /\ Len(dropped) \in Nat
      BY <1>1, <1>8 DEF Inv, InOrder, TypeOK
    <2>2. UNCHANGED <<delivered, dropped>>
      OBVIOUS
    <2>. QED  BY <1>1, <1>3, <1>4, <2>1, <2>2 DEF Inv, InOrder
  <1>13. CallsOK'
    <2>1. ~rSawGone /\ rAnswer # "closed" /\ UNCHANGED <<rSawGone, rAnswer, pcR, phase>>
      BY <1>1 DEF Inv, CallsOK
    <2>. QED  BY <1>1, <2>1 DEF Inv, CallsOK
  <1>. QED  BY <1>5, <1>9, <1>10, <1>11, <1>12, <1>13 DEF Inv

\* Emptying slot Pos(taken) moves the window of live slots up by one, and the
\* slot becomes the one that follows the window's free part.
LEMMA EmptyOldest ==
  ASSUME Inv, low = taken, taken < sent,
         NEW new \in [Index -> Slot],
         \A i \in Index \ {Pos(taken)} : new[i] = slots[i],
         new[Pos(taken)].live = 0,
         new[Pos(taken)].took = taken + 1
  PROVE  /\ \A k \in taken + 1 .. high - 1 :
                /\ new[Pos(k)].live = 1
                /\ new[Pos(k)].put = k + 1
                /\ new[Pos(k)].item = IF k = sent THEN sItem ELSE accepted[k + 1]
         /\ \A k \in high .. taken + 1 + Capacity : new[Pos(k)].live = 0
         /\ \A k \in taken + 1 .. taken + 1 + Capacity :
                new[Pos(k)].took = 0 \/ new[Pos(k)].took + Size = k + 1
  <1>1. taken \in Nat /\ sent \in Nat /\ high \in Nat /\ taken < high
    BY CounterFacts DEF Inv
  <1>2. high <= taken + Size
    <2>1. sent <= taken + Capacity
      BY DEF Inv, IndicesOK
    <2>. QED  BY <1>1, <2>1, CounterFacts, SizeFacts DEF Inv
  <1>3. ASSUME NEW k \in taken + 1 .. taken + Capacity
        PROVE  k \in Nat /\ new[Pos(k)] = slots[Pos(k)]
    <2>1. k \in Nat /\ taken <= k /\ k < taken + Size /\ k # taken
      BY <1>1, SizeFacts
    <2>2. Pos(k) \in Index /\ Pos(k) # Pos(taken)
      BY <1>1, <2>1, PosInjective, PosInIndex
    <2>. QED  BY <2>1, <2>2
  <1>4. Pos(taken + Size) = Pos(taken)
    BY <1>1, PosLap
  <1>5. ASSUME NEW k \in taken + 1 .. high - 1
        PROVE  /\ new[Pos(k)].live = 1
               /\ new[Pos(k)].put = k + 1
               /\ new[Pos(k)].item = IF k = sent THEN sItem ELSE accepted[k + 1]
    <2>1. k \in taken + 1 .. taken + Capacity /\ k \in low .. high - 1
      BY <1>1, <1>2, SizeFacts
    <2>. QED  BY <1>3, <2>1 DEF Inv, SlotsOK
  <1>6. ASSUME NEW k \in taken + 1 .. taken + 1 + Capacity
        PROVE  /\ k >= high => new[Pos(k)].live = 0
               /\ new[Pos(k)].took = 0 \/ new[Pos(k)].took + Size = k + 1
    <2>1. CASE k = taken + Size
      BY <1>1, <1>4, <2>1, SizeFacts
    <2>2. CASE k # taken + Size
      <3>1. k \in taken + 1 .. taken + Capacity /\ k \in low .. low + Capacity
        BY <1>1, <2>2, SizeFacts
      <3>2. k >= high => k \in high .. low + Capacity
        BY <1>1, <3>1
      <3>. QED  BY <1>3, <3>1, <3>2 DEF Inv, SlotsOK
    <2>. QED  BY <2>1, <2>2
  <1>7. ASSUME NEW k \in high .. taken + 1 + Capacity
        PROVE  new[Pos(k)].live = 0
    <2>1. k \in taken + 1 .. taken + 1 + Capacity /\ k >= high
      BY <1>1, SizeFacts
    <2>. QED  BY <1>6, <2>1
  <1>. QED  BY <1>5, <1>6, <1>7

\* ReceiveTake preserves the invariant.
LEMMA ReceiveTakeInv ==
  ASSUME Inv, ReceiveTake
  PROVE  Inv'
  <1>. USE DEF ReceiveTake, ringVars, sendVars, recvVars, histVars
  <1>1. /\ rHead \in Index /\ rHead = Pos(taken) /\ slots \in [Index -> Slot]
        /\ Len(headLog) = taken + 1 /\ taken \in Nat /\ sent \in Nat /\ phase = "split"
        /\ low = taken /\ taken < sent
    BY CounterFacts, TakeFacts DEF Inv, TypeOK, IndicesOK, CallsOK, low
  <1>2. /\ slots' \in [Index -> Slot]
        /\ \A i \in Index \ {rHead} : slots'[i] = slots[i]
        /\ slots'[rHead].live = 0
        /\ slots'[rHead].took = taken + 1
        /\ rItem' = slots[rHead].item
    BY <1>1 DEF Slot
  <1>3. sent' = sent /\ taken' = taken /\ high' = high /\ low' = taken + 1
    BY DEF sent, taken, low, high
  <1>4. slots[rHead].item = accepted[taken + 1]
    <2>1. taken \in low .. high - 1 /\ taken # sent
      BY <1>1, CounterFacts DEF Inv
    <2>. QED  BY <1>1, <2>1 DEF Inv, SlotsOK
  <1>5. TypeOK'
    <2>1. slots[rHead].item \in Item \cup {NoItem}
      BY <1>1 DEF Slot
    <2>. QED  BY <1>2, <2>1 DEF Inv, TypeOK
  <1>6. SlotsOK'
    <2>1. UNCHANGED <<accepted, sItem>>
      OBVIOUS
    <2>2. /\ \A k \in taken + 1 .. high - 1 :
                /\ slots'[Pos(k)].live = 1
                /\ slots'[Pos(k)].put = k + 1
                /\ slots'[Pos(k)].item = IF k = sent THEN sItem ELSE accepted[k + 1]
          /\ \A k \in high .. taken + 1 + Capacity : slots'[Pos(k)].live = 0
          /\ \A k \in taken + 1 .. taken + 1 + Capacity :
                slots'[Pos(k)].took = 0 \/ slots'[Pos(k)].took + Size = k + 1
      <3>. HIDE DEF ReceiveTake
      <3>. QED  BY <1>1, <1>2, EmptyOldest
    <2>3. pcR' = "publish" => rItem' = accepted'[taken' + 1]
      BY <1>2, <1>3, <1>4, <2>1
    <2>. HIDE DEF ReceiveTake
    <2>. QED  BY <1>3, <2>1, <2>2, <2>3 DEF SlotsOK
  <1>7. IndicesOK'
    BY <1>3 DEF Inv, IndicesOK
  <1>8. CachesOK'
    BY <1>3 DEF Inv, CachesOK
  <1>9. InOrder' /\ CallsOK'
    BY <1>3 DEF Inv, InOrder, CallsOK
  <1>. QED  BY <1>5, <1>6, <1>7, <1>8, <1>9 DEF Inv

\* Storing the next position extends the log of head as IndicesOK says.
LEMMA ExtendHead ==
  ASSUME Inv, headLog' = Append(headLog, Following(Pos(taken)))
  PROVE  /\ headLog' \in Seq(Index)
         /\ Len(headLog') = taken + 2
         /\ taken' = taken + 1
         /\ \A n \in 1 .. Len(headLog') : headLog'[n] = Pos(n - 1)
         /\ Pos(taken + 1) = Following(Pos(taken))
  <1>1. taken \in Nat /\ Len(headLog) = taken + 1 /\ headLog \in Seq(Index)
    BY CounterFacts DEF Inv, TypeOK
  <1>2. Pos(taken + 1) = Following(Pos(taken)) /\ Pos(taken + 1) \in Index
    BY <1>1, PosNext, PosInIndex
  <1>3. /\ headLog' \in Seq(Index) /\ Len(headLog') = taken + 2
        /\ \A n \in 1 .. taken + 1 : headLog'[n] = headLog[n]
        /\ headLog'[taken + 2] = Pos(taken + 1)
    BY <1>1, <1>2, AppendFacts
  <1>4. taken' = taken + 1
    BY <1>1, <1>3 DEF taken
  <1>5. ASSUME NEW n \in 1 .. taken + 2 PROVE headLog'[n] = Pos(n - 1)
    <2>1. CASE n = taken + 2
      BY <1>1, <1>3, <2>1
    <2>2. CASE n # taken + 2
      <3>1. n \in 1 .. taken + 1
        BY <1>1, <2>2
      <3>. QED  BY <1>1, <1>3, <3>1 DEF Inv, IndicesOK
    <2>. QED  BY <2>1, <2>2
  <1>. QED  BY <1>2, <1>3, <1>4, <1>5

\* ReceivePublish preserves the invariant.
LEMMA ReceivePublishInv ==
  ASSUME Inv, ReceivePublish
  PROVE  Inv'
  <1>. USE DEF ReceivePublish, ringVars, sendVars, recvVars, histVars
  <1>1. /\ rHead \in Index /\ rHead = Pos(taken) /\ taken \in Nat /\ sent \in Nat
        /\ phase = "split" /\ ~receiver_gone /\ low = taken + 1 /\ taken < sent
        /\ dropped = <<>> /\ delivered \in Seq(Item)
    BY CounterFacts, TakeFacts DEF Inv, TypeOK, IndicesOK, CallsOK, low
  <1>2. rItem = accepted[taken + 1] /\ rItem \in Item
    <2>1. accepted \in Seq(Item) /\ Len(accepted) = sent
      BY DEF Inv, TypeOK, IndicesOK
    <2>2. taken + 1 \in 1 .. Len(accepted)
      BY <1>1, <2>1
    <2>3. accepted[taken + 1] \in Item
      BY <2>1, <2>2
    <2>. QED  BY <2>3 DEF Inv, SlotsOK
  <1>3. /\ headLog' \in Seq(Index) /\ Len(headLog') = taken + 2 /\ taken' = taken + 1
        /\ \A n \in 1 .. Len(headLog') : headLog'[n] = Pos(n - 1)
        /\ rHead' = Pos(taken + 1)
    BY <1>1, ExtendHead
  <1>4. sent' = sent /\ high' = high /\ low' = low
    BY <1>1, <1>3 DEF sent, high, low
  <1>5. /\ delivered' \in Seq(Item) /\ Len(delivered') = Len(delivered) + 1
        /\ Len(delivered) \in Nat
        /\ \A n \in 1 .. Len(delivered) : delivered'[n] = delivered[n]
        /\ delivered'[Len(delivered) + 1] = rItem
    BY <1>1, <1>2, AppendFacts
  <1>6. TypeOK'
    <2>1. rHead' \in Index
      BY <1>1, <1>3, PosInIndex
    <2>2. sKnown \in 1 .. Len(headLog') /\ Len(headLog') >= 1
      BY <1>1, <1>3, CounterFacts DEF Inv, TypeOK
    <2>. QED  BY <1>3, <1>5, <2>1, <2>2 DEF Inv, TypeOK
  <1>7. IndicesOK'
    <2>1. sent <= taken + Capacity
      BY DEF Inv, IndicesOK
    <2>2. taken' <= sent' /\ sent' <= taken' + Capacity
      BY <1>1, <1>3, <1>4, <2>1, CapacityAssumption
    <2>3. UNCHANGED <<tailLog, sTail, accepted>>
      OBVIOUS
    <2>. QED  BY <1>3, <1>4, <2>2, <2>3 DEF Inv, IndicesOK
  <1>8. CachesOK'
    <2>1. \E t \in 1 .. rKnown : tail_seen = Pos(t - 1) /\ taken + 1 <= t - 1
      BY TakeFacts
    <2>2. UNCHANGED <<pcS, sTail, head_seen, sKnown, rKnown, tail_seen>> /\ pcR' = "idle"
      OBVIOUS
    <2>. QED  BY <1>3, <1>4, <2>1, <2>2 DEF Inv, CachesOK
  <1>9. SlotsOK'
    <2>1. UNCHANGED <<slots, sItem, accepted>> /\ pcR' = "idle"
      OBVIOUS
    <2>. QED  BY <1>4, <2>1 DEF Inv, SlotsOK
  <1>10. InOrder'
    <2>1. /\ Len(delivered) = taken /\ Len(accepted) = sent
          /\ \A k \in 1 .. Len(delivered) : delivered[k] = accepted[k]
      BY <1>1, <1>5 DEF Inv, InOrder, IndicesOK
    <2>2. \A k \in 1 .. Len(delivered') : delivered'[k] = accepted[k]
      BY <1>1, <1>2, <1>5, <2>1
    <2>3. UNCHANGED <<accepted, dropped>>
      OBVIOUS
    <2>. QED  BY <1>1, <1>3, <1>5, <2>1, <2>2, <2>3 DEF InOrder
  <1>11. CallsOK'
    BY <1>1, <1>4 DEF Inv, CallsOK
  <1>. QED  BY <1>6, <1>7, <1>8, <1>9, <1>10, <1>11 DEF Inv

\* DropQueued preserves the invariant, whether or not the item's drop panics.
LEMMA DropQueuedInv ==
  ASSUME Inv, DropQueued
  PROVE  Inv'
  <1>. USE DEF DropQueued, ringVars, sendVars, recvVars, histVars
  <1>1. /\ pcS = "idle" /\ pcR = "idle" /\ sender_gone /\ receiver_gone
        /\ taken \in Nat /\ sent \in Nat /\ low = taken /\ high = sent
        /\ phase \in {"draining", "unwinding"}
        /\ phase' \in {"draining", "unwinding", "aborted"}
    BY CounterFacts DEF Inv, CallsOK, low, high
  <1>2. Last(headLog) = Pos(taken) /\ Last(tailLog) = Pos(sent) /\ Len(headLog) = taken + 1
    BY CounterFacts DEF Inv, IndicesOK, Last
  <1>3. taken < sent
    <2>1. taken <= sent /\ taken # sent
      BY <1>2 DEF Inv, IndicesOK
    <2>. QED  BY <1>1, <2>1
  <1>4. Pos(taken) \in Index /\ slots \in [Index -> Slot]
    BY <1>1, PosInIndex DEF Inv, TypeOK
  <1>5. /\ slots' \in [Index -> Slot]
        /\ \A i \in Index \ {Pos(taken)} : slots'[i] = slots[i]
        /\ slots'[Pos(taken)].live = 0
        /\ slots'[Pos(taken)].took = taken + 1
    BY <1>1, <1>2, <1>4 DEF Slot
  <1>6. /\ headLog' \in Seq(Index) /\ Len(headLog') = taken + 2 /\ taken' = taken + 1
        /\ \A n \in 1 .. Len(headLog') : headLog'[n] = Pos(n - 1)
    BY <1>2, ExtendHead
  <1>7. sent' = sent /\ high' = high /\ low' = taken + 1
    BY <1>1, <1>6 DEF sent, high, low
  <1>8. accepted \in Seq(Item) /\ Len(accepted) = sent /\ accepted[taken + 1] \in Item
    <2>1. accepted \in Seq(Item) /\ Len(accepted) = sent
      BY DEF Inv, TypeOK, IndicesOK
    <2>2. taken + 1 \in 1 .. Len(accepted)
      BY <1>1, <1>3, <2>1
    <2>. QED  BY <2>1, <2>2
  <1>9. slots[Pos(taken)].item = accepted[taken + 1]
    <2>1. taken \in low .. high - 1 /\ taken # sent
      BY <1>1, <1>3
    <2>. QED  BY <2>1 DEF Inv, SlotsOK
  <1>10. /\ dropped' \in Seq(Item) /\ Len(dropped') = Len(dropped) + 1
         /\ Len(dropped) \in Nat
         /\ \A n \in 1 .. Len(dropped) : dropped'[n] = dropped[n]
         /\ dropped'[Len(dropped) + 1] = accepted[taken + 1]
    <2>1. dropped \in Seq(Item) /\ dropped' = Append(dropped, accepted[taken + 1])
      BY <1>2, <1>9 DEF Inv, TypeOK
    <2>. QED  BY <1>8, <2>1, AppendFacts
  <1>11. TypeOK'
    <2>1. sKnown \in 1 .. Len(headLog') /\ Len(headLog') >= 1
      BY <1>1, <1>6, CounterFacts DEF Inv, TypeOK
    <2>2. UNCHANGED <<tailLog, sender_gone, receiver_gone, sendVars, recvVars,
                      accepted, delivered>>
      OBVIOUS
    <2>. QED  BY <1>1, <1>5, <1>6, <1>10, <2>1, <2>2 DEF Inv, TypeOK
  <1>12. IndicesOK'
    <2>1. sent <= taken + Capacity
      BY DEF Inv, IndicesOK
    <2>2. taken' <= sent' /\ sent' <= taken' + Capacity
      BY <1>1, <1>3, <1>6, <1>7, <2>1, CapacityAssumption
    <2>3. UNCHANGED <<tailLog, sTail, accepted>> /\ phase' \notin {"whole", "split"}
      BY <1>1
    <2>. QED  BY <1>6, <1>7, <2>2, <2>3 DEF Inv, IndicesOK
  <1>13. CachesOK'
    <2>1. UNCHANGED <<pcS, pcR, sTail, head_seen, sKnown>> /\ phase' \notin {"whole", "split"}
      BY <1>1
    <2>. QED  BY <1>1, <1>7, <2>1 DEF Inv, CachesOK
  <1>14. SlotsOK'
    <2>1. UNCHANGED <<accepted, sItem, pcR>>
      OBVIOUS
    <2>2. /\ \A k \in taken + 1 .. high - 1 :
                /\ slots'[Pos(k)].live = 1
                /\ slots'[Pos(k)].put = k + 1
                /\ slots'[Pos(k)].item = IF k = sent THEN sItem ELSE accepted[k + 1]
          /\ \A k \in high .. taken + 1 + Capacity : slots'[Pos(k)].live = 0
          /\ \A k \in taken + 1 .. taken + 1 + Capacity :
                slots'[Pos(k)].took = 0 \/ slots'[Pos(k)].took + Size = k + 1
      <3>. HIDE DEF DropQueued
      <3>. QED  BY <1>1, <1>3, <1>5, EmptyOldest
    <2>3. pcR' # "publish"
      BY <1>1, <2>1
    <2>. HIDE DEF DropQueued
    <2>. QED  BY <1>6, <1>7, <2>1, <2>2, <2>3 DEF SlotsOK
  <1>15. InOrder'
    <2>1. /\ Len(delivered) + Len(dropped) = taken
          /\ \A k \in 1 .. Len(delivered) : delivered[k] = accepted[k]
          /\ \A k \in 1 .. Len(dropped) : dropped[k] = accepted[Len(delivered) + k]
          /\ Len(delivered) \in Nat
      BY DEF Inv, InOrder, TypeOK
    <2>2. \A k \in 1 .. Len(dropped') : dropped'[k] = accepted[Len(delivered) + k]
      <3>1. SUFFICES ASSUME NEW k \in 1 .. Len(dropped) + 1
                     PROVE  dropped'[k] = accepted[Len(delivered) + k]
        BY <1>10
      <3>2. CASE k = Len(dropped) + 1
        <4>1. Len(delivered) + k = taken + 1
          BY <1>1, <1>10, <2>1, <3>2
        <4>. QED  BY <1>10, <3>2, <4>1
      <3>3. CASE k # Len(dropped) + 1
        <4>1. k \in 1 .. Len(dropped)
          BY <1>10, <3>3
        <4>. QED  BY <1>10, <2>1, <4>1
      <3>. QED  BY <3>2, <3>3
    <2>3. UNCHANGED <<accepted, delivered>>
      OBVIOUS
    <2>. QED  BY <1>1, <1>3, <1>6, <1>8, <1>10, <2>1, <2>2, <2>3 DEF InOrder
  <1>16. CallsOK'
    <2>1. rAnswer # "closed"
      BY <1>1, <1>3 DEF Inv, CallsOK
    <2>2. UNCHANGED <<pcS, pcR, sender_gone, receiver_gone, rSawGone, rKnown, tailLog, rAnswer>>
      OBVIOUS
    <2>3. rSawGone => rKnown = Len(tailLog)
      BY DEF Inv, CallsOK
    <2>. QED  BY <1>1, <2>1, <2>2, <2>3 DEF CallsOK
  <1>. QED  BY <1>11, <1>12, <1>13, <1>14, <1>15, <1>16 DEF Inv

\* Every step preserves the invariant, and so does a step that changes nothing.
LEMMA InvStep == Inv /\ [Next]_vars => Inv'
  <1>. SUFFICES ASSUME Inv, [Next]_vars PROVE Inv'
    OBVIOUS
  <1>1. CASE UNCHANGED vars
    <2>1. UNCHANGED <<sent, taken, low, high>>
      BY <1>1 DEF vars, ringVars, sendVars, recvVars, histVars, sent, taken, low, high
    <2>. USE DEF vars, ringVars, sendVars, recvVars, histVars
    <2>2. TypeOK'
      BY <1>1 DEF Inv, TypeOK
    <2>3. IndicesOK'
      BY <1>1, <2>1 DEF Inv, IndicesOK
    <2>4. CachesOK'
      BY <1>1, <2>1 DEF Inv, CachesOK
    <2>5. SlotsOK'
      BY <1>1, <2>1 DEF Inv, SlotsOK
    <2>6. InOrder' /\ CallsOK'
      BY <1>1, <2>1 DEF Inv, InOrder, CallsOK
    <2>. QED  BY <2>2, <2>3, <2>4, <2>5, <2>6 DEF Inv
  <1>2. CASE SendStep
    BY <1>2, SendLoadGoneInv, SendLoadHeadInv, SendReloadGoneInv, SendWriteInv,
       SendPublishInv DEF SendStep
  <1>3. CASE ReceiveStep
    BY <1>3, ReceiveLoadTailInv, ReceiveLoadGoneInv, ReceiveReloadTailInv, ReceiveTakeInv,
       ReceivePublishInv DEF ReceiveStep
  <1>4. CASE Split \/ SendBegin \/ SenderDrop \/ ReceiveBegin \/ ReceiverDrop
    BY <1>4, SplitInv, SendBeginInv, SenderDropInv, ReceiveBeginInv, ReceiverDropInv
  <1>5. CASE DrainBegin \/ DropQueued \/ DrainEnd
    BY <1>5, DrainBeginInv, DropQueuedInv, DrainEndInv
  <1>. QED  BY <1>1, <1>2, <1>3, <1>4, <1>5 DEF Next

\* Inv is an invariant of the ring: tail, head and their cached copies stay
\* within a lap of each other and the live slots are exactly the queued ones.
THEOREM RingInvariant == Spec => []Inv
  <1>1. Init => Inv
    BY InitInv
  <1>2. Inv /\ [Next]_vars => Inv'
    BY InvStep
  <1>. QED  BY <1>1, <1>2, PTL DEF Spec

\* Every variable of the ring keeps its type.
THEOREM RingTypes == Spec => []TypeOK
  <1>1. Inv => TypeOK
    BY DEF Inv
  <1>. QED  BY <1>1, RingInvariant, PTL

\* try_send and try_receive never race on a slot, for every capacity, however
\* stale their loads are.
THEOREM RingNoSlotRace == Spec => []NoSlotRace
  <1>1. Inv => NoSlotRace
    <2>. SUFFICES ASSUME Inv PROVE NoSlotRace
      OBVIOUS
    <2>0. sent \in Nat /\ taken \in Nat /\ sKnown \in Nat /\ rKnown \in Nat /\ sKnown >= 1
          /\ slots \in [Index -> Slot]
      BY CounterFacts DEF Inv, TypeOK
    <2>1. ASSUME pcS = "write"
          PROVE  slots[sTail].live = 0 /\ slots[sTail].took < sKnown
      <3>1. PICK h \in 1 .. sKnown : sent + 1 - (h - 1) <= Capacity /\ h - 1 <= taken
        BY <2>1, WriteFacts
      <3>2. high = sent /\ low \in Nat /\ taken <= low /\ taken <= sent
        BY <2>0, <2>1, CounterFacts DEF Inv, high, IndicesOK
      <3>3. low <= sent
        <4>1. pcR = "publish" => taken < sent
          BY TakeFacts
        <4>. QED  BY <2>0, <3>2, <4>1 DEF low
      <3>4. sent \in high .. low + Capacity /\ sent \in low .. low + Capacity
        BY <2>0, <3>1, <3>2, <3>3, CapacityAssumption
      <3>5. slots[sTail].live = 0
            /\ (slots[sTail].took = 0 \/ slots[sTail].took + Size = sent + 1)
        BY <3>4 DEF Inv, SlotsOK, IndicesOK
      <3>6. slots[sTail].took \in Nat
        BY <2>0 DEF Inv, TypeOK, Slot
      <3>. QED  BY <2>0, <3>1, <3>5, <3>6, SizeFacts
    <2>2. ASSUME pcR = "take"
          PROVE  slots[rHead].live = 1 /\ slots[rHead].put < rKnown
      <3>1. taken + 2 <= rKnown /\ taken < sent
        BY <2>2, TakeFacts
      <3>2. low = taken /\ rHead = Pos(taken)
        BY <2>2 DEF Inv, low, IndicesOK, CallsOK
      <3>3. taken \in low .. high - 1
        BY <2>0, <3>1, <3>2, CounterFacts DEF Inv
      <3>4. slots[rHead].live = 1 /\ slots[rHead].put = taken + 1
        BY <3>2, <3>3 DEF Inv, SlotsOK
      <3>. QED  BY <2>0, <3>1, <3>4
    <2>. QED  BY <2>1, <2>2 DEF NoSlotRace
  <1>. QED  BY <1>1, RingInvariant, PTL

\* Nothing sent through the ring is lost, duplicated or reordered.
THEOREM RingInOrder == Spec => []InOrder
  <1>1. Inv => InOrder
    BY DEF Inv
  <1>. QED  BY <1>1, RingInvariant, PTL

\* The ring's own drop leaves nothing live and drops exactly what was left.
THEOREM RingNothingLeftLive == Spec => []NothingLeftLive
  <1>1. Inv => NothingLeftLive
    <2>. SUFFICES ASSUME Inv, phase \in {"dropped", "unwound"}
                  PROVE  /\ Len(delivered) + Len(dropped) = Len(accepted)
                         /\ \A i \in Index : slots[i].live = 0
      BY DEF NothingLeftLive
    <2>1. taken = sent /\ pcS = "idle" /\ pcR = "idle"
      BY DEF Inv, CallsOK
    <2>2. Len(delivered) + Len(dropped) = Len(accepted)
      BY <2>1 DEF Inv, InOrder, IndicesOK
    <2>3. low = taken /\ high = taken /\ taken \in Nat
      BY <2>1, CounterFacts DEF Inv, low, high
    <2>4. ASSUME NEW i \in Index PROVE slots[i].live = 0
      <3>1. PICK k \in taken .. taken + Capacity : Pos(k) = i
        BY <2>3, PosOnto
      <3>. QED  BY <2>3, <3>1 DEF Inv, SlotsOK
    <2>. QED  BY <2>2, <2>4
  <1>. QED  BY <1>1, RingInvariant, PTL

\* .closed from try_receive means the sender is gone and nothing is left.
THEOREM RingClosedMeansDrained == Spec => []ClosedMeansDrained
  <1>1. Inv => ClosedMeansDrained
    <2>. SUFFICES ASSUME Inv, rAnswer = "closed"
                  PROVE  sender_gone /\ Len(delivered) = Len(accepted)
      BY DEF ClosedMeansDrained
    <2>1. sender_gone /\ taken = sent /\ Len(dropped) = 0
      BY DEF Inv, CallsOK
    <2>2. Len(delivered) \in Nat
      BY DEF Inv, TypeOK
    <2>. QED  BY <2>1, <2>2 DEF Inv, InOrder, IndicesOK
  <1>. QED  BY <1>1, RingInvariant, PTL

\* .full is answered only by a ring that holds Capacity items for all the
\* sender can know.
THEOREM RingFullMeansFull == Spec => []FullMeansFull
  <1>1. Inv => FullMeansFull
    <2>. SUFFICES ASSUME Inv, pcS = "regone"
                  PROVE  sent - (sKnown - 1) = Capacity
      BY DEF FullMeansFull
    <2>1. head_seen = Pos(sKnown - 1) /\ sent - (sKnown - 1) <= Capacity
          /\ Following(sTail) = head_seen /\ sTail = Pos(sent)
      BY DEF Inv, CachesOK, IndicesOK
    <2>2. sent \in Nat /\ taken \in Nat /\ sKnown - 1 \in Nat /\ sKnown - 1 <= taken
          /\ taken <= sent
      BY CounterFacts DEF Inv, TypeOK, IndicesOK
    <2>3. Pos(sKnown - 1) = Pos(sent + 1)
      BY <2>1, <2>2, PosNext
    <2>4. ~(sent + 1 < (sKnown - 1) + Size)
      BY <2>2, <2>3, PosInjective
    <2>. QED  BY <2>1, <2>2, <2>4, SizeFacts
  <1>. QED  BY <1>1, RingInvariant, PTL

-----------------------------------------------------------------------------
(* With sequentially consistent memory the ring is the bounded queue.      *)

\* An end of a sequence grows at its own end when the sequence does.
LEMMA EndGrows ==
  ASSUME NEW q \in Seq(Item), NEW v \in Item, NEW m \in 1 .. Len(q) + 1
  PROVE  SubSeq(Append(q, v), m, Len(q) + 1) = Append(SubSeq(q, m, Len(q)), v)
  <1>1. PICK w : w = Append(q, v)
    OBVIOUS
  <1>2. PICK n \in Nat : n = Len(q)
    OBVIOUS
  <1>3. w \in Seq(Item) /\ Len(w) = n + 1 /\ w[n + 1] = v /\ \A i \in 1 .. n : w[i] = q[i]
    BY <1>1, <1>2, AppendFacts
  <1>4. PICK a : a = SubSeq(w, m, n + 1)
    OBVIOUS
  <1>5. PICK b : b = SubSeq(q, m, n)
    OBVIOUS
  <1>6. m \in Int /\ n \in Int /\ n + 1 \in Int /\ 1 <= m /\ m <= n + 1
    BY <1>2
  <1>7. a \in Seq(Item) /\ Len(a) = n + 1 - m + 1 /\ \A i \in 1 .. n + 1 - m + 1 : a[i] = w[m + i - 1]
    <2>1. \A i \in m .. n + 1 : w[i] \in Item
      BY <1>3, <1>6
    <2>2. /\ SubSeq(w, m, n + 1) \in Seq(Item)
          /\ Len(SubSeq(w, m, n + 1)) = IF m <= n + 1 THEN n + 1 - m + 1 ELSE 0
          /\ \A i \in 1 .. n + 1 - m + 1 : SubSeq(w, m, n + 1)[i] = w[m + i - 1]
      BY <1>6, <2>1, SubSeqProperties
    <2>. QED  BY <1>4, <1>6, <2>2
  <1>8. b \in Seq(Item) /\ Len(b) = n - m + 1 /\ \A i \in 1 .. n - m + 1 : b[i] = q[m + i - 1]
    <2>1. \A i \in m .. n : q[i] \in Item
      BY <1>2, <1>6
    <2>2. /\ SubSeq(q, m, n) \in Seq(Item)
          /\ Len(SubSeq(q, m, n)) = IF m <= n THEN n - m + 1 ELSE 0
          /\ \A i \in 1 .. n - m + 1 : SubSeq(q, m, n)[i] = q[m + i - 1]
      BY <1>6, <2>1, SubSeqProperties
    <2>. QED  BY <1>5, <1>6, <2>2
  <1>9. PICK k \in Nat : k = n - m + 1
    BY <1>6
  <1>10. PICK c : c = Append(b, v)
    OBVIOUS
  <1>11. c \in Seq(Item) /\ Len(c) = k + 1 /\ c[k + 1] = v /\ \A i \in 1 .. k : c[i] = b[i]
    <2>1. b \in Seq(Item) /\ Len(b) = k
      BY <1>8, <1>9
    <2>2. /\ Append(b, v) \in Seq(Item) /\ Len(Append(b, v)) = Len(b) + 1
          /\ \A i \in 1 .. Len(b) : Append(b, v)[i] = b[i]
          /\ Append(b, v)[Len(b) + 1] = v
      BY <2>1, AppendFacts
    <2>. QED  BY <1>10, <2>1, <2>2
  <1>12. Len(a) = k + 1
    BY <1>6, <1>7, <1>9
  <1>13. ASSUME NEW i \in 1 .. k + 1 PROVE a[i] = c[i]
    <2>1. i \in 1 .. n + 1 - m + 1 /\ a[i] = w[m + i - 1]
      BY <1>6, <1>7, <1>9
    <2>2. CASE i = k + 1
      <3>1. m + i - 1 = n + 1
        BY <1>6, <1>9, <2>2
      <3>. QED  BY <1>3, <1>11, <2>1, <2>2, <3>1
    <2>3. CASE i # k + 1
      <3>1. i \in 1 .. k /\ i \in 1 .. n - m + 1 /\ m + i - 1 \in 1 .. n
        BY <1>6, <1>9, <2>3
      <3>. QED  BY <1>3, <1>8, <1>11, <2>1, <3>1
    <2>. QED  BY <2>2, <2>3
  <1>14. a = c
    <2>1. a \in Seq(Item) /\ c \in Seq(Item) /\ Len(a) = Len(c)
      BY <1>7, <1>11, <1>12
    <2>2. \A i \in 1 .. Len(a) : a[i] = c[i]
      BY <1>12, <1>13
    <2>. QED  BY <2>1, <2>2
  <1>. QED  BY <1>1, <1>2, <1>4, <1>5, <1>10, <1>14

\* The items between head and tail.
Queued == SubSeq(accepted, Len(headLog), Len(accepted))

\* As many items are queued as were sent and not yet taken.
LEMMA QueuedFacts ==
  ASSUME Inv
  PROVE  /\ Queued \in Seq(Item) /\ Len(Queued) = sent - taken
         /\ taken < sent => /\ Head(Queued) = accepted[taken + 1]
                            /\ Tail(Queued) = SubSeq(accepted, Len(headLog) + 1, Len(accepted))
  <1>1. /\ accepted \in Seq(Item) /\ Len(accepted) = sent /\ sent \in Nat /\ taken \in Nat
        /\ taken <= sent /\ Len(headLog) = taken + 1
    BY CounterFacts DEF Inv, TypeOK, IndicesOK
  <1>2. Queued = SubSeq(accepted, taken + 1, sent)
    BY <1>1 DEF Queued
  <1>3. taken + 1 \in Int /\ sent \in Int /\ \A i \in taken + 1 .. sent : accepted[i] \in Item
    BY <1>1
  <1>4. /\ SubSeq(accepted, taken + 1, sent) \in Seq(Item)
        /\ Len(SubSeq(accepted, taken + 1, sent)) = IF taken + 1 <= sent THEN sent - (taken + 1) + 1 ELSE 0
    BY <1>3, SubSeqProperties
  <1>5. Queued \in Seq(Item) /\ Len(Queued) = sent - taken
    BY <1>1, <1>2, <1>4
  <1>6. ASSUME taken < sent
        PROVE  /\ Head(Queued) = accepted[taken + 1]
               /\ Tail(Queued) = SubSeq(accepted, Len(headLog) + 1, Len(accepted))
    <2>1. taken + 1 \in 1 .. Len(accepted) /\ Len(accepted) \in taken + 1 .. Len(accepted)
      BY <1>1, <1>6
    <2>2. /\ Head(SubSeq(accepted, taken + 1, Len(accepted))) = accepted[taken + 1]
          /\ Tail(SubSeq(accepted, taken + 1, Len(accepted))) = SubSeq(accepted, (taken + 1) + 1, Len(accepted))
      BY <1>1, <2>1, HeadTailOfSubSeq
    <2>. QED  BY <1>1, <1>2, <2>2
  <1>. QED  BY <1>5, <1>6

-----------------------------------------------------------------------------
\* A call of try_send is late only if the receiver has dropped.
LateOK == sLate => receiver_gone

\* What a step with fresh loads is: a step of the ring whose load, if it makes one, returns
\* the newest value.
FreshStep ==
    \/ Split \/ SendBegin \/ SendWrite \/ SendPublish \/ SenderDrop
    \/ SendLoadGone /\ sSawGone' = receiver_gone
    \/ SendLoadHead /\ sKnown' = Len(headLog)
    \/ SendReloadGone /\ sSawGone' = receiver_gone
    \/ ReceiveBegin \/ ReceiveTake \/ ReceivePublish \/ ReceiverDrop
    \/ ReceiveLoadTail /\ rKnown' = Len(tailLog)
    \/ ReceiveLoadGone /\ rSawGone' = sender_gone
    \/ ReceiveReloadTail /\ rKnown' = Len(tailLog)
    \/ DrainBegin \/ DropQueued \/ DrainEnd

\* Fresh loads of the sender are loads the ring allows.
LEMMA FreshSends ==
  ASSUME TypeOK
  PROVE  /\ Fresh!SendLoadGone => SendLoadGone /\ sSawGone' = receiver_gone
         /\ Fresh!SendLoadHead => SendLoadHead /\ sKnown' = Len(headLog)
         /\ Fresh!SendReloadGone => SendReloadGone /\ sSawGone' = receiver_gone
  <1>. USE DEF ringVars, recvVars, histVars, Fresh!ringVars, Fresh!recvVars, Fresh!histVars,
               SendRefuse, Fresh!SendRefuse, SenderReadsGone, Fresh!SenderReadsGone,
               Following, Fresh!Following, Size, Fresh!Size
  <1>0. receiver_gone \in FlagLoads(receiver_gone, sSawGone) /\ Len(headLog) \in Loadable(headLog, sKnown)
    BY DEF TypeOK, FlagLoads, Loadable
  <1>1. ASSUME Fresh!SendLoadGone PROVE SendLoadGone /\ sSawGone' = receiver_gone
    BY <1>0, <1>1 DEF Fresh!SendLoadGone, Fresh!FlagLoads, SendLoadGone
  <1>2. ASSUME Fresh!SendLoadHead PROVE SendLoadHead /\ sKnown' = Len(headLog)
    BY <1>0, <1>2 DEF Fresh!SendLoadHead, Fresh!Loadable, SendLoadHead
  <1>3. ASSUME Fresh!SendReloadGone PROVE SendReloadGone /\ sSawGone' = receiver_gone
    BY <1>0, <1>3 DEF Fresh!SendReloadGone, Fresh!FlagLoads, SendReloadGone
  <1>. QED  BY <1>1, <1>2, <1>3

\* Fresh loads of the receiver are loads the ring allows.
LEMMA FreshReceives ==
  ASSUME TypeOK
  PROVE  /\ Fresh!ReceiveLoadTail => ReceiveLoadTail /\ rKnown' = Len(tailLog)
         /\ Fresh!ReceiveLoadGone => ReceiveLoadGone /\ rSawGone' = sender_gone
         /\ Fresh!ReceiveReloadTail => ReceiveReloadTail /\ rKnown' = Len(tailLog)
  <1>. USE DEF ringVars, sendVars, histVars, Fresh!ringVars, Fresh!sendVars, Fresh!histVars
  <1>0. sender_gone \in FlagLoads(sender_gone, rSawGone) /\ Len(tailLog) \in Loadable(tailLog, rKnown)
    BY DEF TypeOK, FlagLoads, Loadable
  <1>1. ASSUME Fresh!ReceiveLoadTail PROVE ReceiveLoadTail /\ rKnown' = Len(tailLog)
    BY <1>0, <1>1 DEF Fresh!ReceiveLoadTail, Fresh!Loadable, ReceiveLoadTail
  <1>2. ASSUME Fresh!ReceiveLoadGone PROVE ReceiveLoadGone /\ rSawGone' = sender_gone
    BY <1>0, <1>2 DEF Fresh!ReceiveLoadGone, Fresh!FlagLoads, ReceiveLoadGone
  <1>3. ASSUME Fresh!ReceiveReloadTail PROVE ReceiveReloadTail /\ rKnown' = Len(tailLog)
    BY <1>0, <1>3 DEF Fresh!ReceiveReloadTail, Fresh!Loadable, ReceiveReloadTail
  <1>. QED  BY <1>1, <1>2, <1>3

\* The steps without a load do not depend on how loads behave.
LEMMA FreshOthers ==
  /\ Fresh!Split => Split
  /\ Fresh!SendBegin => SendBegin
  /\ Fresh!SendWrite => SendWrite
  /\ Fresh!SendPublish => SendPublish
  /\ Fresh!SenderDrop => SenderDrop
  /\ Fresh!ReceiveBegin => ReceiveBegin
  /\ Fresh!ReceiveTake => ReceiveTake
  /\ Fresh!ReceivePublish => ReceivePublish
  /\ Fresh!ReceiverDrop => ReceiverDrop
  /\ Fresh!DrainBegin => DrainBegin
  /\ Fresh!DropQueued => DropQueued
  /\ Fresh!DrainEnd => DrainEnd
  <1>. USE DEF ringVars, sendVars, recvVars, histVars, Fresh!ringVars, Fresh!sendVars,
               Fresh!recvVars, Fresh!histVars, Following, Fresh!Following, Size, Fresh!Size,
               Last, Fresh!Last, SendRefuse, Fresh!SendRefuse
  <1>1. Fresh!Split => Split
    BY DEF Fresh!Split, Split
  <1>2. Fresh!SendBegin => SendBegin
    BY DEF Fresh!SendBegin, SendBegin
  <1>3. Fresh!SendWrite => SendWrite
    BY DEF Fresh!SendWrite, SendWrite
  <1>4. Fresh!SendPublish => SendPublish
    BY DEF Fresh!SendPublish, SendPublish
  <1>5. Fresh!SenderDrop => SenderDrop
    BY DEF Fresh!SenderDrop, SenderDrop
  <1>6. Fresh!ReceiveBegin => ReceiveBegin
    BY DEF Fresh!ReceiveBegin, ReceiveBegin
  <1>7. Fresh!ReceiveTake => ReceiveTake
    BY DEF Fresh!ReceiveTake, ReceiveTake
  <1>8. Fresh!ReceivePublish => ReceivePublish
    BY DEF Fresh!ReceivePublish, ReceivePublish
  <1>9. Fresh!ReceiverDrop => ReceiverDrop
    BY DEF Fresh!ReceiverDrop, ReceiverDrop
  <1>10. Fresh!DrainBegin => DrainBegin
    BY DEF Fresh!DrainBegin, DrainBegin
  <1>11. Fresh!DropQueued => DropQueued
    BY DEF Fresh!DropQueued, DropQueued
  <1>12. Fresh!DrainEnd => DrainEnd
    BY DEF Fresh!DrainEnd, DrainEnd
  <1>. QED  BY <1>1, <1>2, <1>3, <1>4, <1>5, <1>6, <1>7, <1>8, <1>9, <1>10, <1>11, <1>12

\* Every step with fresh loads is one of the ring's steps with the newest value loaded.
LEMMA FreshNext ==
  ASSUME TypeOK, Fresh!Next
  PROVE  FreshStep
  BY FreshSends, FreshReceives, FreshOthers DEF Fresh!Next, Fresh!SendStep, Fresh!ReceiveStep, FreshStep

\* So it is a step of the ring.
LEMMA FreshIsNext ==
  ASSUME FreshStep
  PROVE  Next
  BY DEF FreshStep, Next, SendStep, ReceiveStep

-----------------------------------------------------------------------------
\* The ring starts as an empty queue.
LEMMA QueueStarts == Init => Queue!Init
  <1>. SUFFICES ASSUME Init PROVE Queue!Init
    OBVIOUS
  <1>1. Len(headLog) = 1 /\ Len(accepted) = 0
    BY DEF Init
  <1>2. SubSeq(accepted, Len(headLog), Len(accepted)) = <<>>
    BY <1>1, SubSeqEmpty
  <1>. QED  BY <1>2 DEF Init, Queue!Init

\* The steps of the sender: each one that the receiver could tell is a step of the queue.
LEMMA SenderSteps ==
  ASSUME Inv, LateOK
  PROVE  /\ SendBegin => Queue!SendCall
         /\ SendLoadGone /\ sSawGone' = receiver_gone => Queue!SendRefuseClosed \/ UNCHANGED Queue!vars
         /\ SendLoadHead /\ sKnown' = Len(headLog) => Queue!SendSeesFull \/ UNCHANGED Queue!vars
         /\ SendReloadGone /\ sSawGone' = receiver_gone => Queue!SendRefuseFull \/ Queue!SendRefuseClosed
         /\ SendWrite => UNCHANGED Queue!vars
         /\ SendPublish => Queue!SendAccept
         /\ SenderDrop => Queue!SenderDrop
  <1>. USE DEF ringVars, recvVars, sendVars, histVars, Queue!vars, Queue!ends, Queue!sVars, Queue!rVars
  <1>1. ASSUME SendBegin PROVE Queue!SendCall
    BY <1>1 DEF SendBegin, Queue!SendCall
  <1>2. ASSUME SendLoadGone, sSawGone' = receiver_gone
        PROVE  Queue!SendRefuseClosed \/ UNCHANGED Queue!vars
    <2>1. PICK gone \in FlagLoads(receiver_gone, sSawGone) :
            /\ SenderReadsGone(gone)
            /\ IF gone
               THEN SendRefuse("closed")
               ELSE /\ pcS' = IF Following(sTail) = head_seen THEN "head" ELSE "write"
                    /\ UNCHANGED <<sItem, sAnswer>>
      BY <1>2 DEF SendLoadGone
    <2>2. gone = receiver_gone
      BY <1>2, <2>1 DEF SenderReadsGone
    <2>3. CASE receiver_gone
      <3>1. Queue!SendRefuseClosed
        BY <1>2, <2>1, <2>2, <2>3 DEF SendLoadGone, SendRefuse, Queue!SendRefuseClosed, Queue!SendReturn
      <3>. QED  BY <3>1
    <2>4. CASE ~receiver_gone
      <3>1. ~sLate
        BY <2>4 DEF LateOK
      <3>. QED  BY <1>2, <2>1, <2>2, <2>4, <3>1 DEF SendLoadGone
    <2>. QED  BY <2>3, <2>4
  <1>3. ASSUME SendLoadHead, sKnown' = Len(headLog)
        PROVE  Queue!SendSeesFull \/ UNCHANGED Queue!vars
    <2>1. PICK n \in Loadable(headLog, sKnown) :
            /\ head_seen' = headLog[n]
            /\ sKnown' = n
            /\ pcS' = IF Following(sTail) = headLog[n] THEN "regone" ELSE "write"
      BY <1>3 DEF SendLoadHead
    <2>2. n = Len(headLog)
      BY <1>3, <2>1
    <2>3. CASE pcS' = "write"
      BY <1>3, <2>3 DEF SendLoadHead
    <2>4. CASE Following(sTail) = headLog[n]
      <3>1. sent \in Nat /\ taken \in Nat /\ taken <= sent /\ sent <= taken + Capacity
            /\ Len(headLog) = taken + 1
        BY CounterFacts DEF Inv, IndicesOK
      <3>2. pcS' = "regone"
        BY <2>1, <2>4
      <3>3. sent - taken = Capacity
        <4>1. headLog[n] = Pos(taken) /\ sTail = Pos(sent)
          BY <2>2, <3>1 DEF Inv, IndicesOK
        <4>2. Pos(taken) = Pos(sent + 1)
          BY <2>4, <3>1, <4>1, PosNext
        <4>3. ~(sent + 1 < taken + Size)
          BY <3>1, <4>2, PosInjective
        <4>. QED  BY <3>1, <4>3, SizeFacts
      <3>4. Len(Queued) = Capacity
        BY <3>3, QueuedFacts
      <3>5. Queue!SendSeesFull
        BY <1>3, <3>2, <3>4 DEF SendLoadHead, Queued, Queue!SendSeesFull
      <3>. QED  BY <3>5
    <2>. QED  BY <2>1, <2>3, <2>4
  <1>4. ASSUME SendReloadGone, sSawGone' = receiver_gone
        PROVE  Queue!SendRefuseFull \/ Queue!SendRefuseClosed
    BY <1>4 DEF SendReloadGone, SenderReadsGone, SendRefuse, Queue!SendRefuseFull, Queue!SendRefuseClosed, Queue!SendReturn
  <1>5. ASSUME SendWrite PROVE UNCHANGED Queue!vars
    BY <1>5 DEF SendWrite
  <1>6. ASSUME SendPublish PROVE Queue!SendAccept
    <2>1. sent - taken < Capacity /\ sItem \in Item /\ pcS = "publish"
      <3>1. pcS = "publish" /\ sItem \in Item
        BY <1>6 DEF SendPublish, Inv, CallsOK
      <3>2. PICK h \in 1 .. sKnown : sent + 1 - (h - 1) <= Capacity /\ h - 1 <= taken
        BY <3>1, WriteFacts
      <3>3. sent \in Nat /\ taken \in Nat /\ h \in Nat /\ Capacity \in Nat
        BY CounterFacts, CapacityAssumption DEF Inv, TypeOK
      <3>. QED  BY <3>1, <3>2, <3>3
    <2>2. Len(Queued) < Capacity
      BY <2>1, QueuedFacts
    <2>3. accepted \in Seq(Item) /\ Len(headLog) \in 1 .. Len(accepted) + 1
      BY CounterFacts DEF Inv, TypeOK, IndicesOK
    <2>4. SubSeq(Append(accepted, sItem), Len(headLog), Len(accepted) + 1) = Append(Queued, sItem)
      BY <2>1, <2>3, EndGrows DEF Queued
    <2>5. Len(Append(accepted, sItem)) = Len(accepted) + 1
      BY <2>1, <2>3, AppendFacts
    <2>6. SubSeq(accepted', Len(headLog'), Len(accepted')) = Append(Queued, sItem)
      BY <1>6, <2>4, <2>5 DEF SendPublish
    <2>. QED  BY <1>6, <2>1, <2>2, <2>6 DEF SendPublish, SendRefuse, Queued, Queue!SendAccept, Queue!SendReturn
  <1>7. ASSUME SenderDrop PROVE Queue!SenderDrop
    BY <1>7 DEF SenderDrop, Queue!SenderDrop
  <1>. QED  BY <1>1, <1>2, <1>3, <1>4, <1>5, <1>6, <1>7

\* The steps of the receiver.
LEMMA ReceiverSteps ==
  ASSUME Inv
  PROVE  /\ ReceiveBegin => Queue!ReceiveCall
         /\ ReceiveLoadTail /\ rKnown' = Len(tailLog) => Queue!ReceiveSeesEmpty \/ UNCHANGED Queue!vars
         /\ ReceiveLoadGone /\ rSawGone' = sender_gone => Queue!ReceiveLooksAgain \/ Queue!ReceiveEmpty
         /\ ReceiveReloadTail /\ rKnown' = Len(tailLog) => Queue!ReceiveClosed \/ UNCHANGED Queue!vars
         /\ ReceiveTake => UNCHANGED Queue!vars
         /\ ReceivePublish => Queue!ReceiveItem
         /\ ReceiverDrop => Queue!ReceiverDrop
  <1>. USE DEF ringVars, recvVars, sendVars, histVars, Queue!vars, Queue!ends, Queue!sVars, Queue!rVars
  <1>1. ASSUME ReceiveBegin PROVE Queue!ReceiveCall
    BY <1>1 DEF ReceiveBegin, Queue!ReceiveCall
  <1>0. ASSUME pcR # "idle", rHead = tailLog[Len(tailLog)]
        PROVE  SubSeq(accepted, Len(headLog), Len(accepted)) = <<>>
    <2>1. rHead = Pos(taken) /\ tailLog[Len(tailLog)] = Pos(sent)
      <3>1. phase = "split" /\ Len(tailLog) \in 1 .. Len(tailLog) /\ Len(tailLog) - 1 = sent
        <4>1. phase = "split"
          BY <1>0 DEF Inv, CallsOK
        <4>2. Len(tailLog) = sent + 1 /\ sent \in Nat
          BY CounterFacts DEF Inv
        <4>. QED  BY <4>1, <4>2
      <3>. QED  BY <3>1 DEF Inv, IndicesOK
    <2>2. taken = sent
      BY <1>0, <2>1, CaughtUp
    <2>3. Queued \in Seq(Item) /\ Len(Queued) = 0
      BY <2>2, QueuedFacts, CounterFacts DEF Inv
    <2>. QED  BY <2>3 DEF Queued
  <1>2. ASSUME ReceiveLoadTail, rKnown' = Len(tailLog)
        PROVE  Queue!ReceiveSeesEmpty \/ UNCHANGED Queue!vars
    <2>1. CASE rHead = tailLog[Len(tailLog)]
      <3>1. pcR = "tail" /\ pcR' = "gone"
        BY <1>2, <2>1 DEF ReceiveLoadTail
      <3>2. SubSeq(accepted, Len(headLog), Len(accepted)) = <<>>
        BY <1>0, <2>1, <3>1
      <3>3. Queue!ReceiveSeesEmpty
        BY <1>2, <3>1, <3>2 DEF ReceiveLoadTail, Queue!ReceiveSeesEmpty
      <3>. QED  BY <3>3
    <2>2. CASE rHead # tailLog[Len(tailLog)]
      BY <1>2, <2>2 DEF ReceiveLoadTail
    <2>. QED  BY <2>1, <2>2
  <1>3. ASSUME ReceiveLoadGone, rSawGone' = sender_gone
        PROVE  Queue!ReceiveLooksAgain \/ Queue!ReceiveEmpty
    BY <1>3 DEF ReceiveLoadGone, Queue!ReceiveLooksAgain, Queue!ReceiveEmpty, Queue!ReceiveReturn
  <1>4. ASSUME ReceiveReloadTail, rKnown' = Len(tailLog)
        PROVE  Queue!ReceiveClosed \/ UNCHANGED Queue!vars
    <2>1. CASE rHead = tailLog[Len(tailLog)]
      <3>1. pcR = "retail" /\ pcR' = "idle" /\ rAnswer' = "closed"
        BY <1>4, <2>1 DEF ReceiveReloadTail
      <3>2. SubSeq(accepted, Len(headLog), Len(accepted)) = <<>>
        BY <1>0, <2>1, <3>1
      <3>3. sender_gone
        BY <3>1 DEF Inv, CallsOK
      <3>4. Queue!ReceiveClosed
        BY <1>4, <3>1, <3>2, <3>3 DEF ReceiveReloadTail, Queue!ReceiveClosed, Queue!ReceiveReturn
      <3>. QED  BY <3>4
    <2>2. CASE rHead # tailLog[Len(tailLog)]
      BY <1>4, <2>2 DEF ReceiveReloadTail
    <2>. QED  BY <2>1, <2>2
  <1>5. ASSUME ReceiveTake PROVE UNCHANGED Queue!vars
    BY <1>5 DEF ReceiveTake
  <1>6. ASSUME ReceivePublish PROVE Queue!ReceiveItem
    <2>1. pcR = "publish" /\ taken < sent /\ rItem = accepted[taken + 1]
      BY <1>6, TakeFacts DEF ReceivePublish, Inv, SlotsOK
    <2>2. Head(Queued) = rItem /\ Tail(Queued) = SubSeq(accepted, Len(headLog) + 1, Len(accepted))
      BY <2>1, QueuedFacts
    <2>3. Queued # <<>>
      <3>1. Len(Queued) = sent - taken /\ sent \in Nat /\ taken \in Nat
        BY QueuedFacts, CounterFacts DEF Inv
      <3>. QED  BY <2>1, <3>1
    <2>4. Len(headLog') = Len(headLog) + 1
      BY <1>6, CounterFacts DEF ReceivePublish, Inv, TypeOK
    <2>5. SubSeq(accepted', Len(headLog'), Len(accepted')) = Tail(Queued)
      BY <1>6, <2>2, <2>4 DEF ReceivePublish
    <2>. QED  BY <1>6, <2>1, <2>2, <2>3, <2>5 DEF ReceivePublish, Queued, Queue!ReceiveItem, Queue!ReceiveReturn
  <1>7. ASSUME ReceiverDrop PROVE Queue!ReceiverDrop
    BY <1>7 DEF ReceiverDrop, Queue!ReceiverDrop
  <1>. QED  BY <1>1, <1>2, <1>3, <1>4, <1>5, <1>6, <1>7

\* The steps of the ring itself.
LEMMA OwnSteps ==
  ASSUME Inv
  PROVE  /\ Split => UNCHANGED Queue!vars
         /\ DrainBegin => UNCHANGED Queue!vars
         /\ DrainEnd => UNCHANGED Queue!vars
         /\ DropQueued => Queue!Discard
  <1>. USE DEF ringVars, recvVars, sendVars, histVars, Queue!vars, Queue!ends, Queue!sVars, Queue!rVars
  <1>1. ASSUME Split PROVE UNCHANGED Queue!vars
    BY <1>1 DEF Split
  <1>2. ASSUME DrainBegin PROVE UNCHANGED Queue!vars
    BY <1>2 DEF DrainBegin
  <1>3. ASSUME DrainEnd PROVE UNCHANGED Queue!vars
    BY <1>3 DEF DrainEnd
  <1>4. ASSUME DropQueued PROVE Queue!Discard
    <2>1. taken < sent
      <3>1. Len(headLog) \in 1 .. Len(headLog) /\ Len(tailLog) \in 1 .. Len(tailLog)
            /\ taken = Len(headLog) - 1 /\ sent = Len(tailLog) - 1
        BY DEF Inv, TypeOK, taken, sent
      <3>2. Last(headLog) = Pos(taken) /\ Last(tailLog) = Pos(sent)
        BY <3>1 DEF Inv, IndicesOK, Last
      <3>3. taken # sent
        BY <1>4, <3>2 DEF DropQueued
      <3>. QED  BY <3>3, CounterFacts DEF Inv, IndicesOK
    <2>2. Tail(Queued) = SubSeq(accepted, Len(headLog) + 1, Len(accepted))
      BY <2>1, QueuedFacts
    <2>3. Queued # <<>>
      <3>1. Len(Queued) = sent - taken /\ sent \in Nat /\ taken \in Nat
        BY QueuedFacts, CounterFacts DEF Inv
      <3>. QED  BY <2>1, <3>1
    <2>4. Len(headLog') = Len(headLog) + 1
      BY <1>4 DEF DropQueued, Inv, TypeOK
    <2>5. SubSeq(accepted', Len(headLog'), Len(accepted')) = Tail(Queued)
      BY <1>4, <2>2, <2>4 DEF DropQueued
    <2>6. sender_gone /\ receiver_gone
      BY <1>4 DEF DropQueued, Inv, CallsOK
    <2>. QED  BY <1>4, <2>3, <2>5, <2>6 DEF DropQueued, Queued, Queue!Discard
  <1>. QED  BY <1>1, <1>2, <1>3, <1>4

\* A step with fresh loads is a step of the queue, or none.
LEMMA QueueStep ==
  ASSUME Inv, LateOK, FreshStep
  PROVE  Queue!Next \/ UNCHANGED Queue!vars
  BY SenderSteps, ReceiverSteps, OwnSteps DEF FreshStep, Queue!Next

\* A call of try_send stays late, and no call becomes late by the receiver's drop.
LEMMA LateStep ==
  ASSUME LateOK, [Next]_vars
  PROVE  LateOK'
  <1>. USE DEF ringVars, recvVars, sendVars, histVars, LateOK
  <1>1. CASE UNCHANGED vars
    BY <1>1 DEF vars
  <1>2. CASE SendStep
    BY <1>2 DEF SendStep, SendLoadGone, SendLoadHead, SendReloadGone, SendWrite, SendPublish
  <1>3. CASE ReceiveStep
    BY <1>3 DEF ReceiveStep, ReceiveLoadTail, ReceiveLoadGone, ReceiveReloadTail, ReceiveTake, ReceivePublish
  <1>4. CASE Split \/ SendBegin \/ SenderDrop \/ ReceiveBegin \/ ReceiverDrop
    BY <1>4 DEF Split, SendBegin, SenderDrop, ReceiveBegin, ReceiverDrop
  <1>5. CASE DrainBegin \/ DropQueued \/ DrainEnd
    BY <1>5 DEF DrainBegin, DropQueued, DrainEnd
  <1>. QED  BY <1>1, <1>2, <1>3, <1>4, <1>5 DEF Next

\* With sequentially consistent memory the ring implements the bounded queue, for every set
\* of items and every capacity: every answer of try_send and try_receive is justified by a
\* state during the call.
THEOREM RingRefinement == MCSpec => ImplementsQueue
  <1>1. MCInit => Inv /\ LateOK /\ (fresh => Queue!Init)
    BY InitInv, QueueStarts DEF MCInit, LateOK, Init
  <1>2. ASSUME Inv, [MCNext]_all PROVE [Next]_vars
    <2>1. CASE fresh /\ Fresh!Next
      <3>1. TypeOK
        BY <1>2 DEF Inv
      <3>2. FreshStep
        BY <2>1, <3>1, FreshNext
      <3>. QED  BY <3>2, FreshIsNext
    <2>2. CASE UNCHANGED all
      BY <2>2 DEF all
    <2>. QED  BY <1>2, <2>1, <2>2 DEF MCNext
  <1>3. Inv /\ LateOK /\ [MCNext]_all => Inv' /\ LateOK'
    BY <1>2, InvStep, LateStep
  <1>4. Inv /\ LateOK /\ [MCNext]_all => [fresh => [Queue!Next]_Queue!vars]_all
    <2>. SUFFICES ASSUME Inv, LateOK, MCNext, fresh PROVE Queue!Next \/ UNCHANGED Queue!vars
      OBVIOUS
    <2>1. TypeOK /\ Fresh!Next
      BY DEF Inv, MCNext
    <2>2. FreshStep
      BY <2>1, FreshNext
    <2>. QED  BY <2>2, QueueStep
  <1>. QED  BY <1>1, <1>3, <1>4, PTL DEF MCSpec, ImplementsQueue

=============================================================================
