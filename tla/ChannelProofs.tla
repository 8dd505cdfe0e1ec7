--------------------------- MODULE ChannelProofs ---------------------------
(***************************************************************************)
(* Proofs about Channel, for any threads, items and capacity, and any      *)
(* number of calls.                                                        *)
(***************************************************************************)
EXTENDS Channel, FiniteSetTheorems, SequenceTheorems, TLAPS

-----------------------------------------------------------------------------
(* The inductive invariant.                                                *)

\* TypeOK, by the part of the state it is about.
QueueTyped ==
    /\ slots \in [0 .. Capacity - 1 -> Item \cup {NoItem}]
    /\ head \in 0 .. Capacity - 1 /\ count \in 0 .. Capacity
    /\ sent \in Seq(Item) /\ taken \in Seq(Item)
SidesTyped ==
    /\ senders \in Int /\ receivers \in Int
    /\ split \in BOOLEAN /\ sending_closed \in BOOLEAN /\ receiving_closed \in BOOLEAN
    /\ calls \in 0 .. MaxCalls /\ ended \in BOOLEAN
ThreadsTyped ==
    /\ lock \in Thread \cup {Nobody}
    /\ pc \in [Thread -> {"idle", "want", "asleep", "leaving", "waking"}]
    /\ call \in [Thread -> Call]
    /\ changed \in [Thread -> BOOLEAN]
OwnTyped == own \in [Thread -> [Sides -> Nat]]

\* InOrder, item by item: the i-th item queued is in the slot it was pushed to.
SlotOf(i) == IF head + i - 1 < Capacity THEN head + i - 1 ELSE head + i - 1 - Capacity
Delivered ==
    /\ Len(sent) = Len(taken) + count
    /\ \A i \in 1 .. Len(taken) : sent[i] = taken[i]
    /\ \A i \in 1 .. count : sent[Len(taken) + i] = slots[SlotOf(i)]

\* The monitor excludes.
LockHeld == \A t \in Thread : pc[t] = "leaving" <=> lock = t

\* A send has an item, and only lock_when sleeps.
CallsFormed == \A t \in Thread :
    /\ call[t].op \in {"send", "try_send"} => call[t].item # NoItem
    /\ pc[t] = "asleep" => call[t].op \in {"send", "receive"}

\* An end is announced only when nothing is queued and nothing can be.
EndIsMeant == ended => sending_closed /\ count = 0

\* There are no endpoints before split, and finitely many after.
EndpointsFinite == \A s \in Sides : IsFiniteSet(Endpoints(s))
UnsplitOwnsNothing == ~split => \A t \in Thread : \A s \in Sides : own[t][s] = 0

\* A thread inside a call of an endpoint still owns that endpoint.
CallersOwn == \A t \in Thread :
    pc[t] \in {"want", "asleep"} /\ call[t].op \notin {"split", "close"} => own[t][call[t].side] > 0

QueueInv == QueueTyped /\ Delivered
ThreadsInv == ThreadsTyped /\ LockHeld /\ CallsFormed
SidesInv == SidesTyped /\ EndIsMeant
OwnInv == OwnTyped /\ EndpointsCounted /\ EndpointsFinite /\ UnsplitOwnsNothing

IndInv == QueueInv /\ ThreadsInv /\ SidesInv /\ OwnInv /\ CallersOwn /\ NoLostWakeup

-----------------------------------------------------------------------------
(* The slots.                                                              *)

\* Counting on from a slot wraps at the end of the buffer.
LEMMA WrapAround ==
  ASSUME NEW n \in Nat \ {0}, NEW h \in 0 .. n - 1, NEW j \in 0 .. n
  PROVE  (h + j) % n = IF h + j < n THEN h + j ELSE h + j - n
  <1>1. PICK k \in Nat : k = h + j
    OBVIOUS
  <1>2. k % n \in 0 .. n - 1 /\ k \div n \in Nat /\ k = n * (k \div n) + (k % n)
    OBVIOUS
  <1>3. PICK q \in Nat : q = k \div n
    BY <1>2
  <1>4. CASE q = 0
    BY <1>1, <1>2, <1>3, <1>4
  <1>5. CASE q = 1
    BY <1>1, <1>2, <1>3, <1>5
  <1>6. CASE q >= 2
    <2>1. PICK d \in Nat : q = 2 + d
      BY <1>6
    <2>2. n * q = n + n + n * d
      BY <2>1
    <2>3. n * d \in Nat
      OBVIOUS
    <2>. QED  BY <1>1, <1>2, <1>3, <2>2, <2>3
  <1>. QED  BY <1>3, <1>4, <1>5, <1>6

\* SlotOf is the slot that the ring arithmetic finds.
LEMMA QueuedSlots ==
  ASSUME QueueTyped
  PROVE  \A i \in 1 .. count : /\ (head + i - 1) % Capacity = SlotOf(i)
                               /\ SlotOf(i) \in 0 .. Capacity - 1
  <1>. USE ChannelAssumption DEF QueueTyped
  <1>. SUFFICES ASSUME NEW i \in 1 .. count
                PROVE  (head + i - 1) % Capacity = SlotOf(i) /\ SlotOf(i) \in 0 .. Capacity - 1
    OBVIOUS
  <1>1. PICK j \in 0 .. Capacity : j = i - 1
    OBVIOUS
  <1>2. (head + j) % Capacity = IF head + j < Capacity THEN head + j ELSE head + j - Capacity
    BY WrapAround
  <1>3. head + i - 1 = head + j
    BY <1>1
  <1>. QED  BY <1>1, <1>2, <1>3 DEF SlotOf

\* A concatenation is recognised item by item.
LEMMA ConcatByItems ==
  ASSUME NEW S, NEW a \in Seq(S), NEW b \in Seq(S), NEW s \in Seq(S), Len(s) = Len(a) + Len(b),
         \A i \in 1 .. Len(a) : s[i] = a[i], \A i \in 1 .. Len(b) : s[Len(a) + i] = b[i]
  PROVE  a \o b = s
  <1>1. /\ a \o b \in Seq(S) /\ Len(a \o b) = Len(s)
        /\ \A i \in 1 .. Len(s) : (a \o b)[i] = IF i <= Len(a) THEN a[i] ELSE b[i - Len(a)]
    BY ConcatProperties
  <1>2. Len(a) \in Nat /\ Len(b) \in Nat
    OBVIOUS
  <1>3. \A i \in 1 .. Len(s) : (a \o b)[i] = s[i]
    <2>. TAKE i \in 1 .. Len(s)
    <2>1. CASE i <= Len(a)
      BY <1>1, <1>2, <2>1
    <2>2. CASE ~(i <= Len(a))
      <3>1. PICK j : j = i - Len(a)
        OBVIOUS
      <3>2. j \in 1 .. Len(b) /\ i = Len(a) + j
        BY <1>2, <2>2, <3>1
      <3>3. (a \o b)[i] = b[j]
        BY <1>1, <2>2, <3>1
      <3>. QED  BY <3>2, <3>3
    <2>. QED  BY <2>1, <2>2
  <1>4. /\ a \o b \in Seq(S) /\ s \in Seq(S) /\ Len(a \o b) = Len(s)
        /\ \A i \in 1 .. Len(a \o b) : (a \o b)[i] = s[i]
    BY <1>1, <1>3, Zenon
  <1>. QED  BY ONLY <1>4, SeqEqual, Zenon

\* What InOrder says of the sequences, Delivered says item by item.
LEMMA DeliveredInOrder ==
  ASSUME QueueTyped, Delivered
  PROVE  InOrder
  <1>. USE ChannelAssumption DEF QueueTyped
  <1>1. \A i \in 1 .. count : Queued[i] = sent[Len(taken) + i]
    BY QueuedSlots DEF Queued, Delivered
  <1>2. Queued \in Seq(Item) /\ Len(Queued) = count
    <2>1. \A i \in 1 .. count : Queued[i] \in Item
      BY <1>1 DEF Delivered
    <2>2. Queued \in [1 .. count -> Item]
      BY <2>1 DEF Queued
    <2>. QED  BY <2>2
  <1>3. PICK q \in Seq(Item) : q = Queued
    BY <1>2
  <1>4. Len(q) = count /\ \A i \in 1 .. count : q[i] = sent[Len(taken) + i]
    BY <1>1, <1>2, <1>3
  <1>5. taken \o q = sent
    BY <1>4, ConcatByItems DEF Delivered
  <1>. QED  BY <1>3, <1>5 DEF InOrder

\* A push puts the item behind the others.
LEMMA PushKeepsQueue ==
  ASSUME QueueInv, NEW x \in Item, count < Capacity,
         push(x), sent' = Append(sent, x), UNCHANGED taken
  PROVE  QueueInv'
  <1>. USE ChannelAssumption DEF QueueInv
  <1>0. head \in 0 .. Capacity - 1 /\ count \in 0 .. Capacity
    BY DEF QueueTyped
  <1>00. (head + count) % Capacity = IF head + count < Capacity THEN head + count ELSE head + count - Capacity
    BY <1>0, WrapAround
  <1>1. PICK p \in 0 .. Capacity - 1 :
           /\ p = IF head + count < Capacity THEN head + count ELSE head + count - Capacity
           /\ p = (head + count) % Capacity
    BY <1>0, <1>00
  <1>2. slots' = [slots EXCEPT ![p] = x] /\ count' = count + 1 /\ head' = head
    BY <1>1 DEF push
  <1>3. QueueTyped'
    BY <1>2 DEF QueueTyped
  <1>4. \A i \in 1 .. Len(sent) : sent'[i] = sent[i]
    BY DEF QueueTyped
  <1>5. Len(sent') = Len(sent) + 1 /\ sent'[Len(sent) + 1] = x
    BY DEF QueueTyped
  <1>6. \A i \in 1 .. count' : sent'[Len(taken') + i] = slots'[SlotOf(i)']
    <2>. TAKE i \in 1 .. count'
    <2>1. CASE i = count + 1
      <3>1. SlotOf(i)' = p
        BY <1>1, <1>2, <2>1 DEF SlotOf, QueueTyped
      <3>2. Len(taken') + i = Len(sent) + 1
        BY <2>1 DEF QueueTyped, Delivered
      <3>3. slots'[p] = x
        BY <1>2 DEF QueueTyped
      <3>. QED  BY <1>5, <3>1, <3>2, <3>3
    <2>2. CASE i # count + 1
      <3>1. i \in 1 .. count /\ SlotOf(i)' = SlotOf(i)
        BY <1>2, <2>2 DEF SlotOf, QueueTyped
      <3>2. SlotOf(i) # p /\ SlotOf(i) \in 0 .. Capacity - 1
        BY <1>1, <3>1 DEF SlotOf, QueueTyped
      <3>3. Len(taken) + i \in 1 .. Len(sent)
        BY <3>1 DEF QueueTyped, Delivered
      <3>. QED  BY <1>2, <1>4, <3>1, <3>2, <3>3 DEF QueueTyped, Delivered
    <2>. QED  BY <2>1, <2>2
  <1>7. Delivered'
    BY <1>2, <1>4, <1>5, <1>6 DEF QueueTyped, Delivered
  <1>. QED  BY <1>3, <1>7

\* A pop takes the first item.
LEMMA PopKeepsQueue ==
  ASSUME QueueInv, count > 0, pop, taken' = Append(taken, slots[head]), UNCHANGED sent
  PROVE  QueueInv'
  <1>. USE ChannelAssumption DEF QueueInv
  <1>1. SlotOf(1) = head /\ 1 \in 1 .. count
    BY DEF SlotOf, QueueTyped
  <1>2. sent[Len(taken) + 1] = slots[head] /\ Len(taken) + 1 \in 1 .. Len(sent)
    BY <1>1 DEF QueueTyped, Delivered
  <1>3. slots[head] \in Item
    BY <1>2 DEF QueueTyped
  <1>0. head \in 0 .. Capacity - 1 /\ 1 \in 0 .. Capacity /\ count \in Nat
    BY DEF QueueTyped
  <1>4. head' = IF head + 1 < Capacity THEN head + 1 ELSE head + 1 - Capacity
    BY <1>0, WrapAround DEF pop
  <1>5. slots' = [slots EXCEPT ![head] = NoItem] /\ count' = count - 1
    BY DEF pop
  <1>6. QueueTyped'
    BY <1>3, <1>4, <1>5 DEF QueueTyped
  <1>7. Len(taken') = Len(taken) + 1 /\ taken'[Len(taken) + 1] = slots[head]
        /\ \A i \in 1 .. Len(taken) : taken'[i] = taken[i]
    BY <1>3 DEF QueueTyped
  <1>8. \A i \in 1 .. count' : sent'[Len(taken') + i] = slots'[SlotOf(i)']
    <2>. TAKE i \in 1 .. count'
    <2>1. PICK j \in 2 .. count : j = i + 1
      BY <1>5 DEF QueueTyped
    <2>2. SlotOf(i)' = SlotOf(j)
      BY <1>4, <2>1 DEF SlotOf, QueueTyped
    <2>3. SlotOf(j) # head /\ SlotOf(j) \in 0 .. Capacity - 1
      BY DEF SlotOf, QueueTyped
    <2>4. Len(taken') + i = Len(taken) + j
      BY <1>7, <2>1, <1>5 DEF QueueTyped
    <2>5. sent[Len(taken) + j] = slots[SlotOf(j)]
      BY DEF Delivered, QueueTyped
    <2>. QED  BY <1>5, <2>2, <2>3, <2>4, <2>5 DEF QueueTyped
  <1>9. \A i \in 1 .. Len(taken') : sent'[i] = taken'[i]
    BY <1>2, <1>7 DEF QueueTyped, Delivered
  <1>10. Len(sent') = Len(taken') + count'
    <2>1. Len(sent) = Len(taken) + count /\ Len(taken) \in Nat
      BY DEF QueueTyped, Delivered
    <2>. QED  BY <1>0, <1>5, <1>7, <2>1
  <1>. QED  BY <1>6, <1>8, <1>9, <1>10 DEF Delivered

-----------------------------------------------------------------------------
(* The endpoints.                                                          *)

\* Endpoints, of any numbers of endpoints that threads may own.
Ends(f) == UNION {{t} \X (1 .. f[t]) : t \in Thread}
OwnOf(s) == [t \in Thread |-> own[t][s]]

\* An endpoint is a thread and a number that the thread reaches.
LEMMA EndsElements ==
  ASSUME NEW f, NEW e
  PROVE  e \in Ends(f) <=> \E t \in Thread : \E i \in 1 .. f[t] : e = <<t, i>>
  BY DEF Ends

\* The endpoints of a side are those of the numbers owned.
LEMMA EndpointsAreEnds ==
  ASSUME NEW s \in Sides
  PROVE  Endpoints(s) = Ends(OwnOf(s)) /\ Endpoints(s)' = Ends(OwnOf(s)')
  <1>1. \A t \in Thread : OwnOf(s)[t] = own[t][s] /\ OwnOf(s)'[t] = own'[t][s]
    BY DEF OwnOf
  <1>. QED  BY <1>1 DEF Endpoints, Ends

\* An owner's endpoint is counted.
LEMMA OwnerCounted ==
  ASSUME NEW f \in [Thread -> Nat], NEW u \in Thread, f[u] > 0, IsFiniteSet(Ends(f))
  PROVE  Cardinality(Ends(f)) \in Nat /\ Cardinality(Ends(f)) > 0
  <1>1. <<u, 1>> \in Ends(f)
    BY EndsElements
  <1>. QED  BY <1>1, FS_CardinalityType, FS_EmptySet

\* One endpoint more, and the count is one more.
LEMMA EndpointAdded ==
  ASSUME NEW f \in [Thread -> Nat], NEW u \in Thread, IsFiniteSet(Ends(f)),
         NEW g \in [Thread -> Nat], \A t \in Thread : g[t] = IF t = u THEN f[u] + 1 ELSE f[t]
  PROVE  IsFiniteSet(Ends(g)) /\ Cardinality(Ends(g)) = Cardinality(Ends(f)) + 1
  <1>1. <<u, f[u] + 1>> \notin Ends(f)
    BY EndsElements
  <1>2. Ends(g) = Ends(f) \cup {<<u, f[u] + 1>>}
    <2>1. \A e : e \in Ends(g) => e \in Ends(f) \/ e = <<u, f[u] + 1>>
      <3>. TAKE e
      <3>. HAVE e \in Ends(g)
      <3>1. PICK t \in Thread : \E i \in 1 .. g[t] : e = <<t, i>>
        BY EndsElements
      <3>2. PICK i \in 1 .. g[t] : e = <<t, i>>
        BY <3>1
      <3>3. CASE i \in 1 .. f[t]
        BY <3>2, <3>3, EndsElements
      <3>4. CASE i \notin 1 .. f[t]
        <4>1. t = u /\ i = f[u] + 1
          BY <3>2, <3>4
        <4>. QED  BY <3>2, <4>1
      <3>. QED  BY <3>3, <3>4
    <2>2. \A e : e \in Ends(f) => e \in Ends(g)
      <3>. TAKE e
      <3>. HAVE e \in Ends(f)
      <3>1. PICK t \in Thread : \E i \in 1 .. f[t] : e = <<t, i>>
        BY EndsElements
      <3>2. PICK i \in 1 .. f[t] : e = <<t, i>>
        BY <3>1
      <3>3. i \in 1 .. g[t]
        OBVIOUS
      <3>. QED  BY <3>2, <3>3, EndsElements
    <2>3. <<u, f[u] + 1>> \in Ends(g)
      <3>1. f[u] + 1 \in 1 .. g[u]
        OBVIOUS
      <3>. QED  BY <3>1, EndsElements
    <2>. QED  BY <2>1, <2>2, <2>3
  <1>3. PICK x : x = <<u, f[u] + 1>>
    OBVIOUS
  <1>4. x \notin Ends(f) /\ Ends(g) = Ends(f) \cup {x}
    BY <1>1, <1>2, <1>3
  <1>5. /\ IsFiniteSet(Ends(f) \cup {x})
        /\ Cardinality(Ends(f) \cup {x}) = IF x \in Ends(f) THEN Cardinality(Ends(f)) ELSE Cardinality(Ends(f)) + 1
    BY FS_AddElement
  <1>. QED  BY <1>4, <1>5

\* One endpoint fewer, and the count is one fewer.
LEMMA EndpointDropped ==
  ASSUME NEW f \in [Thread -> Nat], NEW u \in Thread, f[u] > 0, IsFiniteSet(Ends(f)),
         NEW g \in [Thread -> Nat], \A t \in Thread : g[t] = IF t = u THEN f[u] - 1 ELSE f[t]
  PROVE  IsFiniteSet(Ends(g)) /\ Cardinality(Ends(g)) = Cardinality(Ends(f)) - 1
  <1>1. <<u, f[u]>> \in Ends(f)
    <2>1. f[u] \in 1 .. f[u]
      OBVIOUS
    <2>. QED  BY <2>1, EndsElements
  <1>2. Ends(g) = Ends(f) \ {<<u, f[u]>>}
    <2>1. \A e : e \in Ends(g) => e \in Ends(f) /\ e # <<u, f[u]>>
      <3>. TAKE e
      <3>. HAVE e \in Ends(g)
      <3>1. PICK t \in Thread : \E i \in 1 .. g[t] : e = <<t, i>>
        BY EndsElements
      <3>2. PICK i \in 1 .. g[t] : e = <<t, i>>
        BY <3>1
      <3>3. i \in 1 .. f[t] /\ (t = u => i # f[u])
        OBVIOUS
      <3>. QED  BY <3>2, <3>3, EndsElements
    <2>2. \A e : e \in Ends(f) /\ e # <<u, f[u]>> => e \in Ends(g)
      <3>. TAKE e
      <3>. HAVE e \in Ends(f) /\ e # <<u, f[u]>>
      <3>1. PICK t \in Thread : \E i \in 1 .. f[t] : e = <<t, i>>
        BY EndsElements
      <3>2. PICK i \in 1 .. f[t] : e = <<t, i>>
        BY <3>1
      <3>3. t = u => i # f[u]
        BY <3>2
      <3>4. i \in 1 .. g[t]
        BY <3>3
      <3>. QED  BY <3>2, <3>4, EndsElements
    <2>. QED  BY <2>1, <2>2
  <1>. QED  BY <1>1, <1>2, FS_RemoveElement

\* The same of the variable: a thread is given an endpoint, loses one, or neither.
LEMMA OwnAdded ==
  ASSUME OwnTyped, OwnTyped', EndpointsFinite, NEW s \in Sides, NEW u \in Thread,
         \A t \in Thread : own'[t][s] = IF t = u THEN own[u][s] + 1 ELSE own[t][s]
  PROVE  IsFiniteSet(Endpoints(s)') /\ Cardinality(Endpoints(s)') = Cardinality(Endpoints(s)) + 1
  <1>1. PICK f \in [Thread -> Nat] : f = OwnOf(s)
    BY DEF OwnTyped, OwnOf
  <1>2. PICK g \in [Thread -> Nat] : g = OwnOf(s)'
    BY DEF OwnTyped, OwnOf
  <1>3. \A t \in Thread : g[t] = IF t = u THEN f[u] + 1 ELSE f[t]
    BY <1>1, <1>2 DEF OwnOf
  <1>4. Endpoints(s) = Ends(f) /\ Endpoints(s)' = Ends(g) /\ IsFiniteSet(Ends(f))
    BY <1>1, <1>2, EndpointsAreEnds DEF EndpointsFinite
  <1>. QED  BY <1>3, <1>4, EndpointAdded

\* A thread that owns an endpoint loses one.
LEMMA OwnDropped ==
  ASSUME OwnTyped, OwnTyped', EndpointsFinite, NEW s \in Sides, NEW u \in Thread, own[u][s] > 0,
         \A t \in Thread : own'[t][s] = IF t = u THEN own[u][s] - 1 ELSE own[t][s]
  PROVE  IsFiniteSet(Endpoints(s)') /\ Cardinality(Endpoints(s)') = Cardinality(Endpoints(s)) - 1
  <1>1. PICK f \in [Thread -> Nat] : f = OwnOf(s)
    BY DEF OwnTyped, OwnOf
  <1>2. PICK g \in [Thread -> Nat] : g = OwnOf(s)'
    BY DEF OwnTyped, OwnOf
  <1>3. f[u] > 0 /\ \A t \in Thread : g[t] = IF t = u THEN f[u] - 1 ELSE f[t]
    BY <1>1, <1>2 DEF OwnOf
  <1>4. Endpoints(s) = Ends(f) /\ Endpoints(s)' = Ends(g) /\ IsFiniteSet(Ends(f))
    BY <1>1, <1>2, EndpointsAreEnds DEF EndpointsFinite
  <1>. QED  BY <1>3, <1>4, EndpointDropped

\* A side whose owners are as they were has the endpoints it had.
LEMMA OwnSame ==
  ASSUME NEW s \in Sides, \A t \in Thread : own'[t][s] = own[t][s]
  PROVE  Endpoints(s)' = Endpoints(s)
  BY DEF Endpoints

\* A side with an owner has a count.
LEMMA OwnedSide ==
  ASSUME OwnInv, NEW s \in Sides, NEW u \in Thread, own[u][s] > 0
  PROVE  /\ split /\ Cardinality(Endpoints(s)) \in Nat /\ Cardinality(Endpoints(s)) > 0
         /\ s = "sender" => senders > 0 /\ (sending_closed => receiving_closed)
         /\ s = "receiver" => receivers > 0 /\ (receiving_closed => sending_closed)
  <1>1. PICK f \in [Thread -> Nat] : f = OwnOf(s)
    BY DEF OwnInv, OwnTyped, OwnOf
  <1>2. f[u] > 0 /\ Endpoints(s) = Ends(f) /\ IsFiniteSet(Ends(f))
    BY <1>1, EndpointsAreEnds DEF OwnOf, OwnInv, EndpointsFinite
  <1>3. Cardinality(Endpoints(s)) \in Nat /\ Cardinality(Endpoints(s)) > 0
    BY <1>2, OwnerCounted
  <1>4. split
    BY DEF OwnInv, OwnTyped, UnsplitOwnsNothing
  <1>. QED  BY <1>3, <1>4 DEF OwnInv, EndpointsCounted

-----------------------------------------------------------------------------
(* The monitor.                                                            *)

\* What every call that takes the lock does to the threads.
LEMMA HoldKeepsThreads ==
  ASSUME ThreadsInv, NEW t \in Thread, pc[t] = "want", lock = Nobody, NEW get \in BOOLEAN, Hold(t, get)
  PROVE  ThreadsInv'
  <1>. USE ChannelAssumption DEF ThreadsInv
  <1>1. ThreadsTyped'
    BY DEF ThreadsTyped, Hold
  <1>2. LockHeld' /\ CallsFormed'
    BY DEF ThreadsTyped, LockHeld, CallsFormed, Hold
  <1>. QED  BY <1>1, <1>2

\* A guard that reached the value will wake whoever can go on.
LEMMA HoldWakes ==
  ASSUME ThreadsTyped, NEW t \in Thread, Hold(t, TRUE)
  PROVE  NoLostWakeup'
  <1>1. pc'[t] = "leaving" /\ changed'[t]
    BY DEF ThreadsTyped, Hold
  <1>. QED  BY <1>1 DEF NoLostWakeup

\* A guard that did not has changed nothing that a sleeper waits for.
LEMMA HoldQuietly ==
  ASSUME ThreadsTyped, NoLostWakeup, NEW t \in Thread, pc[t] = "want", Hold(t, FALSE),
         UNCHANGED <<count, sending_closed, receiving_closed>>
  PROVE  NoLostWakeup'
  BY DEF ThreadsTyped, NoLostWakeup, Hold, can_send, can_receive, closed

\* The endpoint of a call is its thread's until the call has the lock.
LEMMA HoldKeepsOwners ==
  ASSUME ThreadsTyped, CallersOwn, NEW t \in Thread, NEW get \in BOOLEAN, Hold(t, get), OwnTyped, OwnTyped',
         \A u \in Thread : \A s \in Sides : u # t => own'[u][s] >= own[u][s]
  PROVE  CallersOwn'
  <1>. SUFFICES ASSUME NEW u \in Thread, pc'[u] \in {"want", "asleep"}, call'[u].op \notin {"split", "close"}
                PROVE  own'[u][call'[u].side] > 0
    BY DEF CallersOwn
  <1>1. u # t /\ pc[u] = pc'[u] /\ call'[u] = call[u] /\ call[u].side \in Sides
    BY DEF ThreadsTyped, Hold, Call
  <1>2. own[u][call[u].side] > 0
    BY <1>1 DEF CallersOwn
  <1>3. own'[u][call[u].side] >= own[u][call[u].side]
    BY <1>1
  <1>. QED  BY <1>1, <1>2, <1>3 DEF OwnTyped

\* The same when no endpoint changes hands.
LEMMA HoldOwnersStay ==
  ASSUME ThreadsTyped, CallersOwn, NEW t \in Thread, NEW get \in BOOLEAN, Hold(t, get), UNCHANGED own
  PROVE  CallersOwn'
  BY DEF ThreadsTyped, CallersOwn, Hold

\* A step that leaves a part of the state alone keeps what is said of it.
LEMMA QueueStays ==
  ASSUME QueueInv, UNCHANGED <<queue, sent, taken>>
  PROVE  QueueInv'
  BY DEF QueueInv, QueueTyped, Delivered, SlotOf, queue

\* Likewise the sides, whatever the number of calls.
LEMMA SidesStay ==
  ASSUME SidesInv, OwnInv, UNCHANGED <<sides, own, ended>>, count' = count, calls' \in 0 .. MaxCalls
  PROVE  SidesInv' /\ OwnInv'
  BY DEF SidesInv, SidesTyped, EndIsMeant, sides,
         OwnInv, OwnTyped, EndpointsCounted, Endpoints, EndpointsFinite, UnsplitOwnsNothing

-----------------------------------------------------------------------------
(* Preservation, an action at a time.                                      *)

\* A thread starts a call only of an endpoint it owns.
LEMMA BeginInv ==
  ASSUME IndInv, NEW t \in Thread, Begin(t)
  PROVE  IndInv'
  <1>. USE ChannelAssumption DEF IndInv
  <1>1. PICK c \in Call :
           /\ c.op \in {"send", "try_send"} <=> c.item # NoItem
           /\ c.op \in {"split", "close"} \/ own[t][c.side] > 0
           /\ call' = [call EXCEPT ![t] = c]
    BY DEF Begin
  <1>2. pc[t] = "idle" /\ pc' = [pc EXCEPT ![t] = "want"] /\ UNCHANGED <<queue, sides, lock, changed, own, history>>
    BY DEF Begin
  <1>3. QueueInv'
    BY <1>2, QueueStays DEF history
  <1>4. SidesInv' /\ OwnInv'
    <2>1. calls' \in 0 .. MaxCalls
      BY DEF Begin, SidesInv, SidesTyped
    <2>. QED  BY <1>2, <2>1, SidesStay DEF history, queue
  <1>5. ThreadsInv'
    <2>1. ThreadsTyped'
      BY <1>1, <1>2 DEF ThreadsInv, ThreadsTyped
    <2>2. LockHeld' /\ CallsFormed'
      BY <1>1, <1>2 DEF ThreadsInv, ThreadsTyped, LockHeld, CallsFormed
    <2>. QED  BY <2>1, <2>2 DEF ThreadsInv
  <1>6. CallersOwn'
    BY <1>1, <1>2 DEF ThreadsInv, ThreadsTyped, CallersOwn
  <1>7. NoLostWakeup'
    BY <1>1, <1>2 DEF ThreadsInv, ThreadsTyped, NoLostWakeup, can_send, can_receive, closed, queue, sides
  <1>. QED  BY <1>3, <1>4, <1>5, <1>6, <1>7

\* A call that is refused.
LEMMA QuietInv ==
  ASSUME IndInv, NEW t \in Thread, pc[t] = "want", lock = Nobody, Hold(t, FALSE),
         UNCHANGED <<queue, sides, own, calls, sent, taken>>,
         ended' = ended \/ (count = 0 /\ ended' = (ended \/ sending_closed))
  PROVE  IndInv'
  <1>. USE ChannelAssumption DEF IndInv
  <1>1. QueueInv'
    BY QueueStays
  <1>2. SidesInv' /\ OwnInv'
    BY DEF SidesInv, SidesTyped, EndIsMeant, sides, queue,
         OwnInv, OwnTyped, EndpointsCounted, Endpoints, EndpointsFinite, UnsplitOwnsNothing
  <1>3. ThreadsInv'
    BY HoldKeepsThreads
  <1>4. CallersOwn'
    BY HoldOwnersStay DEF ThreadsInv
  <1>5. NoLostWakeup'
    BY HoldQuietly DEF ThreadsInv, queue, sides
  <1>. QED  BY <1>1, <1>2, <1>3, <1>4, <1>5

\* A call that finds nothing it can do, and sleeps.
LEMMA SleepInv ==
  ASSUME IndInv, NEW t \in Thread, pc[t] = "want", Sleep(t),
         (call[t].op = "send" /\ ~can_send) \/ (call[t].op = "receive" /\ ~can_receive)
  PROVE  IndInv'
  <1>. USE ChannelAssumption DEF IndInv
  <1>1. QueueInv'
    BY QueueStays DEF Sleep, history
  <1>2. SidesInv' /\ OwnInv'
    BY SidesStay DEF Sleep, history, queue, SidesInv, SidesTyped
  <1>3. ThreadsInv'
    BY DEF Sleep, ThreadsInv, ThreadsTyped, LockHeld, CallsFormed
  <1>4. CallersOwn'
    BY DEF Sleep, ThreadsInv, ThreadsTyped, CallersOwn
  <1>5. NoLostWakeup'
    BY DEF Sleep, ThreadsInv, ThreadsTyped, NoLostWakeup, can_send, can_receive, closed, queue, sides
  <1>. QED  BY <1>1, <1>2, <1>3, <1>4, <1>5

\* A send or try_send that commits its item.
LEMMA CommitInv ==
  ASSUME IndInv, NEW t \in Thread, pc[t] = "want", lock = Nobody, call[t].op \in {"send", "try_send"},
         ~closed, count < Capacity, push(call[t].item), Hold(t, TRUE),
         sent' = Append(sent, call[t].item), UNCHANGED <<sides, own, calls, taken, ended>>
  PROVE  IndInv'
  <1>. USE ChannelAssumption DEF IndInv
  <1>0. call[t].item \in Item
    BY DEF ThreadsInv, ThreadsTyped, CallsFormed, Call
  <1>1. QueueInv'
    BY <1>0, PushKeepsQueue
  <1>2. SidesInv' /\ OwnInv'
    BY DEF SidesInv, SidesTyped, EndIsMeant, sides, closed,
         OwnInv, OwnTyped, EndpointsCounted, Endpoints, EndpointsFinite, UnsplitOwnsNothing
  <1>3. ThreadsInv'
    BY HoldKeepsThreads
  <1>4. CallersOwn'
    BY HoldOwnersStay DEF ThreadsInv
  <1>5. NoLostWakeup'
    BY HoldWakes DEF ThreadsInv
  <1>. QED  BY <1>1, <1>2, <1>3, <1>4, <1>5

\* A receive or try_receive that takes an item.
LEMMA TakeInv ==
  ASSUME IndInv, NEW t \in Thread, pc[t] = "want", lock = Nobody, count > 0, Take(t)
  PROVE  IndInv'
  <1>. USE ChannelAssumption DEF IndInv
  <1>1. QueueInv'
    BY PopKeepsQueue DEF Take
  <1>2. SidesInv' /\ OwnInv'
    <2>1. ~ended
      BY DEF SidesInv, EndIsMeant, QueueInv, QueueTyped
    <2>. QED  BY <2>1 DEF Take, SidesInv, SidesTyped, EndIsMeant, sides,
         OwnInv, OwnTyped, EndpointsCounted, Endpoints, EndpointsFinite, UnsplitOwnsNothing
  <1>3. ThreadsInv'
    BY HoldKeepsThreads DEF Take
  <1>4. CallersOwn'
    BY HoldOwnersStay DEF Take, ThreadsInv
  <1>5. NoLostWakeup'
    BY HoldWakes DEF Take, ThreadsInv
  <1>. QED  BY <1>1, <1>2, <1>3, <1>4, <1>5

\* A receive that is told of the end.
LEMMA EndInv ==
  ASSUME IndInv, NEW t \in Thread, pc[t] = "want", lock = Nobody, can_receive, count = 0, Hold(t, TRUE),
         ended' = TRUE, UNCHANGED <<queue, sides, own, calls, sent, taken>>
  PROVE  IndInv'
  <1>. USE ChannelAssumption DEF IndInv
  <1>1. QueueInv'
    BY QueueStays
  <1>2. SidesInv' /\ OwnInv'
    BY DEF SidesInv, SidesTyped, EndIsMeant, sides, queue, can_receive,
         OwnInv, OwnTyped, EndpointsCounted, Endpoints, EndpointsFinite, UnsplitOwnsNothing
  <1>3. ThreadsInv'
    BY HoldKeepsThreads
  <1>4. CallersOwn'
    BY HoldOwnersStay DEF ThreadsInv
  <1>5. NoLostWakeup'
    BY HoldWakes DEF ThreadsInv
  <1>. QED  BY <1>1, <1>2, <1>3, <1>4, <1>5

\* What the operations on the sides share: they leave the queue alone and reach the value.
LEMMA SidesChange ==
  ASSUME IndInv, NEW t \in Thread, pc[t] = "want", lock = Nobody, Hold(t, TRUE),
         UNCHANGED <<queue, history, calls>>, sending_closed => sending_closed', SidesTyped',
         OwnInv', \A u \in Thread : \A s \in Sides : u # t => own'[u][s] >= own[u][s]
  PROVE  IndInv'
  <1>. USE ChannelAssumption DEF IndInv
  <1>1. QueueInv'
    BY QueueStays DEF history
  <1>2. SidesInv'
    BY DEF SidesInv, EndIsMeant, queue, history
  <1>3. ThreadsInv'
    BY HoldKeepsThreads
  <1>4. CallersOwn'
    BY HoldKeepsOwners DEF ThreadsInv, OwnInv
  <1>5. NoLostWakeup'
    BY HoldWakes DEF ThreadsInv
  <1>. QED  BY <1>1, <1>2, <1>3, <1>4, <1>5

\* close closes both sides, and wakes.
LEMMA CloseInv ==
  ASSUME IndInv, NEW t \in Thread, Close(t)
  PROVE  IndInv'
  <1>1. SidesTyped'
    BY DEF IndInv, SidesInv, SidesTyped, Close, history
  <1>2. OwnInv'
    BY DEF IndInv, OwnInv, OwnTyped, EndpointsCounted, Endpoints, EndpointsFinite, UnsplitOwnsNothing, Close
  <1>3. \A u \in Thread : \A s \in Sides : u # t => own'[u][s] >= own[u][s]
    BY DEF IndInv, OwnInv, OwnTyped, Close
  <1>. QED  BY <1>1, <1>2, <1>3, SidesChange DEF Close, Wants

\* split makes the first endpoint of each side, or panics and changes nothing.
LEMMA SplitInv ==
  ASSUME IndInv, NEW t \in Thread, Split(t)
  PROVE  IndInv'
  <1>1. CASE (split \/ closed) /\ Hold(t, FALSE) /\ UNCHANGED <<queue, sides, own, calls, history>>
    BY <1>1, QuietInv DEF Split, Wants, history
  <1>2. CASE /\ ~split /\ ~closed
             /\ split' = TRUE /\ senders' = 1 /\ receivers' = 1
             /\ \E s, r \in Thread : own' = [own EXCEPT ![s]["sender"] = 1, ![r]["receiver"] = 1]
             /\ Hold(t, TRUE)
             /\ UNCHANGED <<queue, sending_closed, receiving_closed, calls, history>>
    <2>1. PICK s \in Thread, r \in Thread : own' = [own EXCEPT ![s]["sender"] = 1, ![r]["receiver"] = 1]
      BY <1>2
    <2>2. OwnInv /\ OwnTyped /\ EndpointsFinite /\ \A u \in Thread : \A x \in Sides : own[u][x] = 0
      BY <1>2 DEF IndInv, OwnInv, UnsplitOwnsNothing
    <2>3. OwnTyped'
      BY <2>1, <2>2 DEF OwnTyped, Sides
    <2>4. \A u \in Thread : /\ own'[u]["sender"] = IF u = s THEN own[s]["sender"] + 1 ELSE own[u]["sender"]
                            /\ own'[u]["receiver"] = IF u = r THEN own[r]["receiver"] + 1 ELSE own[u]["receiver"]
      BY <2>1, <2>2 DEF OwnTyped, Sides
    <2>5. Cardinality(Endpoints("sender")) = 0 /\ Cardinality(Endpoints("receiver")) = 0
      <3>1. Endpoints("sender") = {} /\ Endpoints("receiver") = {}
        BY <2>2 DEF Endpoints, Sides
      <3>. QED  BY <3>1, FS_EmptySet
    <2>6. /\ IsFiniteSet(Endpoints("sender")') /\ Cardinality(Endpoints("sender")') = 1
          /\ IsFiniteSet(Endpoints("receiver")') /\ Cardinality(Endpoints("receiver")') = 1
      BY <2>2, <2>3, <2>4, <2>5, OwnAdded DEF Sides
    <2>7. EndpointsCounted' /\ EndpointsFinite' /\ UnsplitOwnsNothing'
      BY <1>2, <2>6 DEF EndpointsCounted, EndpointsFinite, UnsplitOwnsNothing, Sides, closed
    <2>8. SidesTyped'
      BY <1>2 DEF IndInv, SidesInv, SidesTyped, history
    <2>9. \A u \in Thread : \A x \in Sides : u # t => own'[u][x] >= own[u][x]
      BY <2>2, <2>4 DEF Sides
    <2>. QED  BY <1>2, <2>3, <2>7, <2>8, <2>9, SidesChange DEF Split, Wants, OwnInv
  <1>. QED  BY <1>1, <1>2 DEF Split

\* A call of an endpoint finds the endpoint alive.
LEMMA CallerAlive ==
  ASSUME IndInv, NEW t \in Thread, Wants(t, "fork") \/ Wants(t, "drop"), NEW s \in Sides, call[t].side = s
  PROVE  /\ own[t][s] > 0 /\ split /\ Cardinality(Endpoints(s)) \in Nat /\ Cardinality(Endpoints(s)) > 0
         /\ s = "sender" => senders > 0 /\ (sending_closed => receiving_closed)
         /\ s = "receiver" => receivers > 0 /\ (receiving_closed => sending_closed)
  <1>1. own[t][s] > 0
    BY DEF IndInv, CallersOwn, Wants
  <1>. QED  BY <1>1, OwnedSide DEF IndInv

\* fork adds an endpoint to a side that has one already: a sender,
LEMMA ForkSenderInv ==
  ASSUME IndInv, NEW t \in Thread, ForkSender(t)
  PROVE  IndInv'
  <1>1. PICK u \in Thread : own' = [own EXCEPT ![u]["sender"] = @ + 1]
    BY DEF ForkSender
  <1>2. OwnInv /\ OwnTyped /\ EndpointsFinite /\ "sender" \in Sides /\ "receiver" \in Sides
    BY DEF IndInv, OwnInv, Sides
  <1>3. OwnTyped'
    BY <1>1, <1>2 DEF OwnTyped
  <1>4. \A v \in Thread : /\ own'[v]["sender"] = IF v = u THEN own[u]["sender"] + 1 ELSE own[v]["sender"]
                          /\ own'[v]["receiver"] = own[v]["receiver"]
    BY <1>1, <1>2 DEF OwnTyped
  <1>5. /\ IsFiniteSet(Endpoints("sender")') /\ Cardinality(Endpoints("sender")') = Cardinality(Endpoints("sender")) + 1
        /\ Endpoints("receiver")' = Endpoints("receiver")
    BY <1>2, <1>3, <1>4, OwnAdded, OwnSame
  <1>6. split /\ senders > 0 /\ (sending_closed => receiving_closed) /\ Cardinality(Endpoints("sender")) \in Nat
    BY <1>2, CallerAlive DEF ForkSender
  <1>7. EndpointsCounted' /\ EndpointsFinite' /\ UnsplitOwnsNothing'
    BY <1>2, <1>5, <1>6 DEF ForkSender, OwnInv, EndpointsCounted, EndpointsFinite, UnsplitOwnsNothing, Sides
  <1>8. SidesTyped'
    BY DEF IndInv, SidesInv, SidesTyped, ForkSender, history
  <1>9. \A v \in Thread : \A s \in Sides : v # t => own'[v][s] >= own[v][s]
    BY <1>2, <1>4 DEF OwnTyped, Sides
  <1>. QED  BY <1>3, <1>7, <1>8, <1>9, SidesChange DEF ForkSender, Wants, OwnInv

\* or a receiver.
LEMMA ForkReceiverInv ==
  ASSUME IndInv, NEW t \in Thread, ForkReceiver(t)
  PROVE  IndInv'
  <1>1. PICK u \in Thread : own' = [own EXCEPT ![u]["receiver"] = @ + 1]
    BY DEF ForkReceiver
  <1>2. OwnInv /\ OwnTyped /\ EndpointsFinite /\ "sender" \in Sides /\ "receiver" \in Sides
    BY DEF IndInv, OwnInv, Sides
  <1>3. OwnTyped'
    BY <1>1, <1>2 DEF OwnTyped
  <1>4. \A v \in Thread : /\ own'[v]["receiver"] = IF v = u THEN own[u]["receiver"] + 1 ELSE own[v]["receiver"]
                          /\ own'[v]["sender"] = own[v]["sender"]
    BY <1>1, <1>2 DEF OwnTyped
  <1>5. /\ IsFiniteSet(Endpoints("receiver")') /\ Cardinality(Endpoints("receiver")') = Cardinality(Endpoints("receiver")) + 1
        /\ Endpoints("sender")' = Endpoints("sender")
    BY <1>2, <1>3, <1>4, OwnAdded, OwnSame
  <1>6. split /\ receivers > 0 /\ (receiving_closed => sending_closed) /\ Cardinality(Endpoints("receiver")) \in Nat
    BY <1>2, CallerAlive DEF ForkReceiver
  <1>7. EndpointsCounted' /\ EndpointsFinite' /\ UnsplitOwnsNothing'
    BY <1>2, <1>5, <1>6 DEF ForkReceiver, OwnInv, EndpointsCounted, EndpointsFinite, UnsplitOwnsNothing, Sides
  <1>8. SidesTyped'
    BY DEF IndInv, SidesInv, SidesTyped, ForkReceiver, history
  <1>9. \A v \in Thread : \A s \in Sides : v # t => own'[v][s] >= own[v][s]
    BY <1>2, <1>4 DEF OwnTyped, Sides
  <1>. QED  BY <1>3, <1>7, <1>8, <1>9, SidesChange DEF ForkReceiver, Wants, OwnInv

\* The drop of the last sender closes the sending side,
LEMMA ReleaseSenderInv ==
  ASSUME IndInv, NEW t \in Thread, ReleaseSender(t)
  PROVE  IndInv'
  <1>2. OwnInv /\ OwnTyped /\ EndpointsFinite /\ "sender" \in Sides /\ "receiver" \in Sides
    BY DEF IndInv, OwnInv, Sides
  <1>6. /\ own[t]["sender"] > 0 /\ split /\ senders > 0 /\ (sending_closed => receiving_closed)
        /\ Cardinality(Endpoints("sender")) \in Nat
    BY <1>2, CallerAlive DEF ReleaseSender
  <1>3. OwnTyped'
    BY <1>2, <1>6 DEF OwnTyped, ReleaseSender
  <1>4. \A v \in Thread : /\ own'[v]["sender"] = IF v = t THEN own[t]["sender"] - 1 ELSE own[v]["sender"]
                          /\ own'[v]["receiver"] = own[v]["receiver"]
    BY <1>2 DEF OwnTyped, ReleaseSender
  <1>5. /\ IsFiniteSet(Endpoints("sender")') /\ Cardinality(Endpoints("sender")') = Cardinality(Endpoints("sender")) - 1
        /\ Endpoints("receiver")' = Endpoints("receiver")
    BY <1>2, <1>3, <1>4, <1>6, OwnDropped, OwnSame
  <1>7. EndpointsCounted' /\ EndpointsFinite' /\ UnsplitOwnsNothing'
    BY <1>2, <1>5, <1>6 DEF ReleaseSender, OwnInv, EndpointsCounted, EndpointsFinite, UnsplitOwnsNothing, Sides
  <1>8. SidesTyped'
    BY DEF IndInv, SidesInv, SidesTyped, ReleaseSender, history
  <1>9. \A v \in Thread : \A s \in Sides : v # t => own'[v][s] >= own[v][s]
    BY <1>2, <1>4 DEF OwnTyped, Sides
  <1>. QED  BY <1>3, <1>7, <1>8, <1>9, SidesChange DEF ReleaseSender, Wants, OwnInv

\* that of the last receiver the receiving side.
LEMMA ReleaseReceiverInv ==
  ASSUME IndInv, NEW t \in Thread, ReleaseReceiver(t)
  PROVE  IndInv'
  <1>2. OwnInv /\ OwnTyped /\ EndpointsFinite /\ "sender" \in Sides /\ "receiver" \in Sides
    BY DEF IndInv, OwnInv, Sides
  <1>6. /\ own[t]["receiver"] > 0 /\ split /\ receivers > 0 /\ (receiving_closed => sending_closed)
        /\ Cardinality(Endpoints("receiver")) \in Nat
    BY <1>2, CallerAlive DEF ReleaseReceiver
  <1>3. OwnTyped'
    BY <1>2, <1>6 DEF OwnTyped, ReleaseReceiver
  <1>4. \A v \in Thread : /\ own'[v]["receiver"] = IF v = t THEN own[t]["receiver"] - 1 ELSE own[v]["receiver"]
                          /\ own'[v]["sender"] = own[v]["sender"]
    BY <1>2 DEF OwnTyped, ReleaseReceiver
  <1>5. /\ IsFiniteSet(Endpoints("receiver")') /\ Cardinality(Endpoints("receiver")') = Cardinality(Endpoints("receiver")) - 1
        /\ Endpoints("sender")' = Endpoints("sender")
    BY <1>2, <1>3, <1>4, <1>6, OwnDropped, OwnSame
  <1>7. EndpointsCounted' /\ EndpointsFinite' /\ UnsplitOwnsNothing'
    BY <1>2, <1>5, <1>6 DEF ReleaseReceiver, OwnInv, EndpointsCounted, EndpointsFinite, UnsplitOwnsNothing, Sides
  <1>8. SidesTyped'
    BY DEF IndInv, SidesInv, SidesTyped, ReleaseReceiver, history
  <1>9. \A v \in Thread : \A s \in Sides : v # t => own'[v][s] >= own[v][s]
    BY <1>2, <1>4 DEF OwnTyped, Sides
  <1>. QED  BY <1>3, <1>7, <1>8, <1>9, SidesChange DEF ReleaseReceiver, Wants, OwnInv

\* What the monitor's own steps share: only the threads move.
LEMMA ThreadsMove ==
  ASSUME IndInv, UNCHANGED <<queue, sides, own, calls, history>>, ThreadsInv',
         \A u \in Thread : pc'[u] \in {"want", "asleep"} => pc[u] \in {"want", "asleep"} /\ call'[u] = call[u]
  PROVE  QueueInv' /\ SidesInv' /\ OwnInv' /\ CallersOwn'
  <1>1. QueueInv'
    BY QueueStays DEF IndInv, history
  <1>2. SidesInv' /\ OwnInv'
    BY SidesStay DEF IndInv, history, queue, SidesInv, SidesTyped
  <1>3. CallersOwn'
    BY DEF IndInv, CallersOwn
  <1>. QED  BY <1>1, <1>2, <1>3

\* The unlock passes the duty to wake from the lock to the wake.
LEMMA UnlockInv ==
  ASSUME IndInv, NEW t \in Thread, Unlock(t)
  PROVE  IndInv'
  <1>. USE ChannelAssumption
  <1>1. ThreadsTyped'
    BY DEF IndInv, ThreadsInv, ThreadsTyped, Unlock, NoCall, Call, Ops, Sides
  <1>2. LockHeld'
    BY DEF IndInv, ThreadsInv, ThreadsTyped, LockHeld, Unlock
  <1>3. CallsFormed'
    BY DEF IndInv, ThreadsInv, ThreadsTyped, CallsFormed, Unlock, NoCall
  <1>4. \A u \in Thread : pc'[u] \in {"want", "asleep"} => pc[u] \in {"want", "asleep"} /\ call'[u] = call[u]
    BY DEF IndInv, ThreadsInv, ThreadsTyped, Unlock
  <1>5. NoLostWakeup'
    <2>1. \A u \in Thread : pc'[u] = "asleep" => pc[u] = "asleep" /\ call'[u] = call[u]
      BY DEF IndInv, ThreadsInv, ThreadsTyped, Unlock
    <2>2. \A u \in Thread : pc[u] = "waking" \/ (pc[u] = "leaving" /\ changed[u])
                            => pc'[u] = "waking" \/ (pc'[u] = "leaving" /\ changed'[u])
      BY DEF IndInv, ThreadsInv, ThreadsTyped, Unlock
    <2>. QED  BY <2>1, <2>2 DEF IndInv, NoLostWakeup, Unlock, can_send, can_receive, closed, queue, sides
  <1>. QED  BY <1>1, <1>2, <1>3, <1>4, <1>5, ThreadsMove DEF IndInv, ThreadsInv, Unlock

\* After the wake nobody is asleep.
LEMMA WakeAllInv ==
  ASSUME IndInv, NEW t \in Thread, WakeAll(t)
  PROVE  IndInv'
  <1>1. ThreadsTyped'
    BY DEF IndInv, ThreadsInv, ThreadsTyped, WakeAll
  <1>2. LockHeld' /\ CallsFormed'
    BY DEF IndInv, ThreadsInv, ThreadsTyped, LockHeld, CallsFormed, WakeAll
  <1>3. \A u \in Thread : pc'[u] \in {"want", "asleep"} => pc[u] \in {"want", "asleep"} /\ call'[u] = call[u]
    BY DEF IndInv, ThreadsInv, ThreadsTyped, WakeAll
  <1>4. NoLostWakeup'
    BY DEF IndInv, ThreadsInv, ThreadsTyped, NoLostWakeup, WakeAll
  <1>. QED  BY <1>1, <1>2, <1>3, <1>4, ThreadsMove DEF IndInv, ThreadsInv, WakeAll

\* A wait that ends by itself only asks again.
LEMMA SpuriousInv ==
  ASSUME IndInv, NEW t \in Thread, Spurious(t)
  PROVE  IndInv'
  <1>1. ThreadsTyped'
    BY DEF IndInv, ThreadsInv, ThreadsTyped, Spurious
  <1>2. LockHeld' /\ CallsFormed'
    BY DEF IndInv, ThreadsInv, ThreadsTyped, LockHeld, CallsFormed, Spurious
  <1>3. \A u \in Thread : pc'[u] \in {"want", "asleep"} => pc[u] \in {"want", "asleep"} /\ call'[u] = call[u]
    BY DEF IndInv, ThreadsInv, ThreadsTyped, Spurious
  <1>4. NoLostWakeup'
    BY DEF IndInv, ThreadsInv, ThreadsTyped, NoLostWakeup, Spurious, can_send, can_receive, closed, queue, sides
  <1>. QED  BY <1>1, <1>2, <1>3, <1>4, ThreadsMove DEF IndInv, ThreadsInv, Spurious

\* send and try_send commit, refuse or sleep.
LEMMA SendsInv ==
  ASSUME IndInv, NEW t \in Thread, Send(t) \/ try_send(t)
  PROVE  IndInv'
  <1>0. count \in 0 .. Capacity /\ Capacity \in Nat
    BY ChannelAssumption DEF IndInv, QueueInv, QueueTyped
  <1>1. CASE Send(t)
    <2>0. pc[t] = "want" /\ lock = Nobody /\ call[t].op = "send"
      BY <1>1 DEF Send, Wants
    <2>1. CASE ~can_send /\ Sleep(t)
      BY <2>0, <2>1, SleepInv
    <2>2. CASE closed /\ Hold(t, FALSE) /\ UNCHANGED <<queue, sides, own, calls, history>>
      BY <2>0, <2>2, QuietInv DEF history
    <2>3. CASE /\ can_send /\ ~closed /\ push(call[t].item) /\ Hold(t, TRUE)
               /\ sent' = Append(sent, call[t].item) /\ UNCHANGED <<sides, own, calls, taken, ended>>
      BY <1>0, <2>0, <2>3, CommitInv DEF can_send
    <2>. QED  BY <1>1, <2>1, <2>2, <2>3 DEF Send
  <1>2. CASE try_send(t)
    <2>0. pc[t] = "want" /\ lock = Nobody /\ call[t].op = "try_send"
      BY <1>2 DEF try_send, Wants
    <2>1. CASE (closed \/ count = Capacity) /\ Hold(t, FALSE) /\ UNCHANGED <<queue, sides, own, calls, history>>
      BY <2>0, <2>1, QuietInv DEF history
    <2>2. CASE /\ ~closed /\ count # Capacity /\ push(call[t].item) /\ Hold(t, TRUE)
               /\ sent' = Append(sent, call[t].item) /\ UNCHANGED <<sides, own, calls, taken, ended>>
      <3>1. count < Capacity
        BY <1>0, <2>2
      <3>. QED  BY <2>0, <2>2, <3>1, CommitInv
    <2>. QED  BY <1>2, <2>1, <2>2 DEF try_send
  <1>. QED  BY <1>1, <1>2

\* receive and try_receive take, report the end, refuse or sleep.
LEMMA ReceivesInv ==
  ASSUME IndInv, NEW t \in Thread, Receive(t) \/ try_receive(t)
  PROVE  IndInv'
  <1>1. CASE Receive(t)
    <2>0. pc[t] = "want" /\ lock = Nobody /\ call[t].op = "receive"
      BY <1>1 DEF Receive, Wants
    <2>1. CASE ~can_receive /\ Sleep(t)
      BY <2>0, <2>1, SleepInv
    <2>2. CASE count > 0 /\ Take(t)
      BY <2>0, <2>2, TakeInv
    <2>3. CASE /\ can_receive /\ count = 0 /\ Hold(t, TRUE) /\ ended' = TRUE
               /\ UNCHANGED <<queue, sides, own, calls, sent, taken>>
      BY <2>0, <2>3, EndInv
    <2>. QED  BY <1>1, <2>1, <2>2, <2>3 DEF Receive
  <1>2. CASE try_receive(t)
    <2>0. pc[t] = "want" /\ lock = Nobody
      BY <1>2 DEF try_receive, Wants
    <2>1. CASE count > 0 /\ Take(t)
      BY <2>0, <2>1, TakeInv
    <2>2. CASE /\ count = 0 /\ Hold(t, FALSE) /\ ended' = (ended \/ sending_closed)
               /\ UNCHANGED <<queue, sides, own, calls, sent, taken>>
      BY <2>0, <2>2, QuietInv
    <2>. QED  BY <1>2, <2>1, <2>2 DEF try_receive
  <1>. QED  BY <1>1, <1>2

-----------------------------------------------------------------------------
\* The inductive invariant holds of every state the channel reaches.
THEOREM Inductive == Spec => []IndInv
  <1>1. Init => IndInv
    <2>. SUFFICES ASSUME Init PROVE IndInv
      OBVIOUS
    <2>. USE ChannelAssumption
    <2>1. QueueInv
      BY DEF Init, QueueInv, QueueTyped, Delivered
    <2>2. ThreadsInv
      BY DEF Init, ThreadsInv, ThreadsTyped, LockHeld, CallsFormed, NoCall, Call, Ops, Sides
    <2>3. SidesInv
      <3>1. SidesTyped
        <4>1. senders \in Int /\ receivers \in Int /\ calls \in 0 .. MaxCalls
          BY DEF Init
        <4>2. split \in BOOLEAN /\ sending_closed \in BOOLEAN /\ receiving_closed \in BOOLEAN /\ ended \in BOOLEAN
          BY Zenon DEF Init
        <4>. QED  BY <4>1, <4>2 DEF SidesTyped
      <3>2. EndIsMeant
        BY DEF Init, EndIsMeant
      <3>. QED  BY <3>1, <3>2 DEF SidesInv
    <2>4. OwnInv
      <3>1. \A s \in Sides : Endpoints(s) = {}
        BY DEF Init, Endpoints
      <3>2. OwnTyped /\ UnsplitOwnsNothing
        BY DEF Init, OwnTyped, UnsplitOwnsNothing
      <3>3. EndpointsFinite /\ EndpointsCounted
        BY <3>1, FS_EmptySet DEF Init, EndpointsFinite, EndpointsCounted, Sides
      <3>. QED  BY <3>2, <3>3 DEF OwnInv
    <2>5. CallersOwn /\ NoLostWakeup
      BY DEF Init, CallersOwn, NoLostWakeup
    <2>. QED  BY <2>1, <2>2, <2>3, <2>4, <2>5 DEF IndInv
  <1>2. IndInv /\ [Next]_vars => IndInv'
    <2>. SUFFICES ASSUME IndInv, [Next]_vars PROVE IndInv'
      OBVIOUS
    <2>1. CASE UNCHANGED vars
      <3>1. QueueInv' /\ SidesInv' /\ OwnInv'
        BY <2>1, QueueStays, SidesStay DEF IndInv, vars, queue, history, SidesInv, SidesTyped
      <3>2. ThreadsInv' /\ CallersOwn' /\ NoLostWakeup'
        BY <2>1 DEF IndInv, vars, queue, sides, threads, ThreadsInv, ThreadsTyped, LockHeld, CallsFormed,
                    CallersOwn, NoLostWakeup, can_send, can_receive, closed
      <3>. QED  BY <3>1, <3>2 DEF IndInv
    <2>2. ASSUME NEW t \in Thread, Begin(t) \/ Unlock(t) \/ WakeAll(t) \/ Spurious(t) PROVE IndInv'
      BY <2>2, BeginInv, UnlockInv, WakeAllInv, SpuriousInv
    <2>3. ASSUME NEW t \in Thread, Enter(t) PROVE IndInv'
      BY <2>3, SplitInv, SendsInv, ReceivesInv, ForkSenderInv, ForkReceiverInv, ReleaseSenderInv,
         ReleaseReceiverInv, CloseInv DEF Enter
    <2>. QED  BY <2>1, <2>2, <2>3 DEF Next
  <1>. QED  BY <1>1, <1>2, PTL DEF Spec

\* Items come out in order and each once, and the counts are the endpoints alive,
\* for any threads, any items and a buffer of any length.
THEOREM ChannelInvariant == Spec => []Inv
  <1>1. IndInv => Inv
    <2>. SUFFICES ASSUME IndInv PROVE Inv
      OBVIOUS
    <2>1. TypeOK
      BY DEF IndInv, TypeOK, QueueInv, QueueTyped, SidesInv, SidesTyped, ThreadsInv, ThreadsTyped, OwnInv, OwnTyped
    <2>. QED  BY <2>1, DeliveredInOrder DEF IndInv, Inv, QueueInv, OwnInv
  <1>. QED  BY <1>1, Inductive, PTL

\* No operation changes what a sleeper waits for without waking it.
THEOREM ChannelNoLostWakeup == Spec => []NoLostWakeup
  BY Inductive, PTL DEF IndInv

\* After a receiver was told of the end, nothing is delivered.
THEOREM ChannelEndIsFinal == Spec => EndIsFinal
  <1>1. IndInv /\ [Next]_vars => [ended => UNCHANGED <<taken, ended>>]_vars
    <2>. SUFFICES ASSUME IndInv, Next, ended PROVE UNCHANGED <<taken, ended>>
      OBVIOUS
    <2>0. count = 0 /\ sending_closed /\ ~(count > 0) /\ closed
      BY DEF IndInv, SidesInv, EndIsMeant, closed
    <2>1. PICK t \in Thread : Begin(t) \/ Enter(t) \/ Unlock(t) \/ WakeAll(t) \/ Spurious(t)
      BY DEF Next
    <2>2. CASE Begin(t) \/ Unlock(t) \/ WakeAll(t) \/ Spurious(t)
      BY <2>2 DEF Begin, Unlock, WakeAll, Spurious, history
    <2>3. CASE Split(t) \/ ForkSender(t) \/ ForkReceiver(t) \/ ReleaseSender(t) \/ ReleaseReceiver(t) \/ Close(t)
      BY <2>3 DEF Split, ForkSender, ForkReceiver, ReleaseSender, ReleaseReceiver, Close, history
    <2>4. CASE Send(t) \/ try_send(t)
      BY <2>0, <2>4 DEF Send, try_send, Sleep, history
    <2>5. CASE Receive(t) \/ try_receive(t)
      BY <2>0, <2>5 DEF Receive, try_receive, Sleep, history, IndInv, SidesInv, SidesTyped
    <2>. QED  BY <2>1, <2>2, <2>3, <2>4, <2>5 DEF Enter
  <1>. QED  BY <1>1, Inductive, PTL DEF Spec, EndIsFinal

=============================================================================
