------------------------ MODULE SharedHandlesProofs ------------------------
(***************************************************************************)
(* Proofs about SharedHandles, for any threads and any number of handles:  *)
(* the counts, the lifetimes and the memory order.                         *)
(***************************************************************************)
EXTENDS SharedHandles, FiniteSetTheorems, TLAPS

Kinds == {"strong", "weak"}
Freeing == {t \in Thread : pc[t] \in {"lastweak", "freeing"}}

\* The strong handles' common weak reference is still to be given back.
Owed == strong > 0 \/ Dropping # {}

Counted ==
    /\ strong = Cardinality(Of("strong"))
    /\ weak = Cardinality(Of("weak")) + (IF Owed THEN 1 ELSE 0)

\* One thread drops the payload, after the last strong handle; one thread frees
\* the block, after the last reference of any kind.
Alone ==
    /\ \A t, u \in Dropping : t = u
    /\ \A t, u \in Freeing : t = u
    /\ Dropping # {} => strong = 0
    /\ Freeing # {} => weak = 0

\* The block's life: a made block has a reference or a thread about to free it.
BlockLife ==
    /\ block = "none" => strong = 0 /\ weak = 0 /\ rel_strong = Thread
    /\ block = "made" => weak > 0 \/ Freeing # {}
    /\ block = "freed" => weak = 0
    /\ \A t \in Thread : pc[t] # "idle" => block = "made"
    /\ frees = IF block = "freed" THEN 1 ELSE 0

\* The payload's life: it is there until the last strong handle's thread takes it.
PayloadLife ==
    /\ strong > 0 => live /\ drops = 0
    /\ block = "none" => ~live /\ drops = 0
    /\ block # "none" /\ ~Owed => ~live /\ drops = 1
    /\ \A t \in Thread :
          /\ pc[t] \in {"last", "taking"} => live /\ drops = 0
          /\ pc[t] = "dropping" => ~live /\ drops <= 1 /\ (running => drops = 0)
          /\ pc[t] = "returning" => ~live /\ drops = 1

\* A thread in the middle of an upgrade has the weak handle it upgrades, and the
\* count it will exchange was not 0.
Upgraders ==
    /\ \A h \in Handle : kind[h] = "strong" => at[h] \in Thread
    /\ \A t \in Thread :
          /\ pc[t] \in {"loading", "swapping"} => Holds(t, "weak")
          /\ pc[t] = "swapping" => held[t] # 0

\* Every thread's last use of the payload is known to the count or to the thread of
\* some strong handle, then to the thread that drops, then to the weak count.
Known ==
    /\ strong > 0 => \A u \in Thread : u \in rel_strong \/ \E h \in Of("strong") : u \in seen[at[h]]
    /\ \A t \in Thread :
          /\ pc[t] = "last" => rel_strong = Thread
          /\ pc[t] \in {"taking", "dropping", "returning", "freeing"} => seen[t] = Thread
    /\ block # "none" /\ ~Owed => rel_weak = Thread

IndInv == TypeOK /\ Counted /\ Alone /\ BlockLife /\ PayloadLife /\ Upgraders /\ Known

-----------------------------------------------------------------------------
(* Handles                                                                 *)

\* What is counted is finite.
LEMMA OfFinite ==
  ASSUME NEW k
  PROVE  IsFiniteSet(Of(k))
  BY SharedAssumption, FS_Subset DEF Of

\* A count of 0 is no handle at all.
LEMMA OfNone ==
  ASSUME NEW k
  PROVE  Cardinality(Of(k)) \in Nat /\ (Cardinality(Of(k)) = 0 <=> Of(k) = {})
  BY OfFinite, FS_CardinalityType, FS_EmptySet

\* A new handle is one more of its kind, and no other handle changes.
LEMMA GainCounts ==
  ASSUME TypeOK, NEW t, NEW k \in Kinds, Gain(t, k)
  PROVE  /\ Cardinality(Of(k)') = Cardinality(Of(k)) + 1
         /\ \A j \in Kinds \ {k} : Of(j)' = Of(j)
         /\ \E h \in Of("unused") : /\ at'[h] = t /\ kind'[h] = k
                                  /\ \A g \in Handle \ {h} : kind'[g] = kind[g] /\ at'[g] = at[g]
  <1>1. PICK h \in Of("unused") : kind' = [kind EXCEPT ![h] = k] /\ at' = [at EXCEPT ![h] = t]
    BY DEF Gain
  <1>2. h \in Handle /\ kind[h] = "unused" /\ kind'[h] = k /\ at'[h] = t
    BY <1>1 DEF Of, TypeOK
  <1>3. \A g \in Handle \ {h} : kind'[g] = kind[g] /\ at'[g] = at[g]
    BY <1>1, <1>2 DEF TypeOK
  <1>4. Of(k)' = Of(k) \cup {h} /\ h \notin Of(k)
    BY <1>2, <1>3 DEF Of, Kinds
  <1>5. \A j \in Kinds \ {k} : Of(j)' = Of(j)
    BY <1>2, <1>3 DEF Of, Kinds
  <1>6. Cardinality(Of(k)') = Cardinality(Of(k)) + 1
    BY <1>4, OfFinite, FS_AddElement
  <1>. QED  BY <1>1, <1>2, <1>3, <1>4, <1>5, <1>6

\* A handle lost is one less of its kind, and no other handle changes.
LEMMA LoseCounts ==
  ASSUME TypeOK, NEW t, NEW k \in Kinds, Lose(t, k)
  PROVE  /\ Cardinality(Of(k)') = Cardinality(Of(k)) - 1
         /\ \A j \in Kinds \ {k} : Of(j)' = Of(j)
         /\ \E h \in Of(k) : /\ at[h] = t /\ kind'[h] = "unused"
                            /\ \A g \in Handle \ {h} : kind'[g] = kind[g] /\ at'[g] = at[g]
  <1>1. PICK h \in Of(k) : /\ at[h] = t
                           /\ kind' = [kind EXCEPT ![h] = "unused"] /\ at' = [at EXCEPT ![h] = Payload]
    BY DEF Lose
  <1>2. h \in Handle /\ kind[h] = k /\ kind'[h] = "unused"
    BY <1>1 DEF Of, TypeOK
  <1>3. \A g \in Handle \ {h} : kind'[g] = kind[g] /\ at'[g] = at[g]
    BY <1>1, <1>2 DEF TypeOK
  <1>4. Of(k)' = Of(k) \ {h} /\ h \in Of(k)
    BY <1>1, <1>2, <1>3 DEF Of, Kinds
  <1>5. \A j \in Kinds \ {k} : Of(j)' = Of(j)
    BY <1>2, <1>3 DEF Of, Kinds
  <1>6. Cardinality(Of(k)') = Cardinality(Of(k)) - 1
    BY <1>4, OfFinite, FS_RemoveElement
  <1>. QED  BY <1>1, <1>2, <1>3, <1>4, <1>5, <1>6

\* Whoever has a strong handle has the payload, and nothing is being dropped or freed.
LEMMA StrongMeans ==
  ASSUME IndInv, Of("strong") # {}
  PROVE  strong > 0 /\ weak > 0 /\ Owed /\ Dropping = {} /\ Freeing = {} /\ block = "made" /\ live /\ drops = 0
  <1>1. strong > 0 /\ Owed
    BY OfNone DEF IndInv, Counted, TypeOK, Owed
  <1>2. weak > 0
    BY <1>1, OfNone DEF IndInv, Counted
  <1>. QED  BY <1>1, <1>2 DEF IndInv, TypeOK, Alone, BlockLife, PayloadLife

\* Whoever has a weak handle has the block, and nobody is freeing it.
LEMMA WeakMeans ==
  ASSUME IndInv, Of("weak") # {}
  PROVE  weak > 0 /\ Freeing = {} /\ block = "made"
  <1>1. weak > 0
    BY OfNone DEF IndInv, Counted
  <1>. QED  BY <1>1 DEF IndInv, TypeOK, Alone, BlockLife

\* The thread that drops the payload is the only one, and has the block.
LEMMA DropperMeans ==
  ASSUME IndInv, NEW t \in Dropping
  PROVE  /\ strong = 0 /\ weak = Cardinality(Of("weak")) + 1 /\ weak > 0 /\ Owed /\ Of("strong") = {}
         /\ Dropping = {t} /\ Freeing = {} /\ block = "made"
  <1>1. strong = 0 /\ Owed /\ Dropping = {t}
    BY DEF IndInv, Alone, Owed
  <1>2. weak = Cardinality(Of("weak")) + 1 /\ weak > 0 /\ Of("strong") = {}
    BY <1>1, OfNone DEF IndInv, Counted
  <1>3. Freeing = {}
    BY <1>2 DEF IndInv, Alone
  <1>4. block = "made"
    BY DEF IndInv, BlockLife, Dropping
  <1>. QED  BY <1>1, <1>2, <1>3, <1>4

\* The thread that frees the block is the only one, and no handle is left.
LEMMA FreerMeans ==
  ASSUME IndInv, NEW t \in Freeing
  PROVE  /\ strong = 0 /\ weak = 0 /\ ~Owed /\ Of("strong") = {} /\ Of("weak") = {}
         /\ Dropping = {} /\ Freeing = {t} /\ block = "made"
  <1>1. weak = 0 /\ Freeing = {t}
    BY DEF IndInv, Alone
  <1>2. ~Owed /\ Of("weak") = {}
    BY <1>1, OfNone DEF IndInv, Counted
  <1>3. strong = 0 /\ Dropping = {}
    BY <1>2 DEF IndInv, TypeOK, Owed
  <1>4. Of("strong") = {}
    BY <1>3, OfNone DEF IndInv, Counted
  <1>5. block = "made"
    BY DEF IndInv, BlockLife, Freeing
  <1>. QED  BY <1>1, <1>2, <1>3, <1>4, <1>5

-----------------------------------------------------------------------------
(* Preservation, an action at a time.                                      *)

\* A new block has one strong handle and the group's weak reference.
LEMMA NewInv ==
  ASSUME IndInv, NEW t \in Thread, New(t)
  PROVE  IndInv'
  <1>a. /\ Gain(t, "strong") /\ block = "none" /\ block' = "made" /\ strong' = 1 /\ weak' = 1 /\ live' = TRUE
        /\ UNCHANGED <<pc, held, unwinding, running, drops, frees>>
    BY DEF New, ends
  <1>b. strong = 0 /\ weak = 0 /\ Dropping = {} /\ Freeing = {} /\ drops = 0 /\ frees = 0 /\ rel_strong = Thread
    BY <1>a DEF IndInv, BlockLife, PayloadLife, Dropping, Freeing
  <1>c. PICK h \in Of("unused") : /\ at'[h] = t /\ kind'[h] = "strong"
                                  /\ \A g \in Handle \ {h} : kind'[g] = kind[g] /\ at'[g] = at[g]
    BY <1>a, GainCounts DEF IndInv, Kinds
  <1>d. Cardinality(Of("strong")') = Cardinality(Of("strong")) + 1 /\ Of("weak")' = Of("weak") /\ h \in Of("strong")'
    <2>1. Cardinality(Of("strong")') = Cardinality(Of("strong")) + 1 /\ Of("weak")' = Of("weak")
      BY <1>a, GainCounts DEF IndInv, Kinds
    <2>. QED  BY <2>1, <1>c DEF Of
  <1>e. Dropping' = {} /\ Freeing' = {}
    BY <1>a, <1>b DEF Dropping, Freeing
  <1>1. TypeOK'
    BY <1>a DEF IndInv, TypeOK, Gain, Of, New, Touch
  <1>2. Counted'
    <2>1. Owed'
      BY <1>a DEF Owed
    <2>2. Cardinality(Of("strong")) = 0 /\ Cardinality(Of("weak")) = 0
      BY <1>b, OfNone DEF IndInv, Counted, Owed
    <2>. QED  BY <1>a, <1>d, <2>1, <2>2 DEF Counted
  <1>3. Alone'
    BY <1>e DEF Alone
  <1>4. BlockLife'
    BY <1>a, <1>b DEF IndInv, BlockLife
  <1>5. PayloadLife'
    BY <1>a, <1>b, <1>e DEF PayloadLife, Owed, IndInv, BlockLife
  <1>6. Upgraders'
    BY <1>a, <1>b, <1>c DEF IndInv, Upgraders, BlockLife
  <1>7. Known'
    BY <1>a, <1>b, <1>c, <1>d DEF IndInv, Known, BlockLife, New, Touch, TypeOK, Owed
  <1>. QED  BY <1>1, <1>2, <1>3, <1>4, <1>5, <1>6, <1>7 DEF IndInv

\* A use of the payload is known to its thread, which has a strong handle.
LEMMA UseInv ==
  ASSUME IndInv, NEW t \in Thread, Use(t)
  PROVE  IndInv'
  <1>a. /\ Touch(t)
        /\ UNCHANGED <<block, strong, weak, live, kind, at, pc, held, unwinding, running, drops, frees>>
    BY DEF Use, counts, handles, ends
  <1>b. PICK h \in Of("strong") : at[h] = t
    BY DEF Use, Holds
  <1>c. strong > 0 /\ Owed /\ Dropping = {} /\ Freeing = {} /\ block = "made"
    BY <1>b, StrongMeans
  <1>1. TypeOK'
    BY <1>a DEF IndInv, TypeOK, Touch
  <1>2. Counted'
    BY <1>a DEF IndInv, Counted, Owed, Dropping, Of
  <1>3. Alone'
    BY <1>a DEF IndInv, Alone, Dropping, Freeing
  <1>4. BlockLife'
    BY <1>a, <1>c DEF IndInv, BlockLife, Freeing
  <1>5. PayloadLife'
    BY <1>a DEF IndInv, PayloadLife, Owed, Dropping
  <1>6. Upgraders'
    BY <1>a DEF IndInv, Upgraders, Holds, Of
  <1>7. Known'
    <2>1. \A u \in Thread : u \in rel_strong' \/ \E g \in Of("strong") : u \in seen'[at[g]]
      <3>1. SUFFICES ASSUME NEW u \in Thread, u # t
                     PROVE  u \in rel_strong' \/ \E g \in Of("strong") : u \in seen'[at[g]]
        BY <1>a, <1>b DEF IndInv, TypeOK, Touch
      <3>. QED  BY <3>1, <1>a, <1>c DEF IndInv, TypeOK, Touch, Known, Upgraders, Of
    <2>2. Owed' /\ Of("strong")' = Of("strong") /\ Dropping' = {} /\ Freeing' = {}
      BY <1>a, <1>c DEF Owed, Of, Dropping, Freeing
    <2>. QED  BY <1>a, <2>1, <2>2 DEF Known, Dropping, Freeing
  <1>. QED  BY <1>1, <1>2, <1>3, <1>4, <1>5, <1>6, <1>7 DEF IndInv

\* A second strong handle.
LEMMA shareInv ==
  ASSUME IndInv, NEW t \in Thread, share(t)
  PROVE  IndInv'
  <1>a. /\ Gain(t, "strong") /\ strong' = strong + 1
        /\ UNCHANGED <<block, weak, live, pc, held, unwinding, running, drops, frees, seen,
                       rel_strong, rel_weak>>
    BY DEF share, ends, memory
  <1>b. strong > 0 /\ Owed /\ Dropping = {} /\ Freeing = {} /\ block = "made" /\ live /\ drops = 0 /\ weak > 0
    BY StrongMeans DEF share, Holds
  <1>c. PICK h \in Of("unused") : /\ at'[h] = t /\ kind'[h] = "strong"
                                  /\ \A g \in Handle \ {h} : kind'[g] = kind[g] /\ at'[g] = at[g]
    BY <1>a, GainCounts DEF IndInv, Kinds
  <1>d. Cardinality(Of("strong")') = Cardinality(Of("strong")) + 1 /\ Of("weak")' = Of("weak") /\ h \in Of("strong")'
    <2>1. Cardinality(Of("strong")') = Cardinality(Of("strong")) + 1 /\ Of("weak")' = Of("weak")
      BY <1>a, GainCounts DEF IndInv, Kinds
    <2>. QED  BY <2>1, <1>c DEF Of
  <1>e. Dropping' = {} /\ Freeing' = {} /\ strong' > 0 /\ Owed'
    BY <1>a, <1>b DEF IndInv, TypeOK, Dropping, Freeing, Owed
  <1>1. TypeOK'
    BY <1>a DEF IndInv, TypeOK, Gain, Of
  <1>2. Counted'
    BY <1>a, <1>b, <1>d, <1>e, OfNone DEF IndInv, Counted
  <1>3. Alone'
    BY <1>e DEF Alone
  <1>4. BlockLife'
    BY <1>a, <1>b DEF IndInv, BlockLife
  <1>5. PayloadLife'
    BY <1>a, <1>b, <1>e DEF IndInv, PayloadLife
  <1>6. Upgraders'
    BY <1>a, <1>c DEF IndInv, Upgraders, Holds, Of
  <1>7. Known'
    <2>1. \A u \in Thread : u \in rel_strong' \/ \E g \in Of("strong")' : u \in seen'[at'[g]]
      BY <1>a, <1>b, <1>c DEF IndInv, Known, Of
    <2>. QED  BY <1>a, <1>e, <2>1 DEF Known, Dropping, Freeing
  <1>. QED  BY <1>1, <1>2, <1>3, <1>4, <1>5, <1>6, <1>7 DEF IndInv

\* A weak handle from a strong one.
LEMMA downgradeInv ==
  ASSUME IndInv, NEW t \in Thread, downgrade(t)
  PROVE  IndInv'
  <1>a. /\ Gain(t, "weak") /\ weak' = weak + 1
        /\ UNCHANGED <<block, strong, live, pc, held, unwinding, running, drops, frees, seen,
                       rel_strong, rel_weak>>
    BY DEF downgrade, ends, memory
  <1>b. strong > 0 /\ Owed /\ Dropping = {} /\ Freeing = {} /\ block = "made" /\ live /\ drops = 0 /\ weak > 0
    BY StrongMeans DEF downgrade, Holds
  <1>c. PICK h \in Of("unused") : /\ at'[h] = t /\ kind'[h] = "weak"
                                  /\ \A g \in Handle \ {h} : kind'[g] = kind[g] /\ at'[g] = at[g]
    BY <1>a, GainCounts DEF IndInv, Kinds
  <1>d. Cardinality(Of("weak")') = Cardinality(Of("weak")) + 1 /\ Of("strong")' = Of("strong") /\ h \in Of("weak")'
    <2>1. Cardinality(Of("weak")') = Cardinality(Of("weak")) + 1 /\ Of("strong")' = Of("strong")
      BY <1>a, GainCounts DEF IndInv, Kinds
    <2>. QED  BY <2>1, <1>c DEF Of
  <1>e. Dropping' = {} /\ Freeing' = {} /\ Owed'
    BY <1>a, <1>b DEF Dropping, Freeing, Owed
  <1>1. TypeOK'
    BY <1>a DEF IndInv, TypeOK, Gain, Of
  <1>2. Counted'
    BY <1>a, <1>b, <1>d, <1>e, OfNone DEF IndInv, Counted
  <1>3. Alone'
    BY <1>e DEF Alone
  <1>4. BlockLife'
    BY <1>a, <1>b DEF IndInv, TypeOK, BlockLife
  <1>5. PayloadLife'
    BY <1>a, <1>b, <1>e DEF IndInv, PayloadLife
  <1>6. Upgraders'
    BY <1>a, <1>c DEF IndInv, Upgraders, Holds, Of
  <1>7. Known'
    <2>1. \A u \in Thread : u \in rel_strong' \/ \E g \in Of("strong")' : u \in seen'[at'[g]]
      BY <1>a, <1>b, <1>c DEF IndInv, Known, Of
    <2>. QED  BY <1>a, <1>e, <2>1 DEF Known, Dropping, Freeing
  <1>. QED  BY <1>1, <1>2, <1>3, <1>4, <1>5, <1>6, <1>7 DEF IndInv

\* A handle moves to another thread, which learns what the first one knows.
LEMMA GiveInv ==
  ASSUME IndInv, NEW t \in Thread, NEW u \in Thread, Give(t, u)
  PROVE  IndInv'
  <1>a. /\ Acquire(u, seen[t])
        /\ UNCHANGED <<block, strong, weak, live, kind, pc, held, unwinding, running, drops, frees,
                       rel_strong, rel_weak>>
    BY DEF Give, counts, ends
  <1>b. PICK h \in Handle : kind[h] # "unused" /\ at[h] = t /\ at' = [at EXCEPT ![h] = u]
    BY DEF Give
  <1>c. pc[t] = "idle" /\ t # u
    BY DEF Give, Idle
  <1>d. \A v \in Thread : seen[v] \subseteq seen'[v]
    BY <1>a DEF IndInv, TypeOK, Acquire
  <1>e. seen[t] \subseteq seen'[u]
    BY <1>a DEF IndInv, TypeOK, Acquire
  <1>1. TypeOK'
    BY <1>a, <1>b DEF IndInv, TypeOK, Acquire
  <1>2. Counted'
    BY <1>a DEF IndInv, Counted, Owed, Dropping, Of
  <1>3. Alone'
    BY <1>a DEF IndInv, Alone, Dropping, Freeing
  <1>4. BlockLife'
    BY <1>a DEF IndInv, BlockLife, Freeing
  <1>5. PayloadLife'
    BY <1>a DEF IndInv, PayloadLife, Owed, Dropping
  <1>6. Upgraders'
    BY <1>a, <1>b, <1>c DEF IndInv, TypeOK, Upgraders, Holds, Of
  <1>7. Known'
    <2>1. TypeOK'
      BY <1>1
    <2>2. ASSUME strong > 0
          PROVE  \A v \in Thread : v \in rel_strong \/ \E g \in Of("strong") : v \in seen'[at'[g]]
      BY <1>b, <1>d, <1>e, <2>2 DEF IndInv, TypeOK, Known, Of, Upgraders
    <2>3. \A v \in Thread : seen[v] = Thread => seen'[v] = Thread
      BY <1>d, <2>1 DEF TypeOK
    <2>. QED  BY <1>a, <2>2, <2>3 DEF IndInv, Known, Of, Owed, Dropping
  <1>. QED  BY <1>1, <1>2, <1>3, <1>4, <1>5, <1>6, <1>7 DEF IndInv

\* A weak handle kept inside the payload.
LEMMA KeepInv ==
  ASSUME IndInv, NEW t \in Thread, Keep(t)
  PROVE  IndInv'
  <1>a. /\ Touch(t) /\ pc[t] = "idle"
        /\ UNCHANGED <<block, strong, weak, live, kind, pc, held, unwinding, running, drops, frees>>
    BY DEF Keep, Idle, counts, ends
  <1>b. PICK h \in Of("strong") : at[h] = t
    BY DEF Keep, Holds
  <1>c. strong > 0 /\ Owed /\ Dropping = {} /\ Freeing = {} /\ block = "made"
    BY <1>b, StrongMeans
  <1>d. PICK w \in Of("weak") : at[w] = t /\ at' = [at EXCEPT ![w] = Payload]
    BY DEF Keep
  <1>e. \A g \in Of("strong") : at'[g] = at[g]
    BY <1>d DEF Of, IndInv, TypeOK
  <1>1. TypeOK'
    BY <1>a, <1>d DEF IndInv, TypeOK, Touch
  <1>2. Counted'
    BY <1>a DEF IndInv, Counted, Owed, Dropping, Of
  <1>3. Alone'
    BY <1>a DEF IndInv, Alone, Dropping, Freeing
  <1>4. BlockLife'
    BY <1>a, <1>c DEF IndInv, BlockLife, Freeing
  <1>5. PayloadLife'
    BY <1>a DEF IndInv, PayloadLife, Owed, Dropping
  <1>6. Upgraders'
    BY <1>a, <1>d DEF IndInv, TypeOK, Upgraders, Holds, Of
  <1>7. Known'
    <2>1. \A u \in Thread : u \in rel_strong' \/ \E g \in Of("strong") : u \in seen'[at'[g]]
      <3>1. SUFFICES ASSUME NEW u \in Thread, u # t
                     PROVE  u \in rel_strong' \/ \E g \in Of("strong") : u \in seen'[at'[g]]
        BY <1>a, <1>b, <1>e DEF IndInv, TypeOK, Touch
      <3>2. \A v \in Thread : u \in seen[v] => u \in seen'[v]
        BY <1>a, <3>1 DEF IndInv, TypeOK, Touch
      <3>3. CASE u \in rel_strong
        BY <1>a, <3>1, <3>3 DEF Touch
      <3>4. CASE \E g \in Of("strong") : u \in seen[at[g]]
        BY <1>e, <3>2, <3>4 DEF IndInv, Upgraders, Of
      <3>. QED  BY <1>c, <3>3, <3>4 DEF IndInv, Known
    <2>2. Owed' /\ Of("strong")' = Of("strong") /\ Dropping' = {} /\ Freeing' = {}
      BY <1>a, <1>c DEF Owed, Of, Dropping, Freeing
    <2>. QED  BY <1>a, <2>1, <2>2 DEF Known, Dropping, Freeing
  <1>. QED  BY <1>1, <1>2, <1>3, <1>4, <1>5, <1>6, <1>7 DEF IndInv

\* The last strong handle makes its thread the one that drops the payload.
LEMMA ReleaseStrongInv ==
  ASSUME IndInv, NEW t \in Thread, ReleaseStrong(t)
  PROVE  IndInv'
  <1>a. /\ Lose(t, "strong") /\ strong' = strong - 1 /\ rel_strong' = rel_strong \cup seen[t] /\ pc[t] = "idle"
        /\ pc' = [pc EXCEPT ![t] = IF strong = 1 THEN "last" ELSE "idle"]
        /\ UNCHANGED <<block, weak, live, held, unwinding, running, drops, frees, seen, rel_weak>>
    BY DEF ReleaseStrong, Idle, Go, ends
  <1>c. PICK h \in Of("strong") : /\ at[h] = t /\ kind'[h] = "unused"
                            /\ \A g \in Handle \ {h} : kind'[g] = kind[g] /\ at'[g] = at[g]
    BY <1>a, LoseCounts DEF IndInv, Kinds
  <1>d. Cardinality(Of("strong")') = Cardinality(Of("strong")) - 1 /\ Of("weak")' = Of("weak")
    BY <1>a, LoseCounts DEF IndInv, Kinds
  <1>b. strong > 0 /\ Owed /\ Dropping = {} /\ Freeing = {} /\ block = "made" /\ live /\ drops = 0 /\ weak > 0
    BY <1>c, StrongMeans
  <1>e. /\ Freeing' = {} /\ Owed' /\ strong' \in Nat
        /\ IF strong = 1 THEN Dropping' = {t} /\ strong' = 0 ELSE Dropping' = {} /\ strong' > 0
    BY <1>a, <1>b DEF IndInv, TypeOK, Dropping, Freeing, Owed
  <1>f. \A v \in Thread \ {t} : pc'[v] = pc[v]
    BY <1>a DEF IndInv, TypeOK
  <1>g. pc'[t] = IF strong = 1 THEN "last" ELSE "idle"
    BY <1>a DEF IndInv, TypeOK
  <1>1. TypeOK'
    BY <1>a, <1>e DEF IndInv, TypeOK, Lose, Points
  <1>2. Counted'
    BY <1>a, <1>b, <1>d, <1>e, OfNone DEF IndInv, Counted
  <1>3. Alone'
    BY <1>e DEF Alone
  <1>4. BlockLife'
    BY <1>a, <1>b DEF IndInv, TypeOK, BlockLife
  <1>5. PayloadLife'
    BY <1>a, <1>b, <1>e, <1>f, <1>g DEF IndInv, PayloadLife, Dropping
  <1>6. Upgraders'
    BY <1>a, <1>c, <1>f, <1>g DEF IndInv, Upgraders, Holds, Of
  <1>7. Known'
    <2>1. \A u \in Thread : u \in rel_strong' \/ \E g \in Of("strong")' : u \in seen'[at'[g]]
      BY <1>a, <1>b, <1>c DEF IndInv, Known, Of
    <2>2. ASSUME strong = 1
          PROVE  Of("strong")' = {}
      <3>1. Cardinality(Of("strong")') = 0
        BY <1>d, <2>2 DEF IndInv, Counted
      <3>2. IsFiniteSet(Of("strong")')
        BY SharedAssumption, FS_Subset DEF Of
      <3>. QED  BY <3>1, <3>2, FS_EmptySet
    <2>3. strong = 1 => rel_strong' = Thread
      BY <1>a, <2>1, <2>2 DEF IndInv, TypeOK
    <2>. QED  BY <1>a, <1>b, <1>e, <1>f, <1>g, <2>1, <2>3 DEF Known, Dropping, Freeing
  <1>. QED  BY <1>1, <1>2, <1>3, <1>4, <1>5, <1>6, <1>7 DEF IndInv

\* The fence learns what every release gave.
LEMMA FenceInv ==
  ASSUME IndInv, NEW t \in Thread, Fence(t)
  PROVE  IndInv'
  <1>a. /\ pc[t] = "last" /\ pc' = [pc EXCEPT ![t] = "taking"] /\ Acquire(t, rel_strong)
        /\ UNCHANGED <<block, strong, weak, live, kind, at, held, unwinding, running, drops, frees,
                       rel_strong, rel_weak>>
    BY DEF Fence, Go, counts, handles, ends
  <1>b. t \in Dropping
    BY <1>a DEF Dropping
  <1>c. /\ strong = 0 /\ weak = Cardinality(Of("weak")) + 1 /\ weak > 0 /\ Owed /\ Of("strong") = {}
        /\ Dropping = {t} /\ Freeing = {} /\ block = "made"
    BY <1>b, DropperMeans
  <1>f. \A v \in Thread \ {t} : pc'[v] = pc[v]
    BY <1>a DEF IndInv, TypeOK
  <1>g. pc'[t] = "taking"
    BY <1>a DEF IndInv, TypeOK
  <1>e. Dropping' = {t} /\ Freeing' = {} /\ Owed'
    BY <1>c, <1>f, <1>g DEF Dropping, Freeing, Owed
  <1>1. TypeOK'
    BY <1>a DEF IndInv, TypeOK, Points, Acquire
  <1>2. Counted'
    BY <1>a, <1>c, <1>e DEF IndInv, Counted, Of
  <1>3. Alone'
    BY <1>a, <1>c, <1>e DEF Alone
  <1>4. BlockLife'
    BY <1>a, <1>c, <1>e DEF IndInv, BlockLife
  <1>5. PayloadLife'
    BY <1>a, <1>c, <1>e, <1>f, <1>g DEF IndInv, PayloadLife
  <1>6. Upgraders'
    BY <1>a, <1>f, <1>g DEF IndInv, Upgraders, Holds, Of
  <1>7. Known'
    <2>1. seen'[t] = Thread /\ \A v \in Thread \ {t} : seen'[v] = seen[v]
      BY <1>a DEF IndInv, TypeOK, Known, Acquire
    <2>. QED  BY <1>a, <1>c, <1>e, <1>f, <1>g, <2>1 DEF IndInv, Known
  <1>. QED  BY <1>1, <1>2, <1>3, <1>4, <1>5, <1>6, <1>7 DEF IndInv

\* The payload is taken out.
LEMMA TakePayloadInv ==
  ASSUME IndInv, NEW t \in Thread, TakePayload(t)
  PROVE  IndInv'
  <1>a. /\ pc[t] = "taking" /\ pc' = [pc EXCEPT ![t] = "dropping"] /\ Touch(t) /\ live' = FALSE
        /\ UNCHANGED <<block, strong, weak, kind, at, held, unwinding, running, drops, frees>>
    BY DEF TakePayload, Go, handles, ends
  <1>b. t \in Dropping
    BY <1>a DEF Dropping
  <1>c. /\ strong = 0 /\ weak = Cardinality(Of("weak")) + 1 /\ weak > 0 /\ Owed /\ Of("strong") = {}
        /\ Dropping = {t} /\ Freeing = {} /\ block = "made"
    BY <1>b, DropperMeans
  <1>f. \A v \in Thread \ {t} : pc'[v] = pc[v]
    BY <1>a DEF IndInv, TypeOK
  <1>g. pc'[t] = "dropping"
    BY <1>a DEF IndInv, TypeOK
  <1>e. Dropping' = {t} /\ Freeing' = {} /\ Owed'
    BY <1>c, <1>f, <1>g DEF Dropping, Freeing, Owed
  <1>1. TypeOK'
    <2>1. seen' \in [Thread -> SUBSET Thread] /\ rel_strong' \in SUBSET Thread /\ rel_weak' \in SUBSET Thread
      BY <1>a DEF IndInv, TypeOK, Touch
    <2>2. pc' \in [Thread -> Points]
      BY <1>a DEF IndInv, TypeOK, Points
    <2>. QED  BY <1>a, <2>1, <2>2 DEF IndInv, TypeOK
  <1>2. Counted'
    BY <1>a, <1>c, <1>e DEF IndInv, Counted, Of
  <1>3. Alone'
    BY <1>a, <1>c, <1>e DEF Alone
  <1>4. BlockLife'
    BY <1>a, <1>c, <1>e DEF IndInv, BlockLife
  <1>5. PayloadLife'
    <2>1. drops = 0
      BY <1>a DEF IndInv, PayloadLife
    <2>2. \A v \in Thread \ {t} : pc[v] \notin {"last", "taking", "dropping", "returning"}
      BY <1>c DEF Dropping
    <2>. QED  BY <1>a, <1>c, <1>e, <1>f, <1>g, <2>1, <2>2 DEF PayloadLife
  <1>6. Upgraders'
    BY <1>a, <1>f, <1>g DEF IndInv, Upgraders, Holds, Of
  <1>7. Known'
    <2>1. seen'[t] = Thread
      BY <1>a DEF IndInv, TypeOK, Known, Touch
    <2>2. \A v \in Thread \ {t} : pc'[v] \notin {"last", "taking", "dropping", "returning", "freeing"}
      BY <1>c, <1>f DEF Dropping, Freeing
    <2>. QED  BY <1>a, <1>c, <1>e, <1>g, <2>1, <2>2 DEF Known
  <1>. QED  BY <1>1, <1>2, <1>3, <1>4, <1>5, <1>6, <1>7 DEF IndInv

\* A weak handle inside the payload is dropped with it: never the last reference.
LEMMA DropKeptInv ==
  ASSUME IndInv, NEW t \in Thread, DropKept(t)
  PROVE  IndInv'
  <1>a. /\ Lose(Payload, "weak") /\ weak' = weak - 1 /\ rel_weak' = rel_weak \cup seen[t] /\ pc[t] = "dropping"
        /\ pc' = [pc EXCEPT ![t] = IF weak = 1 THEN "lastweak" ELSE "dropping"]
        /\ UNCHANGED <<block, strong, live, held, unwinding, running, drops, frees, seen, rel_strong>>
    BY DEF DropKept, Go, ends
  <1>p. PICK h \in Of("weak") : /\ at[h] = Payload /\ kind'[h] = "unused"
                            /\ \A g \in Handle \ {h} : kind'[g] = kind[g] /\ at'[g] = at[g]
    BY <1>a, LoseCounts DEF IndInv, Kinds
  <1>d. Cardinality(Of("weak")') = Cardinality(Of("weak")) - 1 /\ Of("strong")' = Of("strong")
    BY <1>a, LoseCounts DEF IndInv, Kinds
  <1>b. t \in Dropping
    BY <1>a DEF Dropping
  <1>c. /\ strong = 0 /\ weak = Cardinality(Of("weak")) + 1 /\ weak > 0 /\ Owed /\ Of("strong") = {}
        /\ Dropping = {t} /\ Freeing = {} /\ block = "made"
    BY <1>b, DropperMeans
  <1>f. \A v \in Thread \ {t} : pc'[v] = pc[v]
    BY <1>a DEF IndInv, TypeOK
  <1>q. weak > 1
    BY <1>c, <1>p, OfNone
  <1>g. pc' = pc
    BY <1>a, <1>q DEF IndInv, TypeOK
  <1>e. Dropping' = {t} /\ Freeing' = {} /\ Owed'
    BY <1>c, <1>g DEF Dropping, Freeing, Owed
  <1>1. TypeOK'
    BY <1>a, <1>c, <1>g DEF IndInv, TypeOK, Lose, Of
  <1>2. Counted'
    BY <1>a, <1>c, <1>d, <1>e, OfNone DEF IndInv, Counted
  <1>3. Alone'
    BY <1>a, <1>c, <1>e DEF Alone
  <1>4. BlockLife'
    BY <1>a, <1>c, <1>e, <1>g, <1>q DEF IndInv, TypeOK, BlockLife
  <1>5. PayloadLife'
    BY <1>a, <1>c, <1>e, <1>g DEF IndInv, PayloadLife
  <1>6. Upgraders'
    <2>1. \A v \in Thread : Holds(v, "weak") => Holds(v, "weak")'
      BY <1>p, SharedAssumption DEF Holds, Of
    <2>. QED  BY <1>a, <1>p, <1>g, <2>1 DEF IndInv, Upgraders
  <1>7. Known'
    BY <1>a, <1>c, <1>e, <1>g DEF IndInv, Known
  <1>. QED  BY <1>1, <1>2, <1>3, <1>4, <1>5, <1>6, <1>7 DEF IndInv

\* The drop hook returns or panics.
LEMMA DropPayloadInv ==
  ASSUME IndInv, NEW t \in Thread, DropPayload(t)
  PROVE  IndInv'
  <1>a. /\ pc[t] = "dropping" /\ running /\ drops' = drops + 1 /\ unwinding' \in SUBSET Thread
        /\ \/ pc' = [pc EXCEPT ![t] = "returning"] /\ running' = running
           \/ pc' = pc /\ running' = FALSE
        /\ UNCHANGED <<block, strong, weak, live, kind, at, held, frees, seen, rel_strong, rel_weak>>
    BY DEF DropPayload, Go, counts, handles, memory, IndInv, TypeOK
  <1>b. t \in Dropping
    BY <1>a DEF Dropping
  <1>c. /\ strong = 0 /\ weak = Cardinality(Of("weak")) + 1 /\ weak > 0 /\ Owed /\ Of("strong") = {}
        /\ Dropping = {t} /\ Freeing = {} /\ block = "made"
    BY <1>b, DropperMeans
  <1>f. \A v \in Thread \ {t} : pc'[v] = pc[v]
    BY <1>a DEF IndInv, TypeOK
  <1>g. /\ pc'[t] \in {"dropping", "returning"} /\ (running' => pc'[t] = "returning")
        /\ running' \in BOOLEAN /\ pc' \in [Thread -> Points]
    BY <1>a DEF IndInv, TypeOK, Points
  <1>e. Dropping' = {t} /\ Freeing' = {} /\ Owed'
    BY <1>c, <1>f, <1>g DEF Dropping, Freeing, Owed
  <1>h. ~live /\ drops = 0 /\ drops' = 1
    BY <1>a DEF IndInv, PayloadLife
  <1>1. TypeOK'
    BY <1>a, <1>g, <1>h DEF IndInv, TypeOK
  <1>2. Counted'
    BY <1>a, <1>c, <1>e DEF IndInv, Counted, Of
  <1>3. Alone'
    BY <1>a, <1>c, <1>e DEF Alone
  <1>4. BlockLife'
    BY <1>a, <1>c, <1>e DEF IndInv, BlockLife
  <1>5. PayloadLife'
    <2>2. \A v \in Thread \ {t} : pc[v] \notin {"last", "taking", "dropping", "returning"}
      BY <1>c DEF Dropping
    <2>. QED  BY <1>a, <1>c, <1>e, <1>f, <1>g, <1>h, <2>2 DEF PayloadLife
  <1>6. Upgraders'
    BY <1>a, <1>f, <1>g DEF IndInv, Upgraders, Holds, Of
  <1>7. Known'
    BY <1>a, <1>c, <1>e, <1>f, <1>g DEF IndInv, Known
  <1>. QED  BY <1>1, <1>2, <1>3, <1>4, <1>5, <1>6, <1>7 DEF IndInv

\* An upgrade that finds no strong handle fails, another goes on to its exchange.
LEMMA UpgradeLoadInv ==
  ASSUME IndInv, NEW t \in Thread, UpgradeLoad(t)
  PROVE  IndInv'
  <1>a. /\ pc[t] \in {"idle", "loading"} /\ Holds(t, "weak") /\ Acquire(t, rel_strong)
        /\ held' = [held EXCEPT ![t] = strong] /\ pc' = [pc EXCEPT ![t] = IF strong = 0 THEN "idle" ELSE "swapping"]
        /\ UNCHANGED <<block, strong, weak, live, kind, at, unwinding, running, drops, frees,
                       rel_strong, rel_weak>>
    BY DEF UpgradeLoad, Go, counts, handles, ends
  <1>b. block = "made" /\ weak > 0
    BY <1>a, WeakMeans DEF Holds
  <1>f. \A v \in Thread \ {t} : pc'[v] = pc[v] /\ held'[v] = held[v]
    BY <1>a DEF IndInv, TypeOK
  <1>g. pc'[t] = (IF strong = 0 THEN "idle" ELSE "swapping") /\ held'[t] = strong
    BY <1>a DEF IndInv, TypeOK
  <1>e. Dropping' = Dropping /\ Freeing' = Freeing /\ Owed' = Owed
    BY <1>a, <1>f, <1>g DEF Dropping, Freeing, Owed
  <1>d. \A v \in Thread : seen[v] \subseteq seen'[v] /\ seen'[v] \subseteq Thread
    BY <1>a DEF IndInv, TypeOK, Acquire
  <1>1. TypeOK'
    BY <1>a DEF IndInv, TypeOK, Points, Acquire
  <1>2. Counted'
    BY <1>a, <1>e DEF IndInv, Counted, Of
  <1>3. Alone'
    BY <1>a, <1>e DEF IndInv, Alone
  <1>4. BlockLife'
    BY <1>a, <1>b, <1>e DEF IndInv, BlockLife
  <1>5. PayloadLife'
    BY <1>a, <1>e, <1>f, <1>g DEF IndInv, PayloadLife
  <1>6. Upgraders'
    BY <1>a, <1>f, <1>g DEF IndInv, Upgraders, Holds, Of
  <1>7. Known'
    <2>1. strong > 0 => \A u \in Thread : u \in rel_strong \/ \E h \in Of("strong") : u \in seen'[at[h]]
      BY <1>d DEF IndInv, Known, Upgraders, Of
    <2>2. Of("strong")' = Of("strong")
      BY <1>a DEF Of
    <2>3. \A v \in Thread : seen[v] = Thread => seen'[v] = Thread
      BY <1>d
    <2>. QED  BY <1>a, <1>e, <1>f, <1>g, <2>1, <2>2, <2>3 DEF IndInv, Known
  <1>. QED  BY <1>1, <1>2, <1>3, <1>4, <1>5, <1>6, <1>7 DEF IndInv

\* A second weak handle.
LEMMA keepInv ==
  ASSUME IndInv, NEW t \in Thread, keep(t)
  PROVE  IndInv'
  <1>a. /\ Gain(t, "weak") /\ weak' = weak + 1
        /\ UNCHANGED <<block, strong, live, pc, held, unwinding, running, drops, frees, seen,
                       rel_strong, rel_weak>>
    BY DEF keep, ends, memory
  <1>b. weak > 0 /\ Freeing = {} /\ block = "made"
    BY WeakMeans DEF keep, Holds
  <1>c. PICK h \in Of("unused") : /\ at'[h] = t /\ kind'[h] = "weak"
                                  /\ \A g \in Handle \ {h} : kind'[g] = kind[g] /\ at'[g] = at[g]
    BY <1>a, GainCounts DEF IndInv, Kinds
  <1>d. Cardinality(Of("weak")') = Cardinality(Of("weak")) + 1 /\ Of("strong")' = Of("strong") /\ h \in Of("weak")'
    <2>1. Cardinality(Of("weak")') = Cardinality(Of("weak")) + 1 /\ Of("strong")' = Of("strong")
      BY <1>a, GainCounts DEF IndInv, Kinds
    <2>. QED  BY <2>1, <1>c DEF Of
  <1>e. Dropping' = Dropping /\ Freeing' = {} /\ Owed' = Owed
    BY <1>a, <1>b DEF Dropping, Freeing, Owed
  <1>1. TypeOK'
    BY <1>a DEF IndInv, TypeOK, Gain, Of
  <1>2. Counted'
    BY <1>a, <1>d, <1>e, OfNone DEF IndInv, Counted
  <1>3. Alone'
    BY <1>a, <1>e DEF IndInv, Alone
  <1>4. BlockLife'
    BY <1>a, <1>b DEF IndInv, TypeOK, BlockLife
  <1>5. PayloadLife'
    BY <1>a, <1>e DEF IndInv, PayloadLife
  <1>6. Upgraders'
    BY <1>a, <1>c DEF IndInv, Upgraders, Holds, Of
  <1>7. Known'
    <2>1. strong > 0 => \A u \in Thread : u \in rel_strong' \/ \E g \in Of("strong")' : u \in seen'[at'[g]]
      BY <1>a, <1>c DEF IndInv, Known, Of
    <2>. QED  BY <1>a, <1>e, <2>1 DEF IndInv, Known
  <1>. QED  BY <1>1, <1>2, <1>3, <1>4, <1>5, <1>6, <1>7 DEF IndInv

\* An exchange that succeeds has a strong handle to copy; one that fails changes no count.
LEMMA UpgradeSwapInv ==
  ASSUME IndInv, NEW t \in Thread, UpgradeSwap(t)
  PROVE  IndInv'
  <1>a. /\ pc[t] = "swapping" /\ Acquire(t, rel_strong) /\ held' = [held EXCEPT ![t] = 0]
        /\ pc' = [pc EXCEPT ![t] = IF strong = held[t] THEN "idle" ELSE "loading"]
        /\ UNCHANGED <<block, weak, live, unwinding, running, drops, frees, rel_weak>>
    BY DEF UpgradeSwap, Go, ends
  <1>b. block = "made" /\ weak > 0 /\ Freeing = {} /\ held[t] # 0
    BY <1>a, WeakMeans DEF Holds, IndInv, Upgraders
  <1>f. \A v \in Thread \ {t} : pc'[v] = pc[v]
    BY <1>a DEF IndInv, TypeOK
  <1>g. pc'[t] = (IF strong = held[t] THEN "idle" ELSE "loading") /\ \A v \in Thread \ {t} : held'[v] = held[v]
    BY <1>a DEF IndInv, TypeOK
  <1>e. Dropping' = Dropping /\ Freeing' = {}
    BY <1>a, <1>b, <1>f, <1>g DEF Dropping, Freeing
  <1>d. \A v \in Thread : seen[v] \subseteq seen'[v] /\ seen'[v] \subseteq Thread
    BY <1>a DEF IndInv, TypeOK, Acquire
  <1>k. \A v \in Thread : seen[v] = Thread => seen'[v] = Thread
    BY <1>d
  <1>j. seen' \in [Thread -> SUBSET Thread] /\ held' \in [Thread -> Nat] /\ pc' \in [Thread -> Points]
    BY <1>a DEF IndInv, TypeOK, Acquire, Points
  <1>p. CASE strong # held[t]
    <2>1. UNCHANGED <<strong, kind, at, rel_strong>>
      BY <1>p DEF UpgradeSwap, handles
    <2>2. Owed' = Owed /\ Of("strong")' = Of("strong") /\ Of("weak")' = Of("weak")
      BY <2>1, <1>e DEF Owed, Of
    <2>3. TypeOK'
      BY <1>a, <1>j, <2>1 DEF IndInv, TypeOK
    <2>4. Counted' /\ Alone'
      BY <1>a, <1>b, <1>e, <2>1, <2>2 DEF IndInv, Counted, Alone
    <2>5. BlockLife' /\ PayloadLife'
      BY <1>a, <1>b, <1>e, <1>f, <1>g, <2>1, <2>2 DEF IndInv, BlockLife, PayloadLife
    <2>6. Upgraders'
      BY <1>a, <1>f, <1>g, <1>p, <2>1 DEF IndInv, Upgraders, Holds, Of
    <2>7. strong > 0 => \A u \in Thread : u \in rel_strong \/ \E h \in Of("strong") : u \in seen'[at[h]]
      BY <1>d DEF IndInv, Known, Upgraders, Of
    <2>8. Known'
      BY <1>a, <1>f, <1>g, <1>k, <1>p, <2>1, <2>2, <2>7 DEF IndInv, Known
    <2>. QED  BY <2>3, <2>4, <2>5, <2>6, <2>8 DEF IndInv
  <1>q. CASE strong = held[t]
    <2>a. Gain(t, "strong") /\ strong' = strong + 1 /\ rel_strong' = rel_strong \cup seen[t]
      BY <1>q DEF UpgradeSwap
    <2>b. strong > 0 /\ Owed /\ Dropping = {} /\ live /\ drops = 0
      BY <1>b, <1>q DEF IndInv, TypeOK, Owed, Alone, PayloadLife
    <2>c. PICK h \in Of("unused") : /\ at'[h] = t /\ kind'[h] = "strong"
                                    /\ \A g \in Handle \ {h} : kind'[g] = kind[g] /\ at'[g] = at[g]
      BY <2>a, GainCounts DEF IndInv, Kinds
    <2>d. Cardinality(Of("strong")') = Cardinality(Of("strong")) + 1 /\ Of("weak")' = Of("weak")
      BY <2>a, GainCounts DEF IndInv, Kinds
    <2>e. Owed' /\ strong' > 0 /\ Dropping' = {}
      BY <1>e, <2>a, <2>b DEF IndInv, TypeOK, Owed
    <2>3. TypeOK'
      BY <1>a, <1>j, <2>a DEF IndInv, TypeOK, Gain, Of
    <2>4. Counted' /\ Alone'
      BY <1>a, <1>e, <2>a, <2>b, <2>d, <2>e, OfNone DEF IndInv, Counted, Alone
    <2>5. BlockLife' /\ PayloadLife'
      BY <1>a, <1>b, <1>f, <1>g, <2>b, <2>e DEF IndInv, BlockLife, PayloadLife
    <2>6. Upgraders'
      BY <1>a, <1>f, <1>g, <1>q, <2>c DEF IndInv, Upgraders, Holds, Of
    <2>7. \A u \in Thread : u \in rel_strong' \/ \E g \in Of("strong")' : u \in seen'[at'[g]]
      <3>1. SUFFICES ASSUME NEW u \in Thread, NEW g \in Of("strong"), u \in seen[at[g]]
                     PROVE  \E k \in Of("strong")' : u \in seen'[at'[k]]
        BY <2>a, <2>b DEF IndInv, Known
      <3>2. g \in Of("strong")' /\ at'[g] = at[g] /\ at[g] \in Thread
        BY <2>c DEF Of, IndInv, Upgraders
      <3>. QED  BY <3>1, <3>2, <1>d
    <2>8. Known'
      BY <1>a, <1>e, <2>e, <2>7 DEF Known, Dropping, Freeing
    <2>. QED  BY <2>3, <2>4, <2>5, <2>6, <2>8 DEF IndInv
  <1>. QED  BY <1>p, <1>q

\* The group's weak reference is given back.
LEMMA ReturnGroupInv ==
  ASSUME IndInv, NEW t \in Thread, ReturnGroup(t)
  PROVE  IndInv'
  <1>a. /\ pc[t] = "returning" /\ weak' = weak - 1 /\ rel_weak' = rel_weak \cup seen[t]
        /\ pc' = [pc EXCEPT ![t] = IF weak = 1 THEN "lastweak" ELSE "idle"]
        /\ UNCHANGED <<block, strong, live, kind, at, held, unwinding, running, drops, frees, seen, rel_strong>>
    BY DEF ReturnGroup, release_block, Go, handles, ends
  <1>b. t \in Dropping
    BY <1>a DEF Dropping
  <1>c. /\ strong = 0 /\ weak = Cardinality(Of("weak")) + 1 /\ weak > 0 /\ Owed /\ Of("strong") = {}
        /\ Dropping = {t} /\ Freeing = {} /\ block = "made"
    BY <1>b, DropperMeans
  <1>f. \A v \in Thread \ {t} : pc'[v] = pc[v]
    BY <1>a DEF IndInv, TypeOK
  <1>g. pc'[t] = IF weak = 1 THEN "lastweak" ELSE "idle"
    BY <1>a DEF IndInv, TypeOK
  <1>e. Dropping' = {} /\ Freeing' = (IF weak = 1 THEN {t} ELSE {}) /\ ~Owed'
    BY <1>a, <1>c, <1>f, <1>g DEF Dropping, Freeing, Owed
  <1>d. weak' \in Nat /\ (weak = 1 <=> weak' = 0)
    BY <1>a, <1>c DEF IndInv, TypeOK
  <1>h. ~live /\ drops = 1 /\ rel_weak' = Thread
    BY <1>a DEF IndInv, PayloadLife, Known, TypeOK
  <1>1. TypeOK'
    BY <1>a, <1>d, <1>h DEF IndInv, TypeOK, Points
  <1>2. Counted'
    <2>1. Of("strong")' = Of("strong") /\ Of("weak")' = Of("weak")
      BY <1>a DEF Of
    <2>. QED  BY <1>a, <1>c, <1>e, <2>1, OfNone DEF IndInv, Counted
  <1>3. Alone'
    BY <1>d, <1>e DEF Alone
  <1>4. BlockLife'
    BY <1>a, <1>c, <1>d, <1>e DEF IndInv, TypeOK, BlockLife
  <1>5. PayloadLife'
    BY <1>a, <1>c, <1>e, <1>h DEF PayloadLife, Dropping
  <1>6. Upgraders'
    BY <1>a, <1>f, <1>g DEF IndInv, Upgraders, Holds, Of
  <1>7. Known'
    BY <1>a, <1>c, <1>f, <1>g, <1>h DEF IndInv, Known, Dropping, Freeing
  <1>. QED  BY <1>1, <1>2, <1>3, <1>4, <1>5, <1>6, <1>7 DEF IndInv

\* A weak handle is released.
LEMMA ReleaseWeakInv ==
  ASSUME IndInv, NEW t \in Thread, ReleaseWeak(t)
  PROVE  IndInv'
  <1>a. /\ Lose(t, "weak") /\ pc[t] = "idle" /\ weak' = weak - 1 /\ rel_weak' = rel_weak \cup seen[t]
        /\ pc' = [pc EXCEPT ![t] = IF weak = 1 THEN "lastweak" ELSE "idle"]
        /\ UNCHANGED <<block, strong, live, held, unwinding, running, drops, frees, seen, rel_strong>>
    BY DEF ReleaseWeak, Idle, release_block, Go, ends
  <1>c. PICK h \in Of("weak") : /\ at[h] = t /\ kind'[h] = "unused"
                            /\ \A g \in Handle \ {h} : kind'[g] = kind[g] /\ at'[g] = at[g]
    BY <1>a, LoseCounts DEF IndInv, Kinds
  <1>d. Cardinality(Of("weak")') = Cardinality(Of("weak")) - 1 /\ Of("strong")' = Of("strong")
    BY <1>a, LoseCounts DEF IndInv, Kinds
  <1>b. weak > 0 /\ Freeing = {} /\ block = "made"
    BY <1>c, WeakMeans
  <1>f. \A v \in Thread \ {t} : pc'[v] = pc[v]
    BY <1>a DEF IndInv, TypeOK
  <1>g. pc'[t] = IF weak = 1 THEN "lastweak" ELSE "idle"
    BY <1>a DEF IndInv, TypeOK
  <1>e. Dropping' = Dropping /\ Freeing' = (IF weak = 1 THEN {t} ELSE {}) /\ Owed' = Owed
    BY <1>a, <1>b, <1>f, <1>g DEF Dropping, Freeing, Owed
  <1>h. weak' \in Nat /\ (weak = 1 <=> weak' = 0)
    BY <1>a, <1>b DEF IndInv, TypeOK
  <1>1. TypeOK'
    <2>1. pc' \in [Thread -> Points] /\ rel_weak' \in SUBSET Thread
      BY <1>a DEF IndInv, TypeOK, Points
    <2>. QED  BY <1>a, <1>h, <2>1 DEF IndInv, TypeOK, Lose, Of
  <1>2. Counted'
    BY <1>a, <1>d, <1>e, OfNone DEF IndInv, Counted
  <1>3. Alone'
    BY <1>a, <1>h, <1>e DEF IndInv, Alone
  <1>4. BlockLife'
    BY <1>a, <1>b, <1>e, <1>h DEF IndInv, TypeOK, BlockLife
  <1>5. PayloadLife'
    BY <1>a, <1>e, <1>f, <1>g DEF IndInv, PayloadLife
  <1>6. Upgraders'
    BY <1>a, <1>c, <1>f, <1>g DEF IndInv, Upgraders, Holds, Of
  <1>7. Known'
    <2>1. strong > 0 => \A u \in Thread : u \in rel_strong' \/ \E g \in Of("strong")' : u \in seen'[at'[g]]
      BY <1>a, <1>c, <1>d DEF IndInv, Known, Of
    <2>2. block # "none" /\ ~Owed => rel_weak' = Thread
      BY <1>a DEF IndInv, TypeOK, Known
    <2>. QED  BY <1>a, <1>e, <1>f, <1>g, <2>1, <2>2 DEF IndInv, Known
  <1>. QED  BY <1>1, <1>2, <1>3, <1>4, <1>5, <1>6, <1>7 DEF IndInv

\* The fence of the last weak release learns that the payload was taken out.
LEMMA FenceWeakInv ==
  ASSUME IndInv, NEW t \in Thread, FenceWeak(t)
  PROVE  IndInv'
  <1>a. /\ pc[t] = "lastweak" /\ pc' = [pc EXCEPT ![t] = "freeing"] /\ Acquire(t, rel_weak)
        /\ UNCHANGED <<block, strong, weak, live, kind, at, held, unwinding, running, drops, frees,
                       rel_strong, rel_weak>>
    BY DEF FenceWeak, Go, counts, handles, ends
  <1>b. t \in Freeing
    BY <1>a DEF Freeing
  <1>c. /\ strong = 0 /\ weak = 0 /\ ~Owed /\ Of("strong") = {} /\ Of("weak") = {}
        /\ Dropping = {} /\ Freeing = {t} /\ block = "made"
    BY <1>b, FreerMeans
  <1>f. \A v \in Thread \ {t} : pc'[v] = pc[v]
    BY <1>a DEF IndInv, TypeOK
  <1>g. pc'[t] = "freeing"
    BY <1>a DEF IndInv, TypeOK
  <1>e. Dropping' = {} /\ Freeing' = {t} /\ ~Owed'
    BY <1>a, <1>c, <1>f, <1>g DEF Dropping, Freeing, Owed
  <1>1. TypeOK'
    BY <1>a DEF IndInv, TypeOK, Points, Acquire
  <1>2. Counted'
    BY <1>a, <1>c, <1>e DEF IndInv, Counted, Of
  <1>3. Alone'
    BY <1>a, <1>c, <1>e DEF Alone
  <1>4. BlockLife'
    BY <1>a, <1>c, <1>e DEF IndInv, BlockLife
  <1>5. PayloadLife'
    BY <1>a, <1>c, <1>e, <1>f, <1>g DEF IndInv, PayloadLife
  <1>6. Upgraders'
    BY <1>a, <1>f, <1>g DEF IndInv, Upgraders, Holds, Of
  <1>7. Known'
    <2>1. rel_weak = Thread /\ seen'[t] = Thread /\ \A v \in Thread \ {t} : seen'[v] = seen[v]
      BY <1>a, <1>c DEF IndInv, TypeOK, Known, Acquire
    <2>. QED  BY <1>a, <1>c, <1>e, <1>f, <1>g, <2>1 DEF IndInv, Known
  <1>. QED  BY <1>1, <1>2, <1>3, <1>4, <1>5, <1>6, <1>7 DEF IndInv

\* The block is freed once.
LEMMA FreeInv ==
  ASSUME IndInv, NEW t \in Thread, Free(t)
  PROVE  IndInv'
  <1>a. /\ pc[t] = "freeing" /\ pc' = [pc EXCEPT ![t] = "idle"] /\ block' = "freed" /\ frees' = frees + 1
        /\ UNCHANGED <<strong, weak, live, kind, at, held, unwinding, running, drops, seen,
                       rel_strong, rel_weak>>
    BY DEF Free, Go, handles, memory
  <1>b. t \in Freeing
    BY <1>a DEF Freeing
  <1>c. /\ strong = 0 /\ weak = 0 /\ ~Owed /\ Of("strong") = {} /\ Of("weak") = {}
        /\ Dropping = {} /\ Freeing = {t} /\ block = "made"
    BY <1>b, FreerMeans
  <1>f. \A v \in Thread \ {t} : pc'[v] = pc[v]
    BY <1>a DEF IndInv, TypeOK
  <1>g. pc'[t] = "idle"
    BY <1>a DEF IndInv, TypeOK
  <1>e. Dropping' = {} /\ Freeing' = {} /\ ~Owed' /\ frees = 0
    BY <1>a, <1>c, <1>f, <1>g DEF IndInv, BlockLife, Dropping, Freeing, Owed
  <1>h. \A v \in Thread : pc'[v] = "idle"
    <2>1. \A v \in Thread \ {t} : pc[v] \notin {"loading", "swapping"}
      BY <1>c DEF IndInv, Upgraders, Holds
    <2>2. \A v \in Thread \ {t} : pc[v] \in Points /\ v \notin Dropping /\ v \notin Freeing
      BY <1>c DEF IndInv, TypeOK
    <2>. QED  BY <1>f, <1>g, <2>1, <2>2 DEF Points, Dropping, Freeing
  <1>1. TypeOK'
    BY <1>a, <1>e DEF IndInv, TypeOK, Points
  <1>2. Counted'
    BY <1>a, <1>c, <1>e DEF IndInv, Counted, Of
  <1>3. Alone'
    BY <1>e DEF Alone
  <1>4. BlockLife'
    BY <1>a, <1>c, <1>e, <1>h DEF IndInv, BlockLife
  <1>5. PayloadLife'
    BY <1>a, <1>c, <1>e, <1>h DEF IndInv, PayloadLife
  <1>6. Upgraders'
    BY <1>a, <1>h DEF IndInv, Upgraders
  <1>7. Known'
    BY <1>a, <1>c, <1>h DEF IndInv, Known
  <1>. QED  BY <1>1, <1>2, <1>3, <1>4, <1>5, <1>6, <1>7 DEF IndInv

\* The process ends.
LEMMA AbortInv ==
  ASSUME IndInv, NEW t \in Thread, Abort(t)
  PROVE  IndInv'
  <1>a. /\ running' = FALSE
        /\ UNCHANGED <<block, strong, weak, live, kind, at, pc, held, unwinding, drops, frees,
                       seen, rel_strong, rel_weak>>
    BY DEF Abort, counts, handles, memory
  <1>b. Dropping' = Dropping /\ Freeing' = Freeing /\ Owed' = Owed
    BY <1>a DEF Dropping, Freeing, Owed
  <1>1. TypeOK'
    BY <1>a DEF IndInv, TypeOK
  <1>2. Counted'
    BY <1>a, <1>b DEF IndInv, Counted, Of
  <1>3. Alone'
    BY <1>a, <1>b DEF IndInv, Alone
  <1>4. BlockLife'
    BY <1>a, <1>b DEF IndInv, BlockLife
  <1>5. PayloadLife'
    BY <1>a, <1>b DEF IndInv, PayloadLife
  <1>6. Upgraders'
    BY <1>a DEF IndInv, Upgraders, Holds, Of
  <1>7. Known'
    BY <1>a, <1>b DEF IndInv, Known, Of
  <1>. QED  BY <1>1, <1>2, <1>3, <1>4, <1>5, <1>6, <1>7 DEF IndInv

-----------------------------------------------------------------------------
(* The theorems                                                            *)

\* A new program has no block.
LEMMA InitInv == Init => IndInv
  <1>. SUFFICES ASSUME Init PROVE IndInv
    OBVIOUS
  <1>1. TypeOK
    <2>1. live \in BOOLEAN /\ running \in BOOLEAN
      BY Zenon DEF Init
    <2>. QED  BY <2>1 DEF Init, TypeOK, Points
  <1>2. Dropping = {} /\ Freeing = {} /\ ~Owed /\ Of("strong") = {} /\ Of("weak") = {}
    BY DEF Init, Dropping, Freeing, Owed, Of
  <1>3. Counted
    BY <1>2, FS_EmptySet DEF Init, Counted
  <1>. QED  BY <1>1, <1>2, <1>3 DEF Init, IndInv, Alone, BlockLife, PayloadLife, Upgraders, Known

\* Every step keeps the invariant.
LEMMA StepInv == IndInv /\ [Next]_vars => IndInv'
  <1>. SUFFICES ASSUME IndInv, [Next]_vars PROVE IndInv'
    OBVIOUS
  <1>1. CASE UNCHANGED vars
    <2>1. UNCHANGED <<block, strong, weak, live, kind, at, pc, held, unwinding, running, drops,
                      frees, seen, rel_strong, rel_weak>>
      BY <1>1 DEF vars, counts, handles, ends, memory
    <2>2. Dropping' = Dropping /\ Freeing' = Freeing /\ Owed' = Owed
      BY <2>1 DEF Dropping, Freeing, Owed
    <2>3. TypeOK' /\ Counted' /\ Alone'
      BY <2>1, <2>2 DEF IndInv, TypeOK, Counted, Alone, Of
    <2>4. BlockLife' /\ PayloadLife'
      BY <2>1, <2>2 DEF IndInv, BlockLife, PayloadLife
    <2>5. Upgraders' /\ Known'
      BY <2>1, <2>2 DEF IndInv, Upgraders, Known, Of, Holds
    <2>. QED  BY <2>3, <2>4, <2>5 DEF IndInv
  <1>2. CASE Next
    BY <1>2, NewInv, UseInv, shareInv, downgradeInv, KeepInv, ReleaseStrongInv, FenceInv, TakePayloadInv,
       DropKeptInv, DropPayloadInv, UpgradeLoadInv, UpgradeSwapInv, keepInv, ReturnGroupInv, ReleaseWeakInv,
       FenceWeakInv, FreeInv, AbortInv, GiveInv DEF Next
  <1>. QED  BY <1>1, <1>2

\* The threads that drop the payload, and the strong handles as a group, are one or none.
LEMMA DroppingCounted ==
  ASSUME IndInv
  PROVE  Cardinality(Dropping) = IF Dropping = {} THEN 0 ELSE 1
  <1>1. CASE Dropping = {}
    BY <1>1, FS_EmptySet
  <1>2. CASE Dropping # {}
    <2>1. PICK t \in Dropping : TRUE
      BY <1>2
    <2>2. Dropping = {t}
      BY <2>1, DropperMeans
    <2>. QED  BY <2>2, FS_Singleton
  <1>. QED  BY <1>1, <1>2

\* The inductive invariant is the handles' invariant and more.
LEMMA IndImplies == IndInv => Inv /\ DestroyedAfterUse /\ NothingLeaks
  <1>. SUFFICES ASSUME IndInv PROVE Inv /\ DestroyedAfterUse /\ NothingLeaks
    OBVIOUS
  <1>1. HandlesCounted
    <2>1. PICK n \in Nat : n = Cardinality(Of("weak"))
      BY OfNone
    <2>2. strong > 0 => Cardinality(Dropping) = 0
      BY DroppingCounted DEF IndInv, Alone
    <2>3. Cardinality(Dropping) \in {0, 1} /\ (Owed <=> strong > 0 \/ Cardinality(Dropping) = 1)
      BY DroppingCounted DEF Owed
    <2>4. Cardinality(Dropping) + (IF strong > 0 THEN 1 ELSE 0) = IF Owed THEN 1 ELSE 0
      BY <2>2, <2>3
    <2>5. weak = n + Cardinality(Dropping) + (IF strong > 0 THEN 1 ELSE 0)
      BY <2>1, <2>2, <2>3 DEF IndInv, Counted
    <2>. QED  BY <2>1, <2>4, <2>5 DEF IndInv, Counted, HandlesCounted
  <1>2. HandlesReach
    <2>1. Of("strong") # {} => live /\ block = "made"
      BY StrongMeans
    <2>2. Of("weak") # {} => block = "made"
      BY WeakMeans
    <2>3. \A t \in Thread : pc[t] # "idle" => block = "made"
      BY DEF IndInv, BlockLife
    <2>4. (frees = 1 <=> block = "freed") /\ frees \in {0, 1}
      BY DEF IndInv, BlockLife
    <2>5. drops \in {0, 1} /\ (drops = 1 => ~live)
      <3>1. CASE strong > 0 \/ block = "none"
        BY <3>1 DEF IndInv, PayloadLife
      <3>2. CASE block # "none" /\ ~Owed
        BY <3>2 DEF IndInv, PayloadLife
      <3>3. ASSUME NEW t \in Dropping
            PROVE  drops \in {0, 1} /\ (drops = 1 => ~live)
        BY DEF IndInv, TypeOK, PayloadLife, Dropping
      <3>. QED  BY <3>1, <3>2, <3>3 DEF Owed
    <2>. QED  BY <2>1, <2>2, <2>3, <2>4, <2>5 DEF HandlesReach
  <1>3. DestroyedAfterUse
    BY DEF IndInv, Known, DestroyedAfterUse
  <1>4. NothingLeaks
    <2>1. SUFFICES ASSUME block # "none", Of("unused") = Handle, \A t \in Thread : pc[t] = "idle"
                   PROVE  drops = 1 /\ frees = 1 /\ ~live
      BY DEF NothingLeaks
    <2>2. Of("strong") = {} /\ Of("weak") = {} /\ Dropping = {} /\ Freeing = {}
      BY <2>1 DEF Of, Dropping, Freeing
    <2>3. strong = 0 /\ weak = 0 /\ ~Owed
      BY <2>2, FS_EmptySet DEF IndInv, Counted, Owed
    <2>. QED  BY <2>1, <2>2, <2>3 DEF IndInv, TypeOK, BlockLife, PayloadLife
  <1>. QED  BY <1>1, <1>2, <1>3, <1>4 DEF IndInv, Inv

\* The counts of shared.loke are exact, and what a handle names is there, through
\* every race of upgrades, copies and releases on any number of threads.
THEOREM HandlesInvariant == Spec => []Inv
  <1>1. IndInv => Inv
    BY IndImplies
  <1>. QED  BY <1>1, InitInv, StepInv, PTL DEF Spec

\* The thread that takes the payload out, and the one that frees the block, has
\* seen every other thread's last use: the releases and fences are enough.
THEOREM HandlesDestroyedAfterUse == Spec => []DestroyedAfterUse
  <1>1. IndInv => DestroyedAfterUse
    BY IndImplies
  <1>. QED  BY <1>1, InitInv, StepInv, PTL DEF Spec

\* Nothing is left behind when the last handle is gone, a panicking drop included.
THEOREM HandlesNothingLeaks == Spec => []NothingLeaks
  <1>1. IndInv => NothingLeaks
    BY IndImplies
  <1>. QED  BY <1>1, InitInv, StepInv, PTL DEF Spec

=============================================================================
