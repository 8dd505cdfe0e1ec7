---------------------------- MODULE RuntimeProofs ----------------------------
(***************************************************************************)
(* Proofs about the state the C runtime keeps for threads, for any         *)
(* threads: the numeric locale, with any supply of locales, the store of   *)
(* strings, with any allocators, blocks and handles, the panic frames,     *)
(* with any depth of calls and any number of registered actions, and the   *)
(* 128-bit atomics, with halves of any width.                              *)
(***************************************************************************)
EXTENDS MCRuntime, Bits, Integers, FiniteSetTheorems, SequenceTheorems, NaturalsInduction,
        WellFoundedInduction, TLAPS

-----------------------------------------------------------------------------
(* The numeric locale: the inductive invariant.                            *)

Makers == {t \in LocaleThread : locPc[t] \in {"publishing", "freeing"}}
Shared == {cached} \ {Null}

\* What a maker holds is its own; what a user holds is the cached locale.
MakersHold ==
    /\ \A t \in Makers : held[t] \in Locale /\ held[t] # cached
    /\ \A t, u \in Makers : held[t] = held[u] => t = u
    /\ \A t \in LocaleThread : locPc[t] = "freeing" => cached # Null
    /\ \A t \in LocaleThread : locPc[t] = "using" => held[t] = cached /\ cached # Null

\* The locales that exist, and how many.
LiveIs == live = Shared \cup {held[t] : t \in Makers}
LiveCounted ==
    /\ IsFiniteSet(live) /\ IsFiniteSet(Makers)
    /\ Cardinality(live) = Cardinality(Shared) + Cardinality(Makers)

LocalesIndInv == Locales!TypeOK /\ MakersHold /\ LiveIs /\ LiveCounted

-----------------------------------------------------------------------------
(* The numeric locale: preservation, an action at a time.                  *)

\* The cached locale counts for one, no locale for none.
LEMMA SharedCounts ==
  ASSUME Locales!TypeOK
  PROVE  Cardinality(Shared) = IF cached = Null THEN 0 ELSE 1
  <1>1. CASE cached = Null
    <2>1. Shared = {}
      BY <1>1 DEF Shared
    <2>. QED  BY <1>1, <2>1, FS_EmptySet
  <1>2. CASE cached # Null
    <2>1. Shared = {cached}
      BY <1>2 DEF Shared
    <2>. QED  BY <1>2, <2>1, FS_Singleton
  <1>. QED  BY <1>1, <1>2

\* A step that neither makes nor frees a locale, nor turns to it, keeps the counts.
LEMMA LocalesStay ==
  ASSUME LocalesIndInv, UNCHANGED <<cached, live>>,
         \A t \in LocaleThread : locPc'[t] \in {"publishing", "freeing"} <=> locPc[t] \in {"publishing", "freeing"},
         \A t \in Makers : held'[t] = held[t]
  PROVE  LiveIs' /\ LiveCounted'
  <1>1. Makers' = Makers /\ Shared' = Shared
    BY DEF Makers, Shared
  <1>2. LiveIs'
    BY <1>1 DEF LocalesIndInv, LiveIs
  <1>3. LiveCounted'
    BY <1>1 DEF LocalesIndInv, LiveCounted
  <1>. QED  BY <1>2, <1>3

\* A call begins, loads the cell, fails to make a locale, or uses the one it has.
LEMMA QuietLocaleInv ==
  ASSUME LocalesIndInv, NEW t \in LocaleThread,
         Locales!Call(t) \/ Locales!Load(t) \/ Locales!MakeFails(t) \/ Locales!Use(t)
  PROVE  LocalesIndInv'
  <1>. USE PartsAssumption DEF Locales!LocaleAssumption, Locales!At, Locales!Go
  <1>0. t \notin Makers /\ UNCHANGED <<cached, live>>
    BY DEF Locales!Call, Locales!Load, Locales!MakeFails, Locales!Use, Makers
  <1>1. Locales!TypeOK'
    <2>1. CASE Locales!Call(t)
      BY <2>1 DEF LocalesIndInv, Locales!TypeOK, Locales!Answers, Locales!Call
    <2>2. CASE Locales!Load(t)
      BY <2>2 DEF LocalesIndInv, Locales!TypeOK, Locales!Answers, Locales!Load
    <2>3. CASE Locales!MakeFails(t)
      <3>1. locRunning' \in BOOLEAN
        BY <2>3 DEF LocalesIndInv, Locales!TypeOK, Locales!MakeFails
      <3>. QED  BY <2>3, <3>1 DEF LocalesIndInv, Locales!TypeOK, Locales!Answers, Locales!MakeFails
    <2>4. CASE Locales!Use(t)
      BY <2>4 DEF LocalesIndInv, Locales!TypeOK, Locales!Answers, Locales!Use
    <2>. QED  BY <2>1, <2>2, <2>3, <2>4
  <1>2. \A u \in LocaleThread : u # t => locPc'[u] = locPc[u] /\ held'[u] = held[u]
    BY DEF LocalesIndInv, Locales!TypeOK, Locales!Call, Locales!Load, Locales!MakeFails, Locales!Use
  <1>3. locPc'[t] \notin {"publishing", "freeing"} /\ (locPc'[t] = "using" => held'[t] = cached /\ cached # Null)
    BY DEF LocalesIndInv, Locales!TypeOK, Locales!Call, Locales!Load, Locales!MakeFails, Locales!Use
  <1>4. MakersHold'
    BY <1>0, <1>2, <1>3 DEF LocalesIndInv, MakersHold, Makers
  <1>5. LiveIs' /\ LiveCounted'
    BY <1>0, <1>2, <1>3, LocalesStay DEF Makers
  <1>. QED  BY <1>1, <1>4, <1>5 DEF LocalesIndInv

\* A locale is made, and is its maker's.
LEMMA MakeInv ==
  ASSUME LocalesIndInv, NEW t \in LocaleThread, Locales!Make(t)
  PROVE  LocalesIndInv'
  <1>. USE PartsAssumption DEF Locales!LocaleAssumption, Locales!At, Locales!Go
  <1>1. PICK l \in Locale \ live : held' = [held EXCEPT ![t] = l] /\ live' = live \cup {l}
    BY DEF Locales!Make
  <1>2. t \notin Makers /\ Makers' = Makers \cup {t} /\ UNCHANGED cached
    BY DEF Locales!Make, Makers, LocalesIndInv, Locales!TypeOK
  <1>3. l # cached /\ \A u \in Makers : held[u] # l /\ held'[u] = held[u] /\ u # t
    BY <1>1, <1>2 DEF LocalesIndInv, LiveIs, Shared, Makers, Locales!TypeOK
  <1>4. Locales!TypeOK'
    BY <1>1 DEF LocalesIndInv, Locales!TypeOK, Locales!Make
  <1>5. held'[t] = l
    BY <1>1 DEF LocalesIndInv, Locales!TypeOK
  <1>6. MakersHold'
    <2>1. \A u \in Makers' : held'[u] \in Locale /\ held'[u] # cached'
      BY <1>2, <1>3, <1>5 DEF LocalesIndInv, MakersHold
    <2>2. \A u, v \in Makers' : held'[u] = held'[v] => u = v
      BY <1>2, <1>3, <1>5 DEF LocalesIndInv, MakersHold
    <2>3. \A u \in LocaleThread : locPc'[u] = "freeing" => cached' # Null
      BY <1>2 DEF LocalesIndInv, MakersHold, Locales!Make, Locales!TypeOK
    <2>4. \A u \in LocaleThread : locPc'[u] = "using" => held'[u] = cached' /\ cached' # Null
      BY <1>1, <1>2 DEF LocalesIndInv, MakersHold, Locales!Make, Locales!TypeOK
    <2>. QED  BY <2>1, <2>2, <2>3, <2>4 DEF MakersHold
  <1>7. LiveIs'
    BY <1>1, <1>2, <1>3, <1>5 DEF LocalesIndInv, LiveIs, Shared
  <1>8. LiveCounted'
    <2>1. /\ IsFiniteSet(live') /\ Cardinality(live') = Cardinality(live) + 1
          /\ IsFiniteSet(Makers') /\ Cardinality(Makers') = Cardinality(Makers) + 1
      BY <1>1, <1>2, FS_AddElement DEF LocalesIndInv, LiveCounted
    <2>2. Cardinality(Shared) \in Nat /\ Cardinality(live) \in Nat /\ Cardinality(Makers) \in Nat
      BY SharedCounts, FS_CardinalityType DEF LocalesIndInv, LiveCounted
    <2>3. Shared' = Shared
      BY <1>2 DEF Shared
    <2>. QED  BY <2>1, <2>2, <2>3 DEF LocalesIndInv, LiveCounted
  <1>. QED  BY <1>4, <1>6, <1>7, <1>8 DEF LocalesIndInv

\* One maker's locale becomes everyone's; the others are to be freed.
LEMMA PublishInv ==
  ASSUME LocalesIndInv, NEW t \in LocaleThread, Locales!Publish(t)
  PROVE  LocalesIndInv'
  <1>. USE PartsAssumption DEF Locales!LocaleAssumption, Locales!At, Locales!Go
  <1>0. t \in Makers /\ held[t] \in Locale /\ UNCHANGED <<held, live>>
    BY DEF Locales!Publish, Makers, LocalesIndInv, MakersHold
  <1>1. Locales!TypeOK'
    BY <1>0 DEF LocalesIndInv, Locales!TypeOK, Locales!Publish
  <1>2. CASE cached = Null
    <2>1. cached' = held[t] /\ Makers' = Makers \ {t} /\ locPc' = [locPc EXCEPT ![t] = "using"]
      BY <1>2 DEF Locales!Publish, Makers, LocalesIndInv, Locales!TypeOK
    <2>2. MakersHold'
      BY <1>0, <1>2, <2>1 DEF LocalesIndInv, MakersHold, Locales!TypeOK, Makers
    <2>3. Shared = {} /\ Shared' = {held[t]}
      BY <1>0, <1>2, <2>1 DEF Shared
    <2>4. LiveIs'
      BY <1>0, <2>1, <2>3 DEF LocalesIndInv, LiveIs
    <2>5. LiveCounted'
      <3>1. Cardinality(Shared) = 0 /\ Cardinality(Shared') = 1
        BY <2>3, FS_EmptySet, FS_Singleton
      <3>2. IsFiniteSet(Makers') /\ Cardinality(Makers') = Cardinality(Makers) - 1 /\ Cardinality(Makers) \in Nat
        BY <1>0, <2>1, FS_RemoveElement, FS_CardinalityType DEF LocalesIndInv, LiveCounted
      <3>. QED  BY <1>0, <3>1, <3>2 DEF LocalesIndInv, LiveCounted
    <2>. QED  BY <1>1, <2>2, <2>4, <2>5 DEF LocalesIndInv
  <1>3. CASE cached # Null
    <2>1. UNCHANGED cached /\ locPc' = [locPc EXCEPT ![t] = "freeing"] /\ locPc[t] = "publishing"
      BY <1>3 DEF Locales!Publish
    <2>2. MakersHold'
      BY <1>0, <1>3, <2>1 DEF LocalesIndInv, MakersHold, Locales!TypeOK, Makers
    <2>3. LiveIs' /\ LiveCounted'
      BY <1>0, <2>1, LocalesStay DEF LocalesIndInv, Locales!TypeOK
    <2>. QED  BY <1>1, <2>2, <2>3 DEF LocalesIndInv
  <1>. QED  BY <1>2, <1>3

\* The loser's own locale is freed: nobody else has it.
LEMMA FreeOwnInv ==
  ASSUME LocalesIndInv, NEW t \in LocaleThread, Locales!FreeOwn(t)
  PROVE  LocalesIndInv'
  <1>. USE PartsAssumption DEF Locales!LocaleAssumption, Locales!At, Locales!Go
  <1>0. t \in Makers /\ cached # Null /\ held[t] \in live /\ held[t] # cached
    BY DEF Locales!FreeOwn, Makers, LocalesIndInv, MakersHold, LiveIs
  <1>1. Locales!TypeOK'
    BY DEF LocalesIndInv, Locales!TypeOK, Locales!FreeOwn
  <1>2. /\ UNCHANGED cached /\ live' = live \ {held[t]} /\ Makers' = Makers \ {t}
        /\ locPc' = [locPc EXCEPT ![t] = "using"] /\ held' = [held EXCEPT ![t] = cached]
    BY DEF Locales!FreeOwn, Makers, LocalesIndInv, Locales!TypeOK
  <1>3. \A u \in Makers' : u \in Makers /\ held'[u] = held[u] /\ held[u] # held[t]
    BY <1>0, <1>2 DEF LocalesIndInv, MakersHold, Locales!TypeOK, Makers
  <1>4. MakersHold'
    <2>1. \A u \in Makers' : held'[u] \in Locale /\ held'[u] # cached'
      BY <1>2, <1>3 DEF LocalesIndInv, MakersHold
    <2>2. \A u, v \in Makers' : held'[u] = held'[v] => u = v
      BY <1>2, <1>3 DEF LocalesIndInv, MakersHold
    <2>3. \A u \in LocaleThread : locPc'[u] \in {"freeing", "using"} => cached' # Null
      BY <1>0, <1>2
    <2>4. \A u \in LocaleThread : locPc'[u] = "using" => held'[u] = cached'
      BY <1>2 DEF LocalesIndInv, MakersHold, Locales!TypeOK
    <2>. QED  BY <2>1, <2>2, <2>3, <2>4 DEF MakersHold
  <1>5. LiveIs'
    <2>1. Shared' = Shared /\ Shared = {cached}
      BY <1>0, <1>2 DEF Shared
    <2>2. \A x \in live' : x \in Shared' \cup {held'[u] : u \in Makers'}
      BY <1>2, <1>3, <2>1 DEF LocalesIndInv, LiveIs, Makers, Locales!TypeOK
    <2>3. \A x \in Shared' \cup {held'[u] : u \in Makers'} : x \in live'
      BY <1>0, <1>2, <1>3, <2>1 DEF LocalesIndInv, LiveIs
    <2>. QED  BY <2>2, <2>3 DEF LiveIs
  <1>6. LiveCounted'
    <2>1. /\ IsFiniteSet(live') /\ Cardinality(live') = Cardinality(live) - 1
          /\ IsFiniteSet(Makers') /\ Cardinality(Makers') = Cardinality(Makers) - 1
      BY <1>0, <1>2, FS_RemoveElement DEF LocalesIndInv, LiveCounted
    <2>2. Cardinality(Shared) \in Nat /\ Cardinality(live) \in Nat /\ Cardinality(Makers) \in Nat
      BY SharedCounts, FS_CardinalityType DEF LocalesIndInv, LiveCounted
    <2>3. Shared' = Shared
      BY <1>2 DEF Shared
    <2>. QED  BY <2>1, <2>2, <2>3 DEF LocalesIndInv, LiveCounted
  <1>. QED  BY <1>1, <1>4, <1>5, <1>6 DEF LocalesIndInv

\* However many threads race to make the locale, one is kept, every thread uses that
\* one, and every other is freed by its maker.
THEOREM LocalesInvariant == MCSpec => []LocalesInv
  <1>1. MCInit => LocalesIndInv
    <2>. SUFFICES ASSUME Locales!Init PROVE LocalesIndInv
      BY DEF MCInit
    <2>1. Locales!TypeOK
      <3>1. locRunning \in BOOLEAN
        BY Zenon DEF Locales!Init
      <3>. QED  BY <3>1 DEF Locales!Init, Locales!TypeOK, Locales!Answers
    <2>2. Makers = {} /\ Shared = {}
      BY DEF Locales!Init, Makers, Shared
    <2>3. MakersHold /\ LiveIs
      BY <2>2 DEF Locales!Init, MakersHold, LiveIs
    <2>4. LiveCounted
      BY <2>2, FS_EmptySet DEF Locales!Init, LiveCounted
    <2>. QED  BY <2>1, <2>3, <2>4 DEF LocalesIndInv
  <1>2. LocalesIndInv /\ [MCNext]_all => LocalesIndInv'
    <2>. SUFFICES ASSUME LocalesIndInv, [MCNext]_all PROVE LocalesIndInv'
      OBVIOUS
    <2>1. CASE UNCHANGED locales
      BY <2>1 DEF locales, LocalesIndInv, Locales!TypeOK, Makers, Shared, MakersHold, LiveIs, LiveCounted
    <2>2. CASE Locales!Next
      BY <2>2, QuietLocaleInv, MakeInv, PublishInv, FreeOwnInv DEF Locales!Next
    <2>. QED  BY <2>1, <2>2 DEF MCNext, all
  <1>3. LocalesIndInv => LocalesInv
    <2>. SUFFICES ASSUME LocalesIndInv PROVE Locales!Inv
      BY DEF LocalesInv
    <2>1. Locales!UsesCached
      BY DEF LocalesIndInv, Locales!UsesCached, MakersHold, LiveIs, Shared
    <2>2. Locales!LocalesAccounted
      <3>1. LiveIs /\ LiveCounted
        BY DEF LocalesIndInv
      <3>2. \A S : Locales!Cardinality(S) = Cardinality(S)
        BY DEF Cardinality, Locales!Cardinality
      <3>. QED  BY <3>1, <3>2 DEF Locales!LocalesAccounted, LiveIs, LiveCounted, Shared, Makers, Locales!Makers
    <2>. QED  BY <2>1, <2>2 DEF LocalesIndInv, Locales!Inv
  <1>. QED  BY <1>1, <1>2, <1>3, PTL DEF MCSpec

-----------------------------------------------------------------------------
(* The string store: the inductive invariant.                              *)

Owners(b) == {s \in Slot : owner[s] = b}

\* A handle that is not in use belongs to no thread.
SlotsUsed == \A s \in Slot : owner[s] = Nil <=> at[s] = Nil

\* HandlesCounted, with the handles of a block finitely many.
BlockCounted(b) ==
    /\ IsFiniteSet(Owners(b))
    /\ header[b] = Nil => Owners(b) = {} /\ \A t \in Thread : freeing[t] # b
    /\ header[b] # Nil =>
         /\ header[b].handles = Cardinality(Owners(b))
         /\ Owners(b) = {} => \E t \in Thread : \A u \in Thread : freeing[u] = b <=> u = t
         /\ Owners(b) # {} => \A t \in Thread : freeing[t] # b

\* The last access of any thread is known to a holder of the block, or will be to
\* the one that gives up the last handle.
AccessKnown(b) ==
    header[b] # Nil /\ Owners(b) # {} =>
        \A u \in Thread : u \in rel[b] \/ \E s \in Owners(b) : <<u, b>> \in seen[at[s]]

BytesCounted(a) == IsFiniteSet(Strings!Bytes(a)) /\ out[a] = Cardinality(Strings!Bytes(a))

StringsIndInv ==
    /\ Strings!TypeOK /\ SlotsUsed /\ Strings!FreedAfterUse
    /\ \A b \in Block : BlockCounted(b) /\ AccessKnown(b)
    /\ \A a \in Allocator : BytesCounted(a)

-----------------------------------------------------------------------------
(* The string store: the ledger.                                           *)

\* A byte out is a byte of a block of its allocator.
LEMMA BytesElements ==
  ASSUME NEW a, NEW e
  PROVE  /\ e \in Strings!Bytes(a) <=>
              \E b \in Block : /\ header[b] # Nil /\ header[b].allocator = a
                               /\ e \in {b} \X (1 .. header[b].block_size)
         /\ e \in Strings!Bytes(a)' <=>
              \E b \in Block : /\ header'[b] # Nil /\ header'[b].allocator = a
                               /\ e \in {b} \X (1 .. header'[b].block_size)
  BY DEF Strings!Bytes

\* A block has as many bytes as its size says.
LEMMA BlockBytes ==
  ASSUME NEW b, NEW n \in Nat
  PROVE  IsFiniteSet({b} \X (1 .. n)) /\ Cardinality({b} \X (1 .. n)) = n
  <1>1. IsFiniteSet(1 .. n) /\ Cardinality(1 .. n) = n
    BY FS_Interval
  <1>2. IsFiniteSet({b}) /\ Cardinality({b}) = 1
    BY FS_Singleton
  <1>3. /\ IsFiniteSet({b} \X (1 .. n))
        /\ Cardinality({b} \X (1 .. n)) = Cardinality({b}) * Cardinality(1 .. n)
    BY <1>1, <1>2, FS_Product
  <1>. QED  BY <1>1, <1>2, <1>3

\* A step that makes and frees no block leaves the ledger alone.
LEMMA LedgerStays ==
  ASSUME StringsIndInv, UNCHANGED out,
         \A b \in Block :
            /\ header'[b] = Nil <=> header[b] = Nil
            /\ header[b] # Nil => header'[b].allocator = header[b].allocator
                                  /\ header'[b].block_size = header[b].block_size
  PROVE  \A a \in Allocator : BytesCounted(a)'
  <1>. TAKE a \in Allocator
  <1>1. \A e : e \in Strings!Bytes(a)' <=> e \in Strings!Bytes(a)
    BY BytesElements
  <1>2. Strings!Bytes(a)' = Strings!Bytes(a)
    BY <1>1
  <1>. QED  BY <1>2 DEF StringsIndInv, BytesCounted

\* A block made: its bytes are new, and its allocator's.
LEMMA LedgerAdds ==
  ASSUME StringsIndInv, NEW b \in Block, NEW x \in Allocator, NEW h \in Strings!Headers,
         h.allocator = x, header[b] = Nil, header' = [header EXCEPT ![b] = h],
         out' = [out EXCEPT ![x] = @ + h.block_size]
  PROVE  \A a \in Allocator : BytesCounted(a)'
  <1>. USE PartsAssumption DEF Strings!StoreAssumption
  <1>0. /\ h # Nil /\ h.block_size \in Nat /\ header'[b] = h /\ header \in [Block -> Strings!Headers \cup {Nil}]
        /\ out \in [Allocator -> Int]
    BY DEF Strings!Headers, StringsIndInv, Strings!TypeOK
  <1>1. \A c \in Block : c # b => header'[c] = header[c]
    BY <1>0
  <1>. TAKE a \in Allocator
  <1>2. CASE a # x
    <2>1. \A e : e \in Strings!Bytes(a)' <=> e \in Strings!Bytes(a)
      BY <1>0, <1>1, <1>2, BytesElements
    <2>2. Strings!Bytes(a)' = Strings!Bytes(a) /\ out'[a] = out[a]
      BY <1>0, <1>2, <2>1
    <2>. QED  BY <2>2 DEF StringsIndInv, BytesCounted
  <1>3. CASE a = x
    <2>1. PICK S : S = Strings!Bytes(a)
      OBVIOUS
    <2>2. PICK B : B = {b} \X (1 .. h.block_size)
      OBVIOUS
    <2>3. IsFiniteSet(B) /\ Cardinality(B) = h.block_size
      BY <1>0, <2>2, BlockBytes
    <2>4. IsFiniteSet(S) /\ out[a] = Cardinality(S)
      BY <2>1 DEF StringsIndInv, BytesCounted
    <2>5. Strings!Bytes(a)' = S \cup B
      <3>1. \A e : e \in Strings!Bytes(a)' => e \in S \/ e \in B
        BY <1>0, <1>1, <2>1, <2>2, BytesElements
      <3>2. \A e : e \in S \/ e \in B => e \in Strings!Bytes(a)'
        BY <1>0, <1>1, <1>3, <2>1, <2>2, BytesElements
      <3>. QED  BY <3>1, <3>2
    <2>6. S \cap B = {}
      <3>1. ASSUME NEW e, e \in S, e \in B PROVE FALSE
        <4>1. PICK c \in Block : header[c] # Nil /\ e \in {c} \X (1 .. header[c].block_size)
          BY <2>1, <3>1, BytesElements
        <4>2. e[1] = c /\ e[1] = b
          BY <2>2, <3>1, <4>1
        <4>. QED  BY <4>1, <4>2
      <3>. QED  BY <3>1
    <2>7. IsFiniteSet(S \cup B) /\ Cardinality(S \cup B) = Cardinality(S) + h.block_size
      <3>1. IsFiniteSet(S \cup B) /\ Cardinality(S \cup B) = Cardinality(S) + Cardinality(B) - Cardinality(S \cap B)
        BY <2>3, <2>4, FS_Union
      <3>2. Cardinality(S \cap B) = 0 /\ Cardinality(S) \in Nat
        BY <2>4, <2>6, FS_EmptySet, FS_CardinalityType
      <3>. QED  BY <1>0, <2>3, <3>1, <3>2
    <2>. QED  BY <1>0, <1>3, <2>4, <2>5, <2>7 DEF BytesCounted
  <1>. QED  BY <1>2, <1>3

\* A block freed: its bytes go back to the allocator they came from.
LEMMA LedgerSubtracts ==
  ASSUME StringsIndInv, NEW b \in Block, header[b] # Nil,
         header' = [header EXCEPT ![b] = Nil],
         out' = [out EXCEPT ![header[b].allocator] = @ - header[b].block_size]
  PROVE  \A a \in Allocator : BytesCounted(a)'
  <1>1. PICK h \in Strings!Headers : h = header[b]
    BY DEF StringsIndInv, Strings!TypeOK
  <1>0. /\ h.allocator \in Allocator /\ h.block_size \in Nat /\ header'[b] = Nil
        /\ header \in [Block -> Strings!Headers \cup {Nil}] /\ out \in [Allocator -> Int]
    BY DEF Strings!Headers, StringsIndInv, Strings!TypeOK
  <1>2. \A c \in Block : c # b => header'[c] = header[c]
    BY <1>0
  <1>. TAKE a \in Allocator
  <1>3. CASE a # h.allocator
    <2>1. \A e : e \in Strings!Bytes(a)' <=> e \in Strings!Bytes(a)
      BY <1>0, <1>1, <1>2, <1>3, BytesElements
    <2>2. Strings!Bytes(a)' = Strings!Bytes(a) /\ out'[a] = out[a]
      BY <1>0, <1>1, <1>3, <2>1
    <2>. QED  BY <2>2 DEF StringsIndInv, BytesCounted
  <1>4. CASE a = h.allocator
    <2>1. PICK S : S = Strings!Bytes(a)
      OBVIOUS
    <2>2. PICK B : B = {b} \X (1 .. h.block_size)
      OBVIOUS
    <2>3. IsFiniteSet(B) /\ Cardinality(B) = h.block_size
      BY <1>0, <2>2, BlockBytes
    <2>4. IsFiniteSet(S) /\ out[a] = Cardinality(S)
      BY <2>1 DEF StringsIndInv, BytesCounted
    <2>5. S \cap B = B
      BY <1>1, <1>4, <2>1, <2>2, BytesElements
    <2>6. Strings!Bytes(a)' = S \ B
      <3>1. ASSUME NEW e, e \in Strings!Bytes(a)' PROVE e \in S /\ e \notin B
        <4>1. PICK c \in Block : header'[c] # Nil /\ header'[c].allocator = a /\ e \in {c} \X (1 .. header'[c].block_size)
          BY <3>1, BytesElements
        <4>2. c # b /\ header'[c] = header[c]
          BY <1>0, <1>2, <4>1
        <4>3. e[1] = c
          BY <4>1
        <4>4. e \notin B
          BY <2>2, <4>2, <4>3
        <4>. QED  BY <2>1, <4>1, <4>2, <4>4, BytesElements
      <3>2. ASSUME NEW e, e \in S, e \notin B PROVE e \in Strings!Bytes(a)'
        <4>1. PICK c \in Block : header[c] # Nil /\ header[c].allocator = a /\ e \in {c} \X (1 .. header[c].block_size)
          BY <2>1, <3>2, BytesElements
        <4>2. c # b
          BY <1>1, <2>2, <3>2, <4>1
        <4>. QED  BY <1>2, <4>1, <4>2, BytesElements
      <3>. QED  BY <3>1, <3>2
    <2>7. IsFiniteSet(S \ B) /\ Cardinality(S \ B) = Cardinality(S) - h.block_size
      <3>1. IsFiniteSet(S \ B) /\ Cardinality(S \ B) = Cardinality(S) - Cardinality(S \cap B)
        BY <2>4, FS_Difference
      <3>. QED  BY <2>3, <2>5, <3>1
    <2>. QED  BY <1>0, <1>1, <1>4, <2>4, <2>6, <2>7 DEF BytesCounted
  <1>. QED  BY <1>3, <1>4

-----------------------------------------------------------------------------
(* The string store: preservation, an action at a time.                    *)

\* A new handle is one that no one had.
LEMMA PublishEffect ==
  ASSUME StringsIndInv, NEW t \in Thread, NEW o \in Block \cup {Empty, Static}, NEW n \in 0 .. MaxLen,
         Strings!Publish(t, o, n)
  PROVE  \E s \in Slot :
            /\ owner[s] = Nil /\ at[s] = Nil
            /\ owner' = [owner EXCEPT ![s] = o] /\ at' = [at EXCEPT ![s] = t]
            /\ owner' \in [Slot -> Block \cup {Empty, Static, Nil}] /\ at' \in [Slot -> Thread \cup {Nil}]
            /\ len' \in [Slot -> 0 .. MaxLen] /\ SlotsUsed'
            /\ \A b \in Block : Owners(b)' = IF b = o THEN Owners(b) \cup {s} ELSE Owners(b)
  <1>. USE PartsAssumption DEF Strings!StoreAssumption
  <1>1. PICK s \in Slot : /\ at[s] = Nil /\ owner' = [owner EXCEPT ![s] = o]
                          /\ len' = [len EXCEPT ![s] = n] /\ at' = [at EXCEPT ![s] = t]
    BY DEF Strings!Publish, Strings!Held
  <1>2. owner[s] = Nil
    BY <1>1 DEF StringsIndInv, SlotsUsed
  <1>3. /\ owner' \in [Slot -> Block \cup {Empty, Static, Nil}] /\ at' \in [Slot -> Thread \cup {Nil}]
        /\ len' \in [Slot -> 0 .. MaxLen]
    BY <1>1 DEF StringsIndInv, Strings!TypeOK
  <1>4. SlotsUsed'
    BY <1>1 DEF StringsIndInv, Strings!TypeOK, SlotsUsed
  <1>5. \A b \in Block : Owners(b)' = IF b = o THEN Owners(b) \cup {s} ELSE Owners(b)
    BY <1>1, <1>2 DEF StringsIndInv, Strings!TypeOK, Owners
  <1>. QED  BY <1>1, <1>2, <1>3, <1>4, <1>5

\* What a block's counts rest on.
LEMMA BlockStays ==
  ASSUME NEW b \in Block, BlockCounted(b), Owners(b)' = Owners(b), header'[b] = header[b],
         \A t \in Thread : freeing'[t] = b <=> freeing[t] = b
  PROVE  BlockCounted(b)'
  BY DEF BlockCounted

\* What is known of the uses of a block rests on its owners and its releases.
LEMMA AccessStays ==
  ASSUME NEW b \in Block, AccessKnown(b), Owners(b)' = Owners(b), header'[b] = Nil <=> header[b] = Nil,
         rel[b] \subseteq rel'[b],
         \A s \in Owners(b) : \A u \in Thread : <<u, b>> \in seen[at[s]] => <<u, b>> \in seen'[at'[s]]
  PROVE  AccessKnown(b)'
  BY DEF AccessKnown

\* A handle without a block.
LEMMA PlainHandleInv ==
  ASSUME StringsIndInv, NEW t \in Thread, NEW o \in {Empty, Static}, NEW n \in 0 .. MaxLen,
         Strings!Publish(t, o, n), UNCHANGED <<header, out, freeing, unwinding, running, seen, rel>>
  PROVE  StringsIndInv'
  <1>. USE PartsAssumption DEF Strings!StoreAssumption
  <1>1. PICK s \in Slot :
            /\ owner[s] = Nil /\ at[s] = Nil
            /\ owner' = [owner EXCEPT ![s] = o] /\ at' = [at EXCEPT ![s] = t]
            /\ owner' \in [Slot -> Block \cup {Empty, Static, Nil}] /\ at' \in [Slot -> Thread \cup {Nil}]
            /\ len' \in [Slot -> 0 .. MaxLen] /\ SlotsUsed'
            /\ \A b \in Block : Owners(b)' = IF b = o THEN Owners(b) \cup {s} ELSE Owners(b)
    BY PublishEffect
  <1>2. Strings!TypeOK'
    BY <1>1 DEF StringsIndInv, Strings!TypeOK
  <1>3. Strings!FreedAfterUse'
    BY DEF StringsIndInv, Strings!FreedAfterUse
  <1>4. ASSUME NEW b \in Block PROVE BlockCounted(b)' /\ AccessKnown(b)'
    <2>1. Owners(b)' = Owners(b) /\ \A r \in Owners(b) : at'[r] = at[r]
      BY <1>1 DEF Owners, StringsIndInv, Strings!TypeOK
    <2>. QED  BY <2>1, BlockStays, AccessStays DEF StringsIndInv
  <1>5. \A a \in Allocator : BytesCounted(a)'
    BY LedgerStays
  <1>. QED  BY <1>1, <1>2, <1>3, <1>4, <1>5 DEF StringsIndInv

\* A text in a block of its own.
LEMMA AllocateInv ==
  ASSUME StringsIndInv, NEW t \in Thread, NEW n \in 0 .. MaxLen, NEW a \in Allocator,
         Strings!allocate_buffer(t, n, a), UNCHANGED <<freeing, unwinding, running>>
  PROVE  StringsIndInv'
  <1>. USE PartsAssumption DEF Strings!StoreAssumption
  <1>1. PICK b \in Block :
          /\ header[b] = Nil
          /\ header' = [header EXCEPT ![b] = [handles |-> 1, allocator |-> a, block_size |-> Header + n + 1]]
          /\ out' = [out EXCEPT ![a] = @ + Header + n + 1]
          /\ Strings!Publish(t, b, n)
          /\ seen' = [u \in Thread |-> IF u = t THEN seen[u] \cup (Thread \X {b}) ELSE seen[u] \ {<<t, b>>}]
          /\ rel' = [rel EXCEPT ![b] = {}]
    BY DEF Strings!allocate_buffer
  <1>2. PICK s \in Slot :
            /\ owner[s] = Nil /\ at[s] = Nil
            /\ owner' = [owner EXCEPT ![s] = b] /\ at' = [at EXCEPT ![s] = t]
            /\ owner' \in [Slot -> Block \cup {Empty, Static, Nil}] /\ at' \in [Slot -> Thread \cup {Nil}]
            /\ len' \in [Slot -> 0 .. MaxLen] /\ SlotsUsed'
            /\ \A c \in Block : Owners(c)' = IF c = b THEN Owners(c) \cup {s} ELSE Owners(c)
    BY <1>1, PublishEffect
  <1>0. PICK m \in Nat : m = Header + n + 1
    OBVIOUS
  <1>3. PICK h \in Strings!Headers : h = [handles |-> 1, allocator |-> a, block_size |-> m]
    <2>1. [handles |-> 1, allocator |-> a, block_size |-> m] \in Strings!Headers
      BY DEF Strings!Headers
    <2>. QED  BY <2>1
  <1>4. h # Nil /\ h.handles = 1 /\ h.allocator = a /\ h.block_size = m
    BY <1>3
  <1>5. header' = [header EXCEPT ![b] = h] /\ out' = [out EXCEPT ![a] = @ + h.block_size]
    <2>1. out[a] \in Int /\ out[a] + Header + n + 1 = out[a] + m
      BY <1>0 DEF StringsIndInv, Strings!TypeOK
    <2>. QED  BY <1>0, <1>1, <1>3, <1>4, <2>1
  <1>6. Strings!TypeOK'
    <2>1. header' \in [Block -> Strings!Headers \cup {Nil}] /\ out' \in [Allocator -> Int]
      BY <1>4, <1>5 DEF StringsIndInv, Strings!TypeOK
    <2>2. seen' \in [Thread -> SUBSET (Thread \X Block)] /\ rel' \in [Block -> SUBSET Thread]
      BY <1>1 DEF StringsIndInv, Strings!TypeOK
    <2>. QED  BY <1>2, <2>1, <2>2 DEF StringsIndInv, Strings!TypeOK
  <1>7. \A u \in Thread : freeing[u] # b
    BY <1>1 DEF StringsIndInv, BlockCounted
  <1>8. Strings!FreedAfterUse'
    BY <1>1, <1>7 DEF StringsIndInv, Strings!FreedAfterUse, Strings!TypeOK
  <1>9. ASSUME NEW c \in Block PROVE BlockCounted(c)' /\ AccessKnown(c)'
    <2>1. CASE c = b
      <3>1. Owners(b) = {} /\ Owners(b)' = {s} /\ header'[b] = h /\ at'[s] = t
        BY <1>1, <1>2, <1>5 DEF StringsIndInv, BlockCounted, Strings!TypeOK
      <3>2. IsFiniteSet({s}) /\ Cardinality({s}) = 1
        BY FS_Singleton
      <3>3. BlockCounted(b)'
        BY <1>4, <1>7, <3>1, <3>2 DEF BlockCounted
      <3>4. AccessKnown(b)'
        BY <1>1, <3>1 DEF AccessKnown
      <3>. QED  BY <2>1, <3>3, <3>4
    <2>2. CASE c # b
      <3>1. Owners(c)' = Owners(c) /\ header'[c] = header[c] /\ rel'[c] = rel[c]
        BY <1>1, <1>2, <2>2 DEF StringsIndInv, Strings!TypeOK
      <3>2. \A r \in Owners(c) : at'[r] = at[r] /\ at[r] \in Thread
        BY <1>2, <2>2 DEF Owners, StringsIndInv, Strings!TypeOK, SlotsUsed
      <3>3. \A r \in Owners(c) : \A u \in Thread : <<u, c>> \in seen[at[r]] => <<u, c>> \in seen'[at'[r]]
        BY <1>1, <2>2, <3>2 DEF StringsIndInv, Strings!TypeOK
      <3>. QED  BY <3>1, <3>3, BlockStays, AccessStays DEF StringsIndInv
    <2>. QED  BY <2>1, <2>2
  <1>10. \A x \in Allocator : BytesCounted(x)'
    BY <1>1, <1>4, <1>5, LedgerAdds
  <1>. QED  BY <1>2, <1>6, <1>8, <1>9, <1>10 DEF StringsIndInv

\* A refusal becomes a panic or the end.
LEMMA RefusedInv ==
  ASSUME StringsIndInv, NEW t \in Thread, Strings!alloc_failed(t), UNCHANGED freeing
  PROVE  StringsIndInv'
  <1>1. Strings!TypeOK'
    <2>1. unwinding' \in SUBSET Thread /\ running' \in BOOLEAN
      BY DEF StringsIndInv, Strings!TypeOK, Strings!alloc_failed
    <2>. QED  BY <2>1 DEF StringsIndInv, Strings!TypeOK, Strings!alloc_failed, Strings!handles, Strings!memory
  <1>2. SlotsUsed' /\ Strings!FreedAfterUse'
    BY DEF StringsIndInv, SlotsUsed, Strings!FreedAfterUse, Strings!alloc_failed, Strings!handles, Strings!memory
  <1>3. \A b \in Block : BlockCounted(b)' /\ AccessKnown(b)'
    BY DEF StringsIndInv, BlockCounted, AccessKnown, Owners, Strings!alloc_failed, Strings!handles, Strings!memory
  <1>4. \A a \in Allocator : BytesCounted(a)'
    BY LedgerStays DEF Strings!alloc_failed
  <1>. QED  BY <1>1, <1>2, <1>3, <1>4 DEF StringsIndInv

\* The three ways of making a text.
LEMMA MadeInv ==
  ASSUME StringsIndInv, NEW t \in Thread, NEW n \in 0 .. MaxLen, NEW a \in Allocator,
         Strings!Made(t, n, a), UNCHANGED freeing
  PROVE  StringsIndInv'
  <1>1. CASE n = 0 /\ Strings!publish_empty(t) /\ UNCHANGED <<unwinding, running>>
    BY <1>1, PlainHandleInv DEF Strings!publish_empty, Strings!memory
  <1>2. CASE n > 0 /\ Strings!allocate_buffer(t, n, a) /\ UNCHANGED <<unwinding, running>>
    BY <1>2, AllocateInv
  <1>3. CASE n > 0 /\ Strings!alloc_failed(t)
    BY <1>3, RefusedInv
  <1>. QED  BY <1>1, <1>2, <1>3 DEF Strings!Made

\* A handle in use has something to own, and the block it owns exists.
LEMMA HandleOwns ==
  ASSUME StringsIndInv, NEW t \in Thread, NEW s \in Strings!Held(t)
  PROVE  /\ s \in Slot /\ at[s] = t /\ owner[s] \in Block \cup {Empty, Static} /\ len[s] \in 0 .. MaxLen
         /\ owner[s] \in Block => header[owner[s]] \in Strings!Headers /\ header[owner[s]] # Nil
  <1>. USE PartsAssumption DEF Strings!StoreAssumption
  <1>1. s \in Slot /\ at[s] = t /\ owner[s] # Nil
    BY DEF Strings!Held, StringsIndInv, SlotsUsed
  <1>2. owner[s] \in Block => s \in Owners(owner[s])
    BY <1>1 DEF Owners
  <1>. QED  BY <1>1, <1>2 DEF StringsIndInv, Strings!TypeOK, BlockCounted

\* A change of a block's count of handles.
LEMMA RecountEffect ==
  ASSUME StringsIndInv, NEW b \in Block, NEW k \in Int, header[b] \in Strings!Headers,
         header' = [header EXCEPT ![b].handles = k]
  PROVE  /\ header' \in [Block -> Strings!Headers \cup {Nil}]
         /\ header'[b] \in Strings!Headers /\ header'[b].handles = k
         /\ header'[b].allocator = header[b].allocator /\ header'[b].block_size = header[b].block_size
         /\ \A c \in Block : c # b => header'[c] = header[c]
  <1>1. header \in [Block -> Strings!Headers \cup {Nil}]
    BY DEF StringsIndInv, Strings!TypeOK
  <1>2. header'[b] = [header[b] EXCEPT !.handles = k]
    BY <1>1
  <1>3. /\ header'[b] \in Strings!Headers /\ header'[b].handles = k
        /\ header'[b].allocator = header[b].allocator /\ header'[b].block_size = header[b].block_size
    BY <1>2 DEF Strings!Headers
  <1>4. \A c \in Block : c # b => header'[c] = header[c]
    BY <1>1
  <1>5. header' \in [Block -> Strings!Headers \cup {Nil}]
    BY <1>1, <1>3, <1>4
  <1>. QED  BY <1>3, <1>4, <1>5

\* A copy of a handle is counted.
LEMMA RetainInv ==
  ASSUME StringsIndInv, NEW t \in Thread, Strings!retain(t)
  PROVE  StringsIndInv'
  <1>. USE PartsAssumption DEF Strings!StoreAssumption
  <1>0. UNCHANGED <<out, freeing, unwinding, running, seen, rel>>
    BY DEF Strings!retain, Strings!memory
  <1>1. PICK r \in Strings!Held(t) :
          /\ Strings!Publish(t, owner[r], len[r])
          /\ header' = IF Strings!header_of(owner[r]) = Nil THEN header ELSE [header EXCEPT ![owner[r]].handles = @ + 1]
    BY DEF Strings!retain
  <1>2. /\ r \in Slot /\ at[r] = t /\ owner[r] \in Block \cup {Empty, Static} /\ len[r] \in 0 .. MaxLen
        /\ owner[r] \in Block => header[owner[r]] \in Strings!Headers /\ header[owner[r]] # Nil
    BY HandleOwns
  <1>3. CASE owner[r] \notin Block
    BY <1>0, <1>1, <1>2, <1>3, PlainHandleInv DEF Strings!header_of
  <1>4. CASE owner[r] \in Block
    <2>1. PICK b \in Block : b = owner[r]
      BY <1>4
    <2>2. header[b] \in Strings!Headers /\ header[b] # Nil /\ header' = [header EXCEPT ![b].handles = @ + 1]
      BY <1>1, <1>2, <2>1 DEF Strings!header_of
    <2>3. PICK s \in Slot :
            /\ owner[s] = Nil /\ at[s] = Nil
            /\ owner' = [owner EXCEPT ![s] = b] /\ at' = [at EXCEPT ![s] = t]
            /\ owner' \in [Slot -> Block \cup {Empty, Static, Nil}] /\ at' \in [Slot -> Thread \cup {Nil}]
            /\ len' \in [Slot -> 0 .. MaxLen] /\ SlotsUsed'
            /\ \A c \in Block : Owners(c)' = IF c = b THEN Owners(c) \cup {s} ELSE Owners(c)
      BY <1>1, <1>2, <2>1, PublishEffect
    <2>4. /\ header' \in [Block -> Strings!Headers \cup {Nil}]
          /\ header'[b] \in Strings!Headers /\ header'[b].handles = header[b].handles + 1
          /\ header'[b].allocator = header[b].allocator /\ header'[b].block_size = header[b].block_size
          /\ \A c \in Block : c # b => header'[c] = header[c]
      <3>1. PICK k \in Int : k = header[b].handles + 1
        BY <2>2 DEF Strings!Headers
      <3>2. header' = [header EXCEPT ![b].handles = k]
        BY <2>2, <3>1 DEF StringsIndInv, Strings!TypeOK
      <3>. QED  BY <2>2, <3>1, <3>2, RecountEffect
    <2>5. Strings!TypeOK'
      BY <1>0, <2>3, <2>4 DEF StringsIndInv, Strings!TypeOK
    <2>6. Strings!FreedAfterUse'
      BY <1>0 DEF StringsIndInv, Strings!FreedAfterUse
    <2>7. \A c \in Block : \A x \in Owners(c) : at'[x] = at[x]
      BY <2>3 DEF Owners, StringsIndInv, Strings!TypeOK
    <2>8. ASSUME NEW c \in Block PROVE BlockCounted(c)' /\ AccessKnown(c)'
      <3>1. CASE c # b
        <4>1. Owners(c)' = Owners(c) /\ header'[c] = header[c]
          BY <2>3, <2>4, <3>1
        <4>. QED  BY <1>0, <2>7, <4>1, BlockStays, AccessStays DEF StringsIndInv
      <3>2. CASE c = b
        <4>0. r \in Owners(b) /\ s \notin Owners(b) /\ Owners(b)' = Owners(b) \cup {s}
          BY <1>2, <2>1, <2>3 DEF Owners
        <4>1. IsFiniteSet(Owners(b)) /\ header[b].handles = Cardinality(Owners(b)) /\ \A u \in Thread : freeing[u] # b
          BY <2>2, <4>0 DEF StringsIndInv, BlockCounted
        <4>2. IsFiniteSet(Owners(b) \cup {s}) /\ Cardinality(Owners(b) \cup {s}) = Cardinality(Owners(b)) + 1
          BY <4>0, <4>1, FS_AddElement
        <4>3. header'[b] # Nil
          BY <2>4
        <4>4. BlockCounted(b)'
          BY <1>0, <2>4, <4>0, <4>1, <4>2, <4>3 DEF BlockCounted
        <4>5. \A u \in Thread : u \in rel[b] \/ \E x \in Owners(b) : <<u, b>> \in seen[at[x]]
          BY <2>2, <4>0 DEF StringsIndInv, AccessKnown
        <4>6. AccessKnown(b)'
          BY <1>0, <2>7, <4>0, <4>5 DEF AccessKnown
        <4>. QED  BY <3>2, <4>4, <4>6
      <3>. QED  BY <3>1, <3>2
    <2>9. \A a \in Allocator : BytesCounted(a)'
      <3>1. \A c \in Block :
            /\ header'[c] = Nil <=> header[c] = Nil
            /\ header[c] # Nil => header'[c].allocator = header[c].allocator
                                  /\ header'[c].block_size = header[c].block_size
        BY <2>2, <2>4
      <3>. QED  BY <1>0, <3>1, LedgerStays
    <2>. QED  BY <2>3, <2>5, <2>6, <2>8, <2>9 DEF StringsIndInv
  <1>. QED  BY <1>3, <1>4

\* A reader's access is known to itself, and it has a handle.
LEMMA ReadInv ==
  ASSUME StringsIndInv, NEW t \in Thread, Strings!Read(t)
  PROVE  StringsIndInv'
  <1>0. UNCHANGED <<owner, len, at, header, out, freeing, unwinding, running>>
    BY DEF Strings!Read, Strings!handles
  <1>1. PICK r \in Strings!Held(t) : owner[r] \in Block /\ Strings!Access(t, owner[r])
    BY DEF Strings!Read
  <1>2. PICK b \in Block : b = owner[r]
    BY <1>1
  <1>3. r \in Slot /\ at[r] = t /\ header[b] # Nil /\ r \in Owners(b)
    BY <1>2, HandleOwns DEF Owners
  <1>4. /\ seen' = [u \in Thread |-> IF u = t THEN seen[u] \cup {<<t, b>>} ELSE seen[u] \ {<<t, b>>}]
        /\ rel' = [rel EXCEPT ![b] = @ \ {t}]
    BY <1>1, <1>2 DEF Strings!Access
  <1>5. Strings!TypeOK'
    <2>1. seen' \in [Thread -> SUBSET (Thread \X Block)] /\ rel' \in [Block -> SUBSET Thread]
      BY <1>4 DEF StringsIndInv, Strings!TypeOK
    <2>. QED  BY <1>0, <2>1 DEF StringsIndInv, Strings!TypeOK
  <1>6. \A u \in Thread : freeing[u] # b
    BY <1>3 DEF StringsIndInv, BlockCounted
  <1>7. Strings!FreedAfterUse'
    BY <1>0, <1>4, <1>6 DEF StringsIndInv, Strings!FreedAfterUse, Strings!TypeOK
  <1>8. SlotsUsed' /\ \A c \in Block : Owners(c)' = Owners(c)
    BY <1>0 DEF StringsIndInv, SlotsUsed, Owners
  <1>9. ASSUME NEW c \in Block PROVE BlockCounted(c)' /\ AccessKnown(c)'
    <2>1. BlockCounted(c)'
      BY <1>0, <1>8, BlockStays DEF StringsIndInv
    <2>2. \A x \in Owners(c) : at[x] \in Thread
      BY HandleOwns, PartsAssumption DEF StringsIndInv, Strings!TypeOK, SlotsUsed, Owners, Strings!StoreAssumption
    <2>3. ASSUME header[c] # Nil, Owners(c) # {}, NEW u \in Thread
          PROVE  u \in rel'[c] \/ \E x \in Owners(c) : <<u, c>> \in seen'[at[x]]
      <3>1. CASE c = b /\ u = t
        BY <1>3, <1>4, <3>1
      <3>2. CASE ~(c = b /\ u = t)
        <4>1. u \in rel[c] \/ \E x \in Owners(c) : <<u, c>> \in seen[at[x]]
          BY <2>3 DEF StringsIndInv, AccessKnown
        <4>. QED  BY <1>4, <2>2, <3>2, <4>1 DEF StringsIndInv, Strings!TypeOK
      <3>. QED  BY <3>1, <3>2
    <2>4. AccessKnown(c)'
      BY <1>0, <1>8, <2>3 DEF AccessKnown
    <2>. QED  BY <2>1, <2>4
  <1>10. \A a \in Allocator : BytesCounted(a)'
    BY <1>0, LedgerStays
  <1>. QED  BY <1>5, <1>7, <1>8, <1>9, <1>10 DEF StringsIndInv

\* A handle moves with what its thread knows.
LEMMA GiveInv ==
  ASSUME StringsIndInv, NEW t \in Thread, NEW u \in Thread, Strings!Give(t, u)
  PROVE  StringsIndInv'
  <1>0. UNCHANGED <<owner, len, header, out, freeing, unwinding, running, rel>>
    BY DEF Strings!Give
  <1>1. PICK r \in Strings!Held(t) : at' = [at EXCEPT ![r] = u]
    BY DEF Strings!Give
  <1>2. r \in Slot /\ at[r] = t /\ owner[r] # Nil /\ u # Nil
    BY HandleOwns, PartsAssumption DEF Strings!StoreAssumption
  <1>3. seen' = [seen EXCEPT ![u] = @ \cup seen[t]]
    BY DEF Strings!Give
  <1>4. Strings!TypeOK'
    <2>1. at' \in [Slot -> Thread \cup {Nil}] /\ seen' \in [Thread -> SUBSET (Thread \X Block)]
      BY <1>1, <1>3 DEF StringsIndInv, Strings!TypeOK
    <2>. QED  BY <1>0, <2>1 DEF StringsIndInv, Strings!TypeOK
  <1>5. \A v \in Thread : seen[v] \subseteq seen'[v]
    BY <1>3 DEF StringsIndInv, Strings!TypeOK
  <1>6. Strings!FreedAfterUse'
    BY <1>0, <1>5 DEF StringsIndInv, Strings!FreedAfterUse
  <1>7. SlotsUsed' /\ \A c \in Block : Owners(c)' = Owners(c)
    BY <1>0, <1>1, <1>2 DEF StringsIndInv, Strings!TypeOK, SlotsUsed, Owners
  <1>8. \A s \in Slot : at[s] \in Thread => seen[at[s]] \subseteq seen'[at'[s]]
    BY <1>1, <1>2, <1>3, <1>5 DEF StringsIndInv, Strings!TypeOK
  <1>9. ASSUME NEW c \in Block PROVE BlockCounted(c)' /\ AccessKnown(c)'
    <2>1. \A x \in Owners(c) : x \in Slot /\ at[x] \in Thread
      BY PartsAssumption DEF StringsIndInv, Strings!TypeOK, SlotsUsed, Owners, Strings!StoreAssumption
    <2>. QED  BY <1>0, <1>7, <1>8, <2>1, BlockStays, AccessStays DEF StringsIndInv
  <1>10. \A a \in Allocator : BytesCounted(a)'
    BY <1>0, LedgerStays
  <1>. QED  BY <1>4, <1>6, <1>7, <1>9, <1>10 DEF StringsIndInv

\* A handle is given up; the last one leaves its block to its thread, which by then
\* knows of every access.
LEMMA ReleaseSubInv ==
  ASSUME StringsIndInv, NEW t \in Thread, Strings!ReleaseSub(t)
  PROVE  StringsIndInv'
  <1>. USE PartsAssumption DEF Strings!StoreAssumption
  <1>0. UNCHANGED <<out, unwinding, running>> /\ freeing[t] = Nil
    BY DEF Strings!ReleaseSub, Strings!Ready
  <1>1. PICK s \in Strings!Held(t) :
         /\ owner' = [owner EXCEPT ![s] = Nil] /\ len' = [len EXCEPT ![s] = 0] /\ at' = [at EXCEPT ![s] = Nil]
         /\ IF Strings!header_of(owner[s]) = Nil THEN UNCHANGED <<header, freeing, seen, rel>>
            ELSE /\ header' = [header EXCEPT ![owner[s]].handles = @ - 1]
                 /\ freeing' = IF header[owner[s]].handles = 1 THEN [freeing EXCEPT ![t] = owner[s]] ELSE freeing
                 /\ rel' = [rel EXCEPT ![owner[s]] = @ \cup {u \in Thread : <<u, owner[s]>> \in seen[t]}]
                 /\ seen' = [seen EXCEPT ![t] = @ \cup (rel[owner[s]] \X {owner[s]})]
    BY DEF Strings!ReleaseSub, Strings!memory
  <1>2. /\ s \in Slot /\ at[s] = t /\ owner[s] \in Block \cup {Empty, Static}
        /\ owner[s] \in Block => header[owner[s]] \in Strings!Headers /\ header[owner[s]] # Nil
    BY HandleOwns
  <1>3. /\ owner' \in [Slot -> Block \cup {Empty, Static, Nil}] /\ at' \in [Slot -> Thread \cup {Nil}]
        /\ len' \in [Slot -> 0 .. MaxLen] /\ SlotsUsed'
    BY <1>1, <1>2 DEF StringsIndInv, Strings!TypeOK, SlotsUsed
  <1>4. \A c \in Block : Owners(c)' = Owners(c) \ {s}
    BY <1>1, <1>2 DEF Owners, StringsIndInv, Strings!TypeOK
  <1>5. \A c \in Block : \A x \in Owners(c)' : x \in Owners(c) /\ x # s /\ at'[x] = at[x] /\ at[x] \in Thread
    BY <1>1, <1>4 DEF Owners, StringsIndInv, Strings!TypeOK, SlotsUsed
  <1>6. CASE owner[s] \notin Block
    <2>1. UNCHANGED <<header, freeing, seen, rel>>
      BY <1>1, <1>6 DEF Strings!header_of
    <2>2. Strings!TypeOK'
      BY <1>0, <1>3, <2>1 DEF StringsIndInv, Strings!TypeOK
    <2>3. Strings!FreedAfterUse'
      BY <2>1 DEF StringsIndInv, Strings!FreedAfterUse
    <2>4. ASSUME NEW c \in Block PROVE BlockCounted(c)' /\ AccessKnown(c)'
      <3>1. Owners(c)' = Owners(c)
        BY <1>4, <1>6 DEF Owners
      <3>. QED  BY <1>5, <2>1, <3>1, BlockStays, AccessStays DEF StringsIndInv
    <2>5. \A a \in Allocator : BytesCounted(a)'
      BY <1>0, <2>1, LedgerStays
    <2>. QED  BY <1>3, <2>2, <2>3, <2>4, <2>5 DEF StringsIndInv
  <1>7. CASE owner[s] \in Block
    <2>1. PICK b \in Block : b = owner[s]
      BY <1>7
    <2>2. header[b] \in Strings!Headers /\ header[b] # Nil /\ s \in Owners(b)
      BY <1>2, <2>1 DEF Owners
    <2>3. /\ header' = [header EXCEPT ![b].handles = @ - 1]
          /\ freeing' = IF header[b].handles = 1 THEN [freeing EXCEPT ![t] = b] ELSE freeing
          /\ rel' = [rel EXCEPT ![b] = @ \cup {u \in Thread : <<u, b>> \in seen[t]}]
          /\ seen' = [seen EXCEPT ![t] = @ \cup (rel[b] \X {b})]
      BY <1>1, <2>1, <2>2 DEF Strings!header_of
    <2>4. /\ header' \in [Block -> Strings!Headers \cup {Nil}]
          /\ header'[b] \in Strings!Headers /\ header'[b].handles = header[b].handles - 1
          /\ header'[b].allocator = header[b].allocator /\ header'[b].block_size = header[b].block_size
          /\ \A c \in Block : c # b => header'[c] = header[c]
      <3>1. PICK k \in Int : k = header[b].handles - 1
        BY <2>2 DEF Strings!Headers
      <3>2. header' = [header EXCEPT ![b].handles = k]
        BY <2>3, <3>1 DEF StringsIndInv, Strings!TypeOK
      <3>. QED  BY <2>2, <3>1, <3>2, RecountEffect
    <2>5. Strings!TypeOK'
      <3>1. freeing' \in [Thread -> Block \cup {Nil}] /\ rel' \in [Block -> SUBSET Thread]
            /\ seen' \in [Thread -> SUBSET (Thread \X Block)]
        BY <2>3 DEF StringsIndInv, Strings!TypeOK
      <3>. QED  BY <1>0, <1>3, <2>4, <3>1 DEF StringsIndInv, Strings!TypeOK
    <2>6. /\ IsFiniteSet(Owners(b)) /\ header[b].handles = Cardinality(Owners(b)) /\ \A u \in Thread : freeing[u] # b
          /\ \A u \in Thread : u \in rel[b] \/ \E x \in Owners(b) : <<u, b>> \in seen[at[x]]
      BY <2>2 DEF StringsIndInv, BlockCounted, AccessKnown
    <2>7. /\ IsFiniteSet(Owners(b)') /\ Cardinality(Owners(b)') = Cardinality(Owners(b)) - 1
          /\ Cardinality(Owners(b)) \in Nat /\ (Cardinality(Owners(b)') = 0 <=> Owners(b)' = {})
      BY <1>4, <2>2, <2>6, FS_RemoveElement, FS_CardinalityType, FS_EmptySet
    <2>8. header[b].handles = 1 <=> Owners(b)' = {}
      BY <2>6, <2>7
    <2>9. Strings!FreedAfterUse'
      <3>1. \A u \in Thread : u # t => seen'[u] = seen[u] /\ freeing'[u] = freeing[u]
        BY <2>3 DEF StringsIndInv, Strings!TypeOK
      <3>2. CASE header[b].handles = 1
        <4>1. freeing'[t] = b /\ seen'[t] = seen[t] \cup (rel[b] \X {b})
          BY <2>3, <3>2 DEF StringsIndInv, Strings!TypeOK
        <4>2. \A x \in Owners(b) : x = s
          BY <1>4, <2>8, <3>2
        <4>3. \A u \in Thread : <<u, b>> \in seen'[t]
          BY <1>2, <2>6, <4>1, <4>2
        <4>. QED  BY <3>1, <4>1, <4>3 DEF StringsIndInv, Strings!FreedAfterUse
      <3>3. CASE header[b].handles # 1
        <4>1. UNCHANGED freeing
          BY <2>3, <3>3
        <4>. QED  BY <1>0, <3>1, <4>1 DEF StringsIndInv, Strings!FreedAfterUse
      <3>. QED  BY <3>2, <3>3
    <2>10. ASSUME NEW c \in Block PROVE BlockCounted(c)' /\ AccessKnown(c)'
      <3>0. \A v \in Thread : seen[v] \subseteq seen'[v]
        BY <2>3 DEF StringsIndInv, Strings!TypeOK
      <3>1. CASE c # b
        <4>1. Owners(c)' = Owners(c) /\ header'[c] = header[c] /\ rel'[c] = rel[c]
          BY <1>4, <2>1, <2>3, <2>4, <3>1 DEF Owners, StringsIndInv, Strings!TypeOK
        <4>2. \A u \in Thread : freeing'[u] = c <=> freeing[u] = c
          BY <1>0, <2>3, <3>1 DEF StringsIndInv, Strings!TypeOK
        <4>. QED  BY <1>5, <3>0, <4>1, <4>2, BlockStays, AccessStays DEF StringsIndInv
      <3>2. CASE c = b
        <4>1. header'[b] # Nil
          BY <2>4
        <4>2. Owners(b)' = {} => \A u \in Thread : freeing'[u] = b <=> u = t
          BY <2>3, <2>6, <2>8 DEF StringsIndInv, Strings!TypeOK
        <4>3. Owners(b)' # {} => \A u \in Thread : freeing'[u] # b
          BY <2>3, <2>6, <2>8
        <4>4. BlockCounted(b)'
          BY <2>4, <2>6, <2>7, <4>1, <4>2, <4>3 DEF BlockCounted
        <4>5. ASSUME NEW u \in Thread PROVE u \in rel'[b] \/ \E x \in Owners(b)' : <<u, b>> \in seen'[at'[x]]
          <5>1. rel'[b] = rel[b] \cup {v \in Thread : <<v, b>> \in seen[t]}
            BY <2>3 DEF StringsIndInv, Strings!TypeOK
          <5>2. CASE u \in rel[b] \/ <<u, b>> \in seen[t]
            BY <5>1, <5>2
          <5>3. CASE u \notin rel[b] /\ <<u, b>> \notin seen[t]
            <6>1. PICK x \in Owners(b) : <<u, b>> \in seen[at[x]]
              BY <2>6, <5>3
            <6>2. x # s
              BY <1>2, <5>3, <6>1
            <6>3. x \in Owners(b)'
              BY <1>4, <6>2
            <6>. QED  BY <1>5, <3>0, <6>1, <6>3
          <5>. QED  BY <5>2, <5>3
        <4>6. AccessKnown(b)'
          BY <4>5 DEF AccessKnown
        <4>. QED  BY <3>2, <4>4, <4>6
      <3>. QED  BY <3>1, <3>2
    <2>11. \A a \in Allocator : BytesCounted(a)'
      <3>1. \A c \in Block :
            /\ header'[c] = Nil <=> header[c] = Nil
            /\ header[c] # Nil => header'[c].allocator = header[c].allocator
                                  /\ header'[c].block_size = header[c].block_size
        BY <2>2, <2>4
      <3>. QED  BY <1>0, <3>1, LedgerStays
    <2>. QED  BY <1>3, <2>5, <2>9, <2>10, <2>11 DEF StringsIndInv
  <1>. QED  BY <1>6, <1>7

\* The block goes back, once.
LEMMA ReleaseFreeInv ==
  ASSUME StringsIndInv, NEW t \in Thread, Strings!ReleaseFree(t)
  PROVE  StringsIndInv'
  <1>. USE PartsAssumption DEF Strings!StoreAssumption
  <1>1. PICK b \in Block : b = freeing[t]
    BY DEF Strings!ReleaseFree, StringsIndInv, Strings!TypeOK
  <1>2. /\ out' = [out EXCEPT ![header[b].allocator] = @ - header[b].block_size]
        /\ header' = [header EXCEPT ![b] = Nil] /\ freeing' = [freeing EXCEPT ![t] = Nil]
        /\ UNCHANGED <<owner, len, at, unwinding, running, seen, rel>>
    BY <1>1 DEF Strings!ReleaseFree, Strings!handles, Strings!memory
  <1>3. header[b] # Nil /\ Owners(b) = {} /\ \A u \in Thread : freeing[u] = b => u = t
    BY <1>1 DEF StringsIndInv, BlockCounted
  <1>4. header[b] \in Strings!Headers
    BY <1>3 DEF StringsIndInv, Strings!TypeOK
  <1>5. Strings!TypeOK'
    <2>1. out' \in [Allocator -> Int]
      BY <1>2, <1>4 DEF StringsIndInv, Strings!TypeOK, Strings!Headers
    <2>2. header' \in [Block -> Strings!Headers \cup {Nil}] /\ freeing' \in [Thread -> Block \cup {Nil}]
      BY <1>2 DEF StringsIndInv, Strings!TypeOK
    <2>. QED  BY <1>2, <2>1, <2>2 DEF StringsIndInv, Strings!TypeOK
  <1>6. Strings!FreedAfterUse' /\ SlotsUsed' /\ \A c \in Block : Owners(c)' = Owners(c)
    BY <1>2 DEF StringsIndInv, Strings!TypeOK, Strings!FreedAfterUse, SlotsUsed, Owners
  <1>7. ASSUME NEW c \in Block PROVE BlockCounted(c)' /\ AccessKnown(c)'
    <2>1. CASE c = b
      <3>1. header'[b] = Nil /\ \A u \in Thread : freeing'[u] # b
        BY <1>2, <1>3 DEF StringsIndInv, Strings!TypeOK
      <3>. QED  BY <1>3, <1>6, <2>1, <3>1, FS_EmptySet DEF BlockCounted, AccessKnown
    <2>2. CASE c # b
      <3>1. header'[c] = header[c] /\ \A u \in Thread : freeing'[u] = c <=> freeing[u] = c
        BY <1>1, <1>2, <2>2 DEF StringsIndInv, Strings!TypeOK
      <3>. QED  BY <1>2, <1>6, <3>1, BlockStays, AccessStays DEF StringsIndInv
    <2>. QED  BY <2>1, <2>2
  <1>8. \A a \in Allocator : BytesCounted(a)'
    BY <1>2, <1>3, LedgerSubtracts
  <1>. QED  BY <1>5, <1>6, <1>7, <1>8 DEF StringsIndInv

\* Every block of a string counts its handles on all threads, is freed once, after every
\* thread's last access to it, and goes back whole to the allocator it came from.
THEOREM StringsInvariant == MCSpec => []StringsInv
  <1>1. MCInit => StringsIndInv
    <2>. SUFFICES ASSUME Strings!Init PROVE StringsIndInv
      BY DEF MCInit
    <2>. USE PartsAssumption DEF Strings!StoreAssumption
    <2>1. Strings!TypeOK
      <3>1. running \in BOOLEAN
        BY Zenon DEF Strings!Init
      <3>. QED  BY <3>1 DEF Strings!Init, Strings!TypeOK
    <2>2. SlotsUsed /\ Strings!FreedAfterUse
      BY DEF Strings!Init, SlotsUsed, Strings!FreedAfterUse
    <2>3. \A b \in Block : Owners(b) = {}
      BY DEF Strings!Init, Owners
    <2>4. \A b \in Block : BlockCounted(b) /\ AccessKnown(b)
      BY <2>3, FS_EmptySet DEF Strings!Init, BlockCounted, AccessKnown
    <2>5. \A a \in Allocator : BytesCounted(a)
      <3>1. \A a \in Allocator : Strings!Bytes(a) = {}
        BY DEF Strings!Init, Strings!Bytes
      <3>. QED  BY <3>1, FS_EmptySet DEF Strings!Init, BytesCounted
    <2>. QED  BY <2>1, <2>2, <2>4, <2>5 DEF StringsIndInv
  <1>2. StringsIndInv /\ [MCNext]_all => StringsIndInv'
    <2>. SUFFICES ASSUME StringsIndInv, [MCNext]_all PROVE StringsIndInv'
      OBVIOUS
    <2>1. ASSUME UNCHANGED <<owner, len, at, header, out, freeing, unwinding, seen, rel>>, running' \in BOOLEAN
          PROVE  StringsIndInv'
      <3>1. Strings!TypeOK' /\ SlotsUsed' /\ Strings!FreedAfterUse'
        BY <2>1 DEF StringsIndInv, Strings!TypeOK, SlotsUsed, Strings!FreedAfterUse
      <3>2. \A b \in Block : BlockCounted(b)' /\ AccessKnown(b)'
        BY <2>1 DEF StringsIndInv, BlockCounted, AccessKnown, Owners
      <3>3. \A a \in Allocator : BytesCounted(a)'
        BY <2>1, LedgerStays
      <3>. QED  BY <3>1, <3>2, <3>3 DEF StringsIndInv
    <2>2. CASE UNCHANGED strings
      BY <2>1, <2>2 DEF strings, StringsIndInv, Strings!TypeOK
    <2>3. CASE Strings!Next
      <3>1. PICK t \in Thread :
               \/ Strings!Literal(t) \/ Strings!from_bytes(t) \/ Strings!clone(t) \/ Strings!concat(t)
               \/ Strings!retain(t) \/ Strings!Read(t) \/ Strings!ReleaseSub(t) \/ Strings!ReleaseFree(t)
               \/ Strings!Abort(t) \/ \E u \in Thread : Strings!Give(t, u)
        BY <2>3 DEF Strings!Next
      <3>2. CASE Strings!Literal(t)
        BY <3>2, PlainHandleInv DEF Strings!Literal, Strings!memory
      <3>3. CASE Strings!from_bytes(t)
        BY <3>3, MadeInv DEF Strings!from_bytes
      <3>4. CASE Strings!clone(t)
        <4>1. PICK s \in Strings!Held(t), a \in Allocator : Strings!Made(t, len[s], a)
          BY <3>4 DEF Strings!clone
        <4>2. len[s] \in 0 .. MaxLen /\ UNCHANGED freeing
          BY <3>4, HandleOwns DEF Strings!clone
        <4>. QED  BY <4>1, <4>2, MadeInv
      <3>5. CASE Strings!concat(t)
        <4>0. UNCHANGED freeing
          BY <3>5 DEF Strings!concat
        <4>1. PICK s \in Strings!Held(t), r \in Strings!Held(t), a \in Allocator :
                 \/ len[s] + len[r] <= MaxLen /\ Strings!Made(t, len[s] + len[r], a)
                 \/ Strings!alloc_failed(t)
          BY <3>5 DEF Strings!concat
        <4>2. len[s] \in 0 .. MaxLen /\ len[r] \in 0 .. MaxLen
          BY HandleOwns
        <4>3. CASE len[s] + len[r] <= MaxLen /\ Strings!Made(t, len[s] + len[r], a)
          <5>1. len[s] + len[r] \in 0 .. MaxLen
            BY <4>2, <4>3, PartsAssumption DEF Strings!StoreAssumption
          <5>. QED  BY <4>0, <4>3, <5>1, MadeInv
        <4>. QED  BY <4>0, <4>1, <4>3, RefusedInv
      <3>6. CASE Strings!Abort(t)
        BY <2>1, <3>6 DEF Strings!Abort, Strings!handles, Strings!memory
      <3>. QED  BY <3>1, <3>2, <3>3, <3>4, <3>5, <3>6, RetainInv, ReadInv, ReleaseSubInv, ReleaseFreeInv, GiveInv
    <2>. QED  BY <2>2, <2>3 DEF MCNext, all
  <1>3. StringsIndInv => StringsInv
    <2>. SUFFICES ASSUME StringsIndInv PROVE Strings!Inv
      BY DEF StringsInv
    <2>1. \A S : Strings!Cardinality(S) = Cardinality(S)
      BY DEF Cardinality, Strings!Cardinality
    <2>2. Strings!Ledger
      BY <2>1 DEF StringsIndInv, BytesCounted, Strings!Ledger
    <2>3. Strings!HandlesCounted
      <3>. SUFFICES ASSUME NEW b \in Block
                    PROVE  IF header[b] = Nil
                           THEN Owners(b) = {} /\ {t \in Thread : freeing[t] = b} = {}
                           ELSE /\ header[b].handles = Cardinality(Owners(b))
                                /\ Cardinality({t \in Thread : freeing[t] = b}) = IF Owners(b) = {} THEN 1 ELSE 0
        BY <2>1 DEF Strings!HandlesCounted, Owners
      <3>1. BlockCounted(b)
        BY DEF StringsIndInv
      <3>2. CASE header[b] # Nil /\ Owners(b) = {}
        <4>1. PICK t \in Thread : \A u \in Thread : freeing[u] = b <=> u = t
          BY <3>1, <3>2 DEF BlockCounted
        <4>2. {u \in Thread : freeing[u] = b} = {t}
          BY <4>1
        <4>. QED  BY <3>1, <3>2, <4>2, FS_Singleton DEF BlockCounted
      <3>3. CASE header[b] # Nil /\ Owners(b) # {}
        <4>1. {u \in Thread : freeing[u] = b} = {}
          BY <3>1, <3>3 DEF BlockCounted
        <4>. QED  BY <3>1, <3>3, <4>1, FS_EmptySet DEF BlockCounted
      <3>4. CASE header[b] = Nil
        BY <3>1, <3>4 DEF BlockCounted
      <3>. QED  BY <3>2, <3>3, <3>4
    <2>. QED  BY <2>2, <2>3 DEF StringsIndInv, Strings!Inv
  <1>. QED  BY <1>1, <1>2, <1>3, PTL DEF MCSpec

-----------------------------------------------------------------------------
(* The panic frames: the inductive invariant.                              *)

PanicKinds == {"report", "trace", "unwind"}
Call == [kind : {"body", "tls"} \cup PanicKinds, pushed : BOOLEAN, previous : Nat, live : Seq(Nat), at : Nat]

\* What follows is about the stack s of one thread, the newest frame f of its chain,
\* the number r of actions registered and the counts n of how often each one ran.
PushedIn(s) == {i \in 1 .. Len(s) : s[i].pushed}
IsNewest(x, S) == IF S = {} THEN x = 0 ELSE x \in S /\ \A j \in S : j <= x

WithCall(s, k, c) == [s EXCEPT ![k] = c]
WithLive(s, k, l) == [s EXCEPT ![k].live = l]
RunsLast(s, k) == Append(WithLive(s, k, Front(s[k].live)), NewCall("body", FALSE, 0, <<>>, 0))
OneMore(n, v) == [n EXCEPT ![v] = @ + 1]

\* Only a call of the program registers actions; the thread-locals are the one other
\* thing to run.
Kept(s) ==
    \A i \in 1 .. Len(s) :
        /\ s[i].previous \in 0 .. i - 1 /\ s[i].at \in 0 .. i
        /\ s[i].pushed => s[i].kind = "body"
        /\ ~s[i].pushed => s[i].live = <<>> \/ (s[i].live = <<Tls>> /\ s[i].kind = "tls")

\* The chain is the calls that pushed.
Chained(s, f) ==
    /\ IsNewest(f, PushedIn(s))
    /\ \A i \in PushedIn(s) : IsNewest(s[i].previous, {j \in PushedIn(s) : j < i})

\* What is registered was registered in the order of the stack.
Ordered(s, r) ==
    /\ \A i \in 1 .. Len(s) : \A x \in 1 .. Len(s[i].live) : s[i].live[x] <= r
    /\ \A i, j \in 1 .. Len(s) : \A x \in 1 .. Len(s[i].live), y \in 1 .. Len(s[j].live) :
         i < j \/ (i = j /\ x < y) => s[i].live[x] < s[j].live[y]

\* What is registered has not run, nor has what is not registered yet.
Unrun(s, n) == \A i \in 1 .. Len(s) : \A x \in 1 .. Len(s[i].live) : n[s[i].live[x]] = 0
Counts(r, n) == \A a \in Action : n[a] <= 1 /\ (a > r => n[a] = 0)

\* One panic at most, and none before panic_begin.
Single(s, p) ==
    /\ \A i, j \in 1 .. Len(s) : s[i].kind \in PanicKinds /\ s[j].kind \in PanicKinds => i = j
    /\ ~p => \A i \in 1 .. Len(s) : s[i].kind \notin PanicKinds

\* The walk of an unwind has left nothing registered behind it.
Walked(s) ==
    \A i \in 1 .. Len(s) : s[i].kind \in {"trace", "unwind"} =>
        /\ s[i].at # 0 => s[i].at \in PushedIn(s)
        /\ \A j \in PushedIn(s) : s[i].at < j /\ j <= i => s[j].live = <<>>

\* Nothing is called while a trace is printed.
TraceOnTop(s) == \A i, j \in 1 .. Len(s) : i < j => s[i].kind # "trace"

\* The thread-locals of a thread that is attached are neither dropped nor about to be.
Undropped(s, n, b) ==
    b => n[Tls] = 0 /\ \A i \in 1 .. Len(s) : \A x \in 1 .. Len(s[i].live) : s[i].live[x] # Tls

StackFine(s, f, r, n, p, b) ==
    /\ s \in Seq(Call)
    /\ Kept(s) /\ Chained(s, f) /\ Ordered(s, r) /\ Unrun(s, n)
    /\ Single(s, p) /\ Walked(s) /\ Undropped(s, n, b) /\ TraceOnTop(s)

RanFine(s, k, f, r, n, p, b) ==
    LET z == RunsLast(s, k)
        v == Last(s[k].live)
        q == OneMore(n, v)
    IN  /\ StackFine(z, f, r, q, p, b) /\ Len(z) = Len(s) + 1 /\ z[Len(z)].kind = "body"
        /\ q \in [Action -> Nat] /\ Counts(r, q)
        /\ v \in Action /\ \A a \in Action : a # v => q[a] = n[a]

ThreadFine(t) ==
    /\ StackFine(calls[t], frames[t], registered[t], ran[t], panicking[t], attached[t])
    /\ Len(calls[t]) <= MaxDepth[t] /\ registered[t] <= MaxActions[t]
    /\ Counts(registered[t], ran[t])

FramesTyped ==
    /\ calls \in [Thread -> Seq(Call)] /\ frames \in [Thread -> Nat]
    /\ panicking \in [Thread -> BOOLEAN] /\ attached \in [Thread -> BOOLEAN]
    /\ registered \in [Thread -> Nat] /\ ran \in [Thread -> [Action -> Nat]]

\* The thread that prints its trace is the one that claimed it.
Tracing(t) == Len(calls[t]) > 0 /\ calls[t][Len(calls[t])].kind = "trace"
TraceClaimed ==
    /\ \A t \in Thread : Tracing(t) => taken
    /\ \A t, u \in Thread : Tracing(t) /\ Tracing(u) => t = u

FramesIndInv ==
    /\ FramesTyped /\ TraceClaimed /\ UnwindComplete
    /\ \A t \in Thread : ThreadFine(t)

-----------------------------------------------------------------------------
(* The panic frames: what a step does to the stack of its thread.          *)

\* A call of a stack is a call.
LEMMA CallFacts ==
  ASSUME NEW s \in Seq(Call), NEW i \in 1 .. Len(s)
  PROVE  /\ s[i] \in Call /\ s[i].live \in Seq(Nat) /\ s[i].pushed \in BOOLEAN
         /\ s[i].previous \in Nat /\ s[i].at \in Nat
  <1>1. s[i] \in Call
    OBVIOUS
  <1>. QED  BY <1>1 DEF Call

\* A new call on top, with a frame or without.
LEMMA StackGrows ==
  ASSUME NEW s, NEW f, NEW r \in Nat, NEW n, NEW p \in BOOLEAN, NEW b \in BOOLEAN, NEW q \in BOOLEAN, NEW c \in Call, NEW g,
         StackFine(s, f, r, n, p, b), s[Len(s)].kind # "trace",
         c.live = <<>>, c.previous \in 0 .. Len(s), c.at = 0,
         c.pushed => c.kind = "body" /\ c.previous = f,
         (c.kind = "report" /\ ~p /\ q) \/ (c.kind = "body" /\ q = p),
         g = IF c.pushed THEN Len(s) + 1 ELSE f
  PROVE  StackFine(Append(s, c), g, r, n, q, b)
  <1>0. s \in Seq(Call) /\ Len(s) \in Nat
    BY DEF StackFine
  <1>1. PICK k \in Nat : k = Len(s)
    BY <1>0
  <1>2. PICK z : z = Append(s, c)
    OBVIOUS
  <1>3. z \in Seq(Call) /\ Len(z) = k + 1 /\ z[k + 1] = c /\ \A i \in 1 .. k : z[i] = s[i]
    BY <1>0, <1>1, <1>2, AppendProperties
  <1>4. \A i \in 1 .. k + 1 : i \in 1 .. k \/ i = k + 1
    BY <1>1
  <1>5. PushedIn(z) = PushedIn(s) \cup (IF c.pushed THEN {k + 1} ELSE {})
    <2>1. \A i \in 1 .. k : i \in 1 .. k + 1
      BY <1>1
    <2>2. k + 1 \in 1 .. k + 1
      BY <1>1
    <2>. QED  BY <1>1, <1>3, <1>4, <2>1, <2>2 DEF PushedIn
  <1>6. PushedIn(s) \subseteq 1 .. k
    BY <1>1 DEF PushedIn
  <1>7. Kept(z)
    <2>1. SUFFICES ASSUME NEW i \in 1 .. k + 1
                   PROVE  /\ z[i].previous \in 0 .. i - 1 /\ z[i].at \in 0 .. i
                          /\ z[i].pushed => z[i].kind = "body"
                          /\ ~z[i].pushed => z[i].live = <<>> \/ (z[i].live = <<Tls>> /\ z[i].kind = "tls")
      BY <1>3 DEF Kept
    <2>2. CASE i \in 1 .. k
      BY <1>1, <1>3, <2>2 DEF StackFine, Kept
    <2>3. CASE i = k + 1
      BY <1>1, <1>3, <2>3
    <2>. QED  BY <1>4, <2>2, <2>3
  <1>8. Chained(z, g)
    <2>1. IsNewest(g, PushedIn(z))
      <3>1. CASE c.pushed
        <4>1. \A j \in PushedIn(z) : j <= k + 1
          BY <1>1, <1>5, <1>6, <3>1
        <4>. QED  BY <1>1, <1>5, <3>1, <4>1 DEF IsNewest
      <3>2. CASE ~c.pushed
        BY <1>5, <3>2 DEF StackFine, Chained
      <3>. QED  BY <3>1, <3>2
    <2>2. ASSUME NEW i \in PushedIn(z)
          PROVE  IsNewest(z[i].previous, {j \in PushedIn(z) : j < i})
      <3>1. CASE i \in PushedIn(s)
        <4>1. {j \in PushedIn(z) : j < i} = {j \in PushedIn(s) : j < i} /\ z[i] = s[i]
          BY <1>1, <1>3, <1>5, <1>6, <3>1
        <4>. QED  BY <3>1, <4>1 DEF StackFine, Chained
      <3>2. CASE i = k + 1 /\ c.pushed
        <4>1. {j \in PushedIn(z) : j < i} = PushedIn(s) /\ z[i].previous = f
          BY <1>1, <1>3, <1>5, <1>6, <3>2
        <4>. QED  BY <4>1 DEF StackFine, Chained
      <3>. QED  BY <1>5, <3>1, <3>2
    <2>. QED  BY <2>1, <2>2 DEF Chained
  <1>9. \A i \in 1 .. k + 1 : \A x : x \in 1 .. Len(z[i].live) => i \in 1 .. k /\ z[i] = s[i]
    <2>1. 1 .. Len(c.live) = {}
      OBVIOUS
    <2>. QED  BY <1>3, <1>4, <2>1
  <1>10. Ordered(z, r)
    <2>0. Ordered(s, r)
      BY DEF StackFine
    <2>1. ASSUME NEW i \in 1 .. k + 1, NEW x \in 1 .. Len(z[i].live) PROVE z[i].live[x] <= r
      <3>1. i \in 1 .. k /\ z[i] = s[i]
        BY <1>9
      <3>. QED  BY <1>1, <2>0, <3>1 DEF Ordered
    <2>2. ASSUME NEW i \in 1 .. k + 1, NEW j \in 1 .. k + 1, NEW x \in 1 .. Len(z[i].live), NEW y \in 1 .. Len(z[j].live),
                 i < j \/ (i = j /\ x < y)
          PROVE  z[i].live[x] < z[j].live[y]
      <3>1. i \in 1 .. k /\ z[i] = s[i] /\ j \in 1 .. k /\ z[j] = s[j]
        BY <1>9
      <3>. QED  BY <1>1, <2>0, <2>2, <3>1 DEF Ordered
    <2>. QED  BY <1>3, <2>1, <2>2 DEF Ordered
  <1>11. Unrun(z, n)
    BY <1>1, <1>3, <1>9 DEF StackFine, Unrun
  <1>12. Single(z, q)
    <2>1. \A i \in 1 .. k + 1 : z[i].kind \in PanicKinds => (i \in 1 .. k /\ z[i] = s[i] /\ p) \/ (i = k + 1 /\ ~p /\ q)
      BY <1>1, <1>3, <1>4 DEF StackFine, Single, PanicKinds
    <2>2. \A i, j \in 1 .. k : s[i].kind \in PanicKinds /\ s[j].kind \in PanicKinds => i = j
      BY <1>1 DEF StackFine, Single
    <2>. QED  BY <1>1, <1>3, <2>1, <2>2 DEF Single
  <1>13. Walked(z)
    <2>1. SUFFICES ASSUME NEW i \in 1 .. k + 1, z[i].kind \in {"trace", "unwind"}
                   PROVE  /\ z[i].at # 0 => z[i].at \in PushedIn(z)
                          /\ \A j \in PushedIn(z) : z[i].at < j /\ j <= i => z[j].live = <<>>
      BY <1>3 DEF Walked
    <2>2. i \in 1 .. k /\ z[i] = s[i]
      BY <1>3, <1>4, <2>1
    <2>3. /\ s[i].at # 0 => s[i].at \in PushedIn(s)
          /\ \A j \in PushedIn(s) : s[i].at < j /\ j <= i => s[j].live = <<>>
      BY <1>1, <2>1, <2>2 DEF StackFine, Walked
    <2>4. ASSUME NEW j \in PushedIn(z), s[i].at < j, j <= i PROVE z[j].live = <<>>
      <3>1. j \in PushedIn(s)
        BY <1>1, <1>5, <2>2, <2>4
      <3>. QED  BY <1>3, <1>6, <2>3, <2>4, <3>1
    <2>. QED  BY <1>5, <2>2, <2>3, <2>4
  <1>14. Undropped(z, n, b)
    BY <1>1, <1>3, <1>9 DEF StackFine, Undropped
  <1>15. TraceOnTop(z)
    <2>1. SUFFICES ASSUME NEW i \in 1 .. k + 1, NEW j \in 1 .. k + 1, i < j PROVE z[i].kind # "trace"
      BY <1>3 DEF TraceOnTop
    <2>2. i \in 1 .. k /\ z[i] = s[i]
      BY <1>1, <1>3, <2>1
    <2>3. CASE i = k
      BY <1>1, <2>2, <2>3
    <2>4. CASE i < k
      BY <1>1, <2>2, <2>4 DEF StackFine, TraceOnTop
    <2>. QED  BY <1>1, <2>2, <2>3, <2>4
  <1>. QED  BY <1>2, <1>3, <1>7, <1>8, <1>10, <1>11, <1>12, <1>13, <1>14, <1>15 DEF StackFine

\* A call loses some of what it has registered.
LEMMA StackSheds ==
  ASSUME NEW s, NEW f, NEW r \in Nat, NEW n, NEW p \in BOOLEAN, NEW b \in BOOLEAN, StackFine(s, f, r, n, p, b),
         NEW k \in 1 .. Len(s), NEW l \in Seq(Nat),
         \A x \in 1 .. Len(l) : \E y \in 1 .. Len(s[k].live) : l[x] = s[k].live[y],
         \A x, y \in 1 .. Len(l) : x < y => l[x] < l[y],
         s[k].pushed \/ l = <<>>, NEW z, z = WithLive(s, k, l)
  PROVE  StackFine(z, f, r, n, p, b) /\ Len(z) = Len(s)
  <1>0. s \in Seq(Call) /\ s[k] \in Call
    BY DEF StackFine
  <1>1. z = [s EXCEPT ![k].live = l]
    BY DEF WithLive
  <1>2. PICK c : c = [s[k] EXCEPT !.live = l]
    OBVIOUS
  <1>3. /\ c \in Call /\ c.live = l /\ c.kind = s[k].kind /\ c.pushed = s[k].pushed
        /\ c.previous = s[k].previous /\ c.at = s[k].at
    BY <1>0, <1>2 DEF Call
  <1>4. z \in Seq(Call) /\ Len(z) = Len(s) /\ z[k] = c /\ \A i \in 1 .. Len(s) : i # k => z[i] = s[i]
    BY <1>0, <1>1, <1>2, <1>3
  <1>5. \A i \in 1 .. Len(s) : /\ z[i].kind = s[i].kind /\ z[i].pushed = s[i].pushed
                               /\ z[i].previous = s[i].previous /\ z[i].at = s[i].at
    BY <1>3, <1>4
  <1>6. PushedIn(z) = PushedIn(s)
    BY <1>4, <1>5 DEF PushedIn
  <1>7. \A i \in 1 .. Len(s) : \A x \in 1 .. Len(z[i].live) :
          \E y \in 1 .. Len(s[i].live) : z[i].live[x] = s[i].live[y]
    <2>1. SUFFICES ASSUME NEW i \in 1 .. Len(s), NEW x \in 1 .. Len(z[i].live)
                   PROVE  \E y \in 1 .. Len(s[i].live) : z[i].live[x] = s[i].live[y]
      OBVIOUS
    <2>2. CASE i = k
      <3>1. z[i].live = l
        BY <1>3, <1>4, <2>2
      <3>. QED  BY <2>2, <3>1
    <2>3. CASE i # k
      BY <1>4, <2>3
    <2>. QED  BY <2>2, <2>3
  <1>8. \A i \in 1 .. Len(s) : s[i].live = <<>> => z[i].live = <<>>
    <2>1. ASSUME s[k].live = <<>> PROVE l = <<>>
      <3>1. Len(s[k].live) = 0
        BY <2>1
      <3>2. Len(l) = 0
        BY <3>1
      <3>. QED  BY <3>2
    <2>. QED  BY <1>3, <1>4, <2>1
  <1>9. Kept(z)
    <2>1. ASSUME NEW i \in 1 .. Len(s), ~z[i].pushed
          PROVE  z[i].live = <<>> \/ (z[i].live = <<Tls>> /\ z[i].kind = "tls")
      <3>1. CASE i = k
        BY <1>3, <1>4, <2>1, <3>1
      <3>2. CASE i # k
        BY <1>4, <2>1, <3>2 DEF StackFine, Kept
      <3>. QED  BY <3>1, <3>2
    <2>2. Kept(s)
      BY DEF StackFine
    <2>3. ASSUME NEW i \in 1 .. Len(s)
          PROVE  /\ z[i].previous \in 0 .. i - 1 /\ z[i].at \in 0 .. i
                 /\ z[i].pushed => z[i].kind = "body"
      <3>1. /\ z[i].kind = s[i].kind /\ z[i].pushed = s[i].pushed
            /\ z[i].previous = s[i].previous /\ z[i].at = s[i].at
        BY <1>5
      <3>. QED  BY <2>2, <3>1, Zenon DEF Kept
    <2>. QED  BY <1>4, <2>1, <2>3, Zenon DEF Kept
  <1>10. Chained(z, f)
    <2>1. \A i \in PushedIn(s) : z[i].previous = s[i].previous
      BY <1>5 DEF PushedIn
    <2>. QED  BY <1>6, <2>1 DEF StackFine, Chained
  <1>11. Ordered(z, r)
    <2>1. ASSUME NEW i \in 1 .. Len(s), NEW x \in 1 .. Len(z[i].live) PROVE z[i].live[x] <= r
      BY <1>7 DEF StackFine, Ordered
    <2>2. ASSUME NEW i \in 1 .. Len(s), NEW j \in 1 .. Len(s), NEW x \in 1 .. Len(z[i].live), NEW y \in 1 .. Len(z[j].live),
                 i < j \/ (i = j /\ x < y)
          PROVE  z[i].live[x] < z[j].live[y]
      <3>1. CASE i < j
        <4>1. PICK v \in 1 .. Len(s[i].live) : z[i].live[x] = s[i].live[v]
          BY <1>7
        <4>2. PICK w \in 1 .. Len(s[j].live) : z[j].live[y] = s[j].live[w]
          BY <1>7
        <4>. QED  BY <3>1, <4>1, <4>2 DEF StackFine, Ordered
      <3>2. CASE i = j /\ x < y /\ i = k
        BY <1>3, <1>4, <3>2
      <3>3. CASE i = j /\ x < y /\ i # k
        BY <1>4, <3>3 DEF StackFine, Ordered
      <3>. QED  BY <2>2, <3>1, <3>2, <3>3
    <2>. QED  BY <1>4, <2>1, <2>2 DEF Ordered
  <1>12. Unrun(z, n)
    <2>1. SUFFICES ASSUME NEW i \in 1 .. Len(s), NEW x \in 1 .. Len(z[i].live) PROVE n[z[i].live[x]] = 0
      BY <1>4 DEF Unrun
    <2>2. PICK y \in 1 .. Len(s[i].live) : z[i].live[x] = s[i].live[y]
      BY <1>7
    <2>. QED  BY <2>2 DEF StackFine, Unrun
  <1>13. Single(z, p)
    <2>1. Single(s, p) /\ \A i \in 1 .. Len(s) : z[i].kind = s[i].kind
      BY <1>5 DEF StackFine
    <2>. QED  BY <1>4, <2>1, Zenon DEF Single
  <1>14. Walked(z)
    <2>1. \A j \in PushedIn(s) : s[j].live = <<>> => z[j].live = <<>>
      BY <1>8 DEF PushedIn
    <2>2. SUFFICES ASSUME NEW i \in 1 .. Len(s), z[i].kind \in {"trace", "unwind"}
                   PROVE  /\ z[i].at # 0 => z[i].at \in PushedIn(s)
                          /\ \A j \in PushedIn(s) : z[i].at < j /\ j <= i => z[j].live = <<>>
      BY <1>4, <1>6 DEF Walked
    <2>3. s[i].kind \in {"trace", "unwind"} /\ z[i].at = s[i].at
      BY <1>5, <2>2
    <2>. QED  BY <2>1, <2>3 DEF StackFine, Walked
  <1>15. Undropped(z, n, b)
    <2>1. ASSUME NEW i \in 1 .. Len(s), NEW x \in 1 .. Len(z[i].live), b PROVE z[i].live[x] # Tls
      <3>1. PICK y \in 1 .. Len(s[i].live) : z[i].live[x] = s[i].live[y]
        BY <1>7
      <3>. QED  BY <2>1, <3>1 DEF StackFine, Undropped
    <2>. QED  BY <1>4, <2>1 DEF StackFine, Undropped
  <1>16. TraceOnTop(z)
    <2>1. TraceOnTop(s) /\ \A i \in 1 .. Len(s) : z[i].kind = s[i].kind
      BY <1>5 DEF StackFine
    <2>. QED  BY <1>4, <2>1, Zenon DEF TraceOnTop
  <1>. QED  BY <1>1, <1>4, <1>9, <1>10, <1>11, <1>12, <1>13, <1>14, <1>15, <1>16 DEF StackFine

\* A call on top registers an action, newer than every other.
LEMMA StackRegisters ==
  ASSUME NEW s, NEW f, NEW r \in Nat, NEW n, NEW p \in BOOLEAN, NEW b \in BOOLEAN, StackFine(s, f, r, n, p, b),
         Len(s) > 0, s[Len(s)].pushed, n[r + 1] = 0,
         NEW z, z = WithLive(s, Len(s), Append(s[Len(s)].live, r + 1))
  PROVE  StackFine(z, f, r + 1, n, p, b) /\ Len(z) = Len(s)
  <1>0. s \in Seq(Call)
    BY DEF StackFine
  <1>1. PICK k \in 1 .. Len(s) : k = Len(s)
    BY <1>0
  <1>2. s[k] \in Call /\ s[k].live \in Seq(Nat) /\ s[k].pushed
    BY <1>0, <1>1, CallFacts
  <1>3. PICK m \in Nat : m = Len(s[k].live)
    BY <1>2
  <1>4. PICK l : l = Append(s[k].live, r + 1)
    OBVIOUS
  <1>5. l \in Seq(Nat) /\ Len(l) = m + 1 /\ l[m + 1] = r + 1 /\ \A x \in 1 .. m : l[x] = s[k].live[x]
    <2>1. r + 1 \in Nat
      OBVIOUS
    <2>. QED  BY <1>2, <1>3, <1>4, <2>1, AppendProperties
  <1>6. PICK c : c = [s[k] EXCEPT !.live = l]
    OBVIOUS
  <1>7. /\ c \in Call /\ c.live = l /\ c.kind = s[k].kind /\ c.pushed = s[k].pushed
        /\ c.previous = s[k].previous /\ c.at = s[k].at
    BY <1>2, <1>5, <1>6 DEF Call
  <1>8. z = [s EXCEPT ![k] = c]
    BY <1>0, <1>1, <1>4, <1>6 DEF WithLive
  <1>9. z \in Seq(Call) /\ Len(z) = Len(s) /\ z[k] = c /\ \A i \in 1 .. Len(s) : i # k => z[i] = s[i]
    <2>1. PICK y : y = [s EXCEPT ![k] = c]
      OBVIOUS
    <2>2. y \in Seq(Call) /\ Len(y) = Len(s) /\ y[k] = c /\ \A i \in 1 .. Len(s) : i # k => y[i] = s[i]
      BY ONLY <1>0, <1>7, <2>1, k \in 1 .. Len(s)
    <2>. QED  BY <1>8, <2>1, <2>2, Zenon
  <1>11. \A i \in 1 .. Len(s) : /\ z[i].kind = s[i].kind /\ z[i].pushed = s[i].pushed
                                /\ z[i].previous = s[i].previous /\ z[i].at = s[i].at
    BY <1>7, <1>9
  <1>12. PushedIn(z) = PushedIn(s)
    BY <1>9, <1>11 DEF PushedIn
  <1>13. ASSUME NEW i \in 1 .. Len(s), NEW x \in 1 .. Len(z[i].live)
         PROVE  \/ i = k /\ x = m + 1 /\ z[i].live[x] = r + 1
                \/ x \in 1 .. Len(s[i].live) /\ z[i].live[x] = s[i].live[x]
    <2>1. CASE i = k
      <3>1. z[i].live = l
        BY <1>7, <1>9, <2>1
      <3>2. x = m + 1 \/ x \in 1 .. m
        BY <1>3, <1>5, <3>1
      <3>. QED  BY <1>3, <1>5, <2>1, <3>1, <3>2
    <2>2. CASE i # k
      BY <1>9, <2>2
    <2>. QED  BY <2>1, <2>2
  <1>14. Kept(z)
    <2>1. ASSUME NEW i \in 1 .. Len(s), ~z[i].pushed
          PROVE  z[i].live = <<>> \/ (z[i].live = <<Tls>> /\ z[i].kind = "tls")
      <3>1. i # k
        BY <1>2, <1>11, <2>1
      <3>. QED  BY <1>9, <2>1, <3>1 DEF StackFine, Kept
    <2>2. Kept(s)
      BY DEF StackFine
    <2>3. ASSUME NEW i \in 1 .. Len(s)
          PROVE  /\ z[i].previous \in 0 .. i - 1 /\ z[i].at \in 0 .. i
                 /\ z[i].pushed => z[i].kind = "body"
      <3>1. /\ z[i].kind = s[i].kind /\ z[i].pushed = s[i].pushed
            /\ z[i].previous = s[i].previous /\ z[i].at = s[i].at
        BY <1>11
      <3>. QED  BY <2>2, <3>1, Zenon DEF Kept
    <2>. QED  BY <1>9, <2>1, <2>3, Zenon DEF Kept
  <1>15. Chained(z, f)
    <2>1. \A i \in PushedIn(s) : z[i].previous = s[i].previous
      BY <1>11 DEF PushedIn
    <2>. QED  BY <1>12, <2>1 DEF StackFine, Chained
  <1>16. Ordered(z, r + 1)
    <2>0. \A i \in 1 .. Len(s) : \A x \in 1 .. Len(s[i].live) : s[i].live[x] <= r /\ s[i].live[x] \in Nat
      BY <1>0, CallFacts DEF StackFine, Ordered
    <2>1. ASSUME NEW i \in 1 .. Len(s), NEW x \in 1 .. Len(z[i].live) PROVE z[i].live[x] <= r + 1
      <3>1. CASE i = k /\ x = m + 1 /\ z[i].live[x] = r + 1
        <4>1. r + 1 <= r + 1
          OBVIOUS
        <4>. QED  BY <3>1, <4>1
      <3>2. CASE x \in 1 .. Len(s[i].live) /\ z[i].live[x] = s[i].live[x]
        <4>1. PICK v \in Nat : v = s[i].live[x]
          BY <2>0, <3>2
        <4>2. v <= r
          BY <2>0, <3>2, <4>1
        <4>. QED  BY <3>2, <4>1, <4>2
      <3>. QED  BY <1>13, <3>1, <3>2
    <2>2. ASSUME NEW i \in 1 .. Len(s), NEW j \in 1 .. Len(s), NEW x \in 1 .. Len(z[i].live), NEW y \in 1 .. Len(z[j].live),
                 i < j \/ (i = j /\ x < y)
          PROVE  z[i].live[x] < z[j].live[y]
      <3>1. CASE j = k /\ y = m + 1 /\ z[j].live[y] = r + 1
        <4>1. ~(i = k /\ x = m + 1)
          BY <1>3, <2>2, <3>1
        <4>2. x \in 1 .. Len(s[i].live) /\ z[i].live[x] = s[i].live[x]
          BY <1>13, <4>1
        <4>3. PICK v \in Nat : v = s[i].live[x]
          BY <2>0, <4>2
        <4>4. v <= r
          BY <2>0, <4>2, <4>3
        <4>5. v < r + 1
          BY <4>4
        <4>. QED  BY <3>1, <4>2, <4>3, <4>5
      <3>2. CASE y \in 1 .. Len(s[j].live) /\ z[j].live[y] = s[j].live[y]
        <4>1. CASE i = k /\ x = m + 1
          <5>1. j = k /\ y <= m
            BY <1>1, <1>3, <2>2, <3>2, <4>1
          <5>. QED  BY <1>3, <2>2, <3>2, <4>1, <5>1
        <4>2. CASE x \in 1 .. Len(s[i].live) /\ z[i].live[x] = s[i].live[x]
          BY <2>2, <3>2, <4>2 DEF StackFine, Ordered
        <4>. QED  BY <1>13, <4>1, <4>2
      <3>. QED  BY <1>13, <3>1, <3>2
    <2>. QED  BY <1>9, <2>1, <2>2 DEF Ordered
  <1>17. Unrun(z, n)
    <2>1. SUFFICES ASSUME NEW i \in 1 .. Len(s), NEW x \in 1 .. Len(z[i].live) PROVE n[z[i].live[x]] = 0
      BY <1>9 DEF Unrun
    <2>2. CASE z[i].live[x] = r + 1
      BY <2>2
    <2>3. CASE x \in 1 .. Len(s[i].live) /\ z[i].live[x] = s[i].live[x]
      BY <2>3 DEF StackFine, Unrun
    <2>. QED  BY <1>13, <2>2, <2>3
  <1>18. Single(z, p)
    BY <1>9, <1>11 DEF StackFine, Single
  <1>19. Walked(z)
    <2>1. SUFFICES ASSUME NEW i \in 1 .. Len(s), z[i].kind \in {"trace", "unwind"},
                          NEW j \in PushedIn(z), z[i].at < j, j <= i
                   PROVE  z[j].live = <<>>
      BY <1>9, <1>11, <1>12 DEF StackFine, Walked
    <2>2. s[j].live = <<>>
      BY <1>11, <1>12, <2>1 DEF StackFine, Walked
    <2>3. j # k
      <3>1. SUFFICES ASSUME j = k PROVE FALSE
        OBVIOUS
      <3>2. i = k
        BY <1>1, <2>1, <3>1
      <3>3. s[k].kind = "body"
        BY <1>2 DEF StackFine, Kept
      <3>. QED  BY <1>11, <2>1, <3>2, <3>3
    <2>4. j \in 1 .. Len(s)
      BY <1>12 DEF PushedIn
    <2>. QED  BY <1>9, <2>2, <2>3, <2>4
  <1>20. Undropped(z, n, b)
    <2>1. ASSUME NEW i \in 1 .. Len(s), NEW x \in 1 .. Len(z[i].live), b PROVE z[i].live[x] # Tls
      <3>1. CASE z[i].live[x] = r + 1
        BY <3>1 DEF Tls
      <3>2. CASE x \in 1 .. Len(s[i].live) /\ z[i].live[x] = s[i].live[x]
        BY <2>1, <3>2 DEF StackFine, Undropped
      <3>. QED  BY <1>13, <3>1, <3>2
    <2>. QED  BY <1>9, <2>1 DEF StackFine, Undropped
  <1>21. TraceOnTop(z)
    <2>1. TraceOnTop(s) /\ \A i \in 1 .. Len(s) : z[i].kind = s[i].kind
      BY <1>11 DEF StackFine
    <2>. QED  BY <1>9, <2>1, Zenon DEF TraceOnTop
  <1>. QED  BY <1>9, <1>14, <1>15, <1>16, <1>17, <1>18, <1>19, <1>20, <1>21 DEF StackFine

\* A call returns, popping the frame it pushed.
LEMMA StackShrinks ==
  ASSUME NEW s, NEW f, NEW r \in Nat, NEW n, NEW p \in BOOLEAN, NEW b \in BOOLEAN, StackFine(s, f, r, n, p, b), Len(s) > 0, NEW g,
         g = IF s[Len(s)].pushed /\ f = Len(s) THEN s[Len(s)].previous ELSE f
  PROVE  StackFine(Front(s), g, r, n, p, b) /\ Len(Front(s)) = Len(s) - 1
  <1>0. s \in Seq(Call)
    BY DEF StackFine
  <1>1. PICK k \in 1 .. Len(s) : k = Len(s)
    BY <1>0
  <1>2. PICK m \in Nat : m = k - 1
    BY <1>0, <1>1
  <1>3. PICK z : z = Front(s)
    OBVIOUS
  <1>4. z \in Seq(Call) /\ Len(z) = m /\ \A i \in 1 .. m : z[i] = s[i]
    <2>1. z = SubSeq(s, 1, m)
      BY <1>1, <1>2, <1>3 DEF Front
    <2>2. \A i \in 1 .. m : s[i] \in Call
      BY <1>0, <1>1, <1>2
    <2>3. z \in Seq(Call) /\ Len(z) = (IF 1 <= m THEN m - 1 + 1 ELSE 0) /\ \A i \in 1 .. m - 1 + 1 : z[i] = s[1 + i - 1]
      BY <2>1, <2>2, SubSeqProperties
    <2>. QED  BY <1>2, <2>3
  <1>5. 1 .. m \subseteq 1 .. k /\ \A i \in 1 .. k : i # k => i \in 1 .. m
    BY <1>1, <1>2
  <1>6. PushedIn(z) = PushedIn(s) \ {k}
    BY <1>1, <1>2, <1>4, <1>5 DEF PushedIn
  <1>7. PushedIn(s) \subseteq 1 .. k
    BY <1>1 DEF PushedIn
  <1>8. Chained(z, g)
    <2>1. IsNewest(g, PushedIn(z))
      <3>1. CASE s[k].pushed
        <4>1. k \in PushedIn(s)
          BY <1>1, <3>1 DEF PushedIn
        <4>2. f = k
          <5>1. f \in PushedIn(s) /\ \A j \in PushedIn(s) : j <= f
            BY <4>1 DEF StackFine, Chained, IsNewest
          <5>. QED  BY <1>7, <4>1, <5>1
        <4>3. g = s[k].previous
          BY <1>1, <3>1, <4>2
        <4>4. PushedIn(z) = {j \in PushedIn(s) : j < k}
          BY <1>6, <1>7
        <4>. QED  BY <4>1, <4>3, <4>4 DEF StackFine, Chained
      <3>2. CASE ~s[k].pushed
        <4>1. PushedIn(z) = PushedIn(s) /\ g = f
          BY <1>1, <1>6, <3>2 DEF PushedIn
        <4>. QED  BY <4>1 DEF StackFine, Chained
      <3>. QED  BY <3>1, <3>2
    <2>2. ASSUME NEW i \in PushedIn(z)
          PROVE  IsNewest(z[i].previous, {j \in PushedIn(z) : j < i})
      <3>1. i \in PushedIn(s) /\ i \in 1 .. m
        BY <1>5, <1>6, <1>7
      <3>2. {j \in PushedIn(z) : j < i} = {j \in PushedIn(s) : j < i} /\ z[i] = s[i]
        BY <1>2, <1>4, <1>6, <1>7, <3>1
      <3>. QED  BY <3>1, <3>2 DEF StackFine, Chained
    <2>. QED  BY <2>1, <2>2 DEF Chained
  <1>9. Kept(z)
    BY <1>1, <1>4, <1>5 DEF StackFine, Kept
  <1>10. Ordered(z, r)
    BY <1>1, <1>4, <1>5 DEF StackFine, Ordered
  <1>11. Unrun(z, n)
    BY <1>1, <1>4, <1>5 DEF StackFine, Unrun
  <1>12. Single(z, p)
    BY <1>1, <1>4, <1>5 DEF StackFine, Single
  <1>13. Walked(z)
    <2>1. SUFFICES ASSUME NEW i \in 1 .. m, z[i].kind \in {"trace", "unwind"}
                   PROVE  /\ z[i].at # 0 => z[i].at \in PushedIn(z)
                          /\ \A j \in PushedIn(z) : z[i].at < j /\ j <= i => z[j].live = <<>>
      BY <1>4 DEF Walked
    <2>2. i \in 1 .. k /\ z[i] = s[i] /\ s[i].at \in 0 .. i
      BY <1>1, <1>4, <1>5 DEF StackFine, Kept
    <2>3. /\ s[i].at # 0 => s[i].at \in PushedIn(s)
          /\ \A j \in PushedIn(s) : s[i].at < j /\ j <= i => s[j].live = <<>>
      BY <1>1, <2>1, <2>2 DEF StackFine, Walked
    <2>4. s[i].at # k
      BY <1>2, <2>2
    <2>5. \A j \in PushedIn(z) : j \in PushedIn(s) /\ z[j] = s[j]
      BY <1>4, <1>5, <1>6, <1>7
    <2>. QED  BY <1>6, <2>2, <2>3, <2>4, <2>5
  <1>14. Undropped(z, n, b)
    BY <1>1, <1>4, <1>5 DEF StackFine, Undropped
  <1>15. TraceOnTop(z)
    BY <1>1, <1>4, <1>5 DEF StackFine, TraceOnTop
  <1>. QED  BY <1>1, <1>2, <1>3, <1>4, <1>8, <1>9, <1>10, <1>11, <1>12, <1>13, <1>14, <1>15 DEF StackFine

\* A panic's own call changes: from the report to the trace or the walk, and along it.
LEMMA StackPanics ==
  ASSUME NEW s, NEW f, NEW r \in Nat, NEW n, NEW p \in BOOLEAN, NEW b \in BOOLEAN, StackFine(s, f, r, n, p, b),
         NEW k \in 1 .. Len(s), k = Len(s), s[k].kind \in PanicKinds, NEW c \in Call, c.kind \in {"trace", "unwind"},
         c.pushed = FALSE, c.live = <<>>, c.previous \in 0 .. k - 1, c.at \in 0 .. k, c.at # 0 => c.at \in PushedIn(s),
         \A j \in PushedIn(s) : c.at < j /\ j <= k => s[j].live = <<>>,
         NEW z, z = WithCall(s, k, c)
  PROVE  StackFine(z, f, r, n, p, b) /\ Len(z) = Len(s)
  <1>0. s \in Seq(Call)
    BY DEF StackFine
  <1>1. ~s[k].pushed /\ s[k].live = <<>>
    BY <1>0, CallFacts DEF StackFine, Kept, PanicKinds
  <1>2. z = [s EXCEPT ![k] = c]
    BY DEF WithCall
  <1>3. z \in Seq(Call) /\ Len(z) = Len(s) /\ z[k] = c /\ \A i \in 1 .. Len(s) : i # k => z[i] = s[i]
    BY <1>0, <1>2
  <1>4. PushedIn(z) = PushedIn(s)
    BY <1>1, <1>3 DEF PushedIn
  <1>5. \A i \in 1 .. Len(s) : z[i].live = s[i].live /\ (z[i].kind \in PanicKinds <=> s[i].kind \in PanicKinds)
    BY <1>1, <1>3 DEF PanicKinds
  <1>6. \A i \in PushedIn(s) : i \in 1 .. Len(s) /\ z[i] = s[i]
    BY <1>1, <1>3 DEF PushedIn
  <1>7. Kept(z)
    <2>1. k \in Nat /\ k > 0
      BY <1>0
    <2>. QED  BY <1>3, <2>1 DEF StackFine, Kept
  <1>8. Chained(z, f)
    BY <1>4, <1>6 DEF StackFine, Chained
  <1>9. Ordered(z, r)
    <2>0. Ordered(s, r)
      BY DEF StackFine
    <2>1. ASSUME NEW i \in 1 .. Len(s), NEW x \in 1 .. Len(z[i].live) PROVE z[i].live[x] <= r
      BY <1>5, <2>0 DEF Ordered
    <2>2. ASSUME NEW i \in 1 .. Len(s), NEW j \in 1 .. Len(s), NEW x \in 1 .. Len(z[i].live), NEW y \in 1 .. Len(z[j].live),
                 i < j \/ (i = j /\ x < y)
          PROVE  z[i].live[x] < z[j].live[y]
      <3>1. z[i].live = s[i].live /\ z[j].live = s[j].live
        BY <1>5
      <3>. QED  BY <2>0, <2>2, <3>1 DEF Ordered
    <2>. QED  BY <1>3, <2>1, <2>2 DEF Ordered
  <1>10. Unrun(z, n)
    BY <1>3, <1>5 DEF StackFine, Unrun
  <1>11. Single(z, p)
    BY <1>3, <1>5 DEF StackFine, Single
  <1>12. Walked(z)
    <2>1. SUFFICES ASSUME NEW i \in 1 .. Len(s), z[i].kind \in {"trace", "unwind"}
                   PROVE  /\ z[i].at # 0 => z[i].at \in PushedIn(s)
                          /\ \A j \in PushedIn(s) : z[i].at < j /\ j <= i => z[j].live = <<>>
      BY <1>3, <1>4 DEF Walked
    <2>2. CASE i = k
      BY <1>3, <1>6, <2>2
    <2>3. CASE i # k
      BY <1>3, <1>6, <2>1, <2>3 DEF StackFine, Walked
    <2>. QED  BY <2>2, <2>3
  <1>13. Undropped(z, n, b)
    BY <1>3, <1>5 DEF StackFine, Undropped
  <1>14. TraceOnTop(z)
    <2>1. SUFFICES ASSUME NEW i \in 1 .. Len(s), NEW j \in 1 .. Len(s), i < j PROVE z[i].kind # "trace"
      BY <1>3 DEF TraceOnTop
    <2>2. i # k
      BY <1>0, <2>1
    <2>. QED  BY <1>3, <2>1, <2>2 DEF StackFine, TraceOnTop
  <1>. QED  BY <1>2, <1>3, <1>7, <1>8, <1>9, <1>10, <1>11, <1>12, <1>13, <1>14 DEF StackFine

\* Nothing is registered that is newer than the last action of the call on top, or of
\* the frame an unwind has come to.
LEMMA NewestInStack ==
  ASSUME NEW s, NEW f, NEW r \in Nat, NEW n, NEW p \in BOOLEAN, NEW b \in BOOLEAN, StackFine(s, f, r, n, p, b),
         NEW k \in 1 .. Len(s), s[k].live # <<>>,
         k = Len(s) \/ (s[Len(s)].kind = "unwind" /\ s[Len(s)].at = k),
         NEW i \in 1 .. Len(s), NEW x \in 1 .. Len(s[i].live)
  PROVE  s[i].live[x] <= Last(s[k].live)
  <1>0. s \in Seq(Call)
    BY DEF StackFine
  <1>1. s[k].live \in Seq(Nat) /\ s[i].live \in Seq(Nat) /\ s[i].pushed \in BOOLEAN
    BY <1>0, CallFacts
  <1>2. PICK m \in Nat : m = Len(s[k].live)
    BY ONLY <1>1
  <1>3. m > 0
    BY <1>1, <1>2, EmptySeq
  <1>4. m \in 1 .. m
    BY <1>3
  <1>5. PICK v \in Nat : v = Last(s[k].live)
    BY <1>1, <1>2, <1>4 DEF Last
  <1>6. v = s[k].live[m]
    BY <1>2, <1>5 DEF Last
  <1>7. PICK w \in Nat : w = s[i].live[x]
    BY <1>1
  <1>8. CASE i < k \/ (i = k /\ x < m)
    <2>1. s[i].live[x] < s[k].live[m]
      BY <1>2, <1>4, <1>8 DEF StackFine, Ordered
    <2>. QED  BY <1>5, <1>6, <1>7, <2>1
  <1>9. CASE i = k /\ x = m
    BY <1>5, <1>6, <1>7, <1>9
  <1>10. CASE i > k
    <2>1. PICK l \in 1 .. Len(s) : l = Len(s)
      BY <1>0
    <2>2. s[l].kind = "unwind" /\ s[l].at = k
      BY <1>0, <1>10, <2>1
    <2>3. ~s[i].pushed
      <3>1. SUFFICES ASSUME s[i].pushed PROVE FALSE
        OBVIOUS
      <3>2. i \in PushedIn(s) /\ i <= l
        BY <1>0, <2>1, <3>1 DEF PushedIn
      <3>3. s[i].live = <<>>
        BY <1>10, <2>2, <3>2 DEF StackFine, Walked
      <3>. QED  BY <1>1, <3>3
    <2>4. s[i].live = <<>> \/ s[i].live = <<Tls>>
      BY <2>3 DEF StackFine, Kept
    <2>5. w = 0
      BY <1>1, <1>7, <2>4 DEF Tls
    <2>. QED  BY <1>5, <1>7, <2>5
  <1>11. i < k \/ i = k \/ i > k
    BY <1>0
  <1>12. i = k => x < m \/ x = m
    BY <1>1, <1>2
  <1>. QED  BY <1>8, <1>9, <1>10, <1>11, <1>12

\* A call loses its last action, which runs on top of the stack.
LEMMA StackRuns ==
  ASSUME NEW s, NEW f, NEW r \in Nat, NEW n \in [Action -> Nat], NEW p \in BOOLEAN, NEW b \in BOOLEAN,
         StackFine(s, f, r, n, p, b), 0 .. r \subseteq Action, Counts(r, n),
         NEW k \in 1 .. Len(s), s[k].live # <<>>, s[Len(s)].kind # "trace"
  PROVE  RanFine(s, k, f, r, n, p, b)
  <1>a. PICK v : v = Last(s[k].live)
    OBVIOUS
  <1>b. PICK q : q = OneMore(n, v)
    OBVIOUS
  <1>c. PICK z : z = RunsLast(s, k)
    OBVIOUS
  <1>0. s \in Seq(Call) /\ Ordered(s, r) /\ Unrun(s, n)
    BY DEF StackFine
  <1>1. s[k].live \in Seq(Nat) /\ s[k].pushed \in BOOLEAN
    BY <1>0, CallFacts
  <1>2. PICK m \in Nat : m = Len(s[k].live)
    BY ONLY <1>1
  <1>3. m > 0
    BY <1>1, <1>2, EmptySeq
  <1>4. m \in 1 .. m
    BY <1>3
  <1>5. v = s[k].live[m] /\ v \in Nat
    BY <1>a, <1>1, <1>2, <1>4 DEF Last
  <1>6. v <= r /\ n[v] = 0
    BY <1>0, <1>2, <1>4, <1>5 DEF Ordered, Unrun
  <1>7. v \in Action
    BY <1>5, <1>6
  <1>8. q \in [Action -> Nat] /\ q[v] = 1 /\ \A a \in Action : a # v => q[a] = n[a]
    <2>1. q = [n EXCEPT ![v] = @ + 1]
      BY <1>b DEF OneMore
    <2>. QED  BY <1>6, <1>7, <2>1
  <1>9. Counts(r, q)
    <2>1. SUFFICES ASSUME NEW a \in Action PROVE q[a] <= 1 /\ (a > r => q[a] = 0)
      BY DEF Counts
    <2>2. CASE a = v
      BY <1>5, <1>6, <1>8, <2>2
    <2>3. CASE a # v
      BY <1>8, <2>3 DEF Counts
    <2>. QED  BY <2>2, <2>3
  <1>10. PICK l : l = Front(s[k].live)
    OBVIOUS
  <1>11. PICK h \in Nat : h = m - 1
    BY <1>3
  <1>12. l \in Seq(Nat) /\ Len(l) = h /\ \A x \in 1 .. h : l[x] = s[k].live[x]
    <2>1. l = SubSeq(s[k].live, 1, h)
      BY <1>2, <1>10, <1>11 DEF Front
    <2>2. \A x \in 1 .. h : s[k].live[x] \in Nat
      <3>1. \A x \in 1 .. h : x \in 1 .. Len(s[k].live)
        BY <1>2, <1>11
      <3>. QED  BY <1>1, <3>1, ElementOfSeq
    <2>3. l \in Seq(Nat) /\ Len(l) = (IF 1 <= h THEN h - 1 + 1 ELSE 0) /\ \A x \in 1 .. h - 1 + 1 : l[x] = s[k].live[1 + x - 1]
      BY <2>1, <2>2, SubSeqProperties
    <2>. QED  BY <1>11, <2>3
  <1>13. \A x \in 1 .. h : x \in 1 .. m /\ x < m
    BY <1>11
  <1>14. \A x \in 1 .. Len(l) : \E y \in 1 .. Len(s[k].live) : l[x] = s[k].live[y]
    BY <1>2, <1>12, <1>13
  <1>15. \A x, y \in 1 .. Len(l) : x < y => l[x] < l[y]
    <2>1. SUFFICES ASSUME NEW x \in 1 .. h, NEW y \in 1 .. h, x < y PROVE l[x] < l[y]
      BY <1>12
    <2>2. s[k].live[x] < s[k].live[y]
      BY <1>0, <1>2, <1>13, <2>1 DEF Ordered
    <2>. QED  BY <1>12, <2>2
  <1>16. s[k].pushed \/ l = <<>>
    <2>1. ASSUME ~s[k].pushed PROVE l = <<>>
      <3>1. s[k].live = <<Tls>>
        BY <2>1 DEF StackFine, Kept
      <3>2. m = 1
        BY <1>2, <3>1
      <3>3. Len(l) = 0
        BY <1>11, <1>12, <3>2
      <3>. QED  BY <1>12, <3>3, EmptySeq
    <2>. QED  BY <1>1, <2>1
  <1>17. PICK y : y = WithLive(s, k, l)
    OBVIOUS
  <1>18. StackFine(y, f, r, n, p, b) /\ Len(y) = Len(s)
    <2>1. l \in Seq(Nat)
      BY <1>12
    <2>2. StackFine(y, f, r, n, p, b)
      BY <1>14, <1>15, <1>16, <1>17, <2>1, StackSheds, Zenon
    <2>3. Len(y) = Len(s)
      BY <1>0, <1>17 DEF WithLive
    <2>. QED  BY <2>2, <2>3
  <1>19. y[k].live = l /\ \A i \in 1 .. Len(s) : i # k => y[i] = s[i]
    <2>1. s[k] \in Call
      BY <1>0, CallFacts
    <2>. QED  BY <1>0, <1>17, <2>1 DEF Call, WithLive
  <1>20. ASSUME NEW i \in 1 .. Len(s), NEW x \in 1 .. Len(y[i].live)
         PROVE  y[i].live[x] # v /\ y[i].live[x] \in Action /\ n[y[i].live[x]] = 0
    <2>0. y \in Seq(Call) /\ y[i].live \in Seq(Nat)
      BY <1>18, CallFacts DEF StackFine
    <2>1. PICK w \in Nat : w = y[i].live[x]
      BY <2>0, ElementOfSeq
    <2>2. w <= r /\ n[w] = 0
      BY <1>18, <2>1 DEF StackFine, Ordered, Unrun
    <2>3. w \in Action
      BY <2>1, <2>2
    <2>4. w < v \/ v < w
      <3>1. CASE i = k
        <4>1. x \in 1 .. h /\ w = s[k].live[x]
          BY <1>12, <1>19, <2>1, <3>1
        <4>2. s[k].live[x] < s[k].live[m]
          BY <1>0, <1>2, <1>4, <1>13, <4>1 DEF Ordered
        <4>. QED  BY <1>5, <4>1, <4>2
      <3>2. CASE i # k
        <4>1. x \in 1 .. Len(s[i].live) /\ w = s[i].live[x]
          BY <1>19, <2>1, <3>2
        <4>2. i < k \/ k < i
          BY <1>0, <3>2
        <4>3. s[i].live[x] < s[k].live[m] \/ s[k].live[m] < s[i].live[x]
          BY <1>0, <1>2, <1>4, <4>1, <4>2 DEF Ordered
        <4>. QED  BY <1>5, <4>1, <4>3
      <3>. QED  BY <3>1, <3>2
    <2>. QED  BY <1>5, <2>1, <2>2, <2>3, <2>4
  <1>21. Unrun(y, q)
    BY <1>8, <1>18, <1>20 DEF Unrun
  <1>22. Undropped(y, q, b)
    <2>1. ASSUME b PROVE q[Tls] = 0
      <3>1. v # Tls /\ n[Tls] = 0
        BY <1>2, <1>4, <1>5, <2>1 DEF StackFine, Undropped
      <3>2. Tls \in Action
        BY DEF Tls
      <3>. QED  BY <1>8, <3>1, <3>2
    <2>. QED  BY <1>18, <2>1 DEF StackFine, Undropped
  <1>23. StackFine(y, f, r, q, p, b)
    BY <1>18, <1>21, <1>22 DEF StackFine
  <1>24. PICK c : c = NewCall("body", FALSE, 0, <<>>, 0)
    OBVIOUS
  <1>25. /\ c \in Call /\ c.live = <<>> /\ c.previous \in 0 .. Len(y) /\ c.at = 0 /\ c.pushed = FALSE /\ c.kind = "body"
    BY <1>0, <1>18, <1>24 DEF NewCall, Call
  <1>26. z = Append(y, c)
    BY <1>c, <1>10, <1>17, <1>24 DEF RunsLast
  <1>27. StackFine(z, f, r, q, p, b)
    <2>0. y[Len(y)].kind # "trace"
      <3>1. PICK i \in 1 .. Len(s) : i = Len(s)
        BY <1>0
      <3>2. y[i].kind = s[i].kind
        <4>1. s[k] \in Call
          BY <1>0, CallFacts
        <4>. QED  BY <1>0, <1>17, <4>1 DEF Call, WithLive
      <3>. QED  BY <1>18, <3>1, <3>2
    <2>1. /\ c.pushed => c.kind = "body" /\ c.previous = f
          /\ (c.kind = "report" /\ ~p /\ p) \/ (c.kind = "body" /\ p = p)
          /\ f = IF c.pushed THEN Len(y) + 1 ELSE f
      BY <1>25
    <2>2. StackFine(Append(y, c), f, r, q, p, b)
      BY <1>23, <1>25, <2>0, <2>1, StackGrows, Zenon
    <2>. QED  BY <1>26, <2>2
  <1>28. Len(z) = Len(s) + 1 /\ z[Len(z)] = c
    <2>1. y \in Seq(Call)
      BY <1>18 DEF StackFine
    <2>2. Len(z) = Len(y) + 1 /\ z[Len(y) + 1] = c
      <3>1. c \in Call /\ Len(y) \in Nat
        BY <1>25, <2>1
      <3>2. Len(Append(y, c)) = Len(y) + 1 /\ Append(y, c)[Len(y) + 1] = c
        BY <2>1, <3>1, AppendProperties, Zenon
      <3>. QED  BY <1>26, <3>2
    <2>. QED  BY <1>18, <2>2
  <1>. QED  BY <1>a, <1>b, <1>c, <1>7, <1>8, <1>9, <1>25, <1>27, <1>28 DEF RanFine

\* The stack of a thread with one call, which starts it or drops its thread-locals.
LEMMA StackStarts ==
  ASSUME NEW r \in Nat, NEW n, NEW p \in BOOLEAN, NEW b \in BOOLEAN, NEW c, b => n[Tls] = 0,
         \/ c = NewCall("body", FALSE, 0, <<>>, 0)
         \/ c = NewCall("tls", FALSE, 0, <<Tls>>, 0) /\ ~b /\ n[Tls] = 0
  PROVE  StackFine(<<c>>, 0, r, n, p, b) /\ c \in Call /\ c.kind # "trace"
  <1>1. /\ c \in Call /\ c.pushed = FALSE /\ c.previous = 0 /\ c.at = 0 /\ c.kind \in {"body", "tls"}
        /\ \/ c.live = <<>> /\ c.kind = "body"
           \/ c.live = <<Tls>> /\ c.kind = "tls" /\ ~b /\ n[Tls] = 0
    <2>1. CASE c = NewCall("body", FALSE, 0, <<>>, 0)
      BY <2>1 DEF NewCall, Call
    <2>2. CASE c = NewCall("tls", FALSE, 0, <<Tls>>, 0) /\ ~b /\ n[Tls] = 0
      <3>0. <<0>> \in Seq(Nat)
        OBVIOUS
      <3>1. PICK l \in Seq(Nat) : l = <<Tls>>
        BY <3>0 DEF Tls
      <3>2. c = NewCall("tls", FALSE, 0, l, 0)
        BY <2>2, <3>1
      <3>3. c \in Call /\ c.live = l /\ c.kind = "tls" /\ c.pushed = FALSE /\ c.previous = 0 /\ c.at = 0
        BY <3>2 DEF NewCall, Call
      <3>. QED  BY <2>2, <3>1, <3>3
    <2>. QED  BY <2>1, <2>2
  <1>2. PICK s : s = <<c>>
    OBVIOUS
  <1>3. s \in Seq(Call) /\ Len(s) = 1 /\ s[1] = c
    BY <1>1, <1>2
  <1>4. \A i \in 1 .. Len(s) : i = 1
    BY <1>3
  <1>5. PushedIn(s) = {}
    BY <1>1, <1>3, <1>4 DEF PushedIn
  <1>6. Kept(s)
    BY <1>1, <1>3, <1>4 DEF Kept
  <1>7. Chained(s, 0)
    BY <1>5 DEF Chained, IsNewest
  <1>8. \A i \in 1 .. Len(s) : \A x \in 1 .. Len(s[i].live) : i = 1 /\ x = 1 /\ s[i].live[x] = 0 /\ ~b /\ n[Tls] = 0
    <2>1. CASE c.live = <<>>
      BY <1>3, <1>4, <2>1
    <2>2. CASE c.live = <<Tls>> /\ ~b /\ n[Tls] = 0
      <3>1. Len(c.live) = 1 /\ c.live[1] = 0 /\ \A x \in 1 .. 1 : x = 1
        BY <2>2 DEF Tls
      <3>. QED  BY <1>3, <1>4, <2>2, <3>1
    <2>. QED  BY <1>1, <2>1, <2>2
  <1>9. Ordered(s, r)
    <2>1. ASSUME NEW i \in 1 .. Len(s), NEW x \in 1 .. Len(s[i].live) PROVE s[i].live[x] <= r
      BY <1>8
    <2>2. ASSUME NEW i \in 1 .. Len(s), NEW j \in 1 .. Len(s), NEW x \in 1 .. Len(s[i].live), NEW y \in 1 .. Len(s[j].live),
                 i < j \/ (i = j /\ x < y)
          PROVE  s[i].live[x] < s[j].live[y]
      <3>1. i = 1 /\ j = 1 /\ x = 1 /\ y = 1
        BY <1>8
      <3>. QED  BY <2>2, <3>1
    <2>. QED  BY <2>1, <2>2 DEF Ordered
  <1>10. Unrun(s, n)
    BY <1>8 DEF Unrun, Tls
  <1>11. Single(s, p)
    BY <1>1, <1>3, <1>4 DEF Single, PanicKinds
  <1>12. Walked(s)
    BY <1>1, <1>3, <1>4 DEF Walked
  <1>13. Undropped(s, n, b)
    BY <1>8 DEF Undropped
  <1>14. TraceOnTop(s)
    BY <1>3, <1>4 DEF TraceOnTop
  <1>. QED  BY <1>1, <1>2, <1>3, <1>6, <1>7, <1>9, <1>10, <1>11, <1>12, <1>13, <1>14 DEF StackFine

\* Nothing runs on the thread.
LEMMA StackRests ==
  ASSUME NEW r \in Nat, NEW n, NEW p \in BOOLEAN, NEW b \in BOOLEAN, b => n[Tls] = 0
  PROVE  StackFine(<<>>, 0, r, n, p, b)
  <1>1. PICK s : s = <<>>
    OBVIOUS
  <1>2. s \in Seq(Call) /\ Len(s) = 0 /\ 1 .. Len(s) = {}
    BY <1>1
  <1>3. PushedIn(s) = {}
    BY <1>2 DEF PushedIn
  <1>. QED  BY <1>1, <1>2, <1>3 DEF StackFine, Kept, Chained, IsNewest, Ordered, Unrun, Single, Walked, Undropped, TraceOnTop

-----------------------------------------------------------------------------
(* The panic frames: the steps.                                            *)

\* What the invariant says of one thread.
LEMMA ThreadFacts ==
  ASSUME FramesIndInv, NEW t \in Thread
  PROVE  /\ calls[t] \in Seq(Call) /\ Len(calls[t]) \in Nat /\ frames[t] \in Nat /\ registered[t] \in Nat
         /\ panicking[t] \in BOOLEAN /\ attached[t] \in BOOLEAN /\ ran[t] \in [Action -> Nat]
         /\ StackFine(calls[t], frames[t], registered[t], ran[t], panicking[t], attached[t])
         /\ Len(calls[t]) <= MaxDepth[t] /\ registered[t] <= MaxActions[t]
         /\ Counts(registered[t], ran[t]) /\ MaxDepth[t] \in Nat /\ MaxActions[t] \in Nat
         /\ 0 .. registered[t] \subseteq Action /\ Tls \in Action
  <1>1. /\ calls[t] \in Seq(Call) /\ frames[t] \in Nat /\ registered[t] \in Nat
        /\ panicking[t] \in BOOLEAN /\ attached[t] \in BOOLEAN /\ ran[t] \in [Action -> Nat]
    BY DEF FramesIndInv, FramesTyped
  <1>2. MaxDepth[t] \in Nat /\ MaxActions[t] \in Nat
    BY BoundAssumption
  <1>3. registered[t] <= MaxActions[t]
    BY DEF FramesIndInv, ThreadFine
  <1>4. \A a \in 0 .. MaxActions[t] : a \in Action
    BY DEF Action
  <1>5. \A a \in 0 .. registered[t] : a \in 0 .. MaxActions[t]
    BY <1>1, <1>2, <1>3
  <1>6. Tls \in Action
    BY <1>2, <1>4 DEF Tls
  <1>7. /\ StackFine(calls[t], frames[t], registered[t], ran[t], panicking[t], attached[t])
        /\ Len(calls[t]) <= MaxDepth[t] /\ Counts(registered[t], ran[t])
    BY DEF FramesIndInv, ThreadFine
  <1>. QED  BY <1>1, <1>2, <1>3, <1>4, <1>5, <1>6, <1>7

\* A step of one thread that leaves its own stack in order leaves everything in order.
LEMMA FramesStep ==
  ASSUME FramesIndInv, exited' = "no", NEW t \in Thread,
         NEW s, NEW f, NEW r \in Nat, NEW n \in [Action -> Nat], NEW p \in BOOLEAN, NEW b \in BOOLEAN,
         calls' = [calls EXCEPT ![t] = s], frames' = [frames EXCEPT ![t] = f],
         registered' = [registered EXCEPT ![t] = r], ran' = [ran EXCEPT ![t] = n],
         panicking' = [panicking EXCEPT ![t] = p], attached' = [attached EXCEPT ![t] = b],
         StackFine(s, f, r, n, p, b), Counts(r, n), Len(s) <= MaxDepth[t], r <= MaxActions[t],
         taken => taken',
         Len(s) > 0 /\ s[Len(s)].kind = "trace" => (Tracing(t) \/ ~taken) /\ taken'
  PROVE  FramesIndInv'
  <1>1. s \in Seq(Call) /\ f \in Nat
    <2>1. PushedIn(s) \subseteq Nat
      BY DEF PushedIn
    <2>. QED  BY <2>1 DEF StackFine, Chained, IsNewest
  <1>2. FramesTyped'
    BY <1>1 DEF FramesIndInv, FramesTyped
  <1>3. /\ calls'[t] = s /\ frames'[t] = f /\ registered'[t] = r /\ ran'[t] = n
        /\ panicking'[t] = p /\ attached'[t] = b
    BY DEF FramesIndInv, FramesTyped
  <1>4. \A u \in Thread : u # t => /\ calls'[u] = calls[u] /\ frames'[u] = frames[u] /\ registered'[u] = registered[u]
                                   /\ ran'[u] = ran[u] /\ panicking'[u] = panicking[u] /\ attached'[u] = attached[u]
    BY DEF FramesIndInv, FramesTyped
  <1>5. ASSUME NEW u \in Thread PROVE ThreadFine(u)'
    <2>1. CASE u = t
      BY <1>3, <2>1 DEF ThreadFine
    <2>2. CASE u # t
      <3>1. ThreadFine(u)
        BY DEF FramesIndInv
      <3>. QED  BY <1>4, <2>2, <3>1 DEF ThreadFine
    <2>. QED  BY <2>1, <2>2
  <1>6. UnwindComplete'
    BY DEF UnwindComplete
  <1>7. \A u \in Thread : Tracing(u)' => (u = t /\ (Tracing(t) \/ ~taken) /\ taken') \/ (u # t /\ Tracing(u))
    BY <1>3, <1>4 DEF Tracing
  <1>8. TraceClaimed
    BY DEF FramesIndInv
  <1>9. TraceClaimed'
    BY <1>7, <1>8 DEF TraceClaimed
  <1>. QED  BY <1>2, <1>5, <1>6, <1>9 DEF FramesIndInv

\* Writing back what a function holds changes nothing.
LEMMA Rewritten ==
  ASSUME NEW S, NEW g \in [Thread -> S], NEW t \in Thread
  PROVE  g = [g EXCEPT ![t] = g[t]]
  OBVIOUS

\* The fields a step leaves alone.
LEMMA FramesKept ==
  ASSUME FramesIndInv, NEW t \in Thread
  PROVE  /\ calls = [calls EXCEPT ![t] = calls[t]] /\ frames = [frames EXCEPT ![t] = frames[t]]
         /\ registered = [registered EXCEPT ![t] = registered[t]] /\ ran = [ran EXCEPT ![t] = ran[t]]
         /\ panicking = [panicking EXCEPT ![t] = panicking[t]] /\ attached = [attached EXCEPT ![t] = attached[t]]
  BY Rewritten DEF FramesIndInv, FramesTyped

\* thread_attach keeps the invariant.
LEMMA AttachKeeps ==
  ASSUME FramesIndInv, NEW t \in Thread, thread_attach(t)
  PROVE  FramesIndInv'
  <1>1. PICK n : n = [ran[t] EXCEPT ![Tls] = 0]
    OBVIOUS
  <1>2. n \in [Action -> Nat] /\ n[Tls] = 0 /\ \A a \in Action : n[a] = 0 \/ n[a] = ran[t][a]
    BY <1>1, ThreadFacts
  <1>3. Counts(registered[t], n)
    BY <1>2, ThreadFacts DEF Counts
  <1>4. PICK c : c = NewCall("body", FALSE, 0, <<>>, 0)
    OBVIOUS
  <1>5. StackFine(<<c>>, 0, registered[t], n, FALSE, TRUE) /\ c \in Call /\ c.kind # "trace"
    BY <1>2, <1>4, ThreadFacts, StackStarts
  <1>6. Len(<<c>>) = 1 /\ <<c>>[1] = c
    OBVIOUS
  <1>7. 1 <= MaxDepth[t]
    BY BoundAssumption
  <1>8. /\ calls' = [calls EXCEPT ![t] = <<c>>] /\ frames' = [frames EXCEPT ![t] = 0]
        /\ panicking' = [panicking EXCEPT ![t] = FALSE] /\ attached' = [attached EXCEPT ![t] = TRUE]
        /\ exited' = "no" /\ taken' = taken
    BY <1>4 DEF thread_attach, Running
  <1>9. ran' = [ran EXCEPT ![t] = n] /\ registered' = [registered EXCEPT ![t] = registered[t]]
    BY <1>1, FramesKept DEF thread_attach
  <1>. QED  BY <1>2, <1>3, <1>5, <1>6, <1>7, <1>8, <1>9, ThreadFacts, FramesStep

\* thread_detach keeps the invariant.
LEMMA DetachKeeps ==
  ASSUME FramesIndInv, NEW t \in Thread, thread_detach(t)
  PROVE  FramesIndInv'
  <1>0. /\ registered[t] \in Nat /\ ran[t] \in [Action -> Nat] /\ panicking[t] \in BOOLEAN /\ attached[t] \in BOOLEAN
        /\ Len(calls[t]) <= MaxDepth[t] /\ registered[t] <= MaxActions[t] /\ Counts(registered[t], ran[t])
        /\ FALSE \in BOOLEAN
    BY ThreadFacts
  <1>1. /\ registered' = [registered EXCEPT ![t] = registered[t]] /\ ran' = [ran EXCEPT ![t] = ran[t]]
        /\ panicking' = [panicking EXCEPT ![t] = panicking[t]]
        /\ frames' = [frames EXCEPT ![t] = 0] /\ attached' = [attached EXCEPT ![t] = FALSE]
        /\ exited' = "no" /\ taken' = taken
    BY FramesKept DEF thread_detach, Running
  <1>2. CASE attached[t]
    <2>1. PICK c : c = NewCall("tls", FALSE, 0, <<Tls>>, 0)
      OBVIOUS
    <2>2. ran[t][Tls] = 0
      BY <1>2, ThreadFacts DEF StackFine, Undropped
    <2>3. StackFine(<<c>>, 0, registered[t], ran[t], panicking[t], FALSE) /\ c \in Call /\ c.kind # "trace"
      BY <2>1, <2>2, ThreadFacts, StackStarts
    <2>4. PICK s : s = <<c>>
      OBVIOUS
    <2>5. Len(s) <= MaxDepth[t] /\ s[Len(s)].kind # "trace"
      <3>1. Len(s) = 1 /\ s[1] = c
        BY <2>4
      <3>2. 1 <= MaxDepth[t]
        BY BoundAssumption
      <3>. QED  BY <2>3, <3>1, <3>2
    <2>6. calls' = [calls EXCEPT ![t] = s]
      BY <1>2, <2>1, <2>4 DEF thread_detach
    <2>7. StackFine(s, 0, registered[t], ran[t], panicking[t], FALSE)
      BY <2>3, <2>4
    <2>. QED  BY <1>0, <1>1, <2>5, <2>6, <2>7, FramesStep, Zenon
  <1>3. CASE ~attached[t]
    <2>1. calls[t] = <<>>
      BY ThreadFacts, EmptySeq DEF thread_detach, Depth
    <2>2. StackFine(calls[t], 0, registered[t], ran[t], panicking[t], FALSE)
      BY <2>1, ThreadFacts, StackRests
    <2>3. calls' = [calls EXCEPT ![t] = calls[t]]
      BY <1>3, FramesKept DEF thread_detach
    <2>4. ~(Len(calls[t]) > 0)
      BY <2>1
    <2>. QED  BY <1>0, <1>1, <2>2, <2>3, <2>4, FramesStep, Zenon
  <1>. QED  BY <1>2, <1>3

\* What the guard of a step of the program says.
LEMMA TopFacts ==
  ASSUME FramesIndInv, NEW t \in Thread, Depth(t) > 0
  PROVE  /\ Depth(t) = Len(calls[t]) /\ Depth(t) \in 1 .. Len(calls[t])
         /\ Top(t) = calls[t][Depth(t)] /\ Top(t) \in Call
         /\ Top(t).pushed \in BOOLEAN /\ Top(t).live \in Seq(Nat)
  <1>1. calls[t] \in Seq(Call) /\ Len(calls[t]) \in Nat
    BY ThreadFacts
  <1>2. Depth(t) = Len(calls[t]) /\ Depth(t) \in 1 .. Len(calls[t]) /\ Top(t) = calls[t][Depth(t)]
    BY <1>1 DEF Depth, Top
  <1>. QED  BY <1>1, <1>2, CallFacts

\* frame_push keeps the invariant.
LEMMA PushKeeps ==
  ASSUME FramesIndInv, NEW t \in Thread, NEW pushed \in BOOLEAN, frame_push(t, pushed)
  PROVE  FramesIndInv'
  <1>0. /\ calls[t] \in Seq(Call) /\ Len(calls[t]) \in Nat /\ Len(calls[t]) < MaxDepth[t] /\ MaxDepth[t] \in Nat
        /\ exited = "no" /\ frames[t] \in 0 .. Len(calls[t])
    <2>1. frames[t] = 0 \/ frames[t] \in 1 .. Len(calls[t])
      BY ThreadFacts DEF StackFine, Chained, IsNewest, PushedIn
    <2>. QED  BY <2>1, ThreadFacts DEF frame_push, InProgram, Running, Depth
  <1>a. calls[t][Len(calls[t])].kind # "trace"
    BY DEF frame_push, InProgram, Top, Depth
  <1>1. PICK w \in 0 .. Len(calls[t]) : w = IF pushed THEN frames[t] ELSE 0
    BY <1>0
  <1>2. PICK c : c = NewCall("body", pushed, w, <<>>, 0)
    OBVIOUS
  <1>3. /\ c \in Call /\ c.live = <<>> /\ c.previous \in 0 .. Len(calls[t]) /\ c.at = 0
        /\ c.pushed = pushed /\ c.kind = "body" /\ c.previous = w
    BY <1>0, <1>1, <1>2 DEF NewCall, Call
  <1>4. PICK g : g = IF c.pushed THEN Len(calls[t]) + 1 ELSE frames[t]
    OBVIOUS
  <1>5. PICK s : s = Append(calls[t], c)
    OBVIOUS
  <1>6. StackFine(s, g, registered[t], ran[t], panicking[t], attached[t])
    <2>1. c.pushed => c.kind = "body" /\ c.previous = frames[t]
      BY <1>1, <1>3
    <2>2. (c.kind = "report" /\ ~panicking[t] /\ panicking[t]) \/ (c.kind = "body" /\ panicking[t] = panicking[t])
      BY <1>3
    <2>3. /\ registered[t] \in Nat /\ panicking[t] \in BOOLEAN /\ attached[t] \in BOOLEAN
          /\ StackFine(calls[t], frames[t], registered[t], ran[t], panicking[t], attached[t])
      BY ThreadFacts
    <2>4. c \in Call /\ c.live = <<>> /\ c.previous \in 0 .. Len(calls[t]) /\ c.at = 0
      BY <1>3
    <2>5. PICK z, f, r, n, p, b : /\ z = calls[t] /\ f = frames[t] /\ r = registered[t] /\ n = ran[t]
                                  /\ p = panicking[t] /\ b = attached[t]
      OBVIOUS
    <2>6. /\ r \in Nat /\ p \in BOOLEAN /\ b \in BOOLEAN /\ StackFine(z, f, r, n, p, b)
          /\ c.pushed => c.kind = "body" /\ c.previous = f
          /\ (c.kind = "report" /\ ~p /\ p) \/ (c.kind = "body" /\ p = p)
          /\ c \in Call /\ c.live = <<>> /\ c.previous \in 0 .. Len(z) /\ c.at = 0
          /\ g = IF c.pushed THEN Len(z) + 1 ELSE f
          /\ z[Len(z)].kind # "trace"
      BY <1>a, <1>4, <2>1, <2>2, <2>3, <2>4, <2>5
    <2>7. StackFine(Append(z, c), g, r, n, p, b)
      BY ONLY <2>6, StackGrows, SMT
    <2>. QED  BY <1>5, <2>5, <2>7
  <1>7. Len(s) = Len(calls[t]) + 1 /\ s[Len(calls[t]) + 1] = c
    BY <1>0, <1>3, <1>5, AppendProperties
  <1>8. calls' = [calls EXCEPT ![t] = s] /\ frames' = [frames EXCEPT ![t] = g] /\ exited' = "no" /\ taken' = taken
    BY <1>0, <1>1, <1>2, <1>3, <1>4, <1>5, FramesKept DEF frame_push, Depth
  <1>9. /\ registered' = [registered EXCEPT ![t] = registered[t]] /\ ran' = [ran EXCEPT ![t] = ran[t]]
        /\ panicking' = [panicking EXCEPT ![t] = panicking[t]] /\ attached' = [attached EXCEPT ![t] = attached[t]]
    BY FramesKept DEF frame_push
  <1>10. Len(s) <= MaxDepth[t] /\ s[Len(s)].kind # "trace"
    BY <1>0, <1>3, <1>7
  <1>. QED  BY <1>6, <1>8, <1>9, <1>10, ThreadFacts, FramesStep

\* Register keeps the invariant.
LEMMA RegisterKeeps ==
  ASSUME FramesIndInv, NEW t \in Thread, Register(t)
  PROVE  FramesIndInv'
  <1>0. Depth(t) > 0 /\ exited = "no" /\ registered[t] < MaxActions[t] /\ Top(t).pushed
    BY DEF Register, InProgram, Running
  <1>1. PICK r \in Nat : r = registered[t]
    BY ThreadFacts
  <1>2. r + 1 \in Nat /\ r + 1 <= MaxActions[t]
    BY <1>0, <1>1, ThreadFacts
  <1>3. r + 1 \in Action
    BY <1>2, ThreadFacts DEF Action
  <1>4. ran[t][r + 1] = 0 /\ Counts(r + 1, ran[t])
    <2>1. Counts(r, ran[t])
      BY <1>1, ThreadFacts
    <2>2. Action \subseteq Nat
      BY BoundAssumption DEF Action
    <2>3. \A a \in Action : a > r + 1 => a > r
      BY <2>2
    <2>4. r + 1 > r
      OBVIOUS
    <2>. QED  BY <1>3, <2>1, <2>3, <2>4 DEF Counts
  <1>5. PICK s : s = WithLive(calls[t], Len(calls[t]), Append(calls[t][Len(calls[t])].live, r + 1))
    OBVIOUS
  <1>6. StackFine(s, frames[t], r + 1, ran[t], panicking[t], attached[t]) /\ Len(s) = Len(calls[t])
    <2>1. /\ Len(calls[t]) > 0 /\ calls[t][Len(calls[t])].pushed
      BY <1>0, TopFacts, ThreadFacts
    <2>2. /\ panicking[t] \in BOOLEAN /\ attached[t] \in BOOLEAN
          /\ StackFine(calls[t], frames[t], r, ran[t], panicking[t], attached[t])
      BY <1>1, ThreadFacts
    <2>3. PICK z, f, n, p, b : z = calls[t] /\ f = frames[t] /\ n = ran[t] /\ p = panicking[t] /\ b = attached[t]
      OBVIOUS
    <2>4. /\ p \in BOOLEAN /\ b \in BOOLEAN /\ StackFine(z, f, r, n, p, b)
          /\ Len(z) > 0 /\ z[Len(z)].pushed /\ n[r + 1] = 0
          /\ s = WithLive(z, Len(z), Append(z[Len(z)].live, r + 1))
      BY <1>4, <1>5, <2>1, <2>2, <2>3
    <2>5. StackFine(s, f, r + 1, n, p, b)
      BY <2>4, StackRegisters, SMT
    <2>6. Len(s) = Len(z)
      BY <2>4, StackRegisters, SMT
    <2>. QED  BY <2>3, <2>5, <2>6
  <1>7. s[Len(s)].kind = calls[t][Len(calls[t])].kind
    BY <1>0, <1>5, <1>6, TopFacts, ThreadFacts DEF Call, WithLive
  <1>8. s[Len(s)].kind # "trace"
    BY <1>0, <1>7, TopFacts DEF Register, InProgram
  <1>9. registered' = [registered EXCEPT ![t] = r + 1]
    BY <1>1 DEF Register
  <1>10. registered'[t] = r + 1
    BY <1>9 DEF FramesIndInv, FramesTyped
  <1>11. calls' = [calls EXCEPT ![t] = s]
    BY <1>0, <1>5, <1>10, TopFacts, ThreadFacts DEF Register, Depth, WithLive, FramesIndInv, FramesTyped
  <1>12. /\ frames' = [frames EXCEPT ![t] = frames[t]] /\ ran' = [ran EXCEPT ![t] = ran[t]]
         /\ panicking' = [panicking EXCEPT ![t] = panicking[t]] /\ attached' = [attached EXCEPT ![t] = attached[t]]
         /\ exited' = "no" /\ taken' = taken
    BY <1>0, FramesKept DEF Register
  <1>13. /\ ran[t] \in [Action -> Nat] /\ panicking[t] \in BOOLEAN /\ attached[t] \in BOOLEAN
         /\ Len(s) <= MaxDepth[t]
    BY <1>6, ThreadFacts
  <1>. QED  BY <1>2, <1>4, <1>6, <1>8, <1>9, <1>11, <1>12, <1>13, FramesStep, Zenon

\* The state of a thread, named for the lemmas on stacks.
StateOf(t, z, f, r, n, p, b) ==
    /\ z = calls[t] /\ f = frames[t] /\ r = registered[t] /\ n = ran[t] /\ p = panicking[t] /\ b = attached[t]

\* The names the lemmas on stacks take for the state of a thread.
LEMMA ThreadState ==
  ASSUME FramesIndInv, NEW t \in Thread
  PROVE  \E z, f, r, n, p, b :
           /\ StateOf(t, z, f, r, n, p, b)
           /\ z \in Seq(Call) /\ Len(z) \in Nat /\ f \in Nat /\ r \in Nat /\ n \in [Action -> Nat]
           /\ p \in BOOLEAN /\ b \in BOOLEAN /\ StackFine(z, f, r, n, p, b)
           /\ Len(z) <= MaxDepth[t] /\ r <= MaxActions[t] /\ Counts(r, n) /\ 0 .. r \subseteq Action
  BY ThreadFacts, Zenon DEF StateOf

\* Unregister keeps the invariant.
LEMMA UnregisterKeeps ==
  ASSUME FramesIndInv, NEW t \in Thread, NEW i \in 1 .. Len(Top(t).live), Unregister(t, i)
  PROVE  FramesIndInv'
  <1>0. Depth(t) > 0 /\ exited = "no" /\ Top(t).pushed /\ Top(t).kind # "trace"
    BY DEF Unregister, InProgram, Running
  <1>1. PICK z, f, r, n, p, b :
           /\ StateOf(t, z, f, r, n, p, b)
           /\ z \in Seq(Call) /\ Len(z) \in Nat /\ f \in Nat /\ r \in Nat /\ n \in [Action -> Nat]
           /\ p \in BOOLEAN /\ b \in BOOLEAN /\ StackFine(z, f, r, n, p, b)
           /\ Len(z) <= MaxDepth[t] /\ r <= MaxActions[t] /\ Counts(r, n) /\ 0 .. r \subseteq Action
    BY ThreadState, Zenon
  <1>2. PICK k \in 1 .. Len(z) : k = Depth(t) /\ k = Len(z)
    BY <1>0, <1>1, TopFacts DEF StateOf
  <1>3. z[k].live \in Seq(Nat) /\ z[k].pushed /\ z[k].kind # "trace" /\ i \in 1 .. Len(z[k].live)
    BY <1>0, <1>1, <1>2, TopFacts DEF StateOf
  <1>4. PICK o : o = z[k].live
    OBVIOUS
  <1>5. PICK m \in Nat : m = Len(o)
    BY <1>3, <1>4
  <1>6. o \in Seq(Nat) /\ i \in 1 .. m
    BY <1>3, <1>4, <1>5
  <1>7. PICK l : l = Without(o, i)
    OBVIOUS
  <1>8. l = [j \in 1 .. m - 1 |-> o[IF j < i THEN j ELSE j + 1]]
    BY <1>5, <1>7 DEF Without
  <1>9. \A j \in 1 .. m - 1 : (IF j < i THEN j ELSE j + 1) \in 1 .. m
    BY <1>5, <1>6
  <1>10. l \in Seq(Nat) /\ Len(l) = m - 1 /\ \A j \in 1 .. m - 1 : l[j] = o[IF j < i THEN j ELSE j + 1]
    <2>1. \A j \in 1 .. m - 1 : o[IF j < i THEN j ELSE j + 1] \in Nat
      BY <1>5, <1>6, <1>9, ElementOfSeq
    <2>2. m - 1 \in Nat
      BY <1>5, <1>6
    <2>. QED  BY <1>8, <2>1, <2>2, SMT
  <1>11. \A x \in 1 .. Len(l) : \E y \in 1 .. Len(z[k].live) : l[x] = z[k].live[y]
    BY <1>4, <1>5, <1>9, <1>10
  <1>12. \A x, y \in 1 .. Len(l) : x < y => l[x] < l[y]
    <2>1. SUFFICES ASSUME NEW x \in 1 .. m - 1, NEW y \in 1 .. m - 1, x < y PROVE l[x] < l[y]
      BY <1>10
    <2>2. PICK v \in 1 .. m : v = IF x < i THEN x ELSE x + 1
      BY <1>9
    <2>3. PICK w \in 1 .. m : w = IF y < i THEN y ELSE y + 1
      BY <1>9
    <2>4. v < w
      BY <1>5, <1>6, <2>1, <2>2, <2>3
    <2>5. o[v] < o[w]
      BY <1>1, <1>4, <1>5, <2>4 DEF StackFine, Ordered
    <2>. QED  BY <1>10, <2>2, <2>3, <2>5
  <1>13. PICK s : s = WithLive(z, k, l)
    OBVIOUS
  <1>14. StackFine(s, f, r, n, p, b) /\ Len(s) = Len(z)
    <2>1. l \in Seq(Nat) /\ z[k].pushed
      BY <1>3, <1>10
    <2>2. StackFine(s, f, r, n, p, b)
      <3>1. r \in Nat /\ p \in BOOLEAN /\ b \in BOOLEAN /\ StackFine(z, f, r, n, p, b)
        BY <1>1
      <3>. QED  BY <1>11, <1>12, <1>13, <2>1, <3>1, StackSheds, Zenon
    <2>3. Len(s) = Len(z)
      BY <1>1, <1>13 DEF WithLive
    <2>. QED  BY <2>2, <2>3
  <1>15. s[Len(s)].kind # "trace"
    <2>1. z[k] \in Call
      BY <1>1
    <2>2. s[k].kind = z[k].kind
      BY <1>1, <1>13, <2>1 DEF Call, WithLive
    <2>. QED  BY <1>0, <1>2, <1>3, <1>14, <2>2
  <1>16. calls' = [calls EXCEPT ![t] = s]
    <2>1. calls' = [calls EXCEPT ![t] = [calls[t] EXCEPT ![Depth(t)].live = Without(calls[t][Depth(t)].live, i)]]
      BY DEF Unregister
    <2>. QED  BY <1>1, <1>2, <1>4, <1>7, <1>13, <2>1 DEF WithLive, StateOf
  <1>17. /\ frames' = [frames EXCEPT ![t] = f] /\ ran' = [ran EXCEPT ![t] = n]
         /\ registered' = [registered EXCEPT ![t] = r]
         /\ panicking' = [panicking EXCEPT ![t] = p] /\ attached' = [attached EXCEPT ![t] = b]
         /\ exited' = "no" /\ taken' = taken
    BY <1>0, <1>1, FramesKept DEF Unregister, StateOf
  <1>18. Len(s) <= MaxDepth[t]
    BY <1>1, <1>14
  <1>. QED  BY <1>1, <1>14, <1>15, <1>16, <1>17, <1>18, FramesStep, Zenon

\* An action that runs, as a scope is left or replayed, keeps the invariant, and it is
\* the newest of its thread.
LEMMA RunKeeps ==
  ASSUME FramesIndInv, NEW t \in Thread, Depth(t) > 0, exited = "no", Depth(t) < MaxDepth[t],
         NEW k \in 1 .. Len(calls[t]), calls[t][k].live # <<>>, RunNewest(t, k), Top(t).kind # "trace",
         UNCHANGED <<frames, panicking, attached, registered, taken, exited>>
  PROVE  /\ FramesIndInv'
         /\ \A u \in Thread, a \in Action : ran'[u][a] > ran[u][a] => u = t /\ a = Last(calls[t][k].live)
  <1>1. PICK z, f, r, n, p, b :
           /\ StateOf(t, z, f, r, n, p, b)
           /\ z \in Seq(Call) /\ Len(z) \in Nat /\ f \in Nat /\ r \in Nat /\ n \in [Action -> Nat]
           /\ p \in BOOLEAN /\ b \in BOOLEAN /\ StackFine(z, f, r, n, p, b)
           /\ Len(z) <= MaxDepth[t] /\ r <= MaxActions[t] /\ Counts(r, n) /\ 0 .. r \subseteq Action
    BY ThreadState, Zenon
  <1>2. PICK v : v = Last(z[k].live)
    OBVIOUS
  <1>3. PICK q : q = OneMore(n, v)
    OBVIOUS
  <1>4. PICK s : s = RunsLast(z, k)
    OBVIOUS
  <1>5. k \in 1 .. Len(z) /\ z[k].live # <<>> /\ z[Len(z)].kind # "trace"
    BY <1>1 DEF StateOf, Top, Depth
  <1>6. /\ StackFine(s, f, r, q, p, b) /\ Len(s) = Len(z) + 1 /\ s[Len(s)].kind = "body"
        /\ q \in [Action -> Nat] /\ Counts(r, q)
        /\ v \in Action /\ \A a \in Action : a # v => q[a] = n[a]
    <2>1. /\ r \in Nat /\ n \in [Action -> Nat] /\ p \in BOOLEAN /\ b \in BOOLEAN /\ StackFine(z, f, r, n, p, b)
          /\ Counts(r, n) /\ 0 .. r \subseteq Action
      BY <1>1
    <2>2. RanFine(z, k, f, r, n, p, b)
      BY ONLY <1>5, <2>1, StackRuns, Zenon
    <2>. QED  BY <1>2, <1>3, <1>4, <2>2 DEF RanFine
  <1>7. ran' = [ran EXCEPT ![t] = q] /\ calls' = [calls EXCEPT ![t] = s]
    <2>1. /\ ran' = [ran EXCEPT ![t] = [ran[t] EXCEPT ![Last(calls[t][k].live)] = ran[t][Last(calls[t][k].live)] + 1]]
          /\ calls' = [calls EXCEPT ![t] = Append([calls[t] EXCEPT ![k].live = Front(calls[t][k].live)],
                                                 NewCall("body", FALSE, 0, <<>>, 0))]
      BY DEF RunNewest
    <2>. QED  BY <1>1, <1>2, <1>3, <1>4, <2>1 DEF StateOf, RunsLast, WithLive, OneMore
  <1>8. /\ frames' = [frames EXCEPT ![t] = f] /\ registered' = [registered EXCEPT ![t] = r]
        /\ panicking' = [panicking EXCEPT ![t] = p] /\ attached' = [attached EXCEPT ![t] = b]
        /\ exited' = "no" /\ taken' = taken
    BY <1>1, FramesKept DEF StateOf
  <1>9. Len(s) <= MaxDepth[t]
    <2>1. MaxDepth[t] \in Nat
      BY ThreadFacts
    <2>. QED  BY <1>1, <1>6, <2>1 DEF Depth, StateOf
  <1>10. s[Len(s)].kind # "trace"
    BY <1>6
  <1>11. FramesIndInv'
    <2>1. /\ StackFine(s, f, r, q, p, b) /\ q \in [Action -> Nat] /\ Counts(r, q)
          /\ r \in Nat /\ p \in BOOLEAN /\ b \in BOOLEAN /\ r <= MaxActions[t]
      BY <1>1, <1>6
    <2>. QED  BY ONLY FramesIndInv, t \in Thread, <1>7, <1>8, <1>9, <1>10, <2>1, FramesStep, Zenon
  <1>12. ASSUME NEW u \in Thread, NEW a \in Action, ran'[u][a] > ran[u][a] PROVE u = t /\ a = v
    <2>1. ran \in [Thread -> [Action -> Nat]]
      BY DEF FramesIndInv, FramesTyped
    <2>2. u = t
      BY <1>7, <1>12, <2>1
    <2>3. ran'[u][a] = q[a] /\ ran[u][a] = n[a] /\ n[a] \in Nat
      BY <1>1, <1>7, <2>1, <2>2 DEF StateOf
    <2>. QED  BY <1>6, <1>12, <2>2, <2>3
  <1>. QED  BY <1>1, <1>2, <1>11, <1>12 DEF StateOf

\* frame_pop keeps the invariant.
LEMMA PopKeeps ==
  ASSUME FramesIndInv, NEW t \in Thread, frame_pop(t)
  PROVE  FramesIndInv'
  <1>0. Depth(t) > 0 /\ exited = "no" /\ Top(t).kind # "report" /\ Top(t).kind \in {"body", "report", "tls"}
    BY DEF frame_pop, InProgram, Running
  <1>1. PICK z, f, r, n, p, b :
           /\ StateOf(t, z, f, r, n, p, b)
           /\ z \in Seq(Call) /\ Len(z) \in Nat /\ f \in Nat /\ r \in Nat /\ n \in [Action -> Nat]
           /\ p \in BOOLEAN /\ b \in BOOLEAN /\ StackFine(z, f, r, n, p, b)
           /\ Len(z) <= MaxDepth[t] /\ r <= MaxActions[t] /\ Counts(r, n) /\ 0 .. r \subseteq Action
    BY ThreadState, Zenon
  <1>2. Len(z) > 0 /\ Top(t) = z[Len(z)] /\ Depth(t) = Len(z)
    BY <1>0, <1>1 DEF Depth, Top, StateOf
  <1>3. PICK g : g = IF z[Len(z)].pushed /\ f = Len(z) THEN z[Len(z)].previous ELSE f
    OBVIOUS
  <1>4. PICK s : s = Front(z)
    OBVIOUS
  <1>5. StackFine(s, g, r, n, p, b) /\ Len(s) = Len(z) - 1
    <2>1. r \in Nat /\ p \in BOOLEAN /\ b \in BOOLEAN /\ StackFine(z, f, r, n, p, b) /\ Len(z) > 0
      BY <1>1, <1>2
    <2>2. StackFine(Front(z), g, r, n, p, b)
      BY ONLY <1>3, <2>1, StackShrinks, Zenon
    <2>3. Len(Front(z)) = Len(z) - 1
      <3>1. z \in Seq(Call) /\ Len(z) > 0
        BY <1>1, <2>1
      <3>. QED  BY ONLY <3>1 DEF Front
    <2>. QED  BY <1>4, <2>2, <2>3
  <1>6. frames' = [frames EXCEPT ![t] = g] /\ calls' = [calls EXCEPT ![t] = s]
    <2>1. frames' = [frames EXCEPT ![t] = IF Top(t).pushed /\ frames[t] = Depth(t) THEN Top(t).previous ELSE frames[t]]
      BY FramesKept DEF frame_pop
    <2>2. calls' = [calls EXCEPT ![t] = Front(calls[t])]
      BY DEF frame_pop
    <2>. QED  BY <1>1, <1>2, <1>3, <1>4, <2>1, <2>2 DEF StateOf
  <1>7. /\ registered' = [registered EXCEPT ![t] = r] /\ ran' = [ran EXCEPT ![t] = n]
        /\ panicking' = [panicking EXCEPT ![t] = p] /\ attached' = [attached EXCEPT ![t] = b]
        /\ exited' = "no" /\ taken' = taken
    BY <1>0, <1>1, FramesKept DEF frame_pop, StateOf
  <1>8. Len(s) <= MaxDepth[t]
    <2>1. MaxDepth[t] \in Nat
      BY ThreadFacts
    <2>. QED  BY <1>1, <1>5, <2>1
  <1>9. ~(Len(s) > 0 /\ s[Len(s)].kind = "trace")
    <2>1. SUFFICES ASSUME Len(s) > 0, s[Len(s)].kind = "trace" PROVE FALSE
      OBVIOUS
    <2>2. PICK k \in Nat : k = Len(s)
      BY <1>1, <1>5
    <2>3. k \in 1 .. Len(z) /\ Len(z) \in 1 .. Len(z) /\ k < Len(z)
      BY <1>1, <1>5, <2>1, <2>2
    <2>4. z[k].kind # "trace"
      BY <1>1, <2>3 DEF StackFine, TraceOnTop
    <2>5. s[k] = z[k]
      BY <1>1, <1>4, <2>1, <2>2, <2>3 DEF Front
    <2>. QED  BY <2>1, <2>2, <2>4, <2>5
  <1>. QED  BY <1>1, <1>5, <1>6, <1>7, <1>8, <1>9, FramesStep, Zenon

\* A step that ends the process leaves the stacks as they are.
LEMMA EndKeeps ==
  ASSUME FramesIndInv, NEW how, abort(how), UnwindComplete'
  PROVE  FramesIndInv'
  <1>1. UNCHANGED <<calls, frames, panicking, attached, registered, ran, taken>>
    BY DEF abort
  <1>2. FramesTyped' /\ TraceClaimed'
    BY <1>1 DEF FramesIndInv, FramesTyped, TraceClaimed, Tracing
  <1>3. ASSUME NEW t \in Thread PROVE ThreadFine(t)'
    <2>1. ThreadFine(t)
      BY DEF FramesIndInv
    <2>. QED  BY <1>1, <2>1 DEF ThreadFine
  <1>. QED  BY <1>2, <1>3 DEF FramesIndInv

\* panic_begin keeps the invariant.
LEMMA BeginKeeps ==
  ASSUME FramesIndInv, NEW t \in Thread, panic_begin(t)
  PROVE  FramesIndInv'
  <1>1. CASE panicking[t]
    <2>1. abort("panic while unwinding")
      BY <1>1 DEF panic_begin
    <2>2. UnwindComplete'
      BY <2>1 DEF abort, UnwindComplete
    <2>. QED  BY <2>1, <2>2, EndKeeps
  <1>2. CASE ~panicking[t]
    <2>1. PICK z, f, r, n, p, b :
             /\ StateOf(t, z, f, r, n, p, b)
             /\ z \in Seq(Call) /\ Len(z) \in Nat /\ f \in Nat /\ r \in Nat /\ n \in [Action -> Nat]
             /\ p \in BOOLEAN /\ b \in BOOLEAN /\ StackFine(z, f, r, n, p, b)
             /\ Len(z) <= MaxDepth[t] /\ r <= MaxActions[t] /\ Counts(r, n) /\ 0 .. r \subseteq Action
      BY ThreadState, Zenon
    <2>2. Len(z) < MaxDepth[t] /\ MaxDepth[t] \in Nat /\ exited = "no" /\ z[Len(z)].kind # "trace" /\ ~p
      BY <1>2, <2>1, ThreadFacts DEF panic_begin, InProgram, Running, Top, Depth, StateOf
    <2>3. PICK c : c = NewCall("report", FALSE, 0, <<>>, 0)
      OBVIOUS
    <2>4. /\ c \in Call /\ c.live = <<>> /\ c.previous = 0 /\ c.at = 0 /\ c.pushed = FALSE /\ c.kind = "report"
      BY <2>3 DEF NewCall, Call, PanicKinds
    <2>5. PICK s : s = Append(z, c)
      OBVIOUS
    <2>6. StackFine(s, f, r, n, TRUE, b)
      <3>0. PICK q \in BOOLEAN : q = TRUE
        OBVIOUS
      <3>1. /\ c \in Call /\ c.live = <<>> /\ c.previous \in 0 .. Len(z) /\ c.at = 0
            /\ c.pushed => c.kind = "body" /\ c.previous = f
            /\ (c.kind = "report" /\ ~p /\ q) \/ (c.kind = "body" /\ q = p)
            /\ f = IF c.pushed THEN Len(z) + 1 ELSE f
            /\ z[Len(z)].kind # "trace" /\ StackFine(z, f, r, n, p, b) /\ r \in Nat
            /\ p \in BOOLEAN /\ b \in BOOLEAN /\ q \in BOOLEAN
        BY <2>1, <2>2, <2>4, <3>0
      <3>2. StackFine(Append(z, c), f, r, n, q, b)
        BY ONLY <3>1, StackGrows, SMT
      <3>. QED  BY <2>5, <3>0, <3>2
    <2>7. Len(s) = Len(z) + 1 /\ s[Len(s)] = c
      BY <2>1, <2>4, <2>5
    <2>8. Len(s) <= MaxDepth[t] /\ s[Len(s)].kind # "trace"
      BY <2>1, <2>2, <2>4, <2>7
    <2>9. /\ calls' = [calls EXCEPT ![t] = s] /\ panicking' = [panicking EXCEPT ![t] = TRUE]
          /\ exited' = "no" /\ taken' = taken
      BY <1>2, <2>1, <2>2, <2>3, <2>5 DEF panic_begin, StateOf
    <2>10. /\ registered' = [registered EXCEPT ![t] = r] /\ ran' = [ran EXCEPT ![t] = n]
           /\ frames' = [frames EXCEPT ![t] = f] /\ attached' = [attached EXCEPT ![t] = b]
      BY <1>2, <2>1, FramesKept DEF panic_begin, StateOf
    <2>11. TRUE \in BOOLEAN
      OBVIOUS
    <2>. QED  BY <2>1, <2>6, <2>8, <2>9, <2>10, <2>11, FramesStep, Zenon
  <1>. QED  BY <1>1, <1>2

\* A step that only changes the call of a panic on top keeps the invariant.
LEMMA PanicKeeps ==
  ASSUME FramesIndInv, NEW t \in Thread, exited = "no", Depth(t) > 0, Top(t).kind \in PanicKinds,
         NEW c \in Call, c.kind \in {"trace", "unwind"},
         c.pushed = FALSE, c.live = <<>>, c.previous \in 0 .. Depth(t) - 1, c.at \in 0 .. Depth(t),
         c.at # 0 => c.at \in PushedIn(calls[t]),
         \A j \in PushedIn(calls[t]) : c.at < j /\ j <= Depth(t) => calls[t][j].live = <<>>,
         calls' = [calls EXCEPT ![t] = [calls[t] EXCEPT ![Depth(t)] = c]],
         c.kind = "trace" => ~taken /\ taken', taken => taken',
         UNCHANGED <<frames, panicking, attached, registered, ran, exited>>
  PROVE  FramesIndInv'
  <1>1. PICK z, f, r, n, p, b :
           /\ StateOf(t, z, f, r, n, p, b)
           /\ z \in Seq(Call) /\ Len(z) \in Nat /\ f \in Nat /\ r \in Nat /\ n \in [Action -> Nat]
           /\ p \in BOOLEAN /\ b \in BOOLEAN /\ StackFine(z, f, r, n, p, b)
           /\ Len(z) <= MaxDepth[t] /\ r <= MaxActions[t] /\ Counts(r, n) /\ 0 .. r \subseteq Action
    BY ThreadState, Zenon
  <1>2. PICK k \in 1 .. Len(z) : k = Len(z) /\ k = Depth(t)
    BY <1>1, TopFacts DEF StateOf
  <1>3. PICK s : s = WithCall(z, k, c)
    OBVIOUS
  <1>4. StackFine(s, f, r, n, p, b) /\ Len(s) = Len(z) /\ s[k] = c
    <2>1. /\ k \in 1 .. Len(z) /\ k = Len(z) /\ z[k].kind \in PanicKinds /\ c \in Call /\ c.kind \in {"trace", "unwind"}
          /\ c.pushed = FALSE /\ c.live = <<>> /\ c.previous \in 0 .. k - 1 /\ c.at \in 0 .. k
          /\ c.at # 0 => c.at \in PushedIn(z)
          /\ r \in Nat /\ p \in BOOLEAN /\ b \in BOOLEAN /\ StackFine(z, f, r, n, p, b)
      BY <1>1, <1>2 DEF StateOf, Top, Depth
    <2>2. \A j \in PushedIn(z) : c.at < j /\ j <= k => z[j].live = <<>>
      BY <1>1, <1>2 DEF StateOf
    <2>3. StackFine(s, f, r, n, p, b)
      BY ONLY <1>3, <2>1, <2>2, StackPanics, Zenon
    <2>. QED  BY <1>1, <1>3, <2>3 DEF WithCall
  <1>5. calls' = [calls EXCEPT ![t] = s]
    BY <1>1, <1>2, <1>3 DEF StateOf, WithCall
  <1>6. /\ registered' = [registered EXCEPT ![t] = r] /\ ran' = [ran EXCEPT ![t] = n]
        /\ frames' = [frames EXCEPT ![t] = f] /\ attached' = [attached EXCEPT ![t] = b]
        /\ panicking' = [panicking EXCEPT ![t] = p] /\ exited' = "no"
    BY <1>1, FramesKept DEF StateOf
  <1>7. /\ Len(s) <= MaxDepth[t] /\ (taken => taken')
        /\ Len(s) > 0 /\ s[Len(s)].kind = "trace" => (Tracing(t) \/ ~taken) /\ taken'
    BY <1>1, <1>2, <1>4
  <1>8. /\ StackFine(s, f, r, n, p, b) /\ r \in Nat /\ n \in [Action -> Nat] /\ p \in BOOLEAN /\ b \in BOOLEAN
        /\ Counts(r, n) /\ r <= MaxActions[t]
    BY <1>1, <1>4
  <1>. QED  BY ONLY FramesIndInv, t \in Thread, <1>5, <1>6, <1>7, <1>8, FramesStep, Zenon

\* What the invariant says of the call of a panic on top.
LEMMA PanicTop ==
  ASSUME FramesIndInv, NEW t \in Thread, Depth(t) > 0, Top(t).kind \in PanicKinds
  PROVE  /\ Top(t).pushed = FALSE /\ Top(t).live = <<>> /\ Depth(t) \in Nat
         /\ Top(t).previous \in 0 .. Depth(t) - 1 /\ Top(t).at \in 0 .. Depth(t)
         /\ frames[t] \in 0 .. Depth(t) /\ (frames[t] # 0 => frames[t] \in PushedIn(calls[t]))
         /\ \A j \in PushedIn(calls[t]) : j \in 1 .. Depth(t) /\ j <= frames[t]
         /\ Top(t).kind # "report" => /\ Top(t).at # 0 => Top(t).at \in PushedIn(calls[t])
                                      /\ \A j \in PushedIn(calls[t]) :
                                           Top(t).at < j /\ j <= Depth(t) => calls[t][j].live = <<>>
  <1>1. PICK k \in 1 .. Len(calls[t]) : k = Depth(t) /\ k = Len(calls[t])
    BY TopFacts
  <1>2. Top(t) = calls[t][k] /\ calls[t][k].pushed \in BOOLEAN /\ k \in Nat
    BY <1>1, TopFacts, ThreadFacts
  <1>3. StackFine(calls[t], frames[t], registered[t], ran[t], panicking[t], attached[t])
    BY ThreadFacts
  <1>4. Top(t).pushed = FALSE /\ Top(t).live = <<>>
    BY <1>1, <1>2, <1>3 DEF StackFine, Kept, PanicKinds
  <1>5. Top(t).previous \in 0 .. k - 1 /\ Top(t).at \in 0 .. k
    BY <1>1, <1>2, <1>3 DEF StackFine, Kept
  <1>6. PushedIn(calls[t]) \subseteq 1 .. k
    BY <1>1 DEF PushedIn
  <1>7. /\ frames[t] \in 0 .. k /\ (frames[t] # 0 => frames[t] \in PushedIn(calls[t]))
        /\ \A j \in PushedIn(calls[t]) : j <= frames[t]
    BY <1>2, <1>3, <1>6 DEF StackFine, Chained, IsNewest
  <1>8. Top(t).kind # "report" => /\ Top(t).at # 0 => Top(t).at \in PushedIn(calls[t])
                                  /\ \A j \in PushedIn(calls[t]) : Top(t).at < j /\ j <= k => calls[t][j].live = <<>>
    BY <1>2, <1>3 DEF StackFine, Walked, PanicKinds
  <1>. QED  BY <1>1, <1>2, <1>4, <1>5, <1>6, <1>7, <1>8

\* panic_end keeps the invariant.
LEMMA PanicEndKeeps ==
  ASSUME FramesIndInv, NEW t \in Thread, panic_end(t)
  PROVE  FramesIndInv'
  <1>1. exited = "no" /\ Depth(t) > 0 /\ Top(t).kind = "report" /\ Top(t).kind \in PanicKinds
    BY DEF panic_end, Running, PanicKinds
  <1>2. PICK w : w = IF taken THEN "unwind" ELSE "trace"
    OBVIOUS
  <1>3. PICK c : c = NewCall(w, FALSE, 0, <<>>, frames[t])
    OBVIOUS
  <1>4. w \in {"trace", "unwind"} /\ (w = "trace" => ~taken)
    BY <1>2
  <1>5. /\ c \in Call /\ c.kind = w /\ c.pushed = FALSE /\ c.live = <<>> /\ c.previous = 0 /\ c.at = frames[t]
    BY <1>3, <1>4, ThreadFacts DEF NewCall, Call, PanicKinds
  <1>6. /\ frames[t] \in 0 .. Depth(t) /\ Depth(t) \in Nat /\ (frames[t] # 0 => frames[t] \in PushedIn(calls[t]))
        /\ \A j \in PushedIn(calls[t]) : j \in 1 .. Depth(t) /\ j <= frames[t]
    BY <1>1, PanicTop
  <1>7. /\ c.kind \in {"trace", "unwind"} /\ c.previous \in 0 .. Depth(t) - 1 /\ c.at \in 0 .. Depth(t)
        /\ c.at # 0 => c.at \in PushedIn(calls[t])
    BY <1>1, <1>4, <1>5, <1>6
  <1>8. \A j \in PushedIn(calls[t]) : c.at < j /\ j <= Depth(t) => calls[t][j].live = <<>>
    BY <1>5, <1>6
  <1>9. /\ calls' = [calls EXCEPT ![t] = [calls[t] EXCEPT ![Depth(t)] = c]]
        /\ taken' = TRUE /\ UNCHANGED <<frames, panicking, attached, registered, ran, exited>>
    BY <1>2, <1>3 DEF panic_end
  <1>10. (c.kind = "trace" => ~taken /\ taken') /\ (taken => taken')
    BY <1>4, <1>5, <1>9
  <1>11. c \in Call /\ c.pushed = FALSE /\ c.live = <<>>
    BY <1>5
  <1>. QED  BY <1>1, <1>7, <1>8, <1>9, <1>10, <1>11, PanicKeeps, Zenon

\* panic_trace keeps the invariant.
LEMMA TraceKeeps ==
  ASSUME FramesIndInv, NEW t \in Thread, panic_trace(t)
  PROVE  FramesIndInv'
  <1>1. exited = "no" /\ Depth(t) > 0 /\ Top(t).kind = "trace" /\ Top(t).kind \in PanicKinds
    BY DEF panic_trace, Running, PanicKinds
  <1>2. PICK c : c = [Top(t) EXCEPT !.kind = "unwind"]
    OBVIOUS
  <1>3. Top(t) \in Call /\ Top(t) = calls[t][Depth(t)]
    BY <1>1, TopFacts
  <1>4. /\ c \in Call /\ c.kind = "unwind" /\ c.pushed = Top(t).pushed /\ c.live = Top(t).live
        /\ c.previous = Top(t).previous /\ c.at = Top(t).at
    BY <1>2, <1>3 DEF Call, PanicKinds
  <1>5. /\ Top(t).pushed = FALSE /\ Top(t).live = <<>>
        /\ Top(t).previous \in 0 .. Depth(t) - 1 /\ Top(t).at \in 0 .. Depth(t)
        /\ Top(t).at # 0 => Top(t).at \in PushedIn(calls[t])
    BY <1>1, PanicTop
  <1>6. \A j \in PushedIn(calls[t]) : Top(t).at < j /\ j <= Depth(t) => calls[t][j].live = <<>>
    BY <1>1, PanicTop
  <1>7. calls' = [calls EXCEPT ![t] = [calls[t] EXCEPT ![Depth(t)] = c]]
    <2>1. calls' = [calls EXCEPT ![t] = [calls[t] EXCEPT ![Depth(t)] = [calls[t][Depth(t)] EXCEPT !.kind = "unwind"]]]
      BY DEF panic_trace
    <2>. QED  BY <1>2, <1>3, <2>1
  <1>8. taken' = taken /\ UNCHANGED <<frames, panicking, attached, registered, ran, exited>>
    BY DEF panic_trace
  <1>9. /\ c.kind \in {"trace", "unwind"} /\ c.kind # "trace" /\ c.pushed = FALSE /\ c.live = <<>>
        /\ c.previous \in 0 .. Depth(t) - 1 /\ c.at \in 0 .. Depth(t)
        /\ c.at # 0 => c.at \in PushedIn(calls[t])
    BY <1>4, <1>5
  <1>10. \A j \in PushedIn(calls[t]) : c.at < j /\ j <= Depth(t) => calls[t][j].live = <<>>
    BY <1>4, <1>6
  <1>11. c \in Call
    BY <1>4
  <1>. QED  BY <1>1, <1>7, <1>8, <1>9, <1>10, <1>11, PanicKeeps, Zenon

\* PreviousFrame keeps the invariant: what the walk has passed is empty, and there is
\* nothing between a frame and the one before it.
LEMMA PreviousKeeps ==
  ASSUME FramesIndInv, NEW t \in Thread, PreviousFrame(t)
  PROVE  FramesIndInv'
  <1>1. exited = "no" /\ Depth(t) > 0 /\ Top(t).kind = "unwind" /\ Top(t).kind \in PanicKinds /\ Top(t).at # 0
    BY DEF PreviousFrame, Unwinding, Running, PanicKinds
  <1>2. PICK e : e = Top(t).at
    OBVIOUS
  <1>3. PICK w : w = calls[t][e].previous
    OBVIOUS
  <1>4. Top(t) \in Call /\ Top(t) = calls[t][Depth(t)]
    BY <1>1, TopFacts
  <1>5. /\ Top(t).pushed = FALSE /\ Top(t).live = <<>> /\ Depth(t) \in Nat
        /\ Top(t).previous \in 0 .. Depth(t) - 1 /\ e \in 0 .. Depth(t) /\ e \in PushedIn(calls[t])
    BY <1>1, <1>2, PanicTop
  <1>6. \A j \in PushedIn(calls[t]) : e < j /\ j <= Depth(t) => calls[t][j].live = <<>>
    BY <1>1, <1>2, PanicTop
  <1>7. \A j \in PushedIn(calls[t]) : j \in 1 .. Depth(t)
    BY <1>1, PanicTop
  <1>8. IsNewest(w, {j \in PushedIn(calls[t]) : j < e})
    BY <1>3, <1>5, ThreadFacts DEF StackFine, Chained
  <1>9. /\ w \in 0 .. Depth(t) /\ (w # 0 => w \in PushedIn(calls[t]))
        /\ \A j \in PushedIn(calls[t]) : j < e => j <= w
    <2>1. PICK d \in Nat : d = Depth(t)
      BY <1>5
    <2>2. PICK P : P = PushedIn(calls[t])
      OBVIOUS
    <2>3. \A j \in P : j \in 1 .. d
      BY <1>7, <2>1, <2>2
    <2>4. IF {j \in P : j < e} = {} THEN w = 0
          ELSE w \in {j \in P : j < e} /\ \A j \in {i \in P : i < e} : j <= w
      BY <1>8, <2>2 DEF IsNewest
    <2>5. w \in 0 .. d /\ (w # 0 => w \in P)
      <3>1. CASE w = 0
        BY <3>1
      <3>2. CASE w # 0
        <4>1. w \in P
          BY <2>4, <3>2
        <4>2. w \in 1 .. d
          BY <2>3, <4>1
        <4>. QED  BY <4>1, <4>2
      <3>. QED  BY <3>1, <3>2
    <2>6. \A j \in P : j < e => j <= w
      BY <2>4
    <2>. QED  BY <2>1, <2>2, <2>5, <2>6
  <1>10. PICK c : c = [Top(t) EXCEPT !.at = w]
    OBVIOUS
  <1>11. /\ c \in Call /\ c.kind = "unwind" /\ c.pushed = FALSE /\ c.live = <<>>
         /\ c.previous = Top(t).previous /\ c.at = w
    BY <1>1, <1>4, <1>5, <1>9, <1>10 DEF Call
  <1>12. ASSUME NEW j \in PushedIn(calls[t]), w < j, j <= Depth(t) PROVE calls[t][j].live = <<>>
    <2>0. PICK d \in Nat : d = Depth(t)
      BY <1>5
    <2>a. j \in 1 .. d /\ e \in 0 .. d /\ w \in 0 .. d
      BY <1>5, <1>7, <1>9, <2>0
    <2>1. j < e \/ j = e \/ e < j
      BY <2>a
    <2>2. ~(j < e)
      <3>1. j < e => j <= w
        BY <1>9
      <3>. QED  BY <1>12, <2>a, <3>1
    <2>3. calls[t][e].live = <<>>
      BY <1>2 DEF PreviousFrame
    <2>. QED  BY <1>6, <1>12, <2>1, <2>2, <2>3
  <1>13. calls' = [calls EXCEPT ![t] = [calls[t] EXCEPT ![Depth(t)] = c]]
    <2>1. calls' = [calls EXCEPT ![t] = [calls[t] EXCEPT ![Depth(t)] =
                      [calls[t][Depth(t)] EXCEPT !.at = calls[t][calls[t][Depth(t)].at].previous]]]
      BY DEF PreviousFrame
    <2>. QED  BY <1>2, <1>3, <1>4, <1>10, <2>1
  <1>14. taken' = taken /\ UNCHANGED <<frames, panicking, attached, registered, ran, exited>>
    BY DEF PreviousFrame
  <1>15. /\ c.kind \in {"trace", "unwind"} /\ c.kind # "trace" /\ c.pushed = FALSE /\ c.live = <<>>
         /\ c.previous \in 0 .. Depth(t) - 1 /\ c.at \in 0 .. Depth(t) /\ c \in Call
         /\ c.at # 0 => c.at \in PushedIn(calls[t])
    BY <1>5, <1>9, <1>11
  <1>16. \A j \in PushedIn(calls[t]) : c.at < j /\ j <= Depth(t) => calls[t][j].live = <<>>
    BY <1>11, <1>12
  <1>. QED  BY <1>1, <1>13, <1>14, <1>15, <1>16, PanicKeeps, Zenon

\* A walk that has come to its end leaves nothing but thread-locals.
LEMMA UnwoundKeeps ==
  ASSUME FramesIndInv, NEW t \in Thread, Unwound(t)
  PROVE  FramesIndInv'
  <1>1. Depth(t) > 0 /\ Top(t).kind = "unwind" /\ Top(t).kind \in PanicKinds /\ Top(t).at = 0 /\ abort("panicked")
    BY DEF Unwound, Unwinding, PanicKinds
  <1>2. UNCHANGED <<calls, frames, panicking, attached, registered, ran, taken>>
    BY <1>1 DEF abort
  <1>3. Depth(t) = Len(calls[t]) /\ Depth(t) \in Nat /\ calls[t] \in Seq(Call)
    BY ThreadFacts DEF Depth
  <1>4. ASSUME NEW i \in 1 .. Depth(t), NEW x \in 1 .. Len(calls[t][i].live) PROVE calls[t][i].live[x] = Tls
    <2>1. calls[t][i].pushed \in BOOLEAN /\ calls[t][i].live \in Seq(Nat)
      BY <1>3, CallFacts
    <2>2. calls[t][i].live # <<>>
      BY <2>1
    <2>3. ~calls[t][i].pushed
      <3>1. SUFFICES ASSUME calls[t][i].pushed PROVE FALSE
        OBVIOUS
      <3>2. i \in PushedIn(calls[t]) /\ 0 < i /\ i <= Depth(t)
        BY <1>3, <3>1 DEF PushedIn
      <3>. QED  BY <1>1, <2>2, <3>2, PanicTop
    <2>4. calls[t][i].live = <<Tls>>
      BY <1>3, <2>2, <2>3, ThreadFacts DEF StackFine, Kept
    <2>5. x = 1
      BY <2>4
    <2>. QED  BY <2>4, <2>5
  <1>5. LiveActions(t) \subseteq {Tls}
    BY <1>4 DEF LiveActions
  <1>6. UnwindComplete'
    <2>1. (Depth(t) > 0 /\ Top(t).kind = "unwind" /\ Top(t).at = 0 /\ LiveActions(t) \subseteq {Tls})'
      <3>1. calls' = calls
        BY <1>2
      <3>2. Depth(t)' = Depth(t)
        BY <3>1 DEF Depth
      <3>3. Top(t)' = Top(t)
        BY <3>1, <3>2 DEF Top
      <3>4. LiveActions(t)' = LiveActions(t)
        BY <3>1, <3>2 DEF LiveActions
      <3>. QED  BY <1>1, <1>5, <3>2, <3>3, <3>4
    <2>. QED  BY <2>1 DEF UnwindComplete
  <1>. QED  BY <1>1, <1>6, EndKeeps

\* An action that runs is the newest its thread still has registered.
NewestRuns ==
    \A t \in Thread, a \in Action : ran'[t][a] > ran[t][a] => \A b \in LiveActions(t) : b <= a

\* The same of a thread of the state.
LEMMA NewestOfThread ==
  ASSUME FramesIndInv, NEW t \in Thread, NEW k \in 1 .. Len(calls[t]), calls[t][k].live # <<>>,
         k = Len(calls[t]) \/ (calls[t][Len(calls[t])].kind = "unwind" /\ calls[t][Len(calls[t])].at = k)
  PROVE  \A i \in 1 .. Len(calls[t]) : \A x \in 1 .. Len(calls[t][i].live) :
            calls[t][i].live[x] <= Last(calls[t][k].live)
  <1>1. PICK z, f, r, n, p, b :
           /\ StateOf(t, z, f, r, n, p, b)
           /\ z \in Seq(Call) /\ Len(z) \in Nat /\ f \in Nat /\ r \in Nat /\ n \in [Action -> Nat]
           /\ p \in BOOLEAN /\ b \in BOOLEAN /\ StackFine(z, f, r, n, p, b)
           /\ Len(z) <= MaxDepth[t] /\ r <= MaxActions[t] /\ Counts(r, n) /\ 0 .. r \subseteq Action
    BY ThreadState, Zenon
  <1>2. /\ r \in Nat /\ p \in BOOLEAN /\ b \in BOOLEAN /\ StackFine(z, f, r, n, p, b)
        /\ k \in 1 .. Len(z) /\ z[k].live # <<>>
        /\ k = Len(z) \/ (z[Len(z)].kind = "unwind" /\ z[Len(z)].at = k)
    BY <1>1 DEF StateOf
  <1>3. \A i \in 1 .. Len(z) : \A x \in 1 .. Len(z[i].live) : z[i].live[x] <= Last(z[k].live)
    BY ONLY <1>2, NewestInStack, Zenon
  <1>. QED  BY <1>1, <1>3 DEF StateOf

\* Leaving a scope keeps the invariant.
LEMMA ExitKeeps ==
  ASSUME FramesIndInv, NEW t \in Thread, ExitScope(t)
  PROVE  FramesIndInv' /\ NewestRuns
  <1>1. /\ Depth(t) > 0 /\ exited = "no" /\ Depth(t) < MaxDepth[t] /\ Top(t).live # <<>> /\ Top(t).kind # "trace"
        /\ RunNewest(t, Depth(t)) /\ UNCHANGED <<frames, panicking, attached, registered, taken, exited>>
    BY DEF ExitScope, InProgram, Running
  <1>2. Depth(t) \in 1 .. Len(calls[t]) /\ Top(t) = calls[t][Depth(t)] /\ Depth(t) = Len(calls[t])
    BY <1>1, TopFacts
  <1>3. calls[t][Depth(t)].live # <<>>
    BY <1>1, <1>2
  <1>4. /\ FramesIndInv'
        /\ \A u \in Thread, a \in Action : ran'[u][a] > ran[u][a] => u = t /\ a = Last(calls[t][Depth(t)].live)
    BY <1>1, <1>2, <1>3, RunKeeps
  <1>5. \A i \in 1 .. Len(calls[t]) : \A x \in 1 .. Len(calls[t][i].live) :
           calls[t][i].live[x] <= Last(calls[t][Depth(t)].live)
    BY <1>2, <1>3, NewestOfThread
  <1>6. \A e \in LiveActions(t) : e <= Last(calls[t][Depth(t)].live)
    BY <1>2, <1>5 DEF LiveActions
  <1>. QED  BY <1>4, <1>6 DEF NewestRuns

\* The replay of a frame keeps the invariant.
LEMMA ReplayKeeps ==
  ASSUME FramesIndInv, NEW t \in Thread, Replay(t)
  PROVE  FramesIndInv' /\ NewestRuns
  <1>1. /\ Depth(t) > 0 /\ exited = "no" /\ Depth(t) < MaxDepth[t] /\ Top(t).kind = "unwind" /\ Top(t).at # 0
        /\ Top(t).kind \in PanicKinds /\ calls[t][Top(t).at].live # <<>>
        /\ RunNewest(t, Top(t).at) /\ UNCHANGED <<frames, panicking, attached, registered, taken, exited>>
    BY DEF Replay, Unwinding, Running, PanicKinds
  <1>2. PICK k : k = Top(t).at
    OBVIOUS
  <1>3. k \in 1 .. Len(calls[t])
    <2>1. k \in PushedIn(calls[t])
      BY <1>1, <1>2, PanicTop
    <2>. QED  BY <2>1 DEF PushedIn
  <1>4. Top(t) = calls[t][Len(calls[t])] /\ Depth(t) = Len(calls[t])
    BY <1>1, TopFacts
  <1>5. calls[t][k].live # <<>> /\ RunNewest(t, k) /\ Top(t).kind # "trace"
    BY <1>1, <1>2
  <1>6. /\ FramesIndInv'
        /\ \A u \in Thread, a \in Action : ran'[u][a] > ran[u][a] => u = t /\ a = Last(calls[t][k].live)
    BY <1>1, <1>3, <1>5, RunKeeps
  <1>7. \A i \in 1 .. Len(calls[t]) : \A x \in 1 .. Len(calls[t][i].live) :
           calls[t][i].live[x] <= Last(calls[t][k].live)
    <2>1. calls[t][Len(calls[t])].kind = "unwind" /\ calls[t][Len(calls[t])].at = k
      BY <1>1, <1>2, <1>4
    <2>. QED  BY <1>3, <1>5, <2>1, NewestOfThread
  <1>8. \A e \in LiveActions(t) : e <= Last(calls[t][k].live)
    BY <1>4, <1>7 DEF LiveActions
  <1>. QED  BY <1>6, <1>8 DEF NewestRuns

\* Every step of the frames keeps the invariant and runs the newest first.
LEMMA FramesNext ==
  ASSUME FramesIndInv, Next
  PROVE  FramesIndInv' /\ NewestRuns
  <1>1. ran \in [Thread -> [Action -> Nat]]
    BY DEF FramesIndInv, FramesTyped
  <1>2. ASSUME ran' = ran PROVE NewestRuns
    <2>1. \A t \in Thread, a \in Action : ran[t][a] \in Nat
      BY <1>1
    <2>2. \A t \in Thread, a \in Action : ~(ran[t][a] > ran[t][a])
      BY <2>1
    <2>. QED  BY <1>2, <2>2 DEF NewestRuns
  <1>3. PICK t \in Thread :
          \/ thread_attach(t) \/ thread_detach(t)
          \/ \E pushed \in BOOLEAN : frame_push(t, pushed)
          \/ Register(t)
          \/ \E i \in 1 .. (IF Depth(t) = 0 THEN 0 ELSE Len(Top(t).live)) : Unregister(t, i)
          \/ ExitScope(t) \/ frame_pop(t)
          \/ panic_begin(t) \/ panic_end(t) \/ panic_trace(t)
          \/ Replay(t) \/ PreviousFrame(t) \/ Unwound(t)
    BY DEF Next
  <1>4. CASE thread_attach(t)
    <2>1. ran' = [ran EXCEPT ![t] = [ran[t] EXCEPT ![Tls] = 0]]
      BY <1>4 DEF thread_attach
    <2>2. ran[t] \in [Action -> Nat]
      BY <1>1
    <2>3. \A u \in Thread, a \in Action : ran'[u][a] = ran[u][a] \/ ran'[u][a] = 0
      BY <1>1, <2>1, <2>2
    <2>4. \A u \in Thread, a \in Action : ran[u][a] \in Nat
      BY <1>1
    <2>5. \A u \in Thread, a \in Action : ~(ran'[u][a] > ran[u][a])
      BY <2>3, <2>4
    <2>. QED  BY <1>4, <2>5, AttachKeeps DEF NewestRuns
  <1>5. CASE thread_detach(t)
    BY <1>2, <1>5, DetachKeeps DEF thread_detach
  <1>6. CASE \E pushed \in BOOLEAN : frame_push(t, pushed)
    BY <1>2, <1>6, PushKeeps DEF frame_push
  <1>7. CASE Register(t)
    BY <1>2, <1>7, RegisterKeeps DEF Register
  <1>8. CASE \E i \in 1 .. (IF Depth(t) = 0 THEN 0 ELSE Len(Top(t).live)) : Unregister(t, i)
    <2>1. PICK i \in 1 .. (IF Depth(t) = 0 THEN 0 ELSE Len(Top(t).live)) : Unregister(t, i)
      BY <1>8
    <2>2. Depth(t) > 0 /\ ran' = ran
      BY <2>1 DEF Unregister, InProgram
    <2>3. i \in 1 .. Len(Top(t).live)
      BY <2>1, <2>2
    <2>. QED  BY <1>2, <2>1, <2>2, <2>3, UnregisterKeeps
  <1>9. CASE ExitScope(t)
    BY <1>9, ExitKeeps
  <1>10. CASE frame_pop(t)
    BY <1>2, <1>10, PopKeeps DEF frame_pop
  <1>11. CASE panic_begin(t)
    BY <1>2, <1>11, BeginKeeps DEF panic_begin, abort
  <1>12. CASE panic_end(t)
    BY <1>2, <1>12, PanicEndKeeps DEF panic_end
  <1>13. CASE panic_trace(t)
    BY <1>2, <1>13, TraceKeeps DEF panic_trace
  <1>14. CASE Replay(t)
    BY <1>14, ReplayKeeps
  <1>15. CASE PreviousFrame(t)
    BY <1>2, <1>15, PreviousKeeps DEF PreviousFrame
  <1>16. CASE Unwound(t)
    BY <1>2, <1>16, UnwoundKeeps DEF Unwound, abort
  <1>. QED  BY <1>3, <1>4, <1>5, <1>6, <1>7, <1>8, <1>9, <1>10, <1>11, <1>12, <1>13, <1>14, <1>15, <1>16

\* The invariant holds before any thread starts.
LEMMA FramesStart ==
  ASSUME Init
  PROVE  FramesIndInv
  <1>1. /\ calls = [t \in Thread |-> <<>>] /\ frames = [t \in Thread |-> 0]
        /\ panicking = [t \in Thread |-> FALSE] /\ attached = [t \in Thread |-> FALSE]
        /\ registered = [t \in Thread |-> 0] /\ ran = [t \in Thread |-> [a \in Action |-> 0]]
        /\ taken = FALSE /\ exited = "no"
    BY DEF Init
  <1>2. FramesTyped
    <2>1. <<>> \in Seq(Call)
      OBVIOUS
    <2>2. [a \in Action |-> 0] \in [Action -> Nat]
      OBVIOUS
    <2>. QED  BY <1>1, <2>1, <2>2 DEF FramesTyped
  <1>3. \A t \in Thread : calls[t] = <<>> /\ Len(calls[t]) = 0
    BY <1>1
  <1>4. TraceClaimed /\ UnwindComplete
    BY <1>1, <1>3 DEF TraceClaimed, Tracing, UnwindComplete
  <1>5. ASSUME NEW t \in Thread PROVE ThreadFine(t)
    <2>1. PICK n : n = [a \in Action |-> 0]
      OBVIOUS
    <2>2. /\ calls[t] = <<>> /\ frames[t] = 0 /\ registered[t] = 0 /\ ran[t] = n
          /\ panicking[t] = FALSE /\ attached[t] = FALSE
      BY <1>1, <2>1
    <2>3. StackFine(<<>>, 0, 0, n, FALSE, FALSE)
      BY StackRests
    <2>4. Counts(0, n)
      BY <2>1 DEF Counts
    <2>5. 0 <= MaxDepth[t] /\ 0 <= MaxActions[t] /\ Len(<<>>) = 0
      BY BoundAssumption
    <2>. QED  BY <2>2, <2>3, <2>4, <2>5 DEF ThreadFine
  <1>. QED  BY <1>2, <1>4, <1>5 DEF FramesIndInv

\* A number that is the newest of a set of frames is the one Newest chooses.
LEMMA NewestChosen ==
  ASSUME NEW S, S \subseteq Nat, NEW x, IsNewest(x, S)
  PROVE  x = Newest(S)
  <1>1. CASE S = {}
    BY <1>1 DEF IsNewest, Newest
  <1>2. CASE S # {}
    <2>1. x \in S /\ \A j \in S : j <= x
      BY <1>2 DEF IsNewest
    <2>2. PICK y : y = CHOOSE i \in S : \A j \in S : j <= i
      OBVIOUS
    <2>3. y \in S /\ \A j \in S : j <= y
      BY <2>1, <2>2
    <2>4. x = y
      BY <2>1, <2>3
    <2>5. Newest(S) = y
      BY <1>2, <2>2, Zenon DEF Newest
    <2>. QED  BY <2>4, <2>5
  <1>. QED  BY <1>1, <1>2

\* A set with at most one element.
LEMMA AtMostOne ==
  ASSUME NEW S, \A x, y \in S : x = y
  PROVE  Cardinality(S) <= 1
  <1>1. CASE S = {}
    BY <1>1, FS_EmptySet
  <1>2. CASE S # {}
    <2>1. PICK x : S = {x}
      BY <1>2
    <2>. QED  BY <2>1, FS_Singleton
  <1>. QED  BY <1>1, <1>2

\* What the run checks follows from the inductive invariant.
LEMMA FramesIndImplies ==
  ASSUME FramesIndInv
  PROVE  Inv
  <1>1. TypeOK
    <2>1. ASSUME NEW t \in Thread
          PROVE  /\ Depth(t) <= MaxDepth[t] /\ frames[t] \in 0 .. Depth(t)
                 /\ \A i \in 1 .. Depth(t) :
                       /\ calls[t][i].kind \in {"body", "tls", "report", "trace", "unwind"}
                       /\ calls[t][i].previous \in 0 .. i - 1 /\ calls[t][i].at \in 0 .. i
      <3>1. calls[t] \in Seq(Call) /\ Len(calls[t]) \in Nat /\ Len(calls[t]) <= MaxDepth[t]
        BY ThreadFacts
      <3>2. frames[t] = 0 \/ frames[t] \in 1 .. Len(calls[t])
        BY ThreadFacts DEF StackFine, Chained, IsNewest, PushedIn
      <3>3. frames[t] \in 0 .. Len(calls[t])
        BY <3>1, <3>2
      <3>4. \A i \in 1 .. Len(calls[t]) : calls[t][i] \in Call
        BY <3>1
      <3>5. \A i \in 1 .. Len(calls[t]) : calls[t][i].kind \in {"body", "tls", "report", "trace", "unwind"}
        BY <3>4 DEF Call, PanicKinds
      <3>6. \A i \in 1 .. Len(calls[t]) : calls[t][i].previous \in 0 .. i - 1 /\ calls[t][i].at \in 0 .. i
        BY ThreadFacts DEF StackFine, Kept
      <3>. QED  BY <3>1, <3>3, <3>5, <3>6 DEF Depth
    <2>2. registered \in [Thread -> Action]
      <3>1. \A t \in Thread : registered[t] \in Action
        <4>1. SUFFICES ASSUME NEW t \in Thread PROVE registered[t] \in Action
          OBVIOUS
        <4>2. registered[t] \in Nat /\ 0 .. registered[t] \subseteq Action
          BY ThreadFacts
        <4>. QED  BY <4>2
      <3>. QED  BY <3>1 DEF FramesIndInv, FramesTyped
    <2>. QED  BY <2>1, <2>2 DEF TypeOK, FramesIndInv, FramesTyped
  <1>2. RunsOnce
    BY ThreadFacts DEF RunsOnce, Counts
  <1>3. ChainIsStack
    <2>1. SUFFICES ASSUME NEW t \in Thread
                   PROVE  /\ frames[t] = Newest(Pushed(t))
                          /\ \A i \in Pushed(t) : calls[t][i].previous = Newest({j \in Pushed(t) : j < i})
      BY DEF ChainIsStack
    <2>2. Pushed(t) = PushedIn(calls[t])
      BY DEF Pushed, PushedIn, Depth
    <2>3. PushedIn(calls[t]) \subseteq Nat
      BY DEF PushedIn
    <2>4. Chained(calls[t], frames[t])
      BY ThreadFacts DEF StackFine
    <2>5. frames[t] = Newest(PushedIn(calls[t]))
      BY <2>3, <2>4, NewestChosen DEF Chained
    <2>6. ASSUME NEW i \in PushedIn(calls[t])
          PROVE  calls[t][i].previous = Newest({j \in PushedIn(calls[t]) : j < i})
      <3>1. IsNewest(calls[t][i].previous, {j \in PushedIn(calls[t]) : j < i})
        BY <2>4 DEF Chained
      <3>2. {j \in PushedIn(calls[t]) : j < i} \subseteq Nat
        BY <2>3
      <3>. QED  BY <3>1, <3>2, NewestChosen
    <2>. QED  BY <2>2, <2>5, <2>6
  <1>4. PanicsOnce
    <2>1. SUFFICES ASSUME NEW t \in Thread
                   PROVE  Cardinality({i \in 1 .. Depth(t) : calls[t][i].kind \in {"report", "trace", "unwind"}}) <= 1
      BY DEF PanicsOnce
    <2>2. PICK S : S = {i \in 1 .. Depth(t) : calls[t][i].kind \in {"report", "trace", "unwind"}}
      OBVIOUS
    <2>3. \A i, j \in S : i = j
      BY <2>2, ThreadFacts DEF StackFine, Single, PanicKinds, Depth
    <2>. QED  BY <2>2, <2>3, AtMostOne
  <1>5. TraceAlone
    <2>1. PICK S : S = {t \in Thread : Depth(t) > 0 /\ Top(t).kind = "trace"}
      OBVIOUS
    <2>2. \A t, u \in S : t = u
      BY <2>1 DEF FramesIndInv, TraceClaimed, Tracing, Depth, Top
    <2>. QED  BY <2>1, <2>2, AtMostOne DEF TraceAlone
  <1>6. UnwindComplete
    BY DEF FramesIndInv
  <1>. QED  BY <1>1, <1>2, <1>3, <1>4, <1>5, <1>6 DEF Inv

\* Every step keeps the invariant.
LEMMA FramesInductive == FramesIndInv /\ [MCNext]_all => FramesIndInv'
  <1>1. SUFFICES ASSUME FramesIndInv, [MCNext]_all PROVE FramesIndInv'
    OBVIOUS
  <1>2. CASE Next
    BY <1>1, <1>2, FramesNext
  <1>3. CASE UNCHANGED vars
    <2>1. UNCHANGED <<calls, frames, panicking, attached, registered, ran, taken, exited>>
      BY <1>3 DEF vars
    <2>2. FramesTyped' /\ TraceClaimed'
      BY <1>1, <2>1 DEF FramesIndInv, FramesTyped, TraceClaimed, Tracing
    <2>3. ASSUME NEW t \in Thread PROVE ThreadFine(t)'
      <3>1. ThreadFine(t)
        BY <1>1 DEF FramesIndInv
      <3>. QED  BY <2>1, <3>1 DEF ThreadFine
    <2>4. UnwindComplete'
      <3>1. \A t : Depth(t)' = Depth(t)
        BY <2>1 DEF Depth
      <3>2. \A t : Top(t)' = Top(t) /\ LiveActions(t)' = LiveActions(t)
        BY <2>1, <3>1 DEF Top, LiveActions
      <3>3. UnwindComplete /\ exited' = exited
        BY <1>1, <2>1 DEF FramesIndInv
      <3>. QED  BY <3>1, <3>2, <3>3, Zenon DEF UnwindComplete
    <2>. QED  BY <2>2, <2>3, <2>4 DEF FramesIndInv
  <1>. QED  BY <1>1, <1>2, <1>3 DEF MCNext, all

\* Whatever a thread calls, registers, moves out of, and panics in: every action runs at
\* most once, the chain is the calls that pushed, one panic per thread unwinds all that
\* was registered, and one thread at a time prints its trace (Inv of the run).
THEOREM FramesInvariant == MCSpec => []Inv
  <1>1. MCInit => FramesIndInv
    BY FramesStart DEF MCInit
  <1>2. FramesIndInv /\ [MCNext]_all => FramesIndInv'
    BY FramesInductive
  <1>3. FramesIndInv => Inv
    BY FramesIndImplies
  <1>. QED  BY <1>1, <1>2, <1>3, PTL DEF MCSpec

\* An action that runs, as its scope is left or as a panic replays its frame, is the
\* newest its thread still has registered (NewestFirst of the run).
THEOREM FramesNewestFirst == MCSpec => NewestFirst
  <1>1. MCInit => FramesIndInv
    BY FramesStart DEF MCInit
  <1>2. FramesIndInv /\ [MCNext]_all => FramesIndInv'
    BY FramesInductive
  <1>3. FramesIndInv /\ [MCNext]_all => [NewestRuns]_vars
    <2>1. CASE Next
      BY <2>1, FramesNext
    <2>2. CASE UNCHANGED vars
      BY <2>2
    <2>. QED  BY <2>1, <2>2 DEF MCNext, all
  <1>. QED  BY <1>1, <1>2, <1>3, PTL DEF MCSpec, NewestFirst, NewestRuns

-----------------------------------------------------------------------------
(* The 128-bit atomics: numbers and bits.                                  *)

\* A set of numbers has a least one.
LEMMA LeastNumber ==
  ASSUME NEW T, T \subseteq Nat, T # {}
  PROVE  \E x \in T : \A y \in T : x <= y
  <1>1. PICK R : R = {ss \in Nat \X Nat : ss[1] < ss[2]}
    OBVIOUS
  <1>2. IsWellFoundedOn(R, Nat)
    BY <1>1, NatLessThanWellFounded, Zenon DEF OpToRel
  <1>3. PICK x \in T : \A y \in T : ~(<<y, x>> \in R)
    BY <1>2, WFMin
  <1>4. ASSUME NEW y \in T, ~(x <= y) PROVE FALSE
    <2>1. x \in Nat /\ y \in Nat /\ y < x
      BY <1>4
    <2>2. <<y, x>> \in Nat \X Nat /\ <<y, x>>[1] = y /\ <<y, x>>[2] = x
      BY <2>1
    <2>3. <<y, x>> \in R
      BY <1>1, <2>1, <2>2
    <2>. QED  BY <1>3, <2>3
  <1>. QED  BY <1>4

\* Induction, for a set of numbers.
LEMMA Inductive ==
  ASSUME NEW S, 0 \in S, \A n \in Nat : n \in S => n + 1 \in S
  PROVE  \A n \in Nat : n \in S
  <1>. SUFFICES ASSUME NEW n \in Nat, n \notin S PROVE FALSE
    OBVIOUS
  <1>1. PICK T : T = Nat \ S
    OBVIOUS
  <1>2. PICK x \in T : \A y \in T : x <= y
    <2>1. T \subseteq Nat /\ T # {}
      BY <1>1
    <2>. QED  BY <2>1, LeastNumber
  <1>3. x \in Nat /\ x # 0 /\ x \notin S
    BY <1>1
  <1>4. x - 1 \in Nat /\ (x - 1) + 1 = x /\ ~(x <= x - 1)
    BY <1>3
  <1>5. x - 1 \in S
    BY <1>1, <1>2, <1>4
  <1>. QED  BY <1>3, <1>4, <1>5

\* The beginnings of the sequence with first element c whose element i is made by d from
\* the one before.
Begun(c, d, n) == {g \in [0 .. n -> Nat] : g[0] = c /\ \A i \in 1 .. n : g[i] = d[<<i, g[i - 1]>>]}

\* A beginning without its last element is a beginning.
LEMMA BegunLess ==
  ASSUME NEW c, NEW d, NEW n \in Nat, NEW g \in Begun(c, d, n + 1)
  PROVE  \E h \in Begun(c, d, n) : h[n] = g[n] /\ g[n + 1] = d[<<n + 1, h[n]>>]
  <1>1. PICK h : h = [i \in 0 .. n |-> g[i]]
    OBVIOUS
  <1>2. g \in [0 .. n + 1 -> Nat] /\ g[0] = c /\ \A i \in 1 .. n + 1 : g[i] = d[<<i, g[i - 1]>>]
    BY DEF Begun
  <1>3. \A i \in 0 .. n : i \in 0 .. n + 1
    OBVIOUS
  <1>4. h \in [0 .. n -> Nat]
    BY <1>1, <1>2, <1>3
  <1>5. h[0] = c /\ h[n] = g[n]
    BY <1>1, <1>2
  <1>6. ASSUME NEW i \in 1 .. n PROVE h[i] = d[<<i, h[i - 1]>>]
    <2>1. i \in 0 .. n /\ i - 1 \in 0 .. n /\ i \in 1 .. n + 1
      OBVIOUS
    <2>. QED  BY <1>1, <1>2, <2>1
  <1>7. h \in Begun(c, d, n)
    BY <1>4, <1>5, <1>6 DEF Begun
  <1>8. n + 1 \in 1 .. n + 1 /\ (n + 1) - 1 = n
    OBVIOUS
  <1>. QED  BY <1>2, <1>5, <1>7, <1>8

\* A beginning can go on.
LEMMA BegunMore ==
  ASSUME NEW c \in Nat, NEW d \in [Nat \X Nat -> Nat], NEW n \in Nat, NEW h \in Begun(c, d, n)
  PROVE  \E g \in Begun(c, d, n + 1) : g[n + 1] = d[<<n + 1, h[n]>>]
  <1>1. PICK v : v = d[<<n + 1, h[n]>>]
    OBVIOUS
  <1>2. h \in [0 .. n -> Nat] /\ h[0] = c /\ \A i \in 1 .. n : h[i] = d[<<i, h[i - 1]>>]
    BY DEF Begun
  <1>3. v \in Nat
    <2>1. n \in 0 .. n /\ n + 1 \in Nat
      OBVIOUS
    <2>2. <<n + 1, h[n]>> \in Nat \X Nat
      BY <1>2, <2>1
    <2>. QED  BY <1>1, <2>2
  <1>4. PICK g : g = [i \in 0 .. n + 1 |-> IF i = n + 1 THEN v ELSE h[i]]
    OBVIOUS
  <1>5. \A i \in 0 .. n + 1 : i = n + 1 \/ i \in 0 .. n
    OBVIOUS
  <1>6. g \in [0 .. n + 1 -> Nat]
    BY <1>2, <1>3, <1>4, <1>5
  <1>7. n + 1 \in 0 .. n + 1 /\ 0 \in 0 .. n + 1 /\ 0 # n + 1
    OBVIOUS
  <1>8. g[n + 1] = v /\ g[0] = c
    BY <1>2, <1>4, <1>7
  <1>9. ASSUME NEW i \in 1 .. n + 1 PROVE g[i] = d[<<i, g[i - 1]>>]
    <2>1. i - 1 \in 0 .. n + 1 /\ i - 1 # n + 1 /\ i \in 0 .. n + 1
      OBVIOUS
    <2>2. g[i - 1] = h[i - 1]
      BY <1>4, <2>1
    <2>3. CASE i = n + 1
      <3>1. i - 1 = n
        BY <2>3
      <3>. QED  BY <1>1, <1>8, <2>2, <2>3, <3>1
    <2>4. CASE i # n + 1
      <3>1. i \in 1 .. n
        BY <2>4
      <3>. QED  BY <1>2, <1>4, <2>1, <2>2, <2>4, <3>1
    <2>. QED  BY <2>3, <2>4
  <1>10. g \in Begun(c, d, n + 1)
    BY <1>6, <1>8, <1>9 DEF Begun
  <1>. QED  BY <1>1, <1>8, <1>10

\* Recursion over the numbers: the whole sequence exists.
LEMMA Recursion ==
  ASSUME NEW c \in Nat, NEW d \in [Nat \X Nat -> Nat]
  PROVE  \E f \in [Nat -> Nat] : f[0] = c /\ \A n \in Nat : f[n + 1] = d[<<n + 1, f[n]>>]
  <1>. DEFINE B(n) == Begun(c, d, n)
  <1>1. PICK S : S = {n \in Nat : \E v \in Nat : (\E g \in B(n) : g[n] = v) /\ \A g \in B(n) : g[n] = v}
    OBVIOUS
  <1>2. 0 \in S
    <2>1. PICK g : g = [i \in 0 .. 0 |-> c]
      OBVIOUS
    <2>2. g \in B(0) /\ g[0] = c
      BY <2>1 DEF Begun
    <2>3. \A h \in B(0) : h[0] = c
      BY DEF Begun
    <2>. QED  BY <1>1, <2>2, <2>3
  <1>3. ASSUME NEW n \in Nat, n \in S PROVE n + 1 \in S
    <2>1. PICK v \in Nat : (\E g \in B(n) : g[n] = v) /\ \A g \in B(n) : g[n] = v
      BY <1>1, <1>3
    <2>2. PICK w : w = d[<<n + 1, v>>]
      OBVIOUS
    <2>3. w \in Nat
      <3>1. <<n + 1, v>> \in Nat \X Nat
        OBVIOUS
      <3>. QED  BY <2>2, <3>1
    <2>4. \E g \in B(n + 1) : g[n + 1] = w
      <3>1. PICK h \in B(n) : h[n] = v
        BY <2>1
      <3>2. PICK g \in B(n + 1) : g[n + 1] = d[<<n + 1, h[n]>>]
        BY BegunMore
      <3>. QED  BY <2>2, <3>1, <3>2
    <2>5. \A g \in B(n + 1) : g[n + 1] = w
      <3>1. ASSUME NEW g \in B(n + 1) PROVE g[n + 1] = w
        <4>1. PICK h \in B(n) : h[n] = g[n] /\ g[n + 1] = d[<<n + 1, h[n]>>]
          BY BegunLess
        <4>2. h[n] = v
          BY <2>1
        <4>. QED  BY <2>2, <4>1, <4>2
      <3>. QED  BY <3>1
    <2>6. n + 1 \in Nat
      OBVIOUS
    <2>. QED  BY <1>1, <2>3, <2>4, <2>5, <2>6
  <1>4. \A n \in Nat : n \in S
    BY <1>2, <1>3, Inductive
  <1>5. PICK f : f = [n \in Nat |-> CHOOSE v \in Nat : (\E g \in B(n) : g[n] = v) /\ \A g \in B(n) : g[n] = v]
    OBVIOUS
  <1>6. ASSUME NEW n \in Nat
        PROVE  f[n] \in Nat /\ (\E g \in B(n) : g[n] = f[n]) /\ \A g \in B(n) : g[n] = f[n]
    <2>. HIDE DEF B
    <2>1. \E v \in Nat : (\E g \in B(n) : g[n] = v) /\ \A g \in B(n) : g[n] = v
      BY <1>1, <1>4
    <2>2. f[n] = CHOOSE v \in Nat : (\E g \in B(n) : g[n] = v) /\ \A g \in B(n) : g[n] = v
      BY <1>5
    <2>. QED  BY <2>1, <2>2, Zenon
  <1>7. f \in [Nat -> Nat]
    <2>1. \A n \in Nat : f[n] \in Nat
      BY <1>6
    <2>. QED  BY <1>5, <2>1
  <1>8. f[0] = c
    <2>1. \A g \in B(0) : g[0] = c
      BY DEF Begun
    <2>. QED  BY <1>6, <2>1
  <1>9. ASSUME NEW n \in Nat PROVE f[n + 1] = d[<<n + 1, f[n]>>]
    <2>0. n + 1 \in Nat
      OBVIOUS
    <2>1. PICK g \in B(n + 1) : g[n + 1] = f[n + 1]
      BY <1>6, <2>0
    <2>2. PICK h \in B(n) : h[n] = g[n] /\ g[n + 1] = d[<<n + 1, h[n]>>]
      <3>1. ASSUME NEW k \in B(n + 1) PROVE \E h \in B(n) : h[n] = k[n] /\ k[n + 1] = d[<<n + 1, h[n]>>]
        BY BegunLess
      <3>. QED  BY <3>1
    <2>3. h[n] = f[n]
      BY <1>6
    <2>. QED  BY <2>1, <2>2, <2>3
  <1>. QED  BY <1>7, <1>8, <1>9

\* Weight is what its definition says: powers of two.
LEMMA WeightFacts ==
  /\ Weight \in [Nat -> Nat] /\ Weight[0] = 1
  /\ \A n \in Nat : Weight[n + 1] = 2 * Weight[n]
  <1>1. PICK d \in [Nat \X Nat -> Nat] : d = [p \in Nat \X Nat |-> 2 * p[2]]
    <2>1. \A p \in Nat \X Nat : 2 * p[2] \in Nat
      OBVIOUS
    <2>. QED  BY <2>1
  <1>3. PICK c \in Nat : c = 1
    OBVIOUS
  <1>4. PICK f \in [Nat -> Nat] : f[0] = c /\ \A n \in Nat : f[n + 1] = d[<<n + 1, f[n]>>]
    BY Recursion, Zenon
  <1>5. ASSUME NEW n \in Nat PROVE f[n + 1] = 2 * f[n]
    <2>1. <<n + 1, f[n]>> \in Nat \X Nat /\ <<n + 1, f[n]>>[2] = f[n]
      OBVIOUS
    <2>. QED  BY <1>1, <1>4, <2>1
  <1>6. f = [i \in Nat |-> IF i = 0 THEN 1 ELSE 2 * f[i - 1]]
    <2>1. ASSUME NEW i \in Nat PROVE f[i] = IF i = 0 THEN 1 ELSE 2 * f[i - 1]
      <3>1. CASE i = 0
        BY <1>3, <1>4, <3>1
      <3>2. CASE i # 0
        <4>1. i - 1 \in Nat /\ (i - 1) + 1 = i
          BY <3>2
        <4>2. f[(i - 1) + 1] = 2 * f[i - 1]
          BY <1>5, <4>1
        <4>. QED  BY <3>2, <4>1, <4>2
      <3>. QED  BY <3>1, <3>2
    <2>. QED  BY <2>1
  <1>7. Weight = [i \in Nat |-> IF i = 0 THEN 1 ELSE 2 * Weight[i - 1]]
    BY <1>6, Zenon DEF Weight
  <1>8. ASSUME NEW n \in Nat PROVE Weight[n + 1] = 2 * Weight[n]
    <2>1. n + 1 \in Nat /\ n + 1 # 0 /\ (n + 1) - 1 = n
      OBVIOUS
    <2>2. Weight[n + 1] = IF n + 1 = 0 THEN 1 ELSE 2 * Weight[(n + 1) - 1]
      BY ONLY <1>7, <2>1
    <2>. QED  BY ONLY <2>1, <2>2
  <1>9. Weight[0] = 1
    BY ONLY <1>7
  <1>10. \A n \in Nat : Weight[n] \in Nat
    <2>1. PICK S : S = {n \in Nat : Weight[n] \in Nat}
      OBVIOUS
    <2>2. 0 \in S
      BY <1>9, <2>1
    <2>3. ASSUME NEW n \in Nat, n \in S PROVE n + 1 \in S
      <3>1. Weight[n] \in Nat
        BY <2>1, <2>3
      <3>2. PICK w \in Nat : w = Weight[n]
        BY <3>1
      <3>3. Weight[n + 1] = 2 * w
        BY <1>8, <3>2
      <3>. QED  BY <2>1, <3>3
    <2>4. \A n \in Nat : n \in S
      BY <2>2, <2>3, Inductive
    <2>. QED  BY <2>1, <2>4
  <1>11. Weight \in [Nat -> Nat]
    BY <1>7, <1>10
  <1>. QED  BY <1>8, <1>9, <1>11

\* Weights are positive.
LEMMA WeightPositive == \A n \in Nat : Weight[n] \in Nat /\ Weight[n] > 0
  <1>1. PICK S : S = {n \in Nat : Weight[n] \in Nat /\ Weight[n] > 0}
    OBVIOUS
  <1>2. 0 \in S
    BY <1>1, WeightFacts
  <1>3. ASSUME NEW n \in Nat, n \in S PROVE n + 1 \in S
    <2>1. PICK w \in Nat : w = Weight[n] /\ w > 0
      BY <1>1, <1>3
    <2>2. Weight[n + 1] = 2 * w
      BY <2>1, WeightFacts
    <2>. QED  BY <1>1, <2>1, <2>2
  <1>4. \A n \in Nat : n \in S
    BY <1>2, <1>3, Inductive
  <1>. QED  BY <1>1, <1>4

\* The weight of a sum is the product.
LEMMA WeightAdds ==
  ASSUME NEW m \in Nat
  PROVE  \A n \in Nat : Weight[m + n] = Weight[m] * Weight[n]
  <1>1. PICK S : S = {n \in Nat : Weight[m + n] = Weight[m] * Weight[n]}
    OBVIOUS
  <1>2. PICK a \in Nat : a = Weight[m]
    BY WeightPositive
  <1>3. 0 \in S
    <2>1. m + 0 = m /\ a * 1 = a
      OBVIOUS
    <2>. QED  BY <1>1, <1>2, <2>1, WeightFacts
  <1>4. ASSUME NEW n \in Nat, n \in S PROVE n + 1 \in S
    <2>1. PICK w \in Nat : w = Weight[n]
      BY WeightPositive
    <2>2. Weight[m + n] = a * w /\ m + n \in Nat
      BY <1>1, <1>2, <1>4, <2>1
    <2>3. Weight[(m + n) + 1] = 2 * (a * w) /\ Weight[n + 1] = 2 * w
      BY <2>1, <2>2, WeightFacts
    <2>4. m + (n + 1) = (m + n) + 1 /\ 2 * (a * w) = a * (2 * w)
      OBVIOUS
    <2>. QED  BY <1>1, <1>2, <2>3, <2>4
  <1>5. \A n \in Nat : n \in S
    BY <1>3, <1>4, Inductive
  <1>. QED  BY <1>1, <1>5

BitKinds == {"and", "or", "xor"}

\* A bit is 0 or 1, and so is what an operator makes of two.
LEMMA BitFacts ==
  ASSUME NEW kind \in BitKinds, NEW a \in {0, 1}, NEW b \in {0, 1}
  PROVE  BitOf(kind, a, b) \in {0, 1}
  <1>1. a * b \in {0, 1} /\ a + b - a * b \in {0, 1} /\ (a + b) % 2 \in {0, 1}
    OBVIOUS
  <1>. QED  BY <1>1 DEF BitOf, BitKinds

\* The bit of a number is 0 or 1.
LEMMA BitIs ==
  ASSUME NEW x \in Nat, NEW i \in Nat
  PROVE  Bit(x, i) \in {0, 1}
  <1>1. PICK w \in Nat : w = Weight[i] /\ w > 0
    BY WeightPositive
  <1>2. x \div w \in Nat
    BY <1>1
  <1>3. PICK q \in Nat : q = x \div w
    BY <1>2
  <1>4. q % 2 \in {0, 1}
    OBVIOUS
  <1>. QED  BY <1>1, <1>3, <1>4 DEF Bit

\* The words that Bitwise goes through: it takes the last of them, whatever their number.
LEMMA BitwiseSequence ==
  ASSUME NEW kind \in BitKinds, NEW x \in Nat, NEW y \in Nat
  PROVE  \E f \in [Nat -> Nat] :
            /\ f[0] = 0
            /\ \A n \in Nat : f[n + 1] = f[n] + Weight[n] * BitOf(kind, Bit(x, n), Bit(y, n))
            /\ \A bits \in Nat : Bitwise(kind, bits, x, y) = f[bits]
  <1>0. PICK e : e = [n \in Nat |-> Weight[n] * BitOf(kind, Bit(x, n), Bit(y, n))]
    OBVIOUS
  <1>1. ASSUME NEW n \in Nat PROVE e[n] \in Nat
    <2>1. PICK b \in {0, 1} : b = BitOf(kind, Bit(x, n), Bit(y, n))
      BY BitIs, BitFacts
    <2>2. PICK w \in Nat : w = Weight[n]
      BY WeightPositive
    <2>3. w * b \in Nat
      OBVIOUS
    <2>. QED  BY <1>0, <2>1, <2>2, <2>3
  <1>2. PICK d \in [Nat \X Nat -> Nat] :
            d = [p \in Nat \X Nat |-> IF p[1] = 0 THEN 0 ELSE p[2] + e[p[1] - 1]]
    <2>1. ASSUME NEW p \in Nat \X Nat PROVE (IF p[1] = 0 THEN 0 ELSE p[2] + e[p[1] - 1]) \in Nat
      <3>1. p[1] \in Nat /\ p[2] \in Nat
        OBVIOUS
      <3>2. CASE p[1] # 0
        <4>1. p[1] - 1 \in Nat
          BY <3>1, <3>2
        <4>2. e[p[1] - 1] \in Nat
          BY <1>1, <4>1
        <4>. QED  BY <3>1, <3>2, <4>2
      <3>. QED  BY <3>2
    <2>. QED  BY <2>1
  <1>4. PICK c \in Nat : c = 0
    OBVIOUS
  <1>5. PICK f \in [Nat -> Nat] : f[0] = c /\ \A n \in Nat : f[n + 1] = d[<<n + 1, f[n]>>]
    BY Recursion, Zenon
  <1>6. ASSUME NEW n \in Nat PROVE f[n + 1] = f[n] + e[n]
    <2>1. <<n + 1, f[n]>> \in Nat \X Nat /\ <<n + 1, f[n]>>[1] = n + 1 /\ <<n + 1, f[n]>>[2] = f[n]
      OBVIOUS
    <2>2. n + 1 # 0 /\ (n + 1) - 1 = n
      OBVIOUS
    <2>3. f[n + 1] = d[<<n + 1, f[n]>>]
      BY <1>5
    <2>. QED  BY <1>2, <2>1, <2>2, <2>3
  <1>7. ASSUME NEW bits \in Nat PROVE Bitwise(kind, bits, x, y) = f[bits]
    <2>. DEFINE Step(g, i) == g[i - 1] + Weight[i - 1] * BitOf(kind, Bit(x, i - 1), Bit(y, i - 1))
    <2>1. PICK h : h = [i \in 0 .. bits |-> f[i]]
      OBVIOUS
    <2>2. h = [i \in 0 .. bits |-> IF i = 0 THEN 0 ELSE Step(h, i)]
      <3>1. ASSUME NEW i \in 0 .. bits PROVE h[i] = IF i = 0 THEN 0 ELSE Step(h, i)
        <4>1. CASE i = 0
          BY <1>4, <1>5, <2>1, <4>1
        <4>2. CASE i # 0
          <5>1. i - 1 \in Nat /\ (i - 1) + 1 = i /\ i - 1 \in 0 .. bits
            BY <4>2
          <5>2. f[(i - 1) + 1] = f[i - 1] + e[i - 1]
            BY <1>6, <5>1
          <5>3. e[i - 1] = Weight[i - 1] * BitOf(kind, Bit(x, i - 1), Bit(y, i - 1))
            BY <1>0, <5>1
          <5>4. h[i] = f[i] /\ h[i - 1] = f[i - 1]
            BY <2>1, <5>1
          <5>. QED  BY <4>2, <5>1, <5>2, <5>3, <5>4
        <4>. QED  BY <4>1, <4>2
      <3>. QED  BY <2>1, <3>1
    <2>3. PICK low : /\ low = [i \in 0 .. bits |-> IF i = 0 THEN 0 ELSE Step(low, i)]
                     /\ Bitwise(kind, bits, x, y) = low[bits]
      <3>1. PICK low : low = CHOOSE g : g = [i \in 0 .. bits |-> IF i = 0 THEN 0 ELSE Step(g, i)]
        OBVIOUS
      <3>2. low = [i \in 0 .. bits |-> IF i = 0 THEN 0 ELSE Step(low, i)]
        BY <2>2, <3>1, Zenon
      <3>3. Bitwise(kind, bits, x, y) = low[bits]
        BY <3>1, Zenon DEF Bitwise
      <3>. QED  BY <3>2, <3>3
    <2>4. PICK S : S = {i \in Nat : i <= bits => low[i] = f[i]}
      OBVIOUS
    <2>5. 0 \in S
      <3>1. 0 \in 0 .. bits
        OBVIOUS
      <3>2. low[0] = 0
        BY <2>3, <3>1
      <3>. QED  BY <1>4, <1>5, <2>4, <3>2
    <2>6. ASSUME NEW n \in Nat, n \in S PROVE n + 1 \in S
      <3>1. SUFFICES ASSUME n + 1 <= bits PROVE low[n + 1] = f[n + 1]
        BY <2>4
      <3>2. n + 1 \in 0 .. bits /\ n + 1 # 0 /\ (n + 1) - 1 = n /\ n <= bits
        BY <3>1
      <3>3. low[n + 1] = Step(low, n + 1)
        BY <2>3, <3>2
      <3>4. low[n] = f[n]
        BY <2>4, <2>6, <3>2
      <3>5. e[n] = Weight[n] * BitOf(kind, Bit(x, n), Bit(y, n))
        BY <1>0
      <3>6. low[n + 1] = f[n] + e[n]
        BY <3>2, <3>3, <3>4, <3>5
      <3>. QED  BY <1>6, <3>6
    <2>7. bits \in S
      <3>1. \A n \in Nat : n \in S
        BY <2>5, <2>6, Inductive
      <3>. QED  BY <3>1
    <2>8. bits <= bits
      OBVIOUS
    <2>. QED  BY <2>3, <2>4, <2>7, <2>8
  <1>8. \A n \in Nat : f[n + 1] = f[n] + Weight[n] * BitOf(kind, Bit(x, n), Bit(y, n))
    BY <1>0, <1>6
  <1>. QED  BY <1>4, <1>5, <1>7, <1>8

\* A word has one bit more, of the next weight.
LEMMA BitwiseSteps ==
  ASSUME NEW kind \in BitKinds, NEW x \in Nat, NEW y \in Nat
  PROVE  /\ Bitwise(kind, 0, x, y) = 0
         /\ \A n \in Nat :
               /\ Bitwise(kind, n, x, y) \in Nat
               /\ Bitwise(kind, n + 1, x, y) = Bitwise(kind, n, x, y) + Weight[n] * BitOf(kind, Bit(x, n), Bit(y, n))
  <1>1. PICK f \in [Nat -> Nat] :
            /\ f[0] = 0
            /\ \A n \in Nat : f[n + 1] = f[n] + Weight[n] * BitOf(kind, Bit(x, n), Bit(y, n))
            /\ \A bits \in Nat : Bitwise(kind, bits, x, y) = f[bits]
    BY BitwiseSequence
  <1>2. ASSUME NEW n \in Nat
        PROVE  /\ Bitwise(kind, n, x, y) \in Nat
               /\ Bitwise(kind, n + 1, x, y) = Bitwise(kind, n, x, y) + Weight[n] * BitOf(kind, Bit(x, n), Bit(y, n))
    <2>1. n + 1 \in Nat /\ f[n] \in Nat
      OBVIOUS
    <2>2. Bitwise(kind, n, x, y) = f[n] /\ Bitwise(kind, n + 1, x, y) = f[n + 1]
      BY <1>1, <2>1
    <2>. QED  BY <1>1, <2>1, <2>2
  <1>. QED  BY <1>1, <1>2

\* The same, for one number of bits.
LEMMA BitwiseStep ==
  ASSUME NEW kind \in BitKinds, NEW x \in Nat, NEW y \in Nat, NEW n \in Nat
  PROVE  Bitwise(kind, n + 1, x, y) = Bitwise(kind, n, x, y) + Weight[n] * BitOf(kind, Bit(x, n), Bit(y, n))
  BY BitwiseSteps, Zenon

\* Quotient and remainder are unique.
LEMMA DivisionIs ==
  ASSUME NEW n \in Nat, n > 0, NEW q \in Nat, NEW r \in Nat, r < n
  PROVE  (n * q + r) \div n = q /\ (n * q + r) % n = r
  BY SMT

\* Every number has them.
LEMMA Division ==
  ASSUME NEW n \in Nat, n > 0, NEW x \in Nat
  PROVE  \E q \in Nat : \E r \in Nat : r < n /\ x = n * q + r
  <1>1. x \div n \in Nat
    BY SMT
  <1>2. x % n \in Nat /\ x % n < n
    BY SMT
  <1>3. x = n * (x \div n) + (x % n)
    BY SMT
  <1>. QED  BY <1>1, <1>2, <1>3

\* The low bits of two halves together are those of the lower one.
LEMMA LowBit ==
  ASSUME NEW h \in Nat, NEW a \in Nat, NEW b \in Nat, a < Weight[h], NEW i \in Nat, i < h
  PROVE  Bit(a + Weight[h] * b, i) = Bit(a, i)
  <1>0. PICK w \in Nat : w = Weight[h] /\ w > 0
    BY WeightPositive
  <1>1. PICK j \in Nat : h = i + (j + 1)
    OBVIOUS
  <1>2. PICK u \in Nat : u = Weight[i] /\ u > 0
    BY WeightPositive
  <1>3. PICK v \in Nat : v = Weight[j]
    BY WeightPositive
  <1>4. Weight[i + (j + 1)] = Weight[i] * Weight[j + 1] /\ Weight[j + 1] = 2 * Weight[j]
    <2>1. j + 1 \in Nat
      OBVIOUS
    <2>. QED  BY <2>1, WeightAdds, WeightFacts
  <1>5. w = u * (2 * v)
    BY <1>0, <1>1, <1>2, <1>3, <1>4
  <1>6. PICK q \in Nat : \E r \in Nat : r < u /\ a = u * q + r
    BY <1>2, Division
  <1>7. PICK r \in Nat : r < u /\ a = u * q + r
    BY <1>6
  <1>8. PICK k \in Nat : k = v * b
    OBVIOUS
  <1>9. w * b = u * (2 * k)
    BY ONLY <1>5, <1>8, u \in Nat, v \in Nat, b \in Nat, k \in Nat, w \in Nat
  <1>10. PICK p \in Nat : p = q + 2 * k
    OBVIOUS
  <1>11. a + w * b = u * p + r
    BY ONLY <1>7, <1>9, <1>10, u \in Nat, q \in Nat, r \in Nat, k \in Nat, p \in Nat
  <1>12. (a + w * b) \div u = p /\ a \div u = q
    <2>1. (u * p + r) \div u = p
      BY <1>2, <1>7, DivisionIs
    <2>2. (u * q + r) \div u = q
      BY <1>2, <1>7, DivisionIs
    <2>. QED  BY <1>7, <1>11, <2>1, <2>2
  <1>13. p % 2 = q % 2
    BY ONLY <1>10, q \in Nat, k \in Nat, p \in Nat
  <1>. QED  BY <1>0, <1>2, <1>12, <1>13 DEF Bit

\* The high bits of two halves together are those of the higher one.
LEMMA HighBit ==
  ASSUME NEW h \in Nat, NEW a \in Nat, NEW b \in Nat, a < Weight[h], NEW i \in Nat
  PROVE  Bit(a + Weight[h] * b, h + i) = Bit(b, i)
  <1>0. PICK w \in Nat : w = Weight[h] /\ w > 0
    BY WeightPositive
  <1>1. PICK u \in Nat : u = Weight[i] /\ u > 0
    BY WeightPositive
  <1>2. Weight[h + i] = w * u
    BY <1>0, <1>1, WeightAdds
  <1>3. PICK q \in Nat : \E r \in Nat : r < u /\ b = u * q + r
    BY <1>1, Division
  <1>4. PICK r \in Nat : r < u /\ b = u * q + r
    BY <1>3
  <1>5. PICK m \in Nat : m = w * u /\ m > 0
    <2>1. w * u \in Nat /\ w * u > 0
      BY ONLY <1>0, <1>1, w \in Nat, u \in Nat
    <2>. QED  BY <2>1
  <1>6. PICK s \in Nat : s = a + w * r
    OBVIOUS
  <1>7. s < m
    <2>1. PICK e \in Nat : u = r + 1 + e
      BY <1>4
    <2>2. w * u = w * r + w + w * e /\ w * e \in Nat
      BY ONLY <2>1, w \in Nat, r \in Nat, e \in Nat
    <2>3. a < w
      BY <1>0
    <2>4. w * r \in Nat
      OBVIOUS
    <2>. QED  BY ONLY <1>5, <1>6, <2>2, <2>3, <2>4, a \in Nat, w \in Nat, m \in Nat, s \in Nat
  <1>8. a + w * b = m * q + s
    BY ONLY <1>4, <1>5, <1>6, a \in Nat, w \in Nat, u \in Nat, q \in Nat, r \in Nat, b \in Nat
  <1>9. (a + w * b) \div m = q /\ b \div u = q
    <2>1. (m * q + s) \div m = q
      BY <1>5, <1>7, DivisionIs
    <2>2. (u * q + r) \div u = q
      BY <1>1, <1>4, DivisionIs
    <2>. QED  BY <1>4, <1>8, <2>1, <2>2
  <1>10. Weight[h + i] = m
    BY <1>2, <1>5
  <1>. QED  BY <1>0, <1>1, <1>9, <1>10 DEF Bit

\* A word of n bits is less than the weight of bit n.
LEMMA BitwiseBound ==
  ASSUME NEW kind \in BitKinds, NEW x \in Nat, NEW y \in Nat
  PROVE  \A n \in Nat : Bitwise(kind, n, x, y) \in Nat /\ Bitwise(kind, n, x, y) < Weight[n]
  <1>1. PICK S : S = {n \in Nat : Bitwise(kind, n, x, y) < Weight[n]}
    OBVIOUS
  <1>2. 0 \in S
    BY <1>1, BitwiseSteps, WeightFacts
  <1>3. ASSUME NEW n \in Nat, n \in S PROVE n + 1 \in S
    <2>1. PICK w \in Nat : w = Weight[n] /\ Weight[n + 1] = 2 * w
      BY WeightPositive, WeightFacts
    <2>2. PICK c \in {0, 1} : c = BitOf(kind, Bit(x, n), Bit(y, n))
      BY BitIs, BitFacts
    <2>3. PICK v \in Nat : v = Bitwise(kind, n, x, y) /\ Bitwise(kind, n + 1, x, y) = v + w * c
      <3>1. /\ Bitwise(kind, n, x, y) \in Nat
            /\ Bitwise(kind, n + 1, x, y) = Bitwise(kind, n, x, y) + Weight[n] * BitOf(kind, Bit(x, n), Bit(y, n))
        BY BitwiseSteps, Zenon
      <3>. QED  BY <2>1, <2>2, <3>1
    <2>4. v < w
      BY <1>1, <1>3, <2>1, <2>3
    <2>5. w * c <= w /\ w * c \in Nat
      BY ONLY <2>2, w \in Nat
    <2>6. v + w * c < 2 * w
      BY ONLY <2>4, <2>5, v \in Nat, w \in Nat
    <2>7. n + 1 \in Nat
      OBVIOUS
    <2>. QED  BY <1>1, <2>1, <2>3, <2>6, <2>7
  <1>4. \A n \in Nat : n \in S
    BY <1>2, <1>3, Inductive
  <1>. QED  BY <1>1, <1>4, BitwiseSteps

\* The operator works on two halves one by one.
LEMMA BitwiseOfHalves ==
  ASSUME NEW kind \in BitKinds, NEW h \in Nat, NEW a \in Nat, NEW b \in Nat, NEW c \in Nat, NEW d \in Nat,
         a < Weight[h], c < Weight[h]
  PROVE  Bitwise(kind, h + h, a + Weight[h] * b, c + Weight[h] * d)
            = Bitwise(kind, h, a, c) + Weight[h] * Bitwise(kind, h, b, d)
  <1>0. PICK w \in Nat : w = Weight[h] /\ w > 0
    BY WeightPositive
  <1>1. PICK x \in Nat : x = a + w * b
    OBVIOUS
  <1>2. PICK y \in Nat : y = c + w * d
    OBVIOUS
  <1>3. \A i \in Nat : i < h => Bit(x, i) = Bit(a, i) /\ Bit(y, i) = Bit(c, i)
    <2>1. ASSUME NEW i \in Nat, i < h PROVE Bit(x, i) = Bit(a, i) /\ Bit(y, i) = Bit(c, i)
      <3>1. Bit(a + Weight[h] * b, i) = Bit(a, i) /\ Bit(c + Weight[h] * d, i) = Bit(c, i)
        BY <2>1, LowBit
      <3>. QED  BY <1>0, <1>1, <1>2, <3>1
    <2>. QED  BY <2>1
  <1>4. \A i \in Nat : Bit(x, h + i) = Bit(b, i) /\ Bit(y, h + i) = Bit(d, i)
    <2>1. ASSUME NEW i \in Nat PROVE Bit(x, h + i) = Bit(b, i) /\ Bit(y, h + i) = Bit(d, i)
      <3>1. Bit(a + Weight[h] * b, h + i) = Bit(b, i) /\ Bit(c + Weight[h] * d, h + i) = Bit(d, i)
        BY HighBit
      <3>. QED  BY <1>0, <1>1, <1>2, <3>1
    <2>. QED  BY <2>1
  <1>5. \A n \in Nat : n <= h => Bitwise(kind, n, x, y) = Bitwise(kind, n, a, c)
    <2>1. PICK S : S = {n \in Nat : n <= h => Bitwise(kind, n, x, y) = Bitwise(kind, n, a, c)}
      OBVIOUS
    <2>2. 0 \in S
      BY <2>1, BitwiseSteps
    <2>3. ASSUME NEW n \in Nat, n \in S PROVE n + 1 \in S
      <3>1. SUFFICES ASSUME n + 1 <= h PROVE Bitwise(kind, n + 1, x, y) = Bitwise(kind, n + 1, a, c)
        BY <2>1
      <3>2. n < h /\ n <= h
        BY <3>1
      <3>3. Bitwise(kind, n, x, y) = Bitwise(kind, n, a, c)
        BY <2>1, <2>3, <3>2
      <3>4. Bit(x, n) = Bit(a, n) /\ Bit(y, n) = Bit(c, n)
        BY <1>3, <3>2
      <3>5. Bitwise(kind, n + 1, x, y) = Bitwise(kind, n, x, y) + Weight[n] * BitOf(kind, Bit(x, n), Bit(y, n))
        BY BitwiseSteps
      <3>6. Bitwise(kind, n + 1, a, c) = Bitwise(kind, n, a, c) + Weight[n] * BitOf(kind, Bit(a, n), Bit(c, n))
        BY BitwiseSteps
      <3>. QED  BY <3>3, <3>4, <3>5, <3>6
    <2>4. \A n \in Nat : n \in S
      BY <2>2, <2>3, Inductive
    <2>. QED  BY <2>1, <2>4
  <1>6. PICK l \in Nat : l = Bitwise(kind, h, a, c)
    BY BitwiseBound
  <1>7. Bitwise(kind, h, x, y) = l
    BY <1>5, <1>6
  <1>8. \A n \in Nat : Bitwise(kind, h + n, x, y) = l + w * Bitwise(kind, n, b, d)
    <2>1. PICK S : S = {n \in Nat : Bitwise(kind, h + n, x, y) = l + w * Bitwise(kind, n, b, d)}
      OBVIOUS
    <2>2. 0 \in S
      <3>1. h + 0 = h /\ w * 0 = 0 /\ l + 0 = l
        OBVIOUS
      <3>2. Bitwise(kind, 0, b, d) = 0
        BY BitwiseSteps
      <3>. QED  BY <1>7, <2>1, <3>1, <3>2
    <2>3. ASSUME NEW n \in Nat, n \in S PROVE n + 1 \in S
      <3>1. PICK u \in Nat : u = Weight[n] /\ Weight[h + n] = w * u
        BY <1>0, WeightPositive, WeightAdds
      <3>2. PICK e \in {0, 1} : e = BitOf(kind, Bit(b, n), Bit(d, n))
        BY BitIs, BitFacts
      <3>3. PICK v \in Nat : v = Bitwise(kind, n, b, d)
        BY BitwiseBound
      <3>4. Bitwise(kind, h + n, x, y) = l + w * v
        BY <2>1, <2>3, <3>3
      <3>5. BitOf(kind, Bit(x, h + n), Bit(y, h + n)) = e
        BY <1>4, <3>2
      <3>6. h + n \in Nat /\ h + (n + 1) = (h + n) + 1
        OBVIOUS
      <3>7. Bitwise(kind, (h + n) + 1, x, y)
              = Bitwise(kind, h + n, x, y) + Weight[h + n] * BitOf(kind, Bit(x, h + n), Bit(y, h + n))
        BY <3>6, BitwiseStep
      <3>8. Bitwise(kind, n + 1, b, d) = v + u * e
        <4>1. Bitwise(kind, n + 1, b, d) = Bitwise(kind, n, b, d) + Weight[n] * BitOf(kind, Bit(b, n), Bit(d, n))
          BY BitwiseStep
        <4>. QED  BY <3>1, <3>2, <3>3, <4>1
      <3>9. l + w * v + (w * u) * e = l + w * (v + u * e)
        BY ONLY l \in Nat, w \in Nat, v \in Nat, u \in Nat, <3>2
      <3>10. Bitwise(kind, h + (n + 1), x, y) = l + w * v + (w * u) * e
        BY <3>1, <3>4, <3>5, <3>6, <3>7
      <3>. QED  BY <2>1, <3>8, <3>9, <3>10
    <2>4. \A n \in Nat : n \in S
      BY <2>2, <2>3, Inductive
    <2>. QED  BY <2>1, <2>4
  <1>. QED  BY <1>0, <1>1, <1>2, <1>6, <1>8

\* The remainder of a number less than twice the divisor.
LEMMA Reduced ==
  ASSUME NEW n \in Nat, n > 0, NEW x \in Nat, x < 2 * n
  PROVE  x % n = IF x < n THEN x ELSE x - n
  <1>1. CASE x < n
    <2>1. (n * 0 + x) % n = x
      BY <1>1, DivisionIs
    <2>2. n * 0 + x = x
      OBVIOUS
    <2>. QED  BY <1>1, <2>1, <2>2
  <1>2. CASE ~(x < n)
    <2>1. PICK r \in Nat : r = x - n /\ r < n /\ n * 1 + r = x
      BY <1>2
    <2>2. (n * 1 + r) % n = r
      BY <2>1, DivisionIs
    <2>. QED  BY <1>2, <2>1, <2>2
  <1>. QED  BY <1>1, <1>2

\* Numbers of two halves: less than the square, and equal only if the halves are.
LEMMA TwoHalves ==
  ASSUME NEW w \in Nat, w > 0, NEW a \in 0 .. w - 1, NEW b \in 0 .. w - 1
  PROVE  a + w * b \in Nat /\ a + w * b < w * w /\ w * w \in Nat /\ w * w > 0
  <1>1. PICK e \in Nat : w = b + 1 + e
    OBVIOUS
  <1>2. w * w = w * b + w + w * e
    BY <1>1
  <1>3. w * b \in Nat /\ w * e \in Nat /\ w * w \in Nat
    OBVIOUS
  <1>4. a \in Nat /\ a < w
    OBVIOUS
  <1>. QED  BY ONLY <1>2, <1>3, <1>4, w \in Nat, w > 0

\* A number of two halves is its halves.
LEMMA HalvesOf ==
  ASSUME NEW w \in Nat, w > 0, NEW x \in Nat, x < w * w
  PROVE  x % w \in 0 .. w - 1 /\ x \div w \in 0 .. w - 1 /\ x = (x % w) + w * (x \div w)
  <1>1. PICK q \in Nat : \E r \in Nat : r < w /\ x = w * q + r
    BY Division
  <1>2. PICK r \in Nat : r < w /\ x = w * q + r
    BY <1>1
  <1>3. x \div w = q /\ x % w = r
    <2>1. (w * q + r) \div w = q /\ (w * q + r) % w = r
      BY <1>2, DivisionIs
    <2>. QED  BY <1>2, <2>1
  <1>4. q < w
    <2>1. SUFFICES ASSUME ~(q < w) PROVE FALSE
      OBVIOUS
    <2>2. PICK e \in Nat : q = w + e
      BY <2>1
    <2>3. w * q = w * w + w * e /\ w * e \in Nat /\ w * w \in Nat
      BY <2>2
    <2>. QED  BY ONLY <1>2, <2>3, x < w * w, r \in Nat, x \in Nat
  <1>. QED  BY <1>2, <1>3, <1>4

\* Addition by halves, with the carry, is addition.
LEMMA AddHalves ==
  ASSUME NEW w \in Nat, w > 0, NEW a \in 0 .. w - 1, NEW b \in 0 .. w - 1, NEW c \in 0 .. w - 1, NEW d \in 0 .. w - 1,
         NEW low, low = (a + c) % w, NEW high, high = (b + d + (IF low < a THEN 1 ELSE 0)) % w
  PROVE  /\ low \in 0 .. w - 1 /\ high \in 0 .. w - 1
         /\ low + w * high = ((a + w * b) + (c + w * d)) % (w * w)
  <1>0. a \in Nat /\ b \in Nat /\ c \in Nat /\ d \in Nat /\ a < w /\ b < w /\ c < w /\ d < w
    OBVIOUS
  <1>1. PICK s \in Nat : s = a + c /\ s < 2 * w
    BY <1>0
  <1>2. low = IF s < w THEN s ELSE s - w
    BY <1>1, Reduced
  <1>3. PICK carry \in {0, 1} : carry = IF low < a THEN 1 ELSE 0
    OBVIOUS
  <1>4. carry = (IF s < w THEN 0 ELSE 1) /\ low = s - w * carry /\ low \in 0 .. w - 1
    <2>1. CASE s < w
      <3>1. low = s /\ ~(low < a)
        BY <1>0, <1>1, <1>2, <2>1
      <3>2. carry = 0 /\ w * carry = 0
        BY <1>3, <3>1
      <3>. QED  BY <1>1, <2>1, <3>1, <3>2
    <2>2. CASE ~(s < w)
      <3>1. low = s - w /\ low < a
        BY <1>0, <1>1, <1>2, <2>2
      <3>2. carry = 1 /\ w * carry = w
        BY <1>3, <3>1
      <3>. QED  BY <1>1, <2>2, <3>1, <3>2
    <2>. QED  BY <2>1, <2>2
  <1>5. PICK t \in Nat : t = b + d + carry /\ t < 2 * w
    BY <1>0
  <1>6. high = IF t < w THEN t ELSE t - w
    <2>1. high = t % w
      BY <1>3, <1>5
    <2>. QED  BY <1>5, <2>1, Reduced
  <1>7. high \in 0 .. w - 1
    BY <1>5, <1>6
  <1>8. PICK x \in Nat : x = (a + w * b) + (c + w * d) /\ x < 2 * (w * w)
    <2>1. a + w * b \in Nat /\ a + w * b < w * w /\ c + w * d \in Nat /\ c + w * d < w * w /\ w * w \in Nat
      BY TwoHalves
    <2>2. PICK p \in Nat : p = a + w * b
      BY <2>1
    <2>3. PICK q \in Nat : q = c + w * d
      BY <2>1
    <2>. QED  BY <2>1, <2>2, <2>3
  <1>9. x = low + w * t
    <2>1. w * t = w * b + w * d + w * carry
      BY <1>5
    <2>2. x = s + w * b + w * d
      BY <1>1, <1>8
    <2>. QED  BY <1>1, <1>4, <2>1, <2>2
  <1>10. PICK n \in Nat : n = w * w /\ n > 0
    BY TwoHalves
  <1>11. x % n = IF x < n THEN x ELSE x - n
    BY <1>8, <1>10, Reduced
  <1>12. low + w * high \in Nat /\ low + w * high < n
    BY <1>4, <1>7, <1>10, TwoHalves
  <1>13. x % n = low + w * high
    <2>1. CASE t < w
      <3>1. x = low + w * high
        BY <1>6, <1>9, <2>1
      <3>. QED  BY <1>11, <1>12, <3>1
    <2>2. CASE ~(t < w)
      <3>1. high = t - w /\ t = high + w
        BY <1>5, <1>6, <2>2
      <3>2. w * t = w * high + n
        BY <1>7, <1>10, <3>1
      <3>3. PICK y \in Nat : y = low + w * high
        BY <1>12
      <3>4. x = y + n
        BY <1>4, <1>7, <1>9, <3>2, <3>3
      <3>. QED  BY <1>10, <1>11, <1>12, <3>3, <3>4
    <2>. QED  BY <2>1, <2>2
  <1>. QED  BY <1>4, <1>7, <1>8, <1>10, <1>13

\* Subtraction by halves, with the borrow, is subtraction.
LEMMA SubHalves ==
  ASSUME NEW w \in Nat, w > 0, NEW a \in 0 .. w - 1, NEW b \in 0 .. w - 1, NEW c \in 0 .. w - 1, NEW d \in 0 .. w - 1,
         NEW low, low = (a + w - c) % w, NEW high, high = (b + 2 * w - d - (IF a < c THEN 1 ELSE 0)) % w
  PROVE  /\ low \in 0 .. w - 1 /\ high \in 0 .. w - 1
         /\ low + w * high = ((a + w * b) + w * w - (c + w * d)) % (w * w)
  <1>0. a \in Nat /\ b \in Nat /\ c \in Nat /\ d \in Nat /\ a < w /\ b < w /\ c < w /\ d < w
    OBVIOUS
  <1>1. PICK s \in Nat : s = a + w - c /\ s < 2 * w
    BY <1>0
  <1>2. low = IF s < w THEN s ELSE s - w
    BY <1>1, Reduced
  <1>3. PICK borrow \in {0, 1} : borrow = IF a < c THEN 1 ELSE 0
    OBVIOUS
  <1>4. low = a - c + w * borrow /\ low \in 0 .. w - 1
    <2>1. CASE a < c
      <3>1. borrow = 1 /\ w * borrow = w /\ s < w
        BY <1>0, <1>1, <1>3, <2>1
      <3>. QED  BY <1>0, <1>1, <1>2, <3>1
    <2>2. CASE ~(a < c)
      <3>1. borrow = 0 /\ w * borrow = 0 /\ ~(s < w)
        BY <1>0, <1>1, <1>3, <2>2
      <3>. QED  BY <1>0, <1>1, <1>2, <3>1
    <2>. QED  BY <2>1, <2>2
  <1>5. PICK t \in Nat : t = b + w - d - borrow /\ t < 2 * w
    BY <1>0
  <1>6. high = t % w
    <2>1. b + 2 * w - d - borrow = t + w
      BY <1>0, <1>5
    <2>2. (t + w) % w = t % w
      <3>1. PICK q \in Nat : \E r \in Nat : r < w /\ t = w * q + r
        BY Division
      <3>2. PICK r \in Nat : r < w /\ t = w * q + r
        BY <3>1
      <3>3. PICK p \in Nat : p = q + 1
        OBVIOUS
      <3>4. t + w = w * p + r
        BY <3>2, <3>3
      <3>5. (w * p + r) % w = r /\ (w * q + r) % w = r
        BY <3>2, DivisionIs
      <3>. QED  BY <3>2, <3>4, <3>5
    <2>. QED  BY <1>3, <2>1, <2>2
  <1>7. high = (IF t < w THEN t ELSE t - w) /\ high \in 0 .. w - 1
    BY <1>5, <1>6, Reduced
  <1>8. PICK n \in Nat : n = w * w /\ n > 0
    BY TwoHalves
  <1>9. PICK p \in Nat : p = a + w * b /\ p < n
    BY <1>8, TwoHalves
  <1>10. PICK q \in Nat : q = c + w * d /\ q < n
    BY <1>8, TwoHalves
  <1>11. PICK x \in Nat : x = p + n - q /\ x < 2 * n
    BY <1>9, <1>10
  <1>12. x = low + w * t
    <2>1. w * t = w * b + w * w - w * d - w * borrow
      BY <1>5
    <2>. QED  BY <1>4, <1>8, <1>9, <1>10, <1>11, <2>1
  <1>13. x % n = IF x < n THEN x ELSE x - n
    BY <1>8, <1>11, Reduced
  <1>14. low + w * high \in Nat /\ low + w * high < n
    BY <1>4, <1>7, <1>8, TwoHalves
  <1>15. x % n = low + w * high
    <2>1. CASE t < w
      <3>1. x = low + w * high
        BY <1>7, <1>12, <2>1
      <3>. QED  BY <1>13, <1>14, <3>1
    <2>2. CASE ~(t < w)
      <3>1. high = t - w /\ t = high + w
        BY <1>5, <1>7, <2>2
      <3>2. w * t = w * high + n
        BY <1>7, <1>8, <3>1
      <3>3. PICK y \in Nat : y = low + w * high
        BY <1>14
      <3>4. x = y + n
        BY <1>4, <1>7, <1>12, <3>2, <3>3
      <3>. QED  BY <1>8, <1>13, <1>14, <3>3, <3>4
    <2>. QED  BY <2>1, <2>2
  <1>. QED  BY <1>4, <1>7, <1>8, <1>9, <1>10, <1>11, <1>15

-----------------------------------------------------------------------------
(* The 128-bit atomics: the operations.                                    *)

\* Both modules have the same weights and operators.
LEMMA SameBits ==
  /\ Wide!Weight = Weight /\ Wide!Cell!Weight = Weight
  /\ \A kind, bits, x, y : Wide!Bitwise(kind, bits, x, y) = Bitwise(kind, bits, x, y)
  /\ \A kind, bits, x, y : Wide!Cell!Bitwise(kind, bits, x, y) = Bitwise(kind, bits, x, y)
  <1>1. Wide!Weight = Weight /\ Wide!Cell!Weight = Weight
    BY Zenon DEF Wide!Weight, Wide!Cell!Weight, Weight
  <1>2. ASSUME NEW kind, NEW bits, NEW x, NEW y PROVE Wide!Bitwise(kind, bits, x, y) = Bitwise(kind, bits, x, y)
    BY <1>1, Zenon DEF Wide!Bitwise, Wide!Bit, Wide!BitOf, Bitwise, Bit, BitOf
  <1>3. ASSUME NEW kind, NEW bits, NEW x, NEW y PROVE Wide!Cell!Bitwise(kind, bits, x, y) = Bitwise(kind, bits, x, y)
    BY <1>1, Zenon DEF Wide!Cell!Bitwise, Wide!Cell!Bit, Wide!Cell!BitOf, Bitwise, Bit, BitOf
  <1>. QED  BY <1>1, <1>2, <1>3

\* The numbers of one half and of two.
LEMMA WideNumbers ==
  /\ HalfBits \in Nat /\ Wide!Half = Weight[HalfBits]
  /\ Wide!Half \in Nat /\ Wide!Half > 0
  /\ Wide!Cell!Values = Wide!Half * Wide!Half
  /\ Operands \subseteq Wide!Cell!Value
  <1>1. HalfBits \in Nat
    BY PartsAssumption DEF Wide!WidthAssumption
  <1>2. Wide!Half = Weight[HalfBits] /\ Wide!Cell!Values = Weight[2 * HalfBits]
    BY SameBits DEF Wide!Half, Wide!Cell!Values
  <1>3. Wide!Half \in Nat /\ Wide!Half > 0
    BY <1>1, <1>2, WeightPositive
  <1>4. Weight[HalfBits + HalfBits] = Weight[HalfBits] * Weight[HalfBits]
    BY <1>1, WeightAdds
  <1>5. 2 * HalfBits = HalfBits + HalfBits
    BY <1>1
  <1>6. Operands \subseteq Wide!Cell!Value
    BY PartsAssumption, SameBits DEF Wide!WidthAssumption, Wide!Cell!Value, Wide!Cell!Values
  <1>. QED  BY <1>1, <1>2, <1>3, <1>4, <1>5, <1>6

\* What an operation is called with.
LEMMA OperationFacts ==
  ASSUME NEW op \in Wide!Cell!Operation
  PROVE  /\ op.kind \in {"load", "store", "exchange", "compare_exchange", "add", "sub"} \cup BitKinds
         /\ op.value \in Nat /\ op.value < Wide!Half * Wide!Half
         /\ op # Wide!Cell!Idle
  <1>1. op.kind \in Kinds /\ op.value \in Operands \cup {0}
    BY DEF Wide!Cell!Operation
  <1>2. op.kind \in {"load", "store", "exchange", "compare_exchange", "add", "sub"} \cup BitKinds
    BY <1>1, PartsAssumption DEF Wide!WidthAssumption, BitKinds
  <1>3. op.kind # "idle"
    BY <1>2 DEF BitKinds
  <1>4. PICK n \in Nat : n = Wide!Half * Wide!Half /\ n > 0
    <2>1. PICK w \in Nat : w = Wide!Half /\ w > 0
      BY WideNumbers
    <2>2. w * w \in Nat /\ w * w > 0
      BY <2>1
    <2>. QED  BY <2>1, <2>2
  <1>5. op.value \in Nat /\ op.value < n
    <2>1. Wide!Cell!Value = 0 .. n - 1
      BY <1>4, WideNumbers DEF Wide!Cell!Value
    <2>2. op.value \in 0 .. n - 1
      <3>1. Operands \subseteq 0 .. n - 1
        BY <2>1, WideNumbers
      <3>2. 0 \in 0 .. n - 1
        BY <1>4
      <3>. QED  BY <1>1, <3>1, <3>2
    <2>. QED  BY <1>4, <2>2
  <1>. QED  BY <1>2, <1>3, <1>4, <1>5 DEF Wide!Cell!Idle

\* A pair of halves is one value.
LEMMA HalvesFacts ==
  ASSUME NEW a \in Wide!Halves
  PROVE  /\ a.low \in 0 .. Wide!Half - 1 /\ a.high \in 0 .. Wide!Half - 1
         /\ a = [low |-> a.low, high |-> a.high]
         /\ Wide!Whole(a) = a.low + Wide!Half * a.high
         /\ Wide!Whole(a) \in Wide!Cell!Value
  <1>1. a.low \in 0 .. Wide!Half - 1 /\ a.high \in 0 .. Wide!Half - 1 /\ a = [low |-> a.low, high |-> a.high]
    BY DEF Wide!Halves
  <1>2. PICK w \in Nat : w = Wide!Half /\ w > 0
    BY WideNumbers
  <1>3. a.low + w * a.high \in Nat /\ a.low + w * a.high < w * w /\ w * w \in Nat
    BY <1>1, <1>2, TwoHalves
  <1>4. a.low + w * a.high \in 0 .. (w * w) - 1
    BY <1>3
  <1>5. Wide!Cell!Value = 0 .. (w * w) - 1
    BY <1>2, WideNumbers DEF Wide!Cell!Value
  <1>. QED  BY <1>1, <1>2, <1>4, <1>5 DEF Wide!Whole

\* What an operation writes half by half is what it leaves in the cell: carries and
\* borrows cross from one half to the other.
LEMMA ResultIsApplied ==
  ASSUME NEW op \in Wide!Cell!Operation, NEW a \in Wide!Halves, Wide!Writes(op, a)
  PROVE  /\ Wide!Result(op, a) \in Wide!Halves
         /\ Wide!Whole(Wide!Result(op, a)) = Wide!Cell!Applied(op, Wide!Whole(a))
  <1>1. PICK w \in Nat : w = Wide!Half /\ w > 0
    BY WideNumbers
  <1>2. PICK v \in Nat : v = op.value /\ v < w * w
    BY <1>1, OperationFacts
  <1>3. PICK c \in 0 .. w - 1 : c = v % w
    BY <1>1, <1>2, HalvesOf
  <1>4. PICK d \in 0 .. w - 1 : d = v \div w
    BY <1>1, <1>2, HalvesOf
  <1>5. v = c + w * d
    BY <1>1, <1>2, <1>3, <1>4, HalvesOf
  <1>6. PICK p \in 0 .. w - 1 : p = a.low
    BY <1>1, HalvesFacts
  <1>7. PICK q \in 0 .. w - 1 : q = a.high
    BY <1>1, HalvesFacts
  <1>8. Wide!Whole(a) = p + w * q
    BY <1>1, <1>6, <1>7, HalvesFacts
  <1>9. PICK b : b = [low |-> c, high |-> d]
    OBVIOUS
  <1>10. b.low = c /\ b.high = d /\ b \in Wide!Halves /\ Wide!Low(op.value) = c /\ Wide!High(op.value) = d
    BY <1>1, <1>2, <1>3, <1>4, <1>9 DEF Wide!Halves, Wide!Low, Wide!High
  <1>11. Wide!Cell!Values = w * w
    BY <1>1, WideNumbers
  <1>12. op.kind # "load"
    BY DEF Wide!Writes
  <1>13. CASE op.kind \in {"store", "exchange", "compare_exchange"}
    <2>1. Wide!Result(op, a) = b
      BY <1>9, <1>10, <1>13 DEF Wide!Result
    <2>2. Wide!Cell!Applied(op, Wide!Whole(a)) = op.value
      BY <1>13 DEF Wide!Cell!Applied, Wide!Writes
    <2>3. Wide!Whole(b) = v
      BY <1>1, <1>5, <1>10 DEF Wide!Whole
    <2>. QED  BY <1>2, <1>10, <2>1, <2>2, <2>3
  <1>14. CASE op.kind = "add"
    <2>1. PICK low : low = (p + c) % w
      OBVIOUS
    <2>2. PICK high : high = (q + d + (IF low < p THEN 1 ELSE 0)) % w
      OBVIOUS
    <2>3. low \in 0 .. w - 1 /\ high \in 0 .. w - 1 /\ low + w * high = ((p + w * q) + (c + w * d)) % (w * w)
      BY <1>1, <2>1, <2>2, AddHalves
    <2>4. Wide!Result(op, a) = Wide!add(a, b)
      BY <1>9, <1>10, <1>14 DEF Wide!Result
    <2>5. Wide!add(a, b) = [low |-> low, high |-> high]
      BY <1>1, <1>6, <1>7, <1>10, <2>1, <2>2 DEF Wide!add
    <2>6. Wide!Cell!Applied(op, Wide!Whole(a)) = ((p + w * q) + v) % (w * w)
      BY <1>2, <1>8, <1>11, <1>14 DEF Wide!Cell!Applied
    <2>7. [low |-> low, high |-> high] \in Wide!Halves /\ Wide!Whole([low |-> low, high |-> high]) = low + w * high
      BY <1>1, <2>3 DEF Wide!Halves, Wide!Whole
    <2>. QED  BY <1>5, <2>3, <2>4, <2>5, <2>6, <2>7
  <1>15. CASE op.kind = "sub"
    <2>1. PICK low : low = (p + w - c) % w
      OBVIOUS
    <2>2. PICK high : high = (q + 2 * w - d - (IF p < c THEN 1 ELSE 0)) % w
      OBVIOUS
    <2>3. low \in 0 .. w - 1 /\ high \in 0 .. w - 1 /\ low + w * high = ((p + w * q) + w * w - (c + w * d)) % (w * w)
      BY <1>1, <2>1, <2>2, SubHalves
    <2>4. Wide!Result(op, a) = Wide!sub(a, b)
      BY <1>9, <1>10, <1>15 DEF Wide!Result
    <2>5. Wide!sub(a, b) = [low |-> low, high |-> high]
      BY <1>1, <1>6, <1>7, <1>10, <2>1, <2>2 DEF Wide!sub
    <2>6. Wide!Cell!Applied(op, Wide!Whole(a)) = ((p + w * q) + w * w - v) % (w * w)
      BY <1>2, <1>8, <1>11, <1>15 DEF Wide!Cell!Applied
    <2>7. [low |-> low, high |-> high] \in Wide!Halves /\ Wide!Whole([low |-> low, high |-> high]) = low + w * high
      BY <1>1, <2>3 DEF Wide!Halves, Wide!Whole
    <2>. QED  BY <1>5, <2>3, <2>4, <2>5, <2>6, <2>7
  <1>16. CASE op.kind \in BitKinds
    <2>0. PICK kind \in BitKinds : kind = op.kind
      BY <1>16
    <2>1. PICK low \in Nat : low = Bitwise(kind, HalfBits, p, c) /\ low < w
      <3>1. p \in Nat /\ c \in Nat
        BY <1>1
      <3>2. HalfBits \in Nat /\ w = Weight[HalfBits]
        BY <1>1, WideNumbers
      <3>3. Bitwise(kind, HalfBits, p, c) \in Nat /\ Bitwise(kind, HalfBits, p, c) < Weight[HalfBits]
        BY <3>1, <3>2, BitwiseBound, Zenon
      <3>. QED  BY <3>2, <3>3
    <2>2. PICK high \in Nat : high = Bitwise(kind, HalfBits, q, d) /\ high < w
      <3>1. q \in Nat /\ d \in Nat
        BY <1>1
      <3>2. HalfBits \in Nat /\ w = Weight[HalfBits]
        BY <1>1, WideNumbers
      <3>3. Bitwise(kind, HalfBits, q, d) \in Nat /\ Bitwise(kind, HalfBits, q, d) < Weight[HalfBits]
        BY <3>1, <3>2, BitwiseBound, Zenon
      <3>. QED  BY <3>2, <3>3
    <2>3. Bitwise(kind, HalfBits + HalfBits, p + w * q, c + w * d) = low + w * high
      <3>1. p \in Nat /\ q \in Nat /\ c \in Nat /\ d \in Nat /\ p < w /\ c < w
        BY <1>1
      <3>2. w = Weight[HalfBits] /\ HalfBits \in Nat
        BY <1>1, WideNumbers
      <3>3. Bitwise(kind, HalfBits + HalfBits, p + Weight[HalfBits] * q, c + Weight[HalfBits] * d)
              = Bitwise(kind, HalfBits, p, c) + Weight[HalfBits] * Bitwise(kind, HalfBits, q, d)
        BY <3>1, <3>2, BitwiseOfHalves
      <3>. QED  BY <2>1, <2>2, <3>2, <3>3
    <2>4. Wide!Result(op, a) = [low |-> low, high |-> high]
      <3>1. Wide!Result(op, a) = [low |-> Wide!Bitwise(op.kind, HalfBits, a.low, c),
                                  high |-> Wide!Bitwise(op.kind, HalfBits, a.high, d)]
        BY <1>10, <1>16 DEF Wide!Result, BitKinds
      <3>. QED  BY <1>6, <1>7, <2>0, <2>1, <2>2, <3>1, SameBits
    <2>5. Wide!Cell!Applied(op, Wide!Whole(a)) = low + w * high
      <3>1. Wide!Cell!Applied(op, Wide!Whole(a)) = Wide!Cell!Bitwise(op.kind, 2 * HalfBits, Wide!Whole(a), op.value)
        BY <1>16 DEF Wide!Cell!Applied, BitKinds
      <3>2. 2 * HalfBits = HalfBits + HalfBits
        BY WideNumbers
      <3>. QED  BY <1>2, <1>5, <1>8, <2>0, <2>3, <3>1, <3>2, SameBits
    <2>6. [low |-> low, high |-> high] \in Wide!Halves /\ Wide!Whole([low |-> low, high |-> high]) = low + w * high
      BY <1>1, <2>1, <2>2 DEF Wide!Halves, Wide!Whole
    <2>. QED  BY <2>4, <2>5, <2>6
  <1>. QED  BY <1>12, <1>13, <1>14, <1>15, <1>16, OperationFacts

-----------------------------------------------------------------------------
(* The 128-bit atomics: the inductive invariant.                           *)

Inside == {"read low", "read high", "write low", "write high", "leave"}

\* What holds for a thread at point p in operation op, with the halves s it has read: the
\* value is as the gate found it until the first write, and as the operation leaves it
\* after the last.
Found(op, s, b) == op.kind # "store" => Wide!Whole(s) = b
Fitting(p, op, s, g, m, b) ==
    /\ p = "idle" => op = Wide!Cell!Idle
    /\ p # "idle" => op \in Wide!Cell!Operation
    /\ p \in Inside => g = 1
    /\ p \in {"read low", "read high", "write low"} => Wide!Whole(m) = b
    /\ p = "read high" => s.low = m.low
    /\ p \in {"write low", "write high"} => Wide!Writes(op, s) /\ Found(op, s, b)
    /\ p = "write high" => m.low = Wide!Result(op, s).low
    /\ p = "leave" => Found(op, s, b) /\ Wide!Whole(m) = Wide!Cell!Applied(op, b)
FittingAt(t) == Fitting(widePc[t], wideCall[t], wideSeen[t], gate, mem, before)

WideIndInv ==
    /\ Wide!TypeOK
    /\ \A t \in Thread : FittingAt(t)
    /\ \A t, u \in Thread : widePc[t] \in Inside /\ widePc[u] \in Inside => t = u

\* A thread outside the gate is not touched by what is done inside.
LEMMA OutsideFits ==
  ASSUME NEW p, NEW op, NEW s, NEW g, NEW m, NEW b, NEW g1, NEW m1, NEW b1,
         Fitting(p, op, s, g, m, b), p \notin Inside
  PROVE  Fitting(p, op, s, g1, m1, b1)
  BY DEF Fitting, Inside

\* A step of one thread, inside the gate or entering it: the others are outside.
LEMMA OneInside ==
  ASSUME WideIndInv, NEW t \in Thread, Wide!TypeOK',
         \/ widePc[t] \in Inside
         \/ gate = 0
         \/ UNCHANGED <<gate, mem, before>> /\ widePc'[t] \notin Inside,
         \A u \in Thread : u # t => widePc'[u] = widePc[u] /\ wideCall'[u] = wideCall[u] /\ wideSeen'[u] = wideSeen[u],
         FittingAt(t)'
  PROVE  WideIndInv'
  <1>1. CASE UNCHANGED <<gate, mem, before>> /\ widePc'[t] \notin Inside
    <2>1. ASSUME NEW u \in Thread PROVE FittingAt(u)'
      <3>1. CASE u # t
        BY <1>1, <3>1 DEF WideIndInv, FittingAt
      <3>. QED  BY <3>1
    <2>2. ASSUME NEW u \in Thread, NEW v \in Thread, widePc'[u] \in Inside, widePc'[v] \in Inside
          PROVE  u = v
      <3>1. u # t /\ v # t
        BY <1>1, <2>2
      <3>2. widePc[u] \in Inside /\ widePc[v] \in Inside
        BY <2>2, <3>1
      <3>. QED  BY <3>2 DEF WideIndInv
    <2>. QED  BY <2>1, <2>2 DEF WideIndInv
  <1>2. CASE widePc[t] \in Inside \/ gate = 0
    <2>1. ASSUME NEW u \in Thread, u # t PROVE widePc[u] \notin Inside
      <3>1. CASE widePc[t] \in Inside
        BY <2>1, <3>1 DEF WideIndInv
      <3>2. CASE gate = 0
        <4>1. FittingAt(u) /\ gate # 1
          BY <3>2 DEF WideIndInv
        <4>. QED  BY <4>1 DEF FittingAt, Fitting
      <3>. QED  BY <1>2, <3>1, <3>2
    <2>2. ASSUME NEW u \in Thread PROVE FittingAt(u)'
      <3>1. CASE u # t
        <4>1. Fitting(widePc[u], wideCall[u], wideSeen[u], gate, mem, before) /\ widePc[u] \notin Inside
          BY <2>1, <3>1 DEF WideIndInv, FittingAt
        <4>2. Fitting(widePc[u], wideCall[u], wideSeen[u], gate', mem', before')
          BY <4>1, OutsideFits
        <4>. QED  BY <3>1, <4>2 DEF FittingAt
      <3>. QED  BY <3>1
    <2>3. ASSUME NEW u \in Thread, NEW v \in Thread, widePc'[u] \in Inside, widePc'[v] \in Inside
          PROVE  u = v
      <3>1. u = t
        BY <2>1, <2>3
      <3>2. v = t
        BY <2>1, <2>3
      <3>. QED  BY <3>1, <3>2
    <2>. QED  BY <2>2, <2>3 DEF WideIndInv
  <1>. QED  BY <1>1, <1>2

\* Step by step, the atomics keep the invariant, and do to the cell what one indivisible
\* operation does, or nothing.
WideCellStep == Wide!Cell!Next \/ UNCHANGED Wide!Cell!cellVars

\* A call.
LEMMA WideCall ==
  ASSUME WideIndInv, NEW t \in Thread, NEW op \in Wide!Cell!Operation, Wide!Call(t, op)
  PROVE  WideIndInv' /\ WideCellStep
  <1>1. /\ widePc[t] = "idle" /\ wideCall' = [wideCall EXCEPT ![t] = op]
        /\ widePc' = [widePc EXCEPT ![t] = "enter"]
        /\ UNCHANGED <<gate, mem, wideSeen, wideAnswer, before>>
    BY DEF Wide!Call
  <1>2. Wide!TypeOK'
    BY <1>1 DEF WideIndInv, Wide!TypeOK
  <1>3. widePc'[t] = "enter" /\ wideCall'[t] = op
    BY <1>1 DEF WideIndInv, Wide!TypeOK
  <1>4. FittingAt(t)'
    BY <1>3 DEF FittingAt, Fitting, Inside
  <1>5. \A u \in Thread : u # t => widePc'[u] = widePc[u] /\ wideCall'[u] = wideCall[u] /\ wideSeen'[u] = wideSeen[u]
    BY <1>1 DEF WideIndInv, Wide!TypeOK
  <1>6. WideIndInv'
    BY <1>1, <1>2, <1>3, <1>4, <1>5, OneInside DEF Inside
  <1>7. wideCall[t] = Wide!Cell!Idle
    BY <1>1 DEF WideIndInv, FittingAt, Fitting
  <1>8. Wide!Cell!Call(t, op)
    BY <1>1, <1>7 DEF Wide!Cell!Call, Wide!Whole
  <1>9. Wide!Cell!Next
    BY <1>8 DEF Wide!Cell!Next
  <1>. QED  BY <1>6, <1>9 DEF WideCellStep

\* The gate is found free.
LEMMA WideEnter ==
  ASSUME WideIndInv, NEW t \in Thread, Wide!enter(t)
  PROVE  WideIndInv' /\ WideCellStep
  <1>1. /\ widePc[t] = "enter" /\ gate = 0 /\ gate' = 1 /\ before' = Wide!Whole(mem)
        /\ widePc' = [widePc EXCEPT ![t] = IF wideCall[t].kind = "store" THEN "write low" ELSE "read low"]
        /\ UNCHANGED <<mem, wideCall, wideSeen, wideAnswer>>
    BY DEF Wide!enter
  <1>2. Wide!Whole(mem) \in Wide!Cell!Value
    BY HalvesFacts DEF WideIndInv, Wide!TypeOK
  <1>3. Wide!TypeOK'
    BY <1>1, <1>2 DEF WideIndInv, Wide!TypeOK
  <1>4. widePc'[t] = IF wideCall[t].kind = "store" THEN "write low" ELSE "read low"
    BY <1>1 DEF WideIndInv, Wide!TypeOK
  <1>5. wideCall[t] \in Wide!Cell!Operation
    BY <1>1 DEF WideIndInv, FittingAt, Fitting
  <1>6. FittingAt(t)'
    <2>1. CASE wideCall[t].kind = "store"
      <3>1. widePc'[t] = "write low"
        BY <1>4, <2>1
      <3>2. Wide!Writes(wideCall[t], wideSeen[t]) /\ Found(wideCall[t], wideSeen[t], before')
        BY <2>1 DEF Wide!Writes, Found
      <3>. QED  BY <1>1, <1>5, <3>1, <3>2 DEF FittingAt, Fitting, Inside
    <2>2. CASE wideCall[t].kind # "store"
      <3>1. widePc'[t] = "read low"
        BY <1>4, <2>2
      <3>. QED  BY <1>1, <1>5, <3>1 DEF FittingAt, Fitting, Inside
    <2>. QED  BY <2>1, <2>2
  <1>7. \A u \in Thread : u # t => widePc'[u] = widePc[u] /\ wideCall'[u] = wideCall[u] /\ wideSeen'[u] = wideSeen[u]
    BY <1>1 DEF WideIndInv, Wide!TypeOK
  <1>8. WideIndInv'
    BY <1>1, <1>3, <1>6, <1>7, OneInside
  <1>9. UNCHANGED Wide!Cell!cellVars
    <2>1. (IF gate = 1 THEN before ELSE Wide!Whole(mem))' = Wide!Whole(mem)
      BY <1>1
    <2>2. (IF gate = 1 THEN before ELSE Wide!Whole(mem)) = Wide!Whole(mem)
      <3>0. gate = 0
        BY <1>1
      <3>1. gate # 1
        BY ONLY <3>0
      <3>. QED  BY <3>1, Zenon
    <2>. QED  BY <1>1, <2>1, <2>2, Zenon DEF Wide!Cell!cellVars
  <1>. QED  BY <1>8, <1>9 DEF WideCellStep

\* The low half is read.
LEMMA WideReadLow ==
  ASSUME WideIndInv, NEW t \in Thread, Wide!ReadLow(t)
  PROVE  WideIndInv' /\ WideCellStep
  <1>1. /\ widePc[t] = "read low" /\ wideSeen' = [wideSeen EXCEPT ![t].low = mem.low]
        /\ widePc' = [widePc EXCEPT ![t] = "read high"]
        /\ UNCHANGED <<gate, mem, wideCall, wideAnswer, before>>
    BY DEF Wide!ReadLow
  <1>2. mem \in Wide!Halves /\ wideSeen \in [Thread -> Wide!Halves]
    BY DEF WideIndInv, Wide!TypeOK
  <1>3. [wideSeen[t] EXCEPT !.low = mem.low] \in Wide!Halves
    BY <1>2 DEF Wide!Halves
  <1>4. wideSeen' \in [Thread -> Wide!Halves] /\ wideSeen'[t].low = mem.low
    BY <1>1, <1>2, <1>3 DEF Wide!Halves
  <1>5. Wide!TypeOK'
    BY <1>1, <1>4 DEF WideIndInv, Wide!TypeOK
  <1>6. widePc'[t] = "read high"
    BY <1>1 DEF WideIndInv, Wide!TypeOK
  <1>7. wideCall[t] \in Wide!Cell!Operation /\ gate = 1 /\ Wide!Whole(mem) = before
    BY <1>1 DEF WideIndInv, FittingAt, Fitting, Inside
  <1>8. FittingAt(t)'
    BY <1>1, <1>4, <1>6, <1>7 DEF FittingAt, Fitting, Inside
  <1>9. \A u \in Thread : u # t => widePc'[u] = widePc[u] /\ wideCall'[u] = wideCall[u] /\ wideSeen'[u] = wideSeen[u]
    BY <1>1, <1>2 DEF WideIndInv, Wide!TypeOK
  <1>10. WideIndInv'
    <2>1. widePc[t] \in Inside
      BY <1>1 DEF Inside
    <2>. QED  BY <1>5, <1>8, <1>9, <2>1, OneInside
  <1>11. UNCHANGED Wide!Cell!cellVars
    BY <1>1 DEF Wide!Cell!cellVars, Wide!Whole
  <1>. QED  BY <1>10, <1>11 DEF WideCellStep

\* The high half is read, and the operation may be over.
LEMMA WideReadHigh ==
  ASSUME WideIndInv, NEW t \in Thread, Wide!ReadHigh(t)
  PROVE  WideIndInv' /\ WideCellStep
  <1>1. PICK old : old = [wideSeen[t] EXCEPT !.high = mem.high]
    OBVIOUS
  <1>2. /\ widePc[t] = "read high" /\ wideSeen' = [wideSeen EXCEPT ![t] = old]
        /\ widePc' = [widePc EXCEPT ![t] = IF Wide!Writes(wideCall[t], old) THEN "write low" ELSE "leave"]
        /\ UNCHANGED <<gate, mem, wideCall, wideAnswer, before>>
    BY <1>1 DEF Wide!ReadHigh
  <1>3. mem \in Wide!Halves /\ wideSeen \in [Thread -> Wide!Halves] /\ widePc \in [Thread -> {"idle", "enter"} \cup Inside]
    BY DEF WideIndInv, Wide!TypeOK, Inside
  <1>4. wideCall[t] \in Wide!Cell!Operation /\ gate = 1 /\ Wide!Whole(mem) = before /\ wideSeen[t].low = mem.low
    BY <1>2 DEF WideIndInv, FittingAt, Fitting, Inside
  <1>5. old = mem
    <2>1. wideSeen[t] \in Wide!Halves
      BY <1>3
    <2>2. old = [low |-> wideSeen[t].low, high |-> mem.high]
      BY <1>1, <2>1 DEF Wide!Halves
    <2>. QED  BY <1>3, <1>4, <2>2, HalvesFacts
  <1>6. wideSeen' \in [Thread -> Wide!Halves] /\ wideSeen'[t] = mem
    BY <1>2, <1>3, <1>5
  <1>7. Wide!TypeOK'
    BY <1>2, <1>6 DEF WideIndInv, Wide!TypeOK
  <1>8. widePc'[t] = IF Wide!Writes(wideCall[t], mem) THEN "write low" ELSE "leave"
    BY <1>2, <1>3, <1>5
  <1>9. Found(wideCall[t], mem, before)
    BY <1>4 DEF Found
  <1>10. FittingAt(t)'
    <2>1. CASE Wide!Writes(wideCall[t], mem)
      <3>1. widePc'[t] = "write low"
        BY <1>8, <2>1
      <3>. QED  BY <1>2, <1>4, <1>6, <1>9, <2>1, <3>1 DEF FittingAt, Fitting, Inside
    <2>2. CASE ~Wide!Writes(wideCall[t], mem)
      <3>1. widePc'[t] = "leave"
        BY <1>8, <2>2
      <3>2. Wide!Cell!Applied(wideCall[t], before) = before
        BY <1>4, <2>2 DEF Wide!Writes, Wide!Cell!Applied
      <3>. QED  BY <1>2, <1>4, <1>6, <1>9, <3>1, <3>2 DEF FittingAt, Fitting, Inside
    <2>. QED  BY <2>1, <2>2
  <1>11. \A u \in Thread : u # t => widePc'[u] = widePc[u] /\ wideCall'[u] = wideCall[u] /\ wideSeen'[u] = wideSeen[u]
    BY <1>2, <1>3
  <1>12. WideIndInv'
    <2>1. widePc[t] \in Inside
      BY <1>2 DEF Inside
    <2>. QED  BY <1>7, <1>10, <1>11, <2>1, OneInside
  <1>13. UNCHANGED Wide!Cell!cellVars
    BY <1>2 DEF Wide!Cell!cellVars, Wide!Whole
  <1>. QED  BY <1>12, <1>13 DEF WideCellStep

\* The low half is written.
LEMMA WideWriteLow ==
  ASSUME WideIndInv, NEW t \in Thread, Wide!WriteLow(t)
  PROVE  WideIndInv' /\ WideCellStep
  <1>1. PICK new : new = Wide!Result(wideCall[t], wideSeen[t])
    OBVIOUS
  <1>2. /\ widePc[t] = "write low" /\ mem' = [mem EXCEPT !.low = new.low]
        /\ widePc' = [widePc EXCEPT ![t] = "write high"]
        /\ UNCHANGED <<gate, wideCall, wideSeen, wideAnswer, before>>
    BY <1>1 DEF Wide!WriteLow
  <1>3. mem \in Wide!Halves /\ wideSeen \in [Thread -> Wide!Halves] /\ widePc \in [Thread -> {"idle", "enter"} \cup Inside]
    BY DEF WideIndInv, Wide!TypeOK, Inside
  <1>4. /\ wideCall[t] \in Wide!Cell!Operation /\ gate = 1
        /\ Wide!Writes(wideCall[t], wideSeen[t]) /\ Found(wideCall[t], wideSeen[t], before)
    BY <1>2 DEF WideIndInv, FittingAt, Fitting, Inside
  <1>5. new \in Wide!Halves
    BY <1>1, <1>3, <1>4, ResultIsApplied
  <1>6. mem' \in Wide!Halves /\ mem'.low = new.low
    BY <1>2, <1>3, <1>5 DEF Wide!Halves
  <1>7. Wide!TypeOK'
    BY <1>2, <1>6 DEF WideIndInv, Wide!TypeOK
  <1>8. widePc'[t] = "write high"
    BY <1>2, <1>3
  <1>9. FittingAt(t)'
    BY <1>1, <1>2, <1>4, <1>6, <1>8 DEF FittingAt, Fitting, Inside
  <1>10. \A u \in Thread : u # t => widePc'[u] = widePc[u] /\ wideCall'[u] = wideCall[u] /\ wideSeen'[u] = wideSeen[u]
    BY <1>2, <1>3
  <1>11. WideIndInv'
    <2>1. widePc[t] \in Inside
      BY <1>2 DEF Inside
    <2>. QED  BY <1>7, <1>9, <1>10, <2>1, OneInside
  <1>12. UNCHANGED Wide!Cell!cellVars
    BY <1>2, <1>4 DEF Wide!Cell!cellVars
  <1>. QED  BY <1>11, <1>12 DEF WideCellStep

\* The high half is written.
LEMMA WideWriteHigh ==
  ASSUME WideIndInv, NEW t \in Thread, Wide!WriteHigh(t)
  PROVE  WideIndInv' /\ WideCellStep
  <1>1. PICK new : new = Wide!Result(wideCall[t], wideSeen[t])
    OBVIOUS
  <1>2. /\ widePc[t] = "write high" /\ mem' = [mem EXCEPT !.high = new.high]
        /\ widePc' = [widePc EXCEPT ![t] = "leave"]
        /\ UNCHANGED <<gate, wideCall, wideSeen, wideAnswer, before>>
    BY <1>1 DEF Wide!WriteHigh
  <1>3. mem \in Wide!Halves /\ wideSeen \in [Thread -> Wide!Halves] /\ widePc \in [Thread -> {"idle", "enter"} \cup Inside]
    BY DEF WideIndInv, Wide!TypeOK, Inside
  <1>4. /\ wideCall[t] \in Wide!Cell!Operation /\ gate = 1 /\ mem.low = new.low
        /\ Wide!Writes(wideCall[t], wideSeen[t]) /\ Found(wideCall[t], wideSeen[t], before)
    BY <1>1, <1>2 DEF WideIndInv, FittingAt, Fitting, Inside
  <1>5. new \in Wide!Halves /\ Wide!Whole(new) = Wide!Cell!Applied(wideCall[t], Wide!Whole(wideSeen[t]))
    BY <1>1, <1>3, <1>4, ResultIsApplied
  <1>6. mem' = new
    <2>1. mem' = [low |-> mem.low, high |-> new.high]
      BY <1>2, <1>3 DEF Wide!Halves
    <2>. QED  BY <1>4, <1>5, <2>1, HalvesFacts
  <1>7. Wide!TypeOK'
    BY <1>2, <1>5, <1>6 DEF WideIndInv, Wide!TypeOK
  <1>8. Wide!Whole(new) = Wide!Cell!Applied(wideCall[t], before)
    <2>1. CASE wideCall[t].kind = "store"
      BY <1>5, <2>1 DEF Wide!Cell!Applied
    <2>2. CASE wideCall[t].kind # "store"
      BY <1>4, <1>5, <2>2 DEF Found
    <2>. QED  BY <2>1, <2>2
  <1>9. widePc'[t] = "leave"
    BY <1>2, <1>3
  <1>10. FittingAt(t)'
    BY <1>2, <1>4, <1>6, <1>8, <1>9 DEF FittingAt, Fitting, Inside
  <1>11. \A u \in Thread : u # t => widePc'[u] = widePc[u] /\ wideCall'[u] = wideCall[u] /\ wideSeen'[u] = wideSeen[u]
    BY <1>2, <1>3
  <1>12. WideIndInv'
    <2>1. widePc[t] \in Inside
      BY <1>2 DEF Inside
    <2>. QED  BY <1>7, <1>10, <1>11, <2>1, OneInside
  <1>13. UNCHANGED Wide!Cell!cellVars
    BY <1>2, <1>4 DEF Wide!Cell!cellVars
  <1>. QED  BY <1>12, <1>13 DEF WideCellStep

\* The gate is left: here the operation takes effect.
LEMMA WideLeave ==
  ASSUME WideIndInv, NEW t \in Thread, Wide!leave(t)
  PROVE  WideIndInv' /\ WideCellStep
  <1>1. /\ widePc[t] = "leave" /\ gate' = 0 /\ widePc' = [widePc EXCEPT ![t] = "idle"]
        /\ wideCall' = [wideCall EXCEPT ![t] = Wide!Cell!Idle]
        /\ wideAnswer' = [wideAnswer EXCEPT ![t] = IF wideCall[t].kind = "store" THEN 0 ELSE Wide!Whole(wideSeen[t])]
        /\ wideSeen' = [wideSeen EXCEPT ![t] = Wide!Zero]
        /\ UNCHANGED <<mem, before>>
    BY DEF Wide!leave
  <1>2. /\ mem \in Wide!Halves /\ wideSeen \in [Thread -> Wide!Halves]
        /\ widePc \in [Thread -> {"idle", "enter"} \cup Inside]
        /\ wideCall \in [Thread -> Wide!Cell!Operation \cup {Wide!Cell!Idle}]
        /\ wideAnswer \in [Thread -> Wide!Cell!Value]
    BY DEF WideIndInv, Wide!TypeOK, Inside
  <1>3. /\ wideCall[t] \in Wide!Cell!Operation /\ gate = 1 /\ Found(wideCall[t], wideSeen[t], before)
        /\ Wide!Whole(mem) = Wide!Cell!Applied(wideCall[t], before)
    BY <1>1 DEF WideIndInv, FittingAt, Fitting, Inside
  <1>4. Wide!Zero \in Wide!Halves
    BY WideNumbers DEF Wide!Halves, Wide!Zero
  <1>5. 0 \in Wide!Cell!Value
    <2>1. Wide!Whole(Wide!Zero) \in Wide!Cell!Value
      BY <1>4, HalvesFacts
    <2>2. Wide!Whole(Wide!Zero) = 0
      BY WideNumbers DEF Wide!Whole, Wide!Zero
    <2>. QED  BY <2>1, <2>2
  <1>6. Wide!Whole(wideSeen[t]) \in Wide!Cell!Value
    BY <1>2, HalvesFacts
  <1>7. Wide!TypeOK'
    BY <1>1, <1>2, <1>4, <1>5, <1>6 DEF WideIndInv, Wide!TypeOK, Inside
  <1>8. widePc'[t] = "idle" /\ wideCall'[t] = Wide!Cell!Idle
    BY <1>1, <1>2
  <1>9. FittingAt(t)'
    BY <1>8 DEF FittingAt, Fitting, Inside
  <1>10. \A u \in Thread : u # t => widePc'[u] = widePc[u] /\ wideCall'[u] = wideCall[u] /\ wideSeen'[u] = wideSeen[u]
    BY <1>1, <1>2
  <1>11. WideIndInv'
    <2>1. widePc[t] \in Inside
      BY <1>1 DEF Inside
    <2>. QED  BY <1>7, <1>9, <1>10, <2>1, OneInside
  <1>12. Wide!Cell!TakeEffect(t)
    <2>1. wideCall[t] # Wide!Cell!Idle
      BY <1>3, OperationFacts
    <2>2. (IF gate = 1 THEN before ELSE Wide!Whole(mem))' = Wide!Cell!Applied(wideCall[t], before)
      BY <1>1, <1>3 DEF Wide!Whole
    <2>3. Wide!Cell!Answers(wideCall[t], before) = IF wideCall[t].kind = "store" THEN 0 ELSE Wide!Whole(wideSeen[t])
      BY <1>3 DEF Wide!Cell!Answers, Found
    <2>. QED  BY <1>1, <1>3, <2>1, <2>2, <2>3 DEF Wide!Cell!TakeEffect
  <1>13. Wide!Cell!Next
    BY <1>12 DEF Wide!Cell!Next
  <1>. QED  BY <1>11, <1>13 DEF WideCellStep

\* The atomics begin as they should.
LEMMA WideInit == Wide!Init => WideIndInv /\ Wide!Cell!Init
  <1>. SUFFICES ASSUME Wide!Init PROVE WideIndInv /\ Wide!Cell!Init
    OBVIOUS
  <1>1. /\ gate = 0 /\ mem = Wide!Zero /\ before = 0
        /\ wideCall = [t \in Thread |-> Wide!Cell!Idle] /\ widePc = [t \in Thread |-> "idle"]
        /\ wideSeen = [t \in Thread |-> Wide!Zero] /\ wideAnswer = [t \in Thread |-> 0]
    BY DEF Wide!Init
  <1>2. Wide!Zero \in Wide!Halves
    BY WideNumbers DEF Wide!Halves, Wide!Zero
  <1>3. Wide!Whole(Wide!Zero) = 0
    BY WideNumbers DEF Wide!Whole, Wide!Zero
  <1>4. 0 \in Wide!Cell!Value
    BY <1>2, <1>3, HalvesFacts
  <1>5. Wide!TypeOK
    BY <1>1, <1>2, <1>4 DEF Wide!TypeOK
  <1>6. \A t \in Thread : FittingAt(t) /\ widePc[t] \notin Inside
    BY <1>1 DEF FittingAt, Fitting, Inside
  <1>7. Wide!Cell!Init
    BY <1>1, <1>3 DEF Wide!Cell!Init
  <1>. QED  BY <1>5, <1>6, <1>7 DEF WideIndInv

\* A step of the runtime is one of the atomics or leaves them alone.
LEMMA WideStep ==
  ASSUME WideIndInv, [MCNext]_all
  PROVE  WideIndInv' /\ WideCellStep
  <1>1. CASE Wide!Next
    <2>1. PICK t \in Thread :
            \/ \E op \in Wide!Cell!Operation : Wide!Call(t, op)
            \/ Wide!enter(t) \/ Wide!ReadLow(t) \/ Wide!ReadHigh(t)
            \/ Wide!WriteLow(t) \/ Wide!WriteHigh(t) \/ Wide!leave(t)
      BY <1>1 DEF Wide!Next
    <2>. QED  BY <2>1, WideCall, WideEnter, WideReadLow, WideReadHigh, WideWriteLow, WideWriteHigh, WideLeave
  <1>2. CASE UNCHANGED wide
    <2>1. UNCHANGED <<gate, mem, widePc, wideCall, wideSeen, wideAnswer, before>>
      BY <1>2 DEF wide
    <2>2. WideIndInv'
      <3>1. Wide!TypeOK'
        BY <2>1 DEF WideIndInv, Wide!TypeOK
      <3>2. \A t \in Thread : FittingAt(t)'
        BY <2>1 DEF WideIndInv, FittingAt
      <3>. QED  BY <2>1, <3>1, <3>2 DEF WideIndInv
    <2>3. UNCHANGED Wide!Cell!cellVars
      BY <2>1 DEF Wide!Cell!cellVars, Wide!Whole
    <2>. QED  BY <2>2, <2>3 DEF WideCellStep
  <1>. QED  BY <1>1, <1>2 DEF MCNext, all

\* The 128-bit atomics of runtime/atomic.c, half by half under their gate, implement cells on
\* which every operation is indivisible, at any width and for any threads: Indivisible.
THEOREM AtomicsIndivisible == MCSpec => Indivisible
  <1>1. MCInit => WideIndInv /\ Wide!Cell!Init
    BY WideInit DEF MCInit
  <1>2. WideIndInv /\ [MCNext]_all => WideIndInv'
    BY WideStep
  <1>3. WideIndInv /\ [MCNext]_all => [Wide!Cell!Next]_(Wide!Cell!cellVars)
    BY WideStep DEF WideCellStep
  <1>4. WideIndInv => Wide!TypeOK
    BY DEF WideIndInv
  <1>. QED  BY <1>1, <1>2, <1>3, <1>4, PTL DEF MCSpec, Indivisible, Wide!Indivisible, Wide!Cell!Spec
=============================================================================
