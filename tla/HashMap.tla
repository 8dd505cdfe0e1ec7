------------------------------ MODULE HashMap ------------------------------
(***************************************************************************)
(* runtime/container.c, the map: an open-addressing table with linear      *)
(* probing, tombstones, rebuilds, fallible allocation and clone hooks, and *)
(* drop hooks that may panic.                                              *)
(*                                                                         *)
(* A stored value is an instance <<key, g>>, so that two values stored     *)
(* under one key are told apart; a stored key is the key itself.  `owned`  *)
(* is the ledger: the keys and instances handed to the map that no drop    *)
(* hook received and no caller got back.                                   *)
(*                                                                         *)
(* A panic starts an unwind.  It runs deferred statements, which may use   *)
(* the map again, and ends with the map's drop; a second panic aborts the  *)
(* process, so hooks panic only while the phase is "running".              *)
(***************************************************************************)
EXTENDS Integers, FiniteSets, Sequences

CONSTANTS
    Key,
    NoKey,
    Seeds,          \* hash functions: Key -> Nat, one drawn for each table
    MinSlots,       \* 8: the smallest table
    Spare,          \* 8: one slot in Spare is never filled
    Doublings,      \* bound: how often a table can double (INT64_MAX in the code)
    Requests        \* capacities asked for

Gen == 0 .. 2
Instance == Key \X Gen

ASSUME MapAssumption ==
    /\ NoKey \notin Key /\ IsFiniteSet(Key)
    /\ Key \cap Instance = {}       \* the ledger tells keys from values
    /\ Seeds \subseteq [Key -> Nat] /\ Seeds # {}
    /\ MinSlots \in Nat \ {0} /\ Spare \in 2 .. MinSlots
    /\ Doublings \in Nat
    /\ Requests \subseteq Nat

Control == {"empty", "tombstone", "occupied", "value_owed"}

\* A slot; `g` tells which instance of its key's values it holds.
Slot == [ctl : Control, key : Key \cup {NoKey}, g : Gen]
NoSeed == <<>>
EmptySlot == [ctl |-> "empty", key |-> NoKey, g |-> 0]

\* The slot counts of map_slots_for: the smallest, doubled any number of times.
Doubled[i \in Nat] == IF i = 0 THEN MinSlots ELSE 2 * Doubled[i - 1]
SlotCounts == {Doubled[i] : i \in 0 .. Doublings}

VARIABLES
    slots,          \* the table's slots, a function on 0 .. slot_count - 1
    seed,
    occupied,
    tombstones,
    len,
    cap,
    bound,          \* self->allocator != 0
    owned,
    phase,          \* "running", "unwinding" or "ended"
    deferred,       \* deferred code inserted or rebuilt during the unwind
    answer          \* of the last call

table == <<slots, seed, occupied, tombstones>>
vars == <<table, len, cap, bound, owned, phase, deferred, answer>>

slot_count == Cardinality(DOMAIN slots)
NoTable == slot_count = 0

TypeOK ==
    /\ \E n \in {0} \cup SlotCounts : slots \in [0 .. n - 1 -> Slot]
    /\ seed \in Seeds \cup {NoSeed}
    /\ occupied \in Nat /\ tombstones \in Nat /\ len \in Nat /\ cap \in Nat
    /\ bound \in BOOLEAN /\ deferred \in BOOLEAN
    /\ owned \subseteq Key \cup Instance
    /\ phase \in {"running", "unwinding", "ended"}
    /\ answer \in {"ok", "refused", "panicked"}

-----------------------------------------------------------------------------
(* Sizes *)

map_capacity_of(n) == n - n \div Spare

Least(S) == CHOOSE n \in S : \A m \in S : n <= m

\* The slot counts with room for a capacity; map_slots_for answers the least.
SlotsFor(capacity) == {n \in SlotCounts : map_capacity_of(n) >= capacity}

-----------------------------------------------------------------------------
(* Probing *)

\* The slot i steps after a key's home, in a table t of [slots, seed].
Nth(t, k, i) == (t.seed[k] + i) % Cardinality(DOMAIN t.slots)

\* The first slot of k's probe run that is in `stops`, or -1.
FirstIn(t, k, stops) ==
    LET at == {i \in DOMAIN t.slots : Nth(t, k, i) \in stops} IN
    IF at = {} THEN -1 ELSE Nth(t, k, Least(at))

Current == [slots |-> slots, seed |-> seed]

map_probe(k) ==
    LET stop == FirstIn(Current, k, {s \in DOMAIN slots :
                    \/ slots[s].ctl = "empty"
                    \/ slots[s].ctl = "occupied" /\ slots[s].key = k})
    IN  IF stop = -1 THEN -1 ELSE IF slots[stop].ctl = "empty" THEN -1 ELSE stop

\* Where an entry that is not in the table goes.  The loop of map_entry remembers
\* the first tombstone and walks on to a slot that is neither occupied nor that
\* one, then takes whichever it saw first.
FreeSlot(t, k) == FirstIn(t, k, {s \in DOMAIN t.slots : t.slots[s].ctl # "occupied"})

\* Mutant of map_place_moved: an entry goes to its home, whatever lies there.
PlaceAtHome(t, entry) == [t EXCEPT !.slots[Nth(t, entry.key, 0)] = entry]

map_place_moved(t, entry) == [t EXCEPT !.slots[FreeSlot(t, entry.key)] = entry]

\* A fresh table of n slots with every live entry of the old one, in slot order.
Rebuilt(n, s) ==
    LET fresh == [slots |-> [i \in 0 .. n - 1 |-> EmptySlot], seed |-> s]
        moved[i \in 0 .. slot_count] ==      \* once the slots below i have moved
            IF i = 0 THEN fresh
            ELSE IF slots[i - 1].ctl = "occupied" THEN map_place_moved(moved[i - 1], slots[i - 1])
            ELSE moved[i - 1]
    IN  moved[slot_count]

\* The cursor after the next entry of an iteration, or 0 at its end.
map_scan(cursor) ==
    LET at == {s \in DOMAIN slots : s >= cursor /\ slots[s].ctl = "occupied"}
    IN  IF at = {} THEN 0 ELSE Least(at) + 1

-----------------------------------------------------------------------------
(* Calls *)

Unwinding == phase = "unwinding"
Refuse == answer' = "refused" /\ UNCHANGED <<table, len, cap, owned, phase, deferred>>
Panic == phase = "running" /\ phase' = "unwinding" /\ answer' = "panicked"
Stay == UNCHANGED <<table, len, cap, owned, phase, deferred>> /\ answer' = "ok"

\* The live entries move to a table of n slots, under a seed of its own.
Replace(n) ==
    /\ \E s \in Seeds : LET t == Rebuilt(n, s) IN slots' = t.slots /\ seed' = s
    /\ occupied' = occupied /\ tombstones' = 0
    /\ cap' = map_capacity_of(n)
    /\ deferred' = (deferred \/ Unwinding)
    /\ answer' = "ok"
    /\ UNCHANGED <<len, owned, phase>>

Reserve(n) ==
    /\ phase # "ended"
    /\ bound' = TRUE
    /\ LET room == SlotsFor(IF n < len THEN len ELSE n) IN
       IF n <= cap /\ (~NoTable \/ n = 0) THEN Stay
       ELSE Refuse \/ (room # {} /\ Replace(Least(room)))

Shrink(n) ==
    /\ phase # "ended"
    /\ LET want == IF len < n THEN n ELSE len
           fit == Least(SlotsFor(want))
           to == IF fit > slot_count THEN slot_count ELSE fit
       IN  IF NoTable THEN Stay
           ELSE IF SlotsFor(want) = {} THEN Refuse
           ELSE IF to = slot_count /\ tombstones = 0 THEN Stay
           ELSE Refuse \/ Replace(to)
    /\ UNCHANGED bound

-----------------------------------------------------------------------------
(* map_entry, and the caller's commit of the value it was called for *)

\* Mutant of NeedsRebuild: counts the live entries only.
NeedsRebuildByLen == NoTable \/ len + 1 > cap

NeedsRebuild ==
    NoTable \/ len + 1 > cap \/ occupied + tombstones + 1 > map_capacity_of(slot_count)

\* Rebuilding never halves the table, and never leaves it half full.
RebuildCounts ==
    LET room == SlotsFor(len + 1) IN
    {n \in SlotCounts : n \in room /\ n >= slot_count /\ n \div 2 > len}

Fresh(k) == {g \in Gen : <<k, g>> \notin owned}

\* The new entry takes its slot in t, which is a rebuilt table if `moved`.
Publish(t, k, moved) ==
    LET at == FreeSlot(t, k) IN
    /\ slots' = [t.slots EXCEPT ![at] = [ctl |-> "occupied", key |-> k, g |-> Least(Fresh(k))]]
    /\ seed' = t.seed
    /\ tombstones' = IF moved THEN 0
                     ELSE IF t.slots[at].ctl = "tombstone" THEN tombstones - 1 ELSE tombstones
    /\ occupied' = occupied + 1

Insert(k) ==
    /\ phase # "ended" /\ Fresh(k) # {}
    /\ LET at == map_probe(k)
           g == Least(Fresh(k))
       IN
       \/ \* the key is there: the caller drops the old value for the new one
          /\ at # -1
          /\ slots' = [slots EXCEPT ![at].g = g]
          /\ owned' = (owned \ {<<k, slots[at].g>>}) \cup {<<k, g>>}
          /\ answer' = "ok"
          /\ UNCHANGED <<seed, occupied, tombstones, len, cap, bound, phase, deferred>>
       \/ \* allocation or the key's clone fails
          at = -1 /\ Refuse /\ UNCHANGED bound
       \/ \* the key's copy hook panics: nothing is published yet
          at = -1 /\ Panic /\ UNCHANGED <<table, len, cap, bound, owned, deferred>>
       \/ /\ at = -1
          /\ IF NeedsRebuild
             THEN /\ RebuildCounts # {}
                  /\ \E s \in Seeds : Publish(Rebuilt(Least(RebuildCounts), s), k, TRUE)
                  /\ cap' = map_capacity_of(Least(RebuildCounts))
             ELSE Publish(Current, k, FALSE) /\ UNCHANGED cap
          /\ len' = len + 1
          /\ bound' = TRUE
          /\ owned' = owned \cup {k, <<k, g>>}
          /\ deferred' = (deferred \/ Unwinding)
          /\ answer' = "ok"
          /\ UNCHANGED phase

-----------------------------------------------------------------------------
(* map_remove, map_clear, map_drop: the calls that run drop hooks *)

\* What an entry leaves behind; its old bytes are never read again.
Tombstone == [ctl |-> "tombstone", key |-> NoKey, g |-> 0]

\* Mutant of PanicLeaves: the value is forgotten before the key's hook runs.
PanicLeavesNothing(s, hook) == Tombstone

\* What a slot says when a hook of its entry panics.
PanicLeaves(s, hook) ==
    IF hook = "key" THEN [slots[s] EXCEPT !.ctl = "value_owed"] ELSE Tombstone

\* What the hooks have been given of slot s when hook `hook` has been called.
GivenUpTo(s, hook) ==
    (IF slots[s].ctl = "occupied" THEN {slots[s].key} ELSE {})
    \cup (IF hook = "elem" THEN {<<slots[s].key, slots[s].g>>} ELSE {})

Holding == {s \in DOMAIN slots : slots[s].ctl \in {"occupied", "value_owed"}}
Entries(S) == Cardinality({s \in S : slots[s].ctl = "occupied"})

\* Which hooks run for the entry of a slot.
Hooks(s) == IF slots[s].ctl = "occupied" THEN {"key", "elem"} ELSE {"elem"}

Lose(n) == occupied' = occupied - n /\ len' = len - n

Remove(k) ==
    /\ phase # "ended"
    /\ LET at == map_probe(k) IN
       \/ at = -1 /\ Stay
       \/ /\ at # -1
          /\ Lose(1) /\ tombstones' = tombstones + 1
          /\ UNCHANGED <<seed, cap, deferred>>
          /\ \/ /\ slots' = [slots EXCEPT ![at] = Tombstone]
                /\ owned' = owned \ {k, <<k, slots[at].g>>}   \* the value moves out
                /\ answer' = "ok" /\ UNCHANGED phase
             \/ /\ slots' = [slots EXCEPT ![at] = PanicLeaves(at, "key")]
                /\ owned' = owned \ {k}
                /\ Panic
    /\ UNCHANGED bound

\* A hook of slot s panics while every entry is being dropped, in slot order.
DropPanics(s, hook) ==
    LET below == {i \in Holding : i < s}
        n == Entries(below \cup {s})
    IN  /\ slots' = [i \in DOMAIN slots |->
                        IF i \in below THEN Tombstone
                        ELSE IF i = s THEN PanicLeaves(s, hook) ELSE slots[i]]
        /\ Lose(n) /\ tombstones' = tombstones + n
        /\ owned' = owned \ (GivenUpTo(s, hook) \cup UNION {GivenUpTo(i, "elem") : i \in below})
        /\ Panic
        /\ UNCHANGED <<seed, cap, bound, deferred>>

AllGiven == UNION {GivenUpTo(i, "elem") : i \in Holding}

Clear ==
    /\ phase # "ended" /\ ~NoTable
    /\ \/ \E s \in Holding : \E hook \in Hooks(s) : DropPanics(s, hook)
       \/ /\ slots' = [s \in DOMAIN slots |-> EmptySlot]
          /\ occupied' = 0 /\ tombstones' = 0 /\ len' = 0
          /\ owned' = owned \ AllGiven
          /\ answer' = "ok"
          /\ UNCHANGED <<seed, cap, bound, phase, deferred>>

\* The zero map stays usable, unless this is the drop that ends an unwind.
Drop ==
    /\ phase # "ended"
    /\ \/ \E s \in Holding : \E hook \in Hooks(s) : DropPanics(s, hook)
       \/ /\ slots' = <<>> /\ seed' = NoSeed /\ occupied' = 0 /\ tombstones' = 0
          /\ len' = 0 /\ cap' = 0 /\ bound' = FALSE
          /\ owned' = owned \ AllGiven
          /\ phase' = IF Unwinding THEN "ended" ELSE phase
          /\ answer' = "ok"
          /\ UNCHANGED deferred

\* map_clone, after which the clone takes the place of the map, which is dropped.
\* An owed value stays the source's; an empty map clones to no table.  A hook that
\* panics while the clone is made leaves the map alone.  (The hooks of the map's
\* own drop do not panic here: Drop has that case.)
CloneAndDrop ==
    /\ phase # "ended"
    /\ \/ len > 0 /\ Refuse /\ UNCHANGED bound
       \/ len > 0 /\ Panic /\ UNCHANGED <<table, len, cap, bound, owned, deferred>>
       \/ /\ len > 0
          /\ \A s \in Holding : Fresh(slots[s].key) # {}
          /\ slots' = [s \in DOMAIN slots |->
                        CASE slots[s].ctl = "occupied" ->
                                [slots[s] EXCEPT !.g = Least(Fresh(slots[s].key))]
                          [] slots[s].ctl = "value_owed" -> Tombstone
                          [] OTHER -> slots[s]]
          /\ owned' = (owned \ {<<slots[s].key, slots[s].g>> : s \in Holding})
                      \cup {<<slots[s].key, Least(Fresh(slots[s].key))>> :
                                s \in {i \in Holding : slots[i].ctl = "occupied"}}
          /\ bound' = TRUE /\ answer' = "ok"
          /\ UNCHANGED <<seed, occupied, tombstones, len, cap, phase, deferred>>
       \/ /\ len = 0
          /\ slots' = <<>> /\ seed' = NoSeed /\ occupied' = 0 /\ tombstones' = 0 /\ cap' = 0
          /\ owned' = owned \ AllGiven
          /\ bound' = TRUE /\ answer' = "ok"
          /\ UNCHANGED <<len, phase, deferred>>

-----------------------------------------------------------------------------
Init ==
    /\ slots = <<>> /\ seed = NoSeed /\ occupied = 0 /\ tombstones = 0
    /\ len = 0 /\ cap = 0 /\ bound = FALSE
    /\ owned = {} /\ phase = "running" /\ deferred = FALSE /\ answer = "ok"

Next ==
    \/ \E n \in Requests : Reserve(n) \/ Shrink(n)
    \/ \E k \in Key : Insert(k) \/ Remove(k)
    \/ Clear \/ Drop \/ CloneAndDrop

Spec == Init /\ [][Next]_vars

-----------------------------------------------------------------------------
(* What the map owes its users. *)

\* A probe finds exactly the keys the table holds, and each in one slot only,
\* after any mix of removals, reused tombstones, rebuilds and panics.
FindAgrees ==
    \A k \in Key :
        LET holding == {s \in DOMAIN slots : slots[s].ctl = "occupied" /\ slots[s].key = k} IN
        IF holding = {} THEN map_probe(k) = -1 ELSE holding = {map_probe(k)}

\* An empty slot is left, so the insertion loop of map_entry and a probe for an
\* absent key stop.
EmptyRemains == NoTable \/ \E s \in DOMAIN slots : slots[s].ctl = "empty"

\* The counters that decide about rebuilds match the control bytes.  Deferred
\* code that reuses an owed slot can only make `tombstones` too large.
CountersMatch ==
    LET vacated == Cardinality({s \in DOMAIN slots :
                                    slots[s].ctl \in {"tombstone", "value_owed"}})
    IN  /\ occupied = Entries(DOMAIN slots) /\ len = occupied
        /\ IF deferred THEN tombstones >= vacated ELSE tombstones = vacated
        /\ len <= cap /\ cap = map_capacity_of(slot_count)

\* An iteration meets every entry find would, each once, and no vacated slot: as
\* many as the length says, also while a panic in a drop hook unwinds.
ScanVisitsEach ==
    LET walk[cursor \in 0 .. slot_count] ==
            IF map_scan(cursor) = 0 THEN <<>>
            ELSE <<slots[map_scan(cursor) - 1].key>> \o walk[map_scan(cursor)]
        visited == walk[0]
    IN  /\ Len(visited) = len
        /\ {visited[i] : i \in 1 .. Len(visited)} = {k \in Key : map_probe(k) # -1}

\* The keys and values some slot says the map still has to drop.
Held == UNION {GivenUpTo(s, "elem") : s \in Holding}

\* No slot claims a key or value that a drop hook or a caller already has:
\* nothing is dropped twice, whichever hook panics.
NoDoubleDrop == Held \subseteq owned

\* The map's invariant: every counter, probe and iteration agrees with the slots, and
\* no hook is owed what it already got.
Inv == TypeOK /\ FindAgrees /\ EmptyRemains /\ CountersMatch /\ ScanVisitsEach /\ NoDoubleDrop

\* Everything handed to the map is still claimed by a slot, so the map's drop
\* finishes what a panicking hook left, unless deferred code inserts or rebuilds
\* during the unwind.
NothingLost == ~deferred => owned \subseteq Held

\* container.c: "Whichever hook panics, the slot then says exactly what is still
\* owed, and a later drop of the map finishes the entry".
OwedIsFinished == owned \subseteq Held

\* The table implements a function from keys to values.
Abstract == INSTANCE AbstractMap WITH
    contents <- LET live == {s \in DOMAIN slots : slots[s].ctl = "occupied"} IN
                [k \in {slots[s].key : s \in live} |->
                    LET s == CHOOSE i \in live : slots[i].key = k IN <<k, slots[s].g>>]
ImplementsMap == Abstract!Spec

=============================================================================
