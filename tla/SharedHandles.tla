--------------------------- MODULE SharedHandles ---------------------------
(***************************************************************************)
(* base/runtime/shared.loke: the strong and weak handles of one shared     *)
(* value, on many threads.  Every atomic operation on a count is a step.   *)
(*                                                                         *)
(* Memory order: seen[t] is the set of threads whose last use of the       *)
(* payload happens before what t does next, and rel_strong, rel_weak what  *)
(* a thread learns by acquiring from a count.  A relaxed operation neither *)
(* gives nor takes; read-modify-writes keep what earlier releases gave.    *)
(***************************************************************************)
EXTENDS Integers, FiniteSets

CONSTANTS
    Thread,
    Handle,         \* bound: the handles that exist at one time
    Payload         \* the place of a weak handle kept inside the payload

ASSUME SharedAssumption == IsFiniteSet(Handle) /\ Payload \notin Thread

VARIABLES
    block,              \* "none", "made" or "freed"
    strong, weak, live, \* Shared_Block
    kind, at,           \* of each handle: what it is and who holds it
    pc, held,           \* of each thread: where it is, and the count `upgrade` loaded
    unwinding,          \* the threads that panicked
    running,            \* FALSE once a panic has ended the process
    drops, frees,       \* how often the payload was dropped and the block freed
    seen, rel_strong, rel_weak

counts == <<block, strong, weak, live>>
handles == <<kind, at>>
ends == <<unwinding, running, drops, frees>>
memory == <<seen, rel_strong, rel_weak>>
vars == <<counts, handles, pc, held, ends, memory>>

Points == {"idle", "loading", "swapping", "last", "taking", "dropping", "returning", "lastweak", "freeing"}

TypeOK ==
    /\ block \in {"none", "made", "freed"} /\ live \in BOOLEAN
    /\ strong \in Nat /\ weak \in Nat
    /\ kind \in [Handle -> {"unused", "strong", "weak"}]
    /\ at \in [Handle -> Thread \cup {Payload}]
    /\ pc \in [Thread -> Points] /\ held \in [Thread -> Nat]
    /\ unwinding \in SUBSET Thread /\ running \in BOOLEAN
    /\ drops \in Nat /\ frees \in Nat
    /\ seen \in [Thread -> SUBSET Thread]
    /\ rel_strong \in SUBSET Thread /\ rel_weak \in SUBSET Thread

Of(k) == {h \in Handle : kind[h] = k}
Holds(t, k) == \E h \in Of(k) : at[h] = t

\* A new handle of kind k for thread t, which must be within the bound.
Gain(t, k) ==
    \E h \in Of("unused") : kind' = [kind EXCEPT ![h] = k] /\ at' = [at EXCEPT ![h] = t]

Lose(t, k) ==
    \E h \in Of(k) : /\ at[h] = t
                     /\ kind' = [kind EXCEPT ![h] = "unused"] /\ at' = [at EXCEPT ![h] = Payload]

Idle(t) == running /\ pc[t] = "idle"
Go(t, p) == pc' = [pc EXCEPT ![t] = p]
Acquire(t, rel) == seen' = [seen EXCEPT ![t] = @ \cup rel]

\* t touches the payload: no one else, and nothing released, knows of it yet.
Touch(t) ==
    /\ seen' = [u \in Thread |-> IF u = t THEN seen[u] \cup {t} ELSE seen[u] \ {t}]
    /\ rel_strong' = rel_strong \ {t} /\ rel_weak' = rel_weak \ {t}

-----------------------------------------------------------------------------
(* Strong handles *)

\* try_shared_from_move; a refused allocation changes nothing.
New(t) ==
    /\ Idle(t) /\ block = "none"
    /\ block' = "made" /\ strong' = 1 /\ weak' = 1 /\ live' = TRUE
    /\ Gain(t, "strong") /\ Touch(t)
    /\ UNCHANGED <<pc, held, ends>>

\* get, and a use of the payload through it.
Use(t) ==
    /\ Idle(t) /\ Holds(t, "strong")
    /\ Touch(t)
    /\ UNCHANGED <<counts, handles, pc, held, ends>>

share(t) ==
    /\ Idle(t) /\ Holds(t, "strong")
    /\ Gain(t, "strong") /\ strong' = strong + 1
    /\ UNCHANGED <<block, weak, live, pc, held, ends, memory>>

downgrade(t) ==
    /\ Idle(t) /\ Holds(t, "strong")
    /\ Gain(t, "weak") /\ weak' = weak + 1
    /\ UNCHANGED <<block, strong, live, pc, held, ends, memory>>

\* The program moves a handle to another thread, which synchronizes the two.
Give(t, u) ==
    /\ Idle(t) /\ t # u
    /\ \E h \in Handle : kind[h] # "unused" /\ at[h] = t /\ at' = [at EXCEPT ![h] = u]
    /\ Acquire(u, seen[t])
    /\ UNCHANGED <<counts, kind, pc, held, ends, rel_strong, rel_weak>>

\* The program stores a weak handle inside the payload, as a child does of its parent.
Keep(t) ==
    /\ Idle(t) /\ Holds(t, "strong")
    /\ \E h \in Of("weak") : at[h] = t /\ at' = [at EXCEPT ![h] = Payload]
    /\ Touch(t)
    /\ UNCHANGED <<counts, kind, pc, held, ends>>

\* Shared.release up to its decrement.
ReleaseStrong(t) ==
    /\ Idle(t)
    /\ Lose(t, "strong") /\ strong' = strong - 1
    /\ rel_strong' = rel_strong \cup seen[t]
    /\ Go(t, IF strong = 1 THEN "last" ELSE "idle")
    /\ UNCHANGED <<block, weak, live, held, ends, seen, rel_weak>>

Fence(t) ==
    /\ running /\ pc[t] = "last" /\ Go(t, "taking")
    /\ Acquire(t, rel_strong)
    /\ UNCHANGED <<counts, handles, held, ends, rel_strong, rel_weak>>

TakePayload(t) ==
    /\ running /\ pc[t] = "taking" /\ Go(t, "dropping")
    /\ live' = FALSE /\ Touch(t)
    /\ UNCHANGED <<block, strong, weak, handles, held, ends>>

\* A weak handle inside the payload is dropped with it: release_block within release.
DropKept(t) ==
    /\ running /\ pc[t] = "dropping"
    /\ Lose(Payload, "weak") /\ weak' = weak - 1
    /\ rel_weak' = rel_weak \cup seen[t]
    /\ Go(t, IF weak = 1 THEN "lastweak" ELSE "dropping")
    /\ UNCHANGED <<block, strong, live, held, ends, seen, rel_strong>>

\* Mutant of DropPayload: nothing gives the group's weak reference back on unwinding.
DropPayloadNoDefer(t) ==
    /\ running /\ pc[t] = "dropping"
    /\ drops' = drops + 1
    /\ \/ ~Holds(Payload, "weak") /\ Go(t, "returning") /\ UNCHANGED <<unwinding, running>>
       \/ t \notin unwinding /\ unwinding' = unwinding \cup {t} /\ Go(t, "idle") /\ UNCHANGED running
       \/ t \in unwinding /\ running' = FALSE /\ UNCHANGED <<pc, unwinding>>
    /\ UNCHANGED <<counts, handles, held, frees, memory>>

\* The payload's drop hook returns; or it panics, and `defer` still runs; or it
\* panics in a thread already unwinding, and the process ends.
DropPayload(t) ==
    /\ running /\ pc[t] = "dropping"
    /\ drops' = drops + 1
    /\ \/ ~Holds(Payload, "weak") /\ Go(t, "returning") /\ UNCHANGED <<unwinding, running>>
       \/ t \notin unwinding /\ unwinding' = unwinding \cup {t} /\ Go(t, "returning") /\ UNCHANGED running
       \/ t \in unwinding /\ running' = FALSE /\ UNCHANGED <<pc, unwinding>>
    /\ UNCHANGED <<counts, handles, held, frees, memory>>

-----------------------------------------------------------------------------
(* Weak handles.  A nil handle has no block, and its operations do nothing. *)

\* A load that returned an older count would only make the compare-exchange fail.
UpgradeLoad(t) ==
    /\ running /\ pc[t] \in {"idle", "loading"} /\ Holds(t, "weak")
    /\ Acquire(t, rel_strong)
    /\ held' = [held EXCEPT ![t] = strong]
    /\ Go(t, IF strong = 0 THEN "idle" ELSE "swapping")
    /\ UNCHANGED <<counts, handles, ends, rel_strong, rel_weak>>

\* Mutant of UpgradeSwap: an increment of its own, after the test.
UpgradeAdd(t) ==
    /\ running /\ pc[t] = "swapping"
    /\ Gain(t, "strong") /\ strong' = strong + 1
    /\ Go(t, "idle") /\ Acquire(t, rel_strong)
    /\ UNCHANGED <<block, weak, live, held, ends, rel_strong, rel_weak>>

\* The compare-exchange: increment what was loaded, or load again.
UpgradeSwap(t) ==
    /\ running /\ pc[t] = "swapping"
    /\ Acquire(t, rel_strong) /\ held' = [held EXCEPT ![t] = 0]
    /\ \/ /\ strong = held[t]
          /\ Gain(t, "strong") /\ strong' = strong + 1
          /\ rel_strong' = rel_strong \cup seen[t]
          /\ Go(t, "idle")
       \/ /\ strong # held[t]
          /\ Go(t, "loading")
          /\ UNCHANGED <<strong, handles, rel_strong>>
    /\ UNCHANGED <<block, weak, live, ends, rel_weak>>

keep(t) ==
    /\ Idle(t) /\ Holds(t, "weak")
    /\ Gain(t, "weak") /\ weak' = weak + 1
    /\ UNCHANGED <<block, strong, live, pc, held, ends, memory>>

\* Mutant of release_block: the decrement is relaxed.
ReleaseBlockRelaxed(t) ==
    /\ weak' = weak - 1
    /\ Go(t, IF weak = 1 THEN "lastweak" ELSE "idle")
    /\ UNCHANGED <<block, strong, live, held, ends, memory>>

\* release_block up to its decrement, for the group and for a weak handle.
release_block(t) ==
    /\ weak' = weak - 1
    /\ rel_weak' = rel_weak \cup seen[t]
    /\ Go(t, IF weak = 1 THEN "lastweak" ELSE "idle")
    /\ UNCHANGED <<block, strong, live, held, ends, seen, rel_strong>>

ReturnGroup(t) == running /\ pc[t] = "returning" /\ release_block(t) /\ UNCHANGED handles
ReleaseWeak(t) == Idle(t) /\ Lose(t, "weak") /\ release_block(t)

FenceWeak(t) ==
    /\ running /\ pc[t] = "lastweak" /\ Go(t, "freeing")
    /\ Acquire(t, rel_weak)
    /\ UNCHANGED <<counts, handles, held, ends, rel_strong, rel_weak>>

Free(t) ==
    /\ running /\ pc[t] = "freeing" /\ Go(t, "idle")
    /\ block' = "freed" /\ frees' = frees + 1
    /\ UNCHANGED <<strong, weak, live, handles, held, unwinding, running, drops, memory>>

\* A thread that panicked has run its cleanups, and the process ends.
Abort(t) ==
    /\ Idle(t) /\ t \in unwinding
    /\ running' = FALSE
    /\ UNCHANGED <<counts, handles, pc, held, unwinding, drops, frees, memory>>

-----------------------------------------------------------------------------
Init ==
    /\ block = "none" /\ strong = 0 /\ weak = 0 /\ live = FALSE
    /\ kind = [h \in Handle |-> "unused"] /\ at = [h \in Handle |-> Payload]
    /\ pc = [t \in Thread |-> "idle"] /\ held = [t \in Thread |-> 0]
    /\ unwinding = {} /\ running = TRUE /\ drops = 0 /\ frees = 0
    /\ seen = [t \in Thread |-> Thread] /\ rel_strong = Thread /\ rel_weak = Thread

Next == \E t \in Thread :
    \/ New(t) \/ Use(t) \/ share(t) \/ downgrade(t) \/ Keep(t) \/ ReleaseStrong(t)
    \/ Fence(t) \/ TakePayload(t) \/ DropKept(t) \/ DropPayload(t)
    \/ UpgradeLoad(t) \/ UpgradeSwap(t) \/ keep(t) \/ ReturnGroup(t) \/ ReleaseWeak(t)
    \/ FenceWeak(t) \/ Free(t) \/ Abort(t)
    \/ \E u \in Thread : Give(t, u)

Spec == Init /\ [][Next]_vars

-----------------------------------------------------------------------------
Dropping == {t \in Thread : pc[t] \in {"last", "taking", "dropping", "returning"}}

\* The counts are exact through every race of upgrades, copies and releases: strong
\* is the strong handles, weak the weak ones plus one for the strong handles as a
\* group, given back by the thread that drops the payload, and by only one.
HandlesCounted ==
    /\ strong = Cardinality(Of("strong"))
    /\ weak = Cardinality(Of("weak")) + Cardinality(Dropping) + (IF strong > 0 THEN 1 ELSE 0)
    /\ Cardinality(Dropping) + (IF strong > 0 THEN 1 ELSE 0) \leq 1

\* A strong handle reaches a payload that is there, a weak one and an operation
\* under way a block that is allocated: no upgrade brings a dropped value back.
HandlesReach ==
    /\ Of("strong") # {} => live /\ block = "made"
    /\ Of("weak") # {} => block = "made"
    /\ \A t \in Thread : pc[t] # "idle" => block = "made"
    /\ drops + frees \leq 2 /\ (drops = 1 => ~live) /\ (frees = 1 <=> block = "freed")

\* The handles' invariant: the counts are exact, and what a handle names is there.
Inv == TypeOK /\ HandlesCounted /\ HandlesReach

\* The thread that takes the payload out sees what every other thread did with it,
\* and the thread that frees the block sees the payload taken out: the releases and
\* fences order them although the increments are relaxed.
DestroyedAfterUse == \A t \in Thread : pc[t] \in {"taking", "freeing"} => seen[t] = Thread

\* When the last handle is gone and no release is under way, the payload was dropped
\* once and the block freed once, a panicking drop hook included.
NothingLeaks ==
    block # "none" /\ Of("unused") = Handle /\ (\A t \in Thread : pc[t] = "idle")
        => drops = 1 /\ frees = 1 /\ ~live

=============================================================================
