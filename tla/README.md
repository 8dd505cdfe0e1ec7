# A TLA+ model of the Loke runtime and its concurrent library

Loke is a systems language. Its repository holds a compiler (`src/`, Odin), a
small C runtime that every compiled program links (`runtime/`), a base and a core
library written in Loke (`base/`, `core/`), a language server, tests and
documents. This project models the parts of it that keep state and that a test
hardly exhausts: the queues, the pool and the threads of `core/thread`, the
one-time initialization of `core/sync`, the shared handles of `base/runtime`, and the
C runtime's allocators, containers, strings, panics, atomics and spellings. Paths below are relative to the
repository.

## 1. Inventory

| component | state | operations | what makes it hard | what makes it correct |
|---|---|---|---|---|
| Ring, `core/thread/ring.loke` | slots, atomic head and tail, two "gone" flags; each endpoint caches the other's index | `split`, `try_send`, `try_receive`, drop of either endpoint, drop of the ring | two threads without a lock; plain slot writes ordered by acquire/release; stale caches; items whose drop panics | no slot race, FIFO without loss, answers justified, nothing left undropped |
| Channel, `core/thread/channel.loke` over Monitor, `core/thread/thread.loke` | ring of options, endpoint counts, closed flags; a lock and a condition variable | `split`, `fork`, `send`, `try_send`, `receive`, `try_receive`, `close`, drops | many threads; wake after unlock; last drop closes; spurious wakeups | no lost wakeup, exact counts, end of stream final, waits end |
| Arena, `runtime/arena.c` | chain of blocks, bump offsets, parent allocator | `alloc`, `resize`, `free`, `reset`, drop; growing or in a fixed buffer | 64-bit address arithmetic, alignment padding, "is this the top allocation", refusing parent | live allocations disjoint and inside blocks, parent's ledger exact |
| Map, `runtime/container.c` | open-addressing table, control bytes, counters, allocator binding | find, entry, insert, remove, clear, reserve, shrink, clone, drop, scan | tombstones, rebuilds, refused memory, hooks that panic half-way through an entry | probes agree with contents, an empty slot remains, each key and value dropped once |
| Dynamic array, `runtime/container.c` | data, len, cap, allocator binding | append, insert, pop, remove, truncate, resize, reserve, shrink, clone, drop | sources inside the array, copies refused part-way, hooks that panic | insertion is a splice, a refusal changes nothing, the length says what is owed |
| Allocator dispatch, `runtime/alloc.c` | selected provider, init state, per-thread note of the last refusal | publish, init begin/end, alloc, resize, free, take/restore refusal, fail | the note outlives the request it is about | a report names the request that failed; a free reaches the provider that served it |
| Once and Lazy, `core/sync/sync.loke` | one word; one process-wide wait queue | `do`, `is_done`, `get` | spin then sleep against store then wake; panicking action poisons | action runs once, waiters leave, poison reaches them |
| Shared and Weak, `base/runtime/shared.loke` | strong and weak counts, payload | share, downgrade, upgrade, keep, releases | upgrade against last release, panicking payload drop | payload dropped once, block freed once and after its last use |
| Pool and Task_Scope, `core/thread/pool.loke`, `thread.loke` | task queue, scopes with pending counts, workers | init, submit, wait_for, run, stop | helping joins of nested blocks, wakes, scope lifetime | joins end, no task runs after its scope |
| Mutex and Thread, `core/thread/thread.loke` | lock word; thread handle | lock, try_lock, spawn, join | failed thread creation | argument dropped once |
| Panic, `runtime/panic.c` | per-thread frame list and panicking flag | push, pop, begin, end, attach | panic during unwinding | cleanups run newest first, once |
| 128-bit atomics, `runtime/atomic.c` | one global spin lock | load, store, exchange, compare-exchange, arithmetic | ordering against native atomics | operations are atomic |
| Text, `runtime/text.c`, `args.c` | reference-counted blocks | from bytes, clone, concatenate, retain, release; decode, encode, compare, convert arguments | relaxed retains against the last release; edges of the encoding | blocks freed once, whole and after every use; exact on every text |
| Sort, `runtime/container.c` | the array between two comparisons | `sort`, `sort_by` | comparators that lie or panic; heap sort reached rarely | a sorted permutation; a permutation within bounds whatever the comparator answers |
| Formatting, `runtime/format.c` | a cached numeric locale | spell integers, floats, quoted text | the race for the locale; shortest digits at powers of two | one locale; spellings denote their values |
| Argument access, CPU detection, trace printing | none beyond a call | | | |
| Compiler, language server, other core libraries | a batch translation; open documents; sequential library code | | size | out of scope, see section 7 |

How they meet: generated code and library code allocate through the dispatch of
`alloc.c`, which calls a provider's record (an arena is one); containers bind an
allocator at their first allocation; container drops call element hooks, which
may panic; a panic unwinds through the frame list, running deferred statements
and drops, and a second panic aborts. The thread library uses the system's SRW
locks and condition variables, and endpoint drops run on unwinding as well.

## 2. Plan

Order, most important behaviour first. Done are 1 to 12.

1. `Ring` with `BoundedQueue` as its abstract specification, and `RingProofs`.
2. `Arena` with `Allocator` as its abstract specification.
3. `HashMap` with `AbstractMap`.
4. `DynamicArray`.
5. `Channel` (over the Monitor).
6. `Once` (and Lazy).
7. `SharedHandles`.
8. `Pool`, and `Threads` for spawned threads and the blocks without a pool.
9. `AllocDispatch`.
10. `PanicFrames`; `Atomic128` with `WideCell` as its abstract specification;
    `StringStore`; `NumericLocale`.
11. The algorithms: `Sort`, `Utf8`, `Spelling`.
12. Proofs (section 6): the invariants of every state machine, the sort included, and the refinements
    `ImplementsQueue`, `ImplementsAllocator`, `ImplementsMap` and `Indivisible`.
13. Candidates for further modules: the deque and the index set of
    `core/container`.

## 3. Modules

**Ring** splits `try_send` and `try_receive` into their shared-memory accesses:
`SendBegin`, `SendLoadGone` (the flag and the test of the cached head),
`SendLoadHead`, `SendReloadGone`, `SendWrite`, `SendPublish`, and likewise
`ReceiveBegin`, `ReceiveLoadTail`, `ReceiveLoadGone`, `ReceiveReloadTail`,
`ReceiveTake`, `ReceivePublish`. `SenderDrop` and `ReceiverDrop` are the drop hooks,
`DrainBegin`, `DropQueued`, `DrainEnd` the ring's own drop, where an item's drop
may panic and the deferred second pass goes on. Memory: head and tail are logs of
stores. With `Stale = TRUE` a load returns any logged value not older than what the
thread already knows; knowing a store implies knowing what came before it. That is
the acquire/release contract of the code's `Memory_Order` arguments. `put` and
`took` in a slot number its sends and takes so that "happens before" is a predicate.

**BoundedQueue** is what the ring promises: at most `Capacity` items, FIFO, and every
answer justified by a state during the call (`full` and `empty` at some moment of
it, `closed` only after the other end's drop, and not `full` or an acceptance when
the receiver was gone before the call began).

**Channel** has one action per operation. The lock and the work under it are one
step (`Enter`), since nothing reads the state without the lock; the unlock
(`Unlock`) and the wake after it (`WakeAll`) are steps of their own, as
`Monitor_Guard.unlock` does them. `changed` is the guard's flag: `Hold(t, TRUE)` where
the code calls `get`. A sleep releases the lock and joins the sleepers at once
(the contract of `SleepConditionVariableSRW`) and may end spuriously (`Spurious`).
`own` counts the endpoints each thread holds; a forked or split endpoint may go to
any thread. A second `split`, which panics, changes nothing.

**Arena** keeps blocks newest first with their bump offset, and `lent`, the parent's
ledger. All address arithmetic is modulo `Word`. `Alloc` bumps the newest block or
grows; `Obtain` includes the parent's refusal and the retry; `Resize` covers
shrinking and growing in place at the top, moving, and failing; `OpenFixed` covers
buffers that are too small. **Allocator** states what any provider owes its callers.

**HashMap** models the control bytes, the probe, the tombstone and owed states, the
rebuild conditions and the two-hook drop of an entry, hash functions being chosen
from a set at each rebuild as the seed is in the code. `owned` is a ledger of keys
and values not yet dropped. After a panic, deferred code may call the map again
(`phase = "unwinding"`), until the map's drop. `map_scan` is the iteration. **AbstractMap** is a finite function.

**DynamicArray** models the growth rule, the regrow and shift of insertion, the
rollback when a copy is refused, aliasing sources, and panics in copy and drop
hooks, with a ledger of instances per value.

**SharedHandles** makes every atomic operation on the two counts of a shared block a
step: the increments of `share` and `downgrade`, `UpgradeLoad` and `UpgradeSwap` (the
compare-exchange loop), the decrement of a release, its acquire fence, the taking of the
payload, its drop (which may panic, and may drop a weak handle kept in the payload
itself), the return of the strong group's weak reference, and the freeing. `seen` and
`rel_strong`, `rel_weak` carry "happens before": a release puts what the thread has seen
into the count, an acquire takes it out, a relaxed increment does neither.

**Once** follows `do` through its first load, the swap, the spinning reloads, and the
sleep under the lock that all Onces share; the winner runs the action, which may use
other Onces and may panic; `Settle` stores the outcome and `WakeLock`, `WakeUnlock`,
`WakeAll` wake the waiters. Loads may lag (`known`).

**Pool** has the start of the workers (each may fail), `Submit`, `take` with its test that
a helper only takes tasks of blocks within its own (`descends`), the helping `Join`,
`Count` and the wake after the last task of a block, and `Stop` and `Reap`. What a thread does
under the lock is one step, every wake a step of its own. **Threads** is `spawn`,
`join` and the `parallel` block without a pool: where each argument is (with the caller, in
its heap block, in the parent's frame, with the thread) and who drops it when memory or threads run
out.

**AllocDispatch** is the selection of the provider and the note of the last refusal.
`stack` holds the allocating operations under way, because undoing one runs drop hooks
that allocate: a `direct` request, a container that grows (`grow`: append, insert, a map's
insertion), a `box`, and a container's `copy` (a clone). All but the first undo what they
staged when they are refused: a box takes the note and restores it around its undo, the two
container kinds leave their refusal in the note while hooks run (`LeavesNote`, finding 3).
`Written` holds the handles a program passes, the zero Allocator among them; an owner keeps
the handle as it was passed, except that a container that grows binds a provider first.
`hooked`, `kind` and `early` are history that only the properties read.

**PanicFrames** keeps each thread's native stack and chain of frames. The registrations are
those of generated code (`src/emit_llvm_unwind.odin`). `Replay` runs the newest
registered action of the newest frame and clears it first, so that a call it makes, or
a second panic, meets a consistent chain; `panic_trace` is the guard of `trace.c`.

**Atomic128** does every 128-bit operation in halves under the gate; **WideCell** does it
in one step; **Bits** has the operators on words. **StringStore** has the creation, cloning, concatenation, retain and release
of strings, with blocks that are given out again and two allocators. **NumericLocale** is the
race of threads to publish the "C" locale.

**Utf8** and **Spelling** are operators: a state is one text, or one thing to print,
and the properties compare what the code computes with a reference definition
written from the standard or from arithmetic. **Sort** runs the introsort a comparison
to a step, since a comparison calls the program; `SortPart` is its instance under names of
its own, which the run and the proofs share.

Names follow the code where TLA+ allows (`map_probe`, `dyn_truncate`,
`arena_bump`, `can_send`, `head_seen`); `PROJECT.json` maps each definition to lines.
Operators marked "Mutant of X" are broken variants of X, one per property, which
show that the property can fail.

## 4. Runs

| run | checks | shows |
|---|---|---|
| `ring` | NoSlotRace, InOrder, NothingLeftLive, ClosedMeansDrained, FullMeansFull, ImplementsQueue, Delivery | the ring under stale loads; its refinement under fresh ones; a polling receiver gets everything |
| `channel` | Inv, NoLostWakeup, EndIsFinal, CallsReturn | queue, counts and wakeups of the blocking queue; its waits end |
| `blocks` | Inv, ScopesAlive, BareInv, JoinsEnd | pools and bare parallel blocks through failed starts; every join ends |
| `sequential` | Inv, ImplementsAllocator, DispatchInv, OwnersReachProvider, SortInv, Sorted, TextExact, ShortestSpelling, SpellingsRead | the arena's memory safety and accounting; what failures report and which provider a free reaches; sort, codec and spellings against reference definitions |
| `dispatch_container_undo` | FailureNamesRequest (violated) | finding 3 |
| `dispatch_zero_handle` | HandlesFindProvider (violated) | finding 4 |
| `containers` | Inv, NothingLost, ImplementsMap, CountIsAccurate, InsertIsSplice, RefusalKeepsElements | map and array through refusals and panics |
| `map_owed_value_lost` | OwedIsFinished (violated) | finding 1 |
| `dyn_copy_hook_panics` | DroppedAtMostOnce (violated) | finding 2 |
| `shared` | Inv, DestroyedAfterUse, NothingLeaks | handles on three threads |
| `once` | Inv, CallsEnd | one-time initialization on three threads |
| `runtime_threads` | Inv, NewestFirst, StringsInv, LocalesInv, Indivisible | panics, strings, locale and wide atomics on threads |

`Inv` is each module's invariant, a conjunction of its type and of named parts: for
example `RunsOnce`, `AnswerMeansMade`, `NoLostWakeup` and `RunnerExists` of `Once`.

Four passing runs check several components that share no state. Their MC module holds the
variables of each component and a variable (`part`, and in `MCSequential` also `form`) that
says which one a behaviour is of; the others stay in their initial state. A property of
a component other than the first is named again there (`BareInv` is `Threads!Inv`). This
asks the same as a run for each and is no claim about their interaction. `MCRing`
in the same way tells behaviours with fresh loads (`fresh`) from those with stale ones,
because only the first implement `BoundedQueue`: with stale loads an answer may be justified
by a state before the call.

Bounds, and why they are enough for what is asked:

- Ring: capacity 2 means three slots; six sends take both indices around twice, so
  a stale cache can be a whole lap old. Two items tell order apart. The theorems of
  section 6 remove these bounds for the safety properties.
- Channel: three threads (two of one side and one of the other, or a closer), two
  items, capacity 2, five calls including the split: full and empty queue, fork and
  both drops, sleepers of both sides.
- Pool: two workers and two clients, three tasks, two blocks, one of which may be
  opened by a task of the other: every worker can be in a join. Threads: three
  children, so that a start fails with one running and one finished.
- Arena: 64 addresses, two-byte headers, eight-byte blocks, three touching places,
  two live allocations; sizes 0, 1, 3, 6 and `Word - 2`, the last to make every sum
  wrap. Buffers below, at and above the minimum. Dispatch: a heap, an arena that grows from
  it and a provider that traps; every kind of operation, with an arena or the zero Allocator
  for an argument, and one more within its undo; one live allocation, since the properties
  relate an allocation to the selection and not to another. The two violation runs have
  the same providers.
- Map: tables of 4 and 8 slots with one in four spare in place of 8 and one in
  eight; four keys that collide and wrap; the rebuild, the tombstone limit, reuse and
  each panic point occur. Dynamic array: capacity up to 5 with minimum 2, sources of one
  or two elements, three elements told apart. Keys and elements are symmetric: the seeds
  are closed under permutation and the code compares neither beyond equality.
- Shared handles: three threads and four handles, both symmetric: an upgrade
  between another thread's last release and its free, with a third holding on.
- Once: three threads on one Once, or two on two with an action of the first using
  the second; one spin before the sleep.
- Panic frames: one thread five calls deep with three actions, enough for a cleanup that
  calls, registers and panics, and a second thread that calls and panics beside it. Strings:
  two blocks, two handles (both symmetric), two threads and two allocators. Locale: three threads and a
  locale more than they can hold at once. Wide atomics: two threads, halves of one
  bit, every operation.
- Sort: every array of up to six elements over three values, both directions, or a
  comparator that answers anything; ranges of two are small (16 in the code) and the
  levels per halving are 0, 1 and 2 (2 in the code) so that the heap sort is reached at
  the top and within partitions. Text: the bytes, runes and code units at which a case
  changes, texts of up to four bytes or units. Spellings: words of six bits for 64, every
  value in every kind of base; floats of two to four bits of mantissa; layouts of up
  to three and of seventeen digits around every change of notation.

Deadlock checking is off, since a program may stop calling and a bound on calls ends
behaviours, except in `sequential`, where a sort must always have a next step until it is
done; there the arena and the dispatch may stop by a stuttering disjunct of `MCNext`.

Fairness. `ring`: straight-line steps of an open call go on (weak fairness);
the receiver keeps polling while it has not dropped, which is the premise of the
property; and a thread that keeps loading eventually sees a store (strong
fairness on the fresh load), which hardware guarantees. The sender is not obliged to
call. `channel`: a thread inside a call is scheduled (weak fairness on entering,
unlocking and waking); with a bounded number of calls weak fairness of the lock
suffices, so no lock fairness, which an SRW lock does not give, is assumed. `blocks`: each
thread of the pool that can go on does (weak fairness of `Step`); a task's body
ends, waiting for nothing but the joins of its own blocks, which is the premise of a join. `once`:
weak fairness of the steps inside a call; strong fairness of getting the wait lock,
because without it sleepers that wake spuriously for ever could keep another thread out
of a lock they each hold for a few instructions; strong fairness of the end of an action, the
premise of waiting for it. Spurious wakeups are possible everywhere and never assumed.

## 5. Findings

1. `container.c:911`: while a panic of a key's drop hook unwinds, deferred code that
   inserts, reserves or shrinks reuses or discards a slot that still owes its value,
   which is then never dropped; the comment at 684-686 promises that a later drop
   finishes it. `NothingLost` states that without such deferred calls nothing is lost.
2. `container.c:382`: insertion shifts the tail before the copy hook runs; when the
   hook panics one element is in two slots below the length and is dropped twice.
   `CountIsAccurate` states what holds otherwise.
3. `container.c:306`: a container operation that is refused drops elements with the refusal
   still in the thread's note: an append or an insertion the clones it had made
   (`dyn_fill`) and then the value it was given, a clone its prefix (`container.c:174`), a
   map's insertion the staged value. A drop hook that allocates clears the note, so the report says
   that no size was requested, and a hook's own failure that asked for nothing takes the
   container's size. A box guards the same step (`emit_llvm_box.odin:82`). `DispatchInv`
   states what holds for every operation: a failure names its own request, except that a
   container whose own hooks allocated names no size and that an operation which asked for nothing
   in a hook of a failing container may name the container's; and a failure
   that was handled leaves no note.
4. `alloc.c:102`: the zero Allocator is resolved at every use. Strings, boxes and cloned
   containers store the handle they were given, so an owner that the allocator factory makes
   with `{}` is served by the system heap and, after the publication, freed through the
   selected provider; `emit_llvm_expr.odin:2537` says that release returns the block to the
   allocator its header records, and `design.md:9423` allows the handle wherever one is
   passed. `OwnersReachProvider` states that nothing else goes astray: neither a container
   that grew nor any handle kept after the publication.

Smaller disagreements met while modelling, without a run of their own:

- `container.c:648`: a refused `reserve` leaves the allocator bound, where
  `loke_rt.h:332-333` says the container is bit-for-bit unchanged. The model follows the code.
- `container.c:866`: an insertion within the capacity rebuilds and doubles a table
  whose tombstones reach the load limit, where `loke_rt.h:278` calls the capacity
  the entries insertable before the next growth.

## 6. Proofs

Every theorem holds for every value of the constants that meets the assumptions, so for
any number of threads, handles, blocks or calls; TLC checks the same definitions on the
instances of section 4, and each inductive invariant was checked on them first.

| module | theorems | about |
|---|---|---|
| `RingProofs` | RingInvariant, RingTypes, RingNoSlotRace, RingInOrder, RingNothingLeftLive, RingClosedMeansDrained, RingFullMeansFull, RingRefinement | `Ring`, stale or fresh loads; `BoundedQueue`, fresh loads |
| `ChannelProofs` | ChannelInvariant, ChannelNoLostWakeup, ChannelEndIsFinal | `Channel` |
| `OnceProofs` | OnceInvariant | `Once` |
| `SharedHandlesProofs` | HandlesInvariant, HandlesDestroyedAfterUse, HandlesNothingLeaks | `SharedHandles` |
| `BlocksProofs` | PoolInvariant, PoolScopesAlive, BareInvariant | `Pool` and `Threads`, as `MCBlocks` uses them |
| `AllocatorsProofs` | ArenaInvariant, ArenaImplementsAllocator, DispatchInvariant, OwnersInvariant | `Arena`, `Allocator`, `AllocDispatch` |
| `ContainersProofs` | MapInvariant, MapNothingLost, MapRefinement, ArrayCountIsAccurate, ArrayInsertIsSplice, ArrayRefusalKeepsElements, SortInvariant, SortSorts | `HashMap`, `AbstractMap`, `DynamicArray`, `Sort` |
| `RuntimeProofs` | LocalesInvariant, StringsInvariant, FramesInvariant, FramesNewestFirst, AtomicsIndivisible | `NumericLocale`, `StringStore`, `PanicFrames`, `Atomic128`, `WideCell` |

Where several components share a run, the theorem is about that run's `MCSpec`; its
constants are declared, and given values only in the cfg. The two of the sort are about
`SortSpec`, the specification in `SortPart` that the run's `MCNext` takes its steps from.

Assumptions on constants, each named in the module that declares them:

- Ring: a positive capacity (the code panics otherwise), a bound that is a number.
- The others: bounds that are numbers, names of absent values that are no value of their
  kind, for `Once` that there is one, for `SharedHandles` that the handles are finitely many.
- Arena: `Word` and the alignments are powers of two, sizes and addresses fit in a word, and the
  parent aligns what it gives.
  Two were found by the proof. `HeaderBytes >= ControlAlign` (32 and 16 in `arena.c`):
  without it a fixed buffer of the least size the code accepts may not hold the control
  block once that is aligned. `a + HeaderBytes < Word` for every alignment asked for:
  `arena_grow` tests for overflow once, after it has added header and padding to the size,
  and one test of a sum of three sees a wrap only if the last two do not wrap by themselves.
- Map: `Spare` is between 2 and `MinSlots` (8 and 8 in the code: one slot in eight stays
  spare), a number of doublings, finitely many keys, told apart from the names of the
  instances the ledger counts, and some hash seed.
- Sort: a number of elements, integers to compare by, a small range of at least one element
  (16 in the code), any number of levels per halving (2 in the code).
- Dispatch: the system provider exists and has no parent, the name of the zero Allocator is no
  provider's, and bounds that are numbers. Which operations and which handles a program
  uses is not restricted.

The arguments, and why the invariants had to be strengthened:

- **Ring.** That a slot is free follows from indices that wrap, so two different numbers of
  sends can look alike. `Inv` therefore counts: the n-th stored index is
  `(n - 1) % Size` (`IndicesOK`), each cache is the index of some known store at most one
  lap away (`CachesOK`), and with `low` and `high` the numbers of takes and sends that have
  touched their slots, the slots of the sends from `low` to `high - 1` are live with the
  right item and the others, spare slot included, are not (`SlotsOK`). Positions of numbers less
  than `Size` apart are equal only if the numbers are. `CallsOK` ties open calls to the
  phase: having seen `sender_gone` means knowing the last tail, which is why the
  second load in `try_receive` suffices. For the refinement a step with fresh loads is shown to be
  a step of the ring that loads the newest value; the queue is what was accepted and not yet taken,
  so a full test on the newest head sees `Capacity` items and an empty test on the newest
  tail none. The only addition to `Inv` is that a call marked late has a receiver that is gone.
- **Channel.** `NoLostWakeup` is kept only together with what surrounds it: the lock is held by
  exactly the thread that is leaving, only the waiting calls sleep, a thread inside a
  call owns the endpoint it uses, the counts are the numbers of endpoints that threads own
  (so a count reaches 0 when the last one is gone), and the items between `taken` and
  `sent` are in the slots from `head` on.
- **Once.** A Once that is running is in the `acts` of one thread, in one place. What has
  settled is known to the next holder of the wait lock, unless the thread that settled it has
  yet to pass through that lock (`SettledIsPassed`); hence a thread about to sleep on
  a settled Once will be woken (`SleepIsSafe`).
- **Shared handles.** The strong count is the number of strong handles; the weak count is the
  number of weak handles, and one more until the strong group has given back its own
  (`Owed`). One thread drops and one frees. Each thread's last use of the payload is known to
  the strong count or to the thread of some strong handle, then to the thread that drops,
  then to the weak count (`Known`), which is what the acquire fence is for.
- **Pool.** `Inv` says nothing of how the stacks are built, so it is not inductive. Added
  are: nothing is on two stacks or twice on one (`OnceIn`); a block is live exactly while
  it is on some stack (`LiveHeld`); an unfinished task belongs to a live block
  (`FlightScoped`); a block's parent is older than it and is the block of a task beneath
  it on the same stack (`ParentsOlder`, `StacksNested`); what each point of the code has on top of
  its stack (`PointsOK`); and that the owner stops the pool only when the other clients
  are done with it (`OwnerAlone`). The live blocks are then closed under `parent`, and a chain
  is the least such set above a block, which is `ScopesAlive`. When the owner stops, any
  live block would be on a worker's stack, above a task of a live block that is older: the
  least live block cannot exist, so none does (`StopsIdle`).
- **Threads.** For each child, where its argument, its block and its handle are follows from
  where the parent and the child are, so that each is dropped or closed once.
- **Locale.** The locales that exist are the cached one and one for each thread between
  making it and losing the race, all different, so their number is a sum.
- **Strings.** The count in a block's header is the number of its handles, and a block
  without one has exactly one thread about to free it. Each thread's last access is in
  the release chain of the count, or known to the thread of some handle.
- **Panic frames.** What is registered is sorted along the stack, has not run, and lies
  only in calls that pushed; a walk has left nothing behind it (`Walked`); a trace is on top of its
  stack; and a thread that is attached has neither dropped nor queued its
  thread-locals. The lemmas are about one stack (a call more, a call less, an
  action more or less), and each action of the model is one or two of them.
- **Wide atomics.** One thread at most is inside the gate, the value is what the gate found until
  the first write, and what the operation leaves of it after the last (`Fitting`); leaving
  the gate is the step of `WideCell`. The arithmetic is separate: addition and subtraction
  by halves, with carry and borrow, agree with those modulo the square of a half, and
  an operator on the bits of two halves is that operator on each. The last two facts are about functions
  defined by recursion, `Weight` and the one in `Bitwise`; that these exist and satisfy their
  equations is proved from the well-ordering of the numbers (`Recursion`), and what they
  compute by induction on a set of numbers (`Inductive`).
- **Arena.** `Inv` with `LiveAligned`: the address of a live allocation is a multiple of its
  alignment, which the resize in place at the top and the refinement need. The lemmas
  treat `arena_bump` and `arena_grow` with arithmetic modulo `Word` and show that what they
  answer neither wraps nor overlaps. `ArenaImplementsAllocator` maps a step of the arena to the
  allocator's step of the same name, or to a stutter for what only moves blocks.
- **Dispatch.** Neither property is inductive: they speak of the moment of a report. Added are what
  the note and the operations say in between. Every operation below the innermost one is
  undoing its work (`StackIs`); a box or an Allocator_Error on its way (`Keeps`) has the size it
  may tell (`Told`) in its own record; otherwise the note holds the refusal of the innermost
  operation or, while that has asked for nothing and runs in a hook of a container (`Under`),
  the one of that container (`NoteIs`); and a refusal stays in the note as long as no hook
  of its operation has allocated (`NoteStays`), which is why a size is lost only then.
  `OwnersInvariant` needs that a container that grows has bound a provider before it asks, and
  that the selection does not change once it is published.
- **Map.** `MapKept`: between a key's home and its slot no slot is empty, so a probe finds it;
  live and vacated slots together stay within the capacity, so an empty slot ends every probe; the
  counters are the numbers of slots of their kind; slots owe a value only during an unwind; and
  no two slots claim the same instance. A rebuild places the entries one by one, by a function
  defined by recursion over the old slots; that it exists is again `Recursion`, and that each turn
  keeps what was placed is the induction. `MapRefinement` reads off what each operation does to the
  function from live keys to values; a rebuild or a vacated slot leaves it alone.
- **Array.** `CountIsAccurate` is inductive as it stands. The work is in the operators: where an insertion
  that shifts the tail, or moves to a new block, reads an aliased source, and how often an
  element occurs in a sequence that is spliced or cut.
- **Sort.** Neither invariant is inductive. `SortKept` adds, whatever the comparator answers:
  where both indices are at each point of the code; that the array is the input after some
  permutation of the indices, which an exchange extends, so that each value occurs as often; and that the range
  being sorted and the suspended ones lie apart, where the k-th suspended range times
  `2^(k - 1)`, and the current one times 2 to the number of suspended ones, is within the
  count: the smaller side goes on. With an order for a comparator: two elements out of order lie in one range still to sort
  (`Paired`), and what the range at work has established so far, which is the two sides of the
  pivot (`Lower`, `Upper`), the sorted prefix with one element on its way down (`Inserting`), or
  the heap with one node that sinks and the sorted end above it (`HeapBut`, `Topped`). That
  the top of a heap is its greatest element is shown by a least counterexample.
  Descending sorts are the ascending ones of the negated keys (`KeysOf`).

Only model-checked, and why:

- `Delivery`, `CallsReturn`, `JoinsEnd`, `CallsEnd`: liveness under fairness is beyond the prover.
- `TextExact`, `ShortestSpelling`, `SpellingsRead`: code and reference are both defined by
  recursion over the data, and the prover cannot do the inductions that relate them.
- The violated properties of section 5, whose counterexamples TLC prints.

## 7. Not modelled

- `Monitor.close`, used by programs and by no library operation, and `Mutex`, whose lock
  is the one `Channel` takes without the waiting.
- The rest of an action that deferred code starts during an unwind, after a call of its own:
  `sync.loke:211-218` lets it go on and finish, while `Caller` sends every call of an
  unwinding thread back to the unwind. It takes three Onces, one more than the run has: the one
  whose action panicked, the one of the deferred code and one that its action calls.
- `unwind_revive` (`emit_llvm_unwind.odin:256-267`), by which generated code registers a cleanup
  again in a slot it used before: `PanicFrames` gives each registration a slot of its own,
  newest last, and reviving keeps the order of the slots.
- NaN and the infinities in `spell_float`, fixed words chosen before any digit is computed,
  and the sign, which the C library writes before the digits.
- Zero-sized elements and entries, and the endpoint-count limit of the channel.
- What a clone that panics half-way leaks of its own copies: no module keeps a ledger
  for the clone, only for the source.
- That a sort ends whatever its comparator answers: with an order every run ends at
  `Done`, and the stack bound holds for any comparator.
- `hash_bytes`: 64-bit mixing that only feeds the map, which is checked for any hash.
- `loke_rt_v1_reset`, which forwards to a provider (the arena's reset is modelled) and
  aborts where no program can get; the C heap behind the system provider.
- Weak-memory effects in `Channel` and `Pool`, where every access is under the lock, and
  in `Atomic128`, whose orderings are barriers around a lock.
- The conversions of booleans and single runes, and writing to streams; argument access
  (getters over a vector made once), CPU detection, and the printing of a trace.
- The C library's rounding beyond the contract the code relies on: nearest, ties to even.
- The compiler, the language server, editor support, benches and the sequential
  core libraries: no concurrent or failure-prone state of the kind modelled here, and
  a size beyond a state-machine model. The compiler was read for the order in which
  generated code calls the runtime.
