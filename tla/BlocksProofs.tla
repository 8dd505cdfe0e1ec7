---------------------------- MODULE BlocksProofs ----------------------------
(***************************************************************************)
(* Proofs about parallel blocks: that of the bare threads, for any number  *)
(* of children, and that of the worker pool, for any number of workers,    *)
(* clients, tasks and blocks.                                              *)
(***************************************************************************)
EXTENDS MCBlocks, FiniteSetTheorems, SequenceTheorems, NaturalsInduction, TLAPS

-----------------------------------------------------------------------------
(* Bare threads: the inductive invariant.                                  *)

\* Where a child's argument, block and handle are while its thread is not yet made,
\* runs, or has ended.
BlockHeld(c) == block[c] = IF kind[c] = "spawned" THEN "made" ELSE "none"
BlockDone(c) == block[c] \in {"none", "freed"}
ArgGiven(c) == arg[c] = IF kind[c] = "spawned" THEN "block" ELSE "frame"
Creating(c) == bare_parent = [at |-> "creating", child |-> {c}]

Unused(c) ==
    kind[c] = "unused" => child[c] = "none" /\ arg[c] = "none" /\ block[c] = "none" /\ handle[c] = "none"
Unmade(c) ==
    child[c] = "none" /\ kind[c] # "unused" =>
        /\ handle[c] = "none"
        /\ \/ Creating(c) /\ BlockHeld(c) /\ ArgGiven(c)
           \/ ~Creating(c) /\ BlockDone(c) /\ arg[c] \in {"caller", "dropped"}
Made(c) ==
    /\ child[c] # "none" => kind[c] # "unused" /\ handle[c] # "none" /\ ~Creating(c)
    /\ child[c] \in {"created", "attached"} => BlockHeld(c) /\ ArgGiven(c)
    /\ child[c] = "entered" => BlockDone(c) /\ arg[c] = "entry"
    /\ child[c] \in {"returned", "gone"} => BlockDone(c) /\ arg[c] = "dropped"
    /\ child[c] # "gone" => handle[c] # "closed"

\* A task is started in an open block, and joined before the block is left.
TaskScoped(c) ==
    kind[c] = "task" =>
        /\ handle[c] = "open" => scope \in {"open", "joining"}
        /\ Creating(c) => scope = "open"
Dropped(c) == drops[c] = IF arg[c] = "dropped" THEN 1 ELSE 0

\* What the parent is in the middle of, and what it has done when it is over.
ParentBusy ==
    /\ bare_parent.at = "creating" => \E c \in Child : Creating(c) /\ kind[c] # "unused" /\ child[c] = "none"
    /\ bare_parent.at = "over" => \A c \in Child : handle[c] # "open" /\ arg[c] # "caller"

BareIndInv ==
    /\ Bare!TypeOK /\ ParentBusy
    /\ \A c \in Child : Unused(c) /\ Unmade(c) /\ Made(c) /\ TaskScoped(c) /\ Dropped(c)

-----------------------------------------------------------------------------
(* Bare threads: preservation, an action at a time.                        *)

\* A start takes its argument, or panics with the argument still the caller's.
LEMMA BareSpawnInv ==
  ASSUME BareIndInv, NEW k \in Child, Bare!Spawn(k)
  PROVE  BareIndInv'
  <1>1. Bare!TypeOK'
    <2>1. bare_parent' = bare_parent \/ bare_parent' = [at |-> "creating", child |-> {k}]
      BY DEF Bare!Spawn
    <2>2. bare_parent' \in [at : {"idle", "creating", "waiting", "over"}, child : SUBSET Child]
      BY <2>1 DEF BareIndInv, Bare!TypeOK
    <2>3. unwinding' \in BOOLEAN /\ running' \in BOOLEAN
      BY DEF BareIndInv, Bare!TypeOK, Bare!Spawn
    <2>. QED  BY <2>2, <2>3 DEF BareIndInv, Bare!TypeOK, Bare!Spawn
  <1>2. ParentBusy'
    <2>1. bare_parent.at = "idle" /\ child[k] = "none" /\ kind'[k] # "unused" /\ UNCHANGED child
      BY DEF BareIndInv, Unused, Bare!TypeOK, Bare!Spawn, Bare!Free, Bare!Idle
    <2>2. bare_parent' = bare_parent \/ bare_parent' = [at |-> "creating", child |-> {k}]
      BY DEF Bare!Spawn
    <2>. QED  BY <2>1, <2>2 DEF ParentBusy, Creating
  <1>3. ASSUME NEW c \in Child
        PROVE  (Unused(c) /\ Unmade(c) /\ Made(c) /\ TaskScoped(c) /\ Dropped(c))'
    <2>1. Unused(c) /\ Unmade(c) /\ Made(c) /\ TaskScoped(c) /\ Dropped(c) /\ Bare!TypeOK
      BY DEF BareIndInv
    <2>2. Unused(c)' /\ Unmade(c)'
      BY <2>1 DEF Bare!TypeOK, Unused, Unmade, Creating, BlockHeld, BlockDone, ArgGiven, Bare!Spawn, Bare!At, Bare!Free, Bare!Idle
    <2>3. Made(c)'
      BY <2>1 DEF Bare!TypeOK, Unused, Unmade, Made, Creating, BlockHeld, BlockDone, ArgGiven, Bare!Spawn, Bare!At, Bare!Free, Bare!Idle
    <2>4. TaskScoped(c)' /\ Dropped(c)'
      BY <2>1 DEF Bare!TypeOK, Unused, Unmade, Made, TaskScoped, Dropped, Creating, ArgGiven, Bare!Spawn, Bare!At, Bare!Free, Bare!Idle
    <2>. QED  BY <2>2, <2>3, <2>4
  <1>. QED  BY <1>1, <1>2, <1>3 DEF BareIndInv

\* The same of a task, whose argument stays in a frame of the block.
LEMMA BareStartInv ==
  ASSUME BareIndInv, NEW k \in Child, Bare!Start(k)
  PROVE  BareIndInv'
  <1>1. Bare!TypeOK'
    <2>1. bare_parent' = bare_parent \/ bare_parent' = [at |-> "creating", child |-> {k}]
      BY DEF Bare!Start
    <2>2. bare_parent' \in [at : {"idle", "creating", "waiting", "over"}, child : SUBSET Child]
      BY <2>1 DEF BareIndInv, Bare!TypeOK
    <2>3. unwinding' \in BOOLEAN /\ running' \in BOOLEAN
      BY DEF BareIndInv, Bare!TypeOK, Bare!Start
    <2>. QED  BY <2>2, <2>3 DEF BareIndInv, Bare!TypeOK, Bare!Start
  <1>2. ParentBusy'
    <2>1. bare_parent.at = "idle" /\ child[k] = "none" /\ kind'[k] # "unused" /\ UNCHANGED child
      BY DEF BareIndInv, Unused, Bare!TypeOK, Bare!Start, Bare!Free, Bare!Idle
    <2>2. bare_parent' = bare_parent \/ bare_parent' = [at |-> "creating", child |-> {k}]
      BY DEF Bare!Start
    <2>. QED  BY <2>1, <2>2 DEF ParentBusy, Creating
  <1>3. ASSUME NEW c \in Child
        PROVE  (Unused(c) /\ Unmade(c) /\ Made(c) /\ TaskScoped(c) /\ Dropped(c))'
    <2>1. Unused(c) /\ Unmade(c) /\ Made(c) /\ TaskScoped(c) /\ Dropped(c) /\ Bare!TypeOK
      BY DEF BareIndInv
    <2>2. Unused(c)' /\ Unmade(c)'
      BY <2>1 DEF Bare!TypeOK, Unused, Unmade, Creating, BlockHeld, BlockDone, ArgGiven, Bare!Start, Bare!At, Bare!Free, Bare!Idle
    <2>3. Made(c)'
      BY <2>1 DEF Bare!TypeOK, Unused, Unmade, Made, Creating, BlockHeld, BlockDone, ArgGiven, Bare!Start, Bare!At, Bare!Free, Bare!Idle
    <2>4. TaskScoped(c)' /\ Dropped(c)'
      BY <2>1 DEF Bare!TypeOK, Unused, Unmade, Made, TaskScoped, Dropped, Creating, ArgGiven, Bare!Start, Bare!At, Bare!Free, Bare!Idle
    <2>. QED  BY <2>2, <2>3, <2>4
  <1>. QED  BY <1>1, <1>2, <1>3 DEF BareIndInv

\* The thread exists, and so does its handle.
LEMMA BareCreatedInv ==
  ASSUME BareIndInv, NEW k \in Child, Bare!Created(k)
  PROVE  BareIndInv'
  <1>1. Bare!TypeOK'
    BY DEF BareIndInv, Bare!TypeOK, Dropped, Bare!Created, Bare!At, Bare!Free, Bare!Idle
  <1>2. ParentBusy'
    BY DEF BareIndInv, Bare!TypeOK, ParentBusy, Creating, Bare!Created, Bare!At, Bare!Free, Bare!Idle
  <1>3. ASSUME NEW c \in Child
        PROVE  (Unused(c) /\ Unmade(c) /\ Made(c) /\ TaskScoped(c) /\ Dropped(c))'
    <2>1. Unused(c) /\ Unmade(c) /\ Made(c) /\ TaskScoped(c) /\ Dropped(c) /\ Bare!TypeOK
      BY DEF BareIndInv
    <2>0. Creating(k) /\ kind[k] # "unused" /\ child[k] = "none" /\ (c # k => ~Creating(c))
      BY DEF BareIndInv, ParentBusy, Creating, Bare!Created, Bare!At
    <2>00. Unmade(k) /\ Dropped(k) /\ ~Creating(c)'
      BY DEF BareIndInv, Creating, Bare!Created, Bare!Idle
    <2>2. Unused(c)' /\ Unmade(c)'
      BY <2>0, <2>00, <2>1 DEF Bare!TypeOK, Unused, Unmade, Creating, BlockHeld, BlockDone, ArgGiven, Bare!Created, Bare!At, Bare!Free, Bare!Idle
    <2>3. Made(c)'
      BY <2>0, <2>00, <2>1 DEF Bare!TypeOK, Unused, Unmade, Made, Creating, BlockHeld, BlockDone, ArgGiven, Bare!Created, Bare!At, Bare!Free, Bare!Idle
    <2>4. TaskScoped(c)' /\ Dropped(c)'
      BY <2>0, <2>00, <2>1 DEF Bare!TypeOK, Unused, Unmade, Made, TaskScoped, Dropped, Creating, ArgGiven, Bare!Created, Bare!At, Bare!Free, Bare!Idle
    <2>. QED  BY <2>2, <2>3, <2>4
  <1>. QED  BY <1>1, <1>2, <1>3 DEF BareIndInv

\* A thread that was not made gives everything back.
LEMMA BareCreateFailsInv ==
  ASSUME BareIndInv, NEW k \in Child, Bare!CreateFails(k)
  PROVE  BareIndInv'
  <1>1. Bare!TypeOK'
    BY DEF BareIndInv, Bare!TypeOK, Dropped, Bare!CreateFails, Bare!At, Bare!Free, Bare!Idle
  <1>2. ParentBusy'
    BY DEF BareIndInv, Bare!TypeOK, ParentBusy, Creating, Bare!CreateFails, Bare!At, Bare!Free, Bare!Idle
  <1>3. ASSUME NEW c \in Child
        PROVE  (Unused(c) /\ Unmade(c) /\ Made(c) /\ TaskScoped(c) /\ Dropped(c))'
    <2>1. Unused(c) /\ Unmade(c) /\ Made(c) /\ TaskScoped(c) /\ Dropped(c) /\ Bare!TypeOK
      BY DEF BareIndInv
    <2>0. Creating(k) /\ kind[k] # "unused" /\ child[k] = "none" /\ (c # k => ~Creating(c))
      BY DEF BareIndInv, ParentBusy, Creating, Bare!CreateFails, Bare!At
    <2>00. Unmade(k) /\ Dropped(k) /\ ~Creating(c)'
      BY DEF BareIndInv, Creating, Bare!CreateFails, Bare!Idle
    <2>2. Unused(c)' /\ Unmade(c)'
      BY <2>0, <2>00, <2>1 DEF Bare!TypeOK, Unused, Unmade, Creating, BlockHeld, BlockDone, ArgGiven, Bare!CreateFails, Bare!At, Bare!Free, Bare!Idle
    <2>3. Made(c)'
      BY <2>0, <2>00, <2>1 DEF Bare!TypeOK, Unused, Unmade, Made, Creating, BlockHeld, BlockDone, ArgGiven, Bare!CreateFails, Bare!At, Bare!Free, Bare!Idle
    <2>4. TaskScoped(c)' /\ Dropped(c)'
      BY <2>0, <2>00, <2>1 DEF Bare!TypeOK, Unused, Unmade, Made, TaskScoped, Dropped, Creating, ArgGiven, Bare!CreateFails, Bare!At, Bare!Free, Bare!Idle
    <2>. QED  BY <2>2, <2>3, <2>4
  <1>. QED  BY <1>1, <1>2, <1>3 DEF BareIndInv

\* The unwind drops what came back.
LEMMA BareDropUnclaimedInv ==
  ASSUME BareIndInv, NEW k \in Child, Bare!DropUnclaimed(k)
  PROVE  BareIndInv'
  <1>1. Bare!TypeOK'
    BY DEF BareIndInv, Bare!TypeOK, Dropped, Bare!DropUnclaimed, Bare!At, Bare!Free, Bare!Idle
  <1>2. ParentBusy'
    BY DEF BareIndInv, Bare!TypeOK, ParentBusy, Creating, Bare!DropUnclaimed, Bare!At, Bare!Free, Bare!Idle
  <1>3. ASSUME NEW c \in Child
        PROVE  (Unused(c) /\ Unmade(c) /\ Made(c) /\ TaskScoped(c) /\ Dropped(c))'
    <2>1. Unused(c) /\ Unmade(c) /\ Made(c) /\ TaskScoped(c) /\ Dropped(c) /\ Bare!TypeOK
      BY DEF BareIndInv
    <2>2. Unused(c)' /\ Unmade(c)'
      BY <2>1 DEF Bare!TypeOK, Unused, Unmade, Creating, BlockHeld, BlockDone, ArgGiven, Bare!DropUnclaimed, Bare!At, Bare!Free, Bare!Idle
    <2>3. Made(c)'
      BY <2>1 DEF Bare!TypeOK, Unused, Unmade, Made, Creating, BlockHeld, BlockDone, ArgGiven, Bare!DropUnclaimed, Bare!At, Bare!Free, Bare!Idle
    <2>4. TaskScoped(c)' /\ Dropped(c)'
      BY <2>1 DEF Bare!TypeOK, Unused, Unmade, Made, TaskScoped, Dropped, Creating, ArgGiven, Bare!DropUnclaimed, Bare!At, Bare!Free, Bare!Idle
    <2>. QED  BY <2>2, <2>3, <2>4
  <1>. QED  BY <1>1, <1>2, <1>3 DEF BareIndInv

\* A block is opened,
LEMMA BareOpenInv ==
  ASSUME BareIndInv, Bare!Open
  PROVE  BareIndInv'
  <1>1. Bare!TypeOK'
    BY DEF BareIndInv, Bare!TypeOK, Dropped, Bare!Open, Bare!At, Bare!Free, Bare!Idle
  <1>2. ParentBusy'
    BY DEF BareIndInv, Bare!TypeOK, ParentBusy, Creating, Bare!Open, Bare!At, Bare!Free, Bare!Idle
  <1>3. ASSUME NEW c \in Child
        PROVE  (Unused(c) /\ Unmade(c) /\ Made(c) /\ TaskScoped(c) /\ Dropped(c))'
    <2>1. Unused(c) /\ Unmade(c) /\ Made(c) /\ TaskScoped(c) /\ Dropped(c) /\ Bare!TypeOK
      BY DEF BareIndInv
    <2>2. Unused(c)' /\ Unmade(c)'
      BY <2>1 DEF Bare!TypeOK, Unused, Unmade, Creating, BlockHeld, BlockDone, ArgGiven, Bare!Open, Bare!At, Bare!Free, Bare!Idle
    <2>3. Made(c)'
      BY <2>1 DEF Bare!TypeOK, Unused, Unmade, Made, Creating, BlockHeld, BlockDone, ArgGiven, Bare!Open, Bare!At, Bare!Free, Bare!Idle
    <2>4. TaskScoped(c)' /\ Dropped(c)'
      BY <2>1 DEF Bare!TypeOK, Unused, Unmade, Made, TaskScoped, Dropped, Creating, ArgGiven, Bare!Open, Bare!At, Bare!Free, Bare!Idle
    <2>. QED  BY <2>2, <2>3, <2>4
  <1>. QED  BY <1>1, <1>2, <1>3 DEF BareIndInv

\* ended,
LEMMA BareLeaveInv ==
  ASSUME BareIndInv, Bare!Leave
  PROVE  BareIndInv'
  <1>1. Bare!TypeOK'
    BY DEF BareIndInv, Bare!TypeOK, Dropped, Bare!Leave, Bare!At, Bare!Free, Bare!Idle
  <1>2. ParentBusy'
    BY DEF BareIndInv, Bare!TypeOK, ParentBusy, Creating, Bare!Leave, Bare!At, Bare!Free, Bare!Idle
  <1>3. ASSUME NEW c \in Child
        PROVE  (Unused(c) /\ Unmade(c) /\ Made(c) /\ TaskScoped(c) /\ Dropped(c))'
    <2>1. Unused(c) /\ Unmade(c) /\ Made(c) /\ TaskScoped(c) /\ Dropped(c) /\ Bare!TypeOK
      BY DEF BareIndInv
    <2>2. Unused(c)' /\ Unmade(c)'
      BY <2>1 DEF Bare!TypeOK, Unused, Unmade, Creating, BlockHeld, BlockDone, ArgGiven, Bare!Leave, Bare!At, Bare!Free, Bare!Idle
    <2>3. Made(c)'
      BY <2>1 DEF Bare!TypeOK, Unused, Unmade, Made, Creating, BlockHeld, BlockDone, ArgGiven, Bare!Leave, Bare!At, Bare!Free, Bare!Idle
    <2>4. TaskScoped(c)' /\ Dropped(c)'
      BY <2>1 DEF Bare!TypeOK, Unused, Unmade, Made, TaskScoped, Dropped, Creating, ArgGiven, Bare!Leave, Bare!At, Bare!Free, Bare!Idle
    <2>. QED  BY <2>2, <2>3, <2>4
  <1>. QED  BY <1>1, <1>2, <1>3 DEF BareIndInv

\* and its tasks are joined, as spawned threads are.
LEMMA BareJoinInv ==
  ASSUME BareIndInv, NEW k \in Child, Bare!Join(k)
  PROVE  BareIndInv'
  <1>1. Bare!TypeOK'
    BY DEF BareIndInv, Bare!TypeOK, Dropped, Bare!Join, Bare!At, Bare!Free, Bare!Idle
  <1>2. ParentBusy'
    BY DEF BareIndInv, Bare!TypeOK, ParentBusy, Creating, Bare!Join, Bare!At, Bare!Free, Bare!Idle
  <1>3. ASSUME NEW c \in Child
        PROVE  (Unused(c) /\ Unmade(c) /\ Made(c) /\ TaskScoped(c) /\ Dropped(c))'
    <2>1. Unused(c) /\ Unmade(c) /\ Made(c) /\ TaskScoped(c) /\ Dropped(c) /\ Bare!TypeOK
      BY DEF BareIndInv
    <2>2. Unused(c)' /\ Unmade(c)'
      BY <2>1 DEF Bare!TypeOK, Unused, Unmade, Creating, BlockHeld, BlockDone, ArgGiven, Bare!Join, Bare!At, Bare!Free, Bare!Idle
    <2>3. Made(c)'
      BY <2>1 DEF Bare!TypeOK, Unused, Unmade, Made, Creating, BlockHeld, BlockDone, ArgGiven, Bare!Join, Bare!At, Bare!Free, Bare!Idle
    <2>4. TaskScoped(c)' /\ Dropped(c)'
      BY <2>1 DEF Bare!TypeOK, Unused, Unmade, Made, TaskScoped, Dropped, Creating, ArgGiven, Bare!Join, Bare!At, Bare!Free, Bare!Idle
    <2>. QED  BY <2>2, <2>3, <2>4
  <1>. QED  BY <1>1, <1>2, <1>3 DEF BareIndInv

\* A handle is closed when its thread is gone.
LEMMA BareJoinedInv ==
  ASSUME BareIndInv, NEW k \in Child, Bare!Joined(k)
  PROVE  BareIndInv'
  <1>1. Bare!TypeOK'
    BY DEF BareIndInv, Bare!TypeOK, Dropped, Bare!Joined, Bare!At, Bare!Free, Bare!Idle
  <1>2. ParentBusy'
    BY DEF BareIndInv, Bare!TypeOK, ParentBusy, Creating, Bare!Joined, Bare!At, Bare!Free, Bare!Idle
  <1>3. ASSUME NEW c \in Child
        PROVE  (Unused(c) /\ Unmade(c) /\ Made(c) /\ TaskScoped(c) /\ Dropped(c))'
    <2>1. Unused(c) /\ Unmade(c) /\ Made(c) /\ TaskScoped(c) /\ Dropped(c) /\ Bare!TypeOK
      BY DEF BareIndInv
    <2>2. Unused(c)' /\ Unmade(c)'
      BY <2>1 DEF Bare!TypeOK, Unused, Unmade, Creating, BlockHeld, BlockDone, ArgGiven, Bare!Joined, Bare!At, Bare!Free, Bare!Idle
    <2>3. Made(c)'
      BY <2>1 DEF Bare!TypeOK, Unused, Unmade, Made, Creating, BlockHeld, BlockDone, ArgGiven, Bare!Joined, Bare!At, Bare!Free, Bare!Idle
    <2>4. TaskScoped(c)' /\ Dropped(c)'
      BY <2>1 DEF Bare!TypeOK, Unused, Unmade, Made, TaskScoped, Dropped, Creating, ArgGiven, Bare!Joined, Bare!At, Bare!Free, Bare!Idle
    <2>. QED  BY <2>2, <2>3, <2>4
  <1>. QED  BY <1>1, <1>2, <1>3 DEF BareIndInv

\* A block is left when no task of it has a handle.
LEMMA BareLeftInv ==
  ASSUME BareIndInv, Bare!Left
  PROVE  BareIndInv'
  <1>1. Bare!TypeOK'
    BY DEF BareIndInv, Bare!TypeOK, Dropped, Bare!Left, Bare!At, Bare!Free, Bare!Idle
  <1>2. ParentBusy'
    BY DEF BareIndInv, Bare!TypeOK, ParentBusy, Creating, Bare!Left, Bare!At, Bare!Free, Bare!Idle
  <1>3. ASSUME NEW c \in Child
        PROVE  (Unused(c) /\ Unmade(c) /\ Made(c) /\ TaskScoped(c) /\ Dropped(c))'
    <2>1. Unused(c) /\ Unmade(c) /\ Made(c) /\ TaskScoped(c) /\ Dropped(c) /\ Bare!TypeOK
      BY DEF BareIndInv
    <2>2. Unused(c)' /\ Unmade(c)'
      BY <2>1 DEF Bare!TypeOK, Unused, Unmade, Creating, BlockHeld, BlockDone, ArgGiven, Bare!Left, Bare!At, Bare!Free, Bare!Idle
    <2>3. Made(c)'
      BY <2>1 DEF Bare!TypeOK, Unused, Unmade, Made, Creating, BlockHeld, BlockDone, ArgGiven, Bare!Left, Bare!At, Bare!Free, Bare!Idle
    <2>4. TaskScoped(c)' /\ Dropped(c)'
      BY <2>1 DEF Bare!TypeOK, Unused, Unmade, Made, TaskScoped, Dropped, Creating, ArgGiven, Bare!Left, Bare!At, Bare!Free, Bare!Idle
    <2>. QED  BY <2>2, <2>3, <2>4
  <1>. QED  BY <1>1, <1>2, <1>3 DEF BareIndInv

\* The parent ends when it holds nothing.
LEMMA BareEndInv ==
  ASSUME BareIndInv, Bare!End
  PROVE  BareIndInv'
  <1>1. Bare!TypeOK'
    BY DEF BareIndInv, Bare!TypeOK, Dropped, Bare!End, Bare!At, Bare!Free, Bare!Idle
  <1>2. ParentBusy'
    BY DEF BareIndInv, Bare!TypeOK, ParentBusy, Creating, Bare!End, Bare!At, Bare!Free, Bare!Idle
  <1>3. ASSUME NEW c \in Child
        PROVE  (Unused(c) /\ Unmade(c) /\ Made(c) /\ TaskScoped(c) /\ Dropped(c))'
    <2>1. Unused(c) /\ Unmade(c) /\ Made(c) /\ TaskScoped(c) /\ Dropped(c) /\ Bare!TypeOK
      BY DEF BareIndInv
    <2>2. Unused(c)' /\ Unmade(c)'
      BY <2>1 DEF Bare!TypeOK, Unused, Unmade, Creating, BlockHeld, BlockDone, ArgGiven, Bare!End, Bare!At, Bare!Free, Bare!Idle
    <2>3. Made(c)'
      BY <2>1 DEF Bare!TypeOK, Unused, Unmade, Made, Creating, BlockHeld, BlockDone, ArgGiven, Bare!End, Bare!At, Bare!Free, Bare!Idle
    <2>4. TaskScoped(c)' /\ Dropped(c)'
      BY <2>1 DEF Bare!TypeOK, Unused, Unmade, Made, TaskScoped, Dropped, Creating, ArgGiven, Bare!End, Bare!At, Bare!Free, Bare!Idle
    <2>. QED  BY <2>2, <2>3, <2>4
  <1>. QED  BY <1>1, <1>2, <1>3 DEF BareIndInv

\* A child starts,
LEMMA BareAttachInv ==
  ASSUME BareIndInv, NEW k \in Child, Bare!Attach(k)
  PROVE  BareIndInv'
  <1>1. Bare!TypeOK'
    BY DEF BareIndInv, Bare!TypeOK, Dropped, Bare!Attach, Bare!At, Bare!Free, Bare!Idle
  <1>2. ParentBusy'
    BY DEF BareIndInv, Bare!TypeOK, ParentBusy, Creating, Bare!Attach, Bare!At, Bare!Free, Bare!Idle
  <1>3. ASSUME NEW c \in Child
        PROVE  (Unused(c) /\ Unmade(c) /\ Made(c) /\ TaskScoped(c) /\ Dropped(c))'
    <2>1. Unused(c) /\ Unmade(c) /\ Made(c) /\ TaskScoped(c) /\ Dropped(c) /\ Bare!TypeOK
      BY DEF BareIndInv
    <2>2. Unused(c)' /\ Unmade(c)'
      BY <2>1 DEF Bare!TypeOK, Unused, Unmade, Creating, BlockHeld, BlockDone, ArgGiven, Bare!Attach, Bare!At, Bare!Free, Bare!Idle
    <2>3. Made(c)'
      BY <2>1 DEF Bare!TypeOK, Unused, Unmade, Made, Creating, BlockHeld, BlockDone, ArgGiven, Bare!Attach, Bare!At, Bare!Free, Bare!Idle
    <2>4. TaskScoped(c)' /\ Dropped(c)'
      BY <2>1 DEF Bare!TypeOK, Unused, Unmade, Made, TaskScoped, Dropped, Creating, ArgGiven, Bare!Attach, Bare!At, Bare!Free, Bare!Idle
    <2>. QED  BY <2>2, <2>3, <2>4
  <1>. QED  BY <1>1, <1>2, <1>3 DEF BareIndInv

\* takes its argument and frees its block,
LEMMA BareBeginInv ==
  ASSUME BareIndInv, NEW k \in Child, Bare!Begin(k)
  PROVE  BareIndInv'
  <1>1. Bare!TypeOK'
    BY DEF BareIndInv, Bare!TypeOK, Dropped, Bare!Begin, Bare!At, Bare!Free, Bare!Idle
  <1>2. ParentBusy'
    BY DEF BareIndInv, Bare!TypeOK, ParentBusy, Creating, Bare!Begin, Bare!At, Bare!Free, Bare!Idle
  <1>3. ASSUME NEW c \in Child
        PROVE  (Unused(c) /\ Unmade(c) /\ Made(c) /\ TaskScoped(c) /\ Dropped(c))'
    <2>1. Unused(c) /\ Unmade(c) /\ Made(c) /\ TaskScoped(c) /\ Dropped(c) /\ Bare!TypeOK
      BY DEF BareIndInv
    <2>2. Unused(c)' /\ Unmade(c)'
      BY <2>1 DEF Bare!TypeOK, Unused, Unmade, Creating, BlockHeld, BlockDone, ArgGiven, Bare!Begin, Bare!At, Bare!Free, Bare!Idle
    <2>3. Made(c)'
      BY <2>1 DEF Bare!TypeOK, Unused, Unmade, Made, Creating, BlockHeld, BlockDone, ArgGiven, Bare!Begin, Bare!At, Bare!Free, Bare!Idle
    <2>4. TaskScoped(c)' /\ Dropped(c)'
      BY <2>1 DEF Bare!TypeOK, Unused, Unmade, Made, TaskScoped, Dropped, Creating, ArgGiven, Bare!Begin, Bare!At, Bare!Free, Bare!Idle
    <2>. QED  BY <2>2, <2>3, <2>4
  <1>. QED  BY <1>1, <1>2, <1>3 DEF BareIndInv

\* drops its argument,
LEMMA BareReturnInv ==
  ASSUME BareIndInv, NEW k \in Child, Bare!Return(k)
  PROVE  BareIndInv'
  <1>1. Bare!TypeOK'
    <2>1. drops[k] = 0 /\ running' \in BOOLEAN /\ unwinding' \in BOOLEAN
      BY DEF BareIndInv, Bare!TypeOK, Made, Dropped, Bare!Return
    <2>. QED  BY <2>1 DEF BareIndInv, Bare!TypeOK, Bare!Return
  <1>2. ParentBusy'
    BY DEF BareIndInv, Bare!TypeOK, ParentBusy, Creating, Bare!Return, Bare!At, Bare!Free, Bare!Idle
  <1>3. ASSUME NEW c \in Child
        PROVE  (Unused(c) /\ Unmade(c) /\ Made(c) /\ TaskScoped(c) /\ Dropped(c))'
    <2>1. Unused(c) /\ Unmade(c) /\ Made(c) /\ TaskScoped(c) /\ Dropped(c) /\ Bare!TypeOK
      BY DEF BareIndInv
    <2>2. Unused(c)' /\ Unmade(c)'
      BY <2>1 DEF Bare!TypeOK, Unused, Unmade, Creating, BlockHeld, BlockDone, ArgGiven, Bare!Return, Bare!At, Bare!Free, Bare!Idle
    <2>3. Made(c)'
      BY <2>1 DEF Bare!TypeOK, Unused, Unmade, Made, Creating, BlockHeld, BlockDone, ArgGiven, Bare!Return, Bare!At, Bare!Free, Bare!Idle
    <2>4. TaskScoped(c)' /\ Dropped(c)'
      BY <2>1 DEF Bare!TypeOK, Unused, Unmade, Made, TaskScoped, Dropped, Creating, ArgGiven, Bare!Return, Bare!At, Bare!Free, Bare!Idle
    <2>. QED  BY <2>2, <2>3, <2>4
  <1>. QED  BY <1>1, <1>2, <1>3 DEF BareIndInv

\* and ends.
LEMMA BareDetachInv ==
  ASSUME BareIndInv, NEW k \in Child, Bare!Detach(k)
  PROVE  BareIndInv'
  <1>1. Bare!TypeOK'
    BY DEF BareIndInv, Bare!TypeOK, Dropped, Bare!Detach, Bare!At, Bare!Free, Bare!Idle
  <1>2. ParentBusy'
    BY DEF BareIndInv, Bare!TypeOK, ParentBusy, Creating, Bare!Detach, Bare!At, Bare!Free, Bare!Idle
  <1>3. ASSUME NEW c \in Child
        PROVE  (Unused(c) /\ Unmade(c) /\ Made(c) /\ TaskScoped(c) /\ Dropped(c))'
    <2>1. Unused(c) /\ Unmade(c) /\ Made(c) /\ TaskScoped(c) /\ Dropped(c) /\ Bare!TypeOK
      BY DEF BareIndInv
    <2>2. Unused(c)' /\ Unmade(c)'
      BY <2>1 DEF Bare!TypeOK, Unused, Unmade, Creating, BlockHeld, BlockDone, ArgGiven, Bare!Detach, Bare!At, Bare!Free, Bare!Idle
    <2>3. Made(c)'
      BY <2>1 DEF Bare!TypeOK, Unused, Unmade, Made, Creating, BlockHeld, BlockDone, ArgGiven, Bare!Detach, Bare!At, Bare!Free, Bare!Idle
    <2>4. TaskScoped(c)' /\ Dropped(c)'
      BY <2>1 DEF Bare!TypeOK, Unused, Unmade, Made, TaskScoped, Dropped, Creating, ArgGiven, Bare!Detach, Bare!At, Bare!Free, Bare!Idle
    <2>. QED  BY <2>2, <2>3, <2>4
  <1>. QED  BY <1>1, <1>2, <1>3 DEF BareIndInv

\* Every argument is found by its thread and dropped once, and every block freed once,
\* whichever allocation or thread creation fails.
THEOREM BareInvariant == MCSpec => []BareInv
  <1>1. MCInit => BareIndInv
    <2>. SUFFICES ASSUME Bare!Init PROVE BareIndInv
      BY DEF MCInit
    <2>1. Bare!TypeOK
      <3>1. unwinding \in BOOLEAN /\ running \in BOOLEAN
        BY Zenon DEF Bare!Init
      <3>2. bare_parent \in [at : {"idle", "creating", "waiting", "over"}, child : SUBSET Child]
        BY DEF Bare!Init, Bare!Idle
      <3>. QED  BY <3>1, <3>2 DEF Bare!TypeOK, Bare!Init
    <2>2. ParentBusy
      BY DEF Bare!Init, Bare!Idle, ParentBusy
    <2>3. \A c \in Child : Unused(c) /\ Unmade(c) /\ Made(c) /\ TaskScoped(c) /\ Dropped(c)
      BY DEF Bare!Init, Unused, Unmade, Made, TaskScoped, Dropped
    <2>. QED  BY <2>1, <2>2, <2>3 DEF BareIndInv
  <1>2. BareIndInv /\ [MCNext]_all => BareIndInv'
    <2>. SUFFICES ASSUME BareIndInv, [MCNext]_all PROVE BareIndInv'
      OBVIOUS
    <2>1. CASE UNCHANGED bare
      BY <2>1 DEF bare, BareIndInv, Bare!TypeOK, ParentBusy, Unused, Unmade, Made, TaskScoped, Dropped,
                  Creating, BlockHeld, BlockDone, ArgGiven
    <2>2. CASE Bare!Next
      <3>1. ASSUME NEW c \in Child, Bare!Spawn(c) \/ Bare!Start(c) PROVE BareIndInv'
        BY <3>1, BareSpawnInv, BareStartInv
      <3>2. ASSUME NEW c \in Child, Bare!Finish(c) PROVE BareIndInv'
        BY <3>2, BareCreatedInv, BareCreateFailsInv, BareDropUnclaimedInv, BareJoinInv, BareJoinedInv DEF Bare!Finish
      <3>3. ASSUME NEW c \in Child, Bare!Run(c) PROVE BareIndInv'
        BY <3>3, BareAttachInv, BareBeginInv, BareReturnInv, BareDetachInv DEF Bare!Run
      <3>4. CASE Bare!Open \/ Bare!Leave \/ Bare!Left \/ Bare!End
        BY <3>4, BareOpenInv, BareLeaveInv, BareLeftInv, BareEndInv
      <3>. QED  BY <2>2, <3>1, <3>2, <3>3, <3>4 DEF Bare!Next
    <2>. QED  BY <2>1, <2>2 DEF MCNext, all
  <1>3. BareIndInv => BareInv
    <2>. SUFFICES ASSUME BareIndInv PROVE Bare!Inv
      BY DEF BareInv
    <2>1. Bare!NothingLost
      BY DEF BareIndInv, Bare!NothingLost, ParentBusy, Bare!TypeOK, Unused, Unmade, Made, Dropped, Creating,
             BlockHeld, BlockDone, ArgGiven
    <2>2. Bare!ArgumentsReachable
      BY DEF BareIndInv, Bare!ArgumentsReachable, Bare!TypeOK, Made, TaskScoped, BlockHeld, ArgGiven
    <2>. QED  BY <2>1, <2>2 DEF BareIndInv, Bare!Inv
  <1>. QED  BY <1>1, <1>2, <1>3, PTL DEF MCSpec

-----------------------------------------------------------------------------
(* The pool: the inductive invariant.                                      *)

TaskFrame(k) == [kind |-> "task", id |-> k]
BlockFrame(s) == [kind |-> "block", id |-> s]
NoRepeat(z) == \A i, j \in DOMAIN z : z[i] = z[j] => i = j
HeldIn(st) == UNION {Range(st[t]) : t \in Thread}
HandIn(st) == UNION {{f.id : f \in {g \in Range(st[t]) : g.kind = "task"}} : t \in Thread}
Flight == Range(queue) \cup InHand

\* What a thread at a point p has on its stack z.
Fits(t, p, z) ==
    /\ t \in Worker => p \in {"new", "body", "spawned", "join", "dozing", "count", "last", "seek", "asleep", "gone"}
    /\ t \in Client => p \notin {"count", "last", "seek", "asleep", "gone"}
    /\ t \in Client \ {Owner} => p \notin {"init", "stop", "stopped", "reap"}
    /\ p \in {"new", "seek", "asleep", "gone", "init", "stop", "stopped", "reap", "over"} => z = <<>>
    /\ p \in {"spawned", "join", "dozing"} => z # <<>> /\ z[Len(z)].kind = "block"
    /\ p = "count" => z # <<>> /\ z[Len(z)].kind = "task"
    /\ p = "last" => z = <<>> \/ z[Len(z)].kind = "block"
    /\ t \in Worker /\ p = "body" => z # <<>>
PointsOK == \A t \in Thread : Fits(t, pc[t], stack[t])

\* The chain of parents, for any parents.
UpIn(par) == {S \in SUBSET DOMAIN par : \A n \in S : par[n] \in S \cup {0}}
ChainIn(par, s) == {n \in DOMAIN par : \A S \in UpIn(par) : s \in S => n \in S}

\* A client is in blocks alone; a worker is in a task first, and helps only at a join with
\* what is below it; a block's parent is the block of a task beneath it on the stack, and
\* a client's has none.
Nested(t, z, sc, par) ==
    /\ t \in Client => \A i \in DOMAIN z : z[i].kind = "block"
    /\ t \in Worker => \A i \in DOMAIN z : i = 1 => z[i].kind = "task"
    /\ \A i \in DOMAIN z : i # 1 /\ z[i].kind = "task" =>
          t \in Worker /\ z[i - 1].kind = "block" /\ z[i - 1].id \in ChainIn(par, sc[z[i].id])
    /\ \A i \in DOMAIN z : z[i].kind = "block" =>
          \/ t \in Client /\ par[z[i].id] = 0
          \/ \E j \in DOMAIN z : j < i /\ z[j].kind = "task" /\ par[z[i].id] = sc[z[j].id]
StacksNested == \A t \in Thread : Nested(t, stack[t], scope_of, parent)

\* Nothing is on two stacks or twice on one, nor queued twice, nor queued and run.
OnceIn(st) ==
    /\ \A t \in Thread : NoRepeat(st[t])
    /\ \A t, u \in Thread : t # u => Range(st[t]) \cap Range(st[u]) = {}
QueuedOnce == NoRepeat(queue) /\ Range(queue) \cap InHand = {}

\* A task not yet finished belongs to a block not yet left, and those blocks are the ones
\* some thread is in.
FlightScoped == \A k \in Flight : k \in DOMAIN scope_of /\ scope_of[k] \in live
LiveHeld == \A s \in Scope : s \in live <=> BlockFrame(s) \in HeldIn(stack)
Counted == \A s \in DOMAIN parent : pending[s] = Cardinality({k \in Flight : scope_of[k] = s})
ParentsOlder == \A s \in DOMAIN parent : parent[s] < s

\* The other clients are done with the pool, or never had it, unless its owner is in the
\* part of its life where it lends it.
OwnerAlone ==
    /\ pc[Owner] \in {"init", "stop", "stopped", "reap", "over"} =>
          \A c \in Client \ {Owner} : pc[c] \in {"new", "over"}
    /\ stopping => pc[Owner] \in {"stopped", "reap", "over"}

DataInv ==
    /\ TypeOK /\ StacksNested /\ OnceIn(stack) /\ QueuedOnce /\ FlightScoped /\ LiveHeld /\ Counted /\ ParentsOlder
PoolIndInv == DataInv /\ PointsOK /\ OwnerAlone /\ NoLostWakeup /\ StopsIdle

-----------------------------------------------------------------------------
(* The pool: sequences and stacks.                                         *)

Popped(z) == SubSeq(z, 1, Len(z) - 1)
Unlinked(z, i) == SubSeq(z, 1, i - 1) \o SubSeq(z, i + 1, Len(z))

\* What a push leaves of a sequence.
LEMMA PushFacts ==
  ASSUME NEW z \in Seq(Frame), NEW f \in Frame
  PROVE  /\ Append(z, f) \in Seq(Frame) /\ Append(z, f) # <<>>
         /\ Len(z) \in Nat /\ Len(Append(z, f)) = Len(z) + 1
         /\ DOMAIN Append(z, f) = 1 .. Len(z) + 1 /\ DOMAIN z = 1 .. Len(z)
         /\ \A i \in 1 .. Len(z) : Append(z, f)[i] = z[i]
         /\ Append(z, f)[Len(z) + 1] = f
         /\ \A x : x \in Range(Append(z, f)) <=> x \in Range(z) \/ x = f
  <1>0. PICK w : w = Append(z, f)
    OBVIOUS
  <1>1. /\ w \in Seq(Frame) /\ w # <<>> /\ Len(w) = Len(z) + 1 /\ Len(z) \in Nat
        /\ \A i \in 1 .. Len(z) : w[i] = z[i]
        /\ w[Len(z) + 1] = f
    BY <1>0, AppendProperties
  <1>2. DOMAIN w = 1 .. Len(z) + 1 /\ DOMAIN z = 1 .. Len(z)
    BY <1>1, LenProperties
  <1>3. Range(w) = Range(z) \cup {f}
    BY <1>1, <1>2 DEF Range
  <1>4. \A x : x \in Range(w) <=> x \in Range(z) \/ x = f
    BY <1>3
  <1>. QED  BY <1>0, <1>1, <1>2, <1>4

\* What a pop leaves of a sequence.
LEMMA PopFacts ==
  ASSUME NEW z \in Seq(Frame), z # <<>>
  PROVE  /\ Popped(z) \in Seq(Frame) /\ Len(Popped(z)) = Len(z) - 1 /\ Len(z) \in Nat \ {0}
         /\ DOMAIN Popped(z) = 1 .. Len(z) - 1 /\ DOMAIN z = 1 .. Len(z)
         /\ \A i \in 1 .. Len(z) - 1 : Popped(z)[i] = z[i]
         /\ z[Len(z)] \in Frame
         /\ NoRepeat(z) => /\ NoRepeat(Popped(z))
                           /\ \A x : x \in Range(Popped(z)) <=> x \in Range(z) /\ x # z[Len(z)]
  <1>0. PICK w : w = Popped(z)
    OBVIOUS
  <1>1. Len(z) \in Nat \ {0} /\ DOMAIN z = 1 .. Len(z) /\ \A i \in 1 .. Len(z) : z[i] \in Frame
    BY EmptySeq, LenProperties
  <1>2. PICK n \in Nat : n = Len(z) - 1
    <2>1. PICK m \in Nat \ {0} : m = Len(z)
      BY <1>1
    <2>. QED  BY <2>1
  <1>3. /\ w \in Seq(Frame) /\ Len(w) = n /\ \A i \in 1 .. n : w[i] = z[i]
    <2>1. w = SubSeq(z, 1, n) /\ 1 \in Int /\ n \in Int /\ \A i \in 1 .. n : z[i] \in Frame
      BY <1>0, <1>1, <1>2 DEF Popped
    <2>2. /\ SubSeq(z, 1, n) \in Seq(Frame) /\ Len(SubSeq(z, 1, n)) = (IF 1 <= n THEN n - 1 + 1 ELSE 0)
          /\ \A i \in 1 .. n - 1 + 1 : SubSeq(z, 1, n)[i] = z[1 + i - 1]
      BY <2>1, SubSeqProperties
    <2>. QED  BY <2>1, <2>2
  <1>4. DOMAIN w = 1 .. n
    BY <1>3, LenProperties
  <1>5. ASSUME NoRepeat(z) PROVE NoRepeat(w) /\ \A x : x \in Range(w) <=> x \in Range(z) /\ x # z[Len(z)]
    <2>1. NoRepeat(w)
      BY <1>1, <1>2, <1>3, <1>4, <1>5 DEF NoRepeat
    <2>2. ASSUME NEW x \in Range(w) PROVE x \in Range(z) /\ x # z[Len(z)]
      <3>1. PICK i \in 1 .. n : x = w[i]
        BY <1>4 DEF Range
      <3>0. PICK m \in Nat \ {0} : m = Len(z)
        BY <1>1
      <3>2. i \in 1 .. m /\ m \in 1 .. m /\ i # m
        <4>1. i \in Int /\ 1 <= i /\ i <= n /\ n = m - 1
          BY <1>2, <3>0
        <4>. QED  BY <4>1
      <3>3. x = z[i] /\ i \in DOMAIN z /\ Len(z) \in DOMAIN z /\ i # Len(z)
        BY <1>1, <1>3, <3>0, <3>1, <3>2
      <3>. QED  BY <1>5, <3>3 DEF NoRepeat, Range
    <2>3. ASSUME NEW x \in Range(z), x # z[Len(z)] PROVE x \in Range(w)
      <3>1. PICK i \in 1 .. Len(z) : x = z[i]
        BY <1>1 DEF Range
      <3>2. i \in 1 .. n
        BY <1>1, <1>2, <2>3, <3>1
      <3>. QED  BY <1>3, <1>4, <3>1, <3>2 DEF Range
    <2>. QED  BY <2>1, <2>2, <2>3
  <1>6. z[Len(z)] \in Frame
    BY <1>1
  <1>. QED  BY <1>0, <1>1, <1>2, <1>3, <1>4, <1>5, <1>6

\* What unlinking its i-th item leaves of a sequence.
LEMMA UnlinkFacts ==
  ASSUME NEW z \in Seq(Task), NoRepeat(z), NEW i \in DOMAIN z
  PROVE  /\ Unlinked(z, i) \in Seq(Task) /\ NoRepeat(Unlinked(z, i))
         /\ \A x : x \in Range(Unlinked(z, i)) <=> x \in Range(z) /\ x # z[i]
  <1>w. PICK w : w = Unlinked(z, i)
    OBVIOUS
  <1>1. Len(z) \in Nat /\ DOMAIN z = 1 .. Len(z) /\ \A j \in 1 .. Len(z) : z[j] \in Task
    BY LenProperties
  <1>0. PICK m \in Nat : m = Len(z)
    BY <1>1
  <1>2. i \in Nat /\ 1 <= i /\ i <= m
    BY <1>0, <1>1
  <1>. DEFINE a == SubSeq(z, 1, i - 1)
              b == SubSeq(z, i + 1, Len(z))
  <1>3. a \in Seq(Task) /\ Len(a) = i - 1 /\ \A j \in 1 .. i - 1 : a[j] = z[j]
    <2>1. 1 \in Int /\ i - 1 \in Int /\ \A j \in 1 .. i - 1 : z[j] \in Task
      BY <1>0, <1>1, <1>2
    <2>2. /\ a \in Seq(Task) /\ Len(a) = (IF 1 <= i - 1 THEN i - 1 - 1 + 1 ELSE 0)
          /\ \A j \in 1 .. i - 1 - 1 + 1 : a[j] = z[1 + j - 1]
      BY <1>0, <2>1, SubSeqProperties
    <2>. QED  BY <1>2, <2>2
  <1>4. b \in Seq(Task) /\ Len(b) = m - i /\ \A j \in 1 .. m - i : b[j] = z[i + j]
    <2>1. i + 1 \in Int /\ m \in Int /\ \A j \in i + 1 .. m : z[j] \in Task
      BY <1>0, <1>1, <1>2
    <2>2. /\ b \in Seq(Task) /\ Len(b) = (IF i + 1 <= m THEN m - (i + 1) + 1 ELSE 0)
          /\ \A j \in 1 .. m - (i + 1) + 1 : b[j] = z[i + 1 + j - 1]
      BY <1>0, <2>1, SubSeqProperties
    <2>. HIDE DEF b
    <2>3. Len(b) = m - i
      BY <1>2, <2>2
    <2>4. ASSUME NEW j \in 1 .. m - i PROVE b[j] = z[i + j]
      <3>1. j \in Int /\ 1 <= j /\ j <= m - i
        BY <1>2
      <3>2. j \in 1 .. m - (i + 1) + 1 /\ i + 1 + j - 1 = i + j
        BY <1>2, <3>1
      <3>3. b[j] = z[i + 1 + j - 1]
        BY <2>2, <3>2
      <3>. QED  BY ONLY <3>2, <3>3
    <2>. QED  BY <2>2, <2>3, <2>4
  <1>5. /\ w \in Seq(Task) /\ Len(w) = m - 1
        /\ \A j \in 1 .. m - 1 : w[j] = IF j < i THEN z[j] ELSE z[j + 1]
    <2>1. /\ w \in Seq(Task) /\ Len(w) = Len(a) + Len(b)
          /\ \A j \in 1 .. Len(a) + Len(b) : w[j] = IF j <= Len(a) THEN a[j] ELSE b[j - Len(a)]
      BY <1>w, <1>3, <1>4, ConcatProperties DEF Unlinked
    <2>. HIDE DEF a, b
    <2>2. Len(w) = m - 1
      <3>1. Len(a) = i - 1 /\ Len(b) = m - i /\ Len(w) = Len(a) + Len(b)
        BY <1>3, <1>4, <2>1
      <3>. QED  BY ONLY <1>2, <3>1, m \in Nat
    <2>3. ASSUME NEW j \in 1 .. m - 1 PROVE w[j] = IF j < i THEN z[j] ELSE z[j + 1]
      <3>1. j \in 1 .. Len(a) + Len(b) /\ j \in Nat
        BY <1>0, <1>1, <1>2, <1>3, <1>4
      <3>2. CASE j < i
        BY <1>2, <1>3, <2>1, <3>1, <3>2
      <3>3. CASE ~(j < i)
        <4>0. PICK la \in Int : la = Len(a) /\ la = i - 1
          BY <1>2, <1>3
        <4>1. PICK x \in Int : x = j - la
          BY <4>0
        <4>2. ~(j <= la)
          BY ONLY <1>2, <3>1, <3>3, <4>0
        <4>3. w[j] = b[x]
          BY <2>1, <3>1, <4>0, <4>1, <4>2
        <4>4. j <= m - 1 /\ j \in Int
          BY <3>1
        <4>5. x \in 1 .. m - i /\ i + x = j + 1
          BY ONLY <1>2, <3>3, <4>0, <4>1, <4>4, m \in Nat
        <4>. QED  BY <1>4, <3>3, <4>3, <4>5
      <3>. QED  BY <3>2, <3>3
    <2>. QED  BY <2>1, <2>2, <2>3
  <1>. HIDE DEF a, b
  <1>6. DOMAIN w = 1 .. m - 1
    BY <1>0, <1>1, <1>5, LenProperties
  <1>7. NoRepeat(w)
    <2>. SUFFICES ASSUME NEW j \in DOMAIN w, NEW k \in DOMAIN w, w[j] = w[k] PROVE j = k
      BY DEF NoRepeat
    <2>0. j \in 1 .. m - 1 /\ k \in 1 .. m - 1
      BY <1>6
    <2>1. j \in 1 .. m - 1 /\ k \in 1 .. m - 1 /\ j \in Nat /\ k \in Nat
      BY ONLY <2>0, m \in Nat
    <2>2. PICK x \in 1 .. m : x = IF j < i THEN j ELSE j + 1
      BY <1>0, <1>1, <1>2, <2>1
    <2>3. PICK y \in 1 .. m : y = IF k < i THEN k ELSE k + 1
      BY <1>0, <1>1, <1>2, <2>1
    <2>4. w[j] = z[x] /\ w[k] = z[y]
      BY <1>5, <2>1, <2>2, <2>3
    <2>5. x = y
      BY <1>0, <1>1, <2>4 DEF NoRepeat
    <2>. QED  BY <1>2, <2>1, <2>2, <2>3, <2>5
  <1>8. ASSUME NEW x \in Range(w) PROVE x \in Range(z) /\ x # z[i]
    <2>1. PICK j \in 1 .. m - 1 : x = w[j]
      BY <1>6 DEF Range
    <2>2. PICK y \in 1 .. m : y = IF j < i THEN j ELSE j + 1
      BY <1>0, <1>1, <1>2, <2>1
    <2>3. x = z[y] /\ y # i
      BY <1>0, <1>1, <1>2, <1>5, <2>1, <2>2
    <2>. QED  BY <1>0, <1>1, <2>3 DEF NoRepeat, Range
  <1>9. ASSUME NEW x \in Range(z), x # z[i] PROVE x \in Range(w)
    <2>1. PICK y \in 1 .. m : x = z[y]
      BY <1>0, <1>1 DEF Range
    <2>2. y # i
      BY <1>9, <2>1
    <2>3. PICK j \in 1 .. m - 1 : y = IF j < i THEN j ELSE j + 1
      <3>1. CASE y < i
        BY <1>0, <1>1, <1>2, <2>1, <3>1
      <3>2. CASE y > i
        <4>1. y - 1 \in 1 .. m - 1 /\ ~(y - 1 < i) /\ y = y - 1 + 1
          BY <1>0, <1>1, <1>2, <2>1, <3>2
        <4>. QED  BY <4>1
      <3>. QED  BY <1>0, <1>1, <1>2, <2>2, <3>1, <3>2
    <2>4. x = w[j]
      BY <1>5, <2>1, <2>3
    <2>. QED  BY <1>6, <2>4 DEF Range
  <1>. QED  BY <1>w, <1>5, <1>7, <1>8, <1>9

\* A sequence without repetition is as long as it has items.
LEMMA RangeSize ==
  ASSUME NEW z \in Seq(Task), NoRepeat(z)
  PROVE  Len(z) = Cardinality(Range(z)) /\ IsFiniteSet(Range(z))
  <1>1. Len(z) \in Nat /\ DOMAIN z = 1 .. Len(z) /\ z \in [1 .. Len(z) -> Task]
    BY LenProperties
  <1>2. z \in Bijection(1 .. Len(z), Range(z))
    BY <1>1 DEF Bijection, Injection, Surjection, NoRepeat, Range, IsInjective
  <1>3. IsFiniteSet(1 .. Len(z)) /\ Cardinality(1 .. Len(z)) = Len(z)
    BY <1>1, FS_Interval
  <1>4. ExistsBijection(1 .. Len(z), Range(z))
    BY <1>2 DEF ExistsBijection
  <1>. QED  BY <1>3, <1>4, FS_Bijection

\* A set of numbers has a least one.
LEMMA LeastOf ==
  ASSUME NEW T, T \subseteq Nat, T # {}
  PROVE  \E x \in T : \A y \in T : x <= y
  <1>1. PICK R : R = {ss \in Nat \X Nat : ss[1] < ss[2]}
    OBVIOUS
  <1>2. IsWellFoundedOn(R, Nat)
    BY <1>1, NatLessThanWellFounded, Zenon DEF OpToRel
  <1>3. PICK x \in T : \A y \in T : ~(<<y, x>> \in R)
    BY <1>2, WFMin
  <1>4. ASSUME NEW y \in T, ~(x <= y) PROVE FALSE
    <2>1. x \in Nat /\ y \in Nat /\ y < x
      BY <1>4
    <2>2. <<y, x>> \in Nat \X Nat /\ <<y, x>>[1] = y /\ <<y, x>>[2] = x
      BY <2>1
    <2>3. <<y, x>> \in R
      BY <1>1, <2>1, <2>2
    <2>. QED  BY <1>3, <2>3
  <1>. QED  BY <1>4

\* A set of places has a greatest one.
LEMMA GreatestPlace ==
  ASSUME NEW n \in Nat, NEW T, T \subseteq 1 .. n, T # {}
  PROVE  \E x \in T : \A y \in T : y <= x
  <1>0. \A x \in T : n - x \in Nat
    <2>1. ASSUME NEW x \in T PROVE n - x \in Nat
      <3>1. x \in 1 .. n
        OBVIOUS
      <3>. QED  BY ONLY <3>1, n \in Nat
    <2>. QED  BY <2>1
  <1>1. PICK Far : Far = {n - x : x \in T}
    OBVIOUS
  <1>2. Far \subseteq Nat /\ Far # {}
    <2>1. Far \subseteq Nat
      BY ONLY <1>0, <1>1
    <2>2. PICK x : x \in T
      OBVIOUS
    <2>3. n - x \in Far
      BY ONLY <1>1, <2>2
    <2>. QED  BY ONLY <2>1, <2>3
  <1>3. PICK d \in Far : \A e \in Far : d <= e
    BY <1>2, LeastOf
  <1>4. PICK x \in T : d = n - x
    BY <1>1
  <1>5. ASSUME NEW y \in T PROVE y <= x
    <2>1. PICK e \in Nat : e = n - y
      OBVIOUS
    <2>2. e \in Far
      BY <1>1, <2>1
    <2>3. d <= e
      BY <1>3, <2>2
    <2>4. x \in Int /\ y \in Int
      OBVIOUS
    <2>. QED  BY ONLY <1>4, <2>1, <2>3, <2>4, n \in Nat
  <1>. QED  BY <1>5

\* A frame is a task's or a block's.
LEMMA FrameFacts ==
  /\ \A k \in Task : TaskFrame(k) \in Frame /\ TaskFrame(k).kind = "task" /\ TaskFrame(k).id = k
  /\ \A s \in Scope : BlockFrame(s) \in Frame /\ BlockFrame(s).kind = "block" /\ BlockFrame(s).id = s
  /\ \A f \in Frame : \/ f.kind = "task" /\ f.id \in Task /\ f = TaskFrame(f.id)
                      \/ f.kind = "block" /\ f.id \in Scope /\ f = BlockFrame(f.id)
  BY DEF Frame, TaskFrame, BlockFrame

\* The items of a stack are frames, and held.
LEMMA HeldItem ==
  ASSUME NEW st \in [Thread -> Seq(Frame)], NEW t \in Thread, NEW i \in DOMAIN st[t]
  PROVE  st[t][i] \in Frame /\ st[t][i] \in Range(st[t]) /\ st[t][i] \in HeldIn(st)
  <1>1. st[t] \in Seq(Frame) /\ DOMAIN st[t] = 1 .. Len(st[t])
    BY LenProperties
  <1>2. st[t][i] \in Frame
    BY <1>1, ElementOfSeq
  <1>3. st[t][i] \in Range(st[t])
    BY DEF Range
  <1>. QED  BY <1>2, <1>3 DEF HeldIn

\* The tasks in hand are those with a frame.
LEMMA HandTasks ==
  ASSUME NEW st \in [Thread -> Seq(Frame)]
  PROVE  HandIn(st) = {k \in Task : TaskFrame(k) \in HeldIn(st)}
  <1>1. ASSUME NEW k \in HandIn(st) PROVE k \in Task /\ TaskFrame(k) \in HeldIn(st)
    <2>1. PICK t \in Thread : k \in {f.id : f \in {g \in Range(st[t]) : g.kind = "task"}}
      BY DEF HandIn
    <2>2. PICK f \in Range(st[t]) : f.kind = "task" /\ f.id = k
      BY <2>1
    <2>3. f \in HeldIn(st) /\ f \in Frame
      <3>1. PICK i \in DOMAIN st[t] : f = st[t][i]
        BY DEF Range
      <3>. QED  BY <3>1, HeldItem
    <2>. QED  BY <2>2, <2>3, FrameFacts
  <1>2. ASSUME NEW k \in Task, TaskFrame(k) \in HeldIn(st) PROVE k \in HandIn(st)
    <2>1. PICK t \in Thread : TaskFrame(k) \in Range(st[t])
      BY <1>2 DEF HeldIn
    <2>2. TaskFrame(k).kind = "task" /\ TaskFrame(k).id = k
      BY FrameFacts
    <2>3. k \in {f.id : f \in {g \in Range(st[t]) : g.kind = "task"}}
      BY <2>1, <2>2
    <2>. QED  BY <2>3 DEF HandIn
  <1>. QED  BY <1>1, <1>2

\* A frame pushed that nobody holds is held once.
LEMMA PushHeld ==
  ASSUME stack \in [Thread -> Seq(Frame)], OnceIn(stack), NEW t \in Thread, NEW f \in Frame, f \notin HeldIn(stack),
         stack' = [stack EXCEPT ![t] = Append(@, f)]
  PROVE  /\ stack' \in [Thread -> Seq(Frame)] /\ stack'[t] = Append(stack[t], f)
         /\ \A u \in Thread \ {t} : stack'[u] = stack[u]
         /\ HeldIn(stack') = HeldIn(stack) \cup {f} /\ OnceIn(stack')
  <1>1. /\ stack'[t] = Append(stack[t], f) /\ stack[t] \in Seq(Frame) /\ \A u \in Thread \ {t} : stack'[u] = stack[u]
    OBVIOUS
  <1>2. PICK z \in Seq(Frame) : z = stack[t]
    BY <1>1
  <1>3. PICK m \in Nat : m = Len(z)
    BY PushFacts
  <1>4. PICK w : w = Append(z, f)
    OBVIOUS
  <1>5. /\ w \in Seq(Frame) /\ DOMAIN w = 1 .. m + 1 /\ DOMAIN z = 1 .. m
        /\ \A i \in 1 .. m : w[i] = z[i]
        /\ w[m + 1] = f /\ \A x : x \in Range(w) <=> x \in Range(z) \/ x = f
    BY <1>3, <1>4, PushFacts
  <1>6. stack' \in [Thread -> Seq(Frame)]
    BY <1>1, <1>2, <1>4, <1>5
  <1>7. \A u \in Thread : \A x : x \in Range(stack'[u]) <=> x \in Range(stack[u]) \/ (u = t /\ x = f)
    BY <1>1, <1>2, <1>4, <1>5
  <1>8. HeldIn(stack') = HeldIn(stack) \cup {f}
    <2>1. ASSUME NEW x PROVE x \in HeldIn(stack') <=> x \in HeldIn(stack) \/ x = f
      <3>1. x \in HeldIn(stack') <=> \E u \in Thread : x \in Range(stack'[u])
        BY DEF HeldIn
      <3>2. x \in HeldIn(stack) <=> \E u \in Thread : x \in Range(stack[u])
        BY DEF HeldIn
      <3>. QED  BY <1>7, <3>1, <3>2
    <2>. QED  BY <2>1
  <1>9. NoRepeat(w)
    <2>. SUFFICES ASSUME NEW i \in DOMAIN w, NEW j \in DOMAIN w, w[i] = w[j], i # j PROVE FALSE
      BY DEF NoRepeat
    <2>1. \A x \in 1 .. m : w[x] = z[x] /\ x \in DOMAIN z /\ z[x] # f
      BY <1>2, <1>5, HeldItem
    <2>2. i \in 1 .. m \/ i = m + 1
      BY <1>5
    <2>3. j \in 1 .. m \/ j = m + 1
      BY <1>5
    <2>4. NoRepeat(z)
      BY <1>2 DEF OnceIn
    <2>. QED  BY <1>5, <2>1, <2>2, <2>3, <2>4 DEF NoRepeat
  <1>10. OnceIn(stack')
    <2>1. \A u \in Thread : f \notin Range(stack[u])
      BY DEF HeldIn
    <2>2. ASSUME NEW u \in Thread PROVE NoRepeat(stack'[u])
      BY <1>1, <1>2, <1>4, <1>9 DEF OnceIn
    <2>3. ASSUME NEW u \in Thread, NEW v \in Thread, u # v PROVE Range(stack'[u]) \cap Range(stack'[v]) = {}
      <3>1. Range(stack[u]) \cap Range(stack[v]) = {}
        BY <2>3 DEF OnceIn
      <3>. QED  BY <1>7, <2>1, <2>3, <3>1
    <2>. QED  BY <2>2, <2>3 DEF OnceIn
  <1>. QED  BY <1>1, <1>6, <1>8, <1>10

\* A frame popped is held no more.
LEMMA PopHeld ==
  ASSUME stack \in [Thread -> Seq(Frame)], OnceIn(stack), NEW t \in Thread, stack[t] # <<>>, Pop(t)
  PROVE  /\ stack' \in [Thread -> Seq(Frame)] /\ stack'[t] = Popped(stack[t])
         /\ \A u \in Thread \ {t} : stack'[u] = stack[u]
         /\ HeldIn(stack') = HeldIn(stack) \ {Top(t)} /\ OnceIn(stack')
  <1>1. /\ stack'[t] = Popped(stack[t]) /\ stack[t] \in Seq(Frame) /\ \A u \in Thread \ {t} : stack'[u] = stack[u]
    BY DEF Pop, Popped
  <1>2. PICK z \in Seq(Frame) : z = stack[t] /\ z # <<>>
    BY <1>1
  <1>3. PICK f : f = z[Len(z)]
    OBVIOUS
  <1>4. PICK w : w = Popped(z)
    OBVIOUS
  <1>5. NoRepeat(z)
    BY <1>2 DEF OnceIn
  <1>6. /\ w \in Seq(Frame) /\ NoRepeat(w) /\ \A x : x \in Range(w) <=> x \in Range(z) /\ x # f
        /\ Len(z) \in Nat \ {0} /\ DOMAIN z = 1 .. Len(z)
    BY <1>2, <1>3, <1>4, <1>5, PopFacts
  <1>7. stack' \in [Thread -> Seq(Frame)]
    <2>1. \A u \in Thread : stack'[u] \in Seq(Frame)
      BY <1>1, <1>2, <1>4, <1>6
    <2>2. stack' = [stack EXCEPT ![t] = SubSeq(@, 1, Len(@) - 1)]
      BY DEF Pop
    <2>. QED  BY <2>1, <2>2
  <1>8. f \in Range(stack[t]) /\ \A u \in Thread \ {t} : f \notin Range(stack[u])
    <2>1. Len(z) \in DOMAIN z
      BY <1>6
    <2>2. f \in Range(stack[t])
      BY <1>2, <1>3, <2>1 DEF Range
    <2>. QED  BY <2>2 DEF OnceIn
  <1>9. \A u \in Thread : \A x : x \in Range(stack'[u]) <=> x \in Range(stack[u]) /\ ~(u = t /\ x = f)
    BY <1>1, <1>2, <1>4, <1>6
  <1>10. HeldIn(stack') = HeldIn(stack) \ {f}
    <2>1. ASSUME NEW x PROVE x \in HeldIn(stack') <=> x \in HeldIn(stack) /\ x # f
      <3>1. x \in HeldIn(stack') <=> \E u \in Thread : x \in Range(stack'[u])
        BY DEF HeldIn
      <3>2. x \in HeldIn(stack) <=> \E u \in Thread : x \in Range(stack[u])
        BY DEF HeldIn
      <3>. QED  BY <1>8, <1>9, <3>1, <3>2
    <2>. QED  BY <2>1
  <1>11. OnceIn(stack')
    <2>1. ASSUME NEW u \in Thread PROVE NoRepeat(stack'[u])
      BY <1>1, <1>2, <1>4, <1>6 DEF OnceIn
    <2>2. ASSUME NEW u \in Thread, NEW v \in Thread, u # v PROVE Range(stack'[u]) \cap Range(stack'[v]) = {}
      <3>1. Range(stack[u]) \cap Range(stack[v]) = {}
        BY <2>2 DEF OnceIn
      <3>. QED  BY <1>9, <3>1
    <2>. QED  BY <2>1, <2>2 DEF OnceIn
  <1>. QED  BY <1>1, <1>2, <1>3, <1>7, <1>10, <1>11 DEF Top

-----------------------------------------------------------------------------
(* The pool: chains of parents and what they nest.                         *)

\* A block opened leaves the chains of the others as they were.
LEMMA ChainGrows ==
  ASSUME NEW par \in Seq(Scope \cup {0}), NEW p \in Scope \cup {0},
         \A n \in DOMAIN par : par[n] \in DOMAIN par \cup {0}, NEW s \in DOMAIN par
  PROVE  ChainIn(Append(par, p), s) = ChainIn(par, s)
  <1>0. PICK par2 : par2 = Append(par, p)
    OBVIOUS
  <1>1. PICK m \in Nat : m = Len(par)
    BY LenProperties
  <1>2. DOMAIN par = 1 .. m /\ DOMAIN par2 = 1 .. m + 1 /\ \A n \in 1 .. m : par2[n] = par[n]
    BY <1>0, <1>1, AppendProperties, LenProperties
  <1>3. DOMAIN par \subseteq DOMAIN par2 /\ \A n \in DOMAIN par : par2[n] = par[n]
    BY <1>2
  <1>4. UpIn(par) \subseteq UpIn(par2)
    BY <1>3 DEF UpIn
  <1>5. DOMAIN par \in UpIn(par)
    BY DEF UpIn
  <1>6. ASSUME NEW Q \in UpIn(par2) PROVE Q \cap DOMAIN par \in UpIn(par)
    BY <1>3, <1>6 DEF UpIn
  <1>7. ASSUME NEW n \in ChainIn(par2, s) PROVE n \in ChainIn(par, s)
    <2>1. n \in DOMAIN par
      BY <1>4, <1>5 DEF ChainIn
    <2>. QED  BY <1>4, <2>1 DEF ChainIn
  <1>8. ASSUME NEW n \in ChainIn(par, s) PROVE n \in ChainIn(par2, s)
    <2>1. n \in DOMAIN par2
      BY <1>3 DEF ChainIn
    <2>2. ASSUME NEW Q \in UpIn(par2), s \in Q PROVE n \in Q
      BY <1>6, <2>2 DEF ChainIn
    <2>. QED  BY <2>1, <2>2 DEF ChainIn
  <1>. QED  BY <1>0, <1>7, <1>8

\* Every set of blocks that holds the parents of its blocks holds their chains.
LEMMA ChainWithin ==
  ASSUME NEW par, NEW Q \in UpIn(par), NEW s \in Q
  PROVE  ChainIn(par, s) \subseteq Q
  BY DEF ChainIn

\* What a stack names has been spawned and opened.
Known(z, sc, par) ==
    /\ \A i \in DOMAIN z : z[i].kind = "task" => z[i].id \in DOMAIN sc /\ sc[z[i].id] \in DOMAIN par
    /\ \A i \in DOMAIN z : z[i].kind = "block" => z[i].id \in DOMAIN par

\* A stack stays nested when tasks are spawned and blocks opened elsewhere.
LEMMA NestedKept ==
  ASSUME NEW t, NEW z, NEW sc, NEW par, NEW sc2, NEW par2, Nested(t, z, sc, par), Known(z, sc, par),
         \A k \in DOMAIN sc : sc2[k] = sc[k], \A n \in DOMAIN par : par2[n] = par[n],
         \A n \in DOMAIN par : ChainIn(par2, n) = ChainIn(par, n)
  PROVE  Nested(t, z, sc2, par2)
  <1>1. ASSUME NEW i \in DOMAIN z, i # 1, z[i].kind = "task"
        PROVE  t \in Worker /\ z[i - 1].kind = "block" /\ z[i - 1].id \in ChainIn(par2, sc2[z[i].id])
    BY <1>1 DEF Nested, Known
  <1>2. ASSUME NEW i \in DOMAIN z, z[i].kind = "block"
        PROVE  \/ t \in Client /\ par2[z[i].id] = 0
               \/ \E j \in DOMAIN z : j < i /\ z[j].kind = "task" /\ par2[z[i].id] = sc2[z[j].id]
    BY <1>2 DEF Nested, Known
  <1>. QED  BY <1>1, <1>2 DEF Nested

\* A block opened nests in the task, if any, that opens it.
LEMMA NestedPushBlock ==
  ASSUME NEW t, t \in Worker => t \notin Client, NEW z \in Seq(Frame), NEW sc, NEW par, NEW s \in Scope,
         Nested(t, z, sc, par), t \in Worker => z # <<>>,
         \/ t \in Client /\ par[s] = 0
         \/ \E j \in DOMAIN z : z[j].kind = "task" /\ par[s] = sc[z[j].id]
  PROVE  Nested(t, Append(z, BlockFrame(s)), sc, par)
  <1>0. PICK w : w = Append(z, BlockFrame(s))
    OBVIOUS
  <1>1. PICK m \in Nat : m = Len(z)
    BY LenProperties
  <1>2. PICK f \in Frame : f = BlockFrame(s) /\ f.kind = "block" /\ f.id = s
    BY FrameFacts
  <1>3. DOMAIN z = 1 .. m /\ DOMAIN w = 1 .. m + 1 /\ w[m + 1] = f /\ \A i \in 1 .. m : w[i] = z[i]
    BY <1>0, <1>1, <1>2, PushFacts
  <1>4. z # <<>> => m # 0
    BY <1>1, EmptySeq
  <1>5. \A i \in DOMAIN w : (i \in DOMAIN z /\ w[i] = z[i]) \/ (i = m + 1 /\ w[i] = f)
    <2>. TAKE i \in DOMAIN w
    <2>1. i \in 1 .. m \/ i = m + 1
      BY <1>3
    <2>2. CASE i \in 1 .. m
      BY <1>3, <2>2
    <2>3. CASE i = m + 1
      BY ONLY <1>3, <2>3
    <2>. QED  BY ONLY <2>1, <2>2, <2>3
  <1>6. \A i \in DOMAIN z : i \in DOMAIN w /\ w[i] = z[i] /\ i < m + 1
    BY <1>3
  <1>7. t \in Client => \A i \in DOMAIN w : w[i].kind = "block"
    BY <1>2, <1>5 DEF Nested
  <1>8. t \in Worker => \A i \in DOMAIN w : i = 1 => w[i].kind = "task"
    BY <1>4, <1>5 DEF Nested
  <1>9. ASSUME NEW i \in DOMAIN w, i # 1, w[i].kind = "task"
        PROVE  t \in Worker /\ w[i - 1].kind = "block" /\ w[i - 1].id \in ChainIn(par, sc[w[i].id])
    <2>1. i \in DOMAIN z /\ w[i] = z[i]
      BY <1>2, <1>5, <1>9
    <2>2. i - 1 \in DOMAIN z
      BY <1>3, <1>9, <2>1
    <2>3. w[i - 1] = z[i - 1]
      BY <1>6, <2>2
    <2>. QED  BY <1>9, <2>1, <2>3 DEF Nested
  <1>10. ASSUME NEW i \in DOMAIN w, w[i].kind = "block"
        PROVE  \/ t \in Client /\ par[w[i].id] = 0
               \/ \E j \in DOMAIN w : j < i /\ w[j].kind = "task" /\ par[w[i].id] = sc[w[j].id]
    <2>1. CASE i \in DOMAIN z /\ w[i] = z[i]
      BY <1>6, <1>10, <2>1 DEF Nested
    <2>2. CASE i = m + 1 /\ w[i] = f
      BY <1>2, <1>6, <2>2
    <2>. QED  BY <1>5, <2>1, <2>2
  <1>11. Nested(t, w, sc, par)
    BY <1>7, <1>8, <1>9, <1>10 DEF Nested
  <1>. QED  BY <1>0, <1>11

\* A task taken nests in the join that helps, if any.
LEMMA NestedPushTask ==
  ASSUME NEW t \in Worker, t \notin Client, NEW z \in Seq(Frame), NEW sc, NEW par, NEW k \in Task,
         Nested(t, z, sc, par),
         \/ z = <<>>
         \/ z # <<>> /\ z[Len(z)].kind = "block" /\ z[Len(z)].id \in ChainIn(par, sc[k])
  PROVE  Nested(t, Append(z, TaskFrame(k)), sc, par)
  <1>0. PICK w : w = Append(z, TaskFrame(k))
    OBVIOUS
  <1>1. PICK m \in Nat : m = Len(z)
    BY LenProperties
  <1>2. PICK f \in Frame : f = TaskFrame(k) /\ f.kind = "task" /\ f.id = k
    BY FrameFacts
  <1>3. DOMAIN z = 1 .. m /\ DOMAIN w = 1 .. m + 1 /\ w[m + 1] = f /\ \A i \in 1 .. m : w[i] = z[i]
    BY <1>0, <1>1, <1>2, PushFacts
  <1>4. z = <<>> => m = 0
    BY <1>1, EmptySeq
  <1>5. \A i \in DOMAIN w : (i \in DOMAIN z /\ w[i] = z[i]) \/ (i = m + 1 /\ w[i] = f)
    <2>. TAKE i \in DOMAIN w
    <2>1. i \in 1 .. m \/ i = m + 1
      BY <1>3
    <2>2. CASE i \in 1 .. m
      BY <1>3, <2>2
    <2>3. CASE i = m + 1
      BY ONLY <1>3, <2>3
    <2>. QED  BY ONLY <2>1, <2>2, <2>3
  <1>6. \A i \in DOMAIN z : i \in DOMAIN w /\ w[i] = z[i]
    BY <1>3
  <1>8. t \in Worker => \A i \in DOMAIN w : i = 1 => w[i].kind = "task"
    BY <1>2, <1>5 DEF Nested
  <1>9. ASSUME NEW i \in DOMAIN w, i # 1, w[i].kind = "task"
        PROVE  t \in Worker /\ w[i - 1].kind = "block" /\ w[i - 1].id \in ChainIn(par, sc[w[i].id])
    <2>1. CASE i \in DOMAIN z /\ w[i] = z[i]
      <3>1. i - 1 \in DOMAIN z
        BY <1>3, <1>9, <2>1
      <3>2. w[i - 1] = z[i - 1]
        BY <1>6, <3>1
      <3>. QED  BY <1>9, <2>1, <3>2 DEF Nested
    <2>2. CASE i = m + 1 /\ w[i] = f
      <3>1. m # 0 /\ i - 1 = m
        BY <1>9, <2>2
      <3>2. z[m].kind = "block" /\ z[m].id \in ChainIn(par, sc[k]) /\ m \in DOMAIN z
        BY <1>1, <1>3, <1>4, <3>1
      <3>. QED  BY <1>2, <1>6, <2>2, <3>1, <3>2
    <2>. QED  BY <1>5, <2>1, <2>2
  <1>10. ASSUME NEW i \in DOMAIN w, w[i].kind = "block"
        PROVE  \/ t \in Client /\ par[w[i].id] = 0
               \/ \E j \in DOMAIN w : j < i /\ w[j].kind = "task" /\ par[w[i].id] = sc[w[j].id]
    <2>1. i \in DOMAIN z /\ w[i] = z[i]
      BY <1>2, <1>5, <1>10
    <2>. QED  BY <1>6, <1>10, <2>1 DEF Nested
  <1>11. Nested(t, w, sc, par)
    BY <1>8, <1>9, <1>10 DEF Nested
  <1>. QED  BY <1>0, <1>11

\* What is left of a nested stack is nested.
LEMMA NestedPop ==
  ASSUME NEW t, NEW z \in Seq(Frame), z # <<>>, NEW sc, NEW par, Nested(t, z, sc, par)
  PROVE  Nested(t, Popped(z), sc, par)
  <1>0. PICK w : w = Popped(z)
    OBVIOUS
  <1>1. PICK m \in Nat \ {0} : m = Len(z)
    BY EmptySeq
  <1>2. DOMAIN z = 1 .. m /\ DOMAIN w = 1 .. m - 1 /\ \A i \in 1 .. m - 1 : w[i] = z[i]
    BY <1>0, <1>1, PopFacts
  <1>3. \A i \in DOMAIN w : i \in DOMAIN z /\ w[i] = z[i] /\ i \in 1 .. m - 1
    BY <1>2
  <1>4. ASSUME NEW i \in DOMAIN w, i # 1, w[i].kind = "task"
        PROVE  t \in Worker /\ w[i - 1].kind = "block" /\ w[i - 1].id \in ChainIn(par, sc[w[i].id])
    <2>1. i - 1 \in DOMAIN w
      BY <1>2, <1>4
    <2>2. w[i - 1] = z[i - 1] /\ w[i] = z[i] /\ i \in DOMAIN z
      BY <1>3, <2>1
    <2>. QED  BY <1>4, <2>2 DEF Nested
  <1>5. ASSUME NEW i \in DOMAIN w, w[i].kind = "block"
        PROVE  \/ t \in Client /\ par[w[i].id] = 0
               \/ \E j \in DOMAIN w : j < i /\ w[j].kind = "task" /\ par[w[i].id] = sc[w[j].id]
    <2>1. w[i] = z[i] /\ i \in DOMAIN z
      BY <1>3
    <2>2. CASE \E j \in DOMAIN z : j < i /\ z[j].kind = "task" /\ par[z[i].id] = sc[z[j].id]
      <3>1. PICK j \in DOMAIN z : j < i /\ z[j].kind = "task" /\ par[z[i].id] = sc[z[j].id]
        BY <2>2
      <3>2. j \in DOMAIN w
        BY <1>2, <3>1
      <3>. QED  BY <1>3, <2>1, <3>1, <3>2
    <2>. QED  BY <1>5, <2>1, <2>2 DEF Nested
  <1>6. t \in Client => \A i \in DOMAIN w : w[i].kind = "block"
    BY ONLY <1>3, Nested(t, z, sc, par), Zenon DEF Nested
  <1>7. ASSUME t \in Worker, NEW i \in DOMAIN w, i = 1 PROVE w[i].kind = "task"
    <2>1. \A j \in DOMAIN z : j = 1 => z[j].kind = "task"
      BY <1>7 DEF Nested
    <2>. QED  BY <1>3, <1>7, <2>1
  <1>8. Nested(t, w, sc, par)
    BY ONLY <1>4, <1>5, <1>6, <1>7, Zenon DEF Nested
  <1>. QED  BY <1>0, <1>8

-----------------------------------------------------------------------------
(* The pool: facts of the inductive invariant.                             *)

\* The types, without the points.
LEMMA DataTypes ==
  ASSUME DataInv
  PROVE  /\ queue \in Seq(Task) /\ scope_of \in Seq(Scope) /\ parent \in Seq(Scope \cup {0}) /\ pending \in Seq(Nat)
         /\ Len(scope_of) \in Nat /\ DOMAIN scope_of = 1 .. Len(scope_of) /\ Len(scope_of) <= MaxTasks
         /\ Len(parent) \in Nat /\ DOMAIN parent = 1 .. Len(parent) /\ Len(parent) <= MaxScopes
         /\ Len(pending) = Len(parent) /\ DOMAIN pending = DOMAIN parent
         /\ live \subseteq DOMAIN parent /\ DOMAIN parent \subseteq Scope /\ DOMAIN scope_of \subseteq Task
         /\ stack \in [Thread -> Seq(Frame)] /\ pc \in [Thread -> Points]
         /\ stopping \in BOOLEAN /\ failed \in BOOLEAN
  <1>1. /\ queue \in Seq(Task) /\ scope_of \in Seq(Scope) /\ parent \in Seq(Scope \cup {0}) /\ pending \in Seq(Nat)
        /\ Len(scope_of) <= MaxTasks /\ Len(parent) <= MaxScopes /\ Len(pending) = Len(parent)
        /\ live \subseteq DOMAIN parent /\ stack \in [Thread -> Seq(Frame)] /\ pc \in [Thread -> Points]
        /\ stopping \in BOOLEAN /\ failed \in BOOLEAN
    BY DEF DataInv, TypeOK
  <1>2. /\ Len(scope_of) \in Nat /\ DOMAIN scope_of = 1 .. Len(scope_of)
        /\ Len(parent) \in Nat /\ DOMAIN parent = 1 .. Len(parent) /\ DOMAIN pending = DOMAIN parent
    BY <1>1, LenProperties
  <1>3. DOMAIN parent \subseteq Scope /\ DOMAIN scope_of \subseteq Task
    BY <1>1, <1>2, PoolAssumption DEF Scope, Task
  <1>. QED  BY <1>1, <1>2, <1>3

\* A block's parent was opened before it, and a live block's parent is live.
LEMMA ParentFacts ==
  ASSUME DataInv
  PROVE  \A n \in DOMAIN parent : parent[n] \in DOMAIN parent \cup {0}
  <1>. SUFFICES ASSUME NEW n \in DOMAIN parent PROVE parent[n] \in DOMAIN parent \cup {0}
    OBVIOUS
  <1>1. PICK m \in Nat : m = Len(parent) /\ DOMAIN parent = 1 .. m
    BY DataTypes
  <1>2. parent[n] \in Scope \cup {0}
    BY <1>1, DataTypes, ElementOfSeq
  <1>3. parent[n] < n
    BY DEF DataInv, ParentsOlder
  <1>4. PICK p \in Nat : p = parent[n]
    BY <1>2, PoolAssumption DEF Scope
  <1>5. n \in Nat /\ n <= m
    BY <1>1
  <1>. QED  BY <1>1, <1>3, <1>4, <1>5

\* What is held is of tasks spawned whose block is live, and of live blocks.
LEMMA HeldKnown ==
  ASSUME DataInv, NEW f \in HeldIn(stack), f \in Frame
  PROVE  /\ f.kind = "task" => f.id \in Flight /\ f.id \in DOMAIN scope_of /\ scope_of[f.id] \in live
         /\ f.kind = "block" => f.id \in live
  <1>1. CASE f.kind = "task"
    <2>1. f.id \in Task /\ f = TaskFrame(f.id)
      BY <1>1, FrameFacts
    <2>2. f.id \in HandIn(stack)
      BY <2>1, DataTypes, HandTasks
    <2>3. f.id \in Flight
      BY <2>2 DEF Flight, InHand, HandIn
    <2>. QED  BY <1>1, <2>3 DEF DataInv, FlightScoped
  <1>2. CASE f.kind = "block"
    <2>1. f.id \in Scope /\ f = BlockFrame(f.id)
      BY <1>2, FrameFacts
    <2>. QED  BY <1>2, <2>1 DEF DataInv, LiveHeld
  <1>. QED  BY <1>1, <1>2, FrameFacts

\* What a stack names is known.
LEMMA StackKnown ==
  ASSUME DataInv, NEW t \in Thread
  PROVE  Known(stack[t], scope_of, parent)
  <1>1. ASSUME NEW i \in DOMAIN stack[t] PROVE stack[t][i] \in Frame /\ stack[t][i] \in HeldIn(stack)
    BY DataTypes, HeldItem
  <1>2. ASSUME NEW i \in DOMAIN stack[t], stack[t][i].kind = "task"
        PROVE  stack[t][i].id \in DOMAIN scope_of /\ scope_of[stack[t][i].id] \in DOMAIN parent
    BY <1>1, <1>2, HeldKnown, DataTypes
  <1>3. ASSUME NEW i \in DOMAIN stack[t], stack[t][i].kind = "block" PROVE stack[t][i].id \in DOMAIN parent
    BY <1>1, <1>3, HeldKnown, DataTypes
  <1>. QED  BY <1>2, <1>3 DEF Known

\* The chains grow as the parents do.
LEMMA ChainsKept ==
  ASSUME DataInv, NEW p \in Scope \cup {0}, parent' = Append(parent, p)
  PROVE  \A n \in DOMAIN parent : parent'[n] = parent[n] /\ ChainIn(parent', n) = ChainIn(parent, n)
  <1>1. parent \in Seq(Scope \cup {0}) /\ DOMAIN parent = 1 .. Len(parent)
    BY DataTypes
  <1>2. \A n \in DOMAIN parent : parent'[n] = parent[n]
    BY <1>1, AppendProperties
  <1>3. \A n \in DOMAIN parent : ChainIn(Append(parent, p), n) = ChainIn(parent, n)
    BY <1>1, ParentFacts, ChainGrows
  <1>. QED  BY <1>2, <1>3

\* The frame on top of a stack.
LEMMA TopFacts ==
  ASSUME DataInv, NEW t \in Thread, stack[t] # <<>>
  PROVE  /\ Len(stack[t]) \in DOMAIN stack[t] /\ Top(t) \in Frame /\ Top(t) \in HeldIn(stack)
         /\ Top(t) \in Range(stack[t])
  <1>1. stack[t] \in Seq(Frame)
    BY DataTypes
  <1>2. PICK z \in Seq(Frame) : z = stack[t] /\ z # <<>>
    BY <1>1
  <1>3. Len(z) \in DOMAIN z
    BY <1>2, PopFacts
  <1>. QED  BY <1>2, <1>3, DataTypes, HeldItem DEF Top

\* The tasks in hand after a push or a pop.
LEMMA HandAfter ==
  ASSUME stack \in [Thread -> Seq(Frame)], stack' \in [Thread -> Seq(Frame)]
  PROVE  /\ \A s \in Scope : HeldIn(stack') = HeldIn(stack) \cup {BlockFrame(s)} => InHand' = InHand
         /\ \A s \in Scope : HeldIn(stack') = HeldIn(stack) \ {BlockFrame(s)} => InHand' = InHand
         /\ \A k \in Task : HeldIn(stack') = HeldIn(stack) \cup {TaskFrame(k)} => InHand' = InHand \cup {k}
         /\ \A k \in Task : HeldIn(stack') = HeldIn(stack) \ {TaskFrame(k)} => InHand' = InHand \ {k}
  <1>1. InHand = {k \in Task : TaskFrame(k) \in HeldIn(stack)}
    <2>1. InHand = HandIn(stack)
      BY DEF InHand, HandIn
    <2>. QED  BY <2>1, HandTasks
  <1>2. InHand' = {k \in Task : TaskFrame(k) \in HeldIn(stack')}
    <2>1. InHand' = HandIn(stack')
      BY DEF InHand, HandIn
    <2>. QED  BY <2>1, HandTasks
  <1>3. \A s \in Scope, k \in Task : TaskFrame(k) # BlockFrame(s)
    BY DEF TaskFrame, BlockFrame
  <1>4. \A j, k \in Task : TaskFrame(j) = TaskFrame(k) => j = k
    BY FrameFacts
  <1>. QED  BY <1>1, <1>2, <1>3, <1>4

\* The frames on the stacks after a push or a pop of a task leave the blocks held.
LEMMA BlocksDiffer ==
  ASSUME NEW s \in Scope
  PROVE  /\ \A k \in Task : BlockFrame(s) # TaskFrame(k)
         /\ \A n \in Scope : BlockFrame(s) = BlockFrame(n) => s = n
  BY FrameFacts DEF TaskFrame, BlockFrame

\* The block that a thread runs in is 0 for a client, and that of a task it is in for a worker.
LEMMA RunningIn ==
  ASSUME DataInv, PointsOK, NEW t \in Thread, pc[t] = "body"
  PROVE  \/ t \in Client /\ running_in(t) = 0
         \/ \E j \in DOMAIN stack[t] : stack[t][j].kind = "task" /\ running_in(t) = scope_of[stack[t][j].id]
  <1>1. stack[t] \in Seq(Frame) /\ Nested(t, stack[t], scope_of, parent)
    BY DataTypes DEF DataInv, StacksNested
  <1>2. CASE t \in Client
    <2>1. {i \in DOMAIN stack[t] : stack[t][i].kind = "task"} = {}
      BY <1>1, <1>2 DEF Nested
    <2>. QED  BY <1>2, <2>1 DEF running_in
  <1>3. CASE t \in Worker
    <2>1. PICK m \in Nat : m = Len(stack[t]) /\ DOMAIN stack[t] = 1 .. m /\ (stack[t] # <<>> => m # 0)
      BY <1>1, LenProperties, EmptySeq
    <2>2. stack[t] # <<>>
      BY <1>3 DEF PointsOK, Fits
    <2>3. 1 \in DOMAIN stack[t] /\ stack[t][1].kind = "task"
      BY <1>1, <1>3, <2>1, <2>2 DEF Nested
    <2>4. PICK T : T = {i \in DOMAIN stack[t] : stack[t][i].kind = "task"}
      OBVIOUS
    <2>5. T \subseteq 1 .. m /\ T # {}
      BY <2>1, <2>3, <2>4
    <2>6. \E x \in T : \A y \in T : y <= x
      BY <2>5, GreatestPlace
    <2>7. PICK x : x = CHOOSE i \in T : \A j \in T : j \leq i
      OBVIOUS
    <2>8. x \in T
      BY <2>6, <2>7
    <2>9. running_in(t) = scope_of[stack[t][x].id]
      BY <2>4, <2>5, <2>7 DEF running_in
    <2>. QED  BY <2>4, <2>8, <2>9
  <1>. QED  BY <1>2, <1>3 DEF Thread

-----------------------------------------------------------------------------
(* The pool: the steps that change the queue, the counts or the stacks.    *)

\* Open keeps the data consistent.
LEMMA DataOpen ==
  ASSUME DataInv, PointsOK, NEW t \in Thread, Open(t)
  PROVE  DataInv'
  <1>1. PICK m \in Nat : m = Len(parent) /\ DOMAIN parent = 1 .. m /\ m < MaxScopes
    BY DataTypes DEF Open
  <1>2. PICK n \in Nat : n = m + 1
    OBVIOUS
  <1>3. n \in Scope /\ n \notin DOMAIN parent
    BY <1>1, <1>2, PoolAssumption DEF Scope
  <1>4. PICK p : p = running_in(t)
    OBVIOUS
  <1>5. /\ parent' = Append(parent, p) /\ pending' = Append(pending, 0) /\ live' = live \cup {n}
        /\ stack' = [stack EXCEPT ![t] = Append(@, BlockFrame(n))]
        /\ queue' = queue /\ stopping' = stopping /\ scope_of' = scope_of /\ pc' = pc /\ failed' = failed
        /\ pc[t] = "body"
    BY <1>1, <1>2, <1>4 DEF Open, Push, BlockFrame
  <1>6. \/ t \in Client /\ p = 0
        \/ \E j \in DOMAIN stack[t] : stack[t][j].kind = "task" /\ p = scope_of[stack[t][j].id]
    BY <1>4, <1>5, RunningIn
  <1>7. p \in DOMAIN parent \cup {0}
    BY <1>6, StackKnown DEF Known
  <1>8. p \in Scope \cup {0}
    BY <1>7, DataTypes
  <1>9. BlockFrame(n) \in Frame /\ BlockFrame(n) \notin HeldIn(stack)
    BY <1>3, FrameFacts, DataTypes DEF DataInv, LiveHeld
  <1>10. /\ stack' \in [Thread -> Seq(Frame)] /\ stack'[t] = Append(stack[t], BlockFrame(n))
         /\ \A u \in Thread \ {t} : stack'[u] = stack[u]
         /\ HeldIn(stack') = HeldIn(stack) \cup {BlockFrame(n)} /\ OnceIn(stack')
    BY <1>5, <1>9, DataTypes, PushHeld DEF DataInv
  <1>11. InHand' = InHand
    BY <1>3, <1>10, DataTypes, HandAfter
  <1>12. Flight' = Flight
    BY <1>5, <1>11 DEF Flight
  <1>13. /\ parent' \in Seq(Scope \cup {0}) /\ Len(parent') = n /\ DOMAIN parent' = 1 .. n
         /\ parent'[n] = p /\ \A s \in DOMAIN parent : parent'[s] = parent[s]
    BY <1>1, <1>2, <1>5, <1>8, DataTypes, AppendProperties, LenProperties
  <1>14. /\ pending' \in Seq(Nat) /\ Len(pending') = n /\ pending'[n] = 0
         /\ \A s \in DOMAIN parent : pending'[s] = pending[s]
    BY <1>1, <1>2, <1>5, DataTypes, AppendProperties
  <1>15. \A s \in DOMAIN parent : ChainIn(parent', s) = ChainIn(parent, s)
    BY <1>5, <1>8, ChainsKept
  <1>16. \A s \in DOMAIN parent' : s \in DOMAIN parent \/ s = n
    BY <1>1, <1>2, <1>13
  <1>17. n \in DOMAIN parent' /\ DOMAIN parent \subseteq DOMAIN parent'
    BY <1>1, <1>2, <1>13
  <1>a. TypeOK'
    <2>1. Len(parent') <= MaxScopes
      BY <1>1, <1>2, <1>13, PoolAssumption
    <2>2. live' \in SUBSET DOMAIN parent'
      BY <1>5, <1>17, DataTypes
    <2>. QED  BY <1>5, <1>10, <1>13, <1>14, <2>1, <2>2, DataTypes DEF TypeOK
  <1>b. StacksNested'
    <2>1. ASSUME NEW u \in Thread PROVE Nested(u, stack[u], scope_of', parent')
      <3>1. Nested(u, stack[u], scope_of, parent) /\ Known(stack[u], scope_of, parent)
        BY StackKnown DEF DataInv, StacksNested
      <3>2. \A k \in DOMAIN scope_of : scope_of'[k] = scope_of[k]
        BY <1>5
      <3>. QED  BY <1>13, <1>15, <3>1, <3>2, NestedKept
    <2>2. Nested(t, Append(stack[t], BlockFrame(n)), scope_of', parent')
      <3>1. t \in Worker => t \notin Client
        BY PoolAssumption
      <3>2. t \in Worker => stack[t] # <<>>
        BY <1>5 DEF PointsOK, Fits
      <3>3. \/ t \in Client /\ parent'[n] = 0
            \/ \E j \in DOMAIN stack[t] : stack[t][j].kind = "task" /\ parent'[n] = scope_of'[stack[t][j].id]
        BY <1>5, <1>6, <1>13
      <3>4. stack[t] \in Seq(Frame)
        BY DataTypes
      <3>. QED  BY <1>3, <2>1, <3>1, <3>2, <3>3, <3>4, NestedPushBlock
    <2>3. ASSUME NEW u \in Thread PROVE Nested(u, stack'[u], scope_of', parent')
      BY <1>10, <2>1, <2>2
    <2>. QED  BY <2>3 DEF StacksNested
  <1>c. QueuedOnce' /\ FlightScoped'
    <2>1. QueuedOnce'
      BY <1>5, <1>11 DEF DataInv, QueuedOnce, NoRepeat
    <2>2. FlightScoped'
      BY <1>5, <1>12 DEF DataInv, FlightScoped
    <2>. QED  BY <2>1, <2>2
  <1>d. LiveHeld'
    <2>1. ASSUME NEW s \in Scope PROVE s \in live' <=> BlockFrame(s) \in HeldIn(stack')
      <3>1. s \in live <=> BlockFrame(s) \in HeldIn(stack)
        BY DEF DataInv, LiveHeld
      <3>2. BlockFrame(s) = BlockFrame(n) <=> s = n
        BY <1>3, BlocksDiffer
      <3>. QED  BY <1>5, <1>10, <3>1, <3>2
    <2>. QED  BY <2>1 DEF LiveHeld
  <1>e. Counted'
    <2>1. ASSUME NEW s \in DOMAIN parent' PROVE pending'[s] = Cardinality({k \in Flight : scope_of[k] = s})
      <3>1. CASE s \in DOMAIN parent
        BY <1>14, <3>1 DEF DataInv, Counted
      <3>2. CASE s = n
        <4>1. {k \in Flight : scope_of[k] = s} = {}
          BY <1>3, <3>2, DataTypes DEF DataInv, FlightScoped
        <4>. QED  BY <1>14, <3>2, <4>1, FS_EmptySet
      <3>. QED  BY <1>16, <3>1, <3>2
    <2>. QED  BY <1>5, <1>12, <2>1 DEF Counted
  <1>f. ParentsOlder'
    <2>1. ASSUME NEW s \in DOMAIN parent' PROVE parent'[s] < s
      <3>1. CASE s \in DOMAIN parent
        BY <1>13, <3>1 DEF DataInv, ParentsOlder
      <3>2. CASE s = n
        BY <1>1, <1>2, <1>7, <1>13, <3>2
      <3>. QED  BY <1>16, <3>1, <3>2
    <2>. QED  BY <2>1 DEF ParentsOlder
  <1>. QED  BY <1>10, <1>a, <1>b, <1>c, <1>d, <1>e, <1>f DEF DataInv

\* Submit keeps the data consistent.
LEMMA DataSubmit ==
  ASSUME DataInv, PointsOK, NEW t \in Thread, Submit(t)
  PROVE  DataInv'
  <1>1. PICK m \in Nat : m = Len(scope_of) /\ DOMAIN scope_of = 1 .. m /\ m < MaxTasks
    BY DataTypes DEF Submit
  <1>2. PICK n \in Nat : n = m + 1
    OBVIOUS
  <1>3. n \in Task /\ n \notin DOMAIN scope_of
    BY <1>1, <1>2, PoolAssumption DEF Task
  <1>4. PICK c : c = Top(t).id
    OBVIOUS
  <1>5. c \in live /\ c \in DOMAIN parent /\ c \in Scope
    <2>1. stack[t] # <<>> /\ Top(t).kind = "block"
      BY DEF Submit, InBlock
    <2>. QED  BY <1>4, <2>1, TopFacts, HeldKnown, DataTypes
  <1>6. /\ scope_of' = Append(scope_of, c) /\ queue' = Append(queue, n)
        /\ pending' = [pending EXCEPT ![c] = @ + 1] /\ pc' = [pc EXCEPT ![t] = "spawned"]
        /\ stopping' = stopping /\ parent' = parent /\ live' = live /\ stack' = stack /\ failed' = failed
    BY <1>1, <1>2, <1>4 DEF Submit, Go
  <1>7. /\ scope_of' \in Seq(Scope) /\ Len(scope_of') = n /\ DOMAIN scope_of' = 1 .. n
        /\ scope_of'[n] = c /\ \A k \in DOMAIN scope_of : scope_of'[k] = scope_of[k]
    BY <1>1, <1>2, <1>5, <1>6, DataTypes, AppendProperties, LenProperties
  <1>8. InHand' = InHand
    BY <1>6 DEF InHand
  <1>9. n \notin Flight /\ Flight \subseteq DOMAIN scope_of
    BY <1>3 DEF DataInv, FlightScoped
  <1>10. PICK q \in Nat : q = Len(queue) /\ DOMAIN queue = 1 .. q
    BY DataTypes, LenProperties
  <1>11. /\ queue' \in Seq(Task) /\ DOMAIN queue' = 1 .. q + 1 /\ queue'[q + 1] = n
         /\ \A i \in 1 .. q : queue'[i] = queue[i]
    BY <1>3, <1>6, <1>10, DataTypes, AppendProperties, LenProperties
  <1>12. \A x : x \in Range(queue') <=> x \in Range(queue) \/ x = n
    <2>1. ASSUME NEW x \in Range(queue') PROVE x \in Range(queue) \/ x = n
      <3>1. PICK i \in 1 .. q + 1 : x = queue'[i]
        BY <1>11 DEF Range
      <3>2. i \in 1 .. q \/ i = q + 1
        OBVIOUS
      <3>. QED  BY <1>10, <1>11, <3>1, <3>2 DEF Range
    <2>2. ASSUME NEW x \in Range(queue) PROVE x \in Range(queue')
      <3>1. PICK i \in 1 .. q : x = queue[i]
        BY <1>10 DEF Range
      <3>2. i \in 1 .. q + 1 /\ x = queue'[i]
        BY <1>11, <3>1
      <3>. QED  BY <1>11, <3>2 DEF Range
    <2>3. n \in Range(queue')
      <3>1. q + 1 \in 1 .. q + 1
        OBVIOUS
      <3>. QED  BY <1>11, <3>1 DEF Range
    <2>. QED  BY <2>1, <2>2, <2>3
  <1>13. \A x : x \in Flight' <=> x \in Flight \/ x = n
    BY <1>8, <1>12 DEF Flight
  <1>a. TypeOK'
    <2>1. pending' \in Seq(Nat) /\ Len(pending') = Len(pending)
      <3>1. c \in 1 .. Len(pending) /\ pending \in Seq(Nat)
        BY <1>5, DataTypes
      <3>2. pending[c] + 1 \in Nat
        BY <3>1, ElementOfSeq
      <3>3. pending' = [pending EXCEPT ![c] = pending[c] + 1]
        BY <1>6
      <3>. QED  BY <3>1, <3>2, <3>3, ExceptSeq
    <2>2. pc' \in [Thread -> Points]
      <3>1. "spawned" \in Points /\ pc \in [Thread -> Points]
        BY DataTypes DEF Points
      <3>. QED  BY <1>6, <3>1
    <2>3. Len(scope_of') <= MaxTasks
      BY <1>1, <1>2, <1>7, PoolAssumption
    <2>. QED  BY <1>6, <1>7, <1>11, <2>1, <2>2, <2>3, DataTypes DEF TypeOK
  <1>b. StacksNested'
    <2>1. ASSUME NEW u \in Thread PROVE Nested(u, stack[u], scope_of', parent)
      <3>1. Nested(u, stack[u], scope_of, parent) /\ Known(stack[u], scope_of, parent)
        BY StackKnown DEF DataInv, StacksNested
      <3>. QED  BY <1>7, <3>1, NestedKept
    <2>. QED  BY <1>6, <2>1 DEF StacksNested
  <1>c. QueuedOnce'
    <2>1. NoRepeat(queue')
      <3>. SUFFICES ASSUME NEW i \in DOMAIN queue', NEW j \in DOMAIN queue', queue'[i] = queue'[j], i # j PROVE FALSE
        BY DEF NoRepeat
      <3>1. \A x \in 1 .. q : queue'[x] = queue[x] /\ x \in DOMAIN queue /\ queue[x] # n
        BY <1>9, <1>10, <1>11 DEF Flight, Range
      <3>2. i \in 1 .. q \/ i = q + 1
        BY <1>11
      <3>3. j \in 1 .. q \/ j = q + 1
        BY <1>11
      <3>4. NoRepeat(queue)
        BY DEF DataInv, QueuedOnce
      <3>. QED  BY <1>11, <3>1, <3>2, <3>3, <3>4 DEF NoRepeat
    <2>2. Range(queue') \cap InHand' = {}
      <3>1. Range(queue) \cap InHand = {} /\ n \notin InHand
        BY <1>9 DEF DataInv, QueuedOnce, Flight
      <3>. QED  BY <1>8, <1>12, <3>1
    <2>. QED  BY <2>1, <2>2 DEF QueuedOnce
  <1>d. FlightScoped'
    <2>1. ASSUME NEW k \in Flight' PROVE k \in DOMAIN scope_of' /\ scope_of'[k] \in live'
      <3>1. CASE k \in Flight
        <4>1. k \in DOMAIN scope_of /\ scope_of[k] \in live
          BY <3>1 DEF DataInv, FlightScoped
        <4>. QED  BY <1>1, <1>2, <1>6, <1>7, <4>1
      <3>2. CASE k = n
        BY <1>5, <1>6, <1>7, <3>2
      <3>. QED  BY <1>13, <3>1, <3>2
    <2>. QED  BY <2>1 DEF FlightScoped
  <1>e. LiveHeld' /\ ParentsOlder' /\ OnceIn(stack')
    BY <1>6 DEF DataInv, LiveHeld, ParentsOlder
  <1>f. Counted'
    <2>1. ASSUME NEW s \in DOMAIN parent PROVE pending'[s] = Cardinality({k \in Flight' : scope_of'[k] = s})
      <3>1. PICK F : F = {k \in Flight : scope_of[k] = s}
        OBVIOUS
      <3>2. pending[s] = Cardinality(F) /\ n \notin F
        BY <1>9, <3>1 DEF DataInv, Counted
      <3>3. IsFiniteSet(F)
        <4>1. F \subseteq 1 .. m /\ IsFiniteSet(1 .. m)
          BY <1>1, <1>9, <3>1, FS_Interval
        <4>. QED  BY <4>1, FS_Subset
      <3>4. {k \in Flight' : scope_of'[k] = s} = IF s = c THEN F \cup {n} ELSE F
        BY <1>7, <1>9, <1>13, <3>1
      <3>5. pending'[s] = IF s = c THEN pending[s] + 1 ELSE pending[s]
        BY <1>6, DataTypes
      <3>6. Cardinality(F \cup {n}) = Cardinality(F) + 1
        BY <3>2, <3>3, FS_AddElement
      <3>. QED  BY <3>2, <3>4, <3>5, <3>6
    <2>. QED  BY <1>6, <2>1 DEF Counted
  <1>. QED  BY <1>a, <1>b, <1>c, <1>d, <1>e, <1>f DEF DataInv

\* Taking a task, from the loop or to help at a join, keeps the data consistent.
LEMMA DataTake ==
  ASSUME DataInv, NEW t \in Worker, NEW within, take(t, within),
         stack[t] = <<>> \/ (InBlock(t) /\ within = Top(t).id)
  PROVE  DataInv'
  <1>0. t \in Thread /\ t \notin Client
    BY PoolAssumption DEF Thread
  <1>1. PICK i \in Eligible(within) : /\ queue' = Unlinked(queue, i)
                                      /\ Push(t, "task", queue[i]) /\ Go(t, "body")
                                      /\ UNCHANGED <<stopping, blocks, failed>>
    BY DEF take, Unlinked
  <1>2. i \in DOMAIN queue /\ (within = 0 \/ within \in ChainIn(parent, scope_of[queue[i]]))
    BY DEF Eligible, descends, Chain, ChainIn, UpClosed, UpIn
  <1>3. PICK k \in Task : k = queue[i] /\ k \in Range(queue)
    <2>1. queue[i] \in Task
      BY <1>2, DataTypes, ElementOfSeq, LenProperties
    <2>. QED  BY <1>2, <2>1 DEF Range
  <1>4. /\ stack' = [stack EXCEPT ![t] = Append(@, TaskFrame(k))] /\ pc' = [pc EXCEPT ![t] = "body"]
        /\ stopping' = stopping /\ scope_of' = scope_of /\ parent' = parent /\ pending' = pending
        /\ live' = live /\ failed' = failed
    BY <1>1, <1>3 DEF Push, Go, TaskFrame, blocks
  <1>5. /\ queue' \in Seq(Task) /\ NoRepeat(queue')
        /\ \A x : x \in Range(queue') <=> x \in Range(queue) /\ x # k
    <2>1. NoRepeat(queue)
      BY DEF DataInv, QueuedOnce
    <2>2. /\ Unlinked(queue, i) \in Seq(Task) /\ NoRepeat(Unlinked(queue, i))
          /\ \A x : x \in Range(Unlinked(queue, i)) <=> x \in Range(queue) /\ x # queue[i]
      BY <1>2, <2>1, DataTypes, UnlinkFacts
    <2>. QED  BY <1>1, <1>3, <2>2
  <1>6. TaskFrame(k) \in Frame /\ TaskFrame(k) \notin HeldIn(stack)
    <2>1. k \notin InHand
      BY <1>3 DEF DataInv, QueuedOnce
    <2>2. InHand = HandIn(stack)
      BY DEF InHand, HandIn
    <2>. QED  BY <2>1, <2>2, DataTypes, HandTasks, FrameFacts
  <1>7. /\ stack' \in [Thread -> Seq(Frame)] /\ stack'[t] = Append(stack[t], TaskFrame(k))
        /\ \A u \in Thread \ {t} : stack'[u] = stack[u]
        /\ HeldIn(stack') = HeldIn(stack) \cup {TaskFrame(k)} /\ OnceIn(stack')
    BY <1>0, <1>4, <1>6, DataTypes, PushHeld DEF DataInv
  <1>8. InHand' = InHand \cup {k}
    BY <1>7, DataTypes, HandAfter
  <1>9. Flight' = Flight
    BY <1>3, <1>5, <1>8 DEF Flight
  <1>a. TypeOK'
    <2>1. pc' \in [Thread -> Points]
      <3>1. "body" \in Points /\ pc \in [Thread -> Points]
        BY DataTypes DEF Points
      <3>. QED  BY <1>4, <3>1
    <2>. QED  BY <1>4, <1>5, <1>7, <2>1 DEF DataInv, TypeOK
  <1>b. StacksNested'
    <2>1. \A u \in Thread : Nested(u, stack[u], scope_of, parent)
      BY DEF DataInv, StacksNested
    <2>2. Nested(t, Append(stack[t], TaskFrame(k)), scope_of, parent)
      <3>1. PICK z \in Seq(Frame) : z = stack[t]
        BY <1>0, DataTypes
      <3>2. Nested(t, z, scope_of, parent)
        BY <1>0, <2>1, <3>1
      <3>3. \/ z = <<>>
            \/ z # <<>> /\ z[Len(z)].kind = "block" /\ z[Len(z)].id \in ChainIn(parent, scope_of[k])
        <4>1. CASE InBlock(t) /\ within = Top(t).id
          <5>1. stack[t] # <<>> /\ Top(t).kind = "block"
            BY <4>1 DEF InBlock
          <5>2. within \in Scope
            BY <1>0, <4>1, <5>1, TopFacts, FrameFacts
          <5>3. within # 0
            BY <5>2, PoolAssumption DEF Scope
          <5>. QED  BY <1>2, <1>3, <3>1, <4>1, <5>1, <5>3 DEF Top
        <4>. QED  BY <3>1, <4>1
      <3>4. Nested(t, Append(z, TaskFrame(k)), scope_of, parent)
        BY <1>0, <3>2, <3>3, NestedPushTask
      <3>. QED  BY <3>1, <3>4
    <2>3. ASSUME NEW u \in Thread PROVE Nested(u, stack'[u], scope_of, parent)
      BY <1>7, <2>1, <2>2
    <2>. QED  BY <1>4, <2>3 DEF StacksNested
  <1>c. QueuedOnce'
    <2>1. Range(queue') \cap InHand' = {}
      <3>1. Range(queue) \cap InHand = {}
        BY DEF DataInv, QueuedOnce
      <3>. QED  BY <1>5, <1>8, <3>1
    <2>. QED  BY <1>5, <2>1 DEF QueuedOnce
  <1>d. FlightScoped' /\ Counted'
    BY <1>4, <1>9 DEF DataInv, FlightScoped, Counted
  <1>e. LiveHeld'
    <2>1. ASSUME NEW s \in Scope PROVE s \in live' <=> BlockFrame(s) \in HeldIn(stack')
      <3>1. s \in live <=> BlockFrame(s) \in HeldIn(stack)
        BY DEF DataInv, LiveHeld
      <3>2. BlockFrame(s) # TaskFrame(k)
        BY BlocksDiffer
      <3>. QED  BY <1>4, <1>7, <3>1, <3>2
    <2>. QED  BY <2>1 DEF LiveHeld
  <1>f. ParentsOlder'
    BY <1>4 DEF DataInv, ParentsOlder
  <1>. QED  BY <1>7, <1>a, <1>b, <1>c, <1>d, <1>e, <1>f DEF DataInv

\* A block whose count is 0 has no task queued or in hand.
LEMMA NoneLeft ==
  ASSUME DataInv, NEW s \in DOMAIN parent, pending[s] = 0
  PROVE  \A k \in Flight : scope_of[k] # s
  <1>1. PICK F : F = {k \in Flight : scope_of[k] = s}
    OBVIOUS
  <1>2. Cardinality(F) = 0
    BY <1>1 DEF DataInv, Counted
  <1>3. PICK m \in Nat : m = Len(scope_of) /\ DOMAIN scope_of = 1 .. m
    BY DataTypes
  <1>4. F \subseteq 1 .. m /\ IsFiniteSet(1 .. m)
    BY <1>1, <1>3, FS_Interval DEF DataInv, FlightScoped
  <1>5. IsFiniteSet(F)
    BY <1>4, FS_Subset
  <1>6. F = {}
    BY <1>2, <1>5, FS_EmptySet
  <1>. QED  BY <1>1, <1>6

\* Leaving a block keeps the data consistent.
LEMMA DataLeave ==
  ASSUME DataInv, NEW t \in Thread, InBlock(t), Leave(t)
  PROVE  DataInv'
  <1>1. stack[t] # <<>> /\ Top(t).kind = "block"
    BY DEF InBlock
  <1>2. PICK c \in Scope : c = Top(t).id /\ Top(t) = BlockFrame(c)
    BY <1>1, TopFacts, FrameFacts
  <1>3. c \in live /\ c \in DOMAIN parent /\ pending[c] = 0
    BY <1>1, <1>2, TopFacts, HeldKnown, DataTypes DEF Leave
  <1>4. /\ live' = live \ {c} /\ Pop(t) /\ pc' = [pc EXCEPT ![t] = "body"]
        /\ queue' = queue /\ stopping' = stopping /\ scope_of' = scope_of /\ parent' = parent
        /\ pending' = pending /\ failed' = failed
    BY <1>2 DEF Leave, Go
  <1>5. /\ stack' \in [Thread -> Seq(Frame)] /\ stack'[t] = Popped(stack[t])
        /\ \A u \in Thread \ {t} : stack'[u] = stack[u]
        /\ HeldIn(stack') = HeldIn(stack) \ {BlockFrame(c)} /\ OnceIn(stack')
    BY <1>1, <1>2, <1>4, DataTypes, PopHeld DEF DataInv
  <1>6. InHand' = InHand
    BY <1>5, DataTypes, HandAfter
  <1>7. Flight' = Flight
    BY <1>4, <1>6 DEF Flight
  <1>a. TypeOK'
    <2>1. pc' \in [Thread -> Points]
      <3>1. "body" \in Points /\ pc \in [Thread -> Points]
        BY DataTypes DEF Points
      <3>. QED  BY <1>4, <3>1
    <2>. QED  BY <1>4, <1>5, <2>1 DEF DataInv, TypeOK
  <1>b. StacksNested'
    <2>1. \A u \in Thread : Nested(u, stack[u], scope_of, parent)
      BY DEF DataInv, StacksNested
    <2>2. Nested(t, Popped(stack[t]), scope_of, parent)
      BY <1>1, <2>1, DataTypes, NestedPop
    <2>3. ASSUME NEW u \in Thread PROVE Nested(u, stack'[u], scope_of, parent)
      BY <1>5, <2>1, <2>2
    <2>. QED  BY <1>4, <2>3 DEF StacksNested
  <1>c. QueuedOnce' /\ Counted'
    BY <1>4, <1>6, <1>7 DEF DataInv, QueuedOnce, NoRepeat, Counted
  <1>d. FlightScoped'
    <2>1. \A k \in Flight : k \in DOMAIN scope_of /\ scope_of[k] \in live /\ scope_of[k] # c
      BY <1>3, NoneLeft DEF DataInv, FlightScoped
    <2>. QED  BY <1>4, <1>7, <2>1 DEF FlightScoped
  <1>e. LiveHeld'
    <2>1. ASSUME NEW s \in Scope PROVE s \in live' <=> BlockFrame(s) \in HeldIn(stack')
      <3>1. s \in live <=> BlockFrame(s) \in HeldIn(stack)
        BY DEF DataInv, LiveHeld
      <3>2. BlockFrame(s) = BlockFrame(c) <=> s = c
        BY BlocksDiffer
      <3>. QED  BY <1>4, <1>5, <3>1, <3>2
    <2>. QED  BY <2>1 DEF LiveHeld
  <1>f. ParentsOlder'
    BY <1>4 DEF DataInv, ParentsOlder
  <1>. QED  BY <1>5, <1>a, <1>b, <1>c, <1>d, <1>e, <1>f DEF DataInv

\* Counting a task off keeps the data consistent, and the count was not 0.
LEMMA DataCount ==
  ASSUME DataInv, PointsOK, NEW t \in Thread, Count(t)
  PROVE  DataInv' /\ scope_of[Top(t).id] \in DOMAIN pending /\ pending[scope_of[Top(t).id]] \in Nat \ {0}
  <1>1. stack[t] # <<>> /\ Top(t).kind = "task"
    BY DEF Count, PointsOK, Fits, Top
  <1>2. PICK k \in Task : k = Top(t).id /\ Top(t) = TaskFrame(k)
    BY <1>1, TopFacts, FrameFacts
  <1>3. PICK c : c = scope_of[k]
    OBVIOUS
  <1>4. k \in Flight /\ k \in DOMAIN scope_of /\ c \in live /\ c \in DOMAIN parent /\ c \in DOMAIN pending
    BY <1>1, <1>2, <1>3, TopFacts, HeldKnown, DataTypes
  <1>5. PICK p : p = IF pending[c] = 1 THEN "last" ELSE Caller(t)
    OBVIOUS
  <1>6. /\ pending' = [pending EXCEPT ![c] = @ - 1] /\ Pop(t) /\ pc' = [pc EXCEPT ![t] = p]
        /\ queue' = queue /\ stopping' = stopping /\ scope_of' = scope_of /\ parent' = parent
        /\ live' = live /\ failed' = failed
    BY <1>2, <1>3, <1>5 DEF Count, Go
  <1>7. /\ stack' \in [Thread -> Seq(Frame)] /\ stack'[t] = Popped(stack[t])
        /\ \A u \in Thread \ {t} : stack'[u] = stack[u]
        /\ HeldIn(stack') = HeldIn(stack) \ {TaskFrame(k)} /\ OnceIn(stack')
    BY <1>1, <1>2, <1>6, DataTypes, PopHeld DEF DataInv
  <1>8. InHand' = InHand \ {k}
    BY <1>7, DataTypes, HandAfter
  <1>9. k \notin Range(queue)
    <2>1. InHand = HandIn(stack)
      BY DEF InHand, HandIn
    <2>2. k \in InHand
      BY <1>1, <1>2, <2>1, TopFacts, DataTypes, HandTasks
    <2>. QED  BY <2>2 DEF DataInv, QueuedOnce
  <1>10. \A x : x \in Flight' <=> x \in Flight /\ x # k
    BY <1>6, <1>8, <1>9 DEF Flight
  <1>11. \A s \in DOMAIN parent : IsFiniteSet({j \in Flight : scope_of[j] = s})
    <2>. TAKE s \in DOMAIN parent
    <2>1. PICK m \in Nat : m = Len(scope_of) /\ DOMAIN scope_of = 1 .. m
      BY DataTypes
    <2>2. {j \in Flight : scope_of[j] = s} \subseteq 1 .. m /\ IsFiniteSet(1 .. m)
      BY <2>1, FS_Interval DEF DataInv, FlightScoped
    <2>. QED  BY <2>2, FS_Subset
  <1>12. pending[c] \in Nat /\ pending[c] # 0
    <2>1. pending[c] \in Nat
      BY <1>4, DataTypes, ElementOfSeq
    <2>. QED  BY <1>3, <1>4, <2>1, NoneLeft
  <1>a. TypeOK'
    <2>1. pending' \in Seq(Nat) /\ Len(pending') = Len(pending)
      <3>1. c \in 1 .. Len(pending) /\ pending \in Seq(Nat)
        BY <1>4, DataTypes
      <3>2. pending[c] - 1 \in Nat
        BY <1>12
      <3>3. pending' = [pending EXCEPT ![c] = pending[c] - 1]
        BY <1>6
      <3>. QED  BY <3>1, <3>2, <3>3, ExceptSeq
    <2>2. pc' \in [Thread -> Points]
      <3>1. p \in Points /\ pc \in [Thread -> Points]
        BY <1>5, DataTypes DEF Points, Caller
      <3>. QED  BY <1>6, <3>1
    <2>. QED  BY <1>6, <1>7, <2>1, <2>2 DEF DataInv, TypeOK
  <1>b. StacksNested'
    <2>1. \A u \in Thread : Nested(u, stack[u], scope_of, parent)
      BY DEF DataInv, StacksNested
    <2>2. Nested(t, Popped(stack[t]), scope_of, parent)
      BY <1>1, <2>1, DataTypes, NestedPop
    <2>3. ASSUME NEW u \in Thread PROVE Nested(u, stack'[u], scope_of, parent)
      BY <1>7, <2>1, <2>2
    <2>. QED  BY <1>6, <2>3 DEF StacksNested
  <1>c. QueuedOnce' /\ FlightScoped'
    <2>1. QueuedOnce'
      BY <1>6, <1>8 DEF DataInv, QueuedOnce, NoRepeat
    <2>2. FlightScoped'
      BY <1>6, <1>10 DEF DataInv, FlightScoped
    <2>. QED  BY <2>1, <2>2
  <1>d. LiveHeld' /\ ParentsOlder'
    <2>1. ASSUME NEW s \in Scope PROVE s \in live' <=> BlockFrame(s) \in HeldIn(stack')
      <3>1. s \in live <=> BlockFrame(s) \in HeldIn(stack)
        BY DEF DataInv, LiveHeld
      <3>2. BlockFrame(s) # TaskFrame(k)
        BY BlocksDiffer
      <3>. QED  BY <1>6, <1>7, <3>1, <3>2
    <2>2. ParentsOlder'
      BY <1>6 DEF DataInv, ParentsOlder
    <2>. QED  BY <2>1, <2>2 DEF LiveHeld
  <1>e. Counted'
    <2>1. ASSUME NEW s \in DOMAIN parent PROVE pending'[s] = Cardinality({j \in Flight' : scope_of[j] = s})
      <3>1. PICK F : F = {j \in Flight : scope_of[j] = s}
        OBVIOUS
      <3>2. pending[s] = Cardinality(F) /\ IsFiniteSet(F)
        BY <1>11, <3>1 DEF DataInv, Counted
      <3>3. {j \in Flight' : scope_of[j] = s} = F \ {k} /\ (k \in F <=> s = c)
        BY <1>3, <1>4, <1>10, <3>1
      <3>4. pending'[s] = IF s = c THEN pending[s] - 1 ELSE pending[s]
        BY <1>6, DataTypes
      <3>5. Cardinality(F \ {k}) = IF k \in F THEN Cardinality(F) - 1 ELSE Cardinality(F)
        BY <3>2, FS_RemoveElement
      <3>. QED  BY <3>2, <3>3, <3>4, <3>5
    <2>. QED  BY <1>6, <2>1 DEF Counted
  <1>f. DataInv'
    BY <1>7, <1>a, <1>b, <1>c, <1>d, <1>e DEF DataInv
  <1>. QED  BY <1>2, <1>3, <1>4, <1>12, <1>f

-----------------------------------------------------------------------------
(* The pool: where the threads are, and who wakes them.                    *)

Wakers == {"spawned", "last", "stopped"}
EligibleIn(q, sc, par, within) == {i \in DOMAIN q : within = 0 \/ within \in ChainIn(par, sc[q[i]])}

\* A thread asleep that could go on.
Stuck(t) ==
    \/ pc[t] = "asleep" /\ (queue # <<>> \/ stopping)
    \/ /\ pc[t] = "dozing"
       /\ pending[Top(t).id] = 0 \/ (Helps(t) /\ Eligible(Top(t).id) # {})

\* Nothing of the data but the points and the flags changes.
LEMMA DataSame ==
  ASSUME DataInv, pc' \in [Thread -> Points], stopping' \in BOOLEAN, failed' \in BOOLEAN,
         queue' = queue, scope_of' = scope_of, parent' = parent, pending' = pending, live' = live, stack' = stack
  PROVE  DataInv'
  <1>1. TypeOK'
    BY DEF DataInv, TypeOK
  <1>2. InHand' = InHand
    BY DEF InHand
  <1>3. Flight' = Flight
    BY <1>2 DEF Flight
  <1>4. StacksNested' /\ OnceIn(stack') /\ LiveHeld' /\ ParentsOlder'
    BY DEF DataInv, StacksNested, LiveHeld, ParentsOlder
  <1>5. QueuedOnce' /\ FlightScoped' /\ Counted'
    BY <1>2, <1>3 DEF DataInv, QueuedOnce, NoRepeat, FlightScoped, Counted
  <1>. QED  BY <1>1, <1>4, <1>5 DEF DataInv

\* One thread goes elsewhere.
LEMMA PointsStep ==
  ASSUME PointsOK, pc \in [Thread -> Points], NEW t \in Thread, NEW p, Go(t, p),
         \A u \in Thread \ {t} : stack'[u] = stack[u], Fits(t, p, stack'[t])
  PROVE  PointsOK'
  <1>1. pc'[t] = p /\ \A u \in Thread \ {t} : pc'[u] = pc[u]
    BY DEF Go
  <1>2. ASSUME NEW u \in Thread PROVE Fits(u, pc'[u], stack'[u])
    <2>1. CASE u = t
      BY <1>1, <2>1
    <2>2. CASE u # t
      <3>1. Fits(u, pc[u], stack[u])
        BY DEF PointsOK
      <3>. QED  BY <1>1, <2>2, <3>1
    <2>. QED  BY <2>1, <2>2
  <1>. QED  BY <1>2 DEF PointsOK

\* A thread in its work, or a worker, goes on without its owner's leave.
LEMMA OwnerStep ==
  ASSUME OwnerAlone, pc \in [Thread -> Points], NEW t \in Thread, NEW p, Go(t, p), stopping' = stopping,
         \/ t \in Worker
         \/ /\ pc[t] \in {"body", "spawned", "join", "dozing"}
            /\ p \in {"body", "spawned", "join", "dozing"}
  PROVE  OwnerAlone'
  <1>0. Owner \in Thread /\ Owner \notin Worker /\ Client \subseteq Thread /\ Worker \cap Client = {}
    BY PoolAssumption DEF Thread
  <1>1. pc'[t] = p /\ \A u \in Thread \ {t} : pc'[u] = pc[u]
    BY DEF Go
  <1>2. CASE t \in Worker
    <2>1. \A c \in Client : pc'[c] = pc[c]
      BY <1>0, <1>1, <1>2
    <2>. QED  BY <1>0, <2>1, PoolAssumption DEF OwnerAlone
  <1>3. CASE t = Owner /\ t \notin Worker
    <2>1. ~stopping /\ pc'[Owner] \in {"body", "spawned", "join", "dozing"}
      BY <1>1, <1>3 DEF OwnerAlone
    <2>. QED  BY <2>1 DEF OwnerAlone
  <1>4. CASE t # Owner /\ t \notin Worker
    <2>1. t \in Client \ {Owner} /\ pc[t] \notin {"new", "over"} /\ pc'[Owner] = pc[Owner]
      BY <1>0, <1>1, <1>4 DEF Thread
    <2>2. pc[Owner] \notin {"init", "stop", "stopped", "reap", "over"}
      BY <2>1 DEF OwnerAlone
    <2>. QED  BY <2>1, <2>2 DEF OwnerAlone
  <1>. QED  BY <1>2, <1>3, <1>4

\* No wakeup is lost by a step of a thread that owes none and sleeps with reason.
LEMMA WakeStep ==
  ASSUME NoLostWakeup, pc \in [Thread -> Points], NEW t \in Thread, NEW p, Go(t, p), pc[t] \notin Wakers,
         \A u \in Thread \ {t} : Stuck(u)' => Stuck(u), ~Stuck(t)'
  PROVE  NoLostWakeup'
  <1>1. \A u \in Thread \ {t} : pc'[u] = pc[u]
    BY DEF Go
  <1>2. ASSUME NEW u \in Thread, Stuck(u)' PROVE \E v \in Thread : pc'[v] \in Wakers
    <2>1. u # t /\ Stuck(u)
      BY <1>2
    <2>2. PICK v \in Thread : pc[v] \in Wakers
      BY <2>1 DEF NoLostWakeup, Stuck, Wakers
    <2>. QED  BY <1>1, <2>2
  <1>. QED  BY <1>2 DEF NoLostWakeup, Stuck, Wakers

\* A thread that is about to wake the others owes them nothing more.
LEMMA WakeOwed ==
  ASSUME pc \in [Thread -> Points], NEW t \in Thread, NEW p \in Wakers, Go(t, p)
  PROVE  NoLostWakeup'
  <1>1. pc'[t] \in Wakers
    BY DEF Go
  <1>. QED  BY <1>1 DEF NoLostWakeup, Wakers

\* What a thread can take is there as long as a task is queued that it may take.
LEMMA EligibleSome ==
  ASSUME NEW q, NEW sc, NEW par, NEW within
  PROVE  EligibleIn(q, sc, par, within) # {} <=> \E k \in Range(q) : within = 0 \/ within \in ChainIn(par, sc[k])
  BY DEF EligibleIn, Range

\* Eligible, for any queue and chains.
LEMMA EligibleBoth ==
  ASSUME NEW within
  PROVE  /\ Eligible(within) = EligibleIn(queue, scope_of, parent, within)
         /\ Eligible(within)' = EligibleIn(queue', scope_of', parent', within)
  BY DEF Eligible, EligibleIn, descends, Chain, ChainIn, UpClosed, UpIn

\* Who could not go on before cannot now, when the data is as it was.
LEMMA StuckSame ==
  ASSUME NEW u \in Thread, pc'[u] = pc[u], stack' = stack, queue' = queue, scope_of' = scope_of, parent' = parent,
         pending' = pending, stopping' = stopping
  PROVE  Stuck(u)' => Stuck(u)
  <1>1. Eligible(Top(u).id)' = Eligible(Top(u).id)
    BY DEF Eligible, descends, Chain, UpClosed, Top
  <1>. QED  BY <1>1 DEF Stuck, Top, Helps

\* A pool that has been told to stop has nothing in hand.
LEMMA BusyNotStopping ==
  ASSUME PoolIndInv, NEW t \in Thread,
         stack[t] # <<>> \/ (pc[t] \in {"body", "spawned", "join", "dozing", "count"})
  PROVE  ~stopping
  <1>. SUFFICES ASSUME stopping PROVE FALSE
    OBVIOUS
  <1>1. live = {} /\ DataInv
    BY DEF PoolIndInv, StopsIdle
  <1>2. CASE stack[t] # <<>>
    BY <1>1, <1>2, TopFacts, HeldKnown, FrameFacts
  <1>3. CASE stack[t] = <<>> /\ pc[t] \in {"body", "spawned", "join", "dozing", "count"}
    <2>1. Fits(t, pc[t], stack[t])
      BY DEF PoolIndInv, PointsOK
    <2>2. t \in Client /\ pc[t] = "body"
      BY <1>3, <2>1 DEF Fits, Thread
    <2>3. pc[Owner] \in {"stopped", "reap", "over"} /\ \A c \in Client \ {Owner} : pc[c] \in {"new", "over"}
      BY DEF PoolIndInv, OwnerAlone
    <2>. QED  BY <2>2, <2>3
  <1>. QED  BY <1>2, <1>3

\* Who is in a task is a worker.
LEMMA TaskWorker ==
  ASSUME DataInv, NEW t \in Thread, stack[t] # <<>>, Top(t).kind = "task"
  PROVE  t \in Worker /\ t \notin Client
  <1>1. Nested(t, stack[t], scope_of, parent)
    BY DEF DataInv, StacksNested
  <1>2. t \notin Client
    BY <1>1, TopFacts DEF Nested, Top
  <1>. QED  BY <1>2 DEF Thread

\* A worker's block lies on a task, and a task that is not the first on a block.
LEMMA BelowTop ==
  ASSUME DataInv, NEW t \in Thread, stack[t] # <<>>
  PROVE  /\ t \in Worker /\ Top(t).kind = "block" => Popped(stack[t]) # <<>>
         /\ Top(t).kind = "task" /\ Len(stack[t]) = 1 => Popped(stack[t]) = <<>>
         /\ Top(t).kind = "task" /\ Len(stack[t]) # 1 =>
               Popped(stack[t]) # <<>> /\ Popped(stack[t])[Len(Popped(stack[t]))].kind = "block"
  <1>1. Nested(t, stack[t], scope_of, parent) /\ stack[t] \in Seq(Frame)
    BY DataTypes DEF DataInv, StacksNested
  <1>2. PICK z \in Seq(Frame) : z = stack[t] /\ z # <<>>
    BY <1>1
  <1>3. PICK m \in Nat \ {0} : m = Len(z)
    BY <1>2, PopFacts
  <1>4. PICK w \in Seq(Frame) : w = Popped(z)
    BY <1>2, PopFacts
  <1>5. Len(w) = m - 1 /\ DOMAIN z = 1 .. m /\ \A i \in 1 .. m - 1 : w[i] = z[i]
    BY <1>2, <1>3, <1>4, PopFacts
  <1>6. w = <<>> <=> m = 1
    BY <1>3, <1>5, EmptySeq
  <1>7. Top(t) = z[m]
    BY <1>2, <1>3 DEF Top
  <1>8. t \in Worker /\ Top(t).kind = "block" => m # 1
    BY <1>1, <1>2, <1>5, <1>7 DEF Nested
  <1>9. ASSUME Top(t).kind = "task", m # 1 PROVE w[Len(w)].kind = "block"
    <2>1. m \in DOMAIN z /\ m - 1 \in 1 .. m - 1
      BY <1>5, <1>9
    <2>2. z[m - 1].kind = "block"
      BY <1>1, <1>2, <1>7, <1>9, <2>1 DEF Nested
    <2>. QED  BY <1>5, <2>1, <2>2
  <1>. QED  BY <1>2, <1>3, <1>4, <1>6, <1>8, <1>9

-----------------------------------------------------------------------------
(* The pool: one lemma per step.                                           *)

\* A step that moves one thread, and changes no data.
LEMMA QuietStep ==
  ASSUME PoolIndInv, NEW t \in Thread, NEW p \in Points, Go(t, p),
         queue' = queue, stopping' = stopping, scope_of' = scope_of, parent' = parent, pending' = pending,
         live' = live, stack' = stack, failed' \in BOOLEAN,
         Fits(t, p, stack[t]), pc[t] \notin Wakers, ~Stuck(t)'
  PROVE  DataInv' /\ PointsOK' /\ NoLostWakeup' /\ StopsIdle'
  <1>0. DataInv /\ PointsOK /\ NoLostWakeup /\ StopsIdle
    BY DEF PoolIndInv
  <1>1. pc \in [Thread -> Points] /\ stopping \in BOOLEAN
    BY <1>0, DataTypes
  <1>2. pc' \in [Thread -> Points] /\ \A u \in Thread \ {t} : pc'[u] = pc[u]
    BY <1>1 DEF Go
  <1>3. DataInv'
    BY <1>0, <1>1, <1>2, DataSame
  <1>4. PointsOK'
    BY <1>0, <1>1, PointsStep
  <1>5. \A u \in Thread \ {t} : Stuck(u)' => Stuck(u)
    BY <1>2, StuckSame
  <1>6. NoLostWakeup'
    BY <1>0, <1>1, <1>5, WakeStep
  <1>7. StopsIdle'
    BY <1>0 DEF StopsIdle
  <1>. QED  BY <1>3, <1>4, <1>6, <1>7

\* A thread that goes somewhere it does not sleep is not stuck.
LEMMA AwakeNotStuck ==
  ASSUME pc \in [Thread -> Points], NEW t \in Thread, NEW p, Go(t, p), p \notin {"asleep", "dozing"}
  PROVE  ~Stuck(t)'
  BY DEF Go, Stuck

\* EndBlock preserves the invariant.
LEMMA PoolEndBlock ==
  ASSUME PoolIndInv, NEW t \in Thread, EndBlock(t)
  PROVE  PoolIndInv'
  <1>0. DataInv /\ PointsOK /\ OwnerAlone /\ pc \in [Thread -> Points] /\ failed \in BOOLEAN
    BY DataTypes DEF PoolIndInv
  <1>1. /\ pc[t] = "body" /\ InBlock(t) /\ Go(t, "join") /\ queue' = queue /\ stopping' = stopping
        /\ scope_of' = scope_of /\ parent' = parent /\ pending' = pending /\ live' = live /\ stack' = stack
        /\ failed' = failed
    BY DEF EndBlock, blocks
  <1>2. Fits(t, "join", stack[t])
    BY <1>0, <1>1 DEF PointsOK, Fits, InBlock, Top
  <1>3. ~Stuck(t)' /\ "join" \in Points /\ pc[t] \notin Wakers
    BY <1>0, <1>1, AwakeNotStuck DEF Points, Wakers
  <1>4. OwnerAlone'
    BY <1>0, <1>1, OwnerStep
  <1>. QED  BY <1>0, <1>1, <1>2, <1>3, <1>4, QuietStep DEF PoolIndInv

\* EndTask preserves the invariant.
LEMMA PoolEndTask ==
  ASSUME PoolIndInv, NEW t \in Thread, EndTask(t)
  PROVE  PoolIndInv'
  <1>0. DataInv /\ PointsOK /\ OwnerAlone /\ pc \in [Thread -> Points] /\ failed \in BOOLEAN
    BY DataTypes DEF PoolIndInv
  <1>1. /\ pc[t] = "body" /\ stack[t] # <<>> /\ Top(t).kind = "task" /\ Go(t, "count") /\ queue' = queue
        /\ stopping' = stopping /\ scope_of' = scope_of /\ parent' = parent /\ pending' = pending /\ live' = live
        /\ stack' = stack /\ failed' = failed
    BY DEF EndTask, blocks
  <1>2. t \in Worker /\ t \notin Client
    BY <1>0, <1>1, TaskWorker
  <1>3. Fits(t, "count", stack[t])
    BY <1>1, <1>2 DEF Fits, Top
  <1>4. ~Stuck(t)' /\ "count" \in Points /\ pc[t] \notin Wakers
    BY <1>0, <1>1, AwakeNotStuck DEF Points, Wakers
  <1>5. OwnerAlone'
    BY <1>0, <1>1, <1>2, OwnerStep
  <1>. QED  BY <1>0, <1>1, <1>3, <1>4, <1>5, QuietStep DEF PoolIndInv

\* A join that cannot end nor help sleeps: it preserves the invariant.
LEMMA PoolDoze ==
  ASSUME PoolIndInv, NEW t \in Thread, pc[t] = "join",
         pending[Top(t).id] > 0 /\ (Helps(t) => Eligible(Top(t).id) = {}),
         Go(t, "dozing"), UNCHANGED <<queue, stopping, blocks, stack, failed>>
  PROVE  PoolIndInv'
  <1>0. DataInv /\ PointsOK /\ OwnerAlone /\ pc \in [Thread -> Points] /\ failed \in BOOLEAN
    BY DataTypes DEF PoolIndInv
  <1>1. /\ queue' = queue /\ stopping' = stopping /\ scope_of' = scope_of /\ parent' = parent /\ pending' = pending
        /\ live' = live /\ stack' = stack /\ failed' = failed
    BY DEF blocks
  <1>2. Fits(t, "dozing", stack[t])
    BY <1>0 DEF PointsOK, Fits
  <1>3. ~Stuck(t)'
    <2>1. pc'[t] = "dozing"
      BY <1>0 DEF Go
    <2>2. Eligible(Top(t).id)' = Eligible(Top(t).id)
      BY <1>1 DEF Eligible, descends, Chain, UpClosed, Top
    <2>3. pending'[Top(t).id] # 0 /\ Top(t)' = Top(t)
      <3>1. pending[Top(t).id] # 0
        <4>1. stack[t] # <<>> /\ Top(t).kind = "block"
          BY <1>0 DEF PointsOK, Fits, Top
        <4>2. Top(t).id \in DOMAIN pending
          BY <1>0, <4>1, TopFacts, HeldKnown, DataTypes
        <4>3. pending[Top(t).id] \in Nat
          BY <1>0, <4>2, DataTypes, LenProperties, ElementOfSeq
        <4>. QED  BY <4>3
      <3>. QED  BY <1>1, <3>1 DEF Top
    <2>. QED  BY <2>1, <2>2, <2>3 DEF Stuck, Helps
  <1>4. "dozing" \in Points /\ pc[t] \notin Wakers
    BY DEF Points, Wakers
  <1>5. OwnerAlone'
    BY <1>0, <1>1, OwnerStep
  <1>. QED  BY <1>0, <1>1, <1>2, <1>3, <1>4, <1>5, QuietStep DEF PoolIndInv

\* A spurious wakeup preserves the invariant.
LEMMA PoolSpurious ==
  ASSUME PoolIndInv, NEW t \in Thread, Spurious(t)
  PROVE  PoolIndInv'
  <1>0. DataInv /\ PointsOK /\ OwnerAlone /\ pc \in [Thread -> Points] /\ failed \in BOOLEAN
    BY DataTypes DEF PoolIndInv
  <1>1. /\ pc[t] \in {"dozing", "asleep"} /\ queue' = queue /\ stopping' = stopping /\ scope_of' = scope_of
        /\ parent' = parent /\ pending' = pending /\ live' = live /\ stack' = stack /\ failed' = failed
    BY DEF Spurious, blocks
  <1>2. PICK p : p = IF pc[t] = "dozing" THEN "join" ELSE "seek"
    OBVIOUS
  <1>3. Go(t, p)
    BY <1>2 DEF Spurious
  <1>4. Fits(t, p, stack[t]) /\ (pc[t] = "asleep" => t \in Worker)
    BY <1>0, <1>1, <1>2 DEF PointsOK, Fits, Thread
  <1>5. ~Stuck(t)' /\ p \in Points /\ pc[t] \notin Wakers
    BY <1>0, <1>1, <1>2, <1>3, AwakeNotStuck DEF Points, Wakers
  <1>6. OwnerAlone'
    BY <1>0, <1>1, <1>2, <1>3, <1>4, OwnerStep
  <1>. QED  BY <1>0, <1>1, <1>3, <1>4, <1>5, <1>6, QuietStep DEF PoolIndInv

\* A worker that finds nothing sleeps, or ends: it preserves the invariant.
LEMMA PoolIdle ==
  ASSUME PoolIndInv, NEW t \in Thread, pc[t] = "seek", queue = <<>>,
         Go(t, IF stopping THEN "gone" ELSE "asleep"), UNCHANGED <<queue, stopping, blocks, stack, failed>>
  PROVE  PoolIndInv'
  <1>0. DataInv /\ PointsOK /\ OwnerAlone /\ pc \in [Thread -> Points] /\ failed \in BOOLEAN
    BY DataTypes DEF PoolIndInv
  <1>1. /\ queue' = queue /\ stopping' = stopping /\ scope_of' = scope_of /\ parent' = parent /\ pending' = pending
        /\ live' = live /\ stack' = stack /\ failed' = failed
    BY DEF blocks
  <1>2. PICK p : p = IF stopping THEN "gone" ELSE "asleep"
    OBVIOUS
  <1>3. Fits(t, p, stack[t]) /\ t \in Worker
    BY <1>0, <1>2 DEF PointsOK, Fits, Thread
  <1>4. ~Stuck(t)'
    <2>1. pc'[t] = p
      BY <1>0, <1>2 DEF Go
    <2>. QED  BY <1>1, <1>2, <2>1 DEF Stuck
  <1>5. p \in Points /\ pc[t] \notin Wakers
    BY <1>2 DEF Points, Wakers
  <1>6. Go(t, p)
    BY <1>2
  <1>7. OwnerAlone'
    BY <1>0, <1>1, <1>3, <1>6, OwnerStep
  <1>. QED  BY <1>0, <1>1, <1>3, <1>4, <1>5, <1>6, <1>7, QuietStep DEF PoolIndInv

\* StartFails, Borrow, Return and Reap preserve the invariant.
LEMMA PoolOwnerSteps ==
  ASSUME PoolIndInv, NEW t \in Thread, StartFails(t) \/ Borrow(t) \/ Return(t) \/ Reap(t)
  PROVE  PoolIndInv'
  <1>0. DataInv /\ PointsOK /\ OwnerAlone /\ pc \in [Thread -> Points] /\ failed \in BOOLEAN
    BY DataTypes DEF PoolIndInv
  <1>1. /\ queue' = queue /\ stopping' = stopping /\ scope_of' = scope_of /\ parent' = parent /\ pending' = pending
        /\ live' = live /\ stack' = stack /\ failed' \in BOOLEAN
    BY <1>0 DEF StartFails, Borrow, Return, Reap, blocks
  <1>2. Owner \in Client /\ Client \subseteq Thread /\ Worker \cap Client = {}
    BY PoolAssumption DEF Thread
  <1>3. Fits(t, pc[t], stack[t])
    BY <1>0 DEF PointsOK
  <1>4. CASE StartFails(t)
    <2>1. pc[t] = "init" /\ Go(t, "stop") /\ t = Owner
      BY <1>2, <1>3, <1>4 DEF StartFails, Fits, Thread
    <2>2. Fits(t, "stop", stack[t])
      BY <1>2, <1>3, <2>1 DEF Fits
    <2>3. ~Stuck(t)' /\ "stop" \in Points /\ pc[t] \notin Wakers
      BY <1>0, <2>1, AwakeNotStuck DEF Points, Wakers
    <2>4. OwnerAlone'
      <3>1. pc'[Owner] = "stop" /\ \A c \in Client \ {Owner} : pc'[c] = pc[c]
        BY <1>0, <1>2, <2>1 DEF Go
      <3>. QED  BY <1>0, <1>1, <2>1, <3>1 DEF OwnerAlone
    <2>. QED  BY <1>0, <1>1, <2>1, <2>2, <2>3, <2>4, QuietStep DEF PoolIndInv
  <1>5. CASE Borrow(t)
    <2>1. pc[t] = "new" /\ Go(t, "body") /\ t \in Client /\ pc[Owner] = "body" /\ t # Owner
      BY <1>5 DEF Borrow
    <2>2. Fits(t, "body", stack[t])
      BY <1>2, <1>3, <2>1 DEF Fits
    <2>3. ~Stuck(t)' /\ "body" \in Points /\ pc[t] \notin Wakers
      BY <1>0, <2>1, AwakeNotStuck DEF Points, Wakers
    <2>4. OwnerAlone'
      <3>1. pc'[Owner] = "body"
        BY <1>0, <1>2, <2>1 DEF Go
      <3>. QED  BY <1>0, <1>1, <2>1, <3>1 DEF OwnerAlone
    <2>. QED  BY <1>0, <1>1, <2>1, <2>2, <2>3, <2>4, QuietStep DEF PoolIndInv
  <1>6. CASE Return(t)
    <2>1. PICK p : p = IF t = Owner THEN "stop" ELSE "over"
      OBVIOUS
    <2>2. /\ pc[t] = "body" /\ Go(t, p) /\ t \in Client /\ stack[t] = <<>>
          /\ t = Owner => \A u \in Client \ {Owner} : pc[u] \in {"new", "over"}
      BY <1>6, <2>1 DEF Return
    <2>3. Fits(t, p, stack[t])
      BY <1>2, <2>1, <2>2 DEF Fits
    <2>4. ~Stuck(t)' /\ p \in Points /\ pc[t] \notin Wakers
      BY <1>0, <2>1, <2>2, AwakeNotStuck DEF Points, Wakers
    <2>5. OwnerAlone'
      <3>1. pc'[t] = p /\ \A c \in Client \ {t} : pc'[c] = pc[c]
        BY <1>0, <1>2, <2>2 DEF Go
      <3>2. ~stopping
        BY <2>2, BusyNotStopping
      <3>3. CASE t = Owner
        BY <1>1, <2>1, <2>2, <3>1, <3>2, <3>3 DEF OwnerAlone
      <3>4. CASE t # Owner
        BY <1>0, <1>1, <2>1, <3>1, <3>2, <3>4, PoolAssumption DEF OwnerAlone
      <3>. QED  BY <3>3, <3>4
    <2>. QED  BY <1>0, <1>1, <2>2, <2>3, <2>4, <2>5, QuietStep DEF PoolIndInv
  <1>7. CASE Reap(t)
    <2>1. pc[t] = "reap" /\ Go(t, "over") /\ t = Owner
      BY <1>2, <1>3, <1>7 DEF Reap, Fits, Thread
    <2>2. Fits(t, "over", stack[t])
      BY <1>2, <1>3, <2>1 DEF Fits
    <2>3. ~Stuck(t)' /\ "over" \in Points /\ pc[t] \notin Wakers
      BY <1>0, <2>1, AwakeNotStuck DEF Points, Wakers
    <2>4. OwnerAlone'
      <3>1. pc'[Owner] = "over" /\ \A c \in Client \ {Owner} : pc'[c] = pc[c]
        BY <1>0, <1>2, <2>1 DEF Go
      <3>. QED  BY <1>0, <1>1, <2>1, <3>1 DEF OwnerAlone
    <2>. QED  BY <1>0, <1>1, <2>1, <2>2, <2>3, <2>4, QuietStep DEF PoolIndInv
  <1>. QED  BY <1>4, <1>5, <1>6, <1>7

\* StartWorker preserves the invariant.
LEMMA PoolStartWorker ==
  ASSUME PoolIndInv, NEW t \in Thread, StartWorker(t)
  PROVE  PoolIndInv'
  <1>0. /\ DataInv /\ PointsOK /\ OwnerAlone /\ NoLostWakeup /\ StopsIdle /\ pc \in [Thread -> Points]
        /\ failed \in BOOLEAN /\ stopping \in BOOLEAN
    BY DataTypes DEF PoolIndInv
  <1>1. /\ queue' = queue /\ stopping' = stopping /\ scope_of' = scope_of /\ parent' = parent /\ pending' = pending
        /\ live' = live /\ stack' = stack /\ failed' = failed /\ pc[t] = "init"
    BY DEF StartWorker, blocks
  <1>2. Owner \in Client /\ Client \subseteq Thread /\ Worker \subseteq Thread /\ Worker \cap Client = {}
    BY PoolAssumption DEF Thread
  <1>3. t = Owner
    BY <1>0, <1>1, <1>2 DEF PointsOK, Fits, Thread
  <1>4. PICK w \in Unstarted :
          pc' = [pc EXCEPT ![w] = "seek", ![t] = IF Unstarted = {w} THEN "body" ELSE "init"]
    BY DEF StartWorker
  <1>5. w \in Worker /\ pc[w] = "new" /\ w # t
    BY <1>2, <1>3, <1>4 DEF Unstarted
  <1>6. PICK p \in {"body", "init"} : p = IF Unstarted = {w} THEN "body" ELSE "init"
    OBVIOUS
  <1>7. /\ pc'[w] = "seek" /\ pc'[t] = p /\ \A u \in Thread \ {w, t} : pc'[u] = pc[u]
        /\ pc' \in [Thread -> Points]
    <2>1. "seek" \in Points /\ p \in Points
      BY <1>6 DEF Points
    <2>. QED  BY <1>0, <1>2, <1>4, <1>5, <1>6, <2>1
  <1>8. DataInv'
    BY <1>0, <1>1, <1>7, DataSame
  <1>9. PointsOK'
    <2>1. ASSUME NEW u \in Thread PROVE Fits(u, pc'[u], stack'[u])
      <3>1. Fits(u, pc[u], stack[u])
        BY <1>0 DEF PointsOK
      <3>2. CASE u = w
        <4>1. Fits(w, "seek", stack[w])
          BY <1>2, <1>5, <3>1, <3>2 DEF Fits
        <4>. QED  BY <1>1, <1>7, <3>2, <4>1
      <3>3. CASE u = t
        <4>1. Fits(t, p, stack[t])
          BY <1>1, <1>2, <1>3, <1>6, <3>1, <3>3 DEF Fits
        <4>. QED  BY <1>1, <1>7, <3>3, <4>1
      <3>4. CASE u \notin {w, t}
        BY <1>1, <1>7, <3>1, <3>4
      <3>. QED  BY <3>2, <3>3, <3>4
    <2>. QED  BY <2>1 DEF PointsOK
  <1>10. OwnerAlone'
    <2>1. \A c \in Client \ {Owner} : pc'[c] = pc[c]
      BY <1>2, <1>3, <1>5, <1>7
    <2>2. ~stopping /\ pc'[Owner] = p
      BY <1>0, <1>1, <1>3, <1>7 DEF OwnerAlone
    <2>. QED  BY <1>0, <1>1, <1>3, <1>6, <2>1, <2>2 DEF OwnerAlone
  <1>11. NoLostWakeup'
    <2>1. ASSUME NEW u \in Thread, Stuck(u)' PROVE \E v \in Thread : pc'[v] \in Wakers
      <3>1. pc'[u] \in {"asleep", "dozing"}
        BY <2>1 DEF Stuck
      <3>2. u \notin {w, t}
        BY <1>6, <1>7, <3>1
      <3>3. Stuck(u)
        BY <1>1, <1>7, <2>1, <3>2, StuckSame
      <3>4. PICK v \in Thread : pc[v] \in Wakers
        BY <1>0, <3>3 DEF NoLostWakeup, Stuck, Wakers
      <3>5. v \notin {w, t}
        BY <1>1, <1>5, <3>4 DEF Wakers
      <3>. QED  BY <1>7, <3>4, <3>5
    <2>. QED  BY <2>1 DEF NoLostWakeup, Stuck, Wakers
  <1>12. StopsIdle'
    BY <1>0, <1>1 DEF StopsIdle
  <1>. QED  BY <1>8, <1>9, <1>10, <1>11, <1>12 DEF PoolIndInv

\* When the owner stops the pool no client is in a block; the least live block would be in
\* a worker's stack, on a task of a lesser one: there is none, and no task.
LEMMA IdleAtStop ==
  ASSUME PoolIndInv, pc[Owner] = "stop"
  PROVE  live = {} /\ queue = <<>>
  <1>0. DataInv /\ PointsOK /\ OwnerAlone
    BY DEF PoolIndInv
  <1>1. \A c \in Client : stack[c] = <<>>
    <2>1. \A c \in Client : pc[c] \in {"new", "over", "stop"} /\ c \in Thread
      BY <1>0 DEF OwnerAlone, Thread
    <2>. QED  BY <1>0, <2>1 DEF PointsOK, Fits
  <1>2. live = {}
    <2>. SUFFICES ASSUME live # {} PROVE FALSE
      OBVIOUS
    <2>1. live \subseteq Nat
      BY <1>0, DataTypes
    <2>2. PICK c \in live : \A s \in live : c <= s
      BY <2>1, LeastOf
    <2>3. c \in Scope /\ c \in DOMAIN parent
      BY <1>0, DataTypes
    <2>4. BlockFrame(c) \in HeldIn(stack)
      BY <1>0, <2>3 DEF DataInv, LiveHeld
    <2>5. PICK t \in Thread : BlockFrame(c) \in Range(stack[t])
      BY <2>4 DEF HeldIn
    <2>6. PICK i \in DOMAIN stack[t] : stack[t][i] = BlockFrame(c)
      BY <2>5 DEF Range
    <2>7. stack[t] \in Seq(Frame) /\ Nested(t, stack[t], scope_of, parent)
      BY <1>0, DataTypes DEF DataInv, StacksNested
    <2>8. t \notin Client
      <3>1. stack[t] # <<>>
        BY <2>6, <2>7, EmptySeq, LenProperties
      <3>. QED  BY <1>1, <3>1
    <2>9. stack[t][i].kind = "block" /\ stack[t][i].id = c
      BY <2>3, <2>6, FrameFacts
    <2>10. PICK j \in DOMAIN stack[t] : stack[t][j].kind = "task" /\ parent[c] = scope_of[stack[t][j].id]
      BY <2>7, <2>8, <2>9 DEF Nested
    <2>11. parent[c] \in live
      <3>1. stack[t][j] \in Frame /\ stack[t][j] \in HeldIn(stack)
        BY <1>0, DataTypes, HeldItem
      <3>. QED  BY <1>0, <2>10, <3>1, HeldKnown
    <2>12. parent[c] < c
      BY <1>0, <2>3 DEF DataInv, ParentsOlder
    <2>13. PICK p \in Nat : p = parent[c]
      BY <2>1, <2>11
    <2>14. c \in Nat /\ p < c /\ c <= p
      BY <2>1, <2>2, <2>11, <2>12, <2>13
    <2>. QED  BY ONLY <2>14, p \in Nat
  <1>3. queue = <<>>
    <2>. SUFFICES ASSUME queue # <<>> PROVE FALSE
      OBVIOUS
    <2>1. 1 \in DOMAIN queue
      BY <1>0, DataTypes, EmptySeq, LenProperties
    <2>2. queue[1] \in Flight
      BY <2>1 DEF Flight, Range
    <2>. QED  BY <1>0, <1>2, <2>2 DEF DataInv, FlightScoped
  <1>. QED  BY <1>2, <1>3

\* Stop preserves the invariant.
LEMMA PoolStop ==
  ASSUME PoolIndInv, NEW t \in Thread, Stop(t)
  PROVE  PoolIndInv'
  <1>0. DataInv /\ PointsOK /\ OwnerAlone /\ pc \in [Thread -> Points] /\ failed \in BOOLEAN
    BY DataTypes DEF PoolIndInv
  <1>1. /\ queue' = queue /\ stopping' = TRUE /\ scope_of' = scope_of /\ parent' = parent /\ pending' = pending
        /\ live' = live /\ stack' = stack /\ failed' = failed /\ pc[t] = "stop" /\ Go(t, "stopped")
    BY DEF Stop, blocks
  <1>2. Owner \in Client /\ Client \subseteq Thread /\ Worker \cap Client = {}
    BY PoolAssumption DEF Thread
  <1>3. t = Owner /\ Fits(t, pc[t], stack[t])
    BY <1>0, <1>1, <1>2 DEF PointsOK, Fits, Thread
  <1>4. pc' \in [Thread -> Points] /\ pc'[t] = "stopped" /\ \A c \in Client \ {Owner} : pc'[c] = pc[c]
    <2>1. "stopped" \in Points
      BY DEF Points
    <2>. QED  BY <1>0, <1>1, <1>2, <1>3, <2>1 DEF Go
  <1>5. DataInv'
    BY <1>0, <1>1, <1>4, DataSame
  <1>6. Fits(t, "stopped", stack[t])
    BY <1>1, <1>2, <1>3 DEF Fits
  <1>7. PointsOK'
    BY <1>0, <1>1, <1>6, PointsStep
  <1>8. OwnerAlone'
    BY <1>0, <1>1, <1>3, <1>4 DEF OwnerAlone
  <1>9. NoLostWakeup'
    BY <1>0, <1>1, WakeOwed DEF Wakers
  <1>10. StopsIdle'
    BY <1>1, <1>3, IdleAtStop DEF StopsIdle
  <1>. QED  BY <1>5, <1>7, <1>8, <1>9, <1>10 DEF PoolIndInv

\* rt_wake_all preserves the invariant.
LEMMA PoolWakeAll ==
  ASSUME PoolIndInv, NEW t \in Thread, WakeAll(t)
  PROVE  PoolIndInv'
  <1>0. /\ DataInv /\ PointsOK /\ OwnerAlone /\ StopsIdle /\ pc \in [Thread -> Points]
        /\ failed \in BOOLEAN /\ stopping \in BOOLEAN
    BY DataTypes DEF PoolIndInv
  <1>1. /\ queue' = queue /\ stopping' = stopping /\ scope_of' = scope_of /\ parent' = parent /\ pending' = pending
        /\ live' = live /\ stack' = stack /\ failed' = failed /\ pc[t] \in {"spawned", "last", "stopped"}
    BY DEF WakeAll, blocks
  <1>2. PICK p : p = CASE pc[t] = "spawned" -> "body"
                        [] pc[t] = "last" -> (IF stack[t] = <<>> THEN "seek" ELSE "join")
                        [] OTHER -> "reap"
    OBVIOUS
  <1>3. /\ pc[t] = "spawned" => p = "body"
        /\ pc[t] = "last" => p = IF stack[t] = <<>> THEN "seek" ELSE "join"
        /\ pc[t] = "stopped" => p = "reap"
    BY <1>1, <1>2
  <1>4. /\ pc' = [u \in Thread |-> IF u = t THEN p ELSE IF pc[u] = "dozing" THEN "join"
                                   ELSE IF pc[u] = "asleep" THEN "seek" ELSE pc[u]]
    <2>1. \A u \in Thread :
            (CASE u = t -> p
               [] u # t /\ pc[u] = "dozing" -> "join"
               [] u # t /\ pc[u] = "asleep" -> "seek"
               [] OTHER -> pc[u])
            = IF u = t THEN p ELSE IF pc[u] = "dozing" THEN "join" ELSE IF pc[u] = "asleep" THEN "seek" ELSE pc[u]
      OBVIOUS
    <2>2. pc' = [u \in Thread |->
            CASE u = t -> p
              [] u # t /\ pc[u] = "dozing" -> "join"
              [] u # t /\ pc[u] = "asleep" -> "seek"
              [] OTHER -> pc[u]]
      BY <1>2 DEF WakeAll
    <2>. QED  BY <2>1, <2>2
  <1>5. pc'[t] = p /\ \A u \in Thread \ {t} : \/ pc'[u] = pc[u] /\ pc[u] \notin {"dozing", "asleep"}
                                              \/ pc[u] = "dozing" /\ pc'[u] = "join"
                                              \/ pc[u] = "asleep" /\ pc'[u] = "seek"
    BY <1>4
  <1>6. p \in {"body", "seek", "join", "reap"}
    BY <1>1, <1>3
  <1>7. pc' \in [Thread -> Points]
    <2>1. \A u \in Thread : pc'[u] \in Points
      BY <1>0, <1>5, <1>6 DEF Points
    <2>. QED  BY <1>4, <2>1
  <1>8. DataInv'
    BY <1>0, <1>1, <1>7, DataSame
  <1>9. PointsOK'
    <2>1. ASSUME NEW u \in Thread PROVE Fits(u, pc'[u], stack'[u])
      <3>1. Fits(u, pc[u], stack[u])
        BY <1>0 DEF PointsOK
      <3>2. CASE u = t
        <4>1. Fits(t, p, stack[t])
          BY <1>1, <1>3, <3>1, <3>2 DEF Fits, Thread
        <4>. QED  BY <1>1, <1>5, <3>2, <4>1
      <3>3. CASE u # t
        <4>1. Fits(u, pc'[u], stack[u])
          BY <1>5, <3>1, <3>3 DEF Fits
        <4>. QED  BY <1>1, <4>1
      <3>. QED  BY <3>2, <3>3
    <2>. QED  BY <2>1 DEF PointsOK
  <1>10. OwnerAlone'
    <2>0. Owner \in Client /\ Client \subseteq Thread /\ Worker \cap Client = {}
      BY PoolAssumption DEF Thread
    <2>1. CASE t = Owner
      <3>1. pc[t] # "last"
        BY <1>0, <2>0, <2>1 DEF PointsOK, Fits
      <3>2. \A c \in Client \ {Owner} : pc[c] \in {"new", "over"} => pc'[c] = pc[c]
        BY <1>5, <2>0, <2>1
      <3>3. CASE pc[t] = "spawned"
        <4>1. ~stopping /\ pc'[Owner] = "body"
          BY <1>0, <1>3, <1>5, <2>1, <3>3 DEF OwnerAlone
        <4>. QED  BY <1>1, <4>1 DEF OwnerAlone
      <3>4. CASE pc[t] = "stopped"
        <4>1. pc'[Owner] = "reap"
          BY <1>3, <1>5, <2>1, <3>4
        <4>. QED  BY <1>0, <1>1, <2>1, <3>2, <3>4, <4>1 DEF OwnerAlone
      <3>. QED  BY <1>1, <3>1, <3>3, <3>4
    <2>2. CASE t # Owner
      <3>1. pc'[Owner] \in {"init", "stop", "stopped", "reap", "over"} => pc'[Owner] = pc[Owner]
        BY <1>5, <2>0, <2>2
      <3>2. pc[Owner] \in {"stopped", "reap", "over"} => pc'[Owner] = pc[Owner]
        BY <1>5, <2>0, <2>2
      <3>3. \A c \in Client \ {Owner} : pc[c] \in {"new", "over"} => pc'[c] = pc[c]
        <4>1. t \in Client => pc[t] \notin {"new", "over"}
          BY <1>1
        <4>. QED  BY <1>5, <2>0, <4>1
      <3>. QED  BY <1>0, <1>1, <3>1, <3>2, <3>3 DEF OwnerAlone
    <2>. QED  BY <2>1, <2>2
  <1>11. NoLostWakeup'
    <2>1. \A u \in Thread : pc'[u] \notin {"asleep", "dozing"}
      BY <1>5, <1>6
    <2>. QED  BY <2>1 DEF NoLostWakeup
  <1>12. StopsIdle'
    BY <1>0, <1>1 DEF StopsIdle
  <1>. QED  BY <1>8, <1>9, <1>10, <1>11, <1>12 DEF PoolIndInv

\* Open preserves the invariant.
LEMMA PoolOpen ==
  ASSUME PoolIndInv, NEW t \in Thread, Open(t)
  PROVE  PoolIndInv'
  <1>0. DataInv /\ PointsOK /\ OwnerAlone /\ NoLostWakeup /\ pc \in [Thread -> Points]
    BY DataTypes DEF PoolIndInv
  <1>1. DataInv'
    BY <1>0, DataOpen
  <1>2. PICK f \in Frame : stack' = [stack EXCEPT ![t] = Append(@, f)] /\ f.kind = "block"
    <2>1. Len(parent) + 1 \in Scope
      BY <1>0, DataTypes, PoolAssumption DEF Open, Scope
    <2>. QED  BY <2>1, FrameFacts DEF Open, Push, BlockFrame
  <1>3. /\ queue' = queue /\ stopping' = stopping /\ scope_of' = scope_of /\ pc' = pc /\ pc[t] = "body"
        /\ pending' = Append(pending, 0) /\ parent' = Append(parent, running_in(t))
    BY DEF Open
  <1>4. stack'[t] # <<>> /\ \A u \in Thread \ {t} : stack'[u] = stack[u]
    <2>1. stack[t] \in Seq(Frame) /\ stack \in [Thread -> Seq(Frame)]
      BY <1>0, DataTypes
    <2>2. stack'[t] = Append(stack[t], f)
      BY <1>2, <2>1
    <2>. QED  BY <1>2, <2>1, <2>2, PushFacts
  <1>5. ~stopping
    BY <1>3, BusyNotStopping
  <1>6. PointsOK'
    <2>1. Go(t, "body")
      BY <1>0, <1>3 DEF Go
    <2>2. Fits(t, "body", stack'[t])
      BY <1>0, <1>3, <1>4 DEF PointsOK, Fits
    <2>. QED  BY <1>0, <1>4, <2>1, <2>2, PointsStep
  <1>7. OwnerAlone'
    BY <1>0, <1>3 DEF OwnerAlone
  <1>8. NoLostWakeup'
    <2>1. \A s \in DOMAIN parent : ChainIn(parent', s) = ChainIn(parent, s)
      <3>1. running_in(t) \in Scope \cup {0}
        <4>1. Known(stack[t], scope_of, parent)
          BY <1>0, StackKnown
        <4>. QED  BY <1>0, <1>3, <4>1, RunningIn, DataTypes DEF Known
      <3>. QED  BY <1>0, <1>3, <3>1, ChainsKept
    <2>2. ASSUME NEW u \in Thread, Stuck(u)' PROVE Stuck(u)
      <3>1. pc[u] \in {"asleep", "dozing"} /\ u # t
        BY <1>3, <2>2 DEF Stuck
      <3>2. CASE pc[u] = "asleep"
        BY <1>3, <1>5, <2>2, <3>2 DEF Stuck
      <3>3. CASE pc[u] = "dozing"
        <4>1. stack[u] # <<>> /\ Top(u).kind = "block"
          BY <1>0, <3>3 DEF PointsOK, Fits, Top
        <4>2. PICK c \in DOMAIN parent : c = Top(u).id /\ Top(u)' = Top(u)
          BY <1>0, <1>4, <3>1, <4>1, TopFacts, HeldKnown, DataTypes DEF Top
        <4>3. pending'[c] = pending[c]
          BY <1>0, <1>3, DataTypes, AppendProperties
        <4>4. Eligible(c)' # {} => Eligible(c) # {}
          <5>. SUFFICES ASSUME Eligible(c)' # {} PROVE Eligible(c) # {}
            OBVIOUS
          <5>1. EligibleIn(queue, scope_of, parent', c) # {}
            BY <1>3, EligibleBoth
          <5>2. PICK k \in Range(queue) : c = 0 \/ c \in ChainIn(parent', scope_of[k])
            BY <5>1, EligibleSome
          <5>3. scope_of[k] \in DOMAIN parent
            BY <1>0, DataTypes DEF DataInv, FlightScoped, Flight
          <5>4. EligibleIn(queue, scope_of, parent, c) # {}
            BY <2>1, <5>2, <5>3, EligibleSome
          <5>. QED  BY <5>4, EligibleBoth
        <4>5. pending'[c] = 0 \/ (Helps(u) /\ Eligible(c)' # {})
          BY <1>3, <2>2, <3>3, <4>2 DEF Stuck, Helps
        <4>. QED  BY <3>3, <4>2, <4>3, <4>4, <4>5 DEF Stuck
      <3>. QED  BY <3>1, <3>2, <3>3
    <2>3. ASSUME NEW u \in Thread, Stuck(u)' PROVE \E v \in Thread : pc'[v] \in Wakers
      BY <1>0, <1>3, <2>2, <2>3 DEF NoLostWakeup, Stuck, Wakers
    <2>. QED  BY <2>3 DEF NoLostWakeup, Stuck, Wakers
  <1>9. StopsIdle'
    BY <1>3, <1>5 DEF StopsIdle
  <1>. QED  BY <1>1, <1>6, <1>7, <1>8, <1>9 DEF PoolIndInv

\* Submit preserves the invariant.
LEMMA PoolSubmit ==
  ASSUME PoolIndInv, NEW t \in Thread, Submit(t)
  PROVE  PoolIndInv'
  <1>0. DataInv /\ PointsOK /\ OwnerAlone /\ pc \in [Thread -> Points]
    BY DataTypes DEF PoolIndInv
  <1>1. DataInv'
    BY <1>0, DataSubmit
  <1>2. stack' = stack /\ stopping' = stopping /\ pc[t] = "body" /\ Go(t, "spawned") /\ InBlock(t)
    BY DEF Submit
  <1>3. Fits(t, "spawned", stack'[t])
    BY <1>0, <1>2 DEF PointsOK, Fits, InBlock, Top
  <1>4. PointsOK'
    BY <1>0, <1>2, <1>3, PointsStep
  <1>5. OwnerAlone'
    BY <1>0, <1>2, OwnerStep
  <1>6. NoLostWakeup'
    BY <1>0, <1>2, WakeOwed DEF Wakers
  <1>7. StopsIdle'
    BY <1>2, BusyNotStopping DEF StopsIdle
  <1>. QED  BY <1>1, <1>4, <1>5, <1>6, <1>7 DEF PoolIndInv

\* Leaving a block preserves the invariant.
LEMMA PoolLeave ==
  ASSUME PoolIndInv, NEW t \in Thread, pc[t] = "join", Leave(t)
  PROVE  PoolIndInv'
  <1>0. DataInv /\ PointsOK /\ OwnerAlone /\ NoLostWakeup /\ pc \in [Thread -> Points]
    BY DataTypes DEF PoolIndInv
  <1>1. stack[t] # <<>> /\ Top(t).kind = "block" /\ InBlock(t)
    BY <1>0 DEF PointsOK, Fits, Top, InBlock
  <1>2. DataInv'
    BY <1>0, <1>1, DataLeave
  <1>3. /\ queue' = queue /\ stopping' = stopping /\ scope_of' = scope_of /\ parent' = parent
        /\ pending' = pending /\ Go(t, "body") /\ Pop(t)
    BY DEF Leave
  <1>4. stack'[t] = Popped(stack[t]) /\ \A u \in Thread \ {t} : stack'[u] = stack[u]
    BY <1>0, <1>1, <1>3, DataTypes, PopHeld DEF DataInv
  <1>5. Fits(t, "body", stack'[t])
    BY <1>0, <1>1, <1>4, BelowTop DEF PointsOK, Fits
  <1>6. PointsOK'
    BY <1>0, <1>3, <1>4, <1>5, PointsStep
  <1>7. OwnerAlone'
    BY <1>0, <1>3, OwnerStep
  <1>8. NoLostWakeup'
    <2>1. ASSUME NEW u \in Thread \ {t}, Stuck(u)' PROVE Stuck(u)
      <3>1. pc'[u] = pc[u] /\ Top(u)' = Top(u)
        BY <1>0, <1>3, <1>4 DEF Go, Top
      <3>2. Eligible(Top(u).id)' = Eligible(Top(u).id)
        BY <1>3, <3>1 DEF Eligible, descends, Chain, UpClosed
      <3>. QED  BY <1>3, <2>1, <3>1, <3>2 DEF Stuck, Helps
    <2>2. ~Stuck(t)'
      BY <1>0, <1>3, AwakeNotStuck
    <2>. QED  BY <1>0, <1>3, <2>1, <2>2, WakeStep DEF Wakers
  <1>9. StopsIdle'
    BY <1>1, <1>3, BusyNotStopping DEF StopsIdle
  <1>. QED  BY <1>2, <1>6, <1>7, <1>8, <1>9 DEF PoolIndInv

\* Taking a task preserves the invariant.
LEMMA PoolTake ==
  ASSUME PoolIndInv, NEW t \in Thread, NEW within, take(t, within),
         pc[t] = "seek" \/ (pc[t] = "join" /\ Helps(t) /\ within = Top(t).id)
  PROVE  PoolIndInv'
  <1>0. DataInv /\ PointsOK /\ OwnerAlone /\ NoLostWakeup /\ StopsIdle /\ pc \in [Thread -> Points]
    BY DataTypes DEF PoolIndInv
  <1>1. t \in Worker /\ t \notin Client /\ (stack[t] = <<>> \/ (InBlock(t) /\ within = Top(t).id))
    <2>1. Fits(t, pc[t], stack[t])
      BY <1>0 DEF PointsOK
    <2>. QED  BY <2>1, PoolAssumption DEF Fits, Thread, Helps, InBlock, Top
  <1>2. DataInv'
    BY <1>0, <1>1, DataTake
  <1>3. PICK i \in Eligible(within) : /\ queue' = Unlinked(queue, i)
                                      /\ Push(t, "task", queue[i]) /\ Go(t, "body")
                                      /\ UNCHANGED <<stopping, blocks, failed>>
    BY DEF take, Unlinked
  <1>4. /\ stopping' = stopping /\ scope_of' = scope_of /\ parent' = parent /\ pending' = pending /\ live' = live
        /\ i \in DOMAIN queue
    BY <1>3 DEF blocks, Eligible
  <1>5. \A x : x \in Range(queue') => x \in Range(queue)
    <2>1. NoRepeat(queue)
      BY <1>0 DEF DataInv, QueuedOnce
    <2>2. \A x : x \in Range(Unlinked(queue, i)) <=> x \in Range(queue) /\ x # queue[i]
      BY <1>0, <1>4, <2>1, DataTypes, UnlinkFacts
    <2>. QED  BY <1>3, <2>2
  <1>6. stack'[t] # <<>> /\ \A u \in Thread \ {t} : stack'[u] = stack[u]
    <2>1. stack[t] \in Seq(Frame) /\ stack \in [Thread -> Seq(Frame)]
      BY <1>0, DataTypes
    <2>2. queue[i] \in Task
      BY <1>0, <1>4, DataTypes, ElementOfSeq, LenProperties
    <2>3. TaskFrame(queue[i]) \in Frame /\ stack' = [stack EXCEPT ![t] = Append(@, TaskFrame(queue[i]))]
      BY <1>3, <2>2, FrameFacts DEF Push, TaskFrame
    <2>4. stack'[t] = Append(stack[t], TaskFrame(queue[i]))
      BY <2>1, <2>3
    <2>. QED  BY <2>1, <2>3, <2>4, PushFacts
  <1>7. Fits(t, "body", stack'[t])
    BY <1>1, <1>6 DEF Fits
  <1>8. PointsOK'
    BY <1>0, <1>3, <1>6, <1>7, PointsStep
  <1>9. OwnerAlone'
    BY <1>0, <1>1, <1>3, <1>4, OwnerStep
  <1>10. ~stopping
    <2>1. queue # <<>>
      BY <1>0, <1>4, DataTypes, EmptySeq, LenProperties
    <2>. QED  BY <1>0, <2>1 DEF StopsIdle
  <1>11. NoLostWakeup'
    <2>1. ASSUME NEW u \in Thread \ {t}, Stuck(u)' PROVE Stuck(u)
      <3>1. pc'[u] = pc[u] /\ Top(u)' = Top(u)
        BY <1>0, <1>3, <1>6 DEF Go, Top
      <3>2. queue # <<>>
        BY <1>0, <1>4, DataTypes, EmptySeq, LenProperties
      <3>3. PICK c : c = Top(u).id
        OBVIOUS
      <3>4. Eligible(c)' # {} => Eligible(c) # {}
        <4>. SUFFICES ASSUME Eligible(c)' # {} PROVE Eligible(c) # {}
          OBVIOUS
        <4>1. EligibleIn(queue', scope_of, parent, c) # {}
          BY <1>4, EligibleBoth
        <4>2. PICK k \in Range(queue') : c = 0 \/ c \in ChainIn(parent, scope_of[k])
          BY <4>1, EligibleSome
        <4>3. EligibleIn(queue, scope_of, parent, c) # {}
          BY <1>5, <4>2, EligibleSome
        <4>. QED  BY <4>3, EligibleBoth
      <3>5. CASE pc[u] = "asleep"
        BY <3>2, <3>5 DEF Stuck
      <3>6. CASE pc[u] = "dozing"
        <4>1. pending[c] = 0 \/ (Helps(u) /\ Eligible(c)' # {})
          BY <1>4, <2>1, <3>1, <3>3, <3>6 DEF Stuck, Helps
        <4>. QED  BY <3>3, <3>4, <3>6, <4>1 DEF Stuck
      <3>7. pc[u] \in {"asleep", "dozing"}
        BY <2>1, <3>1 DEF Stuck
      <3>. QED  BY <3>5, <3>6, <3>7
    <2>2. ~Stuck(t)'
      BY <1>0, <1>3, AwakeNotStuck
    <2>. QED  BY <1>0, <1>3, <2>1, <2>2, WakeStep DEF Wakers
  <1>12. StopsIdle'
    BY <1>4, <1>10 DEF StopsIdle
  <1>. QED  BY <1>2, <1>8, <1>9, <1>11, <1>12 DEF PoolIndInv

\* Counting a task off preserves the invariant.
LEMMA PoolCount ==
  ASSUME PoolIndInv, NEW t \in Thread, Count(t)
  PROVE  PoolIndInv'
  <1>0. DataInv /\ PointsOK /\ OwnerAlone /\ NoLostWakeup /\ StopsIdle /\ pc \in [Thread -> Points]
    BY DataTypes DEF PoolIndInv
  <1>1. pc[t] = "count" /\ stack[t] # <<>> /\ Top(t).kind = "task"
    BY <1>0 DEF Count, PointsOK, Fits, Top
  <1>2. t \in Worker /\ t \notin Client
    BY <1>0, <1>1, TaskWorker
  <1>3. PICK c : c = scope_of[Top(t).id]
    OBVIOUS
  <1>4. DataInv' /\ c \in DOMAIN pending /\ pending[c] \in Nat \ {0}
    BY <1>0, <1>3, DataCount
  <1>5. PICK p : p = IF pending[c] = 1 THEN "last" ELSE IF Len(stack[t]) = 1 THEN "seek" ELSE "join"
    OBVIOUS
  <1>6. /\ pending' = [pending EXCEPT ![c] = @ - 1] /\ Go(t, p) /\ Pop(t)
        /\ queue' = queue /\ stopping' = stopping /\ scope_of' = scope_of /\ parent' = parent /\ live' = live
    BY <1>3, <1>5 DEF Count, Caller
  <1>7. stack'[t] = Popped(stack[t]) /\ \A u \in Thread \ {t} : stack'[u] = stack[u]
    BY <1>0, <1>1, <1>6, DataTypes, PopHeld DEF DataInv
  <1>8. Fits(t, p, stack'[t])
    <2>1. /\ Len(stack[t]) = 1 => stack'[t] = <<>>
          /\ Len(stack[t]) # 1 => stack'[t] # <<>> /\ stack'[t][Len(stack'[t])].kind = "block"
      BY <1>0, <1>1, <1>7, BelowTop
    <2>. QED  BY <1>2, <1>5, <2>1 DEF Fits
  <1>9. PointsOK'
    BY <1>0, <1>6, <1>7, <1>8, PointsStep
  <1>10. OwnerAlone'
    BY <1>0, <1>2, <1>6, OwnerStep
  <1>11. NoLostWakeup'
    <2>1. CASE pending[c] = 1
      BY <1>0, <1>5, <1>6, <2>1, WakeOwed DEF Wakers
    <2>2. CASE pending[c] # 1
      <3>1. \A s \in DOMAIN pending : pending'[s] = 0 => pending[s] = 0
        <4>1. pending'[c] = pending[c] - 1 /\ \A s \in DOMAIN pending \ {c} : pending'[s] = pending[s]
          BY <1>4, <1>6
        <4>2. pending'[c] # 0
          BY <1>4, <2>2, <4>1
        <4>. QED  BY <4>1, <4>2
      <3>2. ASSUME NEW u \in Thread \ {t}, Stuck(u)' PROVE Stuck(u)
        <4>1. pc'[u] = pc[u] /\ Top(u)' = Top(u)
          BY <1>0, <1>6, <1>7 DEF Go, Top
        <4>2. Eligible(Top(u).id)' = Eligible(Top(u).id)
          BY <1>6, <4>1 DEF Eligible, descends, Chain, UpClosed
        <4>3. pc[u] = "dozing" => Top(u).id \in DOMAIN pending
          <5>. SUFFICES ASSUME pc[u] = "dozing" PROVE Top(u).id \in DOMAIN pending
            OBVIOUS
          <5>1. stack[u] # <<>> /\ Top(u).kind = "block"
            BY <1>0 DEF PointsOK, Fits, Top
          <5>. QED  BY <1>0, <5>1, TopFacts, HeldKnown, DataTypes
        <4>. QED  BY <1>6, <3>1, <3>2, <4>1, <4>2, <4>3 DEF Stuck, Helps
      <3>3. ~Stuck(t)'
        BY <1>0, <1>5, <1>6, AwakeNotStuck
      <3>4. pc[t] \notin Wakers
        BY <1>1 DEF Wakers
      <3>. QED  BY <1>0, <1>6, <3>2, <3>3, <3>4, WakeStep
    <2>. QED  BY <2>1, <2>2
  <1>12. StopsIdle'
    BY <1>0, <1>6 DEF StopsIdle
  <1>. QED  BY <1>4, <1>9, <1>10, <1>11, <1>12 DEF PoolIndInv

-----------------------------------------------------------------------------
(* The pool: the theorems.                                                 *)

\* The pool starts in its invariant.
LEMMA PoolInit == Init => PoolIndInv
  <1>. SUFFICES ASSUME Init PROVE PoolIndInv
    OBVIOUS
  <1>1. PICK asked \in SUBSET Worker \ {{}} :
          pc = [t \in Thread |-> IF t = Owner THEN "init" ELSE IF t \in Worker \ asked THEN "gone" ELSE "new"]
    BY DEF Init
  <1>2. /\ queue = <<>> /\ stopping = FALSE /\ failed = FALSE /\ scope_of = <<>> /\ parent = <<>> /\ pending = <<>>
        /\ live = {} /\ stack = [t \in Thread |-> <<>>]
    BY DEF Init
  <1>3. Owner \in Client /\ Worker \cap Client = {} /\ MaxTasks \in Nat /\ MaxScopes \in Nat
        /\ Client \subseteq Thread /\ Owner \in Thread
    BY PoolAssumption DEF Thread
  <1>4. TypeOK
    <2>1. pc \in [Thread -> Points]
      BY <1>1 DEF Points
    <2>2. stack \in [Thread -> Seq(Frame)]
      BY <1>2
    <2>3. queue \in Seq(Task) /\ scope_of \in Seq(Scope) /\ parent \in Seq(Scope \cup {0}) /\ pending \in Seq(Nat)
      BY <1>2
    <2>4. Len(scope_of) = 0 /\ Len(parent) = 0 /\ Len(pending) = 0
      BY <1>2
    <2>5. Len(scope_of) \leq MaxTasks /\ Len(parent) \leq MaxScopes /\ Len(pending) = Len(parent)
      BY ONLY <1>3, <2>4
    <2>6. stopping \in BOOLEAN /\ failed \in BOOLEAN /\ live \in SUBSET DOMAIN parent
      BY <1>2
    <2>. QED  BY <2>1, <2>2, <2>3, <2>5, <2>6, Zenon DEF TypeOK
  <1>5. DOMAIN parent = {} /\ DOMAIN queue = {} /\ \A t \in Thread : stack[t] = <<>> /\ DOMAIN stack[t] = {}
    BY <1>2
  <1>6. Range(queue) = {} /\ \A t \in Thread : Range(stack[t]) = {}
    BY <1>5 DEF Range
  <1>7. HeldIn(stack) = {}
    BY <1>6 DEF HeldIn
  <1>8. InHand = {}
    BY <1>6 DEF InHand
  <1>9. Flight = {}
    BY <1>6, <1>8 DEF Flight
  <1>10. StacksNested
    <2>1. ASSUME NEW t \in Thread PROVE Nested(t, stack[t], scope_of, parent)
      BY <1>5 DEF Nested
    <2>. QED  BY <2>1 DEF StacksNested
  <1>11. OnceIn(stack) /\ QueuedOnce
    BY <1>5, <1>6 DEF OnceIn, QueuedOnce, NoRepeat
  <1>12. FlightScoped /\ LiveHeld /\ Counted /\ ParentsOlder
    BY <1>2, <1>5, <1>7, <1>9 DEF FlightScoped, LiveHeld, Counted, ParentsOlder
  <1>13. PointsOK
    <2>1. ASSUME NEW t \in Thread PROVE Fits(t, pc[t], stack[t])
      <3>1. stack[t] = <<>>
        BY <1>5
      <3>2. \/ t = Owner /\ pc[t] = "init"
            \/ t \in Worker /\ pc[t] \in {"gone", "new"}
            \/ t \in Client \ {Owner} /\ pc[t] = "new"
        BY <1>1, <1>3 DEF Thread
      <3>. QED  BY <1>3, <3>1, <3>2 DEF Fits
    <2>. QED  BY <2>1 DEF PointsOK
  <1>14. OwnerAlone
    BY <1>1, <1>2, <1>3 DEF OwnerAlone
  <1>15. NoLostWakeup /\ StopsIdle
    <2>1. \A t \in Thread : pc[t] \notin {"asleep", "dozing"}
      BY <1>1
    <2>. QED  BY <1>2, <2>1 DEF NoLostWakeup, StopsIdle
  <1>16. DataInv
    BY <1>4, <1>10, <1>11, <1>12 DEF DataInv
  <1>. QED  BY <1>13, <1>14, <1>15, <1>16 DEF PoolIndInv

\* Every step of the pool preserves its invariant.
LEMMA PoolNext ==
  ASSUME PoolIndInv, Next
  PROVE  PoolIndInv'
  <1>1. PICK t \in Thread : Step(t) \/ Borrow(t) \/ Spurious(t)
    BY DEF Next
  <1>2. CASE Join(t)
    <2>1. CASE Leave(t)
      BY <1>2, <2>1, PoolLeave DEF Join
    <2>2. CASE pending[Top(t).id] > 0 /\ Helps(t) /\ take(t, Top(t).id)
      <3>1. PICK c : c = Top(t).id
        OBVIOUS
      <3>2. take(t, c) /\ pc[t] = "join" /\ Helps(t)
        BY <1>2, <2>2, <3>1 DEF Join
      <3>. QED  BY <3>1, <3>2, PoolTake
    <2>3. CASE /\ pending[Top(t).id] > 0 /\ (Helps(t) => Eligible(Top(t).id) = {})
               /\ Go(t, "dozing") /\ UNCHANGED <<queue, stopping, blocks, stack, failed>>
      BY <1>2, <2>3, PoolDoze DEF Join
    <2>. QED  BY <1>2, <2>1, <2>2, <2>3 DEF Join
  <1>3. CASE Seek(t)
    <2>1. CASE take(t, 0)
      BY <1>3, <2>1, PoolTake DEF Seek
    <2>2. CASE /\ queue = <<>> /\ Go(t, IF stopping THEN "gone" ELSE "asleep")
               /\ UNCHANGED <<queue, stopping, blocks, stack, failed>>
      BY <1>3, <2>2, PoolIdle DEF Seek
    <2>. QED  BY <1>3, <2>1, <2>2 DEF Seek
  <1>4. CASE Open(t) \/ Submit(t) \/ EndBlock(t) \/ EndTask(t) \/ Count(t) \/ WakeAll(t)
    BY <1>4, PoolOpen, PoolSubmit, PoolEndBlock, PoolEndTask, PoolCount, PoolWakeAll
  <1>5. CASE StartWorker(t) \/ StartFails(t) \/ Return(t) \/ Stop(t) \/ Reap(t) \/ Borrow(t) \/ Spurious(t)
    BY <1>5, PoolStartWorker, PoolOwnerSteps, PoolStop, PoolSpurious
  <1>. QED  BY <1>1, <1>2, <1>3, <1>4, <1>5 DEF Step

\* The inductive invariant holds when the pool stutters.
LEMMA PoolStutter ==
  ASSUME PoolIndInv, UNCHANGED vars
  PROVE  PoolIndInv'
  <1>1. /\ queue' = queue /\ stopping' = stopping /\ scope_of' = scope_of /\ parent' = parent /\ pending' = pending
        /\ live' = live /\ pc' = pc /\ stack' = stack /\ failed' = failed
    BY DEF vars, blocks
  <1>2. DataInv'
    BY <1>1, DataTypes, DataSame DEF PoolIndInv
  <1>3. PointsOK' /\ OwnerAlone' /\ StopsIdle'
    BY <1>1 DEF PoolIndInv, PointsOK, OwnerAlone, StopsIdle
  <1>4. NoLostWakeup'
    <2>1. ASSUME NEW u \in Thread, Stuck(u)' PROVE \E v \in Thread : pc'[v] \in Wakers
      <3>1. Stuck(u)
        BY <1>1, <2>1, StuckSame
      <3>. QED  BY <1>1, <3>1 DEF PoolIndInv, NoLostWakeup, Stuck, Wakers
    <2>. QED  BY <2>1 DEF NoLostWakeup, Stuck, Wakers
  <1>. QED  BY <1>2, <1>3, <1>4 DEF PoolIndInv

\* The inductive invariant is one of the run's specification.
LEMMA PoolAlways == MCSpec => []PoolIndInv
  <1>1. MCInit => PoolIndInv
    BY PoolInit DEF MCInit
  <1>2. PoolIndInv /\ [MCNext]_all => PoolIndInv'
    BY PoolNext, PoolStutter DEF MCNext, all
  <1>. QED  BY <1>1, <1>2, PTL DEF MCSpec

\* For any workers, clients, tasks and blocks: a block's count is its tasks queued or being
\* run, each in one place; a join helps only with what is below its block; who sleeps and
\* could go on is about to be woken; and a pool is stopped idle.
THEOREM PoolInvariant == MCSpec => []Inv
  <1>1. PoolIndInv => Inv
    <2>. SUFFICES ASSUME PoolIndInv PROVE Inv
      OBVIOUS
    <2>0. DataInv /\ NoLostWakeup /\ StopsIdle
      BY DEF PoolIndInv
    <2>1. PendingExact
      <3>1. \A s \in DOMAIN parent : pending[s] = Cardinality({k \in Range(queue) \cup InHand : scope_of[k] = s})
        BY <2>0 DEF DataInv, Counted, Flight
      <3>2. Len(queue) = Cardinality(Range(queue))
        BY <2>0, DataTypes, RangeSize DEF DataInv, QueuedOnce
      <3>3. Range(queue) \cap InHand = {}
        BY <2>0 DEF DataInv, QueuedOnce
      <3>. QED  BY <3>1, <3>2, <3>3 DEF PendingExact
    <2>2. HelpsOwnOnly
      <3>. SUFFICES ASSUME NEW t \in Thread, NEW i \in 2 .. Len(stack[t]), stack[t][i].kind = "task"
                    PROVE  /\ t \in Worker /\ stack[t][i - 1].kind = "block"
                           /\ descends(scope_of[stack[t][i].id], stack[t][i - 1].id)
        BY DEF HelpsOwnOnly
      <3>1. stack[t] \in Seq(Frame) /\ Nested(t, stack[t], scope_of, parent)
        BY <2>0, DataTypes DEF DataInv, StacksNested
      <3>2. i \in DOMAIN stack[t] /\ i # 1
        BY <3>1, LenProperties
      <3>3. stack[t][i - 1].id \in ChainIn(parent, scope_of[stack[t][i].id])
        BY <3>1, <3>2 DEF Nested
      <3>4. t \in Worker /\ stack[t][i - 1].kind = "block"
        BY <3>1, <3>2 DEF Nested
      <3>. QED  BY <3>3, <3>4 DEF descends, Chain, ChainIn, UpClosed, UpIn
    <2>. QED  BY <2>0, <2>1, <2>2 DEF Inv, DataInv
  <1>. QED  BY <1>1, PoolAlways, PTL

\* No block on the chain of parents of a task queued or being run has been left: descends
\* and run_node read no scope that has ended.
THEOREM PoolScopesAlive == MCSpec => []ScopesAlive
  <1>1. PoolIndInv => ScopesAlive
    <2>. SUFFICES ASSUME PoolIndInv, NEW k \in Range(queue) \cup InHand PROVE Chain(scope_of[k]) \subseteq live
      BY DEF ScopesAlive
    <2>0. DataInv
      BY DEF PoolIndInv
    <2>1. scope_of[k] \in live
      BY <2>0 DEF DataInv, FlightScoped, Flight
    <2>2. ASSUME NEW s \in live PROVE parent[s] \in live \cup {0}
      <3>1. s \in Scope /\ BlockFrame(s) \in HeldIn(stack)
        BY <2>0, DataTypes DEF DataInv, LiveHeld
      <3>2. PICK t \in Thread : BlockFrame(s) \in Range(stack[t])
        BY <3>1 DEF HeldIn
      <3>3. PICK i \in DOMAIN stack[t] : stack[t][i] = BlockFrame(s)
        BY <3>2 DEF Range
      <3>4. stack[t][i].kind = "block" /\ stack[t][i].id = s
        BY <3>1, <3>3, FrameFacts
      <3>5. Nested(t, stack[t], scope_of, parent)
        BY <2>0 DEF DataInv, StacksNested
      <3>6. \/ parent[s] = 0
            \/ \E j \in DOMAIN stack[t] : stack[t][j].kind = "task" /\ parent[s] = scope_of[stack[t][j].id]
        BY <3>4, <3>5 DEF Nested
      <3>7. ASSUME NEW j \in DOMAIN stack[t], stack[t][j].kind = "task" PROVE scope_of[stack[t][j].id] \in live
        <4>1. stack[t][j] \in Frame /\ stack[t][j] \in HeldIn(stack)
          BY <2>0, DataTypes, HeldItem
        <4>. QED  BY <2>0, <3>7, <4>1, HeldKnown
      <3>. QED  BY <3>6, <3>7
    <2>3. live \in UpIn(parent)
      BY <2>0, <2>2, DataTypes DEF UpIn
    <2>4. ChainIn(parent, scope_of[k]) \subseteq live
      BY <2>1, <2>3, ChainWithin
    <2>. QED  BY <2>4 DEF Chain, ChainIn, UpClosed, UpIn
  <1>. QED  BY <1>1, PoolAlways, PTL
=============================================================================
