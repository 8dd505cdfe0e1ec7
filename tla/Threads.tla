------------------------------ MODULE Threads ------------------------------
(***************************************************************************)
(* core/thread/thread.loke, spawn and join, and the bare `parallel` block, *)
(* whose tasks get a thread each.  One parent thread spawns threads with   *)
(* an argument in a heap block, and opens a block whose tasks' arguments   *)
(* are in frames of its own stack.  Memory or threads may run out at any   *)
(* start, which panics; a task may panic as well.                          *)
(***************************************************************************)
EXTENDS Naturals

CONSTANT Child      \* the threads the parent may start

VARIABLES
    kind,       \* of each child: "unused", "spawned" or "task"
    child,      \* of each child: where its thread is
    arg,        \* where its argument is
    drops,      \* how often the argument was dropped
    block,      \* its Start block: "none", "made" or "freed"
    handle,     \* "none", "open" or "closed"
    parent,     \* "idle", or what the parent is in the middle of
    scope,      \* the parallel block: "none", "open", "joining" or "left"
    unwinding,  \* whether the parent's panic unwinds
    running
vars == <<kind, child, arg, drops, block, handle, parent, scope, unwinding, running>>

TypeOK ==
    /\ kind \in [Child -> {"unused", "spawned", "task"}]
    /\ child \in [Child -> {"none", "created", "attached", "entered", "returned", "gone"}]
    /\ arg \in [Child -> {"none", "caller", "block", "frame", "entry", "dropped"}]
    /\ drops \in [Child -> 0 .. 1]
    /\ block \in [Child -> {"none", "made", "freed"}]
    /\ handle \in [Child -> {"none", "open", "closed"}]
    /\ parent \in [at : {"idle", "creating", "waiting", "over"}, child : SUBSET Child]
    /\ scope \in {"none", "open", "joining", "left"}
    /\ unwinding \in BOOLEAN /\ running \in BOOLEAN

Idle == [at |-> "idle", child |-> {}]
At(p, c) == running /\ parent = [at |-> p, child |-> {c}]
Free == running /\ parent = Idle

Init ==
    /\ kind = [c \in Child |-> "unused"] /\ child = [c \in Child |-> "none"]
    /\ arg = [c \in Child |-> "none"] /\ drops = [c \in Child |-> 0]
    /\ block = [c \in Child |-> "none"] /\ handle = [c \in Child |-> "none"]
    /\ parent = Idle /\ scope = "none" /\ unwinding = FALSE /\ running = TRUE

-----------------------------------------------------------------------------
(* The parent *)

\* spawn_with up to CreateThread: the block, then the argument into it.  Without
\* memory the argument is still the caller's.
Spawn(c) ==
    /\ Free /\ ~unwinding /\ kind[c] = "unused"
    /\ kind' = [kind EXCEPT ![c] = "spawned"]
    /\ \/ /\ block' = [block EXCEPT ![c] = "made"] /\ arg' = [arg EXCEPT ![c] = "block"]
          /\ parent' = [at |-> "creating", child |-> {c}] /\ UNCHANGED unwinding
       \/ arg' = [arg EXCEPT ![c] = "caller"] /\ unwinding' = TRUE /\ UNCHANGED <<block, parent>>
    /\ UNCHANGED <<child, drops, handle, scope, running>>

\* Task_Scope.start up to CreateThread: the handle's place in the list.
Start(c) ==
    /\ Free /\ ~unwinding /\ scope = "open" /\ kind[c] = "unused"
    /\ kind' = [kind EXCEPT ![c] = "task"]
    /\ \/ /\ arg' = [arg EXCEPT ![c] = "frame"]
          /\ parent' = [at |-> "creating", child |-> {c}] /\ UNCHANGED unwinding
       \/ arg' = [arg EXCEPT ![c] = "caller"] /\ unwinding' = TRUE /\ UNCHANGED parent
    /\ UNCHANGED <<child, drops, block, handle, scope, running>>

\* The new thread runs at once; all that is left of the call is to keep the handle.
Created(c) ==
    /\ At("creating", c)
    /\ child' = [child EXCEPT ![c] = "created"] /\ handle' = [handle EXCEPT ![c] = "open"]
    /\ parent' = Idle
    /\ UNCHANGED <<kind, arg, drops, block, scope, unwinding, running>>

\* Mutant of CreateFails: the block is left behind.
CreateFailsLeaks(c) ==
    /\ At("creating", c)
    /\ arg' = [arg EXCEPT ![c] = "caller"]
    /\ parent' = Idle /\ unwinding' = TRUE
    /\ UNCHANGED <<kind, child, drops, block, handle, scope, running>>

\* No thread took the argument: it comes back out, the block is freed, and the
\* caller panics.
CreateFails(c) ==
    /\ At("creating", c)
    /\ arg' = [arg EXCEPT ![c] = "caller"]
    /\ block' = IF kind[c] = "spawned" THEN [block EXCEPT ![c] = "freed"] ELSE block
    /\ parent' = Idle /\ unwinding' = TRUE
    /\ UNCHANGED <<kind, child, drops, handle, scope, running>>

\* The unwind drops what is the caller's again.
DropUnclaimed(c) ==
    /\ Free /\ unwinding /\ arg[c] = "caller"
    /\ arg' = [arg EXCEPT ![c] = "dropped"] /\ drops' = [drops EXCEPT ![c] = @ + 1]
    /\ UNCHANGED <<kind, child, block, handle, parent, scope, unwinding, running>>

Open ==
    /\ Free /\ ~unwinding /\ scope = "none" /\ scope' = "open"
    /\ UNCHANGED <<kind, child, arg, drops, block, handle, parent, unwinding, running>>

\* The block ends, or the unwind ends it.
Leave ==
    /\ Free /\ scope = "open" /\ scope' = "joining"
    /\ UNCHANGED <<kind, child, arg, drops, block, handle, parent, unwinding, running>>

\* Thread.join: called, or by the drop of a handle, or of a block's list of them.
Join(c) ==
    /\ Free /\ handle[c] = "open" /\ (kind[c] = "task" => scope = "joining")
    /\ parent' = [at |-> "waiting", child |-> {c}]
    /\ UNCHANGED <<kind, child, arg, drops, block, handle, scope, unwinding, running>>

\* WaitForSingleObject returns, and the handle is closed.
Joined(c) ==
    /\ At("waiting", c) /\ child[c] = "gone"
    /\ handle' = [handle EXCEPT ![c] = "closed"] /\ parent' = Idle
    /\ UNCHANGED <<kind, child, arg, drops, block, scope, unwinding, running>>

\* The list is empty and the block's frames end.
Left ==
    /\ Free /\ scope = "joining" /\ \A c \in Child : kind[c] = "task" => handle[c] # "open"
    /\ scope' = "left"
    /\ UNCHANGED <<kind, child, arg, drops, block, handle, parent, unwinding, running>>

\* The parent's own end: it has dropped its handles, and what an unwind owes; a panic
\* then ends the process.
End ==
    /\ Free /\ scope \in {"none", "left"}
    /\ \A c \in Child : handle[c] # "open" /\ arg[c] # "caller"
    /\ parent' = [at |-> "over", child |-> {}] /\ running' = ~unwinding
    /\ UNCHANGED <<kind, child, arg, drops, block, handle, scope, unwinding>>

-----------------------------------------------------------------------------
(* A child *)

\* thread_main attaches to the runtime.
Attach(c) ==
    /\ running /\ child[c] = "created" /\ child' = [child EXCEPT ![c] = "attached"]
    /\ UNCHANGED <<kind, arg, drops, block, handle, parent, scope, unwinding, running>>

\* Start.begin: the argument is taken out and the block freed before the entry runs;
\* a task takes its arguments from its frame.
Begin(c) ==
    /\ running /\ child[c] = "attached" /\ child' = [child EXCEPT ![c] = "entered"]
    /\ arg' = [arg EXCEPT ![c] = "entry"]
    /\ block' = IF kind[c] = "spawned" THEN [block EXCEPT ![c] = "freed"] ELSE block
    /\ UNCHANGED <<kind, drops, handle, parent, scope, unwinding, running>>

\* The entry drops its argument and returns; or it panics, its unwind drops the
\* argument, and the process ends.
Return(c) ==
    /\ running /\ child[c] = "entered" /\ child' = [child EXCEPT ![c] = "returned"]
    /\ arg' = [arg EXCEPT ![c] = "dropped"] /\ drops' = [drops EXCEPT ![c] = @ + 1]
    /\ running' \in BOOLEAN
    /\ UNCHANGED <<kind, block, handle, parent, scope, unwinding>>

\* The thread's thread-local drops, and its end.
Detach(c) ==
    /\ running /\ child[c] = "returned" /\ child' = [child EXCEPT ![c] = "gone"]
    /\ UNCHANGED <<kind, arg, drops, block, handle, parent, scope, unwinding, running>>

Run(c) == Attach(c) \/ Begin(c) \/ Return(c) \/ Detach(c)
Finish(c) == Created(c) \/ CreateFails(c) \/ DropUnclaimed(c) \/ Join(c) \/ Joined(c)

Next ==
    \/ \E c \in Child : Spawn(c) \/ Start(c) \/ Finish(c) \/ Run(c)
    \/ Open \/ Leave \/ Left \/ End

Spec == Init /\ [][Next]_vars

-----------------------------------------------------------------------------
\* When the parent is over, every argument handed to a start was dropped once and
\* every block freed, whichever allocation or thread creation failed.
NothingLost ==
    parent.at = "over" => \A c \in Child :
        /\ kind[c] # "unused" => arg[c] = "dropped" /\ drops[c] = 1
        /\ block[c] # "made" /\ handle[c] # "open"

\* A thread that has not taken its argument finds it: in a block not yet freed, or in
\* a frame of a parallel block that has not been left, also when a later start of
\* the block panicked.
ArgumentsReachable == \A c \in Child :
    /\ child[c] \in {"created", "attached"} =>
         IF kind[c] = "spawned" THEN block[c] = "made" /\ arg[c] = "block"
         ELSE scope \in {"open", "joining"} /\ arg[c] = "frame"
    /\ kind[c] = "task" /\ child[c] \in {"entered", "returned"} => scope # "left"

\* The starts' arguments, blocks and frames together.
Inv == TypeOK /\ NothingLost /\ ArgumentsReachable

=============================================================================
