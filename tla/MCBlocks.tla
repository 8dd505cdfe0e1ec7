------------------------------ MODULE MCBlocks ------------------------------
(***************************************************************************)
(* Parallel blocks for TLC: those of a pool, and those that give each task *)
(* a thread, with `spawn`.  The two share no state, so a behaviour is one  *)
(* of the pool or one of the bare threads.                                 *)
(***************************************************************************)
EXTENDS Pool

CONSTANT Child

VARIABLES part, kind, child, arg, drops, block, handle, bare_parent, scope, unwinding, running

Bare == INSTANCE Threads WITH parent <- bare_parent
bare == <<kind, child, arg, drops, block, handle, bare_parent, scope, unwinding, running>>
all == <<part, vars, bare>>

MCInit == part \in {"pool", "bare"} /\ Init /\ Bare!Init

MCNext ==
    \/ part = "pool" /\ Next /\ UNCHANGED <<part, bare>>
    \/ part = "bare" /\ Bare!Next /\ UNCHANGED <<part, vars>>

MCSpec ==
    /\ MCInit /\ [][MCNext]_all
    /\ \A t \in Thread : WF_all(part = "pool" /\ Step(t) /\ UNCHANGED <<part, bare>>)

\* Every argument given to spawn_with or to a task's start is found by its thread and
\* dropped once, and its block freed once, whichever allocation or thread creation
\* fails: Threads!Inv.
BareInv == Bare!Inv

=============================================================================
