------------------------------- MODULE Pool -------------------------------
(***************************************************************************)
(* core/thread/pool.loke and the pooled half of Task_Scope in              *)
(* core/thread/thread.loke: workers that run the tasks of the blocks that  *)
(* name the pool, and help at the joins of their own blocks.               *)
(*                                                                         *)
(* The queue, the pending counts and `stopping` are read and written under *)
(* the pool's lock alone, so what a thread does from one lock to the       *)
(* unlock or sleep that follows is one step; every rt_wake_all is a step   *)
(* of its own.  A task's body opens blocks, spawns tasks and joins; it     *)
(* waits for nothing else.                                                 *)
(***************************************************************************)
EXTENDS Integers, Sequences, FiniteSets, Functions

CONSTANTS
    Worker,         \* bound: as many workers as a pool is made with, or fewer
    Client,         \* the other threads that open blocks on the pool
    Owner,          \* the client that makes the pool and drops it
    MaxTasks,       \* bound: tasks spawned
    MaxScopes       \* bound: blocks opened

ASSUME PoolAssumption ==
    /\ Owner \in Client /\ Worker \cap Client = {}
    /\ MaxTasks \in Nat /\ MaxScopes \in Nat

VARIABLES
    queue,          \* the tasks queued, oldest first
    stopping,
    scope_of,       \* the block of each task spawned
    parent,         \* of each block opened: the block whose task opened it, or 0
    pending, live,  \* its count of unfinished tasks; the blocks not yet left
    pc, stack,      \* of each thread: where, and the tasks and blocks it is in
    failed          \* a worker could not be started

blocks == <<scope_of, parent, pending, live>>
vars == <<queue, stopping, blocks, pc, stack, failed>>

Thread == Worker \cup Client
Task == 1 .. MaxTasks
Scope == 1 .. MaxScopes
Frame == [kind : {"task"}, id : Task] \cup [kind : {"block"}, id : Scope]
Points == {"new", "body", "spawned", "join", "dozing", "count", "last", "seek", "asleep", "gone",
           "init", "stop", "stopped", "reap", "over"}

TypeOK ==
    /\ queue \in Seq(Task) /\ stopping \in BOOLEAN /\ failed \in BOOLEAN
    /\ scope_of \in Seq(Scope) /\ Len(scope_of) \leq MaxTasks
    /\ parent \in Seq(Scope \cup {0}) /\ Len(parent) \leq MaxScopes
    /\ pending \in Seq(Nat) /\ Len(pending) = Len(parent)
    /\ live \in SUBSET DOMAIN parent
    /\ pc \in [Thread -> Points] /\ stack \in [Thread -> Seq(Frame)]

Go(t, p) == pc' = [pc EXCEPT ![t] = p]
Top(t) == stack[t][Len(stack[t])]
Push(t, kind, id) == stack' = [stack EXCEPT ![t] = Append(@, [kind |-> kind, id |-> id])]
Pop(t) == stack' = [stack EXCEPT ![t] = SubSeq(@, 1, Len(@) - 1)]

\* The thread-local running_in: the block of the innermost task, or 0.
running_in(t) ==
    LET tasks == {i \in DOMAIN stack[t] : stack[t][i].kind = "task"}
    IN  IF tasks = {} THEN 0 ELSE scope_of[stack[t][CHOOSE i \in tasks : \A j \in tasks : j \leq i].id]

\* s and the blocks its chain of parents leads to: the least set that holds s and
\* the parent of each block in it.
UpClosed == {S \in SUBSET DOMAIN parent : \A n \in S : parent[n] \in S \cup {0}}
Chain(s) == {n \in DOMAIN parent : \A S \in UpClosed : s \in S => n \in S}

descends(s, ancestor) == ancestor \in Chain(s)

\* The places in the queue of the tasks a thread may take: all (0), or those of
\* the block `within` and of the blocks opened below it.
Eligible(within) ==
    {i \in DOMAIN queue : within = 0 \/ descends(scope_of[queue[i]], within)}

\* Mutant of take: unlinking from the middle cuts off the older tasks.
TakeCuts(t, within) ==
    \E i \in Eligible(within) :
        /\ \A j \in Eligible(within) : i \leq j
        /\ queue' = SubSeq(queue, i + 1, Len(queue))
        /\ Push(t, "task", queue[i]) /\ Go(t, "body")
        /\ UNCHANGED <<stopping, blocks, failed>>

\* take, and the task that run_node begins.
take(t, within) ==
    \E i \in Eligible(within) :
        /\ \A j \in Eligible(within) : i \leq j
        /\ queue' = SubSeq(queue, 1, i - 1) \o SubSeq(queue, i + 1, Len(queue))
        /\ Push(t, "task", queue[i]) /\ Go(t, "body")
        /\ UNCHANGED <<stopping, blocks, failed>>

-----------------------------------------------------------------------------
(* Blocks *)

\* Task_Scope.pooled: a client or a running task opens a block.
Open(t) ==
    /\ pc[t] = "body" /\ Len(parent) < MaxScopes
    /\ parent' = Append(parent, running_in(t)) /\ pending' = Append(pending, 0)
    /\ live' = live \cup {Len(parent) + 1}
    /\ Push(t, "block", Len(parent) + 1)
    /\ UNCHANGED <<queue, stopping, scope_of, pc, failed>>

InBlock(t) == stack[t] # <<>> /\ Top(t).kind = "block"

\* Mutant of Submit: a task is counted only when no other is queued.
SubmitUncounted(t) ==
    /\ pc[t] = "body" /\ InBlock(t) /\ Len(scope_of) < MaxTasks
    /\ scope_of' = Append(scope_of, Top(t).id)
    /\ queue' = Append(queue, Len(scope_of) + 1)
    /\ pending' = [pending EXCEPT ![Top(t).id] = IF queue = <<>> THEN @ + 1 ELSE @]
    /\ Go(t, "spawned")
    /\ UNCHANGED <<stopping, parent, live, stack, failed>>

\* Task_Scope.start on a pool, and submit up to its unlock.
Submit(t) ==
    /\ pc[t] = "body" /\ InBlock(t) /\ Len(scope_of) < MaxTasks
    /\ scope_of' = Append(scope_of, Top(t).id)
    /\ queue' = Append(queue, Len(scope_of) + 1)
    /\ pending' = [pending EXCEPT ![Top(t).id] = @ + 1]
    /\ Go(t, "spawned")
    /\ UNCHANGED <<stopping, parent, live, stack, failed>>

\* The block's statements are done, by any exit: its join begins.
EndBlock(t) ==
    /\ pc[t] = "body" /\ InBlock(t)
    /\ Go(t, "join")
    /\ UNCHANGED <<queue, stopping, blocks, stack, failed>>

Helps(t) == t \in Worker

Leave(t) ==
    /\ pending[Top(t).id] = 0
    /\ live' = live \ {Top(t).id} /\ Pop(t) /\ Go(t, "body")
    /\ UNCHANGED <<queue, stopping, scope_of, parent, pending, failed>>

\* Mutant of Join: a worker waits as any other thread does.
JoinNoHelp(t) ==
    /\ pc[t] = "join"
    /\ \/ Leave(t)
       \/ /\ pending[Top(t).id] > 0
          /\ Go(t, "dozing") /\ UNCHANGED <<queue, stopping, blocks, stack, failed>>

\* One turn of wait_for: leave, help, or sleep.
Join(t) ==
    /\ pc[t] = "join"
    /\ \/ Leave(t)
       \/ pending[Top(t).id] > 0 /\ Helps(t) /\ take(t, Top(t).id)
       \/ /\ pending[Top(t).id] > 0 /\ (Helps(t) => Eligible(Top(t).id) = {})
          /\ Go(t, "dozing") /\ UNCHANGED <<queue, stopping, blocks, stack, failed>>

-----------------------------------------------------------------------------
(* run_node, after its task *)

EndTask(t) ==
    /\ pc[t] = "body" /\ stack[t] # <<>> /\ Top(t).kind = "task"
    /\ Go(t, "count")
    /\ UNCHANGED <<queue, stopping, blocks, stack, failed>>

\* Where run_node returns to: the worker's loop or the join that helped.
Caller(t) == IF Len(stack[t]) = 1 THEN "seek" ELSE "join"

Count(t) ==
    /\ pc[t] = "count"
    /\ LET s == scope_of[Top(t).id] IN
        /\ pending' = [pending EXCEPT ![s] = @ - 1]
        /\ Go(t, IF pending[s] = 1 THEN "last" ELSE Caller(t))
    /\ Pop(t)
    /\ UNCHANGED <<queue, stopping, scope_of, parent, live, failed>>

\* rt_wake_all, after a submit, after a block's last task, and after a stop.
WakeAll(t) ==
    /\ pc[t] \in {"spawned", "last", "stopped"}
    /\ pc' = [u \in Thread |->
        CASE u = t -> CASE pc[t] = "spawned" -> "body"
                        [] pc[t] = "last" -> (IF stack[t] = <<>> THEN "seek" ELSE "join")
                        [] OTHER -> "reap"
          [] u # t /\ pc[u] = "dozing" -> "join"
          [] u # t /\ pc[u] = "asleep" -> "seek"
          [] OTHER -> pc[u]]
    /\ UNCHANGED <<queue, stopping, blocks, stack, failed>>

Spurious(t) ==
    /\ pc[t] \in {"dozing", "asleep"}
    /\ Go(t, IF pc[t] = "dozing" THEN "join" ELSE "seek")
    /\ UNCHANGED <<queue, stopping, blocks, stack, failed>>

-----------------------------------------------------------------------------
(* Workers and the pool itself *)

\* One turn of pool_worker's loop.
Seek(t) ==
    /\ pc[t] = "seek"
    /\ \/ take(t, 0)
       \/ /\ queue = <<>> /\ Go(t, IF stopping THEN "gone" ELSE "asleep")
          /\ UNCHANGED <<queue, stopping, blocks, stack, failed>>

Unstarted == {w \in Worker : pc[w] = "new"}

\* A thread is created, or its creation fails and init unwinds through stop.
StartWorker(t) ==
    /\ pc[t] = "init"
    /\ \E w \in Unstarted :
        pc' = [pc EXCEPT ![w] = "seek", ![t] = IF Unstarted = {w} THEN "body" ELSE "init"]
    /\ UNCHANGED <<queue, stopping, blocks, stack, failed>>

StartFails(t) ==
    /\ pc[t] = "init" /\ failed' = TRUE /\ Go(t, "stop")
    /\ UNCHANGED <<queue, stopping, blocks, stack>>

\* The clients that only borrow the pool have it once init has returned it.
Borrow(t) ==
    /\ pc[t] = "new" /\ t \in Client /\ pc[Owner] = "body"
    /\ Go(t, "body")
    /\ UNCHANGED <<queue, stopping, blocks, stack, failed>>

Return(t) ==
    /\ pc[t] = "body" /\ t \in Client /\ stack[t] = <<>>
    /\ t # Owner \/ \A u \in Client \ {t} : pc[u] \in {"new", "over"}
    /\ Go(t, IF t = Owner THEN "stop" ELSE "over")
    /\ UNCHANGED <<queue, stopping, blocks, stack, failed>>

Stop(t) ==
    /\ pc[t] = "stop" /\ stopping' = TRUE /\ Go(t, "stopped")
    /\ UNCHANGED <<queue, blocks, stack, failed>>

\* workers.clear joins the workers started; then the state is freed.
Reap(t) ==
    /\ pc[t] = "reap" /\ \A w \in Worker : pc[w] \in {"new", "gone"}
    /\ Go(t, "over")
    /\ UNCHANGED <<queue, stopping, blocks, stack, failed>>

-----------------------------------------------------------------------------
\* The pool is made with any number of workers but none.
Init ==
    /\ queue = <<>> /\ stopping = FALSE /\ failed = FALSE
    /\ scope_of = <<>> /\ parent = <<>> /\ pending = <<>> /\ live = {}
    /\ \E asked \in SUBSET Worker \ {{}} :
          pc = [t \in Thread |-> IF t = Owner THEN "init" ELSE IF t \in Worker \ asked THEN "gone" ELSE "new"]
    /\ stack = [t \in Thread |-> <<>>]

Step(t) ==
    \/ Open(t) \/ Submit(t) \/ EndBlock(t) \/ Join(t) \/ EndTask(t) \/ Count(t) \/ WakeAll(t)
    \/ Seek(t) \/ StartWorker(t) \/ StartFails(t) \/ Return(t) \/ Stop(t) \/ Reap(t)

Next == \E t \in Thread : Step(t) \/ Borrow(t) \/ Spurious(t)

Spec == Init /\ [][Next]_vars

\* Every thread is run; a task opens and spawns a bounded number of times, so its
\* steps come to an end.  No spurious wakeup is assumed.
FairSpec == Spec /\ \A t \in Thread : WF_vars(Step(t))

-----------------------------------------------------------------------------
InHand == UNION {{f.id : f \in {g \in Range(stack[t]) : g.kind = "task"}} : t \in Thread}

\* A block's count is its tasks queued or being run, each of them in one place.
PendingExact ==
    /\ \A s \in DOMAIN parent :
        pending[s] = Cardinality({k \in Range(queue) \cup InHand : scope_of[k] = s})
    /\ Len(queue) = Cardinality(Range(queue)) /\ Range(queue) \cap InHand = {}

\* Every block on the chain that `descends` follows from a queued task, and that
\* run_node counts for a running one, is still waiting in its join or open: no
\* scope is read after it ended.
ScopesAlive == \A k \in Range(queue) \cup InHand : Chain(scope_of[k]) \subseteq live

\* A worker waiting in a join runs tasks of that block and of blocks opened below
\* it alone: no sibling of the task it is in and no unrelated task.
HelpsOwnOnly == \A t \in Thread : \A i \in 2 .. Len(stack[t]) :
    stack[t][i].kind = "task" =>
        /\ t \in Worker /\ stack[t][i - 1].kind = "block"
        /\ descends(scope_of[stack[t][i].id], stack[t][i - 1].id)

\* A thread asleep that could go on is about to be woken: a worker when a task is
\* queued or the pool stops, a joiner when its block is finished or it can help.
NoLostWakeup == \A t \in Thread :
    \/ pc[t] = "asleep" /\ (queue # <<>> \/ stopping)
    \/ /\ pc[t] = "dozing"
       /\ pending[Top(t).id] = 0 \/ (Helps(t) /\ Eligible(Top(t).id) # {})
    => \E u \in Thread : pc[u] \in {"spawned", "last", "stopped"}

\* A pool that stops has no task left and no block open: the workers it tells to end
\* abandon nothing.
StopsIdle == stopping => queue = <<>> /\ live = {}

\* The counts, the helping, the sleepers and the stop together.
Inv == TypeOK /\ PendingExact /\ HelpsOwnOnly /\ NoLostWakeup /\ StopsIdle

\* Every block is left in the end, also when all workers are in joins of blocks
\* within blocks, and the pool's drop returns, also when a worker could not be
\* started.
JoinsEnd ==
    /\ \A s \in Scope : s \in live ~> s \notin live
    /\ (failed \/ pc[Owner] = "stop") ~> pc[Owner] = "over"

=============================================================================
