------------------------------- MODULE Once -------------------------------
(***************************************************************************)
(* Once and Lazy of core/sync/sync.loke: actions run on first use by       *)
(* whichever thread asks first, one word each, and one lock and condition  *)
(* variable for the waiters of all of them.  An action may use other       *)
(* Onces and may panic; a panic settles what its thread was running, runs  *)
(* deferred code, and ends the process.                                    *)
(*                                                                         *)
(* A load of a word may be behind: known[t] are the Onces whose settling   *)
(* happens before what t does next, and t may still read "running" of any  *)
(* other.  Acquire loads and the lock pass that knowledge on.              *)
(***************************************************************************)
EXTENDS Integers, Sequences

CONSTANTS
    Thread, Nobody,
    Onces,          \* a set of numbers: an action uses only Onces above its own
    Plans,          \* bound: which Onces each thread may ask for
    Spins           \* ONCE_SPINS

ASSUME OnceAssumption ==
    /\ Nobody \notin Thread /\ Onces \subseteq Nat /\ Onces # {} /\ Spins \in Nat
    /\ Plans \subseteq [Thread -> SUBSET Onces]

VARIABLES
    state,          \* of each Once: "idle", "running", "done" or "poisoned"
    made,           \* the Onces whose action has finished, its value in the slot
    lock, sleepers, \* wait_lock, wait_wake
    pc, on, spins,  \* of each thread: where, the Once it asks for, loads spent
    acts,           \* the Onces each thread runs the actions of, innermost last
    unwinding, running,
    known, lock_known,
    runs, answered, \* how often each action began; <<thread, Once>> answered
    plan            \* which of Plans this behaviour follows

words == <<state, made, runs>>
waiting == <<lock, sleepers>>
ends == <<unwinding, running>>
order == <<known, lock_known>>
vars == <<words, waiting, pc, on, spins, acts, ends, order, answered, plan>>

Points == {"idle", "load", "swap", "reload", "enter", "check", "sleep", "asleep", "exit",
           "acting", "unwind", "lock", "unlock", "wake"}
Settled == {"done", "poisoned"}

TypeOK ==
    /\ state \in [Onces -> {"idle", "running"} \cup Settled] /\ made \in SUBSET Onces
    /\ lock \in Thread \cup {Nobody} /\ sleepers \in SUBSET Thread
    /\ pc \in [Thread -> Points] /\ on \in [Thread -> Onces] /\ spins \in [Thread -> 0 .. Spins]
    /\ acts \in [Thread -> Seq(Onces)]
    /\ unwinding \in SUBSET Thread /\ running \in BOOLEAN
    /\ known \in [Thread -> SUBSET Onces] /\ lock_known \in SUBSET Onces
    /\ runs \in [Onces -> Nat] /\ answered \in SUBSET (Thread \X Onces)

Top(s) == s[Len(s)]
Pop(s) == SubSeq(s, 1, Len(s) - 1)
At(t, p) == running /\ pc[t] = p
Go(t, p) == pc' = [pc EXCEPT ![t] = p]
Learn(t, what) == known' = [known EXCEPT ![t] = @ \cup what]

\* What a load of o's word may give t.
Loads(t, o) == {state[o]} \cup (IF state[o] \in Settled /\ o \notin known[t] THEN {"running"} ELSE {})
Read(t, v) == Learn(t, IF v \in Settled THEN {on[t]} ELSE {})

\* Where a call of t goes back to.
Caller(t) == IF t \in unwinding THEN "unwind" ELSE IF acts[t] = <<>> THEN "idle" ELSE "acting"

-----------------------------------------------------------------------------
(* claim *)

\* A thread, an action or deferred code calls `do` or `get`.
Call(t, o) ==
    /\ running /\ pc[t] \in {"idle", "acting", "unwind"}
    /\ acts[t] # <<>> => o > Top(acts[t])
    /\ on' = [on EXCEPT ![t] = o] /\ spins' = [spins EXCEPT ![t] = 0]
    /\ Go(t, "load")
    /\ UNCHANGED <<words, waiting, acts, ends, order, answered>>

Answer(t) ==
    /\ Go(t, Caller(t)) /\ answered' = answered \cup {<<t, on[t]>>}
    /\ UNCHANGED <<unwinding, running>>

\* The panic of a thread: the first begins an unwind, a second ends the process.
Panic(t) ==
    /\ Go(t, "unwind")
    /\ unwinding' = unwinding \cup {t} /\ running' = (t \notin unwinding)

FirstLoad(t) ==
    /\ At(t, "load")
    /\ \E v \in Loads(t, on[t]) :
        /\ Read(t, v)
        /\ \/ v = "done" /\ Answer(t)
           \/ v # "done" /\ Go(t, "swap") /\ UNCHANGED <<ends, answered>>
    /\ UNCHANGED <<words, waiting, on, spins, acts, lock_known>>

\* One turn of claim's loop: spin, then wait; leave when it has settled.
Observe(t, v) ==
    /\ Read(t, v)
    /\ \/ v = "running" /\ UNCHANGED <<ends, answered>>
          /\ \/ spins[t] < Spins /\ Go(t, "reload") /\ spins' = [spins EXCEPT ![t] = @ + 1]
             \/ spins[t] = Spins /\ Go(t, "enter") /\ UNCHANGED spins
       \/ v = "done" /\ Answer(t) /\ UNCHANGED spins
       \/ v = "poisoned" /\ Panic(t) /\ UNCHANGED <<spins, answered>>

Win(t) ==
    /\ state' = [state EXCEPT ![on[t]] = "running"]
    /\ runs' = [runs EXCEPT ![on[t]] = @ + 1]
    /\ acts' = [acts EXCEPT ![t] = Append(@, on[t])]
    /\ Go(t, "acting")
    /\ UNCHANGED <<made, spins, ends, known, answered>>

Swap(t) ==
    /\ At(t, "swap")
    /\ \/ state[on[t]] = "idle" /\ Win(t)
       \/ /\ state[on[t]] # "idle"
          /\ \E v \in Loads(t, on[t]) : Observe(t, v)
          /\ UNCHANGED <<words, acts>>
    /\ UNCHANGED <<waiting, on, lock_known>>

Reload(t) ==
    /\ At(t, "reload")
    /\ \E v \in Loads(t, on[t]) : Observe(t, v)
    /\ UNCHANGED <<words, waiting, on, acts, lock_known>>

-----------------------------------------------------------------------------
(* wait_while_running *)

Lock(t, from, to) ==
    /\ At(t, from) /\ lock = Nobody
    /\ lock' = t /\ Go(t, to) /\ Learn(t, lock_known)
    /\ UNCHANGED <<words, sleepers, on, spins, acts, ends, lock_known, answered>>

Unlock(t, from, to) ==
    /\ At(t, from)
    /\ lock' = Nobody /\ Go(t, to)
    /\ lock_known' = lock_known \cup known[t]
    /\ UNCHANGED <<words, on, spins, acts, ends, known, answered>>

Enter(t) == Lock(t, "enter", "check")

Check(t) ==
    /\ At(t, "check")
    /\ \E v \in Loads(t, on[t]) :
        /\ Read(t, v)
        /\ Go(t, IF v = "running" THEN "sleep" ELSE "exit")
    /\ UNCHANGED <<words, waiting, on, spins, acts, ends, lock_known, answered>>

\* The sleep releases the lock and joins the sleepers in one step.
Sleep(t) == Unlock(t, "sleep", "asleep") /\ sleepers' = sleepers \cup {t}
Resume(t) == t \notin sleepers /\ Lock(t, "asleep", "check")
Exit(t) == Unlock(t, "exit", "reload") /\ UNCHANGED sleepers

Spurious(t) ==
    /\ At(t, "asleep") /\ t \in sleepers
    /\ sleepers' = sleepers \ {t}
    /\ UNCHANGED <<words, lock, pc, on, spins, acts, ends, order, answered>>

-----------------------------------------------------------------------------
(* The action and settle *)

\* Mutant of Settle: the waiters are woken without passing through the lock.
SettleUnlocked(t, finished) ==
    LET o == Top(acts[t]) IN
    /\ state' = [state EXCEPT ![o] = IF finished THEN "done" ELSE "poisoned"]
    /\ made' = IF finished THEN made \cup {o} ELSE made
    /\ on' = [on EXCEPT ![t] = o] /\ acts' = [acts EXCEPT ![t] = Pop(@)]
    /\ Learn(t, {o}) /\ Go(t, "wake")
    /\ UNCHANGED <<runs, waiting, spins, ends, lock_known, answered>>

\* The store of settle; Lazy's publish comes just before it.
Settle(t, finished) ==
    LET o == Top(acts[t]) IN
    /\ state' = [state EXCEPT ![o] = IF finished THEN "done" ELSE "poisoned"]
    /\ made' = IF finished THEN made \cup {o} ELSE made
    /\ on' = [on EXCEPT ![t] = o] /\ acts' = [acts EXCEPT ![t] = Pop(@)]
    /\ Learn(t, {o}) /\ Go(t, "lock")
    /\ UNCHANGED <<runs, waiting, spins, ends, lock_known, answered>>

Finish(t) == At(t, "acting") /\ Settle(t, TRUE)

ActionPanics(t) ==
    /\ At(t, "acting") /\ Panic(t)
    /\ UNCHANGED <<words, waiting, on, spins, acts, order, answered>>

\* Mutant of UnwindSettle: the settle is a statement after the action, not a defer.
UnwindLeaves(t) ==
    /\ At(t, "unwind") /\ acts[t] # <<>>
    /\ acts' = [acts EXCEPT ![t] = Pop(@)]
    /\ UNCHANGED <<words, waiting, pc, on, spins, ends, order, answered>>

UnwindSettle(t) == At(t, "unwind") /\ acts[t] # <<>> /\ Settle(t, FALSE)

Abort(t) ==
    /\ At(t, "unwind") /\ acts[t] = <<>>
    /\ running' = FALSE
    /\ UNCHANGED <<words, waiting, pc, on, spins, acts, unwinding, order, answered>>

WakeLock(t) == Lock(t, "lock", "unlock")
WakeUnlock(t) == Unlock(t, "unlock", "wake") /\ UNCHANGED sleepers

\* rt_wake_all; then settle is over, and a `do` that finished answers.
WakeAll(t) ==
    /\ At(t, "wake")
    /\ sleepers' = {}
    /\ Go(t, Caller(t))
    /\ answered' = IF on[t] \in made THEN answered \cup {<<t, on[t]>>} ELSE answered
    /\ UNCHANGED <<words, lock, on, spins, acts, ends, order>>

-----------------------------------------------------------------------------
Init ==
    /\ state = [o \in Onces |-> "idle"] /\ made = {}
    /\ lock = Nobody /\ sleepers = {}
    /\ pc = [t \in Thread |-> "idle"] /\ on \in [Thread -> {CHOOSE o \in Onces : TRUE}]
    /\ spins = [t \in Thread |-> 0] /\ acts = [t \in Thread |-> <<>>]
    /\ unwinding = {} /\ running = TRUE
    /\ known = [t \in Thread |-> {}] /\ lock_known = {}
    /\ runs = [o \in Onces |-> 0] /\ answered = {}
    /\ plan \in Plans

Locks(t) ==
    /\ Enter(t) \/ Resume(t) \/ WakeLock(t)
    /\ UNCHANGED plan

Step(t) ==
    /\ \/ FirstLoad(t) \/ Swap(t) \/ Reload(t)
       \/ Check(t) \/ Sleep(t) \/ Exit(t) \/ WakeUnlock(t) \/ WakeAll(t)
    /\ UNCHANGED plan

End(t) ==
    /\ Finish(t) \/ ActionPanics(t) \/ UnwindSettle(t) \/ Abort(t)
    /\ UNCHANGED plan

Begin(t) ==
    /\ Spurious(t) \/ \E o \in plan[t] : Call(t, o)
    /\ UNCHANGED plan

Next == \E t \in Thread : Step(t) \/ Locks(t) \/ End(t) \/ Begin(t)

Spec == Init /\ [][Next]_vars

\* A thread in a call runs on and, when it keeps trying, gets the lock; an action or
\* deferred code ends, by returning or by panicking (strongly: using other Onces
\* again and again is not ending).  No spurious wakeup is assumed, and no load is
\* obliged to see a store that does not happen before it.
FairSpec ==
    /\ Spec
    /\ \A t \in Thread : WF_vars(Step(t)) /\ SF_vars(Locks(t)) /\ SF_vars(End(t))

-----------------------------------------------------------------------------
\* However many threads race for it, and whatever becomes of them, an action begins
\* at most once, also after it has panicked.
RunsOnce == \A o \in Onces : runs[o] \leq 1

\* A call that returned found the action finished and the value made: never one that
\* is still running, and never one that panicked.
AnswerMeansMade == \A a \in answered : state[a[2]] = "done" /\ a[2] \in made /\ a[2] \in known[a[1]]

\* A thread asleep on a Once that has settled is about to be woken, with every Once
\* sharing one queue and a waiter that may read its word late.
NoLostWakeup == \A t \in sleepers :
    state[on[t]] \in Settled => \E u \in Thread : pc[u] \in {"lock", "unlock", "wake"}

\* A Once is running only while some thread is in its action: an unwind leaves none
\* behind for later callers to wait on.
RunnerExists == \A o \in Onces :
    state[o] = "running" => \E t \in Thread : \E i \in DOMAIN acts[t] : acts[t][i] = o

\* The invariant of Once: what ran, what is made and who will be woken agree.
Inv == TypeOK /\ RunsOnce /\ AnswerMeansMade /\ NoLostWakeup /\ RunnerExists

\* Every call ends: it returns, or it panics and the process ends.
CallsEnd == \A t \in Thread : pc[t] # "idle" ~> (pc[t] = "idle" \/ ~running)

=============================================================================
