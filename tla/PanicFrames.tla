---------------------------- MODULE PanicFrames ----------------------------
(***************************************************************************)
(* The panic and unwind frames of runtime/panic.c, over the registrations  *)
(* the compiler writes (src/emit_llvm_unwind.odin).  A panic does not      *)
(* unwind the native stack: it walks the chain of frames and runs what is  *)
(* still registered in each, on top of everything that was running.        *)
(*                                                                         *)
(* calls[t] is the native stack of a thread, the innermost call last.  A   *)
(* call that can register something pushes a frame, named by its place in  *)
(* the stack; frames[t] is the newest of the chain.  A panic's own work is *)
(* a call as well: first the report, which may format its arguments, then  *)
(* the trace, then the replay of the frames.                               *)
(***************************************************************************)
EXTENDS Naturals, Sequences, FiniteSets

CONSTANTS
    Thread,
    MaxDepth,      \* bound: calls of each thread under way at once
    MaxActions     \* bound: actions each thread registers

ASSUME BoundAssumption == MaxDepth \in [Thread -> Nat \ {0}] /\ MaxActions \in [Thread -> Nat]

VARIABLES
    calls,         \* per thread, its native stack
    frames,        \* per thread, the newest frame of its chain, 0 for none
    panicking, attached,
    registered,    \* per thread, the actions registered so far, which names them
    ran,           \* per thread and action, how often it was run
    taken,         \* the trace has been claimed (trace.c)
    exited         \* how the process ended
vars == <<calls, frames, panicking, attached, registered, ran, taken, exited>>

Tls == 0                             \* the drop of the thread's thread-locals
Action == UNION {0 .. MaxActions[t] : t \in Thread}

NewCall(kind, pushed, previous, live, at) ==
    [kind |-> kind, pushed |-> pushed, previous |-> previous, live |-> live, at |-> at]

Init ==
    /\ calls = [t \in Thread |-> <<>>]
    /\ frames = [t \in Thread |-> 0]
    /\ panicking = [t \in Thread |-> FALSE]
    /\ attached = [t \in Thread |-> FALSE]
    /\ registered = [t \in Thread |-> 0]
    /\ ran = [t \in Thread |-> [a \in Action |-> 0]]
    /\ taken = FALSE
    /\ exited = "no"

Running == exited = "no"
Depth(t) == Len(calls[t])
Top(t) == calls[t][Depth(t)]

\* Code of the program is what the thread runs: a procedure or a hook, or the
\* arguments of a report being formatted.
InProgram(t) == Running /\ Depth(t) > 0 /\ Top(t).kind \in {"body", "report", "tls"}

-----------------------------------------------------------------------------
(* Threads.                                                                *)

\* thread_main starts the thread's first procedure once it has attached.
thread_attach(t) ==
    /\ Running /\ Depth(t) = 0 /\ ~attached[t]
    /\ frames' = [frames EXCEPT ![t] = 0]
    /\ panicking' = [panicking EXCEPT ![t] = FALSE]
    /\ attached' = [attached EXCEPT ![t] = TRUE]
    /\ ran' = [ran EXCEPT ![t][Tls] = 0]
    /\ calls' = [calls EXCEPT ![t] = <<NewCall("body", FALSE, 0, <<>>, 0)>>]
    /\ UNCHANGED <<registered, taken, exited>>

\* A second detach finds nothing to do.  The thread-local drops run outside any
\* frame, so one that panics leaves the rest undone.
thread_detach(t) ==
    /\ Running /\ Depth(t) = 0
    /\ frames' = [frames EXCEPT ![t] = 0]
    /\ attached' = [attached EXCEPT ![t] = FALSE]
    /\ calls' = IF attached[t] THEN [calls EXCEPT ![t] = <<NewCall("tls", FALSE, 0, <<Tls>>, 0)>>] ELSE calls
    /\ UNCHANGED <<panicking, registered, ran, taken, exited>>

-----------------------------------------------------------------------------
(* Calls and registrations.                                                *)

\* A call, with the frame it pushes in its prologue if it registers anything.
frame_push(t, pushed) ==
    /\ InProgram(t) /\ Depth(t) < MaxDepth[t]
    /\ calls' = [calls EXCEPT ![t] = Append(@, NewCall("body", pushed, IF pushed THEN frames[t] ELSE 0, <<>>, 0))]
    /\ frames' = IF pushed THEN [frames EXCEPT ![t] = Depth(t) + 1] ELSE frames
    /\ UNCHANGED <<panicking, attached, registered, ran, taken, exited>>

Register(t) ==
    /\ InProgram(t) /\ Top(t).pushed /\ registered[t] < MaxActions[t]
    /\ registered' = [registered EXCEPT ![t] = @ + 1]
    /\ calls' = [calls EXCEPT ![t][Depth(t)].live = Append(@, registered'[t])]
    /\ UNCHANGED <<frames, panicking, attached, ran, taken, exited>>

Without(live, i) == [j \in 1 .. Len(live) - 1 |-> live[IF j < i THEN j ELSE j + 1]]

\* A move of the owner an action drops takes its registration with it.
Unregister(t, i) ==
    /\ InProgram(t) /\ Top(t).pushed
    /\ calls' = [calls EXCEPT ![t][Depth(t)].live = Without(@, i)]
    /\ UNCHANGED <<frames, panicking, attached, registered, ran, taken, exited>>

Last(live) == live[Len(live)]
Front(live) == SubSeq(live, 1, Len(live) - 1)

\* Mutant of RunNewest: the registration is cleared when the action returns.
RunNewestKept(t, i) ==
    LET a == Last(calls[t][i].live) IN
    /\ ran' = [ran EXCEPT ![t][a] = @ + 1]
    /\ calls' = [calls EXCEPT ![t] = Append(@, NewCall("body", FALSE, 0, <<>>, 0))]

\* Mutant of RunNewest: the oldest action first.
RunOldest(t, i) ==
    LET live == calls[t][i].live IN
    /\ ran' = [ran EXCEPT ![t][live[1]] = @ + 1]
    /\ calls' = [calls EXCEPT ![t] =
                    Append([@ EXCEPT ![i].live = Tail(live)], NewCall("body", FALSE, 0, <<>>, 0))]

\* The newest action of a call runs, its registration cleared first; its code is
\* a call of its own.
RunNewest(t, i) ==
    LET live == calls[t][i].live IN
    /\ ran' = [ran EXCEPT ![t][Last(live)] = @ + 1]
    /\ calls' = [calls EXCEPT ![t] =
                    Append([@ EXCEPT ![i].live = Front(live)], NewCall("body", FALSE, 0, <<>>, 0))]

\* On its way out a call runs what it registered ...
ExitScope(t) ==
    /\ InProgram(t) /\ Top(t).kind # "report" /\ Top(t).live # <<>> /\ Depth(t) < MaxDepth[t]
    /\ RunNewest(t, Depth(t))
    /\ UNCHANGED <<frames, panicking, attached, registered, taken, exited>>

\* ... and returns, popping the frame it pushed.
frame_pop(t) ==
    /\ InProgram(t) /\ Top(t).kind # "report" /\ Top(t).live = <<>>
    /\ frames' = IF Top(t).pushed /\ frames[t] = Depth(t)
                 THEN [frames EXCEPT ![t] = Top(t).previous] ELSE frames
    /\ calls' = [calls EXCEPT ![t] = Front(@)]
    /\ UNCHANGED <<panicking, attached, registered, ran, taken, exited>>

-----------------------------------------------------------------------------
(* Panics.                                                                 *)

abort(how) ==
    /\ exited' = how
    /\ UNCHANGED <<calls, frames, panicking, attached, registered, ran, taken>>

\* A panic under way already: in a cleanup, or in a formatter of the report.
panic_begin(t) ==
    /\ InProgram(t) /\ Depth(t) < MaxDepth[t]
    /\ IF panicking[t] THEN abort("panic while unwinding")
       ELSE /\ panicking' = [panicking EXCEPT ![t] = TRUE]
            /\ calls' = [calls EXCEPT ![t] = Append(@, NewCall("report", FALSE, 0, <<>>, 0))]
            /\ UNCHANGED <<frames, attached, registered, ran, taken, exited>>

\* The report is complete.  The first thread to get here prints its stack trace,
\* the others go on to their frames.
panic_end(t) ==
    /\ Running /\ Depth(t) > 0 /\ Top(t).kind = "report"
    /\ calls' = [calls EXCEPT ![t][Depth(t)] =
                    NewCall(IF taken THEN "unwind" ELSE "trace", FALSE, 0, <<>>, frames[t])]
    /\ taken' = TRUE
    /\ UNCHANGED <<frames, panicking, attached, registered, ran, exited>>

panic_trace(t) ==
    /\ Running /\ Depth(t) > 0 /\ Top(t).kind = "trace"
    /\ calls' = [calls EXCEPT ![t][Depth(t)].kind = "unwind"]
    /\ UNCHANGED <<frames, panicking, attached, registered, ran, taken, exited>>

Unwinding(t) == Running /\ Depth(t) > 0 /\ Top(t).kind = "unwind"

\* The frame at hand runs what it has registered, then the walk goes on.
Replay(t) ==
    /\ Unwinding(t) /\ Top(t).at # 0 /\ Depth(t) < MaxDepth[t]
    /\ calls[t][Top(t).at].live # <<>>
    /\ RunNewest(t, Top(t).at)
    /\ UNCHANGED <<frames, panicking, attached, registered, taken, exited>>

PreviousFrame(t) ==
    /\ Unwinding(t) /\ Top(t).at # 0
    /\ calls[t][Top(t).at].live = <<>>
    /\ calls' = [calls EXCEPT ![t][Depth(t)].at = calls[t][@].previous]
    /\ UNCHANGED <<frames, panicking, attached, registered, ran, taken, exited>>

Unwound(t) == Unwinding(t) /\ Top(t).at = 0 /\ abort("panicked")

Next ==
    \E t \in Thread :
        \/ thread_attach(t) \/ thread_detach(t)
        \/ \E pushed \in BOOLEAN : frame_push(t, pushed)
        \/ Register(t)
        \/ \E i \in 1 .. (IF Depth(t) = 0 THEN 0 ELSE Len(Top(t).live)) : Unregister(t, i)
        \/ ExitScope(t) \/ frame_pop(t)
        \/ panic_begin(t) \/ panic_end(t) \/ panic_trace(t)
        \/ Replay(t) \/ PreviousFrame(t) \/ Unwound(t)

Spec == Init /\ [][Next]_vars

-----------------------------------------------------------------------------
TypeOK ==
    /\ \A t \in Thread :
          /\ Depth(t) <= MaxDepth[t] /\ frames[t] \in 0 .. Depth(t)
          /\ \A i \in 1 .. Depth(t) :
                /\ calls[t][i].kind \in {"body", "tls", "report", "trace", "unwind"}
                /\ calls[t][i].previous \in 0 .. i - 1 /\ calls[t][i].at \in 0 .. i
    /\ panicking \in [Thread -> BOOLEAN] /\ attached \in [Thread -> BOOLEAN]
    /\ registered \in [Thread -> Action]
    /\ ran \in [Thread -> [Action -> Nat]]

\* No action runs twice, also when it panics on its way out of a scope and the
\* unwind then visits that scope, and no thread-local is dropped twice.
RunsOnce == \A t \in Thread, a \in Action : ran[t][a] <= 1

LiveActions(t) == UNION {{calls[t][i].live[j] : j \in 1 .. Len(calls[t][i].live)} : i \in 1 .. Depth(t)}

\* Newest first, as returns would: an action that runs, on return or in an
\* unwind, is the newest the thread still has registered.
NewestFirst ==
    [][\A t \in Thread, a \in Action : ran'[t][a] > ran[t][a] => \A b \in LiveActions(t) : b <= a]_vars

Pushed(t) == {i \in 1 .. Depth(t) : calls[t][i].pushed}
Newest(s) == IF s = {} THEN 0 ELSE CHOOSE i \in s : \A j \in s : j <= i

\* The chain of a thread holds exactly its calls that pushed, so a walk from the
\* newest frame meets every call with something registered.
ChainIsStack ==
    \A t \in Thread :
        /\ frames[t] = Newest(Pushed(t))
        /\ \A i \in Pushed(t) : calls[t][i].previous = Newest({j \in Pushed(t) : j < i})

\* A panic that ends the process by itself has left nothing of its thread undone
\* but the thread-locals.
UnwindComplete ==
    exited = "panicked" =>
        \E t \in Thread :
            /\ Depth(t) > 0 /\ Top(t).kind = "unwind" /\ Top(t).at = 0
            /\ LiveActions(t) \subseteq {Tls}

\* A thread panics once: a cleanup, a thread-local's drop or a formatter that
\* panics while it does finds no second unwind.
PanicsOnce ==
    \A t \in Thread :
        Cardinality({i \in 1 .. Depth(t) : calls[t][i].kind \in {"report", "trace", "unwind"}}) <= 1

\* DbgHelp is single-threaded, and one thread at a time prints a trace.
TraceAlone == Cardinality({t \in Thread : Depth(t) > 0 /\ Top(t).kind = "trace"}) <= 1

\* The frames' invariant: every panic runs what is registered, once, and the chain it
\* walks is the native stack's.
Inv == TypeOK /\ RunsOnce /\ ChainIsStack /\ UnwindComplete /\ PanicsOnce /\ TraceAlone

=============================================================================
