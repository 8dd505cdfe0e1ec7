--------------------------- MODULE AllocDispatch ---------------------------
(***************************************************************************)
(* The allocator dispatch of runtime/alloc.c, as one thread of a program   *)
(* meets it: the provider the build selects, the requests that go to a     *)
(* provider through it, and the thread's note of the last refused request, *)
(* from which a failure's report takes the size and the allocator.         *)
(*                                                                         *)
(* `stack` holds the allocating operations under way, the innermost last:  *)
(* one that undoes what it staged runs drop hooks, and a hook may allocate *)
(* in its turn.  An operation asks its allocator, and when it is refused   *)
(* either applies the allocator's policy or becomes an Allocator_Error.    *)
(***************************************************************************)
EXTENDS Naturals, Sequences, FiniteSets

CONSTANTS
    Provider,    \* the allocator records of the program
    System,      \* loke_rt_v1_default_allocator
    Parent,      \* the provider an arena grows from; Nil for the others
    Traps,       \* the providers whose on_failure is LOKE_RT_ON_FAILURE_TRAP
    Selections,  \* what the build's allocator factory may return
    Nil,         \* the zero Allocator, and "nothing"
    Kinds,       \* the operations of the program: see LeavesNote and Fails
    Written,     \* the handles a program writes as an allocator argument
    MaxSize,     \* bound: bytes of one request
    MaxDepth,    \* bound: operations under way at once
    MaxLive      \* bound: live allocations

ProviderAssumption ==
    /\ System \in Provider /\ Nil \notin Provider
    /\ Parent \in [Provider -> Provider \cup {Nil}] /\ Parent[System] = Nil
    /\ Traps \subseteq Provider /\ Selections \subseteq Provider \cup {Nil}
    /\ Kinds \subseteq {"direct", "grow", "box", "copy"} /\ Written \subseteq Provider \cup {Nil}
    /\ MaxSize \in Nat \ {0} /\ MaxDepth \in Nat \ {0} /\ MaxLive \in Nat

VARIABLES init, selected, refused, stack, live, ended
vars == <<init, selected, refused, stack, live, ended>>

Handle == Provider \cup {Nil}
Unsized == MaxSize + 1               \* LOKE_RT_REFUSAL_UNSIZED

NoRequest == [by |-> Nil, size |-> 0]

\* init is loke_rt_init_state; refused the note (refused_by, refused_size); an
\* operation's `asked` is the request that failed it, NoRequest when it failed
\* without one; ended what stopped the process.  Two things are history, which only
\* the properties read: an operation's `hooked`, that a hook allocated while it was
\* undoing its work, and an allocation's `kind` and `early`, what made it and
\* whether the build's provider was still to be published.
Init ==
    /\ init = "idle"
    /\ selected = System
    /\ refused = NoRequest
    /\ stack = <<>>
    /\ live = {}
    /\ ended = [how |-> "running", by |-> Nil, size |-> 0, asked |-> NoRequest, a |-> Nil]

Running == ended.how = "running"

resolve(a) == IF a = Nil THEN selected ELSE a

Aborts ==
    /\ ended' = [ended EXCEPT !.how = "abort"]
    /\ UNCHANGED <<init, selected, refused, stack, live>>

-----------------------------------------------------------------------------
(* Provider initialization: the factories run between Begin and End.       *)

\* A call that finds initialization complete changes nothing.
provider_init_begin ==
    /\ Running /\ init = "idle" /\ stack = <<>>
    /\ init' = "running"
    /\ UNCHANGED <<selected, refused, stack, live, ended>>

\* A factory that initializes the program again does not return.
Reenter == Running /\ init \in {"running", "published"} /\ Aborts

\* The allocator factory returned a.
publish_allocator(a) ==
    /\ Running /\ init = "running" /\ stack = <<>>
    /\ IF a = Nil THEN Aborts
       ELSE /\ selected' = a
            /\ init' = "published"
            /\ UNCHANGED <<refused, stack, live, ended>>

\* A build that selects no allocator goes straight to the end.
provider_init_end ==
    /\ Running /\ init \in {"running", "published"} /\ stack = <<>>
    /\ init' = "done"
    /\ UNCHANGED <<selected, refused, stack, live, ended>>

-----------------------------------------------------------------------------
(* Requests.                                                               *)

note_request(n, a, size, ok) == [by |-> IF ok THEN Nil ELSE a, size |-> size]

\* The note once a answers a request; an arena that grows first asks its parent
\* for a block, a request of the arena's own size, and fails when it is refused.
Asked(a, size, ok, grows) ==
    IF grows THEN note_request(note_request(refused, Parent[a], MaxSize, ok), a, size, ok)
             ELSE note_request(refused, a, size, ok)

Top == stack[Len(stack)]
Asks == resolve(Top.a)               \* the provider the innermost operation asks
ReplaceTop(op) == [stack EXCEPT ![Len(stack)] = op]
Pop == SubSeq(stack, 1, Len(stack) - 1)

\* Mutant of dyn_bind: an unbound container stays unbound.
dyn_bind_nothing(a) == a

\* An unbound container binds the selected provider when it first needs one.
dyn_bind(a) == IF a = Nil THEN selected ELSE a

\* The allocators an operation may be given: a container's own, or an argument,
\* whose default is the selected provider.
Arguments(kind) == IF kind = "grow" THEN Written \cup {Nil} ELSE Written \cup {selected}

\* A refused container operation leaves the refusal in the note while it drops what
\* it had copied or was given: a growing one (append, insert, a map's insertion) its
\* new elements, a clone its prefix.  A box takes the refusal out of the note first.
LeavesNote(op) == op.kind \in {"grow", "copy"}

\* The operations under way once one more starts, in a hook of the innermost.
Hooked ==
    IF stack # <<>> /\ LeavesNote(Top) THEN ReplaceTop([Top EXCEPT !.hooked = TRUE]) ELSE stack

\* An allocating operation starts, in the program, in a factory or in a drop
\* hook of the operation that is undoing its work.
Start(kind, a) ==
    /\ Running /\ init # "idle" /\ Len(stack) < MaxDepth
    /\ stack # <<>> => Top.step = "undo"
    /\ a \in Arguments(kind)
    /\ stack' = Append(Hooked, [kind |-> kind, a |-> IF kind = "grow" THEN dyn_bind(a) ELSE a,
                                step |-> "ask", asked |-> NoRequest, error |-> 0, hooked |-> FALSE])
    /\ UNCHANGED <<init, selected, refused, live, ended>>

\* A request that succeeds.  One for zero bytes never reaches the provider, and
\* neither does its free: it leaves the note alone and is no allocation.  The
\* owner keeps the handle the request was made with.
Allocates(size, grows) ==
    /\ Running /\ stack # <<>> /\ Top.step = "ask"
    /\ grows => size > 0 /\ Parent[Asks] # Nil
    /\ refused' = IF size = 0 THEN refused ELSE Asked(Asks, size, TRUE, grows)
    /\ IF size = 0 THEN UNCHANGED live
       ELSE /\ Cardinality(live) < MaxLive
            /\ \E id \in 1 .. MaxLive :
                  /\ \A b \in live : b.id # id
                  /\ live' = live \cup {[id |-> id, by |-> Asks, handle |-> Top.a,
                                          kind |-> Top.kind, early |-> init = "running"]}
    /\ stack' = Pop
    /\ UNCHANGED <<init, selected, ended>>

\* What an operation does first when it fails: all but a bare request have
\* something staged to give up.
Fails(op) == IF op.kind = "direct" THEN "failed" ELSE "release"

Refused(size, grows) ==
    /\ Running /\ stack # <<>> /\ Top.step = "ask"
    /\ grows => Parent[Asks] # Nil
    /\ refused' = Asked(Asks, size, FALSE, grows)
    /\ stack' = ReplaceTop([Top EXCEPT !.step = Fails(Top), !.asked = [by |-> Asks, size |-> size]])
    /\ UNCHANGED <<init, selected, live, ended>>

\* A size that overflows, or a try_clone that answers .err, asks for nothing.
FailsUnasked ==
    /\ Running /\ stack # <<>> /\ Top.step = "ask"
    /\ stack' = ReplaceTop([Top EXCEPT !.step = Fails(Top)])
    /\ UNCHANGED <<init, selected, refused, live, ended>>

Free(b) ==
    /\ Running
    /\ live' = live \ {b}
    /\ UNCHANGED <<init, selected, refused, stack, ended>>

-----------------------------------------------------------------------------
(* A failure on its way to a report or to the program.                     *)

take_refusal == IF refused.by # Nil THEN refused.size ELSE Unsized
Taken == [refused EXCEPT !.by = Nil]

restore_refusal(a, size) == [by |-> IF size \in {0, Unsized} THEN Nil ELSE resolve(a), size |-> size]

\* The operation drops what it had staged, whose hooks run next.  A box keeps
\* its refusal aside.
Release ==
    /\ Running /\ stack # <<>> /\ Top.step = "release"
    /\ IF LeavesNote(Top)
       THEN /\ stack' = ReplaceTop([Top EXCEPT !.step = "undo"])
            /\ UNCHANGED refused
       ELSE /\ stack' = ReplaceTop([Top EXCEPT !.step = "undo", !.error = take_refusal])
            /\ refused' = Taken
    /\ UNCHANGED <<init, selected, live, ended>>

Undone ==
    /\ Running /\ stack # <<>> /\ Top.step = "undo"
    /\ stack' = ReplaceTop([Top EXCEPT !.step = "failed"])
    /\ refused' = IF LeavesNote(Top) THEN refused ELSE restore_refusal(Top.a, Top.error)
    /\ UNCHANGED <<init, selected, live, ended>>

\* Mutant of BecomesError: the note is read and left behind.
BecomesErrorUntaken ==
    /\ Running /\ stack # <<>> /\ Top.step = "failed"
    /\ stack' = ReplaceTop([Top EXCEPT !.step = "error", !.error = take_refusal])
    /\ UNCHANGED <<init, selected, refused, live, ended>>

\* A fallible form turns the status into an Allocator_Error ...
BecomesError ==
    /\ Running /\ stack # <<>> /\ Top.step = "failed"
    /\ stack' = ReplaceTop([Top EXCEPT !.step = "error", !.error = take_refusal])
    /\ refused' = Taken
    /\ UNCHANGED <<init, selected, live, ended>>

\* ... which the program handles ...
Handles ==
    /\ Running /\ stack # <<>> /\ Top.step = "error"
    /\ stack' = Pop
    /\ UNCHANGED <<init, selected, refused, live, ended>>

\* ... or hands on, to a status or to the policy.
HandsOn ==
    /\ Running /\ stack # <<>> /\ Top.step = "error"
    /\ stack' = ReplaceTop([Top EXCEPT !.step = "failed"])
    /\ refused' = restore_refusal(Top.a, Top.error)
    /\ UNCHANGED <<init, selected, live, ended>>

\* The policy of the allocator: the report, then a panic or an abort.
alloc_failed ==
    /\ Running /\ stack # <<>> /\ Top.step = "failed"
    /\ ended' = [how |-> IF Asks \in Traps THEN "trap" ELSE "panic",
                 by |-> IF refused.by # Nil THEN refused.by ELSE Asks,
                 size |-> take_refusal, asked |-> Top.asked, a |-> Asks]
    /\ refused' = Taken
    /\ UNCHANGED <<init, selected, stack, live>>

Next ==
    \/ provider_init_begin
    \/ Reenter
    \/ \E a \in Selections : publish_allocator(a)
    \/ provider_init_end
    \/ \E kind \in Kinds, a \in Handle : Start(kind, a)
    \/ \E size \in 0 .. MaxSize, grows \in BOOLEAN : Allocates(size, grows)
    \/ \E size \in 1 .. MaxSize, grows \in BOOLEAN : Refused(size, grows)
    \/ FailsUnasked
    \/ \E b \in live : Free(b)
    \/ Release \/ Undone \/ BecomesError \/ Handles \/ HandsOn \/ alloc_failed

Spec == Init /\ [][Next]_vars

-----------------------------------------------------------------------------
Request == [by : Handle, size : 0 .. Unsized]

TypeOK ==
    /\ init \in {"idle", "running", "published", "done"}
    /\ selected \in Provider
    /\ refused \in Request
    /\ Len(stack) <= MaxDepth
    /\ \A i \in 1 .. Len(stack) :
          /\ stack[i].kind \in Kinds /\ stack[i].a \in Handle
          /\ stack[i].step \in {"ask", "failed", "release", "undo", "error"}
          /\ stack[i].asked \in Request /\ stack[i].error \in 0 .. Unsized
          /\ stack[i].hooked \in BOOLEAN
    /\ live \subseteq [id : 1 .. MaxLive, by : Provider, handle : Handle, kind : Kinds, early : BOOLEAN]
    /\ ended.how \in {"running", "panic", "trap", "abort"}

\* The size a failure has to report: what was asked for, if anything was.
Owed(asked) == IF asked.by = Nil THEN Unsized ELSE asked.size

\* A failure names its own request: the report of a policy gives the provider and
\* the size of the request that failed the operation, not of its parent, of a
\* hook or of an older failure, and so does an Allocator_Error.
FailureNamesRequest ==
    /\ ended.how \in {"panic", "trap"} =>
          /\ ended.size = Owed(ended.asked)
          /\ ended.by = IF ended.asked.by = Nil THEN ended.a ELSE ended.asked.by
    /\ \A i \in 1 .. Len(stack) :
          stack[i].step = "error" => stack[i].error = Owed(stack[i].asked)

\* Operation i asked for nothing, in a hook of a container that left its refusal in
\* the note.
Lent(i) == i > 1 /\ LeavesNote(stack[i - 1]) /\ stack[i].asked.by = Nil

\* What operation i may tell as the size: that of its own request, or none, if a hook
\* has allocated since it was refused.
Tells(i, size) ==
    \/ Lent(i)
    \/ size = Owed(stack[i].asked)
    \/ stack[i].hooked /\ size = Unsized

\* However deep failures are nested, none names another operation's request, but for
\* one that asked for nothing in a hook of a failing container; and only a container
\* whose own hooks allocated loses the size of its request.
NamesOwnOrNone ==
    /\ ended.how \in {"panic", "trap"} =>
          /\ Tells(Len(stack), ended.size)
          /\ Lent(Len(stack)) \/ ended.by = IF ended.asked.by = Nil THEN ended.a ELSE ended.asked.by
    /\ \A i \in 1 .. Len(stack) : stack[i].step = "error" => Tells(i, stack[i].error)

\* A failure the program handled leaves nothing behind: the note holds a refusal
\* only while the innermost operation is failing, and then its own, or while it runs
\* in a hook of a failing container and has asked for nothing.
NoteOnlyWhileFailing ==
    refused.by # Nil =>
        /\ stack # <<>>
        /\ Top.step # "error"
        /\ refused = Top.asked \/ Lent(Len(stack))

\* An allocation's owner can free it: the handle it kept leads to the provider
\* that served the request, also after the build's provider has been published.
HandlesFindProvider == \A b \in live : resolve(b.handle) = b.by

\* Only a zero Allocator that an argument gave before the build's provider was
\* published may lead elsewhere: a container's own handle never does, nor one kept
\* once the provider is published.
OwnersReachProvider ==
    \A b \in live : resolve(b.handle) = b.by \/ (b.handle = Nil /\ b.early /\ b.kind # "grow")

\* What a failure tells and what it leaves behind, together.
Inv == TypeOK /\ NamesOwnOrNone /\ NoteOnlyWhileFailing

=============================================================================
