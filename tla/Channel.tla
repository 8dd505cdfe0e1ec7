------------------------------ MODULE Channel ------------------------------
(***************************************************************************)
(* core/thread/channel.loke over the Monitor of core/thread/thread.loke: a *)
(* bounded queue with many senders and receivers, closing sides, and       *)
(* threads that sleep until they can go on.                                *)
(*                                                                         *)
(* A call locks, works, unlocks and then wakes the sleepers if its guard   *)
(* handed out the value for writing.  Nothing sees the queue between the   *)
(* lock and the work, so those two are one step (Enter); the unlock and    *)
(* the wake are steps of their own.  A sleep releases the lock and joins   *)
(* the sleepers in one step, as the condition variable promises, and may   *)
(* end at any time.                                                        *)
(***************************************************************************)
EXTENDS Integers, FiniteSets, Sequences

CONSTANTS
    Thread, Item, Capacity,
    Nobody, NoItem,
    MaxCalls        \* bound: calls made

ASSUME ChannelAssumption ==
    /\ Capacity \in Nat \ {0} /\ MaxCalls \in Nat
    /\ Nobody \notin Thread /\ NoItem \notin Item

VARIABLES
    slots, head, count,                         \* Channel_State
    senders, receivers, split,
    sending_closed, receiving_closed,
    lock,           \* who holds the monitor
    pc,             \* of each thread: "idle", "want", "asleep", "leaving", "waking"
    call,           \* the call each thread is in: [op, side, item]
    changed,        \* Monitor_Guard.changed of each thread's guard
    own,            \* how many endpoints of each side each thread owns
    calls,
    sent, taken,    \* the items committed, and those handed to receivers, in order
    ended           \* a receiver has been told that the stream ended

queue == <<slots, head, count>>
sides == <<senders, receivers, split, sending_closed, receiving_closed>>
threads == <<lock, pc, call, changed>>
history == <<sent, taken, ended>>
vars == <<queue, sides, threads, own, calls, history>>

Sides == {"sender", "receiver"}
Ops == {"split", "close", "send", "try_send", "receive", "try_receive", "fork", "drop"}
Call == [op : Ops, side : Sides, item : Item \cup {NoItem}]
NoCall == [op |-> "close", side |-> "sender", item |-> NoItem]

TypeOK ==
    /\ slots \in [0 .. Capacity - 1 -> Item \cup {NoItem}]
    /\ head \in 0 .. Capacity - 1 /\ count \in 0 .. Capacity
    /\ senders \in Int /\ receivers \in Int
    /\ split \in BOOLEAN /\ sending_closed \in BOOLEAN /\ receiving_closed \in BOOLEAN
    /\ lock \in Thread \cup {Nobody}
    /\ pc \in [Thread -> {"idle", "want", "asleep", "leaving", "waking"}]
    /\ call \in [Thread -> Call]
    /\ changed \in [Thread -> BOOLEAN]
    /\ own \in [Thread -> [Sides -> Nat]]
    /\ calls \in 0 .. MaxCalls
    /\ sent \in Seq(Item) /\ taken \in Seq(Item) /\ ended \in BOOLEAN

-----------------------------------------------------------------------------
(* Channel_State *)

closed == sending_closed \/ receiving_closed
can_send == closed \/ count < Capacity
can_receive == count > 0 \/ sending_closed

\* Mutant of push: the item goes where the next one is taken.
PushAtHead(item) ==
    /\ slots' = [slots EXCEPT ![head] = item]
    /\ count' = count + 1
    /\ UNCHANGED head

push(item) ==
    /\ slots' = [slots EXCEPT ![(head + count) % Capacity] = item]
    /\ count' = count + 1
    /\ UNCHANGED head

pop ==
    /\ slots' = [slots EXCEPT ![head] = NoItem]
    /\ head' = (head + 1) % Capacity
    /\ count' = count - 1

-----------------------------------------------------------------------------
(* Monitor *)

\* The call of t has the lock; `get` says whether it reached the value to write.
Hold(t, get) ==
    /\ lock' = t
    /\ pc' = [pc EXCEPT ![t] = "leaving"]
    /\ changed' = [changed EXCEPT ![t] = get]
    /\ UNCHANGED call

\* lock_when whose condition is false: release the lock and sleep.
Sleep(t) ==
    /\ pc' = [pc EXCEPT ![t] = "asleep"]
    /\ UNCHANGED <<lock, call, changed, queue, sides, own, calls, history>>

\* Monitor_Guard.unlock, in its two steps.
Unlock(t) ==
    /\ pc[t] = "leaving"
    /\ lock' = Nobody
    /\ pc' = [pc EXCEPT ![t] = IF changed[t] THEN "waking" ELSE "idle"]
    /\ call' = [call EXCEPT ![t] = NoCall]
    /\ changed' = [changed EXCEPT ![t] = FALSE]
    /\ UNCHANGED <<queue, sides, own, calls, history>>

WakeAll(t) ==
    /\ pc[t] = "waking"
    /\ pc' = [u \in Thread |-> IF pc[u] = "asleep" THEN "want" ELSE IF u = t THEN "idle" ELSE pc[u]]
    /\ UNCHANGED <<queue, sides, lock, call, changed, own, calls, history>>

Spurious(t) ==
    /\ pc[t] = "asleep"
    /\ pc' = [pc EXCEPT ![t] = "want"]
    /\ UNCHANGED <<queue, sides, lock, call, changed, own, calls, history>>

-----------------------------------------------------------------------------
(* Calls *)

\* A thread starts a call.  It needs an endpoint of the call's side for anything
\* but split and close, which the channel itself offers.
Begin(t) ==
    /\ pc[t] = "idle" /\ calls < MaxCalls
    /\ \E c \in Call :
        /\ c.op \in {"send", "try_send"} <=> c.item # NoItem
        /\ c.op \in {"send", "try_send", "split", "close"} => c.side = "sender"
        /\ c.op \in {"receive", "try_receive"} => c.side = "receiver"
        /\ c.op \in {"split", "close"} \/ own[t][c.side] > 0
        /\ call' = [call EXCEPT ![t] = c]
    /\ calls' = calls + 1
    /\ pc' = [pc EXCEPT ![t] = "want"]
    /\ UNCHANGED <<queue, sides, lock, changed, own, history>>

Wants(t, op) == pc[t] = "want" /\ lock = Nobody /\ call[t].op = op

\* The endpoints go to any two threads; split twice or closed, it panics.
Split(t) ==
    /\ Wants(t, "split")
    /\ \/ /\ split \/ closed
          /\ Hold(t, FALSE)
          /\ UNCHANGED <<queue, sides, own, calls, history>>
       \/ /\ ~split /\ ~closed
          /\ split' = TRUE /\ senders' = 1 /\ receivers' = 1
          /\ \E s, r \in Thread :
                own' = [own EXCEPT ![s]["sender"] = 1, ![r]["receiver"] = 1]
          /\ Hold(t, TRUE)
          /\ UNCHANGED <<queue, sending_closed, receiving_closed, calls, history>>

Send(t) ==
    /\ Wants(t, "send")
    /\ \/ ~can_send /\ Sleep(t)
       \/ /\ closed /\ Hold(t, FALSE)               \* the item goes back
          /\ UNCHANGED <<queue, sides, own, calls, history>>
       \/ /\ can_send /\ ~closed
          /\ push(call[t].item) /\ Hold(t, TRUE)
          /\ sent' = Append(sent, call[t].item)
          /\ UNCHANGED <<sides, own, calls, taken, ended>>

try_send(t) ==
    /\ Wants(t, "try_send")
    /\ \/ /\ closed \/ count = Capacity
          /\ Hold(t, FALSE)
          /\ UNCHANGED <<queue, sides, own, calls, history>>
       \/ /\ ~closed /\ count # Capacity
          /\ push(call[t].item) /\ Hold(t, TRUE)
          /\ sent' = Append(sent, call[t].item)
          /\ UNCHANGED <<sides, own, calls, taken, ended>>

Take(t) ==
    /\ pop /\ Hold(t, TRUE)
    /\ taken' = Append(taken, slots[head])
    /\ UNCHANGED <<sides, own, calls, sent, ended>>

\* Mutant of Receive: `.none` as soon as the sending side has closed.
ReceiveNoDrain(t) ==
    /\ Wants(t, "receive")
    /\ \/ ~can_receive /\ Sleep(t)
       \/ ~sending_closed /\ count > 0 /\ Take(t)
       \/ /\ sending_closed /\ Hold(t, TRUE) /\ ended' = TRUE
          /\ UNCHANGED <<queue, sides, own, calls, sent, taken>>

Receive(t) ==
    /\ Wants(t, "receive")
    /\ \/ ~can_receive /\ Sleep(t)
       \/ count > 0 /\ Take(t)
       \/ /\ can_receive /\ count = 0
          /\ Hold(t, TRUE) /\ ended' = TRUE
          /\ UNCHANGED <<queue, sides, own, calls, sent, taken>>

try_receive(t) ==
    /\ Wants(t, "try_receive")
    /\ \/ count > 0 /\ Take(t)
       \/ /\ count = 0 /\ Hold(t, FALSE)
          /\ ended' = (ended \/ sending_closed)
          /\ UNCHANGED <<queue, sides, own, calls, sent, taken>>

\* The new endpoint may be moved to any thread.
ForkSender(t) ==
    /\ Wants(t, "fork") /\ call[t].side = "sender"
    /\ \E u \in Thread : own' = [own EXCEPT ![u]["sender"] = @ + 1]
    /\ senders' = senders + 1
    /\ Hold(t, TRUE)
    /\ UNCHANGED <<queue, receivers, split, sending_closed, receiving_closed, calls, history>>

ForkReceiver(t) ==
    /\ Wants(t, "fork") /\ call[t].side = "receiver"
    /\ \E u \in Thread : own' = [own EXCEPT ![u]["receiver"] = @ + 1]
    /\ receivers' = receivers + 1
    /\ Hold(t, TRUE)
    /\ UNCHANGED <<queue, senders, split, sending_closed, receiving_closed, calls, history>>

\* Mutant of ReleaseSender: the guard is used without `get`, so no one is woken.
ReleaseQuietly(t) ==
    /\ Wants(t, "drop") /\ call[t].side = "sender"
    /\ own' = [own EXCEPT ![t]["sender"] = @ - 1]
    /\ senders' = senders - 1
    /\ sending_closed' = (sending_closed \/ senders' = 0)
    /\ Hold(t, FALSE)
    /\ UNCHANGED <<queue, receivers, split, receiving_closed, calls, history>>

\* The drop hooks of the endpoints.
ReleaseSender(t) ==
    /\ Wants(t, "drop") /\ call[t].side = "sender"
    /\ own' = [own EXCEPT ![t]["sender"] = @ - 1]
    /\ senders' = senders - 1
    /\ sending_closed' = (sending_closed \/ senders' = 0)
    /\ Hold(t, TRUE)
    /\ UNCHANGED <<queue, receivers, split, receiving_closed, calls, history>>

ReleaseReceiver(t) ==
    /\ Wants(t, "drop") /\ call[t].side = "receiver"
    /\ own' = [own EXCEPT ![t]["receiver"] = @ - 1]
    /\ receivers' = receivers - 1
    /\ receiving_closed' = (receiving_closed \/ receivers' = 0)
    /\ Hold(t, TRUE)
    /\ UNCHANGED <<queue, senders, split, sending_closed, calls, history>>

\* Mutant of Close: no one is woken.
CloseQuietly(t) ==
    /\ Wants(t, "close")
    /\ sending_closed' = TRUE /\ receiving_closed' = TRUE
    /\ Hold(t, FALSE)
    /\ UNCHANGED <<queue, senders, receivers, split, own, calls, history>>

Close(t) ==
    /\ Wants(t, "close")
    /\ sending_closed' = TRUE /\ receiving_closed' = TRUE
    /\ Hold(t, TRUE)
    /\ UNCHANGED <<queue, senders, receivers, split, own, calls, history>>

-----------------------------------------------------------------------------
Init ==
    /\ slots = [i \in 0 .. Capacity - 1 |-> NoItem] /\ head = 0 /\ count = 0
    /\ senders = 0 /\ receivers = 0
    /\ split = FALSE /\ sending_closed = FALSE /\ receiving_closed = FALSE
    /\ lock = Nobody
    /\ pc = [t \in Thread |-> "idle"]
    /\ call = [t \in Thread |-> NoCall]
    /\ changed = [t \in Thread |-> FALSE]
    /\ own = [t \in Thread |-> [s \in Sides |-> 0]]
    /\ calls = 0 /\ sent = <<>> /\ taken = <<>> /\ ended = FALSE

Enter(t) ==
    \/ Split(t) \/ Send(t) \/ try_send(t) \/ Receive(t) \/ try_receive(t)
    \/ ForkSender(t) \/ ForkReceiver(t) \/ ReleaseSender(t) \/ ReleaseReceiver(t) \/ Close(t)

Next ==
    \E t \in Thread : Begin(t) \/ Enter(t) \/ Unlock(t) \/ WakeAll(t) \/ Spurious(t)

Spec == Init /\ [][Next]_vars

\* A thread in a call is run until the call returns or sleeps; nothing obliges
\* the program to make a call, or the system to wake a sleeper by itself.
FairSpec == Spec /\ \A t \in Thread : WF_vars(Enter(t)) /\ WF_vars(Unlock(t)) /\ WF_vars(WakeAll(t))

-----------------------------------------------------------------------------
(* What the channel owes its users. *)

Queued == [i \in 1 .. count |-> slots[(head + i - 1) % Capacity]]

\* Items come out in the order they were committed, each once: what was taken
\* followed by what is queued is what was sent, through wrap-around of the slots
\* and whichever threads send and receive.
InOrder == taken \o Queued = sent

\* A sleeper that could go on is about to be woken: no change to the queue or to
\* the sides, by any operation, is left without a wake.
NoLostWakeup ==
    \A t \in Thread :
        /\ pc[t] = "asleep"
        /\ IF call[t].op = "send" THEN can_send ELSE can_receive
        => \E u \in Thread : pc[u] = "waking" \/ (pc[u] = "leaving" /\ changed[u])

\* The endpoints of a side that are alive: each thread's are numbered from 1.
Endpoints(side) == UNION {{t} \X (1 .. own[t][side]) : t \in Thread}

\* The counts are the endpoints alive, so a side closes when its last endpoint is
\* dropped and, unless the channel is closed outright, not before.
EndpointsCounted ==
    /\ senders = Cardinality(Endpoints("sender"))
    /\ receivers = Cardinality(Endpoints("receiver"))
    /\ split /\ senders = 0 => sending_closed
    /\ split /\ receivers = 0 => receiving_closed
    /\ sending_closed /\ ~receiving_closed => senders = 0
    /\ receiving_closed /\ ~sending_closed => receivers = 0

\* The queue and the sides together: types, order and endpoint counts.
Inv == TypeOK /\ InOrder /\ EndpointsCounted

\* Once a receiver has been told of the end, no item is delivered any more.
EndIsFinal == [][ended => UNCHANGED <<taken, ended>>]_vars

\* A call that waits returns once nothing can come: a send when either side has
\* closed, a receive when the last sender is gone, whether an endpoint's drop or
\* `close` did it.
CallsReturn == \A t \in Thread :
    /\ pc[t] # "idle"
    /\ \/ call[t].op = "send" /\ closed
       \/ call[t].op = "receive" /\ sending_closed
    ~> pc[t] = "idle"

=============================================================================
