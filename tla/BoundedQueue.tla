---------------------------- MODULE BoundedQueue ----------------------------
(***************************************************************************)
(* What a bounded one-to-one queue of core:thread promises the two threads *)
(* that use it, whatever its implementation: at most Capacity items are    *)
(* queued, they leave in the order they were accepted, and every answer of *)
(* a non-waiting call is justified by a state the queue was in during that *)
(* call.                                                                   *)
(*                                                                         *)
(*   sCall, rCall   the stage of the sender's and the receiver's call:     *)
(*     "idle"       no call is open                                        *)
(*     "open"       a call is open; the other side lived when it began     *)
(*     "late"       (sender) the receiver was gone before the call began   *)
(*     "saw"        the queue was full (sender) or empty (receiver) at     *)
(*                  some moment of the open call                           *)
(***************************************************************************)
EXTENDS Naturals, Sequences

CONSTANTS Item, Capacity   \* Capacity is at least one

VARIABLES queue, delivered, senderGone, receiverGone,
          sCall, rCall,       \* stages of the calls
          sAnswer, rAnswer    \* the last answers given

ends == <<senderGone, receiverGone>>
sVars == <<sCall, sAnswer>>
rVars == <<rCall, rAnswer>>
vars == <<queue, delivered, ends, sVars, rVars>>

TypeOK ==
    /\ queue \in Seq(Item)
    /\ Len(queue) <= Capacity
    /\ delivered \in Seq(Item)
    /\ senderGone \in BOOLEAN
    /\ receiverGone \in BOOLEAN
    /\ sCall \in {"idle", "open", "late", "saw"}
    /\ rCall \in {"idle", "open", "saw"}
    /\ sAnswer \in {"none", "ok", "full", "closed"}
    /\ rAnswer \in {"none", "item", "empty", "closed"}

Init ==
    /\ queue = <<>>
    /\ delivered = <<>>
    /\ senderGone = FALSE
    /\ receiverGone = FALSE
    /\ sCall = "idle"
    /\ rCall = "idle"
    /\ sAnswer = "none"
    /\ rAnswer = "none"

\* A call ends with its answer.
SendReturn(answer) == sCall' = "idle" /\ sAnswer' = answer
ReceiveReturn(answer) == rCall' = "idle" /\ rAnswer' = answer

-----------------------------------------------------------------------------
(* The sender. *)

SendCall ==
    /\ sCall = "idle"
    /\ ~senderGone
    /\ sCall' = IF receiverGone THEN "late" ELSE "open"
    /\ UNCHANGED <<queue, delivered, ends, sAnswer, rVars>>

SendSeesFull ==
    /\ sCall = "open"
    /\ Len(queue) = Capacity
    /\ sCall' = "saw"
    /\ UNCHANGED <<queue, delivered, ends, sAnswer, rVars>>

\* .ok: there was room, and the receiver had not dropped before the call.
SendAccept ==
    /\ sCall = "open"
    /\ Len(queue) < Capacity
    /\ \E v \in Item : queue' = Append(queue, v)
    /\ SendReturn("ok")
    /\ UNCHANGED <<delivered, ends, rVars>>

\* .full: the queue was full during the call and the receiver still lives.
SendRefuseFull ==
    /\ sCall = "saw"
    /\ ~receiverGone
    /\ SendReturn("full")
    /\ UNCHANGED <<queue, delivered, ends, rVars>>

\* .closed: the receiver has dropped.
SendRefuseClosed ==
    /\ sCall # "idle"
    /\ receiverGone
    /\ SendReturn("closed")
    /\ UNCHANGED <<queue, delivered, ends, rVars>>

SenderDrop ==
    /\ sCall = "idle"
    /\ ~senderGone
    /\ senderGone' = TRUE
    /\ UNCHANGED <<queue, delivered, receiverGone, sVars, rVars>>

-----------------------------------------------------------------------------
(* The receiver. *)

ReceiveCall ==
    /\ rCall = "idle"
    /\ ~receiverGone
    /\ rCall' = "open"
    /\ UNCHANGED <<queue, delivered, ends, sVars, rAnswer>>

ReceiveSeesEmpty ==
    /\ rCall = "open"
    /\ queue = <<>>
    /\ rCall' = "saw"
    /\ UNCHANGED <<queue, delivered, ends, sVars, rAnswer>>

\* The call looks a second time, and gives up what it saw before.
ReceiveLooksAgain ==
    /\ rCall = "saw"
    /\ rCall' = "open"
    /\ UNCHANGED <<queue, delivered, ends, sVars, rAnswer>>

\* .item: the oldest queued item.
ReceiveItem ==
    /\ rCall # "idle"
    /\ queue # <<>>
    /\ delivered' = Append(delivered, Head(queue))
    /\ queue' = Tail(queue)
    /\ ReceiveReturn("item")
    /\ UNCHANGED <<ends, sVars>>

\* .empty: nothing was queued at some moment of the call, and more may come.
ReceiveEmpty ==
    /\ rCall = "saw"
    /\ ~senderGone
    /\ ReceiveReturn("empty")
    /\ UNCHANGED <<queue, delivered, ends, sVars>>

\* .closed: the sender has dropped and nothing is queued.
ReceiveClosed ==
    /\ rCall # "idle"
    /\ senderGone
    /\ queue = <<>>
    /\ ReceiveReturn("closed")
    /\ UNCHANGED <<queue, delivered, ends, sVars>>

ReceiverDrop ==
    /\ rCall = "idle"
    /\ ~receiverGone
    /\ receiverGone' = TRUE
    /\ UNCHANGED <<queue, delivered, senderGone, sVars, rVars>>

\* The queue itself is dropped once both sides are: what it holds goes with it.
Discard ==
    /\ senderGone
    /\ receiverGone
    /\ queue # <<>>
    /\ queue' = Tail(queue)
    /\ UNCHANGED <<delivered, ends, sVars, rVars>>

Next ==
    \/ SendCall \/ SendSeesFull \/ SendAccept
    \/ SendRefuseFull \/ SendRefuseClosed \/ SenderDrop
    \/ ReceiveCall \/ ReceiveSeesEmpty \/ ReceiveLooksAgain
    \/ ReceiveItem \/ ReceiveEmpty \/ ReceiveClosed \/ ReceiverDrop
    \/ Discard

Spec == Init /\ [][Next]_vars

=============================================================================
