-------------------------------- MODULE Ring --------------------------------
(***************************************************************************)
(* core/thread/ring.loke: the single-producer/single-consumer ring.  Each  *)
(* access to shared memory of try_send, try_receive and the drop hooks is  *)
(* a step of its own, so the two threads interleave as they do on a        *)
(* machine.                                                                *)
(*                                                                         *)
(* Atomics.  tail and head are kept as the log of the values stored into   *)
(* them; the last entry is the current value.  When Stale is TRUE a load   *)
(* may return any logged value not older than the newest one the loading   *)
(* thread already knows of (sKnown, rKnown), which is what acquire/release *)
(* order allows; when it is FALSE memory is sequentially consistent.       *)
(* Knowing a store means that everything its thread did before it is       *)
(* visible too.  The two "gone" flags are stored once; a thread that has   *)
(* read TRUE (sSawGone, rSawGone) reads TRUE again, and knows every store  *)
(* of the thread that dropped.                                             *)
(*                                                                         *)
(* An item is any member of Item.  put and took number the sends and takes *)
(* of a slot, for stating which accesses happen before which.              *)
(***************************************************************************)
EXTENDS Naturals, Sequences

CONSTANTS
    Item,
    NoItem,      \* what an empty slot holds
    Capacity,    \* the argument of Ring.init
    MaxSends,    \* bound: sends accepted in a behaviour
    Stale        \* whether loads may lag behind stores

ASSUME CapacityAssumption == Capacity \in Nat \ {0}
ASSUME MaxSendsAssumption == MaxSends \in Nat
ASSUME NoItemAssumption == NoItem \notin Item
ASSUME StaleAssumption == Stale \in BOOLEAN

\* One slot more than the capacity: the spare slot.
Size == Capacity + 1
Index == 0 .. Size - 1

VARIABLES
    phase,           \* of the ring: "whole", "split", then its own drop
    slots,           \* [live, item, put, took] for each index
    tailLog,         \* values stored into Ring.tail, oldest first
    headLog,         \* values stored into Ring.head, oldest first
    sender_gone,
    receiver_gone,
    pcS,             \* the sender's place in try_send
    sItem,           \* the value try_send was called with
    sTail,           \* Ring_Sender.tail
    head_seen,       \* Ring_Sender.head_seen
    sKnown,          \* newest entry of headLog the sender knows
    sSawGone,
    sLate,           \* the receiver was gone before the current try_send
    sAnswer,         \* the last answer of try_send
    pcR,             \* the receiver's place in try_receive
    rItem,           \* the item taken out of its slot
    rHead,           \* Ring_Receiver.head
    tail_seen,       \* Ring_Receiver.tail_seen
    rKnown,          \* newest entry of tailLog the receiver knows
    rSawGone,
    rAnswer,         \* the last answer of try_receive
    accepted,        \* history: items try_send answered .ok for
    delivered,       \* history: items try_receive answered
    dropped          \* history: items the ring's own drop dropped

ringVars == <<phase, slots, tailLog, headLog, sender_gone, receiver_gone>>
sendVars == <<pcS, sItem, sTail, head_seen, sKnown, sSawGone, sLate, sAnswer>>
recvVars == <<pcR, rItem, rHead, tail_seen, rKnown, rSawGone, rAnswer>>
histVars == <<accepted, delivered, dropped>>
vars == <<ringVars, sendVars, recvVars, histVars>>

\* Ring_Slot, with the numbers of the last put into it and take from it.
Slot == [live : 0 .. 1, item : Item \cup {NoItem}, put : Nat, took : Nat]
EmptySlot == [live |-> 0, item |-> NoItem, put |-> 0, took |-> 0]

TypeOK ==
    /\ phase \in {"whole", "split", "draining", "unwinding",
                  "dropped", "unwound", "aborted"}
    /\ slots \in [Index -> Slot]
    /\ tailLog \in Seq(Index) /\ Len(tailLog) >= 1
    /\ headLog \in Seq(Index) /\ Len(headLog) >= 1
    /\ sender_gone \in BOOLEAN /\ receiver_gone \in BOOLEAN
    /\ pcS \in {"idle", "gone", "head", "regone", "write", "publish"}
    /\ sItem \in Item \cup {NoItem}
    /\ sTail \in Index /\ head_seen \in Index
    /\ sKnown \in 1 .. Len(headLog)
    /\ sSawGone \in BOOLEAN /\ sLate \in BOOLEAN
    /\ sAnswer \in {"none", "ok", "full", "closed"}
    /\ pcR \in {"idle", "tail", "gone", "retail", "take", "publish"}
    /\ rItem \in Item \cup {NoItem}
    /\ rHead \in Index /\ tail_seen \in Index
    /\ rKnown \in 1 .. Len(tailLog)
    /\ rSawGone \in BOOLEAN
    /\ rAnswer \in {"none", "item", "empty", "closed"}
    /\ accepted \in Seq(Item) /\ Len(accepted) <= MaxSends
    /\ delivered \in Seq(Item)
    /\ dropped \in Seq(Item)

-----------------------------------------------------------------------------
\* Ring.next.
Following(index) == IF index + 1 = Size THEN 0 ELSE index + 1

Last(log) == log[Len(log)]

\* The entries a load may return, given the newest one already known.
Loadable(log, known) == IF Stale THEN known .. Len(log) ELSE {Len(log)}

\* The values a load of a flag that is only ever set may return.
FlagLoads(flag, saw) == IF flag /\ Stale /\ ~saw THEN BOOLEAN ELSE {flag}

\* Ring.init: every slot is capacity only, both indices are zero.
Init ==
    /\ phase = "whole"
    /\ slots = [i \in Index |-> EmptySlot]
    /\ tailLog = <<0>> /\ headLog = <<0>>
    /\ sender_gone = FALSE /\ receiver_gone = FALSE
    /\ pcS = "idle" /\ sItem = NoItem
    /\ sTail = 0 /\ head_seen = 0 /\ sKnown = 1
    /\ sSawGone = FALSE /\ sLate = FALSE /\ sAnswer = "none"
    /\ pcR = "idle" /\ rItem = NoItem
    /\ rHead = 0 /\ tail_seen = 0 /\ rKnown = 1
    /\ rSawGone = FALSE /\ rAnswer = "none"
    /\ accepted = <<>> /\ delivered = <<>> /\ dropped = <<>>

\* Ring.split: the exchange of split_done lets one call through; a second call
\* panics, which ends the process, and is left out.
Split ==
    /\ phase = "whole"
    /\ phase' = "split"
    /\ UNCHANGED <<slots, tailLog, headLog, sender_gone, receiver_gone,
                   sendVars, recvVars, histVars>>

-----------------------------------------------------------------------------
(* Ring_Sender.try_send *)

SendBegin ==
    /\ phase = "split" /\ ~sender_gone
    /\ pcS = "idle"
    /\ Len(accepted) < MaxSends
    /\ \E v \in Item : sItem' = v
    /\ pcS' = "gone"
    /\ sLate' = receiver_gone
    /\ UNCHANGED <<ringVars, sTail, head_seen, sKnown, sSawGone, sAnswer,
                   recvVars, histVars>>

\* The end of a call that hands the value back.
SendRefuse(answer) ==
    /\ pcS' = "idle"
    /\ sItem' = NoItem
    /\ sAnswer' = answer

\* What reading receiver_gone as `gone` tells the sender.
SenderReadsGone(gone) ==
    /\ sSawGone' = gone
    /\ sKnown' = IF gone THEN Len(headLog) ELSE sKnown

\* Mutant of SendLoadGone: the full test forgets the spare slot.
SendLoadGoneNoSpare ==
    /\ pcS = "gone"
    /\ \E gone \in FlagLoads(receiver_gone, sSawGone) :
        /\ SenderReadsGone(gone)
        /\ IF gone
           THEN SendRefuse("closed")
           ELSE /\ pcS' = "write"
                /\ UNCHANGED <<sItem, sAnswer>>
    /\ UNCHANGED <<ringVars, sTail, head_seen, sLate, recvVars, histVars>>

\* The first load of receiver_gone, and the test of the cached head index.
SendLoadGone ==
    /\ pcS = "gone"
    /\ \E gone \in FlagLoads(receiver_gone, sSawGone) :
        /\ SenderReadsGone(gone)
        /\ IF gone
           THEN SendRefuse("closed")
           ELSE /\ pcS' = IF Following(sTail) = head_seen THEN "head" ELSE "write"
                /\ UNCHANGED <<sItem, sAnswer>>
    /\ UNCHANGED <<ringVars, sTail, head_seen, sLate, recvVars, histVars>>

\* Mutant of SendLoadHead: gives up one item early.
SendLoadHeadEarly ==
    /\ pcS = "head"
    /\ \E n \in Loadable(headLog, sKnown) :
        /\ head_seen' = headLog[n]
        /\ sKnown' = n
        /\ pcS' = IF headLog[n] \in {Following(sTail), Following(Following(sTail))}
                  THEN "regone" ELSE "write"
    /\ UNCHANGED <<ringVars, sItem, sTail, sSawGone, sLate, sAnswer, recvVars, histVars>>

\* The ring looks full: refresh the cached head index.
SendLoadHead ==
    /\ pcS = "head"
    /\ \E n \in Loadable(headLog, sKnown) :
        /\ head_seen' = headLog[n]
        /\ sKnown' = n
        /\ pcS' = IF Following(sTail) = headLog[n] THEN "regone" ELSE "write"
    /\ UNCHANGED <<ringVars, sItem, sTail, sSawGone, sLate, sAnswer, recvVars, histVars>>

\* Mutant of SendReloadGone: .full without asking whether the receiver lives.
SendReloadGoneUnasked ==
    /\ pcS = "regone"
    /\ SendRefuse("full")
    /\ UNCHANGED <<ringVars, sTail, head_seen, sKnown, sSawGone, sLate, recvVars, histVars>>

\* The ring is full: .closed takes precedence over .full.
SendReloadGone ==
    /\ pcS = "regone"
    /\ \E gone \in FlagLoads(receiver_gone, sSawGone) :
        /\ SenderReadsGone(gone)
        /\ SendRefuse(IF gone THEN "closed" ELSE "full")
    /\ UNCHANGED <<ringVars, sTail, head_seen, sLate, recvVars, histVars>>

\* The item moves into the slot and the slot becomes live.
SendWrite ==
    /\ pcS = "write"
    /\ slots' = [slots EXCEPT ![sTail] =
                    [live |-> 1, item |-> sItem, put |-> Len(tailLog), took |-> @.took]]
    /\ pcS' = "publish"
    /\ UNCHANGED <<phase, tailLog, headLog, sender_gone, receiver_gone, sItem, sTail,
                   head_seen, sKnown, sSawGone, sLate, sAnswer, recvVars, histVars>>

\* The release store of tail, which commits the send.
SendPublish ==
    /\ pcS = "publish"
    /\ tailLog' = Append(tailLog, Following(sTail))
    /\ sTail' = Following(sTail)
    /\ accepted' = Append(accepted, sItem)
    /\ SendRefuse("ok")
    /\ UNCHANGED <<phase, slots, headLog, sender_gone, receiver_gone, head_seen,
                   sKnown, sSawGone, sLate, recvVars, delivered, dropped>>

\* Ring_Sender.release.
SenderDrop ==
    /\ phase = "split" /\ ~sender_gone
    /\ pcS = "idle"
    /\ sender_gone' = TRUE
    /\ UNCHANGED <<phase, slots, tailLog, headLog, receiver_gone,
                   sendVars, recvVars, histVars>>

-----------------------------------------------------------------------------
(* Ring_Receiver.try_receive *)

\* The test of the cached tail index.
ReceiveBegin ==
    /\ phase = "split" /\ ~receiver_gone
    /\ pcR = "idle"
    /\ pcR' = IF rHead = tail_seen THEN "tail" ELSE "take"
    /\ UNCHANGED <<ringVars, sendVars, rItem, rHead, tail_seen, rKnown, rSawGone,
                   rAnswer, histVars>>

\* Mutant of ReceiveLoadTail: trusts the cached tail index.
ReceiveLoadTailCached ==
    /\ pcR = "tail"
    /\ pcR' = "gone"
    /\ UNCHANGED <<ringVars, sendVars, rItem, rHead, tail_seen, rKnown, rSawGone,
                   rAnswer, histVars>>

\* The ring looks empty: refresh the cached tail index.
ReceiveLoadTail ==
    /\ pcR = "tail"
    /\ \E n \in Loadable(tailLog, rKnown) :
        /\ tail_seen' = tailLog[n]
        /\ rKnown' = n
        /\ pcR' = IF rHead = tailLog[n] THEN "gone" ELSE "take"
    /\ UNCHANGED <<ringVars, sendVars, rItem, rHead, rSawGone, rAnswer, histVars>>

\* Mutant of ReceiveLoadGone: .closed without looking at tail again.
ReceiveLoadGoneHasty ==
    /\ pcR = "gone"
    /\ \E gone \in FlagLoads(sender_gone, rSawGone) :
        /\ rSawGone' = gone
        /\ rAnswer' = IF gone THEN "closed" ELSE "empty"
    /\ pcR' = "idle"
    /\ UNCHANGED <<ringVars, sendVars, rItem, rHead, tail_seen, rKnown, histVars>>

\* Nothing was queued: .empty unless the sender has dropped.
ReceiveLoadGone ==
    /\ pcR = "gone"
    /\ \E gone \in FlagLoads(sender_gone, rSawGone) :
        /\ rSawGone' = gone
        /\ rKnown' = IF gone THEN Len(tailLog) ELSE rKnown
        /\ IF gone
           THEN pcR' = "retail" /\ UNCHANGED rAnswer
           ELSE pcR' = "idle" /\ rAnswer' = "empty"
    /\ UNCHANGED <<ringVars, sendVars, rItem, rHead, tail_seen, histVars>>

\* The sender has dropped: its last sends, which its drop orders before.
ReceiveReloadTail ==
    /\ pcR = "retail"
    /\ \E n \in Loadable(tailLog, rKnown) :
        /\ tail_seen' = tailLog[n]
        /\ rKnown' = n
        /\ IF rHead = tailLog[n]
           THEN pcR' = "idle" /\ rAnswer' = "closed"
           ELSE pcR' = "take" /\ UNCHANGED rAnswer
    /\ UNCHANGED <<ringVars, sendVars, rItem, rHead, rSawGone, histVars>>

\* The slot stops being live and the item moves out.
ReceiveTake ==
    /\ pcR = "take"
    /\ rItem' = slots[rHead].item
    /\ slots' = [slots EXCEPT ![rHead] =
                    [live |-> 0, item |-> NoItem, put |-> @.put, took |-> Len(headLog)]]
    /\ pcR' = "publish"
    /\ UNCHANGED <<phase, tailLog, headLog, sender_gone, receiver_gone, sendVars,
                   rHead, tail_seen, rKnown, rSawGone, rAnswer, histVars>>

\* The release store of head, which gives the slot back to the sender.
ReceivePublish ==
    /\ pcR = "publish"
    /\ headLog' = Append(headLog, Following(rHead))
    /\ rHead' = Following(rHead)
    /\ delivered' = Append(delivered, rItem)
    /\ rItem' = NoItem
    /\ rAnswer' = "item"
    /\ pcR' = "idle"
    /\ UNCHANGED <<phase, slots, tailLog, sender_gone, receiver_gone, sendVars,
                   tail_seen, rKnown, rSawGone, accepted, dropped>>

\* Ring_Receiver.release.
ReceiverDrop ==
    /\ phase = "split" /\ ~receiver_gone
    /\ pcR = "idle"
    /\ receiver_gone' = TRUE
    /\ UNCHANGED <<phase, slots, tailLog, headLog, sender_gone,
                   sendVars, recvVars, histVars>>

-----------------------------------------------------------------------------
(* Ring.drain: both endpoints are gone, and the joins that ended their     *)
(* borrows order everything they did before this.                          *)

DrainBegin ==
    /\ phase = "split" /\ sender_gone /\ receiver_gone
    /\ phase' = "draining"
    /\ UNCHANGED <<slots, tailLog, headLog, sender_gone, receiver_gone,
                   sendVars, recvVars, histVars>>

\* Mutant of DropQueued: shortens the queue after the item's drop.
DropQueuedLate ==
    /\ phase \in {"draining", "unwinding"}
    /\ Last(headLog) # Last(tailLog)
    /\ dropped' = Append(dropped, slots[Last(headLog)].item)
    /\ \E panics \in BOOLEAN :
        /\ phase' = IF ~panics THEN phase
                    ELSE IF phase = "draining" THEN "unwinding" ELSE "aborted"
        /\ headLog' = IF panics THEN headLog
                      ELSE Append(headLog, Following(Last(headLog)))
    /\ UNCHANGED <<slots, tailLog, sender_gone, receiver_gone, sendVars, recvVars,
                   accepted, delivered>>

\* One turn of drop_queued.  The item's drop may panic: the first panic unwinds
\* through drain, whose defer starts drop_queued again, and a panic while
\* unwinding aborts.
DropQueued ==
    /\ phase \in {"draining", "unwinding"}
    /\ Last(headLog) # Last(tailLog)
    /\ LET at == Last(headLog) IN
        /\ headLog' = Append(headLog, Following(at))
        /\ slots' = [slots EXCEPT ![at] =
                        [live |-> 0, item |-> NoItem, put |-> @.put, took |-> Len(headLog)]]
        /\ dropped' = Append(dropped, slots[at].item)
    /\ \E panics \in BOOLEAN :
        phase' = IF ~panics THEN phase
                 ELSE IF phase = "draining" THEN "unwinding" ELSE "aborted"
    /\ UNCHANGED <<tailLog, sender_gone, receiver_gone, sendVars, recvVars,
                   accepted, delivered>>

\* Mutant of DrainEnd: no defer, so a panic ends the drain.
DrainEndNoDefer ==
    /\ phase \in {"draining", "unwinding"}
    /\ phase = "unwinding" \/ Last(headLog) = Last(tailLog)
    /\ phase' = IF phase = "draining" THEN "dropped" ELSE "unwound"
    /\ UNCHANGED <<slots, tailLog, headLog, sender_gone, receiver_gone,
                   sendVars, recvVars, histVars>>

DrainEnd ==
    /\ phase \in {"draining", "unwinding"}
    /\ Last(headLog) = Last(tailLog)
    /\ phase' = IF phase = "draining" THEN "dropped" ELSE "unwound"
    /\ UNCHANGED <<slots, tailLog, headLog, sender_gone, receiver_gone,
                   sendVars, recvVars, histVars>>

-----------------------------------------------------------------------------
\* The steps of an open call: straight-line code, no step waits.
SendStep == SendLoadGone \/ SendLoadHead \/ SendReloadGone \/ SendWrite \/ SendPublish
ReceiveStep == ReceiveLoadTail \/ ReceiveLoadGone \/ ReceiveReloadTail
               \/ ReceiveTake \/ ReceivePublish

Next ==
    \/ Split
    \/ SendBegin \/ SendStep \/ SenderDrop
    \/ ReceiveBegin \/ ReceiveStep \/ ReceiverDrop
    \/ DrainBegin \/ DropQueued \/ DrainEnd

Spec == Init /\ [][Next]_vars

\* A thread inside a call runs on; the receiver polls again while it has not
\* dropped; and a store becomes visible to a thread that keeps loading.
Fairness ==
    /\ WF_vars(SendStep)
    /\ WF_vars(ReceiveStep)
    /\ WF_vars(ReceiveBegin)
    /\ SF_vars(ReceiveLoadTail /\ rKnown' = Len(tailLog))
    /\ SF_vars(ReceiveLoadGone /\ rSawGone' = sender_gone)

FairSpec == Spec /\ Fairness

-----------------------------------------------------------------------------
(* What the ring owes its users. *)

sent == Len(tailLog) - 1       \* stores of tail so far
taken == Len(headLog) - 1      \* stores of head so far

\* "which one endpoint alone may write while the indices say so" (slot_at):
\* the sender writes a slot only when it is empty and every earlier take of it
\* happens before the write, and the receiver takes from a slot only when it
\* is live and the send into it happens before the take.
NoSlotRace ==
    /\ pcS = "write" => /\ slots[sTail].live = 0
                        /\ slots[sTail].took < sKnown
    /\ pcR = "take" => /\ slots[rHead].live = 1
                       /\ slots[rHead].put < rKnown

\* try_send, try_receive and drain together lose nothing, duplicate nothing
\* and keep the order, also when an item's drop panics: what was delivered,
\* then what the ring dropped, is the start of what was accepted.
InOrder ==
    /\ Len(delivered) + Len(dropped) = taken
    /\ taken <= Len(accepted)
    /\ \A k \in 1 .. Len(delivered) : delivered[k] = accepted[k]
    /\ \A k \in 1 .. Len(dropped) : dropped[k] = accepted[Len(delivered) + k]

\* The ring's drop, unwinding included, leaves no live slot behind for the
\* slots' own drop to release a second time.
NothingLeftLive ==
    phase \in {"dropped", "unwound"} =>
        /\ Len(delivered) + Len(dropped) = Len(accepted)
        /\ \A i \in Index : slots[i].live = 0

\* try_receive answers .closed only when the sender has dropped and everything
\* it sent was delivered, even if the last sends and the drop happened between
\* two of its loads.
ClosedMeansDrained ==
    rAnswer = "closed" => sender_gone /\ Len(delivered) = Len(accepted)

\* try_send gives up for want of room only when, by what the sender can know,
\* Capacity items are queued: the spare slot never costs a usable one.
FullMeansFull == pcS = "regone" => sent - (sKnown - 1) = Capacity

\* A receiver that keeps polling try_receive gets every accepted item and learns,
\* although it caches tail, that the sender has dropped.
Delivery ==
    /\ \A n \in 1 .. MaxSends :
          Len(accepted) >= n ~> Len(delivered) >= n \/ receiver_gone
    /\ sender_gone ~> rAnswer = "closed" \/ receiver_gone

-----------------------------------------------------------------------------
(* The inductive invariant.  The k-th send and the k-th take, counted from *)
(* 0, use slot Pos(k).  Live slots are those of the sends `low` to         *)
(* `high - 1`: a slot leaves that window when its item is taken out and    *)
(* enters it when an item is written, each one step before head or tail    *)
(* tells the other thread.                                                 *)

Pos(k) == k % Size

low == IF pcR = "publish" THEN taken + 1 ELSE taken
high == IF pcS = "publish" THEN sent + 1 ELSE sent

\* tail and head step through the slots in order, and each endpoint's own
\* index is what it last stored.
IndicesOK ==
    /\ \A n \in 1 .. Len(tailLog) : tailLog[n] = Pos(n - 1)
    /\ \A n \in 1 .. Len(headLog) : headLog[n] = Pos(n - 1)
    /\ sTail = Pos(sent)
    /\ phase \in {"whole", "split"} => rHead = Pos(taken)
    /\ taken <= sent /\ sent <= taken + Capacity
    /\ Len(accepted) = sent

\* The cached indices are stored ones, recent enough to be told apart from the
\* endpoint's own index.
CachesOK ==
    /\ \E h \in 1 .. sKnown :
        /\ head_seen = Pos(h - 1)
        /\ sent - (h - 1) <= Capacity
        /\ pcS = "regone" => h = sKnown /\ Following(sTail) = head_seen
    /\ pcS \in {"write", "publish"} => Following(sTail) # head_seen
    /\ phase \in {"whole", "split"} =>
        \E t \in 1 .. rKnown : tail_seen = Pos(t - 1) /\ taken <= t - 1
    /\ pcR \in {"take", "publish"} => rHead # tail_seen

\* What each slot holds, and which put and take of it came last.
SlotsOK ==
    /\ \A k \in low .. high - 1 :
        /\ slots[Pos(k)].live = 1
        /\ slots[Pos(k)].put = k + 1
        /\ slots[Pos(k)].item = IF k = sent THEN sItem ELSE accepted[k + 1]
    /\ \A k \in high .. low + Capacity : slots[Pos(k)].live = 0
    /\ \A k \in low .. low + Capacity :
        slots[Pos(k)].took = 0 \/ slots[Pos(k)].took + Size = k + 1
    /\ pcR = "publish" => rItem = accepted[taken + 1]

\* Which calls can be open in which phase, and what has been learnt of drops.
CallsOK ==
    /\ pcS # "idle" => phase = "split" /\ ~sender_gone /\ sItem \in Item
                       /\ Len(accepted) < MaxSends
    /\ pcR # "idle" => phase = "split" /\ ~receiver_gone
    /\ phase = "whole" => ~sender_gone /\ ~receiver_gone
    /\ phase \notin {"whole", "split"} => sender_gone /\ receiver_gone
    /\ phase \in {"whole", "split"} => dropped = <<>>
    /\ phase \in {"dropped", "unwound"} => taken = sent
    /\ rSawGone => sender_gone /\ rKnown = Len(tailLog)
    /\ pcR = "retail" => rSawGone
    /\ rAnswer = "closed" => sender_gone /\ taken = sent /\ dropped = <<>>

Inv == TypeOK /\ IndicesOK /\ CachesOK /\ SlotsOK /\ InOrder /\ CallsOK

-----------------------------------------------------------------------------
\* The ring as a bounded queue: a send takes effect at the store of tail, a
\* receive or a drop at the store of head.
Queue == INSTANCE BoundedQueue WITH
    queue <- SubSeq(accepted, Len(headLog), Len(accepted)),
    senderGone <- sender_gone,
    receiverGone <- receiver_gone,
    sCall <- CASE pcS = "idle" -> "idle"
               [] pcS = "gone" -> IF sLate THEN "late" ELSE "open"
               [] pcS = "regone" -> "saw"
               [] OTHER -> "open",
    rCall <- CASE pcR = "idle" -> "idle"
               [] pcR = "gone" -> "saw"
               [] OTHER -> "open"

=============================================================================
