-------------------------- MODULE AllocatorsProofs --------------------------
(***************************************************************************)
(* Proofs about the allocators: the dispatch, for any providers, program   *)
(* and depth of failing operations, and the arena.                         *)
(***************************************************************************)
EXTENDS MCSequential, SequenceTheorems, WellFoundedInduction, TLAPS

-----------------------------------------------------------------------------
(* The dispatch: the inductive invariant.                                  *)

Steps == {"ask", "failed", "release", "undo", "error"}
Op == [kind : Kinds, a : Dispatch!Handle, step : Steps, asked : Dispatch!Request, error : 0 .. Dispatch!Unsized,
       hooked : BOOLEAN]
Ending == [how : {"running", "panic", "trap", "abort"}, by : Dispatch!Handle, size : 0 .. Dispatch!Unsized,
           asked : Dispatch!Request, a : Dispatch!Handle]
Allocation == [id : 1 .. MaxHanded, by : Provider, handle : Dispatch!Handle, kind : Kinds, early : BOOLEAN]

DispatchTyped ==
    /\ init \in {"idle", "running", "published", "done"}
    /\ selected \in Provider
    /\ refused \in Dispatch!Request
    /\ stack \in Seq(Op) /\ Len(stack) <= MaxDepth
    /\ handed \subseteq Allocation
    /\ ended \in Ending

\* The operation keeps its refusal outside the note: a box while its hooks run, and an
\* Allocator_Error.
Keeps(op) == op.step = "error" \/ (op.step = "undo" /\ ~Dispatch!LeavesNote(op))

\* Operation i of st runs in a hook of a container.
Under(st, i) == i > 1 /\ Dispatch!LeavesNote(st[i - 1])

\* What an operation may tell as its size: Tells, of AllocDispatch, for one operation.
Told(op, under, size) ==
    \/ under /\ op.asked.by = Nil
    \/ size = Dispatch!Owed(op.asked)
    \/ op.hooked /\ size = Dispatch!Unsized

\* An operation knows the request that failed it, and keeps it aside while others run.
OpOK(op, s, under) ==
    /\ op.asked.by # Nil => op.asked.by = (IF op.a = Nil THEN s ELSE op.a) /\ op.asked.size \in 1 .. MaxSize
    /\ op.step = "ask" => op.asked.by = Nil
    /\ Keeps(op) => Told(op, under, op.error)

\* Under a hook's operations every operation is undoing its work, and a container's
\* history says that one of its hooks allocated.
StackIs(st, s) ==
    /\ \A i \in 1 .. Len(st) : OpOK(st[i], s, Under(st, i))
    /\ \A i \in 1 .. Len(st) - 1 : st[i].step = "undo" /\ (Dispatch!LeavesNote(st[i]) => st[i].hooked)
StackOK == StackIs(stack, selected)

\* A note the operation may find: its own refusal, or the one a container lends it.
NoteOf(note, op, under) == note = op.asked \/ (under /\ op.asked.by = Nil)

\* The note's operation: the innermost one, or the one under it while that asks.
NoteIs(st, note) ==
    note.by # Nil =>
        /\ Len(st) > 0 /\ ~Keeps(st[Len(st)])
        /\ st[Len(st)].step # "ask" => NoteOf(note, st[Len(st)], Under(st, Len(st)))
        /\ st[Len(st)].step = "ask" =>
              Under(st, Len(st)) /\ NoteOf(note, st[Len(st) - 1], Under(st, Len(st) - 1))

\* A refusal is still in the note unless the operation keeps it or a hook allocated.
NoteStays(st, note) ==
    LET op == st[Len(st)] IN
    Len(st) > 0 /\ op.step # "ask" /\ ~Keeps(op) /\ ~op.hooked /\ op.asked.by # Nil => note.by # Nil

NoteOK == NoteIs(stack, refused) /\ (Dispatch!Running => NoteStays(stack, refused))

EndingOK ==
    ended.how \in {"panic", "trap"} =>
        /\ Len(stack) > 0 /\ ended.asked = Dispatch!Top.asked
        /\ Told(Dispatch!Top, Under(stack, Len(stack)), ended.size)
        /\ \/ Under(stack, Len(stack)) /\ Dispatch!Top.asked.by = Nil
           \/ ended.by = IF ended.asked.by = Nil THEN ended.a ELSE ended.asked.by

DispatchIndInv == DispatchTyped /\ StackOK /\ NoteOK /\ EndingOK

-----------------------------------------------------------------------------
(* The dispatch: preservation, an action at a time.                        *)

\* What a failing operation changes: itself, and the note.
LEMMA ReplacedTop ==
  ASSUME DispatchTyped, StackOK, stack # <<>>, NEW op \in Op, NEW st, st = Dispatch!ReplaceTop(op)
  PROVE  /\ st \in Seq(Op) /\ Len(st) = Len(stack) /\ Len(st) > 0 /\ st[Len(st)] = op
         /\ \A i \in 1 .. Len(stack) - 1 : st[i] = stack[i]
         /\ \A i \in 1 .. Len(stack) : Under(st, i) = Under(stack, i)
         /\ OpOK(op, selected, Under(stack, Len(stack))) => StackIs(st, selected)
  <1>1. Len(stack) \in Nat \ {0} /\ stack \in Seq(Op)
    BY DEF DispatchTyped
  <1>2. /\ st \in Seq(Op) /\ Len(st) = Len(stack) /\ st[Len(stack)] = op
        /\ \A i \in 1 .. Len(stack) - 1 : st[i] = stack[i]
    BY <1>1 DEF Dispatch!ReplaceTop
  <1>3. ASSUME NEW i \in 1 .. Len(stack) PROVE Under(st, i) = Under(stack, i)
    <2>1. CASE i > 1
      <3>1. i - 1 \in 1 .. Len(stack) - 1
        BY <1>1, <2>1
      <3>2. st[i - 1] = stack[i - 1]
        BY <1>2, <3>1
      <3>. QED  BY <3>2 DEF Under
    <2>2. CASE ~(i > 1)
      BY <2>2 DEF Under
    <2>. QED  BY <2>1, <2>2
  <1>4. ASSUME OpOK(op, selected, Under(stack, Len(stack))) PROVE StackIs(st, selected)
    <2>1. ASSUME NEW i \in 1 .. Len(st) PROVE OpOK(st[i], selected, Under(st, i))
      <3>1. CASE i = Len(stack)
        BY <1>1, <1>2, <1>3, <1>4, <3>1
      <3>2. CASE i # Len(stack)
        <4>1. i \in 1 .. Len(stack) - 1 /\ i \in 1 .. Len(stack)
          BY <1>1, <1>2, <2>1, <3>2
        <4>2. OpOK(stack[i], selected, Under(stack, i))
          BY <4>1 DEF StackOK, StackIs
        <4>. QED  BY <1>2, <1>3, <4>1, <4>2
      <3>. QED  BY <3>1, <3>2
    <2>. QED  BY <1>1, <1>2, <2>1 DEF StackOK, StackIs
  <1>. QED  BY <1>1, <1>2, <1>3, <1>4

\* What an operation that is over leaves: the one under it, which is undoing its work.
LEMMA Popped ==
  ASSUME DispatchTyped, StackOK, stack # <<>>, NEW st, st = Dispatch!Pop
  PROVE  /\ st \in Seq(Op) /\ Len(st) = Len(stack) - 1 /\ Len(stack) \in Nat \ {0}
         /\ \A i \in 1 .. Len(stack) - 1 : st[i] = stack[i]
         /\ \A i \in 1 .. Len(stack) - 1 : Under(st, i) = Under(stack, i)
         /\ StackIs(st, selected)
         /\ Len(st) > 0 => /\ st[Len(st)] = stack[Len(stack) - 1] /\ st[Len(st)].step = "undo"
                           /\ Dispatch!LeavesNote(st[Len(st)]) => st[Len(st)].hooked
  <1>1. Len(stack) \in Nat \ {0} /\ stack \in Seq(Op)
    BY DEF DispatchTyped
  <1>2. /\ st \in Seq(Op) /\ Len(st) = Len(stack) - 1
        /\ \A i \in 1 .. Len(stack) - 1 : st[i] = stack[i]
    <2>1. \A i \in 1 .. Len(stack) - 1 : stack[i] \in Op
      BY <1>1
    <2>2. PICK n : n = Len(stack) - 1
      OBVIOUS
    <2>3. /\ SubSeq(stack, 1, n) \in Seq(Op) /\ Len(SubSeq(stack, 1, n)) = n
          /\ \A i \in 1 .. n : SubSeq(stack, 1, n)[i] = stack[i]
      BY <1>1, <2>1, <2>2, SubSeqProperties
    <2>. QED  BY <2>2, <2>3 DEF Dispatch!Pop
  <1>3. ASSUME NEW i \in 1 .. Len(stack) - 1 PROVE Under(st, i) = Under(stack, i)
    <2>1. CASE i > 1
      <3>1. i - 1 \in 1 .. Len(stack) - 1
        BY <1>1, <2>1
      <3>2. st[i - 1] = stack[i - 1]
        BY <1>2, <3>1
      <3>. QED  BY <3>2 DEF Under
    <2>2. CASE ~(i > 1)
      BY <2>2 DEF Under
    <2>. QED  BY <2>1, <2>2
  <1>4. StackIs(st, selected)
    <2>1. ASSUME NEW i \in 1 .. Len(st) PROVE OpOK(st[i], selected, Under(st, i))
      <3>1. i \in 1 .. Len(stack) - 1 /\ i \in 1 .. Len(stack)
        BY <1>1, <1>2
      <3>2. OpOK(stack[i], selected, Under(stack, i))
        BY <3>1 DEF StackOK, StackIs
      <3>. QED  BY <1>2, <1>3, <3>1, <3>2
    <2>2. ASSUME NEW i \in 1 .. Len(st) - 1
          PROVE  st[i].step = "undo" /\ (Dispatch!LeavesNote(st[i]) => st[i].hooked)
      <3>1. i \in 1 .. Len(stack) - 1 /\ st[i] = stack[i]
        BY <1>1, <1>2
      <3>. QED  BY <3>1 DEF StackOK, StackIs
    <2>. QED  BY <2>1, <2>2 DEF StackIs
  <1>5. ASSUME Len(st) > 0
        PROVE  /\ st[Len(st)] = stack[Len(stack) - 1] /\ st[Len(st)].step = "undo"
               /\ Dispatch!LeavesNote(st[Len(st)]) => st[Len(st)].hooked
    <2>1. Len(st) \in 1 .. Len(stack) - 1 /\ st[Len(st)] = stack[Len(stack) - 1]
      BY <1>1, <1>2, <1>5
    <2>2. /\ stack[Len(stack) - 1].step = "undo"
          /\ Dispatch!LeavesNote(stack[Len(stack) - 1]) => stack[Len(stack) - 1].hooked
      BY <1>2, <2>1 DEF StackOK, StackIs
    <2>. QED  BY <2>1, <2>2
  <1>. QED  BY <1>1, <1>2, <1>3, <1>4, <1>5

\* Provider initialization: no operation is under way when the selection changes.
LEMMA ProvidersInv ==
  ASSUME DispatchIndInv,
         \/ Dispatch!provider_init_begin \/ Dispatch!provider_init_end \/ Dispatch!Reenter
         \/ \E a \in Selections : Dispatch!publish_allocator(a)
  PROVE  DispatchIndInv'
  <1>1. /\ refused' = refused /\ stack' = stack /\ handed' = handed /\ Dispatch!Running
        /\ selected' = selected \/ (stack = <<>> /\ selected' \in Provider)
        /\ init' \in {"idle", "running", "published", "done"}
        /\ ended' = ended \/ ended' = [ended EXCEPT !.how = "abort"]
    BY DispatchAssumption DEF DispatchIndInv, DispatchTyped, Dispatch!provider_init_begin,
       Dispatch!provider_init_end, Dispatch!Reenter, Dispatch!publish_allocator, Dispatch!Aborts,
       Dispatch!ProviderAssumption
  <1>2. ended' \in Ending /\ ended'.how \in {"running", "abort"}
    BY <1>1 DEF DispatchIndInv, DispatchTyped, Ending, Dispatch!Running
  <1>3. DispatchTyped'
    BY <1>1, <1>2 DEF DispatchIndInv, DispatchTyped
  <1>4. StackIs(stack', selected')
    <2>1. CASE stack = <<>>
      BY <1>1, <2>1 DEF StackIs
    <2>2. CASE selected' = selected
      BY <1>1, <2>2 DEF DispatchIndInv, StackOK
    <2>. QED  BY <1>1, <2>1, <2>2
  <1>5. NoteIs(stack', refused') /\ NoteStays(stack', refused')
    BY <1>1 DEF DispatchIndInv, NoteOK
  <1>6. EndingOK'
    BY <1>2 DEF EndingOK
  <1>. QED  BY <1>3, <1>4, <1>5, <1>6 DEF DispatchIndInv, StackOK, NoteOK

\* While the process runs nothing has been reported.
LEMMA StillRunning ==
  ASSUME DispatchTyped', StackIs(stack', selected'), NoteIs(stack', refused'), NoteStays(stack', refused'),
         Dispatch!Running, ended' = ended
  PROVE  DispatchIndInv'
  <1>1. ended'.how = "running"
    BY DEF Dispatch!Running
  <1>2. EndingOK'
    BY <1>1 DEF EndingOK
  <1>. QED  BY <1>2 DEF DispatchIndInv, StackOK, NoteOK

\* The provider an operation asks is one.
LEMMA AsksProvider ==
  ASSUME DispatchTyped, stack # <<>>
  PROVE  /\ Dispatch!Top \in Op /\ Dispatch!Asks \in Provider /\ Dispatch!Asks # Nil
         /\ Dispatch!Asks = (IF Dispatch!Top.a = Nil THEN selected ELSE Dispatch!Top.a)
         /\ Len(stack) \in Nat \ {0} /\ Dispatch!Top = stack[Len(stack)]
  <1>1. Dispatch!Top \in Op /\ Len(stack) \in Nat \ {0} /\ Dispatch!Top = stack[Len(stack)]
    BY DEF DispatchTyped, Dispatch!Top
  <1>. QED  BY <1>1, DispatchAssumption
            DEF DispatchTyped, Op, Dispatch!Asks, Dispatch!resolve, Dispatch!Handle, Dispatch!ProviderAssumption

\* The innermost operation is as it should be.
LEMMA TopOK ==
  ASSUME DispatchTyped, StackOK, stack # <<>>
  PROVE  OpOK(Dispatch!Top, selected, Under(stack, Len(stack)))
  <1>1. Len(stack) \in 1 .. Len(stack)
    BY DEF DispatchTyped
  <1>. QED  BY <1>1 DEF StackOK, StackIs, Dispatch!Top

\* The operation a hook starts in has allocated from its hook: nothing else of it changes.
LEMMA HookedIs ==
  ASSUME DispatchTyped, StackOK, stack # <<>>, Dispatch!Top.step = "undo"
  PROVE  \E op \in Op :
            /\ op.step = "undo" /\ op.kind = Dispatch!Top.kind /\ op.asked = Dispatch!Top.asked
            /\ op.a = Dispatch!Top.a
            /\ Dispatch!LeavesNote(op) = Dispatch!LeavesNote(Dispatch!Top)
            /\ Dispatch!LeavesNote(op) => op.hooked
            /\ Dispatch!Hooked = Dispatch!ReplaceTop(op)
            /\ OpOK(op, selected, Under(stack, Len(stack)))
  <1>1. Dispatch!Top \in Op /\ OpOK(Dispatch!Top, selected, Under(stack, Len(stack)))
    BY AsksProvider, TopOK
  <1>2. CASE Dispatch!LeavesNote(Dispatch!Top)
    <2>1. PICK op : op = [Dispatch!Top EXCEPT !.hooked = TRUE]
      OBVIOUS
    <2>2. /\ op \in Op /\ op.hooked /\ op.step = "undo" /\ op.kind = Dispatch!Top.kind
          /\ op.asked = Dispatch!Top.asked /\ op.a = Dispatch!Top.a
      BY <1>1, <2>1 DEF Op
    <2>3. Dispatch!LeavesNote(op)
      BY <1>2, <2>2 DEF Dispatch!LeavesNote
    <2>4. OpOK(op, selected, Under(stack, Len(stack)))
      BY <1>1, <2>2, <2>3 DEF OpOK, Keeps
    <2>5. Dispatch!Hooked = Dispatch!ReplaceTop(op)
      BY <1>2, <2>1 DEF Dispatch!Hooked
    <2>. QED  BY <1>2, <2>2, <2>3, <2>4, <2>5
  <1>3. CASE ~Dispatch!LeavesNote(Dispatch!Top)
    <2>1. stack = Dispatch!ReplaceTop(Dispatch!Top)
      BY DEF DispatchTyped, Dispatch!ReplaceTop, Dispatch!Top
    <2>2. Dispatch!Hooked = Dispatch!ReplaceTop(Dispatch!Top)
      BY <1>3, <2>1 DEF Dispatch!Hooked
    <2>. QED  BY <1>1, <1>3, <2>2
  <1>. QED  BY <1>2, <1>3

\* An operation starts with nothing asked for, in the program or in a hook.
LEMMA StartInv ==
  ASSUME DispatchIndInv, NEW kind \in Kinds, NEW a \in Dispatch!Handle, Dispatch!Start(kind, a)
  PROVE  DispatchIndInv'
  <1>1. UNCHANGED <<init, selected, refused, handed, ended>> /\ Dispatch!Running
    BY DEF Dispatch!Start
  <1>2. PICK new \in Op : stack' = Append(Dispatch!Hooked, new) /\ new.step = "ask" /\ new.asked.by = Nil
    <2>1. (IF kind = "grow" THEN Dispatch!dyn_bind(a) ELSE a) \in Dispatch!Handle
      BY DEF DispatchIndInv, DispatchTyped, Dispatch!dyn_bind, Dispatch!Handle
    <2>2. Dispatch!NoRequest \in Dispatch!Request /\ Dispatch!NoRequest.by = Nil /\ 0 \in 0 .. Dispatch!Unsized
      BY DispatchAssumption DEF Dispatch!NoRequest, Dispatch!Request, Dispatch!Handle, Dispatch!Unsized,
         Dispatch!ProviderAssumption
    <2>3. PICK new : new = [kind |-> kind, a |-> IF kind = "grow" THEN Dispatch!dyn_bind(a) ELSE a, step |-> "ask",
                            asked |-> Dispatch!NoRequest, error |-> 0, hooked |-> FALSE]
      OBVIOUS
    <2>4. new \in Op
      BY <2>1, <2>2, <2>3 DEF Op, Steps
    <2>5. new.step = "ask" /\ new.asked.by = Nil
      BY <2>2, <2>3
    <2>6. stack' = Append(Dispatch!Hooked, new)
      BY <2>3 DEF Dispatch!Start
    <2>. QED  BY <2>4, <2>5, <2>6
  <1>3. /\ Len(stack) < MaxDepth /\ (stack # <<>> => Dispatch!Top.step = "undo") /\ Len(stack) \in Nat
        /\ DispatchTyped /\ StackOK /\ MaxDepth \in Nat /\ stack \in Seq(Op)
    BY DispatchAssumption DEF Dispatch!Start, DispatchIndInv, DispatchTyped, Dispatch!ProviderAssumption
  <1>4. OpOK(new, selected, TRUE) /\ OpOK(new, selected, FALSE) /\ ~Keeps(new)
    BY <1>2 DEF OpOK, Keeps
  <1>7. new.step = "ask"
    BY <1>2
  <1>5. CASE stack = <<>>
    <2>1. stack' = <<new>> /\ refused.by = Nil
      BY <1>2, <1>5 DEF Dispatch!Hooked, DispatchIndInv, NoteOK, NoteIs
    <2>2. DispatchTyped'
      BY <1>1, <1>2, <1>3, <1>5, <2>1 DEF DispatchTyped
    <2>3. StackIs(stack', selected')
      <3>1. Under(stack', 1) = FALSE
        BY DEF Under
      <3>2. Len(stack') = 1 /\ stack'[1] = new
        BY <2>1
      <3>3. OpOK(stack'[1], selected', Under(stack', 1))
        BY <1>1, <1>4, <3>1, <3>2
      <3>4. ASSUME NEW i \in 1 .. Len(stack') PROVE i = 1
        BY <3>2
      <3>5. 1 .. Len(stack') - 1 = {}
        BY <3>2
      <3>. QED  BY <3>3, <3>4, <3>5 DEF StackIs
    <2>4. NoteIs(stack', refused') /\ NoteStays(stack', refused')
      BY <1>1, <1>2, <2>1 DEF NoteIs, NoteStays
    <2>. QED  BY <1>1, <2>2, <2>3, <2>4, StillRunning
  <1>6. CASE stack # <<>>
    <2>1. PICK op \in Op :
            /\ op.step = "undo" /\ op.kind = Dispatch!Top.kind /\ op.asked = Dispatch!Top.asked
            /\ Dispatch!LeavesNote(op) = Dispatch!LeavesNote(Dispatch!Top)
            /\ Dispatch!LeavesNote(op) => op.hooked
            /\ Dispatch!Hooked = Dispatch!ReplaceTop(op)
            /\ OpOK(op, selected, Under(stack, Len(stack)))
      BY <1>3, <1>6, HookedIs
    <2>2. PICK st : st = Dispatch!ReplaceTop(op)
      OBVIOUS
    <2>3. /\ st \in Seq(Op) /\ Len(st) = Len(stack) /\ Len(st) > 0 /\ st[Len(st)] = op
          /\ \A i \in 1 .. Len(stack) - 1 : st[i] = stack[i]
          /\ \A i \in 1 .. Len(stack) : Under(st, i) = Under(stack, i)
          /\ StackIs(st, selected)
      BY <1>3, <1>6, <2>1, <2>2, ReplacedTop
    <2>4. /\ stack' \in Seq(Op) /\ Len(stack') = Len(stack) + 1 /\ stack'[Len(stack) + 1] = new
          /\ \A i \in 1 .. Len(stack) : stack'[i] = st[i]
      <3>1. stack' = Append(st, new)
        BY <1>2, <2>1, <2>2
      <3>. QED  BY <1>3, <2>3, <3>1
    <2>5. /\ Len(stack) \in 1 .. Len(stack) /\ Len(stack') = Len(stack) + 1 /\ Len(stack') - 1 = Len(stack)
          /\ stack'[Len(stack')] = new /\ stack'[Len(stack') - 1] = op
      BY <1>3, <1>6, <2>3, <2>4
    <2>6. ASSUME NEW i \in 1 .. Len(stack) PROVE Under(stack', i) = Under(st, i)
      <3>1. CASE i > 1
        <4>1. i - 1 \in 1 .. Len(stack)
          BY <1>3, <3>1
        <4>2. stack'[i - 1] = st[i - 1]
          BY <2>4, <4>1
        <4>. QED  BY <4>2 DEF Under
      <3>2. CASE ~(i > 1)
        BY <3>2 DEF Under
      <3>. QED  BY <3>1, <3>2
    <2>7. DispatchTyped'
      BY <1>1, <1>3, <2>4 DEF DispatchTyped
    <2>8. StackIs(stack', selected')
      <3>1. ASSUME NEW i \in 1 .. Len(stack') PROVE OpOK(stack'[i], selected, Under(stack', i))
        <4>1. CASE i = Len(stack')
          <5>1. Under(stack', i) \in BOOLEAN
            BY DEF Under, Dispatch!LeavesNote
          <5>. QED  BY <1>4, <2>5, <4>1, <5>1
        <4>2. CASE i # Len(stack')
          <5>1. i \in 1 .. Len(stack) /\ i \in 1 .. Len(st)
            BY <1>3, <2>3, <2>4, <3>1, <4>2
          <5>2. OpOK(st[i], selected, Under(st, i))
            BY <2>3, <5>1 DEF StackIs
          <5>. QED  BY <2>4, <2>6, <5>1, <5>2
        <4>. QED  BY <4>1, <4>2
      <3>2. ASSUME NEW i \in 1 .. Len(stack') - 1
            PROVE  stack'[i].step = "undo" /\ (Dispatch!LeavesNote(stack'[i]) => stack'[i].hooked)
        <4>1. i \in 1 .. Len(stack) /\ stack'[i] = st[i]
          BY <1>3, <2>4, <3>2
        <4>2. CASE i = Len(stack)
          BY <2>1, <2>3, <4>1, <4>2
        <4>3. CASE i # Len(stack)
          <5>1. i \in 1 .. Len(st) - 1
            BY <1>3, <2>3, <4>1, <4>3
          <5>. QED  BY <2>3, <4>1, <5>1 DEF StackIs
        <4>. QED  BY <4>2, <4>3
      <3>. QED  BY <1>1, <3>1, <3>2 DEF StackIs
    <2>9. NoteIs(stack', refused')
      <3>. SUFFICES ASSUME refused.by # Nil PROVE NoteIs(stack', refused')
        BY <1>1 DEF NoteIs
      <3>1. ~Keeps(Dispatch!Top) /\ NoteOf(refused, Dispatch!Top, Under(stack, Len(stack)))
        BY <1>3, <1>6 DEF DispatchIndInv, NoteOK, NoteIs, Dispatch!Top
      <3>2. Dispatch!LeavesNote(op)
        BY <1>3, <1>6, <2>1, <3>1 DEF Keeps
      <3>3. Under(stack', Len(stack'))
        BY <1>3, <1>6, <2>5, <3>2 DEF Under
      <3>4. Under(stack', Len(stack') - 1) = Under(stack, Len(stack))
        BY <2>3, <2>5, <2>6
      <3>5. NoteOf(refused, stack'[Len(stack') - 1], Under(stack', Len(stack') - 1))
        BY <2>1, <2>5, <3>1, <3>4 DEF NoteOf
      <3>6. Len(stack') > 0
        BY <1>3, <2>5
      <3>7. ~Keeps(stack'[Len(stack')]) /\ stack'[Len(stack')].step = "ask" /\ refused' = refused
        BY ONLY <1>1, <1>4, <1>7, <2>5, Zenon
      <3>. QED  BY <3>3, <3>5, <3>6, <3>7 DEF NoteIs
    <2>10. NoteStays(stack', refused')
      <3>1. stack'[Len(stack')].step = "ask"
        BY ONLY <1>7, <2>5, Zenon
      <3>. QED  BY <3>1 DEF NoteStays
    <2>. QED  BY <1>1, <2>7, <2>8, <2>9, <2>10, StillRunning
  <1>. QED  BY <1>5, <1>6

\* What a provider's answer leaves in the note, whether the arena asked its parent
\* first or not: the last request's, or nothing.
LEMMA AskedIs ==
  ASSUME NEW a, NEW size, NEW ok \in BOOLEAN, NEW grows \in BOOLEAN
  PROVE  Dispatch!Asked(a, size, ok, grows) = [by |-> IF ok THEN Nil ELSE a, size |-> size]
  BY DEF Dispatch!Asked, Dispatch!note_request

\* An operation that is over leaves the one under it no worse note than it found.
LEMMA PoppedNote ==
  ASSUME DispatchIndInv, stack # <<>>, NEW st, st = Dispatch!Pop, NEW note,
         note.by = Nil \/ (note = refused /\ Dispatch!Top.step = "ask")
  PROVE  NoteIs(st, note) /\ NoteStays(st, note)
  <1>1. /\ st \in Seq(Op) /\ Len(st) = Len(stack) - 1 /\ Len(stack) \in Nat \ {0}
        /\ \A i \in 1 .. Len(stack) - 1 : Under(st, i) = Under(stack, i)
        /\ Len(st) > 0 => /\ st[Len(st)] = stack[Len(stack) - 1] /\ st[Len(st)].step = "undo"
                          /\ Dispatch!LeavesNote(st[Len(st)]) => st[Len(st)].hooked
    BY Popped DEF DispatchIndInv
  <1>2. NoteStays(st, note)
    BY <1>1 DEF NoteStays, Keeps
  <1>3. ASSUME note.by # Nil PROVE NoteIs(st, note)
    <2>1. note = refused /\ stack[Len(stack)].step = "ask" /\ NoteIs(stack, refused)
      BY <1>3 DEF Dispatch!Top, DispatchIndInv, NoteOK
    <2>2. Under(stack, Len(stack)) /\ NoteOf(note, stack[Len(stack) - 1], Under(stack, Len(stack) - 1))
      BY <1>3, <2>1 DEF NoteIs
    <2>3. Len(st) > 0 /\ Dispatch!LeavesNote(stack[Len(stack) - 1]) /\ Len(st) \in 1 .. Len(stack) - 1
      BY <1>1, <2>2 DEF Under
    <2>4. NoteOf(note, st[Len(st)], Under(st, Len(st)))
      BY <1>1, <2>2, <2>3
    <2>5. ~Keeps(st[Len(st)]) /\ st[Len(st)].step # "ask"
      BY <1>1, <2>3 DEF Keeps
    <2>. QED  BY <2>3, <2>4, <2>5 DEF NoteIs
  <1>4. note.by = Nil => NoteIs(st, note)
    BY DEF NoteIs
  <1>. QED  BY <1>2, <1>3, <1>4

\* A request that succeeds leaves no note.
LEMMA AllocatesInv ==
  ASSUME DispatchIndInv, NEW size \in 0 .. MaxSize, NEW grows \in BOOLEAN, Dispatch!Allocates(size, grows)
  PROVE  DispatchIndInv'
  <1>1. /\ stack # <<>> /\ Dispatch!Top.step = "ask" /\ stack' = Dispatch!Pop /\ Dispatch!Running
        /\ UNCHANGED <<init, selected, ended>>
        /\ refused' = IF size = 0 THEN refused ELSE Dispatch!Asked(Dispatch!Asks, size, TRUE, grows)
    BY DEF Dispatch!Allocates
  <1>2. refused' \in Dispatch!Request /\ (refused'.by = Nil \/ refused' = refused)
    <2>1. CASE size = 0
      BY <1>1, <2>1 DEF DispatchIndInv, DispatchTyped
    <2>2. CASE size # 0
      <3>1. refused' = [by |-> Nil, size |-> size]
        BY <1>1, <2>2, AskedIs
      <3>. QED  BY <3>1, DispatchAssumption
                DEF Dispatch!Request, Dispatch!Handle, Dispatch!Unsized, Dispatch!ProviderAssumption
    <2>. QED  BY <2>1, <2>2
  <1>3. handed' \subseteq Allocation
    <2>1. /\ Dispatch!Asks \in Provider /\ Dispatch!Top.a \in Dispatch!Handle /\ Dispatch!Top.kind \in Kinds
          /\ (init = "running") \in BOOLEAN
      BY <1>1, AsksProvider DEF DispatchIndInv, Op
    <2>2. handed \subseteq Allocation
      BY DEF DispatchIndInv, DispatchTyped
    <2>3. CASE size = 0
      BY <2>2, <2>3 DEF Dispatch!Allocates
    <2>4. CASE size # 0
      <3>1. PICK id \in 1 .. MaxHanded :
               handed' = handed \cup {[id |-> id, by |-> Dispatch!Asks, handle |-> Dispatch!Top.a,
                                       kind |-> Dispatch!Top.kind, early |-> init = "running"]}
        BY <2>4 DEF Dispatch!Allocates
      <3>2. PICK early \in BOOLEAN : early = (init = "running")
        BY <2>1
      <3>3. [id |-> id, by |-> Dispatch!Asks, handle |-> Dispatch!Top.a, kind |-> Dispatch!Top.kind, early |-> early]
               \in Allocation
        BY <2>1 DEF Allocation
      <3>. QED  BY ONLY <2>2, <3>1, <3>2, <3>3, Zenon
    <2>. QED  BY <2>3, <2>4
  <1>4. stack' \in Seq(Op) /\ Len(stack') <= MaxDepth /\ StackIs(stack', selected')
    <2>1. Len(stack) <= MaxDepth /\ MaxDepth \in Nat
      BY DispatchAssumption DEF DispatchIndInv, DispatchTyped, Dispatch!ProviderAssumption
    <2>. QED  BY <1>1, <2>1, Popped DEF DispatchIndInv
  <1>5. DispatchTyped'
    BY <1>1, <1>2, <1>3, <1>4 DEF DispatchIndInv, DispatchTyped
  <1>6. NoteIs(stack', refused') /\ NoteStays(stack', refused')
    BY <1>1, <1>2, PoppedNote
  <1>. QED  BY <1>1, <1>4, <1>5, <1>6, StillRunning

\* A step of the innermost operation that keeps the note in step with it.
LEMMA FailingStep ==
  ASSUME DispatchIndInv, stack # <<>>, Dispatch!Running, UNCHANGED <<init, selected, handed, ended>>,
         NEW op \in Op, stack' = Dispatch!ReplaceTop(op), op.step # "ask",
         OpOK(op, selected, Under(stack, Len(stack))), refused' \in Dispatch!Request,
         refused'.by # Nil => ~Keeps(op) /\ NoteOf(refused', op, Under(stack, Len(stack))),
         ~Keeps(op) /\ ~op.hooked /\ op.asked.by # Nil => refused'.by # Nil
  PROVE  DispatchIndInv'
  <1>1. /\ stack' \in Seq(Op) /\ Len(stack') = Len(stack) /\ Len(stack') > 0 /\ stack'[Len(stack')] = op
        /\ \A i \in 1 .. Len(stack) : Under(stack', i) = Under(stack, i)
        /\ StackIs(stack', selected')
    BY ReplacedTop DEF DispatchIndInv
  <1>2. DispatchTyped'
    BY <1>1 DEF DispatchIndInv, DispatchTyped
  <1>3. Len(stack) \in 1 .. Len(stack)
    BY <1>1 DEF DispatchIndInv, DispatchTyped
  <1>4. Under(stack', Len(stack')) = Under(stack, Len(stack))
    BY <1>1, <1>3
  <1>5. NoteIs(stack', refused')
    BY <1>1, <1>4 DEF NoteIs
  <1>6. NoteStays(stack', refused')
    BY <1>1 DEF NoteStays
  <1>. QED  BY <1>1, <1>2, <1>5, <1>6, StillRunning

\* A failing operation that changes nothing but its step.
LEMMA FailedIs ==
  ASSUME DispatchTyped, stack # <<>>, NEW step \in Steps, NEW op, op = [Dispatch!Top EXCEPT !.step = step]
  PROVE  /\ op \in Op /\ op.asked = Dispatch!Top.asked /\ op.a = Dispatch!Top.a /\ op.kind = Dispatch!Top.kind
         /\ op.hooked = Dispatch!Top.hooked /\ op.error = Dispatch!Top.error /\ op.step = step
         /\ Dispatch!LeavesNote(op) = Dispatch!LeavesNote(Dispatch!Top)
  <1>1. Dispatch!Top \in Op
    BY AsksProvider
  <1>2. /\ op \in Op /\ op.asked = Dispatch!Top.asked /\ op.a = Dispatch!Top.a /\ op.kind = Dispatch!Top.kind
        /\ op.hooked = Dispatch!Top.hooked /\ op.error = Dispatch!Top.error /\ op.step = step
    BY <1>1 DEF Op
  <1>. QED  BY <1>2 DEF Dispatch!LeavesNote

\* A refused request is noted, and is the one that fails the operation.
LEMMA RefusedInv ==
  ASSUME DispatchIndInv, NEW size \in 1 .. MaxSize, NEW grows \in BOOLEAN, Dispatch!Refused(size, grows)
  PROVE  DispatchIndInv'
  <1>1. /\ stack # <<>> /\ Dispatch!Running /\ UNCHANGED <<init, selected, handed, ended>>
        /\ refused' = Dispatch!Asked(Dispatch!Asks, size, FALSE, grows)
        /\ stack' = Dispatch!ReplaceTop([Dispatch!Top EXCEPT !.step = Dispatch!Fails(Dispatch!Top),
                                                             !.asked = [by |-> Dispatch!Asks, size |-> size]])
    BY DEF Dispatch!Refused
  <1>2. PICK asked : asked = [by |-> Dispatch!Asks, size |-> size]
    OBVIOUS
  <1>3. refused' = asked /\ asked.by # Nil /\ asked.by = Dispatch!Asks /\ asked.size = size
    BY <1>1, <1>2, AskedIs, AsksProvider DEF DispatchIndInv
  <1>4. asked \in Dispatch!Request
    BY <1>1, <1>2, AsksProvider, DispatchAssumption
       DEF DispatchIndInv, Dispatch!Request, Dispatch!Handle, Dispatch!Unsized, Dispatch!ProviderAssumption
  <1>5. PICK op : op = [Dispatch!Top EXCEPT !.step = Dispatch!Fails(Dispatch!Top), !.asked = asked]
    OBVIOUS
  <1>6. op \in Op /\ op.asked = asked /\ op.a = Dispatch!Top.a /\ op.step \in {"failed", "release"}
    <2>1. Dispatch!Top \in Op
      BY <1>1, AsksProvider DEF DispatchIndInv
    <2>2. Dispatch!Fails(Dispatch!Top) \in {"failed", "release"}
      BY DEF Dispatch!Fails
    <2>. QED  BY <1>4, <1>5, <2>1, <2>2 DEF Op, Steps
  <1>7. ~Keeps(op) /\ op.step # "ask"
    BY <1>6 DEF Keeps
  <1>8. OpOK(op, selected, Under(stack, Len(stack)))
    BY <1>1, <1>3, <1>6, <1>7, AsksProvider DEF OpOK, DispatchIndInv
  <1>9. NoteOf(refused', op, Under(stack, Len(stack)))
    BY <1>3, <1>6 DEF NoteOf
  <1>. QED  BY <1>1, <1>2, <1>3, <1>4, <1>5, <1>6, <1>7, <1>8, <1>9, FailingStep

\* An operation that fails without a request leaves the note as it found it.
LEMMA FailsUnaskedInv ==
  ASSUME DispatchIndInv, Dispatch!FailsUnasked
  PROVE  DispatchIndInv'
  <1>1. /\ stack # <<>> /\ Dispatch!Top.step = "ask" /\ UNCHANGED <<init, selected, refused, handed, ended>>
        /\ stack' = Dispatch!ReplaceTop([Dispatch!Top EXCEPT !.step = Dispatch!Fails(Dispatch!Top)])
        /\ Dispatch!Running
    BY DEF Dispatch!FailsUnasked
  <1>2. PICK op : op = [Dispatch!Top EXCEPT !.step = Dispatch!Fails(Dispatch!Top)]
    OBVIOUS
  <1>3. Dispatch!Fails(Dispatch!Top) \in {"failed", "release"}
    BY DEF Dispatch!Fails
  <1>4. op \in Op /\ op.asked = Dispatch!Top.asked /\ op.step \in {"failed", "release"}
    BY <1>1, <1>2, <1>3, FailedIs DEF DispatchIndInv, Steps
  <1>5. Dispatch!Top.asked.by = Nil /\ refused' \in Dispatch!Request
    BY <1>1, TopOK DEF DispatchIndInv, DispatchTyped, OpOK
  <1>6. ~Keeps(op) /\ op.step # "ask"
    BY <1>4 DEF Keeps
  <1>7. OpOK(op, selected, Under(stack, Len(stack)))
    BY <1>4, <1>5, <1>6 DEF OpOK
  <1>8. refused'.by # Nil => NoteOf(refused', op, Under(stack, Len(stack)))
    <2>1. refused.by # Nil => Under(stack, Len(stack))
      BY <1>1 DEF DispatchIndInv, NoteOK, NoteIs, Dispatch!Top
    <2>. QED  BY <1>1, <1>4, <1>5, <2>1 DEF NoteOf
  <1>. QED  BY <1>1, <1>2, <1>4, <1>5, <1>6, <1>7, <1>8, FailingStep

\* What a failing operation takes out of the note is what it may tell.
LEMMA TakesTold ==
  ASSUME DispatchIndInv, Dispatch!Running, stack # <<>>, Dispatch!Top.step # "ask", ~Keeps(Dispatch!Top)
  PROVE  /\ Told(Dispatch!Top, Under(stack, Len(stack)), Dispatch!take_refusal)
         /\ Dispatch!take_refusal \in 0 .. Dispatch!Unsized
         /\ Dispatch!Taken \in Dispatch!Request /\ Dispatch!Taken.by = Nil
  <1>1. refused.by # Nil => NoteOf(refused, Dispatch!Top, Under(stack, Len(stack)))
    BY DEF DispatchIndInv, NoteOK, NoteIs, Dispatch!Top
  <1>2. Dispatch!Top.asked.by # Nil /\ ~Dispatch!Top.hooked => refused.by # Nil
    <2>1. NoteStays(stack, refused) /\ Len(stack) > 0 /\ Dispatch!Top = stack[Len(stack)]
      BY AsksProvider DEF DispatchIndInv, NoteOK
    <2>. QED  BY <2>1 DEF NoteStays
  <1>3. refused \in Dispatch!Request
    BY DEF DispatchIndInv, DispatchTyped
  <1>4. Dispatch!Unsized \in Nat /\ Nil \in Dispatch!Handle
    BY DispatchAssumption DEF Dispatch!Unsized, Dispatch!Handle, Dispatch!ProviderAssumption
  <1>5. Dispatch!take_refusal \in 0 .. Dispatch!Unsized
    BY <1>3, <1>4 DEF Dispatch!take_refusal, Dispatch!Request
  <1>6. Dispatch!Taken \in Dispatch!Request /\ Dispatch!Taken.by = Nil
    BY <1>3, <1>4 DEF Dispatch!Taken, Dispatch!Request
  <1>7. Told(Dispatch!Top, Under(stack, Len(stack)), Dispatch!take_refusal)
    <2>1. CASE refused.by # Nil
      BY <1>1, <2>1 DEF NoteOf, Told, Dispatch!take_refusal, Dispatch!Owed
    <2>2. CASE refused.by = Nil
      BY <1>2, <2>2 DEF Told, Dispatch!take_refusal, Dispatch!Owed
    <2>. QED  BY <2>1, <2>2
  <1>. QED  BY <1>5, <1>6, <1>7

\* What an operation restores into the note is its own refusal, or one lent to it.
LEMMA RestoresAsked ==
  ASSUME DispatchIndInv, stack # <<>>, Keeps(Dispatch!Top)
  PROVE  LET note == Dispatch!restore_refusal(Dispatch!Top.a, Dispatch!Top.error) IN
         /\ note \in Dispatch!Request
         /\ note.by # Nil => NoteOf(note, Dispatch!Top, Under(stack, Len(stack)))
         /\ ~Dispatch!Top.hooked /\ Dispatch!Top.asked.by # Nil => note.by # Nil
  <1>1. PICK op \in Op : op = Dispatch!Top
    BY AsksProvider DEF DispatchIndInv
  <1>2. PICK under : under = Under(stack, Len(stack))
    OBVIOUS
  <1>3. OpOK(op, selected, under) /\ Told(op, under, op.error)
    BY <1>1, <1>2, TopOK DEF DispatchIndInv, OpOK
  <1>4. PICK a \in Provider : a # Nil /\ a = Dispatch!resolve(op.a) /\ a = (IF op.a = Nil THEN selected ELSE op.a)
    BY <1>1, AsksProvider DEF DispatchIndInv, Dispatch!Asks
  <1>5. PICK note : note = Dispatch!restore_refusal(op.a, op.error)
    OBVIOUS
  <1>6. note = [by |-> IF op.error \in {0, Dispatch!Unsized} THEN Nil ELSE a, size |-> op.error]
    BY <1>4, <1>5 DEF Dispatch!restore_refusal
  <1>7. /\ MaxSize \in Nat /\ Dispatch!Unsized = MaxSize + 1 /\ op.asked \in Dispatch!Request
        /\ op.error \in 0 .. Dispatch!Unsized /\ Nil \in Dispatch!Handle /\ a \in Dispatch!Handle
    BY DispatchAssumption DEF Dispatch!Unsized, Op, Dispatch!ProviderAssumption, Dispatch!Handle
  <1>8. note \in Dispatch!Request
    BY <1>6, <1>7 DEF Dispatch!Request
  <1>9. ASSUME op.asked.by # Nil, op.error = op.asked.size PROVE note = op.asked /\ note.by # Nil
    <2>1. op.asked.by = a /\ op.asked.size \in 1 .. MaxSize
      BY <1>3, <1>4, <1>9 DEF OpOK
    <2>2. note = [by |-> a, size |-> op.asked.size]
      BY <1>6, <1>7, <1>9, <2>1
    <2>. QED  BY <1>4, <1>7, <2>1, <2>2 DEF Dispatch!Request
  <1>10. ASSUME note.by # Nil PROVE NoteOf(note, op, under)
    <2>1. op.error # Dispatch!Unsized
      BY <1>6, <1>10
    <2>2. (under /\ op.asked.by = Nil) \/ op.error = Dispatch!Owed(op.asked)
      BY <1>3, <2>1 DEF Told
    <2>3. CASE under /\ op.asked.by = Nil
      BY <2>3 DEF NoteOf
    <2>4. CASE op.error = Dispatch!Owed(op.asked)
      BY <1>9, <2>1, <2>4 DEF NoteOf, Dispatch!Owed
    <2>. QED  BY <2>2, <2>3, <2>4
  <1>11. ASSUME ~op.hooked, op.asked.by # Nil PROVE note.by # Nil
    BY <1>3, <1>9, <1>11 DEF Told, Dispatch!Owed
  <1>. QED  BY <1>1, <1>2, <1>5, <1>8, <1>10, <1>11

\* A step in which the innermost operation takes its refusal aside.
LEMMA TakesAside ==
  ASSUME DispatchIndInv, Dispatch!Running, stack # <<>>, UNCHANGED <<init, selected, handed, ended>>,
         Dispatch!Top.step # "ask", ~Keeps(Dispatch!Top), NEW step \in {"undo", "error"},
         step = "undo" => ~Dispatch!LeavesNote(Dispatch!Top),
         stack' = Dispatch!ReplaceTop([Dispatch!Top EXCEPT !.step = step, !.error = Dispatch!take_refusal]),
         refused' = Dispatch!Taken
  PROVE  DispatchIndInv'
  <1>1. PICK op : op = [Dispatch!Top EXCEPT !.step = step, !.error = Dispatch!take_refusal]
    OBVIOUS
  <1>2. /\ Told(Dispatch!Top, Under(stack, Len(stack)), Dispatch!take_refusal)
        /\ Dispatch!take_refusal \in 0 .. Dispatch!Unsized
        /\ Dispatch!Taken \in Dispatch!Request /\ Dispatch!Taken.by = Nil
    BY TakesTold
  <1>3. /\ op \in Op /\ op.asked = Dispatch!Top.asked /\ op.a = Dispatch!Top.a
        /\ op.hooked = Dispatch!Top.hooked /\ op.error = Dispatch!take_refusal /\ op.step = step
        /\ Dispatch!LeavesNote(op) = Dispatch!LeavesNote(Dispatch!Top)
    <2>1. step \in Steps /\ DispatchTyped /\ stack # <<>>
      BY DEF Steps, DispatchIndInv
    <2>2. PICK error \in 0 .. Dispatch!Unsized : error = Dispatch!take_refusal
      BY <1>2
    <2>3. op = [Dispatch!Top EXCEPT !.step = step, !.error = error]
      BY <1>1, <2>2
    <2>4. /\ op \in Op /\ op.asked = Dispatch!Top.asked /\ op.a = Dispatch!Top.a
          /\ op.hooked = Dispatch!Top.hooked /\ op.error = error /\ op.step = step
          /\ Dispatch!LeavesNote(op) = Dispatch!LeavesNote(Dispatch!Top)
      <3>1. Dispatch!Top \in Op
        BY <2>1, AsksProvider
      <3>2. op \in Op /\ op.asked = Dispatch!Top.asked /\ op.a = Dispatch!Top.a /\ op.kind = Dispatch!Top.kind
            /\ op.hooked = Dispatch!Top.hooked /\ op.error = error /\ op.step = step
        BY ONLY <2>1, <2>2, <2>3, <3>1 DEF Op
      <3>. QED  BY <3>2 DEF Dispatch!LeavesNote
    <2>. QED  BY <2>2, <2>4
  <1>4. OpOK(Dispatch!Top, selected, Under(stack, Len(stack)))
    BY TopOK DEF DispatchIndInv
  <1>5. Keeps(op) /\ op.step # "ask"
    BY <1>3 DEF Keeps
  <1>6. Told(op, Under(stack, Len(stack)), op.error)
    BY <1>2, <1>3 DEF Told
  <1>7. OpOK(op, selected, Under(stack, Len(stack)))
    BY <1>3, <1>4, <1>5, <1>6 DEF OpOK
  <1>. QED  BY <1>1, <1>2, <1>3, <1>5, <1>7, FailingStep

\* A step in which what the innermost operation kept comes back into the note.
LEMMA BringsBack ==
  ASSUME DispatchIndInv, Dispatch!Running, stack # <<>>, UNCHANGED <<init, selected, handed, ended>>,
         Keeps(Dispatch!Top), stack' = Dispatch!ReplaceTop([Dispatch!Top EXCEPT !.step = "failed"]),
         refused' = Dispatch!restore_refusal(Dispatch!Top.a, Dispatch!Top.error)
  PROVE  DispatchIndInv'
  <1>1. PICK op : op = [Dispatch!Top EXCEPT !.step = "failed"]
    OBVIOUS
  <1>2. /\ op \in Op /\ op.asked = Dispatch!Top.asked /\ op.a = Dispatch!Top.a
        /\ op.hooked = Dispatch!Top.hooked /\ op.step = "failed"
    BY <1>1, FailedIs DEF DispatchIndInv, Steps
  <1>3. OpOK(Dispatch!Top, selected, Under(stack, Len(stack)))
    BY TopOK DEF DispatchIndInv
  <1>4. ~Keeps(op) /\ op.step # "ask"
    BY <1>2 DEF Keeps
  <1>5. OpOK(op, selected, Under(stack, Len(stack)))
    BY <1>2, <1>3, <1>4 DEF OpOK
  <1>6. /\ refused' \in Dispatch!Request
        /\ refused'.by # Nil => NoteOf(refused', Dispatch!Top, Under(stack, Len(stack)))
        /\ ~Dispatch!Top.hooked /\ Dispatch!Top.asked.by # Nil => refused'.by # Nil
    BY RestoresAsked
  <1>7. refused'.by # Nil => NoteOf(refused', op, Under(stack, Len(stack)))
    BY <1>2, <1>6 DEF NoteOf
  <1>. QED  BY <1>1, <1>2, <1>4, <1>5, <1>6, <1>7, FailingStep

\* A step of a container that leaves the note alone.
LEMMA LeavesAlone ==
  ASSUME DispatchIndInv, Dispatch!Running, stack # <<>>, UNCHANGED <<init, selected, refused, handed, ended>>,
         Dispatch!Top.step # "ask", ~Keeps(Dispatch!Top), Dispatch!LeavesNote(Dispatch!Top),
         NEW step \in {"undo", "failed"},
         stack' = Dispatch!ReplaceTop([Dispatch!Top EXCEPT !.step = step])
  PROVE  DispatchIndInv'
  <1>1. PICK op : op = [Dispatch!Top EXCEPT !.step = step]
    OBVIOUS
  <1>2. /\ op \in Op /\ op.asked = Dispatch!Top.asked /\ op.a = Dispatch!Top.a
        /\ op.hooked = Dispatch!Top.hooked /\ op.step = step
        /\ Dispatch!LeavesNote(op) = Dispatch!LeavesNote(Dispatch!Top)
    BY <1>1, FailedIs DEF DispatchIndInv, Steps
  <1>3. OpOK(Dispatch!Top, selected, Under(stack, Len(stack)))
    BY TopOK DEF DispatchIndInv
  <1>4. ~Keeps(op) /\ op.step # "ask"
    BY <1>2 DEF Keeps
  <1>5. OpOK(op, selected, Under(stack, Len(stack)))
    BY <1>2, <1>3, <1>4 DEF OpOK
  <1>6. refused'.by # Nil => NoteOf(refused', op, Under(stack, Len(stack)))
    <2>1. refused.by # Nil => NoteOf(refused, Dispatch!Top, Under(stack, Len(stack)))
      BY DEF DispatchIndInv, NoteOK, NoteIs, Dispatch!Top
    <2>. QED  BY <1>2, <2>1 DEF NoteOf
  <1>7. ~op.hooked /\ op.asked.by # Nil => refused'.by # Nil
    <2>1. NoteStays(stack, refused) /\ Len(stack) > 0 /\ Dispatch!Top = stack[Len(stack)]
      BY AsksProvider DEF DispatchIndInv, NoteOK
    <2>2. ~Dispatch!Top.hooked /\ Dispatch!Top.asked.by # Nil => refused.by # Nil
      BY <2>1 DEF NoteStays
    <2>. QED  BY <1>2, <2>2
  <1>8. refused' \in Dispatch!Request
    BY DEF DispatchIndInv, DispatchTyped
  <1>. QED  BY <1>1, <1>2, <1>4, <1>5, <1>6, <1>7, <1>8, FailingStep

\* A box takes its refusal aside before its hooks run; a container leaves it.
LEMMA ReleaseInv ==
  ASSUME DispatchIndInv, Dispatch!Release
  PROVE  DispatchIndInv'
  <1>1. /\ Dispatch!Running /\ stack # <<>> /\ Dispatch!Top.step = "release" /\ ~Keeps(Dispatch!Top)
        /\ UNCHANGED <<init, selected, handed, ended>>
    BY DEF Dispatch!Release, Keeps
  <1>2. CASE Dispatch!LeavesNote(Dispatch!Top)
    <2>1. stack' = Dispatch!ReplaceTop([Dispatch!Top EXCEPT !.step = "undo"]) /\ refused' = refused
      BY <1>2 DEF Dispatch!Release
    <2>. QED  BY <1>1, <1>2, <2>1, LeavesAlone
  <1>3. CASE ~Dispatch!LeavesNote(Dispatch!Top)
    <2>1. /\ stack' = Dispatch!ReplaceTop([Dispatch!Top EXCEPT !.step = "undo", !.error = Dispatch!take_refusal])
          /\ refused' = Dispatch!Taken
      BY <1>3 DEF Dispatch!Release
    <2>. QED  BY <1>1, <1>3, <2>1, TakesAside
  <1>. QED  BY <1>2, <1>3

\* What a box kept aside comes back when the hooks have run.
LEMMA UndoneInv ==
  ASSUME DispatchIndInv, Dispatch!Undone
  PROVE  DispatchIndInv'
  <1>1. /\ Dispatch!Running /\ stack # <<>> /\ Dispatch!Top.step = "undo"
        /\ UNCHANGED <<init, selected, handed, ended>>
        /\ stack' = Dispatch!ReplaceTop([Dispatch!Top EXCEPT !.step = "failed"])
    BY DEF Dispatch!Undone
  <1>2. CASE Dispatch!LeavesNote(Dispatch!Top)
    <2>1. refused' = refused /\ ~Keeps(Dispatch!Top)
      BY <1>1, <1>2 DEF Dispatch!Undone, Keeps
    <2>. QED  BY <1>1, <1>2, <2>1, LeavesAlone
  <1>3. CASE ~Dispatch!LeavesNote(Dispatch!Top)
    <2>1. refused' = Dispatch!restore_refusal(Dispatch!Top.a, Dispatch!Top.error) /\ Keeps(Dispatch!Top)
      BY <1>1, <1>3 DEF Dispatch!Undone, Keeps
    <2>. QED  BY <1>1, <2>1, BringsBack
  <1>. QED  BY <1>2, <1>3

\* An Allocator_Error takes the refusal with it.
LEMMA BecomesErrorInv ==
  ASSUME DispatchIndInv, Dispatch!BecomesError
  PROVE  DispatchIndInv'
  <1>1. /\ Dispatch!Running /\ stack # <<>> /\ Dispatch!Top.step = "failed" /\ ~Keeps(Dispatch!Top)
        /\ UNCHANGED <<init, selected, handed, ended>>
        /\ stack' = Dispatch!ReplaceTop([Dispatch!Top EXCEPT !.step = "error", !.error = Dispatch!take_refusal])
        /\ refused' = Dispatch!Taken
    BY DEF Dispatch!BecomesError, Keeps
  <1>. QED  BY <1>1, TakesAside

\* An error handed on is the refusal it was made of.
LEMMA HandsOnInv ==
  ASSUME DispatchIndInv, Dispatch!HandsOn
  PROVE  DispatchIndInv'
  <1>1. /\ Dispatch!Running /\ stack # <<>> /\ Keeps(Dispatch!Top) /\ UNCHANGED <<init, selected, handed, ended>>
        /\ stack' = Dispatch!ReplaceTop([Dispatch!Top EXCEPT !.step = "failed"])
        /\ refused' = Dispatch!restore_refusal(Dispatch!Top.a, Dispatch!Top.error)
    BY DEF Dispatch!HandsOn, Keeps
  <1>. QED  BY <1>1, BringsBack

\* An error the program handles is over, and so is the operation.
LEMMA HandlesInv ==
  ASSUME DispatchIndInv, Dispatch!Handles
  PROVE  DispatchIndInv'
  <1>1. /\ Dispatch!Running /\ stack # <<>> /\ Dispatch!Top.step = "error" /\ stack' = Dispatch!Pop
        /\ UNCHANGED <<init, selected, refused, handed, ended>>
    BY DEF Dispatch!Handles
  <1>2. refused.by = Nil
    BY <1>1 DEF DispatchIndInv, NoteOK, NoteIs, Keeps, Dispatch!Top
  <1>3. stack' \in Seq(Op) /\ Len(stack') <= MaxDepth /\ StackIs(stack', selected')
    <2>1. Len(stack) <= MaxDepth /\ MaxDepth \in Nat
      BY DispatchAssumption DEF DispatchIndInv, DispatchTyped, Dispatch!ProviderAssumption
    <2>. QED  BY <1>1, <2>1, Popped DEF DispatchIndInv
  <1>4. DispatchTyped'
    BY <1>1, <1>3 DEF DispatchIndInv, DispatchTyped
  <1>5. NoteIs(stack', refused') /\ NoteStays(stack', refused')
    BY <1>1, <1>2, PoppedNote
  <1>. QED  BY <1>1, <1>3, <1>4, <1>5, StillRunning

\* The policy's report is of what the operation may tell.
LEMMA AllocFailedInv ==
  ASSUME DispatchIndInv, Dispatch!alloc_failed
  PROVE  DispatchIndInv'
  <1>1. /\ Dispatch!Running /\ stack # <<>> /\ Dispatch!Top.step = "failed" /\ ~Keeps(Dispatch!Top)
        /\ UNCHANGED <<init, selected, stack, handed>> /\ refused' = Dispatch!Taken
        /\ ended' = [how |-> IF Dispatch!Asks \in Traps THEN "trap" ELSE "panic",
                     by |-> IF refused.by # Nil THEN refused.by ELSE Dispatch!Asks,
                     size |-> Dispatch!take_refusal, asked |-> Dispatch!Top.asked, a |-> Dispatch!Asks]
    BY DEF Dispatch!alloc_failed, Keeps
  <1>2. /\ Dispatch!Asks \in Provider /\ Dispatch!Top.asked \in Dispatch!Request /\ refused.by \in Dispatch!Handle
        /\ Len(stack) > 0
    BY <1>1, AsksProvider DEF DispatchIndInv, DispatchTyped, Op, Dispatch!Request
  <1>3. /\ Told(Dispatch!Top, Under(stack, Len(stack)), Dispatch!take_refusal)
        /\ Dispatch!take_refusal \in 0 .. Dispatch!Unsized
        /\ Dispatch!Taken \in Dispatch!Request /\ Dispatch!Taken.by = Nil
    BY <1>1, TakesTold
  <1>4. ended' \in Ending /\ ended'.how # "running"
    BY <1>1, <1>2, <1>3 DEF Ending, Dispatch!Handle
  <1>5. \/ Under(stack, Len(stack)) /\ Dispatch!Top.asked.by = Nil
        \/ ended'.by = IF Dispatch!Top.asked.by = Nil THEN Dispatch!Asks ELSE Dispatch!Top.asked.by
    <2>1. ended'.by = IF refused.by # Nil THEN refused.by ELSE Dispatch!Asks
      BY <1>1
    <2>2. refused.by # Nil => NoteOf(refused, Dispatch!Top, Under(stack, Len(stack)))
      BY <1>1 DEF DispatchIndInv, NoteOK, NoteIs, Dispatch!Top
    <2>3. Dispatch!Top.asked.by # Nil => Dispatch!Top.asked.by = Dispatch!Asks
      BY <1>1, TopOK, AsksProvider DEF OpOK, DispatchIndInv
    <2>. QED  BY <2>1, <2>2, <2>3 DEF NoteOf
  <1>6. EndingOK'
    <2>1. /\ stack' = stack /\ Dispatch!Top' = Dispatch!Top /\ ended'.asked = Dispatch!Top.asked
          /\ ended'.a = Dispatch!Asks /\ ended'.size = Dispatch!take_refusal
      BY <1>1 DEF Dispatch!Top
    <2>. QED  BY <1>2, <1>3, <1>5, <2>1 DEF EndingOK
  <1>7. DispatchTyped'
    BY <1>1, <1>3, <1>4 DEF DispatchIndInv, DispatchTyped
  <1>8. StackIs(stack', selected')
    BY <1>1 DEF DispatchIndInv, StackOK
  <1>9. NoteIs(stack', refused') /\ ~Dispatch!Running'
    BY <1>1, <1>3, <1>4 DEF NoteIs, Dispatch!Running
  <1>. QED  BY <1>6, <1>7, <1>8, <1>9 DEF DispatchIndInv, StackOK, NoteOK

\* A free touches no note.
LEMMA FreeHandedInv ==
  ASSUME DispatchIndInv, NEW b \in handed, Dispatch!Free(b)
  PROVE  DispatchIndInv'
  <1>1. UNCHANGED <<init, selected, refused, stack, ended>> /\ handed' \subseteq handed /\ Dispatch!Running
    BY DEF Dispatch!Free
  <1>2. DispatchTyped'
    BY <1>1 DEF DispatchIndInv, DispatchTyped
  <1>3. StackIs(stack', selected') /\ NoteIs(stack', refused') /\ NoteStays(stack', refused')
    BY <1>1 DEF DispatchIndInv, StackOK, NoteOK
  <1>. QED  BY <1>1, <1>2, <1>3, StillRunning

-----------------------------------------------------------------------------
(* The dispatch: the theorems                                              *)

\* No operation is under way at first.
LEMMA DispatchInitInv == MCInit => DispatchIndInv
  <1>. SUFFICES ASSUME MCInit PROVE DispatchIndInv
    OBVIOUS
  <1>1. /\ init = "idle" /\ selected = System /\ refused = Dispatch!NoRequest /\ stack = <<>> /\ handed = {}
        /\ ended = [how |-> "running", by |-> Nil, size |-> 0, asked |-> Dispatch!NoRequest, a |-> Nil]
    BY DEF MCInit, Dispatch!Init
  <1>2. MaxSize \in Nat /\ MaxDepth \in Nat /\ System \in Provider
    BY DispatchAssumption DEF Dispatch!ProviderAssumption
  <1>3. Dispatch!NoRequest \in Dispatch!Request /\ Dispatch!NoRequest.by = Nil
    BY <1>2 DEF Dispatch!NoRequest, Dispatch!Request, Dispatch!Handle, Dispatch!Unsized
  <1>4. ended \in Ending /\ ended.how = "running"
    BY <1>1, <1>2, <1>3 DEF Ending, Dispatch!Handle, Dispatch!Unsized
  <1>5. DispatchTyped
    BY <1>1, <1>2, <1>3, <1>4 DEF DispatchTyped
  <1>6. StackOK
    BY <1>1 DEF StackOK, StackIs
  <1>7. NoteOK
    BY <1>1, <1>3 DEF NoteOK, NoteIs, NoteStays
  <1>8. EndingOK
    BY <1>4 DEF EndingOK
  <1>. QED  BY <1>5, <1>6, <1>7, <1>8 DEF DispatchIndInv

\* A step of MCNext is one of the dispatch or leaves it alone.
LEMMA DispatchSteps == [MCNext]_all => Dispatch!Next \/ UNCHANGED dispatch
  BY DEF MCNext, all

\* Every step keeps the invariant.
LEMMA DispatchStepInv == DispatchIndInv /\ [MCNext]_all => DispatchIndInv'
  <1>. SUFFICES ASSUME DispatchIndInv, [MCNext]_all PROVE DispatchIndInv'
    OBVIOUS
  <1>1. CASE UNCHANGED dispatch
    <2>1. UNCHANGED <<init, selected, refused, stack, handed, ended>>
      BY <1>1 DEF dispatch
    <2>2. DispatchTyped'
      BY <2>1 DEF DispatchIndInv, DispatchTyped
    <2>3. StackOK' /\ NoteOK'
      BY <2>1 DEF DispatchIndInv, StackOK, NoteOK, Dispatch!Running
    <2>4. EndingOK'
      BY <2>1 DEF DispatchIndInv, EndingOK, Dispatch!Top
    <2>. QED  BY <2>2, <2>3, <2>4 DEF DispatchIndInv
  <1>2. CASE Dispatch!Next
    BY <1>2, ProvidersInv, StartInv, AllocatesInv, RefusedInv, FailsUnaskedInv, FreeHandedInv, ReleaseInv,
       UndoneInv, BecomesErrorInv, HandlesInv, HandsOnInv, AllocFailedInv DEF Dispatch!Next
  <1>. QED  BY <1>1, <1>2, DispatchSteps

\* The dispatch's invariant is part of the inductive one.
LEMMA DispatchImplies == DispatchIndInv => DispatchInv
  <1>. SUFFICES ASSUME DispatchIndInv PROVE DispatchInv
    OBVIOUS
  <1>1. Dispatch!TypeOK
    <2>1. \A i \in 1 .. Len(stack) : stack[i] \in Op
      BY DEF DispatchIndInv, DispatchTyped
    <2>2. ended.how \in {"running", "panic", "trap", "abort"}
      BY DEF DispatchIndInv, DispatchTyped, Ending
    <2>. QED  BY <2>1, <2>2 DEF DispatchIndInv, DispatchTyped, Dispatch!TypeOK, Op, Steps, Allocation
  <1>2. \A i \in 1 .. Len(stack) : Dispatch!Lent(i) <=> Under(stack, i) /\ stack[i].asked.by = Nil
    BY DEF Dispatch!Lent, Under
  <1>3. \A i \in 1 .. Len(stack) : \A size : Dispatch!Tells(i, size) <=> Told(stack[i], Under(stack, i), size)
    BY <1>2 DEF Dispatch!Tells, Told
  <1>4. Dispatch!NamesOwnOrNone
    <2>1. ASSUME ended.how \in {"panic", "trap"}
          PROVE  /\ Dispatch!Tells(Len(stack), ended.size)
                 /\ \/ Dispatch!Lent(Len(stack))
                    \/ ended.by = IF ended.asked.by = Nil THEN ended.a ELSE ended.asked.by
      <3>1. Len(stack) \in 1 .. Len(stack)
        BY <2>1 DEF DispatchIndInv, DispatchTyped, EndingOK
      <3>. QED  BY <1>2, <1>3, <2>1, <3>1 DEF DispatchIndInv, EndingOK, Dispatch!Top
    <2>2. ASSUME NEW i \in 1 .. Len(stack), stack[i].step = "error" PROVE Dispatch!Tells(i, stack[i].error)
      <3>1. OpOK(stack[i], selected, Under(stack, i))
        BY DEF DispatchIndInv, StackOK, StackIs
      <3>. QED  BY <1>3, <2>2, <3>1 DEF OpOK, Keeps
    <2>. QED  BY <2>1, <2>2 DEF Dispatch!NamesOwnOrNone
  <1>5. Dispatch!NoteOnlyWhileFailing
    <2>. SUFFICES ASSUME refused.by # Nil
                  PROVE  /\ stack # <<>> /\ Dispatch!Top.step # "error"
                         /\ refused = Dispatch!Top.asked \/ Dispatch!Lent(Len(stack))
      BY DEF Dispatch!NoteOnlyWhileFailing
    <2>1. /\ Len(stack) > 0 /\ ~Keeps(Dispatch!Top)
          /\ Dispatch!Top.step # "ask" => NoteOf(refused, Dispatch!Top, Under(stack, Len(stack)))
          /\ Dispatch!Top.step = "ask" => Under(stack, Len(stack))
      BY DEF DispatchIndInv, NoteOK, NoteIs, Dispatch!Top
    <2>2. stack # <<>> /\ Len(stack) \in 1 .. Len(stack) /\ Dispatch!Top = stack[Len(stack)]
      BY <2>1 DEF DispatchIndInv, DispatchTyped, Dispatch!Top
    <2>3. Dispatch!Top.step = "ask" => Dispatch!Top.asked.by = Nil
      BY <2>2, TopOK DEF DispatchIndInv, OpOK
    <2>. QED  BY <1>2, <2>1, <2>2, <2>3 DEF NoteOf, Keeps
  <1>. QED  BY <1>1, <1>4, <1>5 DEF DispatchInv, Dispatch!Inv

\* However deep the hooks of failing operations allocate and fail in their turn, a
\* failure names its own request, or no size once a hook of its container's undo has
\* allocated, and leaves nothing behind; only one that asked for nothing in such a hook
\* may name the container's.  For any providers, kinds of operation and depth.
THEOREM DispatchInvariant == MCSpec => []DispatchInv
  <1>1. DispatchIndInv /\ [MCNext]_all => DispatchIndInv'
    BY DispatchStepInv
  <1>. QED  BY <1>1, DispatchInitInv, DispatchImplies, PTL DEF MCSpec

-----------------------------------------------------------------------------
(* The dispatch: an owner's handle.                                        *)

\* A container asks a provider, never the zero Allocator.  What an owner keeps is the
\* provider that served it, or the zero Allocator; one kept since the provider was
\* published stands for it, and it does not change again.
OwnersOK ==
    /\ stack # <<>> => init # "idle"
    /\ \A i \in 1 .. Len(stack) : stack[i].kind = "grow" => stack[i].a # Nil
    /\ \A b \in handed :
          /\ b.handle # Nil => b.by = b.handle
          /\ b.handle = Nil => b.kind # "grow"
          /\ b.handle = Nil /\ ~b.early => init \in {"published", "done"} /\ b.by = selected

\* Operations that end, or go on as they are, serve nobody new.
LEMMA OwnersKept ==
  ASSUME OwnersOK, init' = init, selected' = selected, handed' \subseteq handed,
         Len(stack) \in Nat, Len(stack') \in 0 .. Len(stack), stack' # <<>> => stack # <<>>,
         \A i \in 1 .. Len(stack') : stack'[i].kind = stack[i].kind /\ stack'[i].a = stack[i].a
  PROVE  OwnersOK'
  <1>1. \A i \in 1 .. Len(stack') : stack'[i].kind = "grow" => stack'[i].a # Nil
    <2>1. ASSUME NEW i \in 1 .. Len(stack'), stack'[i].kind = "grow" PROVE stack'[i].a # Nil
      <3>1. i \in 1 .. Len(stack) /\ stack'[i].kind = stack[i].kind /\ stack'[i].a = stack[i].a
        BY <2>1
      <3>. QED  BY <2>1, <3>1 DEF OwnersOK
    <2>. QED  BY <2>1
  <1>. QED  BY <1>1 DEF OwnersOK

\* A step of the innermost operation changes neither what it is nor whom it asks.
LEMMA OwnersReplaced ==
  ASSUME DispatchIndInv, OwnersOK, stack # <<>>, NEW op \in Op, stack' = Dispatch!ReplaceTop(op),
         op.kind = Dispatch!Top.kind, op.a = Dispatch!Top.a,
         init' = init, selected' = selected, handed' = handed
  PROVE  OwnersOK'
  <1>1. /\ Len(stack') = Len(stack) /\ Len(stack') > 0 /\ stack'[Len(stack')] = op
        /\ \A i \in 1 .. Len(stack) - 1 : stack'[i] = stack[i]
    BY ReplacedTop DEF DispatchIndInv
  <1>2. Len(stack) \in Nat \ {0} /\ Dispatch!Top = stack[Len(stack)]
    BY AsksProvider DEF DispatchIndInv
  <1>3. ASSUME NEW i \in 1 .. Len(stack') PROVE stack'[i].kind = stack[i].kind /\ stack'[i].a = stack[i].a
    <2>1. CASE i = Len(stack)
      BY <1>1, <1>2, <2>1
    <2>2. CASE i # Len(stack)
      <3>1. i \in 1 .. Len(stack) - 1
        BY <1>1, <1>2, <2>2
      <3>. QED  BY <1>1, <3>1
    <2>. QED  BY <2>1, <2>2
  <1>. QED  BY <1>1, <1>2, <1>3, OwnersKept

\* No step hands out an allocation under a handle that leads elsewhere, but for a zero
\* Allocator before the provider is published.
LEMMA OwnersStep ==
  ASSUME DispatchIndInv, OwnersOK, Dispatch!Next
  PROVE  OwnersOK'
  <1>0. DispatchTyped /\ StackOK /\ stack \in Seq(Op) /\ Len(stack) \in Nat /\ Nil \notin Provider
    BY DispatchAssumption DEF DispatchIndInv, DispatchTyped, Dispatch!ProviderAssumption
  <1>1. CASE \/ Dispatch!provider_init_begin \/ Dispatch!provider_init_end \/ Dispatch!Reenter
             \/ \E a \in Selections : Dispatch!publish_allocator(a)
    <2>1. /\ stack' = stack /\ handed' = handed
          /\ \/ selected' = selected /\ init' = init
             \/ selected' = selected /\ init \in {"idle", "running", "published"} /\ init' = "done"
             \/ selected' = selected /\ init = "idle" /\ init' = "running" /\ stack = <<>>
             \/ init = "running" /\ init' = "published" /\ stack = <<>>
      BY <1>1 DEF Dispatch!provider_init_begin, Dispatch!provider_init_end, Dispatch!Reenter,
         Dispatch!publish_allocator, Dispatch!Aborts
    <2>. QED  BY <2>1 DEF OwnersOK
  <1>2. ASSUME NEW kind \in Kinds, NEW a \in Dispatch!Handle, Dispatch!Start(kind, a) PROVE OwnersOK'
    <2>1. UNCHANGED <<init, selected, handed>> /\ init # "idle"
      BY <1>2 DEF Dispatch!Start
    <2>2. PICK new : /\ stack' = Append(Dispatch!Hooked, new) /\ new.kind = kind
                     /\ new.a = IF kind = "grow" THEN Dispatch!dyn_bind(a) ELSE a
      BY <1>2 DEF Dispatch!Start
    <2>3. new.kind = "grow" => new.a # Nil
      BY <1>0, <2>2 DEF DispatchTyped, Dispatch!dyn_bind
    <2>4. PICK st : st = Dispatch!Hooked
      OBVIOUS
    <2>5. /\ st \in Seq(Op) /\ Len(st) = Len(stack)
          /\ \A i \in 1 .. Len(stack) : st[i].kind = stack[i].kind /\ st[i].a = stack[i].a
      <3>1. CASE stack = <<>>
        BY <1>0, <2>4, <3>1 DEF Dispatch!Hooked
      <3>2. CASE stack # <<>>
        <4>1. Dispatch!Top.step = "undo"
          BY <1>2, <3>2 DEF Dispatch!Start
        <4>2. PICK op \in Op : /\ op.kind = Dispatch!Top.kind /\ op.a = Dispatch!Top.a
                               /\ st = Dispatch!ReplaceTop(op)
          BY <1>0, <2>4, <3>2, <4>1, HookedIs
        <4>3. /\ st \in Seq(Op) /\ Len(st) = Len(stack) /\ st[Len(st)] = op
              /\ \A i \in 1 .. Len(stack) - 1 : st[i] = stack[i]
          BY <1>0, <3>2, <4>2, ReplacedTop
        <4>4. ASSUME NEW i \in 1 .. Len(stack) PROVE st[i].kind = stack[i].kind /\ st[i].a = stack[i].a
          <5>1. CASE i = Len(stack)
            BY <4>2, <4>3, <5>1 DEF Dispatch!Top
          <5>2. CASE i # Len(stack)
            <6>1. i \in 1 .. Len(stack) - 1
              BY <1>0, <5>2
            <6>. QED  BY <4>3, <6>1
          <5>. QED  BY <5>1, <5>2
        <4>. QED  BY <4>3, <4>4
      <3>. QED  BY <3>1, <3>2
    <2>6. ASSUME NEW i \in 1 .. Len(stack'), stack'[i].kind = "grow" PROVE stack'[i].a # Nil
      <3>1. stack' = Append(st, new)
        BY <2>2, <2>4
      <3>2. CASE i = Len(st) + 1
        BY <2>3, <2>5, <2>6, <3>1, <3>2
      <3>3. CASE i # Len(st) + 1
        <4>1. i \in 1 .. Len(stack) /\ stack'[i] = st[i]
          BY <1>0, <2>5, <3>1, <3>3
        <4>. QED  BY <2>5, <2>6, <4>1 DEF OwnersOK
      <3>. QED  BY <3>2, <3>3
    <2>. QED  BY <2>1, <2>6 DEF OwnersOK
  <1>3. ASSUME NEW size \in 0 .. MaxSize, NEW grows \in BOOLEAN, Dispatch!Allocates(size, grows) PROVE OwnersOK'
    <2>1. stack # <<>> /\ stack' = Dispatch!Pop /\ selected' = selected /\ init' = init
      BY <1>3 DEF Dispatch!Allocates
    <2>2. /\ Len(stack') = Len(stack) - 1 /\ Len(stack) \in Nat \ {0}
          /\ \A i \in 1 .. Len(stack) - 1 : stack'[i] = stack[i]
      BY <1>0, <2>1, Popped
    <2>3. \A i \in 1 .. Len(stack') : stack'[i].kind = "grow" => stack'[i].a # Nil
      <3>1. ASSUME NEW i \in 1 .. Len(stack'), stack'[i].kind = "grow" PROVE stack'[i].a # Nil
        <4>1. i \in 1 .. Len(stack) - 1 /\ i \in 1 .. Len(stack) /\ stack'[i] = stack[i]
          BY <2>2, <3>1
        <4>. QED  BY <3>1, <4>1 DEF OwnersOK
      <3>. QED  BY <3>1
    <2>4. CASE handed' = handed
      BY <2>1, <2>3, <2>4 DEF OwnersOK
    <2>5. CASE handed' # handed
      <3>1. PICK early \in BOOLEAN : early = (init = "running")
        OBVIOUS
      <3>2. PICK id : handed' = handed \cup {[id |-> id, by |-> Dispatch!Asks, handle |-> Dispatch!Top.a,
                                              kind |-> Dispatch!Top.kind, early |-> init = "running"]}
        BY <1>3, <2>5 DEF Dispatch!Allocates
      <3>3. PICK new : new = [id |-> id, by |-> Dispatch!Asks, handle |-> Dispatch!Top.a,
                              kind |-> Dispatch!Top.kind, early |-> early]
        OBVIOUS
      <3>4. handed' = handed \cup {new}
        BY ONLY <3>1, <3>2, <3>3, Zenon
      <3>5. /\ new.by = Dispatch!Asks /\ new.handle = Dispatch!Top.a /\ new.kind = Dispatch!Top.kind
            /\ new.early = early
        BY <3>3
      <3>6. /\ Dispatch!Asks = (IF Dispatch!Top.a = Nil THEN selected ELSE Dispatch!Top.a)
            /\ Dispatch!Top.kind = "grow" => Dispatch!Top.a # Nil
        BY <1>0, <2>1, <2>2, AsksProvider DEF OwnersOK, Dispatch!Top
      <3>7. init \in {"running", "published", "done"}
        BY <1>0, <2>1 DEF OwnersOK, DispatchTyped
      <3>8. /\ new.handle # Nil => new.by = new.handle
            /\ new.handle = Nil => new.kind # "grow"
            /\ new.handle = Nil /\ ~new.early => init \in {"published", "done"} /\ new.by = selected
        BY <3>1, <3>5, <3>6, <3>7
      <3>. QED  BY <2>1, <2>3, <3>4, <3>8 DEF OwnersOK
    <2>. QED  BY <2>4, <2>5
  <1>4. ASSUME NEW size \in 1 .. MaxSize, NEW grows \in BOOLEAN, Dispatch!Refused(size, grows) PROVE OwnersOK'
    <2>1. PICK asked : asked = [by |-> Dispatch!Asks, size |-> size]
      OBVIOUS
    <2>2. PICK op : op = [Dispatch!Top EXCEPT !.step = Dispatch!Fails(Dispatch!Top), !.asked = asked]
      OBVIOUS
    <2>3. stack # <<>> /\ stack' = Dispatch!ReplaceTop(op) /\ UNCHANGED <<init, selected, handed>>
      BY <1>4, <2>1, <2>2 DEF Dispatch!Refused
    <2>4. asked \in Dispatch!Request
      BY <1>0, <2>1, <2>3, AsksProvider, DispatchAssumption
         DEF Dispatch!Request, Dispatch!Handle, Dispatch!Unsized, Dispatch!ProviderAssumption
    <2>5. op \in Op /\ op.kind = Dispatch!Top.kind /\ op.a = Dispatch!Top.a
      <3>1. Dispatch!Top \in Op /\ Dispatch!Fails(Dispatch!Top) \in Steps
        BY <1>0, <2>3, AsksProvider DEF Dispatch!Fails, Steps
      <3>. QED  BY <2>2, <2>4, <3>1 DEF Op
    <2>. QED  BY <2>3, <2>5, OwnersReplaced
  <1>5. CASE Dispatch!FailsUnasked
    <2>1. PICK op : op = [Dispatch!Top EXCEPT !.step = Dispatch!Fails(Dispatch!Top)]
      OBVIOUS
    <2>2. stack # <<>> /\ stack' = Dispatch!ReplaceTop(op) /\ UNCHANGED <<init, selected, handed>>
      BY <1>5, <2>1 DEF Dispatch!FailsUnasked
    <2>3. Dispatch!Fails(Dispatch!Top) \in Steps
      BY DEF Dispatch!Fails, Steps
    <2>4. op \in Op /\ op.kind = Dispatch!Top.kind /\ op.a = Dispatch!Top.a
      BY <1>0, <2>1, <2>2, <2>3, FailedIs
    <2>. QED  BY <2>2, <2>4, OwnersReplaced
  <1>6. ASSUME NEW b \in handed, Dispatch!Free(b) PROVE OwnersOK'
    <2>1. UNCHANGED <<init, selected, stack>> /\ handed' \subseteq handed
      BY <1>6 DEF Dispatch!Free
    <2>. QED  BY <2>1 DEF OwnersOK
  <1>7. CASE Dispatch!Release \/ Dispatch!BecomesError
    <2>1. stack # <<>> /\ UNCHANGED <<init, selected, handed>>
      BY <1>7 DEF Dispatch!Release, Dispatch!BecomesError
    <2>2. PICK error : error = Dispatch!take_refusal
      OBVIOUS
    <2>3. error \in 0 .. Dispatch!Unsized
      BY <1>0, <2>2, DispatchAssumption
         DEF DispatchTyped, Dispatch!take_refusal, Dispatch!Request, Dispatch!Unsized, Dispatch!ProviderAssumption
    <2>4. \E step \in {"undo", "error"} :
             \/ stack' = Dispatch!ReplaceTop([Dispatch!Top EXCEPT !.step = step])
             \/ stack' = Dispatch!ReplaceTop([Dispatch!Top EXCEPT !.step = step, !.error = error])
      BY <1>7, <2>2 DEF Dispatch!Release, Dispatch!BecomesError
    <2>5. PICK step \in {"undo", "error"} :
             \/ stack' = Dispatch!ReplaceTop([Dispatch!Top EXCEPT !.step = step])
             \/ stack' = Dispatch!ReplaceTop([Dispatch!Top EXCEPT !.step = step, !.error = error])
      BY <2>4
    <2>6. PICK op : /\ stack' = Dispatch!ReplaceTop(op)
                    /\ \/ op = [Dispatch!Top EXCEPT !.step = step]
                       \/ op = [Dispatch!Top EXCEPT !.step = step, !.error = error]
      BY <2>5
    <2>7. Dispatch!Top \in Op
      BY <1>0, <2>1, AsksProvider
    <2>8. step \in Steps
      BY DEF Steps
    <2>9. op \in Op /\ op.kind = Dispatch!Top.kind /\ op.a = Dispatch!Top.a
      BY ONLY <2>3, <2>6, <2>7, <2>8 DEF Op
    <2>. QED  BY <2>1, <2>6, <2>9, OwnersReplaced
  <1>8. CASE Dispatch!Undone \/ Dispatch!HandsOn
    <2>1. stack # <<>> /\ UNCHANGED <<init, selected, handed>>
      BY <1>8 DEF Dispatch!Undone, Dispatch!HandsOn
    <2>2. PICK op : op = [Dispatch!Top EXCEPT !.step = "failed"]
      OBVIOUS
    <2>3. stack' = Dispatch!ReplaceTop(op)
      BY <1>8, <2>2 DEF Dispatch!Undone, Dispatch!HandsOn
    <2>4. Dispatch!Top \in Op
      BY <1>0, <2>1, AsksProvider
    <2>5. op \in Op /\ op.kind = Dispatch!Top.kind /\ op.a = Dispatch!Top.a
      BY ONLY <2>2, <2>4 DEF Op, Steps
    <2>. QED  BY <2>1, <2>3, <2>5, OwnersReplaced
  <1>9. CASE Dispatch!Handles
    <2>1. stack # <<>> /\ stack' = Dispatch!Pop /\ UNCHANGED <<init, selected, handed>>
      BY <1>9 DEF Dispatch!Handles
    <2>2. /\ Len(stack') = Len(stack) - 1 /\ Len(stack) \in Nat \ {0}
          /\ \A i \in 1 .. Len(stack) - 1 : stack'[i] = stack[i]
      BY <1>0, <2>1, Popped
    <2>. QED  BY <2>1, <2>2, OwnersKept
  <1>10. CASE Dispatch!alloc_failed
    BY <1>10 DEF OwnersOK, Dispatch!alloc_failed
  <1>. QED  BY <1>1, <1>2, <1>3, <1>4, <1>5, <1>6, <1>7, <1>8, <1>9, <1>10 DEF Dispatch!Next

\* An allocation's handle leads to the provider that served it, before and after the
\* build's provider is published, whatever handles the program writes: but for a zero
\* Allocator that was given as an argument before the publication.  A container's own
\* handle always does, for an unbound one binds the selected provider before it asks.
THEOREM OwnersInvariant == MCSpec => []OwnersReachProvider
  <1>1. MCInit => DispatchIndInv /\ OwnersOK
    BY DispatchInitInv DEF OwnersOK, MCInit, Dispatch!Init
  <1>2. DispatchIndInv /\ OwnersOK /\ [MCNext]_all => DispatchIndInv' /\ OwnersOK'
    <2>. SUFFICES ASSUME DispatchIndInv, OwnersOK, [MCNext]_all PROVE OwnersOK'
      BY DispatchStepInv
    <2>1. CASE UNCHANGED dispatch
      BY <2>1 DEF dispatch, OwnersOK
    <2>2. CASE Dispatch!Next
      BY <2>2, OwnersStep
    <2>. QED  BY <2>1, <2>2, DispatchSteps
  <1>3. DispatchIndInv /\ OwnersOK => OwnersReachProvider
    BY DEF OwnersOK, OwnersReachProvider, Dispatch!OwnersReachProvider, Dispatch!resolve
  <1>. QED  BY <1>1, <1>2, <1>3, PTL DEF MCSpec

-----------------------------------------------------------------------------
(* The arena: its arithmetic.                                              *)

\* A multiple has a quotient.
LEMMA Multiple ==
  ASSUME NEW x \in Int, NEW n \in Nat \ {0}, x % n = 0
  PROVE  \E q \in Int : x = n * q
  BY SMT

\* What a multiple and a smaller rest leave.
LEMMA MultipleAndRest ==
  ASSUME NEW q \in Int, NEW n \in Nat \ {0}, NEW r \in 0 .. n - 1
  PROVE  (n * q + r) % n = r
  BY SMT

\* Two multiples add up to one.
LEMMA MultiplesAdd ==
  ASSUME NEW x \in Int, NEW y \in Int, NEW n \in Nat \ {0}, x % n = 0, y % n = 0
  PROVE  (x + y) % n = 0
  <1>1. PICK q \in Int : x = n * q
    BY Multiple
  <1>2. PICK p \in Int : y = n * p
    BY Multiple
  <1>3. PICK k \in Int : k = q + p
    OBVIOUS
  <1>4. x + y = n * k + 0
    BY <1>1, <1>2, <1>3
  <1>5. (n * k + 0) % n = 0
    BY MultipleAndRest
  <1>. QED  BY <1>4, <1>5

\* The rest of a division, and what is left without it.
LEMMA Rest ==
  ASSUME NEW x \in Nat, NEW n \in Nat, n > 0
  PROVE  x % n \in 0 .. n - 1 /\ (x - (x % n)) % n = 0
  <1>1. x % n \in 0 .. n - 1
    BY SMT
  <1>2. (x - (x % n)) % n = 0
    BY SMT
  <1>. QED  BY <1>1, <1>2

\* A positive multiple is no smaller than what it is a multiple of.
LEMMA MultipleIsLarge ==
  ASSUME NEW x \in Nat \ {0}, NEW n \in Nat \ {0}, x % n = 0
  PROVE  n <= x
  BY SMT

\* A set of numbers has a least one.
LEMMA LeastNumber ==
  ASSUME NEW T, T \subseteq Nat, T # {}
  PROVE  \E x \in T : \A y \in T : x <= y
  <1>1. PICK R : R = {ss \in Nat \X Nat : ss[1] < ss[2]}
    OBVIOUS
  <1>2. IsWellFoundedOn(R, Nat)
    BY <1>1, NatLessThanWellFounded, Zenon DEF OpToRel
  <1>3. PICK x \in T : \A y \in T : ~(<<y, x>> \in R)
    BY <1>2, WFMin
  <1>4. ASSUME NEW y \in T, y < x
        PROVE  FALSE
    <2>1. <<y, x>> \in Nat \X Nat
      OBVIOUS
    <2>2. <<y, x>>[1] = y /\ <<y, x>>[2] = x
      OBVIOUS
    <2>3. <<y, x>> \in R
      BY <1>1, <1>4, <2>1, <2>2
    <2>. QED  BY <1>3, <2>3
  <1>5. \A y \in T : x <= y
    BY <1>4
  <1>. QED  BY <1>5

\* Rounding up moves by less than the alignment, or answers 0 on overflow.
LEMMA RoundUp ==
  ASSUME NEW v \in 1 .. Word - 1, NEW n \in 1 .. Word - 1
  PROVE  /\ v + n - 1 < Word => arena_round_up(v, n) \in v .. v + n - 1 /\ arena_round_up(v, n) % n = 0
         /\ v + n - 1 >= Word => arena_round_up(v, n) = 0
  <1>0. Word \in Nat /\ Word > 1
    BY WordAssumption
  <1>1. CASE v + n - 1 < Word
    <2>1. Add(v, n - 1) = v + n - 1
      BY <1>0, <1>1 DEF Add
    <2>2. PICK s \in Nat : s = v + n - 1
      BY <1>0
    <2>3. s % n \in 0 .. n - 1 /\ (s - (s % n)) % n = 0
      <3>1. n \in Nat /\ n > 0
        BY <1>0
      <3>. QED  BY <3>1, Rest
    <2>4. arena_round_up(v, n) = s - (s % n)
      BY <1>0, <2>1, <2>2 DEF arena_round_up
    <2>. QED  BY <1>0, <1>1, <2>2, <2>3, <2>4
  <1>2. CASE v + n - 1 >= Word
    <2>1. Add(v, n - 1) = v + n - 1 - Word
      BY <1>0, <1>2 DEF Add
    <2>. QED  BY <1>0, <1>2, <2>1 DEF arena_round_up
  <1>. QED  BY <1>0, <1>1, <1>2

\* A multiple is its own rounding.
LEMMA RoundMultiple ==
  ASSUME NEW v \in 1 .. Word - 1, NEW n \in 1 .. Word - 1, v % n = 0, v + n - 1 < Word
  PROVE  arena_round_up(v, n) = v
  <1>0. Word \in Nat /\ Word > 1
    BY WordAssumption
  <1>1. PICK q \in Int : v = n * q
    BY <1>0, Multiple
  <1>2. PICK s \in Nat : s = v + n - 1
    BY <1>0
  <1>3. s = n * q + (n - 1)
    BY <1>1, <1>2, <1>0
  <1>4. s % n = n - 1
    BY <1>0, <1>3, MultipleAndRest
  <1>5. Add(v, n - 1) = s
    BY <1>0, <1>2 DEF Add
  <1>6. arena_round_up(v, n) = s - (s % n)
    BY <1>0, <1>2, <1>5 DEF arena_round_up
  <1>. QED  BY <1>0, <1>2, <1>4, <1>6

\* Where a request goes in a block: above what is used, aligned, and within the block.
LEMMA BumpFits ==
  ASSUME NEW b \in Block, b.base + b.size < Word, b.used <= b.size,
         NEW size \in 1 .. Word - 1, NEW n \in 1 .. Word - 1,
         NEW at, at = arena_bump(b, size, n), at # 0
  PROVE  /\ at \in 1 .. Word - 1 /\ at % n = 0
         /\ b.base + b.used <= at /\ at + size <= b.base + b.size
         /\ Bumped(b, at, size) = [b EXCEPT !.used = at + size - b.base]
         /\ at + size - b.base \in 0 .. b.size
  <1>0. Word \in Nat /\ Word > 1
    BY WordAssumption
  <1>1. b.base \in 1 .. Word - 1 /\ b.size \in 0 .. Word - 1 /\ b.used \in 0 .. Word - 1
    BY DEF Block
  <1>2. PICK v \in 1 .. Word - 1 : v = b.base + b.used
    BY <1>0, <1>1
  <1>3. Add(b.base, b.used) = v /\ Add(b.base, b.size) = b.base + b.size
    BY <1>0, <1>1, <1>2 DEF Add
  <1>4. /\ at = arena_round_up(v, n)
        /\ ~(Add(at, size) < at) /\ ~(Add(at, size) > b.base + b.size)
    BY <1>3 DEF arena_bump
  <1>5. v + n - 1 < Word /\ at \in v .. v + n - 1 /\ at % n = 0
    BY <1>0, <1>4, RoundUp
  <1>6. Add(at, size) = at + size
    BY <1>0, <1>4, <1>5 DEF Add
  <1>. QED  BY <1>0, <1>1, <1>2, <1>4, <1>5, <1>6 DEF Bumped

\* A block with the alignment to spare has room.
LEMMA BumpRoom ==
  ASSUME NEW b \in Block, b.base + b.size < Word,
         NEW size \in 1 .. Word - 1, NEW n \in 1 .. Word - 1, b.used + n + size <= b.size
  PROVE  arena_bump(b, size, n) # 0
  <1>0. Word \in Nat /\ Word > 1
    BY WordAssumption
  <1>1. b.base \in 1 .. Word - 1 /\ b.size \in 0 .. Word - 1 /\ b.used \in 0 .. Word - 1
    BY DEF Block
  <1>2. PICK v \in 1 .. Word - 1 : v = b.base + b.used
    BY <1>0, <1>1
  <1>3. Add(b.base, b.used) = v /\ Add(b.base, b.size) = b.base + b.size
    BY <1>0, <1>1, <1>2 DEF Add
  <1>4. PICK at : at = arena_round_up(v, n)
    OBVIOUS
  <1>5. at \in v .. v + n - 1
    <2>1. v + n - 1 < Word
      BY <1>0, <1>1, <1>2
    <2>. QED  BY <1>4, <2>1, RoundUp
  <1>6. Add(at, size) = at + size
    BY <1>0, <1>1, <1>2, <1>5 DEF Add
  <1>7. arena_bump(b, size, n) = at
    BY <1>0, <1>1, <1>2, <1>3, <1>4, <1>5, <1>6 DEF arena_bump
  <1>. QED  BY <1>0, <1>5, <1>7

\* The size arena_grow asks for is enough: no overflow on the way to it.
LEMMA WantEnough ==
  ASSUME NEW size \in 1 .. Word - 1, NEW n \in 1 .. Word - 1, n + HeaderBytes < Word, CanGrow(size, n)
  PROVE  Want(size, n) \in 1 .. Word - 1 /\ size + n + HeaderBytes <= Want(size, n)
  <1>0. Word \in Nat /\ Word > 1 /\ HeaderBytes \in 1 .. Word - 1
    BY WordAssumption, LayoutAssumption
  <1>1. Enough(size, n) = size + n + HeaderBytes
    <2>1. Enough(size, n) >= size
      BY DEF CanGrow
    <2>2. CASE size + n >= Word
      <3>1. Add(size, n) = size + n - Word
        BY <1>0, <2>2 DEF Add
      <3>. QED  BY <1>0, <2>1, <2>2, <3>1 DEF Enough, Add
    <2>3. CASE size + n < Word
      <3>1. Add(size, n) = size + n
        BY <1>0, <2>3 DEF Add
      <3>. QED  BY <1>0, <2>1, <2>3, <3>1 DEF Enough, Add
    <2>. QED  BY <1>0, <2>2, <2>3
  <1>2. PICK T : T = {w \in Doublings : w >= Enough(size, n)}
    OBVIOUS
  <1>3. T \subseteq Nat /\ T # {}
    BY <1>2, <1>0 DEF CanGrow, Doublings
  <1>4. PICK x \in T : \A y \in T : x <= y
    BY <1>3, LeastNumber
  <1>5. \E w \in Doublings : /\ w >= Enough(size, n)
                             /\ \A v \in Doublings : v >= Enough(size, n) => w <= v
    BY <1>2, <1>4
  <1>6. Want(size, n) \in Doublings /\ Want(size, n) >= Enough(size, n)
    BY <1>5 DEF Want
  <1>. QED  BY <1>0, <1>1, <1>6 DEF Doublings

-----------------------------------------------------------------------------
(* The arena: blocks and what lives in them.                               *)

\* What is live keeps the alignment it was asked with, one that arena_grow can add to a
\* header without overflow.
LiveAligned == \A a \in live : a.at % a.align = 0 /\ a.align + HeaderBytes < Word

ArenaIndInv == Inv /\ LiveAligned

Within(a, b) == b.base <= a.at /\ a.at + a.size <= b.base + b.used

\* What lies within a block stays within it when more of the block is used.
LEMMA StillWithin ==
  ASSUME NEW a, NEW b, NEW c, a.at \in Int, a.size \in Int, b.base \in Int, b.used \in Int, c.used \in Int,
         c.base = b.base, b.used <= c.used, Within(a, b)
  PROVE  Within(a, c)
  BY DEF Within

\* The parts of the invariant that the blocks, the control block and the ledger make up.
Memory ==
    /\ blocks \in Seq(Block) /\ BlocksOK /\ ControlOK /\ LentOK /\ Ledger /\ lent \subseteq Extent
    /\ status # "open" => blocks = <<>>

\* The parts about what is live.
Holding == live \subseteq Heap!Allocation /\ LiveApart /\ LiveInBlocks /\ LiveAligned

\* The rest of the invariant.
Framed ==
    /\ status \in {"none", "open", "fault"} /\ hasParent \in BOOLEAN /\ block_bytes \in 0 .. Word - 1
    /\ control \in Extent /\ starved \in BOOLEAN /\ GrowSuffices /\ MinBufferSuffices

\* The three make up the invariant.
LEMMA ArenaParts == ArenaIndInv <=> Memory /\ Holding /\ Framed
  BY DEF ArenaIndInv, Inv, TypeOK, Memory, Holding, Framed

\* The bounds of the word and the layout.
LEMMA WordFacts ==
  /\ Word \in Nat /\ Word > 1
  /\ HeaderBytes \in 1 .. Word - 1 /\ ControlBytes \in 1 .. Word - 1 /\ ControlAlign \in 1 .. Word - 1
  /\ DefaultBlock \in 1 .. Word - 1
  BY WordAssumption, LayoutAssumption

\* A block of the arena is well formed.
LEMMA BlockFacts ==
  ASSUME Memory, NEW i \in 1 .. Len(blocks)
  PROVE  /\ Len(blocks) \in Nat \ {0} /\ i \in DOMAIN blocks /\ blocks[i] \in Block
         /\ blocks[i].base \in 1 .. Word - 1 /\ blocks[i].size \in 0 .. Word - 1 /\ blocks[i].used \in 0 .. Word - 1
         /\ blocks[i].base > HeaderBytes /\ blocks[i].base + blocks[i].size < Word
         /\ blocks[i].used <= blocks[i].size /\ (blocks[i].owned <=> i < Len(blocks))
  <1>1. Len(blocks) \in Nat \ {0} /\ i \in DOMAIN blocks /\ blocks[i] \in Block
    BY DEF Memory
  <1>. QED  BY <1>1 DEF Memory, BlocksOK, Block

\* An open arena has a newest block.
LEMMA OpenTop ==
  ASSUME Memory, status = "open"
  PROVE  1 \in 1 .. Len(blocks)
  <1>1. Len(blocks) \in Nat /\ Len(blocks) >= 1
    BY DEF Memory, ControlOK
  <1>. QED  BY <1>1

\* Two blocks lie apart, with their headers.
LEMMA BlocksApart ==
  ASSUME Memory, NEW i \in 1 .. Len(blocks), NEW j \in 1 .. Len(blocks), i # j
  PROVE  \/ blocks[i].base + blocks[i].size <= blocks[j].base - HeaderBytes
         \/ blocks[j].base + blocks[j].size <= blocks[i].base - HeaderBytes
  <1>1. i \in DOMAIN blocks /\ j \in DOMAIN blocks
    BY BlockFacts
  <1>2. Heap!Apart(BlockExtent(blocks[i]), BlockExtent(blocks[j]))
    BY <1>1 DEF Memory, BlocksOK
  <1>. QED  BY <1>2, BlockFacts, WordFacts DEF Heap!Apart, BlockExtent

\* What is live is an allocation within a block.
LEMMA LiveFacts ==
  ASSUME Memory, Holding, NEW a \in live
  PROVE  /\ a.at \in 1 .. Word - 1 /\ a.size \in 1 .. Word - 1 /\ a.align \in 1 .. Word - 1
         /\ a.at % a.align = 0 /\ a.align + HeaderBytes < Word
         /\ a = [at |-> a.at, size |-> a.size, align |-> a.align]
         /\ \E i \in 1 .. Len(blocks) : Within(a, blocks[i])
  <1>1. a \in Heap!Allocation
    BY DEF Holding
  <1>2. a.at \in 1 .. Word - 1 /\ a.size \in 1 .. Word - 1 /\ a.align \in 1 .. Word - 1
        /\ a = [at |-> a.at, size |-> a.size, align |-> a.align]
    BY <1>1 DEF Heap!Allocation
  <1>3. a.at % a.align = 0 /\ a.align + HeaderBytes < Word
    BY DEF Holding, LiveAligned
  <1>4. \E i \in DOMAIN blocks : Within(a, blocks[i])
    BY DEF Holding, LiveInBlocks, Within
  <1>5. DOMAIN blocks = 1 .. Len(blocks)
    BY DEF Memory
  <1>. QED  BY <1>2, <1>3, <1>4, <1>5

\* What lies in one block shares no byte with what is used of another.
LEMMA OtherBlock ==
  ASSUME Memory, NEW i \in 1 .. Len(blocks), NEW j \in 1 .. Len(blocks), i # j, NEW a, Within(a, blocks[j]),
         a.at \in Int, a.size \in Int,
         NEW at \in Int, NEW size \in Int, blocks[i].base <= at, at + size <= blocks[i].base + blocks[i].size
  PROVE  at + size <= a.at \/ a.at + a.size <= at
  <1>1. \/ blocks[i].base + blocks[i].size <= blocks[j].base - HeaderBytes
        \/ blocks[j].base + blocks[j].size <= blocks[i].base - HeaderBytes
    BY BlocksApart
  <1>2. PICK b \in Int, s \in Int : b = blocks[i].base /\ s = blocks[i].size
    BY BlockFacts, WordFacts
  <1>3. PICK c \in Int, t \in Int, u \in Int : c = blocks[j].base /\ t = blocks[j].size /\ u = blocks[j].used /\ u <= t
    <2>1. blocks[j].base \in Int /\ blocks[j].size \in Int /\ blocks[j].used \in Int /\ blocks[j].used <= blocks[j].size
      BY BlockFacts, WordFacts
    <2>. QED  BY <2>1
  <1>4. PICK q \in Int, n \in Int : q = a.at /\ n = a.size
    OBVIOUS
  <1>5. PICK h \in Nat : h = HeaderBytes
    BY WordFacts
  <1>6. b + s <= c - h \/ c + t <= b - h
    BY <1>1, <1>2, <1>3, <1>5
  <1>7. b <= at /\ at + size <= b + s
    BY <1>2
  <1>8. c <= q /\ q + n <= c + u
    BY <1>3, <1>4 DEF Within
  <1>9. q + n <= c + t
    <2>1. u <= t /\ q + n <= c + u
      BY <1>3, <1>8
    <2>2. c \in Int /\ t \in Int /\ u \in Int /\ q \in Int /\ n \in Int
      OBVIOUS
    <2>. QED  BY ONLY <2>1, <2>2
  <1>10. at + size <= q \/ q + n <= at
    BY <1>6, <1>7, <1>8, <1>9
  <1>. QED  BY <1>4, <1>10

\* What lies in a block above its used bytes shares no byte with anything live.
LEMMA AboveUsed ==
  ASSUME Memory, Holding, NEW i \in 1 .. Len(blocks), NEW at \in 1 .. Word - 1, NEW size \in 1 .. Word - 1,
         blocks[i].base + blocks[i].used <= at, at + size <= blocks[i].base + blocks[i].size,
         NEW a \in live
  PROVE  at + size <= a.at \/ a.at + a.size <= at
  <1>1. PICK j \in 1 .. Len(blocks) : Within(a, blocks[j])
    BY LiveFacts
  <1>2. /\ blocks[j].base <= a.at /\ a.at + a.size <= blocks[j].base + blocks[j].used
        /\ a.at \in 1 .. Word - 1 /\ a.size \in 1 .. Word - 1
    BY <1>1, LiveFacts DEF Within
  <1>3. CASE i = j
    BY <1>2, <1>3, BlockFacts, WordFacts
  <1>4. CASE i # j
    <2>1. blocks[i].base \in Nat /\ blocks[i].used \in Nat
      BY BlockFacts, WordFacts
    <2>2. at \in Int /\ size \in Int /\ a.at \in Int /\ a.size \in Int
      BY <1>2
    <2>3. blocks[i].base <= at
      BY <2>1, <2>2
    <2>. QED  BY <1>1, <1>4, <2>2, <2>3, OtherBlock
  <1>. QED  BY <1>3, <1>4

\* The top allocation ends the newest block's used bytes, and everything else in that
\* block lies below it.
LEMMA TopAllocation ==
  ASSUME Memory, Holding, status = "open", NEW a \in live, arena_is_top(a)
  PROVE  /\ a.at + a.size = Top.base + Top.used /\ Top.base <= a.at
         /\ \A b \in live \ {a} : Within(b, Top) => b.at + b.size <= a.at
  <1>0. 1 \in 1 .. Len(blocks)
    BY OpenTop
  <1>1. PICK j \in 1 .. Len(blocks) : Within(a, blocks[j])
    BY LiveFacts
  <1>2. /\ blocks[j].base <= a.at /\ a.at + a.size <= blocks[j].base + blocks[j].used
        /\ a.at \in 1 .. Word - 1 /\ a.size \in 1 .. Word - 1
    BY <1>1, LiveFacts DEF Within
  <1>3. a.at + a.size = Top.base + Top.used
    <2>1. a.at + a.size < Word
      <3>1. /\ blocks[j].base \in Nat /\ blocks[j].size \in Nat /\ blocks[j].used \in Nat
            /\ blocks[j].used <= blocks[j].size /\ blocks[j].base + blocks[j].size < Word
        BY BlockFacts, WordFacts
      <3>2. a.at \in Nat /\ a.size \in Nat /\ Word \in Nat
        BY <1>2, WordFacts
      <3>. QED  BY ONLY <1>2, <3>1, <3>2
    <2>2. Top.base + Top.used < Word /\ Top.base \in Nat /\ Top.used \in Nat
      BY <1>0, BlockFacts, WordFacts DEF Top
    <2>. QED  BY <1>2, <2>1, <2>2, WordFacts DEF arena_is_top, Add
  <1>4. j = 1
    <2>1. SUFFICES ASSUME j # 1 PROVE FALSE
      OBVIOUS
    <2>2. \/ blocks[1].base + blocks[1].size <= blocks[j].base - HeaderBytes
          \/ blocks[j].base + blocks[j].size <= blocks[1].base - HeaderBytes
      BY <1>0, <2>1, BlocksApart
    <2>3. blocks[1].base \in Nat /\ blocks[1].size \in Nat /\ blocks[1].used \in Nat /\ blocks[1].used <= blocks[1].size
      BY <1>0, BlockFacts, WordFacts
    <2>4. blocks[j].base \in Nat /\ blocks[j].size \in Nat /\ blocks[j].used \in Nat /\ blocks[j].used <= blocks[j].size
      BY BlockFacts, WordFacts
    <2>5. a.at \in Int /\ a.size \in Nat \ {0} /\ HeaderBytes \in Nat \ {0}
      BY <1>2, WordFacts
    <2>6. blocks[1].base + blocks[1].used = a.at + a.size
      BY <1>3 DEF Top
    <2>7. \/ blocks[1].base + blocks[1].size <= a.at
          \/ a.at + a.size <= blocks[1].base - HeaderBytes
      BY <1>2, <2>2, <2>3, <2>4, <2>5, SMTT(30)
    <2>. QED  BY <2>3, <2>5, <2>6, <2>7, SMTT(30)
  <1>5. ASSUME NEW b \in live \ {a}, Within(b, Top)
        PROVE  b.at + b.size <= a.at
    <2>1. b.at + b.size <= a.at \/ a.at + a.size <= b.at
      BY DEF Holding, LiveApart, Heap!Apart
    <2>. QED  BY <1>2, <1>3, <1>5, <2>1, LiveFacts DEF Within
  <1>. QED  BY <1>2, <1>3, <1>4, <1>5 DEF Top

\* Changing only how much of the newest block is used leaves the memory as it is.
LEMMA TopUsed ==
  ASSUME Memory, status = "open", NEW u \in 0 .. Top.size, blocks' = [blocks EXCEPT ![1] = [Top EXCEPT !.used = u]],
         UNCHANGED <<status, hasParent, block_bytes, control, lent>>
  PROVE  /\ Memory' /\ Len(blocks') = Len(blocks) /\ blocks'[1].used = u
         /\ \A i \in 1 .. Len(blocks) : /\ blocks'[i].base = blocks[i].base /\ blocks'[i].size = blocks[i].size
                                        /\ i # 1 => blocks'[i] = blocks[i]
  <1>0. 1 \in 1 .. Len(blocks) /\ Len(blocks) \in Nat \ {0} /\ Top = blocks[1]
    BY OpenTop, BlockFacts DEF Top
  <1>1. Top \in Block /\ Top.size \in 0 .. Word - 1
    BY <1>0, BlockFacts
  <1>2. PICK t : t = [Top EXCEPT !.used = u]
    OBVIOUS
  <1>3. t \in Block /\ t.used = u /\ t.base = Top.base /\ t.size = Top.size /\ t.owned = Top.owned
    BY <1>1, <1>2, WordFacts DEF Block
  <1>4. /\ blocks' \in Seq(Block) /\ Len(blocks') = Len(blocks) /\ blocks'[1] = t
        /\ \A i \in 1 .. Len(blocks) : i # 1 => blocks'[i] = blocks[i]
    BY <1>0, <1>2, <1>3 DEF Memory
  <1>5. \A i \in 1 .. Len(blocks) : /\ blocks'[i].base = blocks[i].base /\ blocks'[i].size = blocks[i].size
                                    /\ blocks'[i].owned = blocks[i].owned
                                    /\ blocks'[i].used <= blocks'[i].size
    BY <1>0, <1>1, <1>3, <1>4, BlockFacts
  <1>6. DOMAIN blocks' = 1 .. Len(blocks) /\ DOMAIN blocks = 1 .. Len(blocks)
    BY <1>4 DEF Memory
  <1>7. \A i \in 1 .. Len(blocks) : BlockExtent(blocks'[i]) = BlockExtent(blocks[i])
    BY <1>5 DEF BlockExtent
  <1>8. BlocksOK'
    BY <1>4, <1>5, <1>6, <1>7 DEF Memory, BlocksOK
  <1>9. OwnedExtents' = OwnedExtents
    BY <1>5, <1>6, <1>7 DEF OwnedExtents
  <1>10. ControlOK'
    <2>1. Len(blocks) \in 1 .. Len(blocks)
      BY <1>0
    <2>2. PICK f : f = blocks[Len(blocks)]
      OBVIOUS
    <2>3. PICK g : g = blocks'[Len(blocks)]
      OBVIOUS
    <2>4. g.base = f.base /\ g.size = f.size
      BY <1>5, <2>1, <2>2, <2>3
    <2>. QED  BY <1>4, <2>2, <2>3, <2>4 DEF Memory, ControlOK
  <1>11. Memory'
    BY <1>4, <1>8, <1>9, <1>10 DEF Memory, LentOK, Ledger
  <1>. QED  BY <1>3, <1>4, <1>5, <1>11

\* What the program holds when one allocation takes the place of another, or of none.
LEMMA Held ==
  ASSUME Holding, NEW given, NEW c \in Heap!Allocation, c.at % c.align = 0, c.align + HeaderBytes < Word,
         live' = (live \ given) \cup {c},
         \A a \in live \ given : Heap!Apart(c, a),
         \A a \in live' : \E i \in DOMAIN blocks' : Within(a, blocks'[i])
  PROVE  Holding'
  <1>1. live' \subseteq Heap!Allocation
    BY DEF Holding
  <1>2. LiveApart'
    <2>1. SUFFICES ASSUME NEW a \in live', NEW b \in live', a # b PROVE Heap!Apart(a, b)
      BY DEF LiveApart
    <2>2. CASE a \in live /\ b \in live
      BY <2>1, <2>2 DEF Holding, LiveApart
    <2>3. CASE a = c
      BY <2>1, <2>3
    <2>4. CASE b = c
      BY <2>1, <2>4 DEF Heap!Apart
    <2>. QED  BY <2>2, <2>3, <2>4
  <1>3. LiveAligned'
    BY DEF Holding, LiveAligned
  <1>4. LiveInBlocks'
    BY DEF LiveInBlocks, Within
  <1>. QED  BY <1>1, <1>2, <1>3, <1>4 DEF Holding

-----------------------------------------------------------------------------
(* The arena: preservation, an action at a time, with the step of Allocator *)
(* that it is.                                                             *)

\* Only what is live changes, or nothing.
LEMMA MemoryStays ==
  ASSUME Memory, UNCHANGED <<status, hasParent, blocks, block_bytes, control, lent>>
  PROVE  Memory'
  BY DEF Memory, BlocksOK, ControlOK, LentOK, Ledger, OwnedExtents

\* What frames the arena stays.
LEMMA FramedStays ==
  ASSUME Framed, UNCHANGED <<status, hasParent, control, starved>>, block_bytes' \in 0 .. Word - 1
  PROVE  Framed'
  BY DEF Framed, GrowSuffices, MinBufferSuffices

\* A new allocation that shares no byte with a live one is Allocator's Alloc, and in
\* place of another its Resize.
LEMMA IsAllocation ==
  ASSUME NEW given \in SUBSET live, NEW c \in Heap!Allocation, c.at % c.align = 0, live' = (live \ given) \cup {c},
         \A a \in live : Heap!Apart(c, a),
         given = {} \/ \E a \in live : given = {a} /\ c.align = a.align
  PROVE  Heap!Next
  <1>1. CASE given = {}
    <2>1. Heap!Fits(c, live) /\ live' = live \cup {c}
      BY <1>1 DEF Heap!Fits
    <2>. QED  BY <2>1 DEF Heap!Next, Heap!Alloc
  <1>2. ASSUME NEW a \in live, given = {a}, c.align = a.align PROVE Heap!Next
    <2>1. Heap!Fits(c, live \ {a}) /\ live' = (live \ {a}) \cup {c} /\ Heap!Apart(c, a)
      BY <1>2 DEF Heap!Fits
    <2>. QED  BY <1>2, <2>1 DEF Heap!Next, Heap!Resize
  <1>. QED  BY <1>1, <1>2

\* The newest block has room: the request goes above what is used.
LEMMA BumpsTop ==
  ASSUME ArenaIndInv, status = "open", NEW given \in SUBSET live,
         NEW size \in 1 .. Word - 1, NEW n \in 1 .. Word - 1, n + HeaderBytes < Word,
         NEW at, at = arena_bump(Top, size, n), at # 0,
         given = {} \/ \E a \in live : given = {a} /\ n = a.align,
         blocks' = [blocks EXCEPT ![1] = Bumped(Top, at, size)],
         Hold(given, at, size, n), UNCHANGED <<status, hasParent, block_bytes, control, lent, starved>>
  PROVE  ArenaIndInv' /\ Heap!Next
  <1>0. Memory /\ Holding /\ Framed
    BY ArenaParts
  <1>1. 1 \in 1 .. Len(blocks) /\ Top = blocks[1] /\ Top \in Block /\ Len(blocks) \in Nat
    BY <1>0, OpenTop, BlockFacts DEF Top
  <1>2. Top.base \in Nat /\ Top.size \in Nat /\ Top.used \in Nat /\ Top.base + Top.size < Word /\ Top.used <= Top.size
    BY <1>0, <1>1, BlockFacts, WordFacts
  <1>3. /\ at \in 1 .. Word - 1 /\ at % n = 0 /\ Top.base + Top.used <= at /\ at + size <= Top.base + Top.size
        /\ Bumped(Top, at, size) = [Top EXCEPT !.used = at + size - Top.base]
        /\ at + size - Top.base \in 0 .. Top.size
    BY <1>1, <1>2, BumpFits
  <1>4. PICK u \in 0 .. Top.size : u = at + size - Top.base
    BY <1>3
  <1>5. /\ Memory' /\ Len(blocks') = Len(blocks) /\ blocks'[1].used = u
        /\ \A i \in 1 .. Len(blocks) : /\ blocks'[i].base = blocks[i].base /\ blocks'[i].size = blocks[i].size
                                       /\ i # 1 => blocks'[i] = blocks[i]
    BY <1>0, <1>3, <1>4, TopUsed
  <1>6. PICK c : c = [at |-> at, size |-> size, align |-> n]
    OBVIOUS
  <1>7. c \in Heap!Allocation /\ c.at = at /\ c.size = size /\ c.align = n /\ live' = (live \ given) \cup {c}
    BY <1>3, <1>6 DEF Heap!Allocation, Hold
  <1>8. ASSUME NEW a \in live PROVE Heap!Apart(c, a)
    BY <1>0, <1>1, <1>3, <1>7, AboveUsed DEF Heap!Apart
  <1>9. ASSUME NEW a \in live' PROVE \E i \in DOMAIN blocks' : Within(a, blocks'[i])
    <2>0. DOMAIN blocks' = 1 .. Len(blocks)
      BY <1>5 DEF Memory
    <2>1. CASE a = c
      <3>0. blocks'[1].base = Top.base /\ blocks'[1].used = at + size - Top.base
        BY <1>1, <1>4, <1>5
      <3>a. at \in Int /\ size \in Int
        BY <1>3, WordFacts
      <3>b. Top.base <= at /\ at + size <= Top.base + (at + size - Top.base)
        BY <1>2, <1>3, <3>a
      <3>1. Within(c, blocks'[1])
        BY <1>7, <3>0, <3>b DEF Within
      <3>. QED  BY <1>1, <2>0, <2>1, <3>1
    <2>2. CASE a \in live
      <3>1. PICK i \in 1 .. Len(blocks) : Within(a, blocks[i])
        BY <1>0, <2>2, LiveFacts
      <3>2. CASE i = 1
        <4>0. blocks'[1].base = Top.base /\ blocks'[1].used = at + size - Top.base
          BY <1>1, <1>4, <1>5
        <4>a. at \in Int /\ size \in Nat /\ a.at \in Int /\ a.size \in Int
          BY <1>0, <1>3, <2>2, LiveFacts, WordFacts
        <4>1. Within(a, blocks'[1])
          <5>1. Within(a, Top) /\ blocks'[1].used \in Int /\ Top.used <= blocks'[1].used
            BY <1>1, <1>2, <1>3, <3>1, <3>2, <4>0, <4>a, SMTT(30)
          <5>2. Top.base \in Int /\ Top.used \in Int /\ blocks'[1].base = Top.base
            BY <1>2, <4>0
          <5>. QED  BY <4>a, <5>1, <5>2, StillWithin, Zenon
        <4>. QED  BY <1>1, <2>0, <4>1
      <3>3. CASE i # 1
        BY <1>5, <2>0, <3>1, <3>3
      <3>. QED  BY <3>2, <3>3
    <2>. QED  BY <1>7, <2>1, <2>2
  <1>10. Holding'
    <2>1. c.at % c.align = 0 /\ c.align + HeaderBytes < Word
      BY <1>3, <1>7
    <2>. QED  BY <1>0, <1>7, <1>8, <1>9, <2>1, Held
  <1>11. Framed'
    BY <1>0, FramedStays DEF Framed
  <1>12. Heap!Next
    <2>1. c.at % c.align = 0 /\ (given = {} \/ \E a \in live : given = {a} /\ c.align = a.align)
      BY <1>3, <1>7
    <2>. QED  BY <1>7, <1>8, <2>1, IsAllocation
  <1>13. ArenaIndInv'
    BY <1>5, <1>10, <1>11, ArenaParts DEF ArenaIndInv, Inv, TypeOK, Memory, Holding, Framed
  <1>. QED  BY <1>12, <1>13


\* Every block lies in memory that the parent has lent, when there is a parent.
LEMMA BlocksLent ==
  ASSUME Memory, status = "open", hasParent, NEW i \in 1 .. Len(blocks)
  PROVE  \E e \in lent : /\ e.at \in Nat /\ e.size \in Nat
                         /\ e.at <= blocks[i].base - HeaderBytes /\ blocks[i].base + blocks[i].size <= e.at + e.size
  <1>0. blocks[i].base \in Nat /\ blocks[i].size \in Nat /\ Len(blocks) \in Nat /\ i \in DOMAIN blocks
    BY BlockFacts, WordFacts
  <1>1. HeaderBytes \in Nat /\ ControlBytes \in Nat
    BY WordFacts
  <1>2. CASE i < Len(blocks)
    <2>1. BlockExtent(blocks[i]) \in OwnedExtents
      BY <1>0, <1>2, BlockFacts DEF OwnedExtents
    <2>2. BlockExtent(blocks[i]) \in lent
      BY <2>1 DEF Memory, Ledger
    <2>3. PICK e \in lent : e = BlockExtent(blocks[i])
      BY <2>2
    <2>4. e.at = blocks[i].base - HeaderBytes /\ e.size = HeaderBytes + blocks[i].size /\ e.at \in Nat
      BY <2>3, <1>0, <1>1, BlockFacts DEF BlockExtent
    <2>5. e.size \in Nat /\ e.at <= blocks[i].base - HeaderBytes /\ blocks[i].base + blocks[i].size <= e.at + e.size
      BY <1>0, <1>1, <2>4
    <2>. QED  BY <2>4, <2>5
  <1>3. CASE i = Len(blocks)
    <2>1. control \in lent
      BY DEF Memory, Ledger
    <2>2. control.at \in Nat /\ control.size \in Nat
      BY <2>1, WordFacts DEF Memory, Extent
    <2>3. /\ control.at + ControlBytes + HeaderBytes <= blocks[i].base
          /\ blocks[i].base + blocks[i].size = control.at + control.size
      BY <1>3 DEF Memory, ControlOK
    <2>4. control.at <= blocks[i].base - HeaderBytes
      BY <1>0, <1>1, <2>2, <2>3
    <2>5. blocks[i].base + blocks[i].size <= control.at + control.size
      BY <1>0, <2>2, <2>3
    <2>. QED  BY <2>1, <2>2, <2>4, <2>5
  <1>. QED  BY <1>0, <1>2, <1>3

\* Bounds of what the parent may lend, and that it lies apart from every block.
LEMMA LendableApart ==
  ASSUME Memory, status = "open", hasParent, NEW want \in 1 .. Word - 1, NEW p \in Lendable(want),
         NEW i \in 1 .. Len(blocks)
  PROVE  \/ p + want <= blocks[i].base - HeaderBytes
         \/ blocks[i].base + blocks[i].size <= p
  <1>1. PICK e \in lent : /\ e.at \in Nat /\ e.size \in Nat
                          /\ e.at <= blocks[i].base - HeaderBytes /\ blocks[i].base + blocks[i].size <= e.at + e.size
    BY BlocksLent
  <1>2. p + want <= e.at \/ e.at + e.size <= p
    BY DEF Lendable
  <1>3. p \in Int /\ want \in Int /\ HeaderBytes \in Int
    BY WordFacts, PlaceAssumption DEF Lendable
  <1>4. blocks[i].base \in Int /\ blocks[i].size \in Int
    BY BlockFacts, WordFacts
  <1>. QED  BY <1>1, <1>2, <1>3, <1>4, SMTT(30)

\* A block from the parent joins the chain in front.
LEMMA NewBlock ==
  ASSUME Memory, status = "open", hasParent, NEW want \in 1 .. Word - 1, HeaderBytes <= want,
         NEW p \in Lendable(want),
         NEW b \in Block, b.base = p + HeaderBytes, b.size = want - HeaderBytes, b.used <= b.size, b.owned = TRUE,
         blocks' = <<b>> \o blocks, lent' = lent \cup {BlockExtent(b)}, block_bytes' = want,
         UNCHANGED <<status, hasParent, control>>
  PROVE  /\ Memory' /\ Len(blocks') = Len(blocks) + 1 /\ blocks'[1] = b
         /\ \A i \in 1 .. Len(blocks) : blocks'[i + 1] = blocks[i]
  <1>0. Len(blocks) \in Nat \ {0} /\ blocks \in Seq(Block)
    BY OpenTop, BlockFacts DEF Memory
  <1>1. /\ blocks' \in Seq(Block) /\ Len(blocks') = Len(blocks) + 1 /\ blocks'[1] = b
        /\ DOMAIN blocks' = 1 .. Len(blocks) + 1 /\ DOMAIN blocks = 1 .. Len(blocks)
    BY <1>0
  <1>2. \A i \in 1 .. Len(blocks) : blocks'[i + 1] = blocks[i]
    BY <1>0
  <1>3. \A j \in 1 .. Len(blocks) + 1 : j # 1 => j - 1 \in 1 .. Len(blocks) /\ blocks'[j] = blocks[j - 1]
    <2>1. SUFFICES ASSUME NEW j \in 1 .. Len(blocks) + 1, j # 1
                   PROVE  j - 1 \in 1 .. Len(blocks) /\ blocks'[j] = blocks[j - 1]
      OBVIOUS
    <2>2. PICK i \in 1 .. Len(blocks) : j = i + 1 /\ j - 1 = i
      BY <1>0, <2>1
    <2>. QED  BY <1>2, <2>2
  <1>4. p \in Nat \ {0} /\ p + want < Word /\ want \in Nat /\ HeaderBytes \in Nat \ {0}
    BY WordFacts, PlaceAssumption DEF Lendable
  <1>5. b.base > HeaderBytes /\ b.base + b.size < Word /\ b.base \in Nat /\ b.size \in Nat
    BY <1>4
  <1>6. BlockExtent(b) = [at |-> p, size |-> want]
    BY <1>4 DEF BlockExtent
  <1>7. \A i \in 1 .. Len(blocks) : Heap!Apart(BlockExtent(b), BlockExtent(blocks[i]))
    <2>1. SUFFICES ASSUME NEW i \in 1 .. Len(blocks) PROVE Heap!Apart(BlockExtent(b), BlockExtent(blocks[i]))
      OBVIOUS
    <2>2. \/ p + want <= blocks[i].base - HeaderBytes
          \/ blocks[i].base + blocks[i].size <= p
      BY LendableApart
    <2>3. blocks[i].base \in Int /\ blocks[i].size \in Int
      BY BlockFacts, WordFacts
    <2>4. BlockExtent(blocks[i]).at = blocks[i].base - HeaderBytes
          /\ BlockExtent(blocks[i]).at + BlockExtent(blocks[i]).size = blocks[i].base + blocks[i].size
      BY <1>4, <2>3 DEF BlockExtent
    <2>. QED  BY <1>6, <2>2, <2>4 DEF Heap!Apart
  <1>8. BlocksOK'
    <2>1. ASSUME NEW j \in 1 .. Len(blocks) + 1
          PROVE  /\ blocks'[j].base > HeaderBytes
                 /\ blocks'[j].base + blocks'[j].size < Word
                 /\ blocks'[j].used <= blocks'[j].size
                 /\ blocks'[j].owned <=> j < Len(blocks) + 1
      <3>1. CASE j = 1
        BY <1>0, <1>1, <1>5, <3>1
      <3>2. CASE j # 1
        <4>1. PICK i \in 1 .. Len(blocks) : blocks'[j] = blocks[i] /\ j = i + 1
          BY <1>0, <1>3, <3>2
        <4>2. i < Len(blocks) <=> j < Len(blocks) + 1
          BY <1>0, <4>1
        <4>. QED  BY <4>1, <4>2, BlockFacts
      <3>. QED  BY <3>1, <3>2
    <2>2. ASSUME NEW i \in 1 .. Len(blocks) + 1, NEW j \in 1 .. Len(blocks) + 1, i # j
          PROVE  Heap!Apart(BlockExtent(blocks'[i]), BlockExtent(blocks'[j]))
      <3>1. CASE i = 1
        BY <1>1, <1>3, <1>7, <2>2, <3>1
      <3>2. CASE j = 1
        <4>1. Heap!Apart(BlockExtent(blocks'[j]), BlockExtent(blocks'[i]))
          BY <1>1, <1>3, <1>7, <2>2, <3>2
        <4>. QED  BY <4>1, Zenon DEF Heap!Apart
      <3>3. CASE i # 1 /\ j # 1
        <4>1. PICK k \in 1 .. Len(blocks) : blocks'[i] = blocks[k] /\ i = k + 1
          BY <1>0, <1>3, <3>3
        <4>2. PICK l \in 1 .. Len(blocks) : blocks'[j] = blocks[l] /\ j = l + 1
          BY <1>0, <1>3, <3>3
        <4>3. k # l
          BY <2>2, <4>1, <4>2
        <4>. QED  BY <1>1, <4>1, <4>2, <4>3 DEF Memory, BlocksOK
      <3>. QED  BY <3>1, <3>2, <3>3
    <2>. QED  BY <1>1, <2>1, <2>2 DEF BlocksOK
  <1>9. OwnedExtents' = OwnedExtents \cup {BlockExtent(b)}
    <2>1. ASSUME NEW e \in OwnedExtents' PROVE e \in OwnedExtents \cup {BlockExtent(b)}
      <3>1. PICK j \in 1 .. Len(blocks) + 1 : blocks'[j].owned /\ e = BlockExtent(blocks'[j])
        BY <1>1 DEF OwnedExtents
      <3>2. CASE j = 1
        BY <1>1, <3>1, <3>2
      <3>3. CASE j # 1
        BY <1>1, <1>3, <3>1, <3>3 DEF OwnedExtents
      <3>. QED  BY <3>2, <3>3
    <2>2. ASSUME NEW e \in OwnedExtents PROVE e \in OwnedExtents'
      <3>1. PICK i \in 1 .. Len(blocks) : blocks[i].owned /\ e = BlockExtent(blocks[i])
        BY <1>1 DEF OwnedExtents
      <3>2. i + 1 \in 1 .. Len(blocks) + 1 /\ blocks'[i + 1] = blocks[i]
        BY <1>0, <1>2
      <3>. QED  BY <1>1, <3>1, <3>2 DEF OwnedExtents
    <2>3. BlockExtent(b) \in OwnedExtents'
      <3>1. 1 \in 1 .. Len(blocks) + 1
        BY <1>0
      <3>. QED  BY <1>1, <3>1 DEF OwnedExtents
    <2>. QED  BY <2>1, <2>2, <2>3
  <1>10. ControlOK'
    <2>1. Len(blocks) \in 1 .. Len(blocks)
      BY <1>0
    <2>2. blocks'[Len(blocks')] = blocks[Len(blocks)] /\ Len(blocks') >= 1
      BY <1>0, <1>1, <1>2, <2>1
    <2>. QED  BY <2>2, <1>4 DEF Memory, ControlOK
  <1>11. LentOK'
    <2>1. \A e \in lent : Heap!Apart(BlockExtent(b), e)
      BY <1>6 DEF Lendable, Heap!Apart
    <2>2. SUFFICES ASSUME NEW d \in lent', NEW e \in lent', d # e PROVE Heap!Apart(d, e)
      BY DEF LentOK
    <2>3. CASE d \in lent /\ e \in lent
      BY <2>2, <2>3 DEF Memory, LentOK
    <2>4. CASE d = BlockExtent(b)
      BY <2>1, <2>2, <2>4
    <2>5. CASE e = BlockExtent(b)
      <3>1. Heap!Apart(e, d)
        BY <2>1, <2>2, <2>5
      <3>. QED  BY <3>1, Zenon DEF Heap!Apart
    <2>. QED  BY <2>3, <2>4, <2>5
  <1>12. Ledger'
    BY <1>9 DEF Memory, Ledger
  <1>13. lent' \subseteq Extent
    <2>1. BlockExtent(b) \in Extent
      BY <1>4, <1>6, WordFacts DEF Extent
    <2>. QED  BY <2>1 DEF Memory
  <1>. QED  BY <1>1, <1>2, <1>8, <1>10, <1>11, <1>12, <1>13 DEF Memory

\* What lies in memory the parent has just lent shares no byte with anything live.
LEMMA LendableFree ==
  ASSUME Memory, Holding, status = "open", hasParent, NEW want \in 1 .. Word - 1, NEW p \in Lendable(want),
         NEW at \in Int, NEW size \in Int, p <= at, at + size <= p + want, NEW a \in live
  PROVE  at + size <= a.at \/ a.at + a.size <= at
  <1>1. PICK i \in 1 .. Len(blocks) : Within(a, blocks[i])
    BY LiveFacts
  <1>2. p + want <= blocks[i].base - HeaderBytes \/ blocks[i].base + blocks[i].size <= p
    BY LendableApart
  <1>3. blocks[i].base \in Nat /\ blocks[i].size \in Nat /\ blocks[i].used \in Nat /\ blocks[i].used <= blocks[i].size
    BY BlockFacts, WordFacts
  <1>4. a.at \in Int /\ a.size \in Int /\ HeaderBytes \in Nat
    BY LiveFacts, WordFacts
  <1>5. p \in Int /\ want \in Int
    BY WordFacts, PlaceAssumption DEF Lendable
  <1>6. blocks[i].base <= a.at /\ a.at + a.size <= blocks[i].base + blocks[i].used
    BY <1>1 DEF Within
  <1>. QED  BY <1>2, <1>3, <1>4, <1>5, <1>6, SMTT(30)

\* A new block has room for a request and its alignment.
LEMMA GrownRoom ==
  ASSUME NEW b \in Block, b.base + b.size < Word, b.used = 0, b.owned = TRUE,
         NEW size \in 1 .. Word - 1, NEW n \in 1 .. Word - 1, size + n <= b.size
  PROVE  /\ arena_bump(b, size, n) \in 1 .. Word - 1 /\ arena_bump(b, size, n) % n = 0
         /\ b.base <= arena_bump(b, size, n) /\ arena_bump(b, size, n) + size <= b.base + b.size
         /\ \E t \in Block : /\ t = Bumped(b, arena_bump(b, size, n), size) /\ t.base = b.base /\ t.size = b.size
                             /\ t.owned = TRUE /\ t.used <= t.size /\ Within([at |-> arena_bump(b, size, n), size |-> size, align |-> n], t)
  <1>0. Word \in Nat /\ size \in Nat \ {0} /\ n \in Nat \ {0} /\ b.base \in Nat /\ b.size \in Nat /\ b.size < Word
    BY WordFacts DEF Block
  <1>1. PICK at : at = arena_bump(b, size, n)
    OBVIOUS
  <1>2. b.used <= b.size /\ b.used + n + size <= b.size
    BY <1>0
  <1>3. at # 0
    BY <1>1, <1>2, BumpRoom
  <1>4. at \in 1 .. Word - 1 /\ at \in Nat
    BY <1>0, <1>1, <1>2, <1>3, BumpFits
  <1>5. at % n = 0 /\ b.base <= at /\ at + size <= b.base + b.size
    <2>1. at % n = 0 /\ b.base + b.used <= at /\ at + size <= b.base + b.size
      BY <1>1, <1>2, <1>3, BumpFits
    <2>. QED  BY <1>0, <1>4, <2>1
  <1>6. Bumped(b, at, size) = [b EXCEPT !.used = at + size - b.base]
    BY <1>1, <1>2, <1>3, BumpFits
  <1>7. PICK u \in 0 .. Word - 1 : u = at + size - b.base
    BY <1>0, <1>4, <1>5
  <1>8. u <= b.size /\ at + size <= b.base + u
    BY <1>0, <1>4, <1>5, <1>7
  <1>9. PICK t : t = [b EXCEPT !.used = u]
    OBVIOUS
  <1>10. t \in Block /\ t.base = b.base /\ t.size = b.size /\ t.owned = TRUE /\ t.used = u
    BY <1>9 DEF Block
  <1>11. Within([at |-> at, size |-> size, align |-> n], t)
    BY <1>5, <1>8, <1>10 DEF Within
  <1>. QED  BY <1>1, <1>4, <1>5, <1>6, <1>7, <1>8, <1>9, <1>10, <1>11

\* A block laid out over the bytes lent at p.
LaidOut(b, p, want) ==
    b \in Block /\ b.base = p + HeaderBytes /\ b.size = want - HeaderBytes /\ b.used = 0 /\ b.owned = TRUE

\* arena_grow: the block the parent lends has room for the request, which goes there.
LEMMA Grows ==
  ASSUME ArenaIndInv, status = "open", NEW given \in SUBSET live,
         NEW size \in 1 .. Word - 1, NEW n \in 1 .. Word - 1, n + HeaderBytes < Word,
         given = {} \/ \E a \in live : given = {a} /\ n = a.align,
         CanGrow(size, n), NEW want, want = Want(size, n), NEW p \in Lendable(want),
         NEW b, LaidOut(b, p, want),
         NEW at, at = arena_bump(b, size, n),
         blocks' = <<IF at = 0 THEN b ELSE Bumped(b, at, size)>> \o blocks,
         block_bytes' = want, lent' = lent \cup {BlockExtent(b)}, starved' = (at = 0),
         Hold(given, at, size, n), UNCHANGED <<status, hasParent, control>>
  PROVE  ArenaIndInv' /\ Heap!Next
  <1>0. Memory /\ Holding /\ Framed /\ hasParent
    BY ArenaParts DEF CanGrow
  <1>1. want \in 1 .. Word - 1 /\ size + n + HeaderBytes <= want
    BY WantEnough
  <1>2. /\ p \in Nat \ {0} /\ p + want < Word /\ want \in Nat /\ HeaderBytes \in Nat \ {0}
        /\ size \in Nat \ {0} /\ n \in Nat \ {0} /\ Word \in Nat
    BY <1>1, WordFacts, PlaceAssumption DEF Lendable
  <1>6. b \in Block /\ b.base = p + HeaderBytes /\ b.size = want - HeaderBytes /\ b.used = 0 /\ b.owned = TRUE
    BY DEF LaidOut
  <1>3. b \in Block /\ b.used = 0 /\ b.owned = TRUE /\ b.base + b.size < Word /\ size + n <= b.size
    BY <1>1, <1>2, <1>6
  <1>4. /\ at \in 1 .. Word - 1 /\ at % n = 0
        /\ b.base <= at /\ at + size <= b.base + b.size
    BY <1>3, GrownRoom
  <1>5. at # 0 /\ at \in Int /\ size \in Int /\ p <= at /\ at + size <= p + want
    <2>1. at # 0 /\ at \in Int /\ size \in Int
      BY <1>2, <1>4
    <2>2. p + HeaderBytes <= at /\ at + size <= (p + HeaderBytes) + (want - HeaderBytes)
      BY <1>4, <1>6
    <2>. QED  BY <1>2, <2>1, <2>2
  <1>9. PICK t \in Block : /\ t = Bumped(b, at, size) /\ t.base = b.base /\ t.size = b.size
                           /\ t.owned = TRUE /\ t.used <= t.size
                           /\ Within([at |-> at, size |-> size, align |-> n], t)
    BY <1>3, GrownRoom
  <1>10. BlockExtent(t) = BlockExtent(b) /\ blocks' = <<t>> \o blocks
    BY <1>5, <1>9 DEF BlockExtent
  <1>11. /\ Memory' /\ Len(blocks') = Len(blocks) + 1 /\ blocks'[1] = t
         /\ \A i \in 1 .. Len(blocks) : blocks'[i + 1] = blocks[i]
    <2>1. HeaderBytes <= want
      BY <1>1, <1>2
    <2>2. t.base = p + HeaderBytes /\ t.size = want - HeaderBytes
      BY <1>6, <1>9
    <2>3. lent' = lent \cup {BlockExtent(t)}
      BY <1>10
    <2>. QED  BY <1>0, <1>1, <1>9, <1>10, <2>1, <2>2, <2>3, NewBlock
  <1>12. PICK c : c = [at |-> at, size |-> size, align |-> n]
    OBVIOUS
  <1>13. c \in Heap!Allocation /\ c.at = at /\ c.size = size /\ c.align = n /\ live' = (live \ given) \cup {c}
    BY <1>4, <1>5, <1>12 DEF Heap!Allocation, Hold
  <1>14. ASSUME NEW a \in live PROVE Heap!Apart(c, a)
    <2>1. at + size <= a.at \/ a.at + a.size <= at
      BY <1>0, <1>1, <1>2, <1>5, LendableFree, Zenon
    <2>. QED  BY <1>13, <2>1 DEF Heap!Apart
  <1>15. ASSUME NEW a \in live' PROVE \E i \in DOMAIN blocks' : Within(a, blocks'[i])
    <2>0. DOMAIN blocks' = 1 .. Len(blocks) + 1 /\ Len(blocks) \in Nat
      BY <1>0, <1>11 DEF Memory
    <2>1. CASE a = c
      <3>1. Within(c, t)
        BY <1>9, <1>12
      <3>2. 1 \in 1 .. Len(blocks) + 1
        BY <2>0
      <3>. QED  BY <1>11, <2>0, <2>1, <3>1, <3>2
    <2>2. CASE a \in live
      <3>1. PICK i \in 1 .. Len(blocks) : Within(a, blocks[i])
        BY <1>0, <2>2, LiveFacts
      <3>2. i + 1 \in 1 .. Len(blocks) + 1
        BY <2>0
      <3>. QED  BY <1>11, <2>0, <3>1, <3>2
    <2>. QED  BY <1>13, <2>1, <2>2
  <1>16. c.at % c.align = 0 /\ c.align + HeaderBytes < Word
         /\ (given = {} \/ \E a \in live : given = {a} /\ c.align = a.align)
    BY <1>4, <1>13
  <1>17. Holding'
    BY <1>0, <1>13, <1>14, <1>15, <1>16, Held
  <1>18. Heap!Next
    BY <1>13, <1>14, <1>16, IsAllocation
  <1>19. Framed'
    <2>1. block_bytes' \in 0 .. Word - 1 /\ starved' = FALSE
      <3>1. want \in 0 .. Word - 1
        BY <1>1, <1>2
      <3>. QED  BY <1>5, <3>1, Zenon
    <2>. QED  BY <1>0, <2>1, Zenon DEF Framed, GrowSuffices, MinBufferSuffices
  <1>20. ArenaIndInv'
    BY <1>11, <1>17, <1>19 DEF ArenaIndInv, Inv, TypeOK, Memory, Holding, Framed
  <1>. QED  BY <1>18, <1>20

\* A refusal changes nothing.
LEMMA Refuses ==
  ASSUME ArenaIndInv, NEW given, NEW size, NEW n,
         UNCHANGED <<blocks, block_bytes, lent, starved>>, Hold(given, 0, size, n),
         UNCHANGED <<status, hasParent, control>>
  PROVE  ArenaIndInv' /\ UNCHANGED live
  <1>1. live' = live
    BY DEF Hold
  <1>. QED  BY <1>1 DEF ArenaIndInv, LiveAligned, Inv, TypeOK, BlocksOK, ControlOK, LentOK, Ledger, OwnedExtents,
              LiveApart, LiveInBlocks, GrowSuffices, MinBufferSuffices

\* arena_alloc, in each of its ways.
LEMMA Obtains ==
  ASSUME ArenaIndInv, status = "open", NEW given \in SUBSET live,
         NEW size \in 0 .. Word - 1, NEW n \in 1 .. Word - 1, n + HeaderBytes < Word,
         given = {} \/ \E a \in live : given = {a} /\ n = a.align,
         Obtain(given, size, n), UNCHANGED <<status, hasParent, control>>
  PROVE  ArenaIndInv' /\ (Heap!Next \/ UNCHANGED live)
  <1>1. PICK at : at = arena_bump(Top, size, n)
    OBVIOUS
  <1>2. CASE /\ size # 0 /\ at # 0
             /\ blocks' = [blocks EXCEPT ![1] = Bumped(Top, at, size)]
             /\ UNCHANGED <<block_bytes, lent, starved>>
             /\ Hold(given, at, size, n)
    <2>1. size \in 1 .. Word - 1
      BY <1>2, WordFacts
    <2>. QED  BY <1>1, <1>2, <2>1, BumpsTop
  <1>3. ASSUME size # 0, CanGrow(size, n), NEW p \in Lendable(Want(size, n)), NEW want, want = Want(size, n),
               NEW b, b = GrownBlock(p, want),
               NEW again, again = arena_bump(b, size, n),
               blocks' = <<IF again = 0 THEN b ELSE Bumped(b, again, size)>> \o blocks,
               block_bytes' = want, lent' = lent \cup {BlockExtent(b)}, starved' = (again = 0),
               Hold(given, again, size, n)
        PROVE  ArenaIndInv' /\ Heap!Next
    <2>1. size \in 1 .. Word - 1
      BY <1>3, WordFacts
    <2>6. p \in Lendable(want)
      BY <1>3
    <2>2. want \in 1 .. Word - 1 /\ size + n + HeaderBytes <= want
      BY <1>3, <2>1, WantEnough
    <2>3. p \in Nat \ {0} /\ p + want < Word /\ HeaderBytes \in Nat \ {0} /\ Word \in Nat /\ n \in Nat /\ size \in Nat
      BY <1>3, WordFacts, PlaceAssumption DEF Lendable
    <2>4. p + HeaderBytes \in 1 .. Word - 1 /\ want - HeaderBytes \in 0 .. Word - 1 /\ 0 \in 0 .. Word - 1
      BY <2>2, <2>3
    <2>5. LaidOut(b, p, want)
      BY <1>3, <2>4 DEF Block, GrownBlock, LaidOut
    <2>. QED  BY <1>3, <2>1, <2>5, <2>6, Grows
  <1>4. CASE UNCHANGED <<blocks, block_bytes, lent, starved>> /\ Hold(given, 0, size, n)
    BY <1>4, Refuses
  <1>. QED  BY <1>1, <1>2, <1>3, <1>4, Zenon DEF Obtain

\* arena_alloc, as the record calls it.
LEMMA ArenaAlloc ==
  ASSUME ArenaIndInv, NEW size \in Sizes, NEW align \in Aligns, Alloc(size, align)
  PROVE  ArenaIndInv' /\ (Heap!Next \/ UNCHANGED live)
  <1>1. PICK n : n = arena_align(align)
    OBVIOUS
  <1>2. size \in 0 .. Word - 1 /\ n \in 1 .. Word - 1 /\ n + HeaderBytes < Word
    <2>1. size \in 0 .. Word - 1 /\ align \in 0 .. Word - 1 /\ align + HeaderBytes < Word
      BY RequestAssumption
    <2>2. 1 + HeaderBytes < Word
      BY WordFacts, LayoutAssumption
    <2>. QED  BY <1>1, <2>1, <2>2, WordFacts DEF arena_align
  <1>3. status = "open" /\ Obtain({}, size, n) /\ UNCHANGED <<status, hasParent, control>>
    BY <1>1 DEF Alloc
  <1>4. {} \in SUBSET live
    OBVIOUS
  <1>. QED  BY <1>2, <1>3, <1>4, Obtains

\* An allocation that keeps its place is Allocator's Resize.
LEMMA Resized ==
  ASSUME NEW a \in live, NEW c \in Heap!Allocation, c.at = a.at, c.align = a.align, c.at % c.align = 0,
         live' = (live \ {a}) \cup {c}, \A b \in live \ {a} : Heap!Apart(c, b)
  PROVE  Heap!Next
  <1>1. Heap!Fits(c, live \ {a}) /\ c \in live'
    BY DEF Heap!Fits
  <1>. QED  BY <1>1 DEF Heap!Next, Heap!Resize

\* arena_resize of the top allocation, within its block.
LEMMA ResizesTop ==
  ASSUME ArenaIndInv, status = "open", NEW a \in live, NEW size \in 1 .. Word - 1, RoomAtTop(a, size),
         blocks' = [blocks EXCEPT ![1] = Bumped(Top, a.at, size)], Hold({a}, a.at, size, a.align),
         UNCHANGED <<status, hasParent, block_bytes, control, lent, starved>>
  PROVE  ArenaIndInv' /\ Heap!Next
  <1>0. Memory /\ Holding /\ Framed
    BY ArenaParts
  <1>1. 1 \in 1 .. Len(blocks) /\ Top = blocks[1] /\ Len(blocks) \in Nat
    BY <1>0, OpenTop, BlockFacts DEF Top
  <1>2. Top.base \in Nat /\ Top.size \in Nat /\ Top.used \in Nat /\ Top.base + Top.size < Word
    BY <1>0, <1>1, BlockFacts, WordFacts
  <1>3. /\ a.at \in 1 .. Word - 1 /\ a.align \in 1 .. Word - 1 /\ a.at \in Nat /\ a.size \in Nat
        /\ a.at % a.align = 0 /\ a.align + HeaderBytes < Word /\ size \in Nat \ {0} /\ Word \in Nat
    BY <1>0, LiveFacts, WordFacts
  <1>4. /\ a.at + a.size = Top.base + Top.used /\ Top.base <= a.at
        /\ \A b \in live \ {a} : Within(b, Top) => b.at + b.size <= a.at
    BY <1>0, TopAllocation DEF RoomAtTop
  <1>5. Add(a.at, size) = a.at + size /\ a.at + size <= Top.base + Top.size
    <2>1. Add(Top.base, Top.size) = Top.base + Top.size
      BY <1>2 DEF Add
    <2>2. Add(a.at, size) >= a.at /\ Add(a.at, size) <= Top.base + Top.size
      BY <2>1 DEF RoomAtTop
    <2>3. Add(a.at, size) = a.at + size
      BY <1>3, <2>2 DEF Add
    <2>. QED  BY <2>2, <2>3
  <1>6. PICK u \in 0 .. Top.size : u = Add(a.at, size) - Top.base /\ u = a.at + size - Top.base
    BY <1>2, <1>3, <1>4, <1>5
  <1>7. blocks' = [blocks EXCEPT ![1] = [Top EXCEPT !.used = u]]
    BY <1>6, Zenon DEF Bumped
  <1>8. /\ Memory' /\ Len(blocks') = Len(blocks) /\ blocks'[1].used = u
        /\ \A i \in 1 .. Len(blocks) : /\ blocks'[i].base = blocks[i].base /\ blocks'[i].size = blocks[i].size
                                       /\ i # 1 => blocks'[i] = blocks[i]
    BY <1>0, <1>7, TopUsed
  <1>9. PICK c : c = [at |-> a.at, size |-> size, align |-> a.align]
    OBVIOUS
  <1>10. c \in Heap!Allocation /\ c.at = a.at /\ c.size = size /\ c.align = a.align /\ live' = (live \ {a}) \cup {c}
    <2>1. a.at # 0
      BY <1>3
    <2>. QED  BY <1>3, <1>9, <2>1 DEF Heap!Allocation, Hold
  <1>11. \A b \in live : b.at \in Int /\ b.size \in Int
    BY <1>0, LiveFacts
  <1>12. ASSUME NEW b \in live \ {a} PROVE Heap!Apart(c, b)
    <2>1. PICK j \in 1 .. Len(blocks) : Within(b, blocks[j])
      BY <1>0, LiveFacts
    <2>2. CASE j = 1
      BY <1>1, <1>4, <1>10, <2>1, <2>2 DEF Heap!Apart
    <2>3. CASE j # 1
      <3>1. a.at + size <= b.at \/ b.at + b.size <= a.at
        BY <1>0, <1>1, <1>3, <1>4, <1>5, <1>11, <2>1, <2>3, OtherBlock
      <3>. QED  BY <1>10, <3>1 DEF Heap!Apart
    <2>. QED  BY <2>2, <2>3
  <1>13. ASSUME NEW b \in live' PROVE \E i \in DOMAIN blocks' : Within(b, blocks'[i])
    <2>0. DOMAIN blocks' = 1 .. Len(blocks) /\ blocks'[1].base = Top.base
      BY <1>1, <1>8 DEF Memory
    <2>1. CASE b = c
      <3>1. Top.base <= a.at /\ a.at + size <= Top.base + u
        BY <1>2, <1>3, <1>4, <1>6
      <3>2. Within(c, blocks'[1])
        BY <1>8, <1>10, <2>0, <3>1 DEF Within
      <3>. QED  BY <1>1, <2>0, <2>1, <3>2
    <2>2. CASE b \in live \ {a}
      <3>1. PICK i \in 1 .. Len(blocks) : Within(b, blocks[i])
        BY <1>0, <2>2, LiveFacts
      <3>2. CASE i = 1
        <4>1. Top.base <= b.at /\ b.at + b.size <= a.at
          BY <1>1, <1>4, <2>2, <3>1, <3>2 DEF Within
        <4>2. b.at + b.size <= Top.base + u
          <5>1. b.at \in Int /\ b.size \in Int
            BY <1>11, <2>2
          <5>2. a.at <= Top.base + u
            BY <1>2, <1>3, <1>6
          <5>3. u \in Int
            BY <1>2
          <5>. QED  BY <1>2, <1>3, <4>1, <5>1, <5>2, <5>3, SMTT(30)
        <4>3. Within(b, blocks'[1])
          BY <1>8, <2>0, <4>1, <4>2 DEF Within
        <4>. QED  BY <1>1, <2>0, <4>3
      <3>3. CASE i # 1
        BY <1>8, <2>0, <3>1, <3>3
      <3>. QED  BY <3>2, <3>3
    <2>. QED  BY <1>10, <2>1, <2>2
  <1>14. c.at % c.align = 0 /\ c.align + HeaderBytes < Word
    BY <1>3, <1>10
  <1>15. Holding'
    BY <1>0, <1>10, <1>12, <1>13, <1>14, Held
  <1>16. Framed'
    BY <1>0, FramedStays DEF Framed
  <1>17. Heap!Next
    BY <1>10, <1>12, <1>14, Resized
  <1>18. ArenaIndInv'
    BY <1>8, <1>15, <1>16 DEF ArenaIndInv, Inv, TypeOK, Memory, Holding, Framed
  <1>. QED  BY <1>17, <1>18

\* arena_resize to no more bytes, anywhere.
LEMMA Shrinks ==
  ASSUME ArenaIndInv, status = "open", NEW a \in live, NEW size \in 1 .. Word - 1, size <= a.size,
         Hold({a}, a.at, size, a.align),
         UNCHANGED <<status, hasParent, blocks, block_bytes, control, lent, starved>>
  PROVE  ArenaIndInv' /\ Heap!Next
  <1>0. Memory /\ Holding /\ Framed /\ Memory'
    BY ArenaParts, MemoryStays
  <1>3. /\ a.at \in 1 .. Word - 1 /\ a.align \in 1 .. Word - 1 /\ a.at \in Nat /\ a.size \in Nat
        /\ a.at % a.align = 0 /\ a.align + HeaderBytes < Word /\ size \in Nat \ {0}
    BY <1>0, LiveFacts, WordFacts
  <1>9. PICK c : c = [at |-> a.at, size |-> size, align |-> a.align]
    OBVIOUS
  <1>10. c \in Heap!Allocation /\ c.at = a.at /\ c.size = size /\ c.align = a.align /\ live' = (live \ {a}) \cup {c}
    <2>1. a.at # 0
      BY <1>3
    <2>. QED  BY <1>3, <1>9, <2>1 DEF Heap!Allocation, Hold
  <1>11. \A b \in live : b.at \in Int /\ b.size \in Int
    BY <1>0, LiveFacts
  <1>12. ASSUME NEW b \in live \ {a} PROVE Heap!Apart(c, b)
    <2>1. a.at + a.size <= b.at \/ b.at + b.size <= a.at
      BY <1>0 DEF Holding, LiveApart, Heap!Apart
    <2>2. a.at + size <= b.at \/ b.at + b.size <= a.at
      BY <1>3, <1>11, <2>1
    <2>. QED  BY <1>10, <2>2 DEF Heap!Apart
  <1>13. ASSUME NEW b \in live' PROVE \E i \in DOMAIN blocks' : Within(b, blocks'[i])
    <2>0. DOMAIN blocks' = 1 .. Len(blocks) /\ blocks' = blocks
      BY <1>0 DEF Memory
    <2>1. CASE b = c
      <3>1. PICK i \in 1 .. Len(blocks) : Within(a, blocks[i])
        BY <1>0, LiveFacts
      <3>2. blocks[i].base \in Nat /\ blocks[i].used \in Nat
        BY <1>0, BlockFacts, WordFacts
      <3>3. blocks[i].base <= a.at /\ a.at + size <= blocks[i].base + blocks[i].used
        <4>1. blocks[i].base <= a.at /\ a.at + a.size <= blocks[i].base + blocks[i].used
          BY <3>1 DEF Within
        <4>. QED  BY <1>3, <3>2, <4>1
      <3>4. Within(c, blocks[i])
        BY <1>10, <3>3 DEF Within
      <3>. QED  BY <2>0, <2>1, <3>4
    <2>2. CASE b \in live \ {a}
      BY <1>0, <2>0, <2>2, LiveFacts
    <2>. QED  BY <1>10, <2>1, <2>2
  <1>14. c.at % c.align = 0 /\ c.align + HeaderBytes < Word
    BY <1>3, <1>10
  <1>15. Holding'
    BY <1>0, <1>10, <1>12, <1>13, <1>14, Held
  <1>16. Framed'
    BY <1>0, FramedStays DEF Framed
  <1>17. Heap!Next
    BY <1>10, <1>12, <1>14, Resized
  <1>18. ArenaIndInv'
    BY <1>0, <1>15, <1>16 DEF ArenaIndInv, Inv, TypeOK, Memory, Holding, Framed
  <1>. QED  BY <1>17, <1>18

\* arena_resize, in each of its ways.
LEMMA ArenaResize ==
  ASSUME ArenaIndInv, NEW a \in live, NEW size \in Sizes, Resize(a, size)
  PROVE  ArenaIndInv' /\ (Heap!Next \/ UNCHANGED live)
  <1>0. status = "open" /\ UNCHANGED <<status, hasParent, control>> /\ size \in 0 .. Word - 1
    BY RequestAssumption DEF Resize
  <1>1. Memory /\ Holding
    BY ArenaParts
  <1>2. a.align \in 1 .. Word - 1 /\ a.align + HeaderBytes < Word
    BY <1>1, LiveFacts
  <1>3. CASE size # 0 /\ RoomAtTop(a, size)
    <2>1. size \in 1 .. Word - 1
      BY <1>0, <1>3, WordFacts
    <2>2. /\ blocks' = [blocks EXCEPT ![1] = Bumped(Top, a.at, size)]
          /\ Hold({a}, a.at, size, a.align) /\ UNCHANGED <<block_bytes, lent, starved>>
      BY <1>3 DEF Resize
    <2>. QED  BY <1>0, <1>3, <2>1, <2>2, ResizesTop
  <1>4. CASE ~(size # 0 /\ RoomAtTop(a, size)) /\ size # 0 /\ size <= a.size
    <2>1. size \in 1 .. Word - 1
      BY <1>0, <1>4, WordFacts
    <2>2. Hold({a}, a.at, size, a.align) /\ UNCHANGED <<blocks, block_bytes, lent, starved>>
      BY <1>4 DEF Resize
    <2>. QED  BY <1>0, <1>4, <2>1, <2>2, Shrinks
  <1>5. CASE ~(size # 0 /\ RoomAtTop(a, size)) /\ ~(size # 0 /\ size <= a.size)
    <2>1. Obtain({a}, size, a.align)
      BY <1>5 DEF Resize
    <2>2. {a} \in SUBSET live /\ \E b \in live : {a} = {b} /\ a.align = b.align
      OBVIOUS
    <2>. QED  BY <1>0, <1>2, <2>1, <2>2, Obtains
  <1>. QED  BY <1>3, <1>4, <1>5

\* What the program holds when it gives one up.
LEMMA HeldLess ==
  ASSUME Holding, NEW a, live' = live \ {a}, \A b \in live' : \E i \in DOMAIN blocks' : Within(b, blocks'[i])
  PROVE  Holding'
  <1>1. LiveInBlocks'
    BY DEF LiveInBlocks, Within
  <1>. QED  BY <1>1 DEF Holding, LiveApart, LiveAligned

\* arena_free: the top allocation gives its bytes back, any other only its name.
LEMMA ArenaFree ==
  ASSUME ArenaIndInv, NEW a \in live, Free(a)
  PROVE  ArenaIndInv' /\ Heap!Next
  <1>0. Memory /\ Holding /\ Framed /\ status = "open"
    BY ArenaParts DEF Free
  <1>1. 1 \in 1 .. Len(blocks) /\ Top = blocks[1] /\ Len(blocks) \in Nat
    BY <1>0, OpenTop, BlockFacts DEF Top
  <1>2. Heap!Next
    BY DEF Free, Heap!Next, Heap!Free
  <1>3. Framed'
    <2>1. UNCHANGED <<status, hasParent, control, starved>> /\ block_bytes' \in 0 .. Word - 1
      BY <1>0 DEF Free, Framed
    <2>. QED  BY <1>0, <2>1, FramedStays
  <1>4. CASE ~arena_is_top(a)
    <2>1. UNCHANGED <<status, hasParent, blocks, block_bytes, control, lent>>
      BY <1>4 DEF Free
    <2>2. Memory'
      BY <1>0, <2>1, MemoryStays
    <2>3. \A b \in live' : \E i \in DOMAIN blocks' : Within(b, blocks'[i])
      BY <1>0, <2>1 DEF Free, Holding, LiveInBlocks, Within
    <2>4. Holding'
      BY <1>0, <2>3, HeldLess DEF Free
    <2>. QED  BY <1>2, <1>3, <2>2, <2>4 DEF ArenaIndInv, Inv, TypeOK, Memory, Holding, Framed
  <1>5. CASE arena_is_top(a)
    <2>1. Top.base \in Nat /\ Top.size \in Nat /\ Top.used \in Nat /\ Top.used <= Top.size
      BY <1>0, <1>1, BlockFacts, WordFacts
    <2>2. a.at \in Nat /\ a.size \in Nat
      BY <1>0, LiveFacts, WordFacts
    <2>3. /\ a.at + a.size = Top.base + Top.used /\ Top.base <= a.at
          /\ \A b \in live \ {a} : Within(b, Top) => b.at + b.size <= a.at
      BY <1>0, <1>5, TopAllocation
    <2>4. PICK u \in 0 .. Top.size : u = Top.used - a.size /\ a.at = Top.base + u
      BY <2>1, <2>2, <2>3
    <2>5. blocks' = [blocks EXCEPT ![1] = [Top EXCEPT !.used = u]]
      BY <1>5, <2>4 DEF Free, Top
    <2>6. /\ Memory' /\ Len(blocks') = Len(blocks) /\ blocks'[1].used = u
          /\ \A i \in 1 .. Len(blocks) : /\ blocks'[i].base = blocks[i].base /\ blocks'[i].size = blocks[i].size
                                         /\ i # 1 => blocks'[i] = blocks[i]
      <3>1. UNCHANGED <<status, hasParent, block_bytes, control, lent>>
        BY DEF Free
      <3>. QED  BY <1>0, <2>5, <3>1, TopUsed
    <2>7. ASSUME NEW b \in live' PROVE \E i \in DOMAIN blocks' : Within(b, blocks'[i])
      <3>0. DOMAIN blocks' = 1 .. Len(blocks) /\ blocks'[1].base = Top.base /\ b \in live \ {a}
        BY <1>1, <2>6 DEF Memory, Free
      <3>1. PICK i \in 1 .. Len(blocks) : Within(b, blocks[i])
        BY <1>0, <3>0, LiveFacts
      <3>2. CASE i = 1
        <4>1. Top.base <= b.at /\ b.at + b.size <= Top.base + u
          BY <1>1, <2>3, <2>4, <3>0, <3>1, <3>2 DEF Within
        <4>2. Within(b, blocks'[1])
          BY <2>6, <3>0, <4>1 DEF Within
        <4>. QED  BY <1>1, <3>0, <4>2
      <3>3. CASE i # 1
        BY <2>6, <3>0, <3>1, <3>3
      <3>. QED  BY <3>2, <3>3
    <2>8. Holding'
      BY <1>0, <2>7, HeldLess DEF Free
    <2>. QED  BY <1>2, <1>3, <2>6, <2>8 DEF ArenaIndInv, Inv, TypeOK, Memory, Holding, Framed
  <1>. QED  BY <1>4, <1>5

\* The memory of an arena with its first block alone.
LEMMA OneBlock ==
  ASSUME status' = "open", NEW f \in Block, blocks' = <<f>>,
         f.base > HeaderBytes, f.base + f.size < Word, f.used <= f.size, f.owned = FALSE,
         control' \in Extent, control'.at > 0, control'.at + control'.size < Word,
         control'.at + ControlBytes + HeaderBytes <= f.base, f.base + f.size = control'.at + control'.size,
         hasParent' => control'.at % ControlAlign = 0 /\ block_bytes' > 0,
         lent' = IF hasParent' THEN {control'} ELSE {}
  PROVE  Memory'
  <1>1. blocks' \in Seq(Block) /\ Len(blocks') = 1 /\ DOMAIN blocks' = {1} /\ blocks'[1] = f
    OBVIOUS
  <1>2. BlocksOK'
    BY <1>1 DEF BlocksOK
  <1>3. ControlOK'
    <2>1. Len(blocks') >= 1 /\ blocks'[Len(blocks')] = f
      BY <1>1
    <2>. QED  BY <2>1 DEF ControlOK
  <1>4. OwnedExtents' = {}
    BY <1>1 DEF OwnedExtents
  <1>5. LentOK' /\ Ledger' /\ lent' \subseteq Extent
    BY <1>4 DEF LentOK, Ledger
  <1>. QED  BY <1>1, <1>2, <1>3, <1>5 DEF Memory

\* The control block is none of the blocks that were grown.
LEMMA ControlApart ==
  ASSUME Memory, status = "open"
  PROVE  control \notin OwnedExtents
  <1>1. SUFFICES ASSUME control \in OwnedExtents PROVE FALSE
    OBVIOUS
  <1>2. PICK i \in 1 .. Len(blocks) : blocks[i].owned /\ control = BlockExtent(blocks[i])
    BY <1>1 DEF Memory, OwnedExtents
  <1>3. Len(blocks) \in 1 .. Len(blocks) /\ i # Len(blocks)
    BY <1>2, OpenTop, BlockFacts
  <1>4. PICK f : f = blocks[Len(blocks)]
    OBVIOUS
  <1>5. f.base \in Nat /\ f.size \in Nat
    BY <1>3, <1>4, BlockFacts, WordFacts
  <1>6. blocks[i].base \in Nat /\ blocks[i].size \in Nat
    BY BlockFacts, WordFacts
  <1>7. HeaderBytes \in Nat \ {0} /\ ControlBytes \in Nat
    BY WordFacts
  <1>8. \/ blocks[i].base + blocks[i].size <= f.base - HeaderBytes
        \/ f.base + f.size <= blocks[i].base - HeaderBytes
    BY <1>3, <1>4, BlocksApart
  <1>9. /\ control.at + ControlBytes + HeaderBytes <= f.base
        /\ f.base + f.size = control.at + control.size
    BY <1>4 DEF Memory, ControlOK
  <1>10. control.at = blocks[i].base - HeaderBytes /\ control.at + control.size = blocks[i].base + blocks[i].size
    BY <1>2, <1>6, <1>7 DEF BlockExtent
  <1>11. PICK b \in Nat, t \in Nat, g \in Nat, u \in Nat :
            b = blocks[i].base /\ t = blocks[i].size /\ g = f.base /\ u = f.size
    BY <1>5, <1>6
  <1>12. PICK h \in Nat \ {0}, e \in Nat : h = HeaderBytes /\ e = ControlBytes
    BY <1>7
  <1>13. control.at = b - h /\ control.at + control.size = b + t
    BY <1>10, <1>11, <1>12
  <1>14. (b - h) + e + h <= g /\ g + u = b + t
    BY <1>9, <1>11, <1>12, <1>13
  <1>15. b + t <= g - h \/ g + u <= b - h
    BY <1>8, <1>11, <1>12
  <1>. QED  BY <1>14, <1>15

\* arena_reset: the grown blocks go back, the first one is empty.
LEMMA ArenaReset ==
  ASSUME ArenaIndInv, Reset
  PROVE  ArenaIndInv' /\ Heap!Next
  <1>0. /\ Memory /\ Holding /\ Framed /\ status = "open"
        /\ UNCHANGED <<status, hasParent, block_bytes, control, starved>> /\ live' = {}
    BY ArenaParts DEF Reset
  <1>1. PICK k \in 1 .. Len(blocks) : k = Len(blocks)
    BY <1>0, OpenTop, BlockFacts
  <1>2. PICK g : g = blocks[k]
    OBVIOUS
  <1>3. /\ g \in Block /\ g.base > HeaderBytes /\ g.base + g.size < Word /\ g.owned = FALSE
        /\ g.size \in Nat /\ g.base \in Nat
    <2>1. /\ g \in Block /\ g.base > HeaderBytes /\ g.base + g.size < Word /\ (g.owned <=> k < Len(blocks))
          /\ g.size \in 0 .. Word - 1 /\ g.base \in 1 .. Word - 1 /\ Len(blocks) \in Nat
      BY <1>0, <1>2, BlockFacts
    <2>2. g.owned \in BOOLEAN
      BY <2>1 DEF Block
    <2>3. ~(k < Len(blocks))
      BY <1>1, <2>1
    <2>. QED  BY <2>1, <2>2, <2>3, WordFacts
  <1>4. PICK f : f = [g EXCEPT !.used = 0]
    OBVIOUS
  <1>5. f \in Block /\ f.base = g.base /\ f.size = g.size /\ f.used = 0 /\ f.owned = FALSE
    BY <1>3, <1>4, WordFacts DEF Block
  <1>6. blocks' = <<f>>
    BY <1>1, <1>2, <1>4 DEF Reset
  <1>7. /\ control.at + ControlBytes + HeaderBytes <= g.base /\ g.base + g.size = control.at + control.size
        /\ control.at > 0 /\ control.at + control.size < Word
        /\ hasParent => control.at % ControlAlign = 0 /\ block_bytes > 0
    BY <1>0, <1>1, <1>2 DEF Memory, ControlOK
  <1>8. lent' = IF hasParent THEN {control} ELSE {}
    <2>1. lent' = lent \ OwnedExtents /\ control \notin OwnedExtents
      BY <1>0, ControlApart DEF Reset, arena_release_blocks
    <2>. QED  BY <1>0, <2>1 DEF Memory, Ledger
  <1>9. Memory'
    <2>1. f.used <= f.size /\ control' \in Extent
      BY <1>0, <1>3, <1>5 DEF Framed
    <2>. QED  BY <1>0, <1>3, <1>5, <1>6, <1>7, <1>8, <2>1, OneBlock
  <1>10. Holding'
    BY <1>0 DEF Holding, LiveApart, LiveInBlocks, LiveAligned
  <1>11. Framed'
    BY <1>0, FramedStays DEF Framed
  <1>12. ArenaIndInv'
    BY <1>9, <1>10, <1>11 DEF ArenaIndInv, Inv, TypeOK, Memory, Holding, Framed
  <1>. QED  BY <1>0, <1>12 DEF Heap!Next, Heap!Reset

\* The drop gives everything back: the control block where it was lent, since its
\* address needs no rounding.
LEMMA ArenaDrop ==
  ASSUME ArenaIndInv, Drop
  PROVE  ArenaIndInv' /\ Heap!Next
  <1>0. /\ Memory /\ Holding /\ Framed /\ status = "open" /\ status' = "none" /\ blocks' = <<>> /\ live' = {}
        /\ UNCHANGED <<hasParent, block_bytes, control, starved>>
    BY ArenaParts DEF Drop
  <1>1. lent' = {}
    <2>1. CASE ~hasParent
      <3>1. lent = OwnedExtents
        BY <1>0, <2>1 DEF Memory, Ledger
      <3>. QED  BY <2>1, <3>1 DEF Drop, arena_release_blocks
    <2>2. CASE hasParent
      <3>1. lent = OwnedExtents \cup {control}
        BY <1>0, <2>2 DEF Memory, Ledger
      <3>2. arena_round_up(control.at, ControlAlign) = control.at
        <4>1. control.at \in 1 .. Word - 1 /\ control.at % ControlAlign = 0
          BY <1>0, <2>2, WordFacts DEF Memory, ControlOK, Framed, Extent
        <4>2. control.at + ControlAlign - 1 < Word
          <5>1. ControlAlign <= ControlBytes /\ ControlAlign \in Nat /\ ControlBytes \in Nat /\ HeaderBytes \in Nat
            BY LayoutAssumption, WordFacts, MultipleIsLarge
          <5>2. PICK k \in 1 .. Len(blocks) : k = Len(blocks)
            BY <1>0, OpenTop, BlockFacts
          <5>3. control.at + ControlBytes + HeaderBytes <= blocks[k].base
            BY <1>0, <5>2 DEF Memory, ControlOK
          <5>4. blocks[k].base \in 1 .. Word - 1
            BY <1>0, BlockFacts
          <5>. QED  BY <4>1, <5>1, <5>3, <5>4, WordFacts
        <4>3. ControlAlign \in 1 .. Word - 1
          BY WordFacts
        <4>. QED  BY <4>1, <4>2, <4>3, RoundMultiple
      <3>3. control = [at |-> control.at, size |-> control.size]
        BY <1>0 DEF Framed, Extent
      <3>4. lent' = (lent \ OwnedExtents) \ {control}
        BY <2>2, <3>2, <3>3 DEF Drop, arena_release_blocks
      <3>. QED  BY <3>1, <3>4
    <2>. QED  BY <1>0, <2>1, <2>2 DEF Framed
  <1>2. blocks' \in Seq(Block) /\ DOMAIN blocks' = {}
    BY <1>0
  <1>3. Memory'
    BY <1>0, <1>1, <1>2 DEF Memory, BlocksOK, ControlOK, LentOK, Ledger
  <1>4. Holding'
    BY <1>0 DEF Holding, LiveApart, LiveInBlocks, LiveAligned
  <1>5. Framed'
    BY <1>0 DEF Framed, GrowSuffices, MinBufferSuffices
  <1>6. ArenaIndInv'
    BY <1>3, <1>4, <1>5 DEF ArenaIndInv, Inv, TypeOK, Memory, Holding, Framed
  <1>. QED  BY <1>0, <1>6 DEF Heap!Next, Heap!Reset

\* arena_place finds room for a control block and a header in aligned storage that
\* holds the two, and in any storage of min_buffer bytes.
LEMMA StorageFits ==
  ASSUME NEW st \in Extent, st.at > 0, st.at + st.size < Word,
         \/ st.at % ControlAlign = 0 /\ st.size >= ControlBytes + HeaderBytes
         \/ st.size >= min_buffer
  PROVE  LET f == arena_place(st) IN
         /\ f \in Block /\ f.base > HeaderBytes /\ f.used = 0 /\ f.owned = FALSE /\ 0 <= f.size
         /\ st.at + ControlBytes + HeaderBytes <= f.base /\ f.base + f.size = st.at + st.size
  <1>0. /\ Word \in Nat /\ HeaderBytes \in Nat \ {0} /\ ControlBytes \in Nat \ {0} /\ ControlAlign \in Nat \ {0}
        /\ ControlAlign <= HeaderBytes /\ ControlAlign <= ControlBytes
    BY WordFacts, LayoutAssumption, MultipleIsLarge
  <1>1. PICK at \in 1 .. Word - 1 : at = st.at
    BY <1>0 DEF Extent
  <1>2. PICK size \in 0 .. Word - 1 : size = st.size
    BY <1>0 DEF Extent
  <1>3. PICK end \in Nat : end = at + size /\ end < Word
    BY <1>0, <1>1, <1>2
  <1>4. PICK c : c = arena_round_up(at, ControlAlign)
    OBVIOUS
  <1>5. c \in Nat /\ at <= c /\ c + ControlBytes + HeaderBytes <= end /\ c % ControlAlign = 0
    <2>0. ControlAlign \in 1 .. Word - 1
      BY WordFacts
    <2>1. CASE at % ControlAlign = 0 /\ size >= ControlBytes + HeaderBytes
      <3>1. at + ControlAlign - 1 < Word /\ at + ControlBytes + HeaderBytes <= end
        BY <1>0, <1>3, <2>1
      <3>2. c = at
        BY <1>4, <2>0, <2>1, <3>1, RoundMultiple
      <3>. QED  BY <1>0, <2>1, <3>1, <3>2
    <2>2. CASE size >= min_buffer
      <3>1. size >= ControlBytes + HeaderBytes + ControlAlign
        BY <2>2 DEF min_buffer
      <3>2. at + ControlAlign - 1 < Word
        BY <1>0, <1>3, <3>1
      <3>3. c \in at .. at + ControlAlign - 1 /\ c % ControlAlign = 0
        BY <1>4, <2>0, <3>2, RoundUp
      <3>. QED  BY <1>0, <1>3, <3>1, <3>3
    <2>. QED  BY <1>1, <1>2, <2>1, <2>2
  <1>6. PICK h \in 1 .. Word - 1 : h = c + ControlBytes
    BY <1>0, <1>3, <1>5
  <1>7. h % ControlAlign = 0
    <2>1. ControlBytes % ControlAlign = 0
      BY LayoutAssumption
    <2>2. c \in Int /\ ControlBytes \in Int
      BY <1>0, <1>5
    <2>3. (c + ControlBytes) % ControlAlign = 0
      BY <1>0, <1>5, <2>1, <2>2, MultiplesAdd
    <2>. QED  BY <1>6, <2>3
  <1>8. arena_round_up(h, ControlAlign) = h
    <2>1. h + ControlAlign - 1 < Word
      BY <1>0, <1>3, <1>5, <1>6
    <2>2. ControlAlign \in 1 .. Word - 1
      BY WordFacts
    <2>. QED  BY <1>7, <2>1, <2>2, RoundMultiple
  <1>9. PICK u \in 1 .. Word - 1 : u = h + HeaderBytes
    BY <1>0, <1>3, <1>5, <1>6
  <1>10. Add(c, ControlBytes) = h /\ Add(h, HeaderBytes) = u /\ Add(st.at, st.size) = end
    <2>1. Add(c, ControlBytes) = h
      BY <1>0, <1>5, <1>6 DEF Add
    <2>2. Add(h, HeaderBytes) = u
      BY <1>0, <1>6, <1>9 DEF Add
    <2>3. Add(st.at, st.size) = end
      BY <1>0, <1>1, <1>2, <1>3 DEF Add
    <2>. QED  BY <2>1, <2>2, <2>3
  <1>11. c # 0 /\ c >= at /\ h # 0 /\ u >= h /\ u <= end /\ at + ControlBytes + HeaderBytes <= u /\ u > HeaderBytes
    BY <1>0, <1>1, <1>5, <1>6, <1>9
  <1>12. arena_place(st) = [base |-> u, size |-> st.at + st.size - u, used |-> 0, owned |-> FALSE]
    BY <1>1, <1>4, <1>8, <1>10, <1>11, Zenon DEF arena_place
  <1>13. PICK room \in 0 .. Word - 1 : room = st.at + st.size - u
    BY <1>0, <1>1, <1>2, <1>3, <1>9, <1>11
  <1>14. arena_place(st) = [base |-> u, size |-> room, used |-> 0, owned |-> FALSE]
    BY <1>12, <1>13
  <1>15. PICK f : f = [base |-> u, size |-> room, used |-> 0, owned |-> FALSE]
    OBVIOUS
  <1>16. f \in Block /\ f.base = u /\ f.size = room /\ f.used = 0 /\ f.owned = FALSE
    BY <1>0, <1>15 DEF Block
  <1>17. 0 <= room /\ u + room = st.at + st.size
    BY <1>0, <1>1, <1>2, <1>9, <1>13
  <1>. QED  BY <1>1, <1>11, <1>14, <1>15, <1>16, <1>17

\* An arena opens on storage that it fits in.
LEMMA Starts ==
  ASSUME ArenaIndInv, status = "none", NEW parent \in BOOLEAN, NEW st \in Extent, NEW bytes \in 0 .. Word - 1,
         st.at > 0, st.at + st.size < Word,
         \/ st.at % ControlAlign = 0 /\ st.size >= ControlBytes + HeaderBytes
         \/ st.size >= min_buffer,
         parent => st.at % ControlAlign = 0 /\ bytes > 0,
         Start(parent, st, arena_place(st), bytes)
  PROVE  ArenaIndInv' /\ UNCHANGED live
  <1>0. Memory /\ Holding /\ Framed
    BY ArenaParts
  <1>1. blocks = <<>> /\ lent = {} /\ live = {}
    <2>1. blocks = <<>> /\ lent = {}
      BY <1>0 DEF Memory, Ledger
    <2>. QED  BY <1>0, <2>1 DEF Holding, LiveInBlocks
  <1>2. /\ status' = "open" /\ hasParent' = parent /\ blocks' = <<arena_place(st)>> /\ block_bytes' = bytes
        /\ control' = st /\ lent' = (IF parent THEN {st} ELSE {}) /\ UNCHANGED <<live, starved>>
    BY <1>1 DEF Start
  <1>3. PICK f : f = arena_place(st)
    OBVIOUS
  <1>4. /\ f \in Block /\ f.base > HeaderBytes /\ f.used = 0 /\ f.owned = FALSE /\ 0 <= f.size
        /\ st.at + ControlBytes + HeaderBytes <= f.base /\ f.base + f.size = st.at + st.size
    BY <1>3, StorageFits
  <1>5. Memory'
    BY <1>2, <1>3, <1>4, OneBlock
  <1>6. Holding'
    BY <1>1, <1>2 DEF Holding, LiveApart, LiveInBlocks, LiveAligned
  <1>7. Framed'
    BY <1>0, <1>2 DEF Framed, GrowSuffices, MinBufferSuffices
  <1>8. ArenaIndInv'
    BY <1>5, <1>6, <1>7 DEF ArenaIndInv, Inv, TypeOK, Memory, Holding, Framed
  <1>. QED  BY <1>2, <1>8

\* loke_rt_v1_arena_open.
LEMMA ArenaOpen ==
  ASSUME ArenaIndInv, Open
  PROVE  ArenaIndInv' /\ UNCHANGED live
  <1>1. PICK p \in Lendable(DefaultBlock) :
           Start(TRUE, [at |-> p, size |-> DefaultBlock], arena_place([at |-> p, size |-> DefaultBlock]), DefaultBlock)
    BY DEF Open
  <1>2. PICK st : st = [at |-> p, size |-> DefaultBlock]
    OBVIOUS
  <1>3. st \in Extent /\ st.at = p /\ st.size = DefaultBlock
    BY <1>2, WordFacts, PlaceAssumption DEF Extent, Lendable
  <1>4. p > 0 /\ p + DefaultBlock < Word /\ p % ControlAlign = 0
    BY WordFacts, PlaceAssumption DEF Lendable
  <1>5. DefaultBlock >= ControlBytes + HeaderBytes /\ DefaultBlock \in 0 .. Word - 1 /\ DefaultBlock > 0
    BY LayoutAssumption, WordFacts
  <1>6. status = "none" /\ Start(TRUE, st, arena_place(st), DefaultBlock)
    BY <1>1, <1>2 DEF Open
  <1>. QED  BY <1>3, <1>4, <1>5, <1>6, Starts

\* loke_rt_v1_arena_open_fixed: only a buffer below min_buffer is a fault.
LEMMA ArenaOpenFixed ==
  ASSUME ArenaIndInv, OpenFixed
  PROVE  ArenaIndInv' /\ UNCHANGED live
  <1>0. Memory /\ Holding /\ Framed /\ status = "none"
    BY ArenaParts DEF OpenFixed
  <1>1. PICK st \in Buffers :
           IF st.size < min_buffer \/ arena_place(st).base = 0
           THEN /\ status' = "fault" /\ control' = st
                /\ UNCHANGED <<hasParent, blocks, block_bytes, lent, live, starved>>
           ELSE Start(FALSE, st, arena_place(st), 0)
    BY DEF OpenFixed
  <1>2. st \in Extent /\ st.at > 0 /\ st.at + st.size < Word /\ st.at \in Int /\ st.size \in Int /\ min_buffer \in Int
    <2>1. st \in [at : 1 .. Word - 1, size : 0 .. Word - 1] /\ st.at + st.size < Word
      BY PlaceAssumption
    <2>2. st \in Extent /\ st.at \in 1 .. Word - 1 /\ st.size \in 0 .. Word - 1
      BY <2>1, WordFacts DEF Extent
    <2>. QED  BY <2>1, <2>2, WordFacts DEF min_buffer
  <1>3. CASE st.size < min_buffer
    <2>1. status' = "fault" /\ control' = st /\ UNCHANGED <<hasParent, blocks, block_bytes, lent, live, starved>>
      BY <1>1, <1>3
    <2>2. blocks = <<>> /\ lent = {}
      BY <1>0 DEF Memory, Ledger
    <2>3. Memory'
      BY <1>0, <2>1, <2>2 DEF Memory, BlocksOK, ControlOK, LentOK, Ledger
    <2>4. Holding'
      BY <1>0, <2>1 DEF Holding, LiveApart, LiveInBlocks, LiveAligned
    <2>5. Framed'
      BY <1>0, <1>2, <1>3, <2>1 DEF Framed, GrowSuffices, MinBufferSuffices, min_buffer
    <2>6. ArenaIndInv'
      BY <2>3, <2>4, <2>5 DEF ArenaIndInv, Inv, TypeOK, Memory, Holding, Framed
    <2>. QED  BY <2>1, <2>6
  <1>4. CASE ~(st.size < min_buffer)
    <2>1. st.size >= min_buffer
      BY <1>2, <1>4
    <2>2. arena_place(st).base # 0
      <3>1. arena_place(st).base > HeaderBytes /\ arena_place(st) \in Block
        BY <1>2, <2>1, StorageFits
      <3>. QED  BY <3>1, WordFacts
    <2>3. Start(FALSE, st, arena_place(st), 0)
      BY <1>1, <1>4, <2>2
    <2>4. 0 \in 0 .. Word - 1
      BY WordFacts
    <2>. QED  BY <1>0, <1>2, <2>1, <2>3, <2>4, Starts
  <1>. QED  BY <1>3, <1>4

\* Every step of the arena keeps the invariant and is a step of Allocator, or leaves
\* what the program holds as it is.
LEMMA ArenaStep ==
  ASSUME ArenaIndInv, [Next]_vars
  PROVE  ArenaIndInv' /\ [Heap!Next]_live
  <1>1. CASE Next
    <2>1. CASE Open
      BY <2>1, ArenaOpen
    <2>2. CASE OpenFixed
      BY <2>2, ArenaOpenFixed
    <2>3. CASE Reset
      BY <2>3, ArenaReset
    <2>4. CASE Drop
      BY <2>4, ArenaDrop
    <2>5. ASSUME NEW size \in Sizes, NEW align \in Aligns, Alloc(size, align)
          PROVE  ArenaIndInv' /\ [Heap!Next]_live
      BY <2>5, ArenaAlloc
    <2>6. ASSUME NEW a \in live, NEW size \in Sizes, Resize(a, size)
          PROVE  ArenaIndInv' /\ [Heap!Next]_live
      BY <2>6, ArenaResize
    <2>7. ASSUME NEW a \in live, Free(a)
          PROVE  ArenaIndInv' /\ [Heap!Next]_live
      BY <2>7, ArenaFree
    <2>. QED  BY <1>1, <2>1, <2>2, <2>3, <2>4, <2>5, <2>6, <2>7 DEF Next
  <1>2. CASE UNCHANGED vars
    BY <1>2 DEF vars, ArenaIndInv, LiveAligned, Inv, TypeOK, BlocksOK, ControlOK, LentOK, Ledger, OwnedExtents,
              LiveApart, LiveInBlocks, GrowSuffices, MinBufferSuffices
  <1>. QED  BY <1>1, <1>2

\* The arena starts without memory.
LEMMA ArenaStart ==
  ASSUME Init
  PROVE  ArenaIndInv /\ Heap!Init
  <1>1. /\ status = "none" /\ hasParent = FALSE /\ blocks = <<>> /\ block_bytes = 0
        /\ control = [at |-> 0, size |-> 0] /\ lent = {} /\ live = {} /\ starved = FALSE
    BY Zenon DEF Init
  <1>2. blocks \in Seq(Block) /\ DOMAIN blocks = {}
    BY <1>1
  <1>3. Memory
    BY <1>1, <1>2 DEF Memory, BlocksOK, ControlOK, LentOK, Ledger
  <1>4. Holding
    BY <1>1 DEF Holding, LiveApart, LiveInBlocks, LiveAligned
  <1>5. Framed
    <2>1. control \in Extent /\ block_bytes \in 0 .. Word - 1
      BY <1>1, WordFacts DEF Extent
    <2>. QED  BY <1>1, <2>1, Zenon DEF Framed, GrowSuffices, MinBufferSuffices
  <1>. QED  BY <1>1, <1>3, <1>4, <1>5, ArenaParts DEF Heap!Init

\* Whatever its parent lends and whatever is allocated, resized, freed and reset, the
\* allocations of an arena lie apart, in the used bytes of its blocks, its parent gets
\* everything back once, a block grown for a request serves it, and only a buffer below
\* loke_rt_v1_arena_min_buffer is refused.
THEOREM ArenaInvariant == MCSpec => []Inv
  <1>1. MCInit => ArenaIndInv
    BY ArenaStart DEF MCInit
  <1>2. ArenaIndInv /\ [MCNext]_all => ArenaIndInv'
    <2>1. [MCNext]_all => [Next]_vars
      BY DEF MCNext, all, vars
    <2>. QED  BY <2>1, ArenaStep
  <1>3. ArenaIndInv => Inv
    BY DEF ArenaIndInv
  <1>. QED  BY <1>1, <1>2, <1>3, PTL DEF MCSpec

\* An arena is an allocator: its steps are those the record's contract allows.
THEOREM ArenaImplementsAllocator == MCSpec => ImplementsAllocator
  <1>1. MCInit => ArenaIndInv /\ Heap!Init
    BY ArenaStart DEF MCInit
  <1>2. ArenaIndInv /\ [MCNext]_all => ArenaIndInv' /\ [Heap!Next]_live
    <2>1. [MCNext]_all => [Next]_vars
      BY DEF MCNext, all, vars
    <2>. QED  BY <2>1, ArenaStep
  <1>. QED  BY <1>1, <1>2, PTL DEF MCSpec, ImplementsAllocator, Heap!Spec

=============================================================================
