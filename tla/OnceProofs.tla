----------------------------- MODULE OnceProofs -----------------------------
(***************************************************************************)
(* Proofs about Once, for any threads, any Onces, any number of spins and  *)
(* any loads that lag behind.                                              *)
(***************************************************************************)
EXTENDS Once, TLAPS

-----------------------------------------------------------------------------
(* The inductive invariant.                                                *)

Holding == {"check", "sleep", "exit", "unlock"}
Settling == {"lock", "unlock"}

\* An action has begun once when its Once is no longer idle.
Counted == \A o \in Onces : runs[o] = IF state[o] = "idle" THEN 0 ELSE 1

\* What is in acts is running, in one place; a thread that is acting is in an action.
ActsRun ==
    /\ \A t \in Thread : \A i \in DOMAIN acts[t] : state[acts[t][i]] = "running"
    /\ \A t, u \in Thread : \A i \in DOMAIN acts[t] : \A j \in DOMAIN acts[u] :
           acts[t][i] = acts[u][j] => t = u /\ i = j
    /\ \A t \in Thread : pc[t] = "acting" => acts[t] # <<>>

DoneIsMade == \A o \in Onces : state[o] = "done" <=> o \in made

\* The holder of the lock knows what was known to every holder before it.
HolderKnows == \A t \in Thread : pc[t] \in Holding => lock = t /\ lock_known \subseteq known[t]

SleepersAsleep == \A t \in sleepers : pc[t] = "asleep"

\* A thread in settle has settled its Once.
SettlerKnows == \A t \in Thread :
    pc[t] \in Settling \cup {"wake"} => state[on[t]] \in Settled /\ on[t] \in known[t]

\* What has settled is known to the next holder of the lock, unless the thread that
\* settled it has yet to pass through the lock.
Passing(o) == \E u \in Thread : pc[u] \in Settling /\ on[u] = o
SettledIsPassed == \A o \in Onces : state[o] \in Settled => o \in lock_known \/ Passing(o)

\* A thread about to sleep on a Once that has settled will be woken.
SleepIsSafe == \A t \in Thread : pc[t] = "sleep" /\ state[on[t]] \in Settled => Passing(on[t])

IndInv ==
    /\ Inv /\ plan \in [Thread -> SUBSET Onces]
    /\ Counted /\ ActsRun /\ DoneIsMade
    /\ HolderKnows /\ SleepersAsleep /\ SettlerKnows /\ SettledIsPassed /\ SleepIsSafe

-----------------------------------------------------------------------------
(* Preservation, an action at a time.                                      *)

\* A step that changes no word, and no thread's actions, keeps what is said of them.
LEMMA WordsStay ==
  ASSUME IndInv, UNCHANGED <<words, acts>>,
         \A t \in Thread : pc'[t] = "acting" => acts[t] # <<>>
  PROVE  RunsOnce' /\ RunnerExists' /\ Counted' /\ ActsRun' /\ DoneIsMade'
  BY DEF IndInv, Inv, words, RunsOnce, RunnerExists, Counted, ActsRun, DoneIsMade

\* What FirstLoad, Reload and a Swap that loses have in common: t reads its word,
\* and goes on, answers or panics.
LoadEffect(t) ==
    /\ pc[t] \in {"load", "swap", "reload"}
    /\ \E p \in {"idle", "acting", "unwind", "swap", "reload", "enter"} :
           pc' = [pc EXCEPT ![t] = p] /\ (p = "acting" => acts[t] # <<>>)
    /\ \E K \in SUBSET Onces : known' = [known EXCEPT ![t] = @ \cup K]
    /\ \/ answered' = answered
       \/ /\ answered' = answered \cup {<<t, on[t]>>}
          /\ state[on[t]] = "done" /\ on[t] \in known'[t]
    /\ spins' \in [Thread -> 0 .. Spins] /\ unwinding' \in SUBSET Thread /\ running' \in BOOLEAN
    /\ UNCHANGED <<words, waiting, on, acts, lock_known, plan>>

\* What a load of its word tells t, and what t knows after it.
LEMMA ReadEffect ==
  ASSUME TypeOK, NEW t \in Thread, NEW v \in Loads(t, on[t]), Read(t, v)
  PROVE  /\ \E K \in SUBSET Onces : known' = [known EXCEPT ![t] = @ \cup K]
         /\ v = "done" => state[on[t]] = "done" /\ on[t] \in known'[t]
  BY DEF TypeOK, Loads, Read, Learn, Settled

\* Where an answer leads.
LEMMA AnswerEffect ==
  ASSUME TypeOK, NEW t \in Thread, Answer(t)
  PROVE  /\ \E p \in {"idle", "acting", "unwind"} :
                pc' = [pc EXCEPT ![t] = p] /\ (p = "acting" => acts[t] # <<>>)
         /\ answered' = answered \cup {<<t, on[t]>>}
         /\ unwinding' \in SUBSET Thread /\ running' \in BOOLEAN
  <1>1. Caller(t) \in {"idle", "acting", "unwind"} /\ (Caller(t) = "acting" => acts[t] # <<>>)
    BY DEF Caller
  <1>. QED  BY <1>1 DEF Answer, Go, TypeOK

\* The first load of a call is such a step.
LEMMA FirstLoadEffect ==
  ASSUME TypeOK, NEW t \in Thread, FirstLoad(t), UNCHANGED plan
  PROVE  LoadEffect(t)
  <1>1. PICK v \in Loads(t, on[t]) : Read(t, v)
          /\ \/ v = "done" /\ Answer(t)
             \/ v # "done" /\ Go(t, "swap") /\ UNCHANGED <<ends, answered>>
    BY DEF FirstLoad
  <1>2. CASE v = "done" /\ Answer(t)
    BY <1>1, <1>2, ReadEffect, AnswerEffect DEF FirstLoad, At, LoadEffect, TypeOK
  <1>3. CASE v # "done" /\ Go(t, "swap") /\ UNCHANGED <<ends, answered>>
    BY <1>1, <1>3, ReadEffect DEF FirstLoad, At, LoadEffect, TypeOK, Go, ends
  <1>. QED  BY <1>1, <1>2, <1>3

\* So is each turn of claim's loop.
LEMMA ObserveEffect ==
  ASSUME TypeOK, NEW t \in Thread, NEW v \in Loads(t, on[t]), Observe(t, v),
         pc[t] \in {"swap", "reload"}, UNCHANGED <<words, waiting, on, acts, lock_known, plan>>
  PROVE  LoadEffect(t)
  <1>1. CASE v = "done" /\ Answer(t) /\ UNCHANGED spins
    BY <1>1, ReadEffect, AnswerEffect DEF Observe, LoadEffect, TypeOK
  <1>2. CASE v = "poisoned" /\ Panic(t) /\ UNCHANGED <<spins, answered>>
    <2>1. running' \in BOOLEAN /\ unwinding' \in SUBSET Thread
      BY <1>2 DEF Panic, TypeOK
    <2>. QED  BY <1>2, <2>1, ReadEffect DEF Observe, LoadEffect, Panic, Go, TypeOK
  <1>3. CASE v = "running" /\ UNCHANGED <<ends, answered>>
    <2>1. CASE spins[t] < Spins /\ Go(t, "reload") /\ spins' = [spins EXCEPT ![t] = @ + 1]
      <3>1. spins' \in [Thread -> 0 .. Spins]
        BY <2>1, OnceAssumption DEF TypeOK
      <3>2. pc' = [pc EXCEPT ![t] = "reload"] /\ UNCHANGED <<unwinding, running, answered>> /\ Read(t, v)
        BY <1>3, <2>1 DEF Observe, Go, ends
      <3>. QED  BY <3>1, <3>2, ReadEffect DEF LoadEffect, TypeOK
    <2>2. CASE spins[t] = Spins /\ Go(t, "enter") /\ UNCHANGED spins
      BY <1>3, <2>2, ReadEffect DEF Observe, LoadEffect, Go, TypeOK, ends
    <2>. QED  BY <1>3, <2>1, <2>2 DEF Observe
  <1>. QED  BY <1>1, <1>2, <1>3 DEF Observe

\* A load changes no word and no sleeper, and t holds no lock and settles nothing.
LEMMA LoadEffectInv ==
  ASSUME IndInv, NEW t \in Thread, LoadEffect(t)
  PROVE  IndInv'
  <1>. USE OnceAssumption DEF words, waiting, ends, order, Points, Settled, Holding, Settling
  <1>0. PICK p \in {"idle", "acting", "unwind", "swap", "reload", "enter"}, K \in SUBSET Onces :
            /\ pc' = [pc EXCEPT ![t] = p] /\ (p = "acting" => acts[t] # <<>>)
            /\ known' = [known EXCEPT ![t] = @ \cup K]
    BY DEF LoadEffect
  <1>1. TypeOK' /\ plan' \in [Thread -> SUBSET Onces]
    <2>1. pc' \in [Thread -> Points] /\ known' \in [Thread -> SUBSET Onces]
      BY <1>0 DEF IndInv, Inv, TypeOK
    <2>2. answered' \in SUBSET (Thread \X Onces)
      BY DEF IndInv, Inv, TypeOK, LoadEffect
    <2>. QED  BY <2>1, <2>2 DEF IndInv, Inv, TypeOK, LoadEffect
  <1>2. UNCHANGED <<words, acts>> /\ \A u \in Thread : pc'[u] = "acting" => acts[u] # <<>>
    BY DEF IndInv, Inv, TypeOK, ActsRun, LoadEffect
  <1>3. AnswerMeansMade'
    <2>1. state[on[t]] = "done" => on[t] \in made
      BY DEF IndInv, Inv, TypeOK, DoneIsMade
    <2>2. \A u \in Thread : known[u] \subseteq known'[u]
      BY <1>0 DEF IndInv, Inv, TypeOK
    <2>3. \A a \in answered : a[1] \in Thread
      BY DEF IndInv, Inv, TypeOK
    <2>. QED  BY <2>1, <2>2, <2>3 DEF IndInv, Inv, AnswerMeansMade, LoadEffect
  <1>4. NoLostWakeup'
    BY <1>0 DEF IndInv, Inv, TypeOK, NoLostWakeup, SleepersAsleep, LoadEffect
  <1>5. HolderKnows'
    BY DEF IndInv, Inv, TypeOK, HolderKnows, LoadEffect
  <1>6. SleepersAsleep'
    BY DEF IndInv, Inv, TypeOK, SleepersAsleep, LoadEffect
  <1>7. SettlerKnows'
    BY DEF IndInv, Inv, TypeOK, SettlerKnows, LoadEffect
  <1>8. SettledIsPassed'
    BY DEF IndInv, Inv, TypeOK, SettledIsPassed, Passing, LoadEffect
  <1>9. SleepIsSafe'
    <2>1. pc[t] \in {"load", "swap", "reload"} /\ UNCHANGED <<state, on>>
      BY DEF LoadEffect
    <2>. QED  BY <1>0, <2>1 DEF IndInv, Inv, TypeOK, SleepIsSafe, Passing
  <1>. QED  BY <1>1, <1>2, <1>3, <1>4, <1>5, <1>6, <1>7, <1>8, <1>9, WordsStay DEF IndInv, Inv

\* wait_while_running takes the lock, and with it what its holders knew.
LEMMA EnterInv ==
  ASSUME IndInv, NEW t \in Thread, Enter(t), UNCHANGED plan
  PROVE  IndInv'
  <1>. USE OnceAssumption DEF words, waiting, ends, order, Points, Settled, Holding, Settling
  <1>1. TypeOK' /\ plan' \in [Thread -> SUBSET Onces]
    BY DEF IndInv, Inv, TypeOK, Enter, Lock, Go, Learn, At
  <1>2. UNCHANGED <<words, acts>> /\ \A u \in Thread : pc'[u] = "acting" => acts[u] # <<>>
    BY DEF IndInv, Inv, TypeOK, ActsRun, Enter, Lock, Go, Learn, At
  <1>3. AnswerMeansMade'
    BY DEF IndInv, Inv, TypeOK, AnswerMeansMade, Enter, Lock, Go, Learn, At
  <1>4. NoLostWakeup'
    BY DEF IndInv, Inv, TypeOK, NoLostWakeup, SleepersAsleep, Enter, Lock, Go, Learn, At
  <1>5. HolderKnows'
    BY DEF IndInv, Inv, TypeOK, HolderKnows, Enter, Lock, Go, Learn, At
  <1>6. SleepersAsleep'
    BY DEF IndInv, Inv, TypeOK, SleepersAsleep, Enter, Lock, Go, Learn, At
  <1>7. SettlerKnows'
    BY DEF IndInv, Inv, TypeOK, SettlerKnows, Enter, Lock, Go, Learn, At
  <1>8. SettledIsPassed'
    BY DEF IndInv, Inv, TypeOK, SettledIsPassed, Passing, Enter, Lock, Go, Learn, At
  <1>9. SleepIsSafe'
    BY DEF IndInv, Inv, TypeOK, SleepIsSafe, Passing, Enter, Lock, Go, Learn, At
  <1>. QED  BY <1>1, <1>2, <1>3, <1>4, <1>5, <1>6, <1>7, <1>8, <1>9, WordsStay DEF IndInv, Inv

\* A woken thread takes the lock again.
LEMMA ResumeInv ==
  ASSUME IndInv, NEW t \in Thread, Resume(t), UNCHANGED plan
  PROVE  IndInv'
  <1>. USE OnceAssumption DEF words, waiting, ends, order, Points, Settled, Holding, Settling
  <1>1. TypeOK' /\ plan' \in [Thread -> SUBSET Onces]
    BY DEF IndInv, Inv, TypeOK, Resume, Lock, Go, Learn, At
  <1>2. UNCHANGED <<words, acts>> /\ \A u \in Thread : pc'[u] = "acting" => acts[u] # <<>>
    BY DEF IndInv, Inv, TypeOK, ActsRun, Resume, Lock, Go, Learn, At
  <1>3. AnswerMeansMade'
    BY DEF IndInv, Inv, TypeOK, AnswerMeansMade, Resume, Lock, Go, Learn, At
  <1>4. NoLostWakeup'
    BY DEF IndInv, Inv, TypeOK, NoLostWakeup, SleepersAsleep, Resume, Lock, Go, Learn, At
  <1>5. HolderKnows'
    BY DEF IndInv, Inv, TypeOK, HolderKnows, Resume, Lock, Go, Learn, At
  <1>6. SleepersAsleep'
    BY DEF IndInv, Inv, TypeOK, SleepersAsleep, Resume, Lock, Go, Learn, At
  <1>7. SettlerKnows'
    BY DEF IndInv, Inv, TypeOK, SettlerKnows, Resume, Lock, Go, Learn, At
  <1>8. SettledIsPassed'
    BY DEF IndInv, Inv, TypeOK, SettledIsPassed, Passing, Resume, Lock, Go, Learn, At
  <1>9. SleepIsSafe'
    <2>1. pc[t] = "asleep" /\ pc' = [pc EXCEPT ![t] = "check"] /\ UNCHANGED <<state, on>>
      BY DEF Resume, Lock, Go, At
    <2>. QED  BY <2>1 DEF IndInv, Inv, TypeOK, SleepIsSafe, Passing
  <1>. QED  BY <1>1, <1>2, <1>3, <1>4, <1>5, <1>6, <1>7, <1>8, <1>9, WordsStay DEF IndInv, Inv

\* settle takes the lock.
LEMMA WakeLockInv ==
  ASSUME IndInv, NEW t \in Thread, WakeLock(t), UNCHANGED plan
  PROVE  IndInv'
  <1>. USE OnceAssumption DEF words, waiting, ends, order, Points, Settled, Holding, Settling
  <1>1. TypeOK' /\ plan' \in [Thread -> SUBSET Onces]
    BY DEF IndInv, Inv, TypeOK, WakeLock, Lock, Go, Learn, At
  <1>2. UNCHANGED <<words, acts>> /\ \A u \in Thread : pc'[u] = "acting" => acts[u] # <<>>
    BY DEF IndInv, Inv, TypeOK, ActsRun, WakeLock, Lock, Go, Learn, At
  <1>3. AnswerMeansMade'
    BY DEF IndInv, Inv, TypeOK, AnswerMeansMade, WakeLock, Lock, Go, Learn, At
  <1>4. NoLostWakeup'
    BY DEF IndInv, Inv, TypeOK, NoLostWakeup, SleepersAsleep, WakeLock, Lock, Go, Learn, At
  <1>5. HolderKnows'
    BY DEF IndInv, Inv, TypeOK, HolderKnows, WakeLock, Lock, Go, Learn, At
  <1>6. SleepersAsleep'
    BY DEF IndInv, Inv, TypeOK, SleepersAsleep, WakeLock, Lock, Go, Learn, At
  <1>7. SettlerKnows'
    BY DEF IndInv, Inv, TypeOK, SettlerKnows, WakeLock, Lock, Go, Learn, At
  <1>8. SettledIsPassed'
    BY DEF IndInv, Inv, TypeOK, SettledIsPassed, Passing, WakeLock, Lock, Go, Learn, At
  <1>9. SleepIsSafe'
    BY DEF IndInv, Inv, TypeOK, SleepIsSafe, Passing, WakeLock, Lock, Go, Learn, At
  <1>. QED  BY <1>1, <1>2, <1>3, <1>4, <1>5, <1>6, <1>7, <1>8, <1>9, WordsStay DEF IndInv, Inv

\* A thread under the lock reads "running" of a settled Once only while the thread that
\* settled it has yet to pass through the lock.
LEMMA CheckInv ==
  ASSUME IndInv, NEW t \in Thread, Check(t), UNCHANGED plan
  PROVE  IndInv'
  <1>. USE OnceAssumption DEF words, waiting, ends, order, Points, Settled, Holding, Settling
  <1>0. PICK v \in Loads(t, on[t]) :
            Read(t, v) /\ pc' = [pc EXCEPT ![t] = IF v = "running" THEN "sleep" ELSE "exit"]
    BY DEF Check, Go
  <1>1. TypeOK' /\ plan' \in [Thread -> SUBSET Onces]
    BY DEF IndInv, Inv, TypeOK, Check, Go, Learn, Read, Loads, At
  <1>2. UNCHANGED <<words, acts>> /\ \A u \in Thread : pc'[u] = "acting" => acts[u] # <<>>
    BY DEF IndInv, Inv, TypeOK, ActsRun, Check, Go, Learn, Read, Loads, At
  <1>3. AnswerMeansMade'
    BY DEF IndInv, Inv, TypeOK, AnswerMeansMade, Check, Go, Learn, Read, Loads, At
  <1>4. NoLostWakeup'
    BY <1>0 DEF IndInv, Inv, TypeOK, NoLostWakeup, SleepersAsleep, Check, At
  <1>5. HolderKnows'
    BY DEF IndInv, Inv, TypeOK, HolderKnows, Check, Go, Learn, Read, Loads, At
  <1>6. SleepersAsleep'
    BY DEF IndInv, Inv, TypeOK, SleepersAsleep, Check, Go, Learn, Read, Loads, At
  <1>7. SettlerKnows'
    BY DEF IndInv, Inv, TypeOK, SettlerKnows, Check, Go, Learn, Read, Loads, At
  <1>8. SettledIsPassed'
    BY <1>0 DEF IndInv, Inv, TypeOK, SettledIsPassed, Passing, Check, At
  <1>9. SleepIsSafe'
    <2>. SUFFICES ASSUME NEW u \in Thread, pc'[u] = "sleep", state[on[u]] \in Settled
                  PROVE  Passing(on[u])'
      BY DEF SleepIsSafe, Check
    <2>1. Passing(on[u]) => Passing(on[u])'
      BY <1>0 DEF IndInv, Inv, TypeOK, Check, At, Passing
    <2>2. CASE u = t
      <3>1. v = "running" /\ pc[t] = "check" /\ on[t] \in Onces
        BY <1>0, <2>2 DEF IndInv, Inv, TypeOK, Check, At
      <3>2. on[t] \notin known[t]
        BY <3>1, <2>2 DEF Loads
      <3>3. on[t] \notin lock_known
        BY <3>1, <3>2 DEF IndInv, HolderKnows
      <3>. QED  BY <2>1, <2>2, <3>1, <3>3 DEF IndInv, SettledIsPassed
    <2>3. CASE u # t
      <3>1. pc[u] = "sleep"
        BY <1>0, <2>3 DEF IndInv, Inv, TypeOK
      <3>. QED  BY <2>1, <3>1 DEF IndInv, SleepIsSafe
    <2>. QED  BY <2>2, <2>3
  <1>. QED  BY <1>1, <1>2, <1>3, <1>4, <1>5, <1>6, <1>7, <1>8, <1>9, WordsStay DEF IndInv, Inv

\* The sleep gives up the lock.
LEMMA SleepInv ==
  ASSUME IndInv, NEW t \in Thread, Sleep(t), UNCHANGED plan
  PROVE  IndInv'
  <1>. USE OnceAssumption DEF words, waiting, ends, order, Points, Settled, Holding, Settling
  <1>1. TypeOK' /\ plan' \in [Thread -> SUBSET Onces]
    BY DEF IndInv, Inv, TypeOK, Sleep, Unlock, Go, At
  <1>2. UNCHANGED <<words, acts>> /\ \A u \in Thread : pc'[u] = "acting" => acts[u] # <<>>
    BY DEF IndInv, Inv, TypeOK, ActsRun, Sleep, Unlock, Go, At
  <1>3. AnswerMeansMade'
    BY DEF IndInv, Inv, TypeOK, AnswerMeansMade, Sleep, Unlock, Go, At
  <1>4. NoLostWakeup'
    BY DEF IndInv, Inv, TypeOK, NoLostWakeup, SleepersAsleep, SleepIsSafe, Passing, HolderKnows, Sleep, Unlock, Go, At
  <1>5. HolderKnows'
    BY DEF IndInv, Inv, TypeOK, HolderKnows, Sleep, Unlock, Go, At
  <1>6. SleepersAsleep'
    BY DEF IndInv, Inv, TypeOK, SleepersAsleep, Sleep, Unlock, Go, At
  <1>7. SettlerKnows'
    BY DEF IndInv, Inv, TypeOK, SettlerKnows, Sleep, Unlock, Go, At
  <1>8. SettledIsPassed'
    BY DEF IndInv, Inv, TypeOK, SettledIsPassed, Passing, Sleep, Unlock, Go, At
  <1>9. SleepIsSafe'
    BY DEF IndInv, Inv, TypeOK, SleepIsSafe, Passing, Sleep, Unlock, Go, At
  <1>. QED  BY <1>1, <1>2, <1>3, <1>4, <1>5, <1>6, <1>7, <1>8, <1>9, WordsStay DEF IndInv, Inv

\* A waiter whose Once has settled leaves the lock.
LEMMA ExitInv ==
  ASSUME IndInv, NEW t \in Thread, Exit(t), UNCHANGED plan
  PROVE  IndInv'
  <1>. USE OnceAssumption DEF words, waiting, ends, order, Points, Settled, Holding, Settling
  <1>1. TypeOK' /\ plan' \in [Thread -> SUBSET Onces]
    BY DEF IndInv, Inv, TypeOK, Exit, Unlock, Go, At
  <1>2. UNCHANGED <<words, acts>> /\ \A u \in Thread : pc'[u] = "acting" => acts[u] # <<>>
    BY DEF IndInv, Inv, TypeOK, ActsRun, Exit, Unlock, Go, At
  <1>3. AnswerMeansMade'
    BY DEF IndInv, Inv, TypeOK, AnswerMeansMade, Exit, Unlock, Go, At
  <1>4. NoLostWakeup'
    BY DEF IndInv, Inv, TypeOK, NoLostWakeup, SleepersAsleep, Exit, Unlock, Go, At
  <1>5. HolderKnows'
    BY DEF IndInv, Inv, TypeOK, HolderKnows, Exit, Unlock, Go, At
  <1>6. SleepersAsleep'
    BY DEF IndInv, Inv, TypeOK, SleepersAsleep, Exit, Unlock, Go, At
  <1>7. SettlerKnows'
    BY DEF IndInv, Inv, TypeOK, SettlerKnows, Exit, Unlock, Go, At
  <1>8. SettledIsPassed'
    BY DEF IndInv, Inv, TypeOK, SettledIsPassed, Passing, Exit, Unlock, Go, At
  <1>9. SleepIsSafe'
    BY DEF IndInv, Inv, TypeOK, SleepIsSafe, Passing, Exit, Unlock, Go, At
  <1>. QED  BY <1>1, <1>2, <1>3, <1>4, <1>5, <1>6, <1>7, <1>8, <1>9, WordsStay DEF IndInv, Inv

\* settle leaves the lock, which now passes on that its Once has settled.
LEMMA WakeUnlockInv ==
  ASSUME IndInv, NEW t \in Thread, WakeUnlock(t), UNCHANGED plan
  PROVE  IndInv'
  <1>. USE OnceAssumption DEF words, waiting, ends, order, Points, Settled, Holding, Settling
  <1>1. TypeOK' /\ plan' \in [Thread -> SUBSET Onces]
    BY DEF IndInv, Inv, TypeOK, WakeUnlock, Unlock, Go, At
  <1>2. UNCHANGED <<words, acts>> /\ \A u \in Thread : pc'[u] = "acting" => acts[u] # <<>>
    BY DEF IndInv, Inv, TypeOK, ActsRun, WakeUnlock, Unlock, Go, At
  <1>3. AnswerMeansMade'
    BY DEF IndInv, Inv, TypeOK, AnswerMeansMade, WakeUnlock, Unlock, Go, At
  <1>4. NoLostWakeup'
    BY DEF IndInv, Inv, TypeOK, NoLostWakeup, SleepersAsleep, WakeUnlock, Unlock, Go, At
  <1>5. HolderKnows'
    BY DEF IndInv, Inv, TypeOK, HolderKnows, WakeUnlock, Unlock, Go, At
  <1>6. SleepersAsleep'
    BY DEF IndInv, Inv, TypeOK, SleepersAsleep, WakeUnlock, Unlock, Go, At
  <1>7. SettlerKnows'
    BY DEF IndInv, Inv, TypeOK, SettlerKnows, WakeUnlock, Unlock, Go, At
  <1>8. SettledIsPassed'
    BY DEF IndInv, Inv, TypeOK, SettledIsPassed, Passing, SettlerKnows, WakeUnlock, Unlock, Go, At
  <1>9. SleepIsSafe'
    BY DEF IndInv, Inv, TypeOK, SleepIsSafe, HolderKnows, Passing, WakeUnlock, Unlock, Go, At
  <1>. QED  BY <1>1, <1>2, <1>3, <1>4, <1>5, <1>6, <1>7, <1>8, <1>9, WordsStay DEF IndInv, Inv

\* The wake, after which no one sleeps.
LEMMA WakeAllInv ==
  ASSUME IndInv, NEW t \in Thread, WakeAll(t), UNCHANGED plan
  PROVE  IndInv'
  <1>. USE OnceAssumption DEF words, waiting, ends, order, Points, Settled, Holding, Settling
  <1>1. TypeOK' /\ plan' \in [Thread -> SUBSET Onces]
    BY DEF IndInv, Inv, TypeOK, WakeAll, Caller, Go, At
  <1>2. UNCHANGED <<words, acts>> /\ \A u \in Thread : pc'[u] = "acting" => acts[u] # <<>>
    BY DEF IndInv, Inv, TypeOK, ActsRun, WakeAll, Caller, Go, At
  <1>3. AnswerMeansMade'
    <2>1. on[t] \in made => state[on[t]] = "done" /\ on[t] \in known[t]
      BY DEF IndInv, Inv, TypeOK, DoneIsMade, SettlerKnows, WakeAll, At
    <2>. QED  BY <2>1 DEF IndInv, Inv, TypeOK, AnswerMeansMade, WakeAll
  <1>4. NoLostWakeup'
    BY DEF IndInv, Inv, TypeOK, NoLostWakeup, SleepersAsleep, WakeAll, Caller, Go, At
  <1>5. HolderKnows'
    BY DEF IndInv, Inv, TypeOK, HolderKnows, WakeAll, Caller, Go, At
  <1>6. SleepersAsleep'
    BY DEF IndInv, Inv, TypeOK, SleepersAsleep, WakeAll, Caller, Go, At
  <1>7. SettlerKnows'
    BY DEF IndInv, Inv, TypeOK, SettlerKnows, WakeAll, Caller, Go, At
  <1>8. SettledIsPassed'
    BY DEF IndInv, Inv, TypeOK, SettledIsPassed, Passing, WakeAll, Caller, Go, At
  <1>9. SleepIsSafe'
    BY DEF IndInv, Inv, TypeOK, SleepIsSafe, Passing, WakeAll, Caller, Go, At
  <1>. QED  BY <1>1, <1>2, <1>3, <1>4, <1>5, <1>6, <1>7, <1>8, <1>9, WordsStay DEF IndInv, Inv

\* An action panics.
LEMMA ActionPanicsInv ==
  ASSUME IndInv, NEW t \in Thread, ActionPanics(t), UNCHANGED plan
  PROVE  IndInv'
  <1>. USE OnceAssumption DEF words, waiting, ends, order, Points, Settled, Holding, Settling
  <1>1. TypeOK' /\ plan' \in [Thread -> SUBSET Onces]
    BY DEF IndInv, Inv, TypeOK, ActionPanics, Panic, Go, At
  <1>2. UNCHANGED <<words, acts>> /\ \A u \in Thread : pc'[u] = "acting" => acts[u] # <<>>
    BY DEF IndInv, Inv, TypeOK, ActsRun, ActionPanics, Panic, Go, At
  <1>3. AnswerMeansMade'
    BY DEF IndInv, Inv, TypeOK, AnswerMeansMade, ActionPanics, Panic, Go, At
  <1>4. NoLostWakeup'
    BY DEF IndInv, Inv, TypeOK, NoLostWakeup, SleepersAsleep, ActionPanics, Panic, Go, At
  <1>5. HolderKnows'
    BY DEF IndInv, Inv, TypeOK, HolderKnows, ActionPanics, Panic, Go, At
  <1>6. SleepersAsleep'
    BY DEF IndInv, Inv, TypeOK, SleepersAsleep, ActionPanics, Panic, Go, At
  <1>7. SettlerKnows'
    BY DEF IndInv, Inv, TypeOK, SettlerKnows, ActionPanics, Panic, Go, At
  <1>8. SettledIsPassed'
    BY DEF IndInv, Inv, TypeOK, SettledIsPassed, Passing, ActionPanics, Panic, Go, At
  <1>9. SleepIsSafe'
    BY DEF IndInv, Inv, TypeOK, SleepIsSafe, Passing, ActionPanics, Panic, Go, At
  <1>. QED  BY <1>1, <1>2, <1>3, <1>4, <1>5, <1>6, <1>7, <1>8, <1>9, WordsStay DEF IndInv, Inv

\* A panic that has unwound ends the process.
LEMMA AbortInv ==
  ASSUME IndInv, NEW t \in Thread, Abort(t), UNCHANGED plan
  PROVE  IndInv'
  <1>. USE OnceAssumption DEF words, waiting, ends, order, Points, Settled, Holding, Settling
  <1>1. TypeOK' /\ plan' \in [Thread -> SUBSET Onces]
    BY DEF IndInv, Inv, TypeOK, Abort, At
  <1>2. UNCHANGED <<words, acts>> /\ \A u \in Thread : pc'[u] = "acting" => acts[u] # <<>>
    BY DEF IndInv, Inv, TypeOK, ActsRun, Abort, At
  <1>3. AnswerMeansMade'
    BY DEF IndInv, Inv, TypeOK, AnswerMeansMade, Abort, At
  <1>4. NoLostWakeup'
    BY DEF IndInv, Inv, TypeOK, NoLostWakeup, SleepersAsleep, Abort, At
  <1>5. HolderKnows'
    BY DEF IndInv, Inv, TypeOK, HolderKnows, Abort, At
  <1>6. SleepersAsleep'
    BY DEF IndInv, Inv, TypeOK, SleepersAsleep, Abort, At
  <1>7. SettlerKnows'
    BY DEF IndInv, Inv, TypeOK, SettlerKnows, Abort, At
  <1>8. SettledIsPassed'
    BY DEF IndInv, Inv, TypeOK, SettledIsPassed, Passing, Abort, At
  <1>9. SleepIsSafe'
    BY DEF IndInv, Inv, TypeOK, SleepIsSafe, Passing, Abort, At
  <1>. QED  BY <1>1, <1>2, <1>3, <1>4, <1>5, <1>6, <1>7, <1>8, <1>9, WordsStay DEF IndInv, Inv

\* A sleeper wakes by itself.
LEMMA SpuriousInv ==
  ASSUME IndInv, NEW t \in Thread, Spurious(t), UNCHANGED plan
  PROVE  IndInv'
  <1>. USE OnceAssumption DEF words, waiting, ends, order, Points, Settled, Holding, Settling
  <1>1. TypeOK' /\ plan' \in [Thread -> SUBSET Onces]
    BY DEF IndInv, Inv, TypeOK, Spurious, At
  <1>2. UNCHANGED <<words, acts>> /\ \A u \in Thread : pc'[u] = "acting" => acts[u] # <<>>
    BY DEF IndInv, Inv, TypeOK, ActsRun, Spurious, At
  <1>3. AnswerMeansMade'
    BY DEF IndInv, Inv, TypeOK, AnswerMeansMade, Spurious, At
  <1>4. NoLostWakeup'
    BY DEF IndInv, Inv, TypeOK, NoLostWakeup, SleepersAsleep, Spurious, At
  <1>5. HolderKnows'
    BY DEF IndInv, Inv, TypeOK, HolderKnows, Spurious, At
  <1>6. SleepersAsleep'
    BY DEF IndInv, Inv, TypeOK, SleepersAsleep, Spurious, At
  <1>7. SettlerKnows'
    BY DEF IndInv, Inv, TypeOK, SettlerKnows, Spurious, At
  <1>8. SettledIsPassed'
    BY DEF IndInv, Inv, TypeOK, SettledIsPassed, Passing, Spurious, At
  <1>9. SleepIsSafe'
    BY DEF IndInv, Inv, TypeOK, SleepIsSafe, Passing, Spurious, At
  <1>. QED  BY <1>1, <1>2, <1>3, <1>4, <1>5, <1>6, <1>7, <1>8, <1>9, WordsStay DEF IndInv, Inv

\* A thread that is in no call, or in an action or deferred code, begins one.
LEMMA CallInv ==
  ASSUME IndInv, NEW t \in Thread, NEW o \in plan[t], Call(t, o), UNCHANGED plan
  PROVE  IndInv'
  <1>. USE OnceAssumption DEF words, waiting, ends, order, Points, Settled, Holding, Settling
  <1>0. o \in Onces
    BY DEF IndInv
  <1>1. TypeOK' /\ plan' \in [Thread -> SUBSET Onces]
    BY <1>0 DEF IndInv, Inv, TypeOK, Call, Go
  <1>2. UNCHANGED <<words, acts>> /\ \A u \in Thread : pc'[u] = "acting" => acts[u] # <<>>
    BY DEF IndInv, Inv, TypeOK, ActsRun, Call, Go
  <1>3. AnswerMeansMade'
    BY DEF IndInv, Inv, TypeOK, AnswerMeansMade, Call, Go
  <1>4. NoLostWakeup'
    BY DEF IndInv, Inv, TypeOK, NoLostWakeup, SleepersAsleep, Call, Go
  <1>5. HolderKnows'
    BY DEF IndInv, Inv, TypeOK, HolderKnows, Call, Go
  <1>6. SleepersAsleep'
    BY DEF IndInv, Inv, TypeOK, SleepersAsleep, Call, Go
  <1>7. SettlerKnows'
    BY DEF IndInv, Inv, TypeOK, SettlerKnows, Call, Go
  <1>8. SettledIsPassed'
    BY DEF IndInv, Inv, TypeOK, SettledIsPassed, Passing, Call, Go
  <1>9. SleepIsSafe'
    <2>1. \A u \in Thread : pc'[u] = "sleep" => u # t /\ pc[u] = "sleep" /\ on'[u] = on[u]
      BY <1>0 DEF IndInv, Inv, TypeOK, Call, Go
    <2>2. \A u \in Thread : pc[u] \in Settling => pc'[u] = pc[u] /\ on'[u] = on[u]
      BY <1>0 DEF IndInv, Inv, TypeOK, Call, Go
    <2>. QED  BY <2>1, <2>2 DEF IndInv, SleepIsSafe, Passing, Call
  <1>. QED  BY <1>1, <1>2, <1>3, <1>4, <1>5, <1>6, <1>7, <1>8, <1>9, WordsStay DEF IndInv, Inv

\* The winner of the swap begins the action of an idle Once.
LEMMA WinInv ==
  ASSUME IndInv, NEW t \in Thread, At(t, "swap"), state[on[t]] = "idle", Win(t),
         UNCHANGED <<waiting, on, lock_known, plan>>
  PROVE  IndInv'
  <1>. USE OnceAssumption DEF words, waiting, ends, order, Points, Settled, Holding, Settling
  <1>. USE DEF Win, Go, At
  <1>0. on[t] \in Onces /\ acts'[t] = Append(acts[t], on[t]) /\ \A u \in Thread \ {t} : acts'[u] = acts[u]
    BY DEF IndInv, Inv, TypeOK
  <1>1. TypeOK' /\ plan' \in [Thread -> SUBSET Onces]
    <2>1. acts' \in [Thread -> Seq(Onces)]
      BY <1>0 DEF IndInv, Inv, TypeOK
    <2>2. state' \in [Onces -> {"idle", "running"} \cup Settled] /\ runs' \in [Onces -> Nat]
      <3>1. state' = [state EXCEPT ![on[t]] = "running"] /\ runs' = [runs EXCEPT ![on[t]] = runs[on[t]] + 1]
        BY <1>0
      <3>2. runs[on[t]] + 1 \in Nat
        BY <1>0 DEF IndInv, Inv, TypeOK
      <3>. QED  BY <1>0, <3>1, <3>2 DEF IndInv, Inv, TypeOK
    <2>. QED  BY <2>1, <2>2 DEF IndInv, Inv, TypeOK
  <1>2. Counted' /\ RunsOnce' /\ DoneIsMade'
    BY <1>0 DEF IndInv, Inv, TypeOK, Counted, RunsOnce, DoneIsMade
  <1>3. acts[t] \in Seq(Onces) /\ DOMAIN acts'[t] = DOMAIN acts[t] \cup {Len(acts[t]) + 1}
        /\ (\A i \in DOMAIN acts[t] : acts'[t][i] = acts[t][i]) /\ acts'[t][Len(acts[t]) + 1] = on[t]
    BY <1>0 DEF IndInv, Inv, TypeOK
  <1>4. RunnerExists'
    BY <1>0, <1>3 DEF IndInv, Inv, TypeOK, RunnerExists
  <1>5. ActsRun'
    <2>1. \A u \in Thread : \A i \in DOMAIN acts[u] : acts[u][i] # on[t]
      BY DEF IndInv, ActsRun
    <2>2. \A u \in Thread : pc'[u] = "acting" => acts'[u] # <<>>
      BY <1>0, <1>3 DEF IndInv, Inv, TypeOK, ActsRun
    <2>. QED  BY <1>0, <1>3, <2>1, <2>2 DEF IndInv, Inv, TypeOK, ActsRun
  <1>6. AnswerMeansMade'
    BY <1>0 DEF IndInv, Inv, TypeOK, AnswerMeansMade
  <1>7. NoLostWakeup'
    BY <1>0 DEF IndInv, Inv, TypeOK, NoLostWakeup, SleepersAsleep
  <1>8. HolderKnows'
    BY <1>0 DEF IndInv, Inv, TypeOK, HolderKnows
  <1>9. SleepersAsleep'
    BY <1>0 DEF IndInv, Inv, TypeOK, SleepersAsleep
  <1>10. SettlerKnows'
    BY <1>0 DEF IndInv, Inv, TypeOK, SettlerKnows
  <1>11. SettledIsPassed'
    BY <1>0 DEF IndInv, Inv, TypeOK, SettledIsPassed, Passing
  <1>12. SleepIsSafe'
    BY <1>0 DEF IndInv, Inv, TypeOK, SleepIsSafe, Passing
  <1>. QED  BY <1>1, <1>2, <1>4, <1>5, <1>6, <1>7, <1>8, <1>9, <1>10, <1>11, <1>12 DEF IndInv, Inv

\* The settle of an action, finished or poisoned.
LEMMA SettleInv ==
  ASSUME IndInv, NEW t \in Thread, pc[t] \in {"acting", "unwind"}, acts[t] # <<>>,
         NEW finished \in BOOLEAN, Settle(t, finished), UNCHANGED plan
  PROVE  IndInv'
  <1>. USE OnceAssumption DEF words, waiting, ends, order, Points, Settled, Holding, Settling
  <1>. DEFINE n == Len(acts[t])
  <1>0. /\ acts[t] \in Seq(Onces) /\ n \in Nat \ {0} /\ DOMAIN acts[t] = 1 .. n
        /\ Top(acts[t]) = acts[t][n] /\ acts[t][n] \in Onces
    BY DEF IndInv, Inv, TypeOK, Top
  <1>top. PICK o \in Onces : o = acts[t][n]
    BY <1>0
  <1>step. /\ state' = [state EXCEPT ![o] = IF finished THEN "done" ELSE "poisoned"]
           /\ made' = IF finished THEN made \cup {o} ELSE made
           /\ on' = [on EXCEPT ![t] = o] /\ acts' = [acts EXCEPT ![t] = Pop(@)]
           /\ known' = [known EXCEPT ![t] = @ \cup {o}] /\ pc' = [pc EXCEPT ![t] = "lock"]
           /\ UNCHANGED <<runs, lock, sleepers, spins, unwinding, running, lock_known, answered, plan>>
    BY <1>0, <1>top DEF Settle, Learn, Go
  <1>was. state[o] = "running"
    BY <1>0, <1>top DEF IndInv, ActsRun
  <1>. HIDE DEF n
  <1>popped. Pop(acts[t]) \in Seq(Onces) /\ DOMAIN Pop(acts[t]) = 1 .. n - 1
             /\ \A i \in 1 .. n - 1 : Pop(acts[t])[i] = acts[t][i]
    BY <1>0 DEF Pop, n
  <1>rest. acts'[t] = Pop(acts[t]) /\ \A u \in Thread \ {t} : acts'[u] = acts[u]
    BY <1>step DEF IndInv, Inv, TypeOK
  <1>1. TypeOK' /\ plan' \in [Thread -> SUBSET Onces]
    BY <1>0, <1>step, <1>popped DEF IndInv, Inv, TypeOK
  <1>2. Counted' /\ RunsOnce' /\ DoneIsMade'
    BY <1>0, <1>step, <1>was DEF IndInv, Inv, TypeOK, Counted, RunsOnce, DoneIsMade
  <1>4. RunnerExists'
    <2>. SUFFICES ASSUME NEW q \in Onces, state'[q] = "running"
                  PROVE  \E u \in Thread : \E i \in DOMAIN acts'[u] : acts'[u][i] = q
      BY DEF RunnerExists
    <2>1. q # o /\ state[q] = "running"
      BY <1>0, <1>step DEF IndInv, Inv, TypeOK
    <2>2. PICK u \in Thread : \E i \in DOMAIN acts[u] : acts[u][i] = q
      BY <2>1 DEF IndInv, Inv, RunnerExists
    <2>index. PICK i \in DOMAIN acts[u] : acts[u][i] = q
      BY <2>2
    <2>3. i \in DOMAIN acts'[u] /\ acts'[u][i] = q
      BY <1>0, <1>top, <1>popped, <1>rest, <2>1, <2>index
    <2>. QED  BY <2>3
  <1>5. ActsRun'
    <2>1. \A u \in Thread : DOMAIN acts'[u] \subseteq DOMAIN acts[u]
              /\ \A i \in DOMAIN acts'[u] : acts'[u][i] = acts[u][i]
      BY <1>0, <1>top, <1>popped, <1>rest
    <2>2. \A u \in Thread : \A i \in DOMAIN acts'[u] : acts[u][i] # o
      BY <1>0, <1>top, <1>popped, <1>rest, <2>1 DEF IndInv, ActsRun
    <2>3. \A u \in Thread : \A i \in DOMAIN acts[u] : acts[u][i] \in Onces
      BY DEF IndInv, Inv, TypeOK
    <2>4. \A u \in Thread : \A i \in DOMAIN acts'[u] : state'[acts'[u][i]] = "running"
      BY <1>step, <2>1, <2>2, <2>3 DEF IndInv, Inv, TypeOK, ActsRun
    <2>5. \A u \in Thread : pc'[u] = "acting" => acts'[u] # <<>>
      BY <1>step, <1>rest DEF IndInv, Inv, TypeOK, ActsRun
    <2>6. \A u, w \in Thread : \A i \in DOMAIN acts'[u] : \A j \in DOMAIN acts'[w] :
              acts'[u][i] = acts'[w][j] => u = w /\ i = j
      BY <2>1 DEF IndInv, ActsRun
    <2>. QED  BY <2>4, <2>5, <2>6 DEF ActsRun
  <1>6. AnswerMeansMade'
    BY <1>0, <1>step, <1>was DEF IndInv, Inv, TypeOK, AnswerMeansMade
  <1>7. NoLostWakeup'
    BY <1>0, <1>step, <1>was DEF IndInv, Inv, TypeOK, NoLostWakeup, SleepersAsleep
  <1>8. HolderKnows'
    BY <1>0, <1>step, <1>was DEF IndInv, Inv, TypeOK, HolderKnows
  <1>9. SleepersAsleep'
    BY <1>0, <1>step, <1>was DEF IndInv, Inv, TypeOK, SleepersAsleep
  <1>10. SettlerKnows'
    BY <1>0, <1>step, <1>was DEF IndInv, Inv, TypeOK, SettlerKnows
  <1>11. SettledIsPassed'
    <2>1. \A q \in Onces : Passing(q) => Passing(q)'
      BY <1>step DEF IndInv, Inv, TypeOK, Passing
    <2>2. Passing(o)'
      BY <1>0, <1>step DEF IndInv, Inv, TypeOK, Passing
    <2>3. \A q \in Onces \ {o} : state'[q] = state[q]
      BY <1>step DEF IndInv, Inv, TypeOK
    <2>. QED  BY <1>step, <2>1, <2>2, <2>3 DEF IndInv, SettledIsPassed
  <1>12. SleepIsSafe'
    <2>. SUFFICES ASSUME NEW u \in Thread, pc'[u] = "sleep", state'[on'[u]] \in Settled
                  PROVE  Passing(on[u])'
      BY DEF SleepIsSafe
    <2>1. u # t /\ pc[u] = "sleep" /\ on'[u] = on[u] /\ on[u] \in Onces
      BY <1>step DEF IndInv, Inv, TypeOK
    <2>2. CASE on[u] = o
      BY <1>0, <1>step, <2>1, <2>2 DEF IndInv, Inv, TypeOK, Passing
    <2>3. CASE on[u] # o
      <3>1. Passing(on[u])
        BY <1>step, <2>1, <2>3 DEF IndInv, Inv, TypeOK, SleepIsSafe
      <3>. QED  BY <1>step, <2>1, <3>1 DEF IndInv, Inv, TypeOK, Passing
    <2>. QED  BY <2>2, <2>3
  <1>. QED  BY <1>1, <1>2, <1>4, <1>5, <1>6, <1>7, <1>8, <1>9, <1>10, <1>11, <1>12 DEF IndInv, Inv

-----------------------------------------------------------------------------
\* A Once's action begins at most once; an answer of `do` or `get` means that it
\* finished and its value is made; nobody sleeps past it; and no Once is left
\* running by an unwind.
THEOREM OnceInvariant == Spec => []Inv
  <1>1. Init => IndInv
    <2>. USE OnceAssumption
    <2>1. (CHOOSE o \in Onces : TRUE) \in Onces
      OBVIOUS
    <2>2. Init => TypeOK /\ plan \in [Thread -> SUBSET Onces]
      BY <2>1 DEF Init, TypeOK, Points, Settled
    <2>3. Init => RunsOnce /\ AnswerMeansMade /\ NoLostWakeup /\ RunnerExists
      BY DEF Init, RunsOnce, AnswerMeansMade, NoLostWakeup, RunnerExists
    <2>4. Init => Counted /\ ActsRun /\ DoneIsMade
      BY DEF Init, Counted, ActsRun, DoneIsMade
    <2>5. Init => HolderKnows /\ SleepersAsleep /\ SettlerKnows /\ SettledIsPassed /\ SleepIsSafe
      BY DEF Init, HolderKnows, SleepersAsleep, SettlerKnows, SettledIsPassed, SleepIsSafe,
             Holding, Settling, Settled
    <2>. QED  BY <2>2, <2>3, <2>4, <2>5 DEF IndInv, Inv
  <1>2. IndInv /\ [Next]_vars => IndInv'
    <2>. SUFFICES ASSUME IndInv, [Next]_vars PROVE IndInv'
      OBVIOUS
    <2>1. CASE UNCHANGED vars
      BY <2>1 DEF IndInv, Inv, vars, words, waiting, ends, order, TypeOK, RunsOnce, AnswerMeansMade,
                  NoLostWakeup, RunnerExists, Counted, ActsRun, DoneIsMade, HolderKnows,
                  SleepersAsleep, SettlerKnows, SettledIsPassed, SleepIsSafe, Passing
    <2>2. ASSUME NEW t \in Thread, Step(t) PROVE IndInv'
      <3>0. TypeOK /\ UNCHANGED plan
        BY <2>2 DEF IndInv, Inv, Step
      <3>1. CASE FirstLoad(t)
        BY <3>0, <3>1, FirstLoadEffect, LoadEffectInv
      <3>2. CASE Swap(t)
        <4>1. CASE state[on[t]] = "idle" /\ Win(t)
          BY <3>0, <3>2, <4>1, WinInv DEF Swap
        <4>2. CASE state[on[t]] # "idle" /\ (\E v \in Loads(t, on[t]) : Observe(t, v)) /\ UNCHANGED <<words, acts>>
          BY <3>0, <3>2, <4>2, ObserveEffect, LoadEffectInv DEF Swap, At
        <4>. QED  BY <3>2, <4>1, <4>2 DEF Swap
      <3>3. CASE Reload(t)
        BY <3>0, <3>3, ObserveEffect, LoadEffectInv DEF Reload, At
      <3>4. CASE Check(t) \/ Sleep(t) \/ Exit(t)
        BY <3>0, <3>4, CheckInv, SleepInv, ExitInv
      <3>5. CASE WakeUnlock(t) \/ WakeAll(t)
        BY <3>0, <3>5, WakeUnlockInv, WakeAllInv
      <3>. QED  BY <2>2, <3>1, <3>2, <3>3, <3>4, <3>5 DEF Step
    <2>3. ASSUME NEW t \in Thread, Locks(t) PROVE IndInv'
      BY <2>3, EnterInv, ResumeInv, WakeLockInv DEF Locks
    <2>4. ASSUME NEW t \in Thread, End(t) PROVE IndInv'
      <3>1. CASE Finish(t)
        BY <2>4, <3>1, SettleInv DEF Finish, At, End, IndInv, ActsRun
      <3>2. CASE UnwindSettle(t)
        BY <2>4, <3>2, SettleInv DEF UnwindSettle, At, End
      <3>. QED  BY <2>4, <3>1, <3>2, ActionPanicsInv, AbortInv DEF End
    <2>5. ASSUME NEW t \in Thread, Begin(t) PROVE IndInv'
      BY <2>5, SpuriousInv, CallInv DEF Begin
    <2>. QED  BY <2>1, <2>2, <2>3, <2>4, <2>5 DEF Next
  <1>3. IndInv => Inv
    BY DEF IndInv
  <1>. QED  BY <1>1, <1>2, <1>3, PTL DEF Spec

=============================================================================
