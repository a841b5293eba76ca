------------------------- MODULE KernelMutex_proofs -------------------------
(***************************************************************************)
(* Proofs about KernelMutex: mutual exclusion, and that it implements both *)
(* the fair mutex its users see and the scheduler's view of its users.     *)
(***************************************************************************)
EXTENDS KernelMutex, DataLemmas

\* The lemmas of Scheduler_proofs, about the scheduler with these references.
SP == INSTANCE Scheduler_proofs WITH held <- Referenced

-----------------------------------------------------------------------------
(* The scheduler's invariant is kept by every step the scheduler allows. *)

\* S and SP instantiate the same definitions.
LEMMA SameInv == S!Inv <=> SP!Inv
BY DEF S!Inv, SP!Inv, S!Ordinary, SP!Ordinary, S!Permanent, SP!Permanent,
       S!Exists, SP!Exists, S!Once, SP!Once, S!Range, SP!Range,
       S!TypeOK, SP!TypeOK, S!NoVerifyFails, SP!NoVerifyFails, S!OnePlace,
       SP!OnePlace, S!OnlyDeadThreadsReaped, SP!OnlyDeadThreadsReaped,
       S!DeadNeverRuns, SP!DeadNeverRuns, S!PermanentInv, SP!PermanentInv,
       S!StashInv, SP!StashInv, S!MaskedInv, SP!MaskedInv, S!KeptInv,
       SP!KeptInv, S!DanglingInv, SP!DanglingInv

LEMMA SameVars == S!vars = SP!vars
BY DEF S!vars, SP!vars, S!schedulerVars, SP!schedulerVars

LEMMA SameNext == S!Next <=> SP!Next
BY SameVars
   DEF S!Next, SP!Next, S!KernelStep, SP!KernelStep, S!vars, SP!vars,
       S!schedulerVars, SP!schedulerVars, S!Ordinary, SP!Ordinary,
       S!Permanent, SP!Permanent, S!Exists, SP!Exists, S!Range, SP!Range,
       S!IsDefault, SP!IsDefault, S!Running, SP!Running, S!Check, SP!Check,
       S!LastReference, SP!LastReference, S!DanglingAfter, SP!DanglingAfter,
       S!QueuedAfter, SP!QueuedAfter, S!ChooseDefault, SP!ChooseDefault,
       S!Schedule, SP!Schedule, S!ScheduleVerifies, SP!ScheduleVerifies,
       S!ScheduleFits, SP!ScheduleFits, S!SwitchContext, SP!SwitchContext,
       S!SwitchVerifies, SP!SwitchVerifies, S!PendSV, SP!PendSV, S!SysTick,
       SP!SysTick, S!Trigger, SP!Trigger, S!AddThread, SP!AddThread,
       S!AddThreadFits, SP!AddThreadFits, S!Woken, SP!Woken, S!WakeupFits,
       SP!WakeupFits, S!SystemCall, SP!SystemCall, S!EnableScheduler,
       SP!EnableScheduler, S!FallbackLoop, SP!FallbackLoop, S!DefaultIdle,
       SP!DefaultIdle, S!DefaultReap, SP!DefaultReap, S!Forget, SP!Forget,
       S!DefaultDestroy, SP!DefaultDestroy, S!Works, SP!Works, S!Spawn,
       SP!Spawn, S!Construct, SP!Construct, S!Block, SP!Block, S!Wakeup,
       SP!Wakeup, S!Unmask, SP!Unmask, S!GiveBack, SP!GiveBack,
       S!MakeSystemCall, SP!MakeSystemCall, S!TakeReference, SP!TakeReference,
       S!DropReference, SP!DropReference, S!DestroyDead, SP!DestroyDead,
       S!Die, SP!Die, S!Crashed, SP!Crashed

LEMMA SameRange == \A f : S!Range(f) = Range(f)
BY DEF S!Range, Range

\* What Scheduler_proofs shows of any kernel holds of this one.
LEMMA SchedulerInv == S!Inv /\ [S!Next]_(S!vars) => S!Inv'
<1>1. SP!SchedulerAssumption
  BY KernelMutexAssumption DEF SP!SchedulerAssumption
<1>2. SP!Inv /\ [SP!Next]_(SP!vars) => SP!Inv'
  BY <1>1, SP!NextInv
<1>3. S!Inv' <=> SP!Inv'
  BY SameInv, PTL
<1>4. S!vars' = SP!vars'
  BY DEF S!vars, SP!vars, S!schedulerVars, SP!schedulerVars
<1>. QED  BY <1>2, <1>3, <1>4, SameInv, SameVars, SameNext

-----------------------------------------------------------------------------
(* The lockers use the scheduler as it allows. *)

\* A thread that waits in the line does not run: nothing but unlock() unmasks it.
LEMMA RunnerDoesNotWait ==
    ASSUME Inv, NEW t \in Locker, S!Running(t)
    PROVE  t \notin Range(waiting) /\ t \notin dead /\ t = active
<1>1. t = active /\ ~pendsv /\ t # Dummy /\ t \in S!Ordinary
  BY KernelMutexAssumption DEF S!Running, S!Ordinary
<1>2. t \notin masked
  BY <1>1 DEF Inv, S!Inv, S!MaskedInv
<1>. QED  BY <1>1, <1>2 DEF Inv, WaitersBlocked, S!Inv, S!DeadNeverRuns

\* lock() takes a reference to the running thread or blocks it; unlock() drops
\* one, and wakes another thread if there is one.
LEMMA LockerRefines ==
    ASSUME Inv, NEW t \in Locker, LockerStep(t)
    PROVE  [S!Next]_(S!vars)
<1>. USE KernelMutexAssumption DEF S!Trigger, S!vars, S!schedulerVars
<1>1. t \in Thread /\ t \notin {Default, Fallback, Dummy} /\ t # NoThread
  OBVIOUS
<1>2. ASSUME Lock(t) PROVE S!KernelStep(t)
  <2>. USE <1>2 DEF Lock
  <2>1. S!Works(t)
    BY <1>1 DEF S!Works
  <2>2. CASE holding = NoThread
    <3>1. Referenced' = Referenced \cup {t}
      BY <1>1, <2>2 DEF Referenced, Acquire
    <3>2. S!TakeReference(t)
      BY <2>1, <2>2, <3>1 DEF S!TakeReference, Acquire
    <3>. QED  BY <3>2 DEF S!KernelStep
  <2>3. CASE holding # NoThread
    <3>1. Range(waiting') = Range(waiting) \cup {t} /\ holding' = holding
      BY <2>3, RangeAppend DEF Acquire, Inv, TypeOK
    <3>2. Referenced' = Referenced \cup {t}
      BY <3>1 DEF Referenced
    <3>3. \E fits \in BOOLEAN : S!Check(TRUE, fits)
      <4>1. panic' \in {"none", "overflow"}
        BY <2>3 DEF Acquire, S!Check
      <4>. QED  BY <4>1 DEF S!Check
    <3>4. S!Block(t)
      BY <2>1, <2>3, <3>2, <3>3 DEF S!Block, Acquire
    <3>. QED  BY <3>4 DEF S!KernelStep
  <2>. QED  BY <2>2, <2>3
<1>3. ASSUME Enter(t) PROVE UNCHANGED S!vars
  <2>1. UNCHANGED Referenced
    BY <1>3 DEF Enter, Referenced, mutexVars
  <2>. QED  BY <1>3, <2>1 DEF Enter
<1>4. ASSUME Unlock(t) PROVE S!KernelStep(t)
  <2>. USE <1>4 DEF Unlock
  <2>1. S!Works(t) /\ holding = t /\ t = active
    BY <1>1, RunnerDoesNotWait DEF S!Works, Inv, LockerInv
  <2>2. CASE waiting = <<>>
    <3>1. Referenced' = Referenced \ {t} /\ t \in Referenced \ S!Permanent
      BY <1>1, <2>1, <2>2 DEF Referenced, Release, Free, HandOff, S!Permanent, Range
    <3>2. S!DropReference(t, t)
      BY <2>1, <2>2, <3>1 DEF S!DropReference, Release, Free, HandOff
    <3>. QED  BY <1>1, <3>2 DEF S!KernelStep
  <2>3. CASE waiting # <<>>
    <3>. DEFINE next == Head(waiting)
    <3>1. /\ next \in Locker /\ next \in Range(waiting)
          /\ Range(waiting) = Range(waiting') \cup {next}
          /\ holding' = next
      <4>1. waiting \in Seq(Locker) /\ waiting' = Tail(waiting) /\ holding' = next
        BY <2>3 DEF Inv, TypeOK, Release, Free, HandOff
      <4>2. /\ next \in Locker
            /\ Range(waiting) = Range(Tail(waiting)) \cup {next}
        BY <2>3, <4>1, RangeTail
      <4>. QED  BY <4>1, <4>2
    <3>2. next # t /\ next \notin dead /\ next \in Referenced
          /\ next \notin S!Permanent /\ t \notin Range(waiting)
      BY <2>1, <3>1 DEF Inv, LineInv, WaitersBlocked, Referenced, S!Permanent
    <3>3. Referenced' = Referenced \ ({t} \ S!Permanent)
      BY <1>1, <2>1, <3>1, <3>2 DEF Referenced, S!Permanent
    <3>4. S!Wakeup(t, next)
      BY <2>1, <2>3, <3>1, <3>2, <3>3 DEF S!Wakeup, Release, Free, HandOff
    <3>. QED  BY <3>1, <3>4 DEF S!KernelStep
  <2>. QED  BY <2>2, <2>3
<1>5. ASSUME NEW u \in Locker, Create(t, u) PROVE S!KernelStep(t)
  BY <1>5 DEF Create, S!KernelStep
<1>6. ASSUME Exit(t) PROVE S!KernelStep(t)
  BY <1>6 DEF Exit, S!KernelStep
<1>. QED  BY <1>1, <1>2, <1>3, <1>4, <1>5, <1>6 DEF LockerStep, S!Next

LEMMA StepRefines == Inv /\ [Next]_vars => [S!Next]_(S!vars)
<1>. SUFFICES ASSUME Inv, [Next]_vars PROVE [S!Next]_(S!vars)
  OBVIOUS
<1>1. CASE SchedulerStep \/ DefaultStep
  BY <1>1 DEF SchedulerStep, DefaultStep, S!Next
<1>2. CASE \E t \in Locker : LockerStep(t)
  BY <1>2, LockerRefines
<1>3. CASE UNCHANGED vars
  BY <1>3 DEF vars, S!vars, S!schedulerVars, Referenced
<1>. QED  BY <1>1, <1>2, <1>3 DEF Next

-----------------------------------------------------------------------------
(* The inductive invariant *)

LEMMA InitInv == Init => Inv
<1>. SUFFICES ASSUME Init PROVE Inv
  OBVIOUS
<1>. USE KernelMutexAssumption DEF Init
<1>1. Range(waiting) = {}
  BY DEF Range
<1>2. SP!SchedulerAssumption
  BY DEF SP!SchedulerAssumption
<1>3. SP!Init
  BY DEF S!Init, SP!Init, S!Permanent, SP!Permanent
<1>4. S!Inv
  BY <1>2, <1>3, SP!InitInv, SameInv
<1>5. TypeOK
  BY <1>4 DEF TypeOK, S!Inv
<1>6. WaitersBlocked /\ LineInv
  BY <1>1 DEF WaitersBlocked, LineInv, Once
<1>7. LockerInv
  BY <1>1 DEF LockerInv, S!Init
<1>. QED  BY <1>4, <1>5, <1>6, <1>7 DEF Inv

\* A waiting thread stays out of the run queue as long as it stays masked.
LEMMA BlockedStep ==
    ASSUME S!Inv', \A t \in Range(waiting') : t \in Locker /\ t \in masked' /\ t \notin dead',
           (holding = NoThread => waiting = <<>>)'
    PROVE  WaitersBlocked'
<1>. SUFFICES ASSUME NEW t \in Range(waiting') PROVE t \notin Range(queued')
  BY DEF WaitersBlocked
<1>1. t \in S!Ordinary \cap masked'
  BY KernelMutexAssumption DEF S!Ordinary
<1>. QED  BY <1>1, SameRange DEF S!Inv, S!MaskedInv

LEMMA WaitersAreLockers == TypeOK => Range(waiting) \subseteq Locker
BY DEF TypeOK, Range

LEMMA SchedulerStepInv == Inv /\ (SchedulerStep \/ DefaultStep \/ UNCHANGED vars) => Inv'
<1>. SUFFICES ASSUME Inv, SchedulerStep \/ DefaultStep \/ UNCHANGED vars PROVE Inv'
  OBVIOUS
<1>1. S!Inv'
  BY StepRefines, SchedulerInv DEF Inv, Next
<1>2. UNCHANGED <<holding, waiting, pc>> /\ Range(waiting') = Range(waiting)
  BY DEF SchedulerStep, DefaultStep, mutexVars, vars
<1>3. TypeOK'
  BY <1>1, <1>2 DEF Inv, TypeOK, S!Inv
<1>4. dead' \subseteq dead /\ masked \ {reaping} \subseteq masked'
  BY DEF SchedulerStep, DefaultStep, vars, S!vars, S!schedulerVars, S!PendSV, S!SysTick,
         S!EnableScheduler, S!FallbackLoop, S!DefaultIdle, S!Crashed,
         S!DefaultReap, S!DefaultDestroy, S!Forget
<1>5. reaping \notin Range(waiting)
  BY DEF Inv, S!Inv, S!DanglingInv, Referenced
<1>6. WaitersBlocked'
  BY <1>1, <1>2, <1>4, <1>5, BlockedStep, WaitersAreLockers DEF Inv, WaitersBlocked
<1>7. LineInv' /\ LockerInv'
  BY <1>2, <1>4 DEF Inv, LineInv, LockerInv, Once
<1>. QED  BY <1>1, <1>3, <1>6, <1>7 DEF Inv

LEMMA LockInv == ASSUME Inv, NEW t \in Locker, Lock(t) PROVE Inv'
<1>. USE KernelMutexAssumption
<1>1. S!Inv'
  BY StepRefines, SchedulerInv DEF Inv, Next, LockerStep
<1>2. /\ t \notin Range(waiting) /\ t \notin dead /\ holding # t /\ t # NoThread
      /\ pc' = [pc EXCEPT ![t] = "entering"] /\ dead' = dead
      /\ waiting \in Seq(Locker)
  BY RunnerDoesNotWait DEF Lock, Inv, LockerInv, TypeOK
<1>3. CASE holding = NoThread
  <2>1. holding' = t /\ waiting' = waiting /\ masked' = masked /\ waiting = <<>>
    BY <1>3 DEF Lock, Acquire, Inv, WaitersBlocked
  <2>2. Range(waiting') = {} /\ Range(waiting) = {}
    BY <2>1 DEF Range
  <2>3. TypeOK'
    BY <1>1, <1>2, <2>1 DEF Inv, TypeOK, S!Inv
  <2>4. WaitersBlocked'
    BY <1>1, <2>1, <2>2, BlockedStep
  <2>5. LineInv' /\ LockerInv'
    BY <1>2, <1>3, <2>1, <2>2 DEF Inv, LineInv, LockerInv, TypeOK, Once
  <2>. QED  BY <1>1, <2>3, <2>4, <2>5 DEF Inv
<1>4. CASE holding # NoThread
  <2>1. holding' = holding /\ waiting' = Append(waiting, t) /\ masked' = masked \cup {t}
    BY <1>4 DEF Lock, Acquire
  <2>2. waiting' \in Seq(Locker) /\ Range(waiting') = Range(waiting) \cup {t}
    BY <1>2, <2>1, RangeAppend
  <2>3. TypeOK'
    BY <1>1, <1>2, <2>1, <2>2 DEF Inv, TypeOK, S!Inv
  <2>4. WaitersBlocked'
    BY <1>1, <1>2, <1>4, <2>1, <2>2, BlockedStep, WaitersAreLockers DEF Inv, WaitersBlocked
  <2>5. LineInv'
    BY <1>2, <2>1, <2>2, OnceAppend DEF Inv, LineInv
  <2>6. LockerInv'
    BY <1>2, <2>1, <2>2 DEF Inv, LockerInv, TypeOK
  <2>. QED  BY <1>1, <2>3, <2>4, <2>5, <2>6 DEF Inv
<1>. QED  BY <1>3, <1>4

LEMMA UnlockInv == ASSUME Inv, NEW t \in Locker, Unlock(t) PROVE Inv'
<1>. USE KernelMutexAssumption
<1>1. S!Inv'
  BY StepRefines, SchedulerInv DEF Inv, Next, LockerStep
<1>2. /\ t \notin Range(waiting) /\ holding = t /\ t # NoThread
      /\ pc' = [pc EXCEPT ![t] = "outside"] /\ dead' = dead
      /\ waiting \in Seq(Locker)
  BY RunnerDoesNotWait DEF Unlock, Inv, LockerInv, TypeOK
<1>3. CASE waiting = <<>>
  <2>1. holding' = NoThread /\ waiting' = waiting /\ masked' = masked
    BY <1>3 DEF Unlock, Release, Free, HandOff
  <2>2. Range(waiting') = {} /\ Range(waiting) = {}
    BY <1>3, <2>1 DEF Range
  <2>3. TypeOK'
    BY <1>1, <1>2, <2>1 DEF Inv, TypeOK, S!Inv
  <2>4. WaitersBlocked'
    BY <1>1, <1>3, <2>1, <2>2, BlockedStep
  <2>5. LineInv' /\ LockerInv'
    BY <1>2, <1>3, <2>1, <2>2 DEF Inv, LineInv, LockerInv, TypeOK, Once
  <2>. QED  BY <1>1, <2>3, <2>4, <2>5 DEF Inv
<1>4. CASE waiting # <<>>
  <2>. DEFINE next == Head(waiting)
  <2>1. holding' = next /\ waiting' = Tail(waiting) /\ masked' = masked \ {next}
    BY <1>4 DEF Unlock, Release, Free, HandOff
  <2>2. /\ next \in Locker /\ waiting' \in Seq(Locker)
        /\ Range(waiting) = Range(waiting') \cup {next}
    BY <1>2, <1>4, <2>1, RangeTail
  <2>3. \A u \in Locker : Once(waiting', u)
    BY <1>2, <1>4, <2>1, OnceTail DEF Inv, LineInv
  <2>4. next \notin Range(waiting')
    BY <1>2, <1>4, <2>1, <2>2, OnceTail DEF Inv, LineInv
  <2>. HIDE DEF next
  <2>5. TypeOK'
    BY <1>1, <1>2, <2>1, <2>2 DEF Inv, TypeOK, S!Inv
  <2>6. WaitersBlocked'
    BY <1>1, <1>2, <2>1, <2>2, <2>4, BlockedStep, WaitersAreLockers DEF Inv, WaitersBlocked
  <2>7. LineInv' /\ LockerInv'
    BY <1>2, <2>1, <2>2, <2>3, <2>4 DEF Inv, LineInv, LockerInv, TypeOK, WaitersBlocked
  <2>. QED  BY <1>1, <2>5, <2>6, <2>7 DEF Inv
<1>. QED  BY <1>3, <1>4

LEMMA OtherStepInv ==
    ASSUME Inv, NEW t \in Locker, Enter(t) \/ Exit(t) \/ \E u \in Locker : Create(t, u)
    PROVE  Inv'
<1>. USE KernelMutexAssumption
<1>1. S!Inv'
  BY StepRefines, SchedulerInv DEF Inv, Next, LockerStep
<1>2. /\ UNCHANGED <<holding, waiting>> /\ Range(waiting') = Range(waiting)
      /\ masked \subseteq masked'
      /\ waiting \in Seq(Locker)
      /\ t \notin Range(waiting) /\ t \notin dead
  BY RunnerDoesNotWait
     DEF Enter, Exit, Create, mutexVars, Inv, TypeOK, S!Die, S!Spawn, S!Works, S!Running
<1>3. /\ pc' \in [Locker -> {"outside", "entering", "inside"}]
      /\ dead' \subseteq dead \cup {t}
  BY DEF Enter, Exit, Create, Inv, TypeOK, S!Die, S!Spawn
<1>4. TypeOK' /\ LineInv'
  BY <1>1, <1>2, <1>3 DEF Inv, TypeOK, S!Inv, LineInv, Once
<1>5. WaitersBlocked'
  BY <1>1, <1>2, <1>3, BlockedStep, WaitersAreLockers DEF Inv, WaitersBlocked
<1>6. LockerInv'
  <2>1. CASE Enter(t)
    BY <1>2, <2>1 DEF Enter, Inv, LockerInv, TypeOK
  <2>2. CASE Exit(t) \/ \E u \in Locker : Create(t, u)
    BY <1>2, <1>3, <2>2 DEF Exit, Create, Inv, LockerInv
  <2>. QED  BY <2>1, <2>2
<1>. QED  BY <1>1, <1>4, <1>5, <1>6 DEF Inv

LEMMA NextInv == Inv /\ [Next]_vars => Inv'
BY SchedulerStepInv, LockInv, UnlockInv, OtherStepInv DEF Next, LockerStep

-----------------------------------------------------------------------------
(* The abstract mutex *)

LEMMA StepFair == Inv /\ [Next]_vars => [Fair!Next]_(Fair!vars)
<1>. SUFFICES ASSUME Inv, [Next]_vars PROVE [Fair!Next]_(Fair!vars)
  OBVIOUS
<1>. USE KernelMutexAssumption DEF Fair!vars
<1>r. \A f : Fair!Range(f) = Range(f)
  BY DEF Fair!Range, Range
<1>t. /\ waiting \in Seq(Locker) /\ holding \in Locker \cup {NoThread}
      /\ NoThread \notin Locker
  BY DEF Inv, TypeOK
<1>1. CASE SchedulerStep \/ DefaultStep \/ UNCHANGED vars
  BY <1>1 DEF SchedulerStep, DefaultStep, vars, mutexVars, Line, Inside
<1>2. ASSUME NEW t \in Locker, Lock(t) PROVE Fair!Arrive(t)
  <2>1. t # holding /\ t \notin Range(waiting) /\ Inside' = Inside
    BY <1>2 DEF Lock, Inv, LockerInv, TypeOK, Inside
  <2>2. CASE holding = NoThread
    <3>1. Line = <<>> /\ Line' = <<t>> \o waiting /\ waiting = <<>>
      BY <1>2, <1>t, <2>2 DEF Lock, Acquire, Line, Inv, WaitersBlocked
    <3>2. Line' = Append(Line, t) /\ Range(Line) = {}
      BY <3>1 DEF Range
    <3>. QED  BY <1>r, <2>1, <3>2 DEF Fair!Arrive
  <2>3. CASE holding # NoThread
    <3>1. Line = <<holding>> \o waiting /\ Line' = <<holding>> \o Append(waiting, t)
      BY <1>2, <2>3 DEF Lock, Acquire, Line
    <3>2. Line' = Append(Line, t) /\ Range(Line) = {holding} \cup Range(waiting)
      BY <1>2, <1>t, <2>3, <3>1, FrontOfQueue
    <3>. QED  BY <1>r, <2>1, <3>2 DEF Fair!Arrive
  <2>. QED  BY <2>2, <2>3
<1>3. ASSUME NEW t \in Locker, Enter(t) PROVE Fair!Enter(t)
  <2>1. holding = t /\ UNCHANGED Line
    BY <1>3, RunnerDoesNotWait DEF Enter, mutexVars, Inv, LockerInv, Line
  <2>2. Line # <<>> /\ Head(Line) = t
    BY <1>t, <2>1, FrontOfQueue DEF Line
  <2>3. t \notin Inside /\ Inside' = Inside \cup {t}
    BY <1>3 DEF Enter, Inside, Inv, TypeOK
  <2>. QED  BY <2>1, <2>2, <2>3 DEF Fair!Enter
<1>4. ASSUME NEW t \in Locker, Unlock(t) PROVE Fair!Leave(t)
  <2>1. holding = t /\ Line = <<t>> \o waiting
    BY <1>4, <1>t DEF Unlock, Inv, LockerInv, Line
  <2>2. Line # <<>> /\ Head(Line) = t /\ Tail(Line) = waiting
    BY <1>4, <1>t, <2>1, FrontOfQueue
  <2>3. t \in Inside /\ Inside' = Inside \ {t}
    BY <1>4 DEF Unlock, Inside, Inv, TypeOK
  <2>4. Line' = waiting
    <3>1. CASE waiting = <<>>
      BY <1>4, <3>1 DEF Unlock, Release, Free, HandOff, Line
    <3>2. CASE waiting # <<>>
      <4>1. holding' = Head(waiting) /\ waiting' = Tail(waiting) /\ holding' # NoThread
        BY <1>4, <1>t, <3>2, RangeTail DEF Unlock, Release, Free, HandOff
      <4>. QED  BY <1>t, <3>2, <4>1, HeadInFront DEF Line
    <3>. QED  BY <3>1, <3>2
  <2>. QED  BY <2>2, <2>3, <2>4 DEF Fair!Leave
<1>5. ASSUME NEW t \in Locker, Exit(t) \/ \E u \in Locker : Create(t, u)
      PROVE  UNCHANGED <<Line, Inside>>
  BY <1>5 DEF Exit, Create, mutexVars, Line, Inside
<1>. QED  BY <1>1, <1>2, <1>3, <1>4, <1>5 DEF Next, LockerStep, Fair!Next

-----------------------------------------------------------------------------
(* The theorems *)

\* The inductive invariant holds in every reachable state.
THEOREM Invariance == Spec => []Inv
BY InitInv, NextInv, PTL DEF Spec

\* At most one thread executes the critical section, for any number of threads
\* and however the scheduler interleaves them (KernelMutex.hpp:31-86).
THEOREM Exclusion == Spec => []MutualExclusion
<1>. Inv => MutualExclusion
  BY DEF Inv, LockerInv, MutualExclusion
<1>. QED  BY Invariance, PTL

\* A waiting thread is masked and not queued until unlock() hands the mutex to
\* it, and nobody waits for a free mutex (KernelMutex.hpp:50-53, 71-80).
THEOREM WaitersStayBlocked == Spec => []WaitersBlocked
<1>. Inv => WaitersBlocked
  BY DEF Inv
<1>. QED  BY Invariance, PTL

\* lock() and unlock() use the scheduler only as Scheduler allows, so what is
\* proved there holds of a kernel with mutexes (KernelMutex.hpp:31-86,
\* Scheduler.cpp:48-105).
THEOREM RefinesScheduler == Spec => ImplementsScheduler
<1>1. Init => S!Init
  BY DEF Init
<1>. QED  BY <1>1, StepRefines, Invariance, PTL DEF Spec, ImplementsScheduler, S!Spec

\* The mutex goes to the threads in the order of their arrival
\* (KernelMutex.hpp:71-80).
THEOREM RefinesFairMutex == Spec => ImplementsFairMutex
<1>1. Init => Fair!Init
  BY DEF Init, Fair!Init, Line, Inside
<1>. QED  BY <1>1, StepFair, Invariance, PTL DEF Spec, ImplementsFairMutex, Fair!Spec
=============================================================================
