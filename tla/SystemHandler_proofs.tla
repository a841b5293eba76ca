------------------------ MODULE SystemHandler_proofs ------------------------
(***************************************************************************)
(* Proofs about SystemHandler: nobody loses or shares a caller, the threads *)
(* of the system calls use the scheduler as it allows, and a system call    *)
(* keeps its promise.                                                       *)
(***************************************************************************)
EXTENDS SystemHandler, DataLemmas

\* The lemmas of Scheduler_proofs, about the scheduler with these references.
SP == INSTANCE Scheduler_proofs WITH held <- Referenced

-----------------------------------------------------------------------------
(* What Scheduler_proofs shows of any kernel holds of this one. *)

\* S and SP instantiate the same definitions.
LEMMA SameInv == S!Inv <=> SP!Inv
BY DEF S!Inv, SP!Inv, S!Ordinary, SP!Ordinary, S!Permanent, SP!Permanent,
       S!Exists, SP!Exists, S!Once, SP!Once, S!Range, SP!Range,
       S!TypeOK, SP!TypeOK, S!NoVerifyFails, SP!NoVerifyFails, S!OnePlace,
       SP!OnePlace, S!OnlyDeadThreadsReaped, SP!OnlyDeadThreadsReaped,
       S!DeadNeverRuns, SP!DeadNeverRuns, S!PermanentInv, SP!PermanentInv,
       S!StashInv, SP!StashInv, S!MaskedInv, SP!MaskedInv, S!KeptInv,
       SP!KeptInv, S!DanglingInv, SP!DanglingInv

LEMMA SameVars == S!vars = SP!vars
BY DEF S!vars, SP!vars, S!schedulerVars, SP!schedulerVars

LEMMA SameNext == S!Next <=> SP!Next
BY SameVars
   DEF S!Next, SP!Next, S!KernelStep, SP!KernelStep, S!vars, SP!vars,
       S!schedulerVars, SP!schedulerVars, S!Ordinary, SP!Ordinary,
       S!Permanent, SP!Permanent, S!Exists, SP!Exists, S!Range, SP!Range,
       S!IsDefault, SP!IsDefault, S!Running, SP!Running, S!Check, SP!Check,
       S!LastReference, SP!LastReference, S!DanglingAfter, SP!DanglingAfter,
       S!QueuedAfter, SP!QueuedAfter, S!ChooseDefault, SP!ChooseDefault,
       S!Schedule, SP!Schedule, S!ScheduleVerifies, SP!ScheduleVerifies,
       S!ScheduleFits, SP!ScheduleFits, S!SwitchContext, SP!SwitchContext,
       S!SwitchVerifies, SP!SwitchVerifies, S!PendSV, SP!PendSV, S!SysTick,
       SP!SysTick, S!Trigger, SP!Trigger, S!AddThread, SP!AddThread,
       S!AddThreadFits, SP!AddThreadFits, S!Woken, SP!Woken, S!WakeupFits,
       SP!WakeupFits, S!SystemCall, SP!SystemCall, S!EnableScheduler,
       SP!EnableScheduler, S!FallbackLoop, SP!FallbackLoop, S!DefaultIdle,
       SP!DefaultIdle, S!DefaultReap, SP!DefaultReap, S!Forget, SP!Forget,
       S!DefaultDestroy, SP!DefaultDestroy, S!Works, SP!Works, S!Spawn,
       SP!Spawn, S!Construct, SP!Construct, S!Block, SP!Block, S!Wakeup,
       SP!Wakeup, S!Unmask, SP!Unmask, S!GiveBack, SP!GiveBack,
       S!MakeSystemCall, SP!MakeSystemCall, S!TakeReference, SP!TakeReference,
       S!DropReference, SP!DropReference, S!DestroyDead, SP!DestroyDead,
       S!Die, SP!Die, S!Crashed, SP!Crashed

LEMMA SameSets ==
    /\ \A f : S!Range(f) = Range(f)
    /\ \A t : S!Exists(t) <=> SP!Exists(t)
    /\ S!Ordinary = SP!Ordinary
    /\ S!PendSV <=> SP!PendSV
    /\ S!SysTick \/ S!EnableScheduler \/ S!DefaultIdle \/ S!DefaultReap \/ S!DefaultDestroy <=>
       SP!SysTick \/ SP!EnableScheduler \/ SP!DefaultIdle \/ SP!DefaultReap \/ SP!DefaultDestroy
    /\ \A h, room : S!SystemCall(h, room) <=> SP!SystemCall(h, room)
BY DEF S!Range, Range, S!Exists, SP!Exists, SP!Range, S!Ordinary, SP!Ordinary,
       S!PendSV, SP!PendSV, S!SystemCall, SP!SystemCall,
       S!IsDefault, SP!IsDefault, S!Check, SP!Check,
       S!LastReference, SP!LastReference, S!DanglingAfter, SP!DanglingAfter,
       S!QueuedAfter, SP!QueuedAfter, S!ChooseDefault, SP!ChooseDefault,
       S!Schedule, SP!Schedule, S!ScheduleVerifies, SP!ScheduleVerifies,
       S!ScheduleFits, SP!ScheduleFits, S!SwitchContext, SP!SwitchContext,
       S!SwitchVerifies, SP!SwitchVerifies, S!AddThreadFits, SP!AddThreadFits,
       S!Woken, SP!Woken, S!WakeupFits, SP!WakeupFits, S!SysTick, SP!SysTick,
       S!Running, SP!Running, S!Trigger, SP!Trigger, S!Forget, SP!Forget,
       S!EnableScheduler, SP!EnableScheduler, S!DefaultIdle, SP!DefaultIdle,
       S!DefaultReap, SP!DefaultReap, S!DefaultDestroy, SP!DefaultDestroy

LEMMA SchedulerAssumed == SP!SchedulerAssumption
BY SystemHandlerAssumption DEF SP!SchedulerAssumption

\* The scheduler's invariant is kept by every step the scheduler allows, and so
\* is every thread that did not die.
LEMMA SchedulerInv ==
    S!Inv /\ [S!Next]_(S!vars) =>
        /\ S!Inv'
        /\ \A t \in Thread \ dead : S!Exists(t) => S!Exists(t)'
<1>1. SP!Inv /\ [SP!Next]_(SP!vars) =>
          /\ SP!Inv'
          /\ \A t \in Thread \ dead : SP!Exists(t) => SP!Exists(t)'
  BY SchedulerAssumed, SP!NextInv, SP!AliveStays
<1>2. S!Inv' <=> SP!Inv'
  BY SameInv, PTL
<1>3. \A t : S!Exists(t)' <=> SP!Exists(t)'
  BY DEF S!Exists, SP!Exists, S!Range, SP!Range
<1>4. S!vars' = SP!vars'
  BY DEF S!vars, SP!vars, S!schedulerVars, SP!schedulerVars
<1>. QED  BY <1>1, <1>2, <1>3, <1>4, SameInv, SameVars, SameNext, SameSets

\* No handler takes up a thread that neither runs nor is queued, but the one it
\* wakes.
LEMMA SchedulerOutside ==
    ASSUME S!Inv, NEW t \in S!Ordinary, t \notin Range(queued) \cup {active},
           \/ S!PendSV
           \/ \E h \in Thread \ {t} : \E room \in BOOLEAN : S!SystemCall(h, room)
    PROVE  t \notin Range(queued') \cup {active'}
<1>1. SP!Inv /\ t \in SP!Ordinary /\ t \notin SP!Range(queued) \cup {active}
  BY SameInv, SameSets DEF SP!Range, Range
<1>2. SP!PendSV \/ \E h \in Thread \ {t} : \E room \in BOOLEAN : SP!SystemCall(h, room)
  BY SameSets
<1>3. t \notin SP!Range(queued') \cup {active'}
  BY <1>1, <1>2, SchedulerAssumed, SP!OutsideStays
<1>. QED  BY <1>3 DEF SP!Range, Range

\* The handlers and the default threads create nobody.
LEMMA SchedulerGone ==
    ASSUME S!Inv, NEW t \in S!Ordinary, ~S!Exists(t),
           S!PendSV \/ S!SysTick \/ S!EnableScheduler \/ S!DefaultIdle \/ S!DefaultReap
               \/ S!DefaultDestroy
    PROVE  ~S!Exists(t)'
<1>1. SP!Inv /\ t \in SP!Ordinary /\ ~SP!Exists(t)
  BY SameInv, SameSets
<1>2. ~SP!Exists(t)'
  BY <1>1, SameSets, SchedulerAssumed, SP!GoneStays
<1>. QED  BY <1>2 DEF S!Exists, SP!Exists, S!Range, SP!Range

-----------------------------------------------------------------------------
(* The threads that are referenced outside the scheduler *)

LEMMA HandTypes ==
    TypeOK => /\ InHand \cup leaked \subseteq User /\ Range(calls) \subseteq User
              /\ InHand \cup leaked \subseteq S!Ordinary \ {Startup, Handler, NoThread}
BY SystemHandlerAssumption DEF TypeOK, InHand, Range, S!Ordinary

\* The references of the default threads, of the handler and to the callers.
LEMMA References ==
    Referenced = {Default, Fallback, Dummy} \cup {t \in {Handler} : startupAt # "initialize"}
                     \cup InHand \cup leaked
BY DEF Referenced, InHand

LEMMA ReferencesAfter ==
    Referenced' = {Default, Fallback, Dummy} \cup {t \in {Handler} : startupAt' # "initialize"}
                     \cup InHand' \cup leaked'
BY DEF Referenced, InHand

\* The caller of one worker changes.
LEMMA ServesUpdate ==
    ASSUME serves \in [Worker -> User \cup {NoThread}], NEW w \in Worker,
           NEW x \in User \cup {NoThread}, serves' = [serves EXCEPT ![w] = x]
    PROVE  /\ serves' \in [Worker -> User \cup {NoThread}]
           /\ serves'[w] = x /\ \A v \in Worker \ {w} : serves'[v] = serves[v]
           /\ {serves'[v] : v \in Worker} = {serves[v] : v \in Worker \ {w}} \cup {x}
           /\ {serves[v] : v \in Worker} = {serves[v] : v \in Worker \ {w}} \cup {serves[w]}
           /\ \A u \in User : Servants(u)' =
                  (Servants(u) \ {w}) \cup {v \in {w} : u = x}
BY DEF Servants

\* Who is referred to by a worker is in hand.
LEMMA Served ==
    /\ TypeOK => \A w \in Worker : serves[w] # NoThread =>
           /\ serves[w] \in User /\ serves[w] \in InHand /\ w \in Servants(serves[w])
    /\ \A u \in User : NoThread # u =>
           (u \in InHand <=> u \in Range(calls) \/ u = taken \/ Servants(u) # {})
BY DEF TypeOK, InHand, Servants

\* A user thread that runs has made no call that is not answered.
LEMMA UserRuns ==
    ASSUME Inv, NEW u \in User, S!Running(u)
    PROVE  u \notin InHand \cup leaked /\ u = active /\ u \notin masked /\ u \notin dead
<1>1. u = active /\ ~pendsv /\ u # Dummy /\ u \in S!Ordinary
  BY SystemHandlerAssumption DEF S!Running, S!Ordinary
<1>2. u \notin masked
  BY <1>1 DEF Inv, S!Inv, S!MaskedInv
<1>. QED  BY <1>1, <1>2 DEF Inv, BlockedInv, S!Inv, S!KeptInv

\* The caller of a worker that does not unmask it yet is kept and masked.
LEMMA CallerIsBlocked ==
    ASSUME Inv, NEW w \in Worker, serves[w] # NoThread
    PROVE  /\ serves[w] \in User \ dead
           /\ serves[w] \in Referenced /\ serves[w] \notin Range(queued) \cup {active}
           /\ userAt[serves[w]] = "svc"
           /\ serves[w] \notin Range(calls) /\ serves[w] # taken /\ serves[w] \notin leaked
           /\ \A v \in Worker \ {w} : serves[v] # serves[w]
           /\ serves[w] \in masked <=> workerAt[w] # "add_thread"
<1>. DEFINE u == serves[w]
<1>1. u \in User /\ u \in InHand /\ w \in Servants(u)
  BY Served DEF Inv
<1>2. \A v \in Servants(u) : v = w
  BY <1>1 DEF Inv, PlaceInv
<1>3. ServedIn(u, "add_thread") <=> workerAt[w] = "add_thread"
  BY <1>1, <1>2 DEF ServedIn
<1>4. u \notin dead
  BY <1>1, SystemHandlerAssumption DEF Inv, StartupInv
<1>5. u \notin Range(calls) /\ u # taken /\ u \notin leaked
  BY <1>1 DEF Inv, PlaceInv
<1>. QED  BY <1>1, <1>2, <1>3, <1>4, <1>5, References DEF Inv, BlockedInv, Servants

-----------------------------------------------------------------------------
(* Every step is one that the scheduler allows. *)

\* svc hands the caller over to the thread of the SystemHandler.
LEMMA UserRefines ==
    ASSUME Inv, NEW u \in User, NEW call \in Call, SystemCall(u, call)
    PROVE  S!MakeSystemCall(u, Handler)
<1>. USE SystemHandlerAssumption DEF SystemCall
<1>1. S!Works(u) /\ u # Default /\ Handler # u
  BY DEF S!Works
<1>2. Handler \in Referenced \ (S!Permanent \cup dead)
  BY References DEF Inv, StartupInv, S!Permanent
<1>3. Referenced' = Referenced \cup {u}
  <2>1. Range(calls') = Range(calls) \cup {u}
    BY RangeAppend DEF Inv, TypeOK
  <2>. QED  BY <2>1 DEF Referenced
<1>4. \E room \in BOOLEAN : S!SystemCall(Handler, room)
  <2>1. (Len(calls) < QueueSize) \in BOOLEAN
    OBVIOUS
  <2>. QED  BY <2>1
<1>. QED  BY <1>1, <1>2, <1>3, <1>4 DEF S!MakeSystemCall

LEMMA HandlerRefines ==
    ASSUME Inv, HandlerStep
    PROVE  [S!Next]_(S!vars)
<1>. USE SystemHandlerAssumption DEF S!vars, S!schedulerVars, HandlerRuns
<1>1. startupAt # "initialize" /\ Handler \in Referenced
  BY References DEF HandlerStep, HandlerSleep, HandlerSeesCall, HandlerDequeue, HandlerSpawn,
                    S!Running, S!Exists, Inv, StartupInv
<1>2. CASE HandlerSleep
  <2>1. UNCHANGED Referenced
    BY <1>2 DEF HandlerSleep, callVars, Referenced
  <2>2. S!Works(Handler) /\ Referenced' = Referenced \cup {Handler}
    BY <1>1, <1>2, <2>1 DEF HandlerSleep, S!Works
  <2>3. \E fits \in BOOLEAN : S!Check(TRUE, fits)
    <3>1. S!Check(TRUE, TRUE)
      BY <1>2 DEF HandlerSleep, S!Check, S!Running
    <3>. QED  BY <3>1
  <2>4. S!Block(Handler)
    BY <1>2, <2>2, <2>3 DEF HandlerSleep, S!Block
  <2>. QED  BY <2>4 DEF S!Next, S!KernelStep
<1>3. CASE HandlerSeesCall
  BY <1>3 DEF HandlerSeesCall, Referenced
<1>4. CASE HandlerDequeue
  <2>1. Range(calls) = Range(calls') \cup {Head(calls)} /\ Head(calls) \in User
    BY <1>4, RangeTail DEF HandlerDequeue, Inv, TypeOK
  <2>2. taken = NoThread /\ taken' = Head(calls)
    BY <1>4 DEF HandlerDequeue, Inv, HandlerInv
  <2>3. UNCHANGED Referenced
    BY <1>4, <2>1, <2>2 DEF HandlerDequeue, Referenced
  <2>. QED  BY <1>4, <2>3 DEF HandlerDequeue
<1>5. ASSUME NEW w \in Worker, HandlerSpawn(w)
      PROVE  S!KernelStep(Handler)
  <2>1. serves[w] = NoThread
    BY <1>5 DEF HandlerSpawn, S!Spawn, Inv, WorkerInv
  <2>2. {serves'[v] : v \in Worker} \ {NoThread}
            = ({serves[v] : v \in Worker} \ {NoThread}) \cup {taken}
    <3>1. taken \in User
      BY <1>5 DEF HandlerSpawn, Inv, HandlerInv, TypeOK
    <3>. QED  BY <1>5, <2>1, <3>1, ServesUpdate DEF HandlerSpawn, Inv, TypeOK
  <2>3. UNCHANGED Referenced
    BY <1>5, <2>2 DEF HandlerSpawn, Referenced
  <2>. QED  BY <1>5 DEF HandlerSpawn, S!KernelStep
<1>. QED  BY <1>2, <1>3, <1>4, <1>5 DEF HandlerStep, S!Next

\* A worker unmasks its caller and gives it back with the only reference to it.
LEMMA WorkerRefines ==
    ASSUME Inv, NEW w \in Worker, WorkerStep(w)
    PROVE  [S!Next]_(S!vars)
<1>. USE SystemHandlerAssumption DEF S!vars, S!schedulerVars, WorkerRuns, WorkerGoes
<1>1. /\ S!Works(w) /\ w # Default
      /\ workerAt[w] # "die" => serves[w] # NoThread
      /\ serves \in [Worker -> User \cup {NoThread}]
  BY DEF WorkerStep, WorkerSyscall, WorkerAnswer, WorkerUnmask, WorkerAddThread, WorkerDie,
         WorkerPosixSpawn, S!Works, Inv, WorkerInv, TypeOK
<1>2. CASE WorkerSyscall(w)
  BY <1>2 DEF WorkerSyscall, Referenced
<1>3. CASE WorkerAnswer(w)
  <2>1. serves[w] \in masked
    BY <1>1, <1>3, CallerIsBlocked DEF WorkerAnswer
  <2>2. UNCHANGED panic
    BY <1>3, <2>1 DEF WorkerAnswer, S!Check, S!Running
  <2>. QED  BY <1>3, <2>2 DEF WorkerAnswer, Referenced
<1>4. CASE WorkerUnmask(w)
  <2>1. serves[w] \in (Referenced \cap masked) \ (S!Permanent \cup dead) /\ serves[w] # w
    BY <1>1, <1>4, CallerIsBlocked DEF WorkerUnmask, S!Permanent
  <2>2. UNCHANGED Referenced
    BY <1>4 DEF WorkerUnmask, Referenced
  <2>3. S!Unmask(w, serves[w]) /\ w \in Thread /\ serves[w] \in Thread
    BY <1>1, <1>4, <2>1, <2>2, CallerIsBlocked DEF WorkerUnmask, S!Unmask
  <2>. QED  BY <2>3 DEF S!Next, S!KernelStep
<1>5. CASE WorkerAddThread(w)
  <2>1. /\ serves[w] \in Referenced \ (S!Permanent \cup masked) /\ serves[w] # w
        /\ serves[w] \notin Range(queued) /\ serves[w] \in User
    BY <1>1, <1>5, CallerIsBlocked DEF WorkerAddThread, S!Permanent
  <2>2. Referenced' = Referenced \ {serves[w]}
    <3>1. /\ {serves'[v] : v \in Worker} = {serves[v] : v \in Worker \ {w}} \cup {NoThread}
          /\ {serves[v] : v \in Worker} = {serves[v] : v \in Worker \ {w}} \cup {serves[w]}
      BY <1>1, <1>5, ServesUpdate DEF WorkerAddThread
    <3>2. InHand' = InHand \ {serves[w]} /\ leaked' = leaked /\ serves[w] \notin leaked
      BY <1>1, <1>5, <3>1, CallerIsBlocked DEF WorkerAddThread, InHand
    <3>. QED  BY <1>5, <2>1, <3>2, References, ReferencesAfter DEF WorkerAddThread, S!Permanent
  <2>3. S!GiveBack(w, serves[w])
    BY <1>1, <1>5, <2>1, <2>2, SameSets DEF WorkerAddThread, S!GiveBack
  <2>. QED  BY <2>1, <2>3 DEF S!Next, S!KernelStep
<1>6. CASE WorkerDie(w)
  <2>1. UNCHANGED Referenced
    <3>1. /\ {serves'[v] : v \in Worker} = {serves[v] : v \in Worker \ {w}} \cup {NoThread}
          /\ {serves[v] : v \in Worker} = {serves[v] : v \in Worker \ {w}} \cup {serves[w]}
      BY <1>1, <1>6, ServesUpdate DEF WorkerDie
    <3>. QED  BY <1>6, <3>1 DEF WorkerDie, Referenced
  <2>. QED  BY <1>6, <2>1 DEF WorkerDie, S!Next, S!KernelStep
<1>7. ASSUME NEW u \in User, WorkerPosixSpawn(w, u) PROVE S!KernelStep(w)
  BY <1>7 DEF WorkerPosixSpawn, S!KernelStep
<1>. QED  BY <1>2, <1>3, <1>4, <1>5, <1>6, <1>7 DEF WorkerStep, S!Next

LEMMA StartupRefines ==
    ASSUME Inv, StartupStep
    PROVE  [S!Next]_(S!vars)
<1>. USE SystemHandlerAssumption
<1>1. CASE StartupInitialize
  BY <1>1 DEF StartupInitialize, S!Next, S!KernelStep
<1>2. CASE StartupDie
  BY <1>2 DEF StartupDie, S!Next, S!KernelStep
<1>3. ASSUME NEW u \in User, StartupCreateShell(u) PROVE S!KernelStep(Startup)
  BY <1>3 DEF StartupCreateShell, S!KernelStep
<1>. QED  BY <1>1, <1>2, <1>3 DEF StartupStep, S!Next

LEMMA StepRefines == Inv /\ [Next]_vars => [S!Next]_(S!vars)
<1>. SUFFICES ASSUME Inv, [Next]_vars PROVE [S!Next]_(S!vars)
  OBVIOUS
<1>1. CASE SchedulerStep \/ DefaultStep
  BY <1>1 DEF SchedulerStep, DefaultStep, S!Next
<1>2. CASE HandlerStep \/ StartupStep \/ \E w \in Worker : WorkerStep(w)
  BY <1>2, HandlerRefines, StartupRefines, WorkerRefines
<1>3. ASSUME NEW u \in User, UserCalls(u) PROVE S!KernelStep(u)
  BY <1>3, UserRefines, SystemHandlerAssumption DEF UserCalls, S!KernelStep
<1>4. ASSUME NEW u \in User, Return(u) PROVE UNCHANGED S!vars
  BY <1>4 DEF Return, Referenced, S!vars, S!schedulerVars
<1>5. CASE UNCHANGED vars
  BY <1>5 DEF vars, callVars, S!vars, S!schedulerVars, Referenced
<1>. QED  BY <1>1, <1>2, <1>3, <1>4, <1>5, SystemHandlerAssumption DEF Next, S!Next

-----------------------------------------------------------------------------
(* The inductive invariant *)

LEMMA InitInv == Init => Inv
<1>. SUFFICES ASSUME Init PROVE Inv
  OBVIOUS
<1>. USE SystemHandlerAssumption DEF Init
<1>1. Range(calls) = {} /\ InHand = {} /\ \A u \in User : Servants(u) = {}
  BY DEF Range, InHand, Servants
<1>2. SP!Init
  BY DEF S!Init, SP!Init, S!Permanent, SP!Permanent
<1>3. S!Inv
  BY <1>2, SchedulerAssumed, SP!InitInv, SameInv
<1>4. TypeOK
  BY <1>3 DEF TypeOK, S!Inv
<1>5. StartupInv
  <2>1. Handler \notin Referenced
    BY <1>1, References
  <2>2. ~S!Exists(Handler)
    BY <2>1 DEF S!Exists, S!Init, S!Range
  <2>. QED  BY <2>2 DEF StartupInv, S!Init
<1>6. HandlerInv /\ WorkerInv /\ PlaceInv /\ BlockedInv /\ AnswerInv
  BY <1>1 DEF HandlerInv, WorkerInv, PlaceInv, BlockedInv, AnswerInv, Once
<1>. QED  BY <1>3, <1>4, <1>5, <1>6 DEF Inv

\* What holds after every step: the scheduler's invariant, and that the workers
\* which did not die are still there.
LEMMA StepScheduler ==
    ASSUME Inv, [Next]_vars
    PROVE  /\ S!Inv'
           /\ \A w \in Worker \ dead : S!Exists(w) => S!Exists(w)'
BY StepRefines, SchedulerInv, SystemHandlerAssumption DEF Inv

\* Callers are where they were when a step changes none of the places.
LEMMA CallVarsSame ==
    ASSUME UNCHANGED callVars, HandlerInv, PlaceInv, AnswerInv
    PROVE  /\ HandlerInv' /\ PlaceInv' /\ AnswerInv'
           /\ InHand' = InHand /\ Range(calls') = Range(calls)
           /\ \A u \in User : /\ Servants(u)' = Servants(u)
                              /\ \A at : ServedIn(u, at)' = ServedIn(u, at)
BY DEF callVars, HandlerInv, PlaceInv, AnswerInv, InHand, Once, Servants, ServedIn

LEMMA SchedulerStepInv ==
    ASSUME Inv, SchedulerStep \/ DefaultStep \/ UNCHANGED vars
    PROVE  Inv'
<1>. USE SystemHandlerAssumption
<1>1. /\ S!Inv' /\ \A w \in Worker \ dead : S!Exists(w) => S!Exists(w)'
  BY StepScheduler DEF Next
<1>2. UNCHANGED callVars
  BY DEF SchedulerStep, DefaultStep, vars
<1>3. /\ HandlerInv' /\ PlaceInv' /\ AnswerInv'
      /\ InHand' = InHand /\ leaked' = leaked /\ userAt' = userAt
      /\ \A u \in User : ServedIn(u, "add_thread")' = ServedIn(u, "add_thread")
  BY <1>2, CallVarsSame DEF Inv, callVars
<1>4. TypeOK'
  BY <1>1, <1>2 DEF Inv, TypeOK, S!Inv, callVars
<1>5. /\ dead' \subseteq dead /\ masked' \in {masked, masked \ {reaping}}
      /\ \/ S!PendSV \/ S!SysTick \/ S!EnableScheduler \/ S!DefaultIdle
         \/ S!DefaultReap \/ S!DefaultDestroy \/ UNCHANGED S!vars
  BY <1>2 DEF SchedulerStep, DefaultStep, S!PendSV, S!SysTick, S!EnableScheduler, S!DefaultIdle,
         S!Crashed, S!DefaultReap, S!DefaultDestroy, S!Forget, vars, callVars, S!vars,
         S!schedulerVars, Referenced
<1>6. StartupInv'
  <2>1. ASSUME startupAt = "initialize" PROVE ~S!Exists(Handler)'
    <3>1. ~S!Exists(Handler) /\ Handler \in S!Ordinary
      BY <2>1 DEF Inv, StartupInv, S!Ordinary
    <3>2. CASE UNCHANGED S!vars
      BY <3>1, <3>2 DEF S!vars, S!schedulerVars, S!Exists, S!Range
    <3>. QED  BY <1>5, <3>1, <3>2, SchedulerGone DEF Inv
  <2>. QED  BY <1>2, <1>5, <2>1 DEF Inv, StartupInv, callVars
<1>7. WorkerInv'
  BY <1>1, <1>2, <1>5 DEF Inv, WorkerInv, callVars
<1>8. BlockedInv'
  <2>. SUFFICES ASSUME NEW u \in InHand \cup leaked
                PROVE  /\ u \notin Range(queued') \cup {active'}
                       /\ u \in masked' <=> u \in masked
    BY <1>3, HandTypes DEF Inv, BlockedInv
  <2>1. u \in S!Ordinary /\ u \notin Range(queued) \cup {active} /\ u # reaping
    BY HandTypes, References DEF Inv, BlockedInv, S!Inv, S!DanglingInv
  <2>2. u \notin Range(queued') \cup {active'}
    <3>1. CASE S!PendSV
      BY <2>1, <3>1, SchedulerOutside DEF Inv
    <3>2. CASE ~S!PendSV
      BY <1>5, <2>1, <3>2 DEF S!SysTick, S!EnableScheduler, S!DefaultIdle, S!DefaultReap,
         S!DefaultDestroy, S!vars, S!schedulerVars
    <3>. QED  BY <3>1, <3>2
  <2>. QED  BY <1>5, <2>1, <2>2
<1>. QED  BY <1>1, <1>3, <1>4, <1>6, <1>7, <1>8 DEF Inv

\* svc blocks the caller, which was in no other place.
LEMMA SystemCallInv ==
    ASSUME Inv, NEW u \in User, NEW call \in Call, SystemCall(u, call)
    PROVE  Inv'
<1>. USE SystemHandlerAssumption DEF SystemCall
<1>1. /\ S!Inv' /\ \A w \in Worker \ dead : S!Exists(w) => S!Exists(w)'
  BY StepScheduler DEF Next, UserCalls
<1>2. u \notin InHand \cup leaked /\ u = active /\ ~pendsv /\ call # "answer"
  BY UserRuns DEF S!Running
<1>3. /\ calls \in Seq(User) /\ calls' \in Seq(User)
      /\ Range(calls') = Range(calls) \cup {u} /\ u \notin Range(calls)
      /\ u # taken /\ Servants(u) = {}
  BY <1>2, RangeAppend, Served DEF Inv, TypeOK
<1>4. /\ InHand' = InHand \cup {u}
      /\ \A v \in User : /\ Servants(v)' = Servants(v)
                         /\ \A at : ServedIn(v, at)' = ServedIn(v, at)
  BY <1>3 DEF InHand, Servants, ServedIn
<1>5. TypeOK'
  BY <1>1, <1>3 DEF Inv, TypeOK, S!Inv
<1>6. StartupInv' /\ HandlerInv' /\ WorkerInv'
  BY <1>1 DEF Inv, StartupInv, HandlerInv, WorkerInv
<1>7. PlaceInv'
  <2>1. \A v \in User : Once(calls', v)
    BY <1>3, OnceAppend DEF Inv, PlaceInv
  <2>. QED  BY <1>2, <1>3, <1>4, <2>1 DEF Inv, PlaceInv
<1>8. AnswerInv'
  BY <1>2, <1>3, <1>4, Served DEF Inv, AnswerInv, TypeOK
<1>9. BlockedInv'
  <2>1. masked' = (masked \cup {u}) \ {Handler} /\ pendsv' = FALSE
    BY <1>2 DEF S!SystemCall
  <2>2. u \notin Range(queued') \cup {active'}
    <3>1. u \in masked' /\ u \in S!Ordinary /\ u # Dummy
      BY <2>1 DEF S!Ordinary
    <3>. QED  BY <1>1, <2>1, <3>1, SameSets DEF S!Inv, S!MaskedInv
  <2>3. ~ServedIn(u, "add_thread")
    BY <1>3 DEF ServedIn
  <2>4. ASSUME NEW v \in InHand \cup leaked PROVE v \notin Range(queued') \cup {active'}
    <3>1. v \in S!Ordinary /\ v \notin Range(queued) \cup {active} /\ Handler # v
      BY HandTypes DEF Inv, BlockedInv
    <3>2. \E h \in Thread \ {v} : \E room \in BOOLEAN : S!SystemCall(h, room)
      <4>1. (Len(calls) < QueueSize) \in BOOLEAN
        OBVIOUS
      <4>. QED  BY <3>1, <4>1
    <3>. QED  BY <3>1, <3>2, SchedulerOutside DEF Inv
  <2>5. /\ userAt' = [userAt EXCEPT ![u] = "svc"] /\ leaked' = leaked
        /\ InHand \cup leaked \subseteq User
    BY HandTypes DEF Inv, TypeOK
  <2>. QED  BY <1>2, <1>4, <2>1, <2>2, <2>3, <2>4, <2>5 DEF Inv, BlockedInv, TypeOK
<1>. QED  BY <1>1, <1>5, <1>6, <1>7, <1>8, <1>9 DEF Inv

LEMMA ReturnInv ==
    ASSUME Inv, NEW u \in User, Return(u)
    PROVE  Inv'
<1>. USE SystemHandlerAssumption DEF Return
<1>1. /\ S!Inv' /\ \A w \in Worker \ dead : S!Exists(w) => S!Exists(w)'
  BY StepScheduler DEF Next
<1>2. u \notin InHand \cup leaked
  BY UserRuns
<1>3. TypeOK'
  BY <1>1 DEF Inv, TypeOK, S!Inv
<1>4. /\ InHand' = InHand /\ UNCHANGED Referenced
      /\ \A v \in User : /\ Servants(v)' = Servants(v)
                         /\ \A at : ServedIn(v, at)' = ServedIn(v, at)
  BY DEF InHand, Servants, ServedIn, Referenced
<1>5. startupAt # "initialize"
  BY DEF Inv, StartupInv
<1>6. StartupInv' /\ HandlerInv' /\ WorkerInv'
  BY <1>1, <1>5 DEF Inv, StartupInv, HandlerInv, WorkerInv
<1>7. PlaceInv' /\ AnswerInv'
  BY <1>2, <1>4 DEF Inv, PlaceInv, AnswerInv, Once, TypeOK
<1>8. BlockedInv'
  BY <1>2, <1>4, HandTypes DEF Inv, BlockedInv, TypeOK
<1>. QED  BY <1>1, <1>3, <1>6, <1>7, <1>8 DEF Inv

\* The handler moves the first caller from its queue into the closure of a worker.
LEMMA HandlerStepInv ==
    ASSUME Inv, HandlerStep
    PROVE  Inv'
<1>. USE SystemHandlerAssumption DEF HandlerRuns
<1>1. /\ S!Inv' /\ \A w \in Worker \ dead : S!Exists(w) => S!Exists(w)'
  BY StepScheduler DEF Next
<1>2. startupAt # "initialize"
  BY DEF HandlerStep, HandlerSleep, HandlerSeesCall, HandlerDequeue, HandlerSpawn,
         S!Running, S!Exists, Inv, StartupInv
<1>3. CASE HandlerSleep
  <2>. USE <1>3 DEF HandlerSleep
  <2>1. UNCHANGED callVars /\ dead' = dead
    OBVIOUS
  <2>2. TypeOK'
    BY <1>1, <2>1 DEF Inv, TypeOK, S!Inv, callVars
  <2>3. StartupInv' /\ WorkerInv'
    BY <1>1, <1>2, <2>1 DEF Inv, StartupInv, WorkerInv, callVars
  <2>4. HandlerInv' /\ PlaceInv' /\ AnswerInv' /\ BlockedInv'
    BY <2>1, CallVarsSame, HandTypes DEF Inv, BlockedInv, callVars
  <2>. QED  BY <1>1, <2>2, <2>3, <2>4 DEF Inv
<1>4. CASE HandlerSeesCall
  <2>. USE <1>4 DEF HandlerSeesCall
  <2>1. /\ InHand' = InHand
        /\ \A v \in User : /\ Servants(v)' = Servants(v)
                           /\ \A at : ServedIn(v, at)' = ServedIn(v, at)
    BY DEF InHand, Servants, ServedIn
  <2>2. TypeOK'
    BY <1>1 DEF Inv, TypeOK, S!Inv
  <2>3. StartupInv' /\ WorkerInv' /\ HandlerInv'
    BY <1>1, <1>2 DEF Inv, StartupInv, WorkerInv, HandlerInv
  <2>4. PlaceInv' /\ AnswerInv' /\ BlockedInv'
    BY <2>1, HandTypes DEF Inv, BlockedInv, PlaceInv, AnswerInv, Once
  <2>. QED  BY <1>1, <2>2, <2>3, <2>4 DEF Inv
<1>5. CASE HandlerDequeue
  <2>. USE <1>5 DEF HandlerDequeue
  <2>1. /\ calls \in Seq(User) /\ calls' \in Seq(User) /\ taken' \in User
        /\ Range(calls) = Range(calls') \cup {taken'} /\ taken = NoThread
    BY RangeTail DEF Inv, TypeOK, HandlerInv
  <2>2. /\ \A v \in User : Once(calls', v)
        /\ taken' \notin Range(calls')
    BY <2>1, OnceTail DEF Inv, PlaceInv
  <2>3. /\ InHand' = InHand
        /\ \A v \in User : /\ Servants(v)' = Servants(v)
                           /\ \A at : ServedIn(v, at)' = ServedIn(v, at)
    BY <2>1 DEF InHand, Servants, ServedIn
  <2>4. TypeOK'
    BY <1>1, <2>1 DEF Inv, TypeOK, S!Inv
  <2>5. StartupInv' /\ WorkerInv' /\ HandlerInv'
    BY <1>1, <1>2, <2>1 DEF Inv, StartupInv, WorkerInv, HandlerInv
  <2>6. PlaceInv' /\ BlockedInv'
    BY <2>1, <2>2, <2>3, HandTypes DEF Inv, BlockedInv, PlaceInv
  <2>7. AnswerInv'
    BY <2>1, <2>3 DEF Inv, AnswerInv
  <2>. QED  BY <1>1, <2>4, <2>5, <2>6, <2>7 DEF Inv
<1>6. ASSUME NEW w \in Worker, HandlerSpawn(w)
      PROVE  Inv'
  <2>. USE <1>6 DEF HandlerSpawn
  <2>1. /\ serves[w] = NoThread /\ taken \in User /\ workerAt[w] = "die"
        /\ w \notin dead
    BY DEF S!Spawn, Inv, WorkerInv, HandlerInv, TypeOK, S!Inv, S!KeptInv
  <2>2. /\ serves' \in [Worker -> User \cup {NoThread}]
        /\ serves'[w] = taken /\ \A v \in Worker \ {w} : serves'[v] = serves[v]
        /\ {serves'[v] : v \in Worker} = {serves[v] : v \in Worker \ {w}} \cup {taken}
        /\ {serves[v] : v \in Worker} = {serves[v] : v \in Worker \ {w}} \cup {NoThread}
        /\ \A u \in User : Servants(u)' = (Servants(u) \ {w}) \cup {v \in {w} : u = taken}
    BY <2>1, ServesUpdate DEF Inv, TypeOK
  <2>3. /\ workerAt' \in [Worker -> {"syscall", "answer", "unmask", "add_thread", "die"}]
        /\ workerAt'[w] = "syscall" /\ \A v \in Worker \ {w} : workerAt'[v] = workerAt[v]
    BY DEF Inv, TypeOK
  <2>4. InHand' = InHand /\ Servants(taken) = {}
    BY <2>1, <2>2 DEF InHand, Inv, PlaceInv
  <2>5. \A u \in User : ServedIn(u, "add_thread")' <=> ServedIn(u, "add_thread")
    BY <2>1, <2>2, <2>3 DEF ServedIn, Servants
  <2>6. w \in Range(queued') /\ Range(queued') = Range(queued) \cup {w}
        /\ active' = active /\ dead' = dead /\ masked' = masked
    BY RangeAppend DEF S!Spawn, S!AddThread, Inv, S!Inv, S!TypeOK
  <2>7. TypeOK'
    BY <1>1, <2>2, <2>3 DEF Inv, TypeOK, S!Inv
  <2>8. StartupInv' /\ HandlerInv'
    BY <1>2, <2>6 DEF Inv, StartupInv, HandlerInv
  <2>9. WorkerInv'
    <3>1. S!Exists(w)'
      BY <2>6, SameSets DEF S!Exists
    <3>. QED  BY <1>1, <2>1, <2>2, <2>3, <2>6, <3>1 DEF Inv, WorkerInv
  <2>10. PlaceInv'
    BY <2>1, <2>2, <2>4 DEF Inv, PlaceInv, Once, TypeOK
  <2>11. BlockedInv'
    BY <2>4, <2>5, <2>6, HandTypes DEF Inv, BlockedInv
  <2>12. AnswerInv'
    BY <2>1, <2>2, <2>3, <2>4 DEF Inv, AnswerInv
  <2>. QED  BY <1>1, <2>7, <2>8, <2>9, <2>10, <2>11, <2>12 DEF Inv
<1>. QED  BY <1>3, <1>4, <1>5, <1>6 DEF HandlerStep

\* The first threads are created before anybody calls the system.
LEMMA StartupStepInv ==
    ASSUME Inv, StartupStep
    PROVE  Inv'
<1>. USE SystemHandlerAssumption
<1>1. /\ S!Inv' /\ \A w \in Worker \ dead : S!Exists(w) => S!Exists(w)'
  BY StepScheduler DEF Next
<1>2. /\ UNCHANGED <<calls, taken, serves, r0, handlerAt, workerAt, leaked>>
      /\ InHand' = InHand
      /\ \A v \in User : /\ Servants(v)' = Servants(v)
                         /\ \A at : ServedIn(v, at)' = ServedIn(v, at)
  BY DEF StartupStep, StartupInitialize, StartupDie, StartupCreateShell, callVars,
         InHand, Servants, ServedIn
<1>3. HandlerInv' /\ PlaceInv'
  BY <1>2 DEF Inv, HandlerInv, PlaceInv, Once
<1>4. CASE StartupInitialize
  <2>. USE <1>4 DEF StartupInitialize, S!Construct
  <2>1. TypeOK' /\ StartupInv'
    BY <1>1, <1>2 DEF Inv, TypeOK, S!Inv, StartupInv
  <2>2. WorkerInv' /\ AnswerInv'
    BY <1>1, <1>2 DEF Inv, WorkerInv, AnswerInv
  <2>3. BlockedInv'
    BY <1>2, HandTypes DEF Inv, BlockedInv
  <2>. QED  BY <1>1, <1>3, <2>1, <2>2, <2>3 DEF Inv
<1>5. CASE StartupDie
  <2>. USE <1>5 DEF StartupDie, S!Die, callVars
  <2>1. TypeOK' /\ StartupInv'
    BY <1>1, <1>2 DEF Inv, TypeOK, S!Inv, StartupInv
  <2>2. WorkerInv' /\ AnswerInv'
    BY <1>1, <1>2 DEF Inv, WorkerInv, AnswerInv
  <2>3. BlockedInv'
    BY <1>2, HandTypes DEF Inv, BlockedInv
  <2>. QED  BY <1>1, <1>3, <2>1, <2>2, <2>3 DEF Inv
<1>6. ASSUME NEW u \in User, StartupCreateShell(u)
      PROVE  Inv'
  <2>. USE <1>6 DEF StartupCreateShell, S!Spawn
  <2>1. TypeOK' /\ StartupInv'
    BY <1>1, <1>2 DEF Inv, TypeOK, S!Inv, StartupInv
  <2>2. WorkerInv' /\ AnswerInv'
    BY <1>1, <1>2 DEF Inv, WorkerInv, AnswerInv, TypeOK
  <2>3. BlockedInv'
    <3>1. u \notin InHand \cup leaked /\ Range(queued') = Range(queued) \cup {u}
      BY RangeAppend DEF S!AddThread, Inv, BlockedInv, S!Inv, S!TypeOK
    <3>. QED  BY <1>2, <3>1, HandTypes DEF Inv, BlockedInv, TypeOK
  <2>. QED  BY <1>1, <1>3, <2>1, <2>2, <2>3 DEF Inv
<1>. QED  BY <1>4, <1>5, <1>6 DEF StartupStep

\* A worker executes its caller's call, answers it and gives the caller back.
LEMMA WorkerStepInv ==
    ASSUME Inv, NEW w \in Worker, WorkerStep(w)
    PROVE  Inv'
<1>. USE SystemHandlerAssumption DEF WorkerRuns, WorkerGoes
<1>1. /\ S!Inv' /\ \A v \in Worker \ dead : S!Exists(v) => S!Exists(v)'
  BY StepScheduler DEF Next
<1>2. /\ workerAt[w] # "die" => serves[w] # NoThread
      /\ serves \in [Worker -> User \cup {NoThread}]
      /\ workerAt \in [Worker -> {"syscall", "answer", "unmask", "add_thread", "die"}]
      /\ InHand \cup leaked \subseteq User
  BY HandTypes DEF Inv, WorkerInv, TypeOK
<1>3. ASSUME serves[w] # NoThread
      PROVE  /\ serves[w] \in User /\ serves[w] \in InHand /\ serves[w] \notin leaked
             /\ \A v \in Worker \ {w} : serves[v] # serves[w]
             /\ Servants(serves[w]) = {w} /\ startupAt # "initialize"
  BY <1>3, CallerIsBlocked, Served DEF Inv, PlaceInv, Servants, StartupInv
<1>4. CASE WorkerSyscall(w) \/ \E u \in User : WorkerPosixSpawn(w, u)
  <2>1. /\ serves[w] # NoThread /\ workerAt[w] = "syscall"
        /\ workerAt' = [workerAt EXCEPT ![w] = "answer"]
        /\ UNCHANGED <<calls, taken, serves, r0, handlerAt, startupAt, leaked, dead, masked, active>>
    BY <1>2, <1>4 DEF WorkerSyscall, WorkerPosixSpawn, S!Spawn
  <2>2. /\ InHand' = InHand /\ \A u \in User : Servants(u)' = Servants(u)
        /\ \A u \in User : ServedIn(u, "add_thread")' <=> ServedIn(u, "add_thread")
    BY <1>2, <2>1 DEF InHand, Servants, ServedIn
  <2>3. /\ userAt' \in [User -> {"new", "user", "svc"}]
        /\ \A u \in User : userAt'[u] = "svc" <=> userAt[u] = "svc"
        /\ \A u \in InHand \cup leaked : u \notin Range(queued')
    <3>1. CASE WorkerSyscall(w)
      BY <3>1 DEF WorkerSyscall, Inv, TypeOK, BlockedInv
    <3>2. ASSUME NEW u \in User, WorkerPosixSpawn(w, u)
          PROVE  /\ userAt' = [userAt EXCEPT ![u] = "user"] /\ userAt[u] = "new"
                 /\ u \notin InHand \cup leaked /\ Range(queued') = Range(queued) \cup {u}
      BY <3>2, RangeAppend
         DEF WorkerPosixSpawn, S!Spawn, S!AddThread, Inv, BlockedInv, S!Inv, S!TypeOK
    <3>3. CASE \E u \in User : WorkerPosixSpawn(w, u)
      BY <3>2, <3>3 DEF Inv, TypeOK, BlockedInv
    <3>. QED  BY <1>4, <3>1, <3>3
  <2>4. TypeOK'
    BY <1>1, <1>2, <2>1, <2>3 DEF Inv, TypeOK, S!Inv
  <2>5. StartupInv' /\ HandlerInv' /\ PlaceInv'
    BY <1>3, <2>1, <2>2 DEF Inv, StartupInv, HandlerInv, PlaceInv, Once
  <2>6. WorkerInv'
    BY <1>1, <1>2, <2>1 DEF Inv, WorkerInv
  <2>7. BlockedInv'
    BY <1>2, <2>1, <2>2, <2>3 DEF Inv, BlockedInv
  <2>8. AnswerInv'
    BY <1>2, <2>1, <2>2, <2>3 DEF Inv, AnswerInv
  <2>. QED  BY <1>1, <2>4, <2>5, <2>6, <2>7, <2>8 DEF Inv
<1>5. CASE WorkerAnswer(w)
  <2>. USE <1>5 DEF WorkerAnswer
  <2>1. /\ serves[w] # NoThread /\ workerAt[w] = "answer"
        /\ \E at \in {"unmask", "die"} : workerAt' = [workerAt EXCEPT ![w] = at]
    BY <1>2
  <2>2. /\ InHand' = InHand /\ \A u \in User : Servants(u)' = Servants(u)
        /\ \A u \in User : ServedIn(u, "add_thread")' <=> ServedIn(u, "add_thread")
    BY <1>2, <2>1 DEF InHand, Servants, ServedIn
  <2>3. TypeOK'
    BY <1>1, <1>2, <1>3, <2>1 DEF Inv, TypeOK, S!Inv
  <2>4. StartupInv' /\ HandlerInv' /\ PlaceInv'
    BY <1>3, <2>1, <2>2 DEF Inv, StartupInv, HandlerInv, PlaceInv, Once
  <2>5. WorkerInv'
    BY <1>1, <1>2, <2>1 DEF Inv, WorkerInv
  <2>6. BlockedInv'
    BY <1>2, <2>1, <2>2 DEF Inv, BlockedInv
  <2>7. AnswerInv'
    <3>1. serves[w] \notin Range(calls) /\ serves[w] # taken
      BY <2>1, CallerIsBlocked
    <3>. QED  BY <1>2, <1>3, <2>1, <2>2, <3>1, HandTypes DEF Inv, AnswerInv, TypeOK
  <2>. QED  BY <1>1, <2>3, <2>4, <2>5, <2>6, <2>7 DEF Inv
<1>6. CASE WorkerUnmask(w)
  <2>. USE <1>6 DEF WorkerUnmask
  <2>1. serves[w] # NoThread /\ workerAt[w] = "unmask"
    BY <1>2
  <2>2. /\ InHand' = InHand /\ \A u \in User : Servants(u)' = Servants(u)
        /\ \A u \in User : ServedIn(u, "add_thread")' <=>
               ServedIn(u, "add_thread") \/ u = serves[w]
    BY <1>2, <1>3, <2>1 DEF InHand, Servants, ServedIn
  <2>3. TypeOK'
    BY <1>1, <1>2 DEF Inv, TypeOK, S!Inv
  <2>4. StartupInv' /\ HandlerInv' /\ PlaceInv'
    BY <1>3, <2>1, <2>2 DEF Inv, StartupInv, HandlerInv, PlaceInv, Once
  <2>5. WorkerInv'
    BY <1>1, <1>2, <2>1 DEF Inv, WorkerInv
  <2>6. BlockedInv'
    BY <1>2, <2>1, <2>2 DEF Inv, BlockedInv
  <2>7. AnswerInv'
    BY <1>2, <2>1, <2>2 DEF Inv, AnswerInv
  <2>. QED  BY <1>1, <2>3, <2>4, <2>5, <2>6, <2>7 DEF Inv
<1>7. CASE WorkerAddThread(w) \/ WorkerDie(w)
  <2>1. /\ serves' = [serves EXCEPT ![w] = NoThread]
        /\ workerAt' = [workerAt EXCEPT ![w] = "die"]
        /\ UNCHANGED <<calls, taken, r0, handlerAt, userAt, startupAt, active>>
    BY <1>2, <1>7 DEF WorkerAddThread, WorkerDie, S!Die
  <2>2. /\ serves' \in [Worker -> User \cup {NoThread}]
        /\ serves'[w] = NoThread /\ \A v \in Worker \ {w} : serves'[v] = serves[v]
        /\ {serves'[v] : v \in Worker} = {serves[v] : v \in Worker \ {w}} \cup {NoThread}
        /\ {serves[v] : v \in Worker} = {serves[v] : v \in Worker \ {w}} \cup {serves[w]}
        /\ \A u \in User : Servants(u)' = Servants(u) \ {w}
    <3>1. \A u \in User : u # NoThread
      OBVIOUS
    <3>2. \A u \in User : Servants(u)' = (Servants(u) \ {w}) \cup {v \in {w} : u = NoThread}
      BY <1>2, <2>1, ServesUpdate
    <3>3. \A u \in User : Servants(u)' = Servants(u) \ {w}
      BY <3>1, <3>2
    <3>. QED  BY <1>2, <2>1, <3>3, ServesUpdate
  <2>3. /\ InHand' = InHand \ {serves[w]}
        /\ \A u \in User \ {serves[w]} :
               ServedIn(u, "add_thread")' <=> ServedIn(u, "add_thread")
    <3>1. serves[w] # NoThread => serves[w] \notin Range(calls) /\ serves[w] # taken
      BY CallerIsBlocked
    <3>2. NoThread \notin InHand
      BY <1>2
    <3>3. InHand' = InHand \ {serves[w]}
      BY <1>2, <1>3, <2>1, <2>2, <3>1, <3>2 DEF InHand
    <3>4. ASSUME NEW u \in User \ {serves[w]}
          PROVE  ServedIn(u, "add_thread")' <=> ServedIn(u, "add_thread")
      <4>1. w \notin Servants(u) /\ Servants(u)' = Servants(u)
        BY <2>2 DEF Servants
      <4>. QED  BY <1>2, <2>1, <4>1 DEF ServedIn, Servants
    <3>. QED  BY <3>3, <3>4
  <2>4. /\ leaked' \in {leaked, leaked \cup ({serves[w]} \ {NoThread})}
        /\ leaked' # leaked => WorkerDie(w) /\ serves[w] # NoThread
    BY <1>7 DEF WorkerAddThread, WorkerDie
  <2>5. /\ masked' = masked \/ masked' = masked \cup {w}
        /\ dead' \subseteq dead \cup {w} /\ dead \subseteq dead'
        /\ \A u \in InHand' \cup leaked' : u \notin Range(queued')
    <3>1. CASE WorkerDie(w)
      BY <1>2, <1>3, <2>3, <2>4, <3>1 DEF WorkerDie, S!Die, Inv, BlockedInv
    <3>2. CASE WorkerAddThread(w)
      <4>1. serves[w] # NoThread
        BY <1>2, <3>2 DEF WorkerAddThread
      <4>2. Range(queued') = Range(queued) \cup {serves[w]}
        BY <1>3, <3>2, <4>1, RangeAppend DEF WorkerAddThread, S!AddThread, Inv, S!Inv, S!TypeOK
      <4>. QED  BY <1>2, <1>3, <2>3, <3>2, <4>1, <4>2 DEF WorkerAddThread, Inv, BlockedInv
    <3>. QED  BY <1>7, <3>1, <3>2
  <2>6. TypeOK'
    BY <1>1, <1>2, <1>3, <2>1, <2>2, <2>4 DEF Inv, TypeOK, S!Inv
  <2>7. StartupInv' /\ HandlerInv'
    <3>1. startupAt # "initialize" \/ WorkerDie(w)
      BY <1>2, <1>3, <1>7 DEF WorkerAddThread
    <3>2. WorkerDie(w) /\ serves[w] = NoThread => UNCHANGED <<queued, dangling, active, reaping, Referenced>>
      BY <2>2 DEF WorkerDie, S!Die, Referenced
    <3>. QED  BY <1>3, <2>1, <2>5, <3>1, <3>2 DEF Inv, StartupInv, HandlerInv, S!Exists, S!Range
  <2>8. WorkerInv'
    BY <1>1, <1>2, <2>1, <2>2, <2>5 DEF Inv, WorkerInv
  <2>9. PlaceInv'
    BY <1>3, <2>1, <2>2, <2>3, <2>4 DEF Inv, PlaceInv, Once
  <2>10. BlockedInv'
    <3>1. ASSUME WorkerDie(w), serves[w] # NoThread
          PROVE  \A u \in User : u = serves[w] =>
                     ~ServedIn(u, "add_thread") /\ ~ServedIn(u, "add_thread")'
      <4>1. /\ Servants(serves[w]) = {w} /\ workerAt[w] = "die"
            /\ \A u \in User : u = serves[w] => Servants(u)' = {}
        BY <1>3, <2>2, <3>1 DEF WorkerDie
      <4>2. \A u \in User : u = serves[w] => ~ServedIn(u, "add_thread") /\ ~ServedIn(u, "add_thread")'
        BY <4>1 DEF ServedIn
      <4>. QED  BY <4>2
    <3>. QED  BY <1>2, <1>3, <2>1, <2>3, <2>4, <2>5, <3>1 DEF Inv, BlockedInv
  <2>11. AnswerInv'
    <3>1. serves[w] # NoThread => r0[serves[w]] = "answer"
      BY <1>2, <1>7 DEF WorkerAddThread, WorkerDie, Inv, AnswerInv
    <3>. QED  BY <1>2, <2>1, <2>2, <2>3, <2>4, <3>1 DEF Inv, AnswerInv
  <2>. QED  BY <1>1, <2>6, <2>7, <2>8, <2>9, <2>10, <2>11 DEF Inv
<1>. QED  BY <1>4, <1>5, <1>6, <1>7 DEF WorkerStep

LEMMA NextInv == Inv /\ [Next]_vars => Inv'
BY SchedulerStepInv, SystemCallInv, ReturnInv, HandlerStepInv, StartupStepInv, WorkerStepInv
   DEF Next, UserCalls

-----------------------------------------------------------------------------
(* What a system call promises *)

\* Exited: nobody will give the caller back.
Gone(u) == u \in leaked \/ ServedIn(u, "die")

LEMMA StatusOf ==
    \A u \in User :
        /\ Status[u].at = "idle" <=> userAt[u] # "svc"
        /\ userAt[u] # "svc" => Status[u] = Promise!Idle
        /\ userAt[u] = "svc" /\ r0[u] # "answer" =>
               Status[u] = [at |-> IF ServedIn(u, "answer") THEN "executed" ELSE "requested",
                            call |-> r0[u]]
        /\ userAt[u] = "svc" /\ r0[u] = "answer" =>
               Status[u] = [at |-> IF Gone(u) THEN "gone" ELSE "answered", call |-> "none"]
BY DEF Status, Gone, Promise!Idle

LEMMA StatusAfter ==
    \A u \in User :
        /\ userAt'[u] # "svc" => Status'[u] = Promise!Idle
        /\ userAt'[u] = "svc" /\ r0'[u] # "answer" =>
               Status'[u] = [at |-> IF ServedIn(u, "answer")' THEN "executed" ELSE "requested",
                             call |-> r0'[u]]
        /\ userAt'[u] = "svc" /\ r0'[u] = "answer" =>
               Status'[u] = [at |-> IF Gone(u)' THEN "gone" ELSE "answered", call |-> "none"]
BY DEF Status, Gone, Promise!Idle

\* The status of a thread depends on its own call only.
LEMMA StatusSame ==
    ASSUME NEW u \in User,
           userAt'[u] = userAt[u] \/ (userAt[u] # "svc" /\ userAt'[u] # "svc"),
           userAt[u] = "svc" =>
               /\ r0'[u] = r0[u]
               /\ r0[u] # "answer" => (ServedIn(u, "answer")' <=> ServedIn(u, "answer"))
               /\ r0[u] = "answer" => (Gone(u)' <=> Gone(u))
    PROVE  Status'[u] = Status[u]
BY StatusOf, StatusAfter

LEMMA StatusUnchanged ==
    ASSUME \A u \in User : Status'[u] = Status[u]
    PROVE  Status' = Status
<1>1. Status = [u \in User |-> Status[u]] /\ Status' = [u \in User |-> Status'[u]]
  BY DEF Status
<1>. QED  BY <1>1

LEMMA StatusStep ==
    ASSUME NEW u \in User, NEW x, Status'[u] = x, \A v \in User \ {u} : Status'[v] = Status[v]
    PROVE  Status' = [Status EXCEPT ![u] = x]
<1>1. Status = [v \in User |-> Status[v]] /\ Status' = [v \in User |-> Status'[v]]
  BY DEF Status
<1>. QED  BY <1>1

\* A step that is no part of a system call.
LEMMA StatusStutters ==
    ASSUME Inv,
           \/ SchedulerStep \/ DefaultStep \/ StartupStep \/ HandlerStep \/ UNCHANGED vars
           \/ \E w \in Worker : WorkerUnmask(w) \/ WorkerAddThread(w) \/ WorkerDie(w)
    PROVE  Status' = Status
<1>. USE SystemHandlerAssumption
<1>. SUFFICES ASSUME NEW u \in User PROVE Status'[u] = Status[u]
  BY StatusUnchanged
<1>t. /\ serves \in [Worker -> User \cup {NoThread}]
      /\ workerAt \in [Worker -> {"syscall", "answer", "unmask", "add_thread", "die"}]
      /\ userAt \in [User -> {"new", "user", "svc"}] /\ u # NoThread
  BY DEF Inv, TypeOK
<1>1. CASE SchedulerStep \/ DefaultStep \/ UNCHANGED vars
  <2>1. UNCHANGED callVars
    BY <1>1 DEF SchedulerStep, DefaultStep, vars
  <2>. QED  BY <2>1, StatusSame DEF callVars, Gone, ServedIn, Servants
<1>2. CASE StartupStep
  <2>1. /\ UNCHANGED <<r0, serves, workerAt, leaked>>
        /\ userAt'[u] = userAt[u] \/ (userAt[u] # "svc" /\ userAt'[u] # "svc")
    BY <1>t, <1>2 DEF StartupStep, StartupInitialize, StartupDie, StartupCreateShell, callVars
  <2>. QED  BY <2>1, StatusSame DEF Gone, ServedIn, Servants
<1>3. CASE HandlerSleep \/ HandlerSeesCall \/ HandlerDequeue
  <2>1. UNCHANGED <<userAt, r0, serves, workerAt, leaked>>
    BY <1>3 DEF HandlerSleep, HandlerSeesCall, HandlerDequeue, callVars
  <2>. QED  BY <2>1, StatusSame DEF Gone, ServedIn, Servants
<1>4. ASSUME NEW w \in Worker, HandlerSpawn(w) PROVE Status'[u] = Status[u]
  <2>1. /\ serves[w] = NoThread /\ r0[taken] # "answer" /\ taken \in User
        /\ serves' = [serves EXCEPT ![w] = taken]
        /\ workerAt' = [workerAt EXCEPT ![w] = "syscall"]
        /\ UNCHANGED <<userAt, r0, leaked>>
    BY <1>4 DEF HandlerSpawn, HandlerRuns, S!Spawn, Inv, WorkerInv, HandlerInv, AnswerInv, TypeOK
  <2>2. Servants(u)' \ {w} = Servants(u) \ {w} /\ w \notin Servants(u)
    BY <1>t, <2>1 DEF Servants
  <2>3. \A at : at \in {"answer", "die"} => (ServedIn(u, at)' <=> ServedIn(u, at))
    BY <1>t, <2>1, <2>2 DEF ServedIn, Servants
  <2>. QED  BY <2>1, <2>3, StatusSame DEF Gone
<1>5. ASSUME NEW w \in Worker, WorkerUnmask(w) PROVE Status'[u] = Status[u]
  <2>1. /\ workerAt' = [workerAt EXCEPT ![w] = "add_thread"] /\ workerAt[w] = "unmask"
        /\ UNCHANGED <<serves, userAt, r0, leaked>>
    BY <1>5 DEF WorkerUnmask, WorkerRuns, WorkerGoes
  <2>2. \A at : at \in {"answer", "die"} => (ServedIn(u, at)' <=> ServedIn(u, at))
    BY <1>t, <2>1 DEF ServedIn, Servants
  <2>. QED  BY <2>1, <2>2, StatusSame DEF Gone
<1>6. ASSUME NEW w \in Worker, WorkerAddThread(w) PROVE Status'[u] = Status[u]
  <2>1. /\ serves[w] # NoThread /\ workerAt[w] = "add_thread"
        /\ serves' = [serves EXCEPT ![w] = NoThread]
        /\ workerAt' = [workerAt EXCEPT ![w] = "die"]
        /\ UNCHANGED <<userAt, r0, leaked>>
    BY <1>6 DEF WorkerAddThread, WorkerRuns, WorkerGoes, Inv, WorkerInv
  <2>2. Servants(u)' = Servants(u) \ {w}
    BY <1>t, <2>1 DEF Servants
  <2>3. \A at : at \in {"answer", "die"} => (ServedIn(u, at)' <=> ServedIn(u, at))
    BY <1>t, <2>1, <2>2 DEF ServedIn, Servants
  <2>. QED  BY <2>1, <2>3, StatusSame DEF Gone
<1>7. ASSUME NEW w \in Worker, WorkerDie(w) PROVE Status'[u] = Status[u]
  <2>1. /\ workerAt[w] = "die"
        /\ serves' = [serves EXCEPT ![w] = NoThread]
        /\ leaked' = leaked \cup ({serves[w]} \ {NoThread})
        /\ UNCHANGED <<userAt, r0, workerAt>>
    BY <1>7 DEF WorkerDie, WorkerRuns
  <2>2. Servants(u)' = Servants(u) \ {w} /\ (w \in Servants(u) <=> u = serves[w])
    BY <1>t, <2>1 DEF Servants
  <2>3. ServedIn(u, "answer")' <=> ServedIn(u, "answer")
    BY <1>t, <2>1, <2>2 DEF ServedIn
  <2>4. Gone(u)' <=> Gone(u)
    BY <1>t, <2>1, <2>2 DEF Gone, ServedIn
  <2>. QED  BY <2>1, <2>3, <2>4, StatusSame
<1>. QED  BY <1>1, <1>2, <1>3, <1>4, <1>5, <1>6, <1>7 DEF HandlerStep

\* A worker that refers to a caller is its only servant.
LEMMA ServedOnce ==
    Inv => \A w \in Worker : serves[w] # NoThread =>
               \E u \in User : /\ u = serves[w] /\ Servants(u) = {w}
                               /\ userAt[u] = "svc" /\ u \notin leaked
BY CallerIsBlocked DEF Servants

LEMMA ExecutedStatus ==
    \A s, c : s = [at |-> "requested", call |-> c] =>
        /\ [s EXCEPT !.at = "executed"] = [at |-> "executed", call |-> c]
        /\ s.at = "requested"
OBVIOUS

LEMMA StepPromise == Inv /\ [Next]_vars => [Promise!Next]_Status
<1>. SUFFICES ASSUME Inv, [Next]_vars PROVE [Promise!Next]_Status
  OBVIOUS
<1>. USE SystemHandlerAssumption
<1>t. /\ serves \in [Worker -> User \cup {NoThread}]
      /\ workerAt \in [Worker -> {"syscall", "answer", "unmask", "add_thread", "die"}]
      /\ userAt \in [User -> {"new", "user", "svc"}] /\ r0 \in [User -> Call \cup {"answer"}]
      /\ NoThread \notin User
  BY DEF Inv, TypeOK
<1>1. CASE \/ SchedulerStep \/ DefaultStep \/ StartupStep \/ HandlerStep \/ UNCHANGED vars
           \/ \E w \in Worker : WorkerUnmask(w) \/ WorkerAddThread(w) \/ WorkerDie(w)
  BY <1>1, StatusStutters
<1>2. ASSUME NEW u \in User, NEW call \in Call, SystemCall(u, call) PROVE Promise!Request(u)
  <2>1. /\ u \notin InHand /\ call # "answer" /\ userAt[u] = "user"
        /\ userAt' = [userAt EXCEPT ![u] = "svc"] /\ r0' = [r0 EXCEPT ![u] = call]
        /\ UNCHANGED <<serves, workerAt, leaked>>
    BY <1>2, UserRuns DEF SystemCall
  <2>2. ~ServedIn(u, "answer")'
    <3>1. Servants(u) = {} /\ Servants(u)' = {}
      BY <1>t, <2>1, Served DEF Servants
    <3>. QED  BY <3>1 DEF ServedIn
  <2>3. Status'[u] = [at |-> "requested", call |-> call] /\ Status[u] = Promise!Idle
    BY <1>t, <2>1, <2>2, StatusOf, StatusAfter
  <2>4. ASSUME NEW v \in User \ {u} PROVE Status'[v] = Status[v]
    BY <1>t, <2>1, StatusSame DEF Gone, ServedIn, Servants
  <2>. QED  BY <2>3, <2>4, StatusStep DEF Promise!Request
<1>3. ASSUME NEW u \in User, Return(u) PROVE Promise!Return(u)
  <2>1. /\ u \notin InHand \cup leaked /\ userAt[u] = "svc"
        /\ userAt' = [userAt EXCEPT ![u] = "user"]
        /\ UNCHANGED <<serves, workerAt, leaked, r0>>
    BY <1>3, UserRuns DEF Return
  <2>2. r0[u] = "answer" /\ ~Gone(u)
    <3>1. Servants(u) = {}
      BY <1>t, <2>1, Served
    <3>. QED  BY <2>1, <3>1 DEF Inv, AnswerInv, Gone, ServedIn
  <2>3. Status'[u] = Promise!Idle /\ Status[u].at = "answered"
    <3>1. userAt'[u] = "user"
      BY <1>t, <2>1
    <3>2. Status[u] = [at |-> "answered", call |-> "none"]
      BY <2>1, <2>2, StatusOf
    <3>3. Status'[u] = Promise!Idle
      BY <3>1, StatusAfter
    <3>4. Status[u].at = "answered"
      BY <3>2
    <3>. QED  BY <3>3, <3>4
  <2>4. ASSUME NEW v \in User \ {u} PROVE Status'[v] = Status[v]
    BY <1>t, <2>1, StatusSame DEF Gone, ServedIn, Servants
  <2>. QED  BY <2>3, <2>4, StatusStep DEF Promise!Return
<1>4. ASSUME NEW w \in Worker, WorkerSyscall(w) \/ \E v \in User : WorkerPosixSpawn(w, v)
      PROVE  \E u \in User : Promise!Execute(u)
  <2>1. /\ workerAt[w] = "syscall" /\ workerAt' = [workerAt EXCEPT ![w] = "answer"]
        /\ UNCHANGED <<serves, leaked, r0>>
        /\ \A v \in User : userAt'[v] = userAt[v] \/ (userAt[v] # "svc" /\ userAt'[v] # "svc")
    BY <1>t, <1>4 DEF WorkerSyscall, WorkerPosixSpawn, WorkerRuns, WorkerGoes
  <2>2. PICK u \in User : /\ u = serves[w] /\ Servants(u) = {w} /\ r0[u] # "answer"
                          /\ userAt[u] = "svc"
    BY <2>1, ServedOnce DEF Inv, WorkerInv, AnswerInv
  <2>3. Servants(u)' = {w}
    BY <2>1, <2>2 DEF Servants
  <2>4. ServedIn(u, "answer")' /\ ~ServedIn(u, "answer") /\ userAt'[u] = "svc" /\ r0'[u] = r0[u]
    BY <1>t, <2>1, <2>2, <2>3 DEF ServedIn
  <2>5. /\ Status[u] = [at |-> "requested", call |-> r0[u]]
        /\ Status'[u] = [at |-> "executed", call |-> r0[u]]
    BY <2>2, <2>4, StatusOf, StatusAfter
  <2>6. Status'[u] = [Status[u] EXCEPT !.at = "executed"] /\ Status[u].at = "requested"
    BY <2>5, ExecutedStatus
  <2>7. ASSUME NEW v \in User \ {u} PROVE Status'[v] = Status[v]
    <3>1. w \notin Servants(v) /\ Servants(v)' = Servants(v)
      BY <2>1, <2>2 DEF Servants
    <3>2. \A at : ServedIn(v, at)' <=> ServedIn(v, at)
      BY <1>t, <2>1, <3>1 DEF ServedIn, Servants
    <3>. QED  BY <2>1, <3>2, StatusSame DEF Gone
  <2>8. Status' = [Status EXCEPT ![u] = [Status[u] EXCEPT !.at = "executed"]]
    BY <2>6, <2>7, StatusStep
  <2>. QED  BY <2>6, <2>8, Zenon DEF Promise!Execute
<1>5. ASSUME NEW w \in Worker, WorkerAnswer(w)
      PROVE  \E u \in User : Promise!Answer(u) \/ Promise!Exit(u)
  <2>1. /\ workerAt[w] = "answer" /\ UNCHANGED <<serves, leaked, userAt>>
        /\ r0' = [r0 EXCEPT ![serves[w]] = "answer"]
        /\ workerAt' = [workerAt EXCEPT ![w] = IF r0[serves[w]] = "exit" THEN "die" ELSE "unmask"]
    BY <1>5 DEF WorkerAnswer, WorkerRuns, WorkerGoes
  <2>2. PICK u \in User : /\ u = serves[w] /\ Servants(u) = {w} /\ r0[u] # "answer"
                          /\ userAt[u] = "svc" /\ u \notin leaked
    BY <2>1, ServedOnce DEF Inv, WorkerInv, AnswerInv
  <2>3. Servants(u)' = {w} /\ userAt'[u] = "svc" /\ r0'[u] = "answer"
    BY <1>t, <2>1, <2>2 DEF Servants
  <2>4. ServedIn(u, "answer") /\ (Gone(u)' <=> r0[u] = "exit")
    BY <1>t, <2>1, <2>2, <2>3 DEF ServedIn, Gone
  <2>5. /\ Status[u] = [at |-> "executed", call |-> r0[u]]
        /\ Status'[u] = [at |-> IF r0[u] = "exit" THEN "gone" ELSE "answered", call |-> "none"]
    BY <2>2, <2>3, <2>4, StatusOf, StatusAfter
  <2>6. ASSUME NEW v \in User \ {u} PROVE Status'[v] = Status[v]
    <3>1. w \notin Servants(v) /\ Servants(v)' = Servants(v)
      BY <2>1, <2>2 DEF Servants
    <3>2. \A at : ServedIn(v, at)' <=> ServedIn(v, at)
      BY <1>t, <2>1, <3>1 DEF ServedIn, Servants
    <3>. QED  BY <1>t, <2>1, <2>2, <3>2, StatusSame DEF Gone
  <2>. QED  BY <2>2, <2>5, <2>6, StatusStep DEF Promise!Answer, Promise!Exit
<1>. QED  BY <1>1, <1>2, <1>3, <1>4, <1>5
          DEF Next, UserCalls, WorkerStep, Promise!Next

-----------------------------------------------------------------------------
(* The theorems *)

\* The inductive invariant holds in every reachable state.
THEOREM Invariance == Spec => []Inv
BY InitInv, NextInv, PTL DEF Spec

\* The state of the SystemHandler is well typed.
THEOREM TypeCorrect == Spec => []TypeOK
<1>. Inv => TypeOK  BY DEF Inv
<1>. QED  BY Invariance, PTL

\* For any number of processes and workers, a caller without an answer is in the
\* hands of exactly one thread, masked and out of the run queue
\* (SystemHandler.cpp:27-67).
THEOREM CallersAreServed == Spec => []CallerHasOneServant
<1>1. Inv => CallerHasOneServant
  <2>. SUFFICES ASSUME Inv, NEW u \in User, userAt[u] = "svc", r0[u] # "answer"
                PROVE  /\ u \in Range(calls) \cup {taken} \/ Servants(u) # {}
                       /\ u \in masked /\ u \notin Range(queued) \cup {active}
    BY DEF CallerHasOneServant, Inv, PlaceInv
  <2>1. u \in InHand /\ u # NoThread
    BY SystemHandlerAssumption DEF Inv, AnswerInv
  <2>2. ~ServedIn(u, "add_thread")
    BY <2>1 DEF ServedIn, Servants, Inv, AnswerInv
  <2>. QED  BY <2>1, <2>2, Served DEF Inv, BlockedInv
<1>. QED  BY <1>1, Invariance, PTL

\* System calls use the scheduler only as Scheduler allows, so what is proved
\* there holds of a kernel with processes (SystemHandler.cpp:16-76).
THEOREM RefinesScheduler == Spec => ImplementsScheduler
<1>1. Init => S!Init
  BY DEF Init
<1>. QED  BY <1>1, StepRefines, Invariance, PTL DEF Spec, ImplementsScheduler, S!Spec

\* A call is executed once, the caller continues afterwards and only then, and
\* never after exit (SystemHandler.cpp:49-67, Thread.cpp:325-339).
THEOREM RefinesSystemCalls == Spec => ImplementsSystemCalls
<1>1. Init => Promise!Init
  BY DEF Init, Promise!Init, Status, Promise!Idle
<1>. QED  BY <1>1, StepPromise, Invariance, PTL DEF Spec, ImplementsSystemCalls, Promise!Spec
=============================================================================
