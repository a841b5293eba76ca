-------------------------- MODULE Scheduler_proofs --------------------------
(***************************************************************************)
(* The safety properties of Scheduler, for every set of threads and every  *)
(* capacity of the queues.                                                 *)
(***************************************************************************)
EXTENDS Scheduler, DataLemmas

-----------------------------------------------------------------------------
(* Scheduler::schedule() *)

\* schedule() either takes a default thread and leaves the queue alone, or
\* it dequeues the thread at the front (Scheduler.cpp:79-87).
LEMMA ScheduleEffect ==
    ASSUME NEW running \in Thread \cup {NoThread}, NEW ready \in Seq(Thread),
           dangling \in Seq(Thread), Schedule(running, ready)
    PROVE  /\ DanglingAfter(running) \in Seq(Thread)
           /\ QueuedAfter(running, ready) \in Seq(Thread)
           /\ dangling' = DanglingAfter(running)
           /\ \/ /\ active' = ChooseDefault
                 /\ queued' = QueuedAfter(running, ready)
              \/ /\ QueuedAfter(running, ready) # <<>>
                 /\ active' = Head(QueuedAfter(running, ready))
                 /\ queued' = Tail(QueuedAfter(running, ready))
           /\ active' \in Thread /\ queued' \in Seq(Thread)
<1>1. DanglingAfter(running) \in Seq(Thread)
  BY RangeAppend DEF DanglingAfter
<1>2. QueuedAfter(running, ready) \in Seq(Thread)
  BY RangeAppend DEF QueuedAfter
<1>3. ChooseDefault \in Thread
  BY SchedulerAssumption DEF ChooseDefault
<1>4. CASE active' = ChooseDefault /\ queued' = QueuedAfter(running, ready)
  BY <1>1, <1>2, <1>3, <1>4 DEF Schedule
<1>5. CASE /\ QueuedAfter(running, ready) # <<>>
           /\ active' = Head(QueuedAfter(running, ready))
           /\ queued' = Tail(QueuedAfter(running, ready))
  <2>1. active' \in Thread /\ queued' \in Seq(Thread)
    BY <1>2, <1>5, RangeTail
  <2>. QED  BY <1>1, <1>2, <1>5, <2>1 DEF Schedule
<1>. QED  BY <1>4, <1>5 DEF Schedule

\* The sets of threads after schedule(): a masked thread that nobody else
\* keeps joins the dangling ones, an ordinary unmasked thread the queued ones,
\* and the new active thread leaves the queue unless it is a default thread.
LEMMA ScheduleSets ==
    ASSUME NEW running \in Thread \cup {NoThread}, NEW ready \in Seq(Thread),
           dangling \in Seq(Thread), Schedule(running, ready)
    PROVE  /\ Range(dangling') = Range(dangling) \cup
                  {t \in {running} : t # NoThread /\ t \in masked /\ LastReference(t)}
           /\ Range(queued') \cup ({active'} \ {Default, Fallback})
                  \subseteq Range(ready) \cup
                      {t \in {running} : t # NoThread /\ t \notin masked /\ ~IsDefault(t)}
           /\ Range(ready) \cup
                      {t \in {running} : t # NoThread /\ t \notin masked /\ ~IsDefault(t)}
                  \subseteq Range(queued') \cup {active'}
<1>1. Range(DanglingAfter(running)) = Range(dangling) \cup
          {t \in {running} : t # NoThread /\ t \in masked /\ LastReference(t)}
  <2>1. CASE running # NoThread /\ running \in masked /\ LastReference(running)
    BY <2>1, RangeAppend DEF DanglingAfter
  <2>2. CASE ~(running # NoThread /\ running \in masked /\ LastReference(running))
    BY <2>2 DEF DanglingAfter
  <2>. QED  BY <2>1, <2>2
<1>2. Range(QueuedAfter(running, ready)) = Range(ready) \cup
          {t \in {running} : t # NoThread /\ t \notin masked /\ ~IsDefault(t)}
  <2>1. CASE running # NoThread /\ running \notin masked /\ ~IsDefault(running)
    BY <2>1, RangeAppend DEF QueuedAfter
  <2>2. CASE ~(running # NoThread /\ running \notin masked /\ ~IsDefault(running))
    BY <2>2 DEF QueuedAfter
  <2>. QED  BY <2>1, <2>2
<1>3. CASE active' = ChooseDefault /\ queued' = QueuedAfter(running, ready)
  BY <1>1, <1>2, <1>3, ScheduleEffect DEF ChooseDefault
<1>4. CASE /\ QueuedAfter(running, ready) # <<>>
           /\ active' = Head(QueuedAfter(running, ready))
           /\ queued' = Tail(QueuedAfter(running, ready))
  <2>1. Range(QueuedAfter(running, ready)) = Range(queued') \cup {active'}
    BY <1>4, ScheduleEffect, RangeTail
  <2>. QED  BY <1>1, <1>2, <2>1, ScheduleEffect
<1>. QED  BY <1>3, <1>4, ScheduleEffect

\* schedule() duplicates no thread that was in one place.
LEMMA ScheduleOnce ==
    ASSUME NEW running \in Thread \cup {NoThread}, NEW ready \in Seq(Thread),
           dangling \in Seq(Thread), Schedule(running, ready),
           NEW t \in Ordinary,
           Once(ready, t), Once(dangling, t),
           t = running => t \notin Range(ready) \cup Range(dangling)
    PROVE  /\ Once(queued', t) /\ Once(dangling', t)
           /\ t = active' => t \notin Range(queued')
<1>1. Once(dangling', t)
  <2>1. CASE running # NoThread /\ running \in masked /\ LastReference(running)
    <3>1. dangling' = Append(dangling, running) /\ running \in Thread
      BY <2>1, ScheduleEffect DEF DanglingAfter
    <3>2. t # running \/ t \notin Range(dangling)
      OBVIOUS
    <3>. QED  BY <3>1, <3>2, OnceAppend
  <2>2. CASE ~(running # NoThread /\ running \in masked /\ LastReference(running))
    BY <2>2, ScheduleEffect DEF DanglingAfter
  <2>. QED  BY <2>1, <2>2
<1>2. Once(QueuedAfter(running, ready), t)
  <2>1. CASE running # NoThread /\ running \notin masked /\ ~IsDefault(running)
    BY <2>1, OnceAppend DEF QueuedAfter
  <2>2. CASE ~(running # NoThread /\ running \notin masked /\ ~IsDefault(running))
    BY <2>2 DEF QueuedAfter
  <2>. QED  BY <2>1, <2>2
<1>3. CASE active' = ChooseDefault /\ queued' = QueuedAfter(running, ready)
  BY <1>1, <1>2, <1>3 DEF ChooseDefault, Ordinary
<1>4. CASE /\ QueuedAfter(running, ready) # <<>>
           /\ active' = Head(QueuedAfter(running, ready))
           /\ queued' = Tail(QueuedAfter(running, ready))
  BY <1>1, <1>2, <1>4, ScheduleEffect, OnceTail
<1>. QED  BY <1>3, <1>4, ScheduleEffect

-----------------------------------------------------------------------------
(* The invariant *)

\* The state in which loop() leaves for the dummy thread.
LEMMA InitInv == Init => Inv
<1>. SUFFICES ASSUME Init PROVE Inv
  OBVIOUS
<1>1. Range(queued) = {Startup} /\ Range(dangling) = {} /\ DOMAIN dangling = {}
  BY DEF Init, Range
<1>2. DOMAIN queued = {1} /\ queued \in Seq(Thread) /\ dangling \in Seq(Thread)
  BY SchedulerAssumption DEF Init
<1>3. TypeOK
  BY <1>2, SchedulerAssumption DEF Init, TypeOK, Permanent
<1>4. OnePlace /\ OnlyDeadThreadsReaped /\ DanglingInv
  BY <1>1, <1>2, SchedulerAssumption
  DEF Init, OnePlace, Once, OnlyDeadThreadsReaped, DanglingInv, Ordinary, Permanent
<1>5. PermanentInv /\ StashInv /\ MaskedInv /\ KeptInv
  BY <1>1, SchedulerAssumption
  DEF Init, PermanentInv, StashInv, MaskedInv, KeptInv, Permanent, Ordinary, Exists
<1>. QED  BY <1>3, <1>4, <1>5 DEF Init, Inv, NoVerifyFails, DeadNeverRuns

\* The steps that move no thread between the queues keep the invariant.
LEMMA LocalStepInv ==
    ASSUME Inv, NEW a \in Thread, NEW t \in Thread,
           \/ SysTick \/ EnableScheduler \/ FallbackLoop \/ DefaultIdle
           \/ DefaultDestroy \/ Crashed
           \/ Block(a) \/ TakeReference(a) \/ Die(a)
           \/ Construct(a, t) \/ Unmask(a, t) \/ DropReference(a, t) \/ DestroyDead(a, t)
    PROVE  Inv'
<1>. USE SchedulerAssumption DEF Inv, Permanent, Ordinary
<1>q. queued' = queued /\ Range(queued') = Range(queued)
  BY DEF SysTick, EnableScheduler, FallbackLoop, DefaultIdle, DefaultDestroy, Crashed, Block,
         TakeReference, Die, Construct, Unmask, DropReference, DestroyDead, vars, schedulerVars
<1>d. dangling' = dangling /\ Range(dangling') = Range(dangling)
  BY DEF SysTick, EnableScheduler, FallbackLoop, DefaultIdle, DefaultDestroy, Crashed, Block,
         TakeReference, Die, Construct, Unmask, DropReference, DestroyDead, vars, schedulerVars
<1>1. CASE SysTick \/ EnableScheduler \/ FallbackLoop \/ DefaultIdle \/ Crashed
  <2>. USE <1>1, <1>q, <1>d DEF SysTick, EnableScheduler, FallbackLoop, DefaultIdle, Crashed,
           Running, Trigger, vars, schedulerVars
  <2>1. TypeOK' /\ NoVerifyFails' /\ StashInv'
    BY DEF TypeOK, NoVerifyFails, StashInv, Exists
  <2>2. OnePlace' /\ OnlyDeadThreadsReaped' /\ DanglingInv'
    BY DEF OnePlace, Once, OnlyDeadThreadsReaped, DanglingInv, TypeOK
  <2>3. DeadNeverRuns' /\ PermanentInv' /\ MaskedInv' /\ KeptInv'
    BY DEF DeadNeverRuns, PermanentInv, MaskedInv, KeptInv, Exists, TypeOK
  <2>. QED  BY <2>1, <2>2, <2>3
<1>2. CASE DefaultDestroy
  <2>. USE <1>2, <1>q, <1>d DEF DefaultDestroy, Forget, Running
  <2>1. /\ reaping \in dead /\ reaping \in Ordinary /\ reaping \notin held
        /\ reaping \notin Range(queued) \cup Range(dangling) \cup {active}
    BY DEF OnePlace, OnlyDeadThreadsReaped, PermanentInv, DanglingInv, TypeOK
  <2>2. TypeOK' /\ NoVerifyFails'
    BY <2>1 DEF TypeOK, NoVerifyFails, Check, LastReference
  <2>3. OnePlace' /\ OnlyDeadThreadsReaped' /\ DanglingInv'
    BY <2>1 DEF OnePlace, Once, OnlyDeadThreadsReaped, DanglingInv, TypeOK
  <2>4. DeadNeverRuns' /\ PermanentInv' /\ MaskedInv' /\ KeptInv'
    BY <2>1 DEF DeadNeverRuns, PermanentInv, MaskedInv, KeptInv, Exists, TypeOK
  <2>5. StashInv'
    BY <2>1 DEF StashInv, Exists, TypeOK
  <2>. QED  BY <2>2, <2>3, <2>4, <2>5
<1>3. CASE Block(a) \/ TakeReference(a)
  <2>. USE <1>3, <1>q, <1>d DEF Block, TakeReference, Works, Running, Trigger, Check, schedulerVars
  <2>0. /\ a = active /\ a \notin Range(dangling) \cup {reaping} \cup dead /\ a # Fallback
        /\ a \in Ordinary => a \notin Range(queued)
    BY DEF OnePlace, OnlyDeadThreadsReaped, DeadNeverRuns, DanglingInv, PermanentInv, TypeOK
  <2>1. TypeOK' /\ NoVerifyFails' /\ StashInv'
    BY <2>0 DEF TypeOK, NoVerifyFails, StashInv, Exists
  <2>2. OnePlace' /\ OnlyDeadThreadsReaped' /\ DanglingInv'
    BY <2>0 DEF OnePlace, Once, OnlyDeadThreadsReaped, DanglingInv, TypeOK
  <2>3. DeadNeverRuns' /\ PermanentInv' /\ MaskedInv' /\ KeptInv'
    BY <2>0 DEF DeadNeverRuns, PermanentInv, MaskedInv, KeptInv, Exists, TypeOK
  <2>. QED  BY <2>1, <2>2, <2>3
<1>4. CASE Construct(a, t)
  <2>. USE <1>4, <1>q, <1>d DEF Construct, Works, Running, Exists
  <2>1. TypeOK' /\ NoVerifyFails' /\ StashInv'
    BY DEF TypeOK, NoVerifyFails, StashInv
  <2>2. OnePlace' /\ OnlyDeadThreadsReaped' /\ DanglingInv'
    BY DEF OnePlace, Once, OnlyDeadThreadsReaped, DanglingInv, TypeOK
  <2>3. DeadNeverRuns' /\ PermanentInv' /\ MaskedInv' /\ KeptInv'
    BY DEF DeadNeverRuns, PermanentInv, MaskedInv, KeptInv, Exists, TypeOK
  <2>. QED  BY <2>1, <2>2, <2>3
<1>5. CASE Unmask(a, t) \/ DropReference(a, t)
  <2>. USE <1>5, <1>q, <1>d DEF Unmask, DropReference, Works, Running, schedulerVars
  <2>0. a = active /\ t \in held /\ t \notin Range(dangling) \cup {reaping}
    BY DEF DanglingInv
  <2>1. TypeOK' /\ NoVerifyFails' /\ StashInv'
    BY <2>0 DEF TypeOK, NoVerifyFails, StashInv, Exists
  <2>2. OnePlace' /\ OnlyDeadThreadsReaped' /\ DanglingInv'
    BY <2>0 DEF OnePlace, Once, OnlyDeadThreadsReaped, DanglingInv, TypeOK
  <2>3. DeadNeverRuns' /\ PermanentInv' /\ MaskedInv' /\ KeptInv'
    BY <2>0 DEF DeadNeverRuns, PermanentInv, MaskedInv, KeptInv, Exists, TypeOK
  <2>. QED  BY <2>1, <2>2, <2>3
<1>6. CASE Die(a)
  <2>. USE <1>6, <1>q, <1>d DEF Die, Works, Running, Trigger
  <2>0. a = active /\ a \in Ordinary /\ a \notin Range(queued) \cup Permanent
    BY DEF OnePlace
  <2>1. TypeOK' /\ NoVerifyFails' /\ StashInv'
    BY <2>0 DEF TypeOK, NoVerifyFails, StashInv, Exists
  <2>2. OnePlace' /\ OnlyDeadThreadsReaped' /\ DanglingInv'
    BY <2>0 DEF OnePlace, Once, OnlyDeadThreadsReaped, DanglingInv, TypeOK
  <2>3. DeadNeverRuns' /\ PermanentInv' /\ MaskedInv' /\ KeptInv'
    BY <2>0 DEF DeadNeverRuns, PermanentInv, MaskedInv, KeptInv, Exists, TypeOK
  <2>. QED  BY <2>1, <2>2, <2>3
<1>7. CASE DestroyDead(a, t)
  <2>. USE <1>7, <1>q, <1>d DEF DestroyDead, Forget, Works, Running
  <2>0. /\ t \in Ordinary /\ t # active
        /\ t \notin Range(dangling) \cup {reaping} \cup Range(queued)
    BY DEF DanglingInv, DeadNeverRuns, MaskedInv, KeptInv
  <2>1. TypeOK' /\ NoVerifyFails' /\ StashInv'
    BY <2>0 DEF TypeOK, NoVerifyFails, StashInv, Exists
  <2>2. OnePlace' /\ OnlyDeadThreadsReaped' /\ DanglingInv'
    BY <2>0 DEF OnePlace, Once, OnlyDeadThreadsReaped, DanglingInv, TypeOK
  <2>3. DeadNeverRuns' /\ PermanentInv' /\ MaskedInv' /\ KeptInv'
    BY <2>0 DEF DeadNeverRuns, PermanentInv, MaskedInv, KeptInv, Exists, TypeOK
  <2>. QED  BY <2>1, <2>2, <2>3
<1>. QED  BY <1>1, <1>2, <1>3, <1>4, <1>5, <1>6, <1>7

\* Adding an unmasked thread that is not in the scheduler keeps it in one place.
LEMMA AddInv ==
    ASSUME Inv, NEW a \in Thread, NEW t \in Thread,
           Spawn(a, t) \/ Wakeup(a, t) \/ GiveBack(a, t)
    PROVE  Inv'
<1>. USE SchedulerAssumption DEF Inv, Permanent, Ordinary
<1>1. CASE Wakeup(a, t) /\ t \notin masked
  <2>. USE <1>1 DEF Wakeup, Woken, Works, Running, Check
  <2>1. /\ queued' = queued /\ Range(queued') = Range(queued) /\ masked' = masked
        /\ dangling' = dangling /\ Range(dangling') = Range(dangling)
    OBVIOUS
  <2>2. TypeOK' /\ NoVerifyFails' /\ StashInv'
    BY <2>1 DEF TypeOK, NoVerifyFails, StashInv, Exists
  <2>3. OnePlace' /\ OnlyDeadThreadsReaped' /\ DanglingInv'
    BY <2>1 DEF OnePlace, Once, OnlyDeadThreadsReaped, DanglingInv, TypeOK
  <2>4. DeadNeverRuns' /\ PermanentInv' /\ MaskedInv' /\ KeptInv'
    BY <2>1 DEF DeadNeverRuns, PermanentInv, MaskedInv, KeptInv, Exists, TypeOK
  <2>. QED  BY <2>2, <2>3, <2>4
<1>2. CASE Spawn(a, t) \/ GiveBack(a, t) \/ (Wakeup(a, t) /\ t \in masked)
  <2>1. /\ queued' = Append(queued, t)
        /\ queued' \in Seq(Thread) /\ Range(queued') = Range(queued) \cup {t}
        /\ dangling' = dangling /\ Range(dangling') = Range(dangling)
    <3>1. queued' = Append(queued, t) /\ dangling' = dangling
      BY <1>2 DEF Spawn, Wakeup, GiveBack, Woken, AddThread
    <3>. QED  BY <3>1, RangeAppend DEF TypeOK
  <2>2. /\ a = active /\ t # active /\ t # Fallback /\ t \notin dead
        /\ t \notin Range(dangling) \cup {reaping}
        /\ t \in Ordinary => t \notin Range(queued)
        /\ t \notin masked' /\ (a \in Permanent \/ a \notin masked \cup dead)
    BY <1>2 DEF Spawn, Wakeup, GiveBack, Works, Running, Exists, KeptInv, MaskedInv,
                DanglingInv, PermanentInv
  <2>3. /\ active' = active /\ reaping' = reaping /\ dead' = dead /\ pendsv' = pendsv
        /\ enabled' = enabled /\ masked' = masked \ {t}
        /\ held' \in {held, held \ {t}, held \ ({a} \ Permanent)}
        /\ t \notin Permanent \ {Default}
        /\ t = Default => Default \in held'
        /\ stashed' = stashed \cup {t} \/ (stashed' = stashed /\ t \in held)
        /\ panic' \in {"none", "overflow"}
    <3>1. CASE Spawn(a, t)
      <4>1. t \notin masked /\ t \notin Permanent /\ t \notin held
        BY <3>1 DEF Spawn, Exists, KeptInv, PermanentInv
      <4>2. masked \ {t} = masked
        BY <4>1
      <4>. QED  BY <3>1, <4>1, <4>2 DEF Spawn, Check
    <3>2. CASE GiveBack(a, t)
      BY <3>2 DEF GiveBack, Check
    <3>3. CASE Wakeup(a, t) /\ t \in masked
      BY <3>3 DEF Wakeup, Check
    <3>. QED  BY <1>2, <3>1, <3>2, <3>3
  <2>4. OnePlace'
    <3>1. ASSUME NEW u \in Ordinary PROVE Once(queued', u)
      BY <2>1, <2>2, OnceAppend DEF OnePlace, TypeOK
    <3>. QED  BY <2>1, <2>2, <2>3, <3>1 DEF OnePlace
  <2>5. TypeOK' /\ NoVerifyFails' /\ StashInv'
    BY <2>1, <2>2, <2>3 DEF TypeOK, NoVerifyFails, StashInv, Exists
  <2>6. OnlyDeadThreadsReaped' /\ DanglingInv'
    BY <2>1, <2>2, <2>3 DEF OnlyDeadThreadsReaped, DanglingInv, TypeOK
  <2>7. DeadNeverRuns' /\ PermanentInv' /\ MaskedInv' /\ KeptInv'
    BY <2>1, <2>2, <2>3 DEF DeadNeverRuns, PermanentInv, MaskedInv, KeptInv, Exists, TypeOK
  <2>. QED  BY <2>4, <2>5, <2>6, <2>7
<1>. QED  BY <1>1, <1>2

\* The default thread takes over the dangling thread at the front.
LEMMA ReapInv == Inv /\ DefaultReap => Inv'
<1>. SUFFICES ASSUME Inv, DefaultReap PROVE Inv'
  OBVIOUS
<1>. USE SchedulerAssumption DEF Inv, Permanent, Ordinary, DefaultReap, Running
<1>1. /\ reaping' \in Thread /\ dangling' \in Seq(Thread)
      /\ Range(dangling) = Range(dangling') \cup {reaping'}
      /\ queued' = queued /\ Range(queued') = Range(queued)
  BY RangeTail DEF TypeOK
<1>2. reaping' \in dead /\ reaping' \notin held /\ reaping' \in Ordinary
  BY <1>1 DEF OnlyDeadThreadsReaped, DanglingInv, PermanentInv
<1>3. OnePlace'
  <2>1. ASSUME NEW t \in Ordinary
        PROVE  Once(dangling', t) /\ (t = reaping' => t \notin Range(dangling'))
    BY OnceTail DEF OnePlace, TypeOK
  <2>. QED  BY <1>1, <2>1 DEF OnePlace, Once
<1>4. TypeOK' /\ NoVerifyFails' /\ StashInv'
  BY <1>1 DEF TypeOK, NoVerifyFails, StashInv, Exists
<1>5. OnlyDeadThreadsReaped' /\ DanglingInv'
  BY <1>1, <1>2 DEF OnlyDeadThreadsReaped, DanglingInv
<1>6. DeadNeverRuns' /\ PermanentInv' /\ MaskedInv' /\ KeptInv'
  BY <1>1, <1>2 DEF DeadNeverRuns, PermanentInv, MaskedInv, KeptInv, Exists, TypeOK
<1>. QED  BY <1>3, <1>4, <1>5, <1>6

\* scheduler_next() keeps the invariant: what it parks is dead, what it queues
\* was in no other place.
LEMMA PendSVInv == Inv /\ PendSV => Inv'
<1>. SUFFICES ASSUME Inv, PendSV PROVE Inv'
  OBVIOUS
<1>. USE SchedulerAssumption DEF Inv, Permanent, Ordinary, IsDefault
<1>1. /\ active \in Thread /\ queued \in Seq(Thread) /\ dangling \in Seq(Thread)
      /\ Schedule(active, queued) /\ active # NoThread
  BY DEF TypeOK, PendSV
<1>2. /\ active' \in Thread /\ queued' \in Seq(Thread) /\ dangling' \in Seq(Thread)
      /\ active' \in {Default, Fallback} \cup Range(queued) \cup {active}
  BY <1>1, ScheduleEffect, ScheduleSets
<1>3. /\ Range(dangling') = Range(dangling) \cup
             {t \in {active} : t \in masked /\ LastReference(t)}
      /\ Range(queued') \cup ({active'} \ {Default, Fallback})
             \subseteq Range(queued) \cup
                 {t \in {active} : t \notin masked /\ t \notin {Default, Fallback}}
      /\ Range(queued) \cup {t \in {active} : t \notin masked /\ t \notin {Default, Fallback}}
             \subseteq Range(queued') \cup {active'}
  BY <1>1, ScheduleSets
<1>4. /\ masked' = masked /\ held' = held /\ dead' = dead /\ reaping' = reaping
      /\ enabled' = enabled /\ pendsv' = FALSE
      /\ stashed' = (stashed \cup {active}) \ {active'}
  BY DEF PendSV, SwitchContext
<1>5. /\ {t \in {active} : t \in masked /\ LastReference(t)} \subseteq dead \ held
      /\ \A t \in {active} : t \in dead \ held => t \in masked /\ LastReference(t)
  <2>1. ASSUME active \in masked, LastReference(active)
        PROVE  active \in dead \ held
    BY <1>1, <2>1 DEF LastReference, PermanentInv, KeptInv
  <2>2. ASSUME active \in dead \ held
        PROVE  active \in masked /\ LastReference(active)
    BY <1>1, <2>2 DEF LastReference, PermanentInv, KeptInv, OnePlace
  <2>. QED  BY <2>1, <2>2
<1>6. OnePlace'
  <2>1. ASSUME NEW t \in Ordinary
        PROVE  /\ Once(queued', t) /\ Once(dangling', t)
               /\ t = active' => t \notin Range(queued')
    BY <1>1, ScheduleOnce DEF OnePlace
  <2>2. ASSUME NEW t \in Ordinary, t \in Range(queued') \cup {active'}
        PROVE  t \notin Range(dangling') \cup {reaping'}
    BY <1>3, <1>4, <2>2 DEF OnePlace, KeptInv, MaskedInv, DanglingInv
  <2>. QED  BY <2>1, <2>2, <1>3, <1>4 DEF OnePlace, DanglingInv
<1>7. NoVerifyFails'
  <2>1. SwitchVerifies
    BY <1>1, <1>2 DEF SwitchVerifies, StashInv, Exists, PermanentInv
  <2>2. ScheduleVerifies(active, queued)
    BY DEF ScheduleVerifies, LastReference, PermanentInv
  <2>. QED  BY <2>1, <2>2 DEF NoVerifyFails, PendSV, Check
<1>8. TypeOK'
  BY <1>1, <1>2, <1>4 DEF TypeOK, PendSV, Check
<1>9. OnlyDeadThreadsReaped' /\ DanglingInv'
  BY <1>3, <1>4, <1>5 DEF OnlyDeadThreadsReaped, DanglingInv
<1>10. PermanentInv' /\ MaskedInv' /\ KeptInv' /\ DeadNeverRuns'
  <2>1. MaskedInv' /\ DeadNeverRuns'
    BY <1>2, <1>3, <1>4 DEF MaskedInv, DeadNeverRuns, KeptInv, PermanentInv, TypeOK
  <2>2. PermanentInv' /\ KeptInv'
    BY <1>3, <1>4, <1>5 DEF PermanentInv, KeptInv, Exists
  <2>. QED  BY <2>1, <2>2
<1>11. StashInv'
  BY <1>2, <1>3, <1>4 DEF StashInv, Exists
<1>. QED  BY <1>6, <1>7, <1>8, <1>9, <1>10, <1>11

\* The SVC handler keeps the invariant: the caller is kept by whoever serves the
\* call, and the server was not queued if it had to be woken.
LEMMA SystemCallInv ==
    ASSUME Inv, NEW a \in Thread, NEW h \in Thread, MakeSystemCall(a, h)
    PROVE  Inv'
<1>. USE SchedulerAssumption DEF Inv, Permanent, Ordinary, IsDefault
<1>. DEFINE ready == Woken(h)
<1>1. /\ a = active /\ active \in Ordinary /\ active \notin Permanent
      /\ h \in held /\ h \in Ordinary /\ h \notin Permanent /\ h \notin dead /\ h # active
      /\ active \notin masked /\ active \notin dead
      /\ pendsv = FALSE /\ pendsv' = FALSE
  BY DEF MakeSystemCall, SystemCall, Works, Running, MaskedInv, KeptInv, TypeOK
<1>2. /\ queued \in Seq(Thread) /\ dangling \in Seq(Thread)
      /\ ready \in Seq(Thread)
      /\ Range(ready) = Range(queued) \cup {t \in {h} : t \in masked}
  BY RangeAppend DEF Woken, TypeOK
<1>3. Schedule(NoThread, ready)
  BY DEF MakeSystemCall, SystemCall
<1>. HIDE DEF ready
<1>4. /\ active' \in Thread /\ queued' \in Seq(Thread) /\ dangling' \in Seq(Thread)
      /\ dangling' = dangling /\ Range(dangling') = Range(dangling)
  BY <1>2, <1>3, ScheduleEffect DEF DanglingAfter
<1>5. /\ Range(queued') \cup ({active'} \ {Default, Fallback}) \subseteq Range(ready)
      /\ Range(ready) \subseteq Range(queued') \cup {active'}
  BY <1>2, <1>3, ScheduleSets
<1>6. /\ masked' = (masked \cup {active}) \ {h} /\ held' = held \cup {active}
      /\ dead' = dead /\ reaping' = reaping /\ enabled' = enabled
      /\ stashed' = (stashed \cup {active}) \ {active'}
  BY <1>1 DEF MakeSystemCall, SystemCall, SwitchContext
<1>7. OnePlace'
  <2>1. ASSUME NEW t \in Ordinary PROVE Once(ready, t)
    BY <1>2, OnceAppend DEF Woken, ready, OnePlace, MaskedInv
  <2>2. ASSUME NEW t \in Ordinary
        PROVE  /\ Once(queued', t) /\ Once(dangling', t)
               /\ t = active' => t \notin Range(queued')
    BY <1>2, <1>3, <2>1, ScheduleOnce DEF OnePlace
  <2>3. ASSUME NEW t \in Ordinary, t \in Range(queued') \cup {active'}
        PROVE  t \notin Range(dangling') \cup {reaping'}
    BY <1>1, <1>2, <1>4, <1>5, <1>6, <2>3 DEF OnePlace, DanglingInv
  <2>. QED  BY <2>2, <2>3, <1>4, <1>6 DEF OnePlace
<1>8. NoVerifyFails'
  <2>1. SwitchVerifies
    BY <1>1, <1>2, <1>4, <1>5 DEF SwitchVerifies, StashInv, Exists, PermanentInv, TypeOK
  <2>2. ScheduleVerifies(NoThread, ready)
    BY DEF ScheduleVerifies, PermanentInv
  <2>. QED  BY <2>1, <2>2 DEF NoVerifyFails, MakeSystemCall, SystemCall, Check, ready
<1>9. TypeOK'
  BY <1>1, <1>4, <1>6 DEF TypeOK, MakeSystemCall, SystemCall, Check
<1>10. OnlyDeadThreadsReaped' /\ DanglingInv'
  BY <1>1, <1>4, <1>6 DEF OnlyDeadThreadsReaped, DanglingInv, OnePlace
<1>11. MaskedInv' /\ DeadNeverRuns'
  BY <1>1, <1>2, <1>4, <1>5, <1>6 DEF MaskedInv, DeadNeverRuns, KeptInv, OnePlace, PermanentInv, TypeOK
<1>12. PermanentInv' /\ KeptInv'
  BY <1>1, <1>2, <1>4, <1>5, <1>6 DEF PermanentInv, KeptInv, Exists, TypeOK
<1>13. StashInv'
  BY <1>1, <1>2, <1>4, <1>5, <1>6 DEF StashInv, Exists, TypeOK
<1>. QED  BY <1>7, <1>8, <1>9, <1>10, <1>11, <1>12, <1>13

\* Every step of the scheduler and of the kernel on top of it keeps Inv.
LEMMA NextInv == Inv /\ [Next]_vars => Inv'
<1>. SUFFICES ASSUME Inv, [Next]_vars PROVE Inv'
  OBVIOUS
<1>1. CASE PendSV
  BY <1>1, PendSVInv
<1>2. CASE DefaultReap
  BY <1>2, ReapInv
<1>3. CASE SysTick \/ EnableScheduler \/ FallbackLoop \/ DefaultIdle \/ DefaultDestroy \/ Crashed
  BY <1>3, LocalStepInv, SchedulerAssumption
<1>4. ASSUME NEW a \in Thread, Block(a) \/ TakeReference(a) \/ Die(a)
      PROVE  Inv'
  BY <1>4, LocalStepInv
<1>5. ASSUME NEW a \in Thread, NEW t \in Thread,
             Construct(a, t) \/ Unmask(a, t) \/ DropReference(a, t) \/ DestroyDead(a, t)
      PROVE  Inv'
  BY <1>5, LocalStepInv
<1>6. ASSUME NEW a \in Thread, NEW t \in Thread,
             Spawn(a, t) \/ Wakeup(a, t) \/ GiveBack(a, t)
      PROVE  Inv'
  BY <1>6, AddInv
<1>7. ASSUME NEW a \in Thread, NEW t \in Thread, MakeSystemCall(a, t)
      PROVE  Inv'
  BY <1>7, SystemCallInv
<1>8. CASE UNCHANGED vars
  BY <1>8 DEF vars, schedulerVars, Inv, TypeOK, NoVerifyFails, OnePlace, Once,
              OnlyDeadThreadsReaped, DeadNeverRuns, PermanentInv, StashInv, MaskedInv, KeptInv,
              DanglingInv, Exists
<1>. QED  BY <1>1, <1>2, <1>3, <1>4, <1>5, <1>6, <1>7, <1>8 DEF Next, KernelStep

-----------------------------------------------------------------------------
(* What a step leaves alone. *)

\* The handlers switch between the active thread and the queued ones only: a
\* thread that is neither becomes so only when the SVC handler wakes it.
LEMMA OutsideStays ==
    ASSUME Inv, NEW t \in Ordinary, t \notin Range(queued) \cup {active},
           \/ PendSV
           \/ \E h \in Thread \ {t} : \E room \in BOOLEAN : SystemCall(h, room)
    PROVE  t \notin Range(queued') \cup {active'}
<1>. USE SchedulerAssumption DEF Inv, Ordinary, IsDefault
<1>1. CASE PendSV
  <2>1. /\ Schedule(active, queued) /\ active \in Thread
        /\ queued \in Seq(Thread) /\ dangling \in Seq(Thread)
    BY <1>1 DEF PendSV, TypeOK
  <2>2. Range(queued') \cup ({active'} \ {Default, Fallback})
            \subseteq Range(queued) \cup {active}
    BY <2>1, ScheduleSets
  <2>. QED  BY <2>2
<1>2. ASSUME NEW h \in Thread \ {t}, NEW room \in BOOLEAN, SystemCall(h, room)
      PROVE  t \notin Range(queued') \cup {active'}
  <2>. DEFINE ready == Woken(h)
  <2>1. /\ Schedule(NoThread, ready) /\ dangling \in Seq(Thread)
        /\ ready \in Seq(Thread) /\ t \notin Range(ready)
    BY <1>2, RangeAppend DEF SystemCall, Woken, TypeOK
  <2>. HIDE DEF ready
  <2>2. Range(queued') \cup ({active'} \ {Default, Fallback}) \subseteq Range(ready)
    BY <2>1, ScheduleSets
  <2>. QED  BY <2>1, <2>2
<1>. QED  BY <1>1, <1>2

\* The handlers and the default threads create nobody.
LEMMA GoneStays ==
    ASSUME Inv, NEW t \in Ordinary, ~Exists(t),
           PendSV \/ SysTick \/ EnableScheduler \/ DefaultIdle \/ DefaultReap \/ DefaultDestroy
    PROVE  ~Exists(t)'
<1>. USE SchedulerAssumption DEF Inv, Exists
<1>1. CASE PendSV
  <2>1. /\ Schedule(active, queued) /\ active \in Thread
        /\ queued \in Seq(Thread) /\ dangling \in Seq(Thread)
    BY <1>1 DEF PendSV, TypeOK
  <2>2. Range(dangling') \subseteq Range(dangling) \cup {active}
    BY <2>1, ScheduleSets
  <2>3. t \notin Range(queued') \cup {active'}
    BY <1>1, OutsideStays
  <2>. QED  BY <1>1, <2>2, <2>3 DEF PendSV
<1>2. CASE SysTick \/ EnableScheduler \/ DefaultIdle
  BY <1>2 DEF SysTick, EnableScheduler, DefaultIdle
<1>3. CASE DefaultReap
  <2>1. Range(dangling) = Range(dangling') \cup {reaping'}
    BY <1>3, RangeTail DEF DefaultReap, TypeOK
  <2>. QED  BY <1>3, <2>1 DEF DefaultReap
<1>4. CASE DefaultDestroy
  BY <1>4 DEF DefaultDestroy, Ordinary
<1>. QED  BY <1>1, <1>2, <1>3, <1>4

\* Only a thread that called die() is ever destroyed: in every other case the
\* reference that a step drops was not the last one.
LEMMA AliveStays == Inv /\ [Next]_vars => \A t \in Thread \ dead : Exists(t) => Exists(t)'
<1>. SUFFICES ASSUME Inv, [Next]_vars, NEW t \in Thread, t \notin dead, Exists(t)
              PROVE  Exists(t)'
  OBVIOUS
<1>. USE SchedulerAssumption DEF Inv, Exists
<1>1. CASE PendSV
  <2>1. /\ Schedule(active, queued) /\ active \in Thread
        /\ queued \in Seq(Thread) /\ dangling \in Seq(Thread)
    BY <1>1 DEF PendSV, TypeOK
  <2>2. /\ Range(dangling') = Range(dangling) \cup
               {x \in {active} : x # NoThread /\ x \in masked /\ LastReference(x)}
        /\ Range(queued) \cup {x \in {active} : x # NoThread /\ x \notin masked /\ ~IsDefault(x)}
               \subseteq Range(queued') \cup {active'}
    BY <2>1, ScheduleSets
  <2>3. held' = held /\ reaping' = reaping
    BY <1>1 DEF PendSV
  <2>. QED  BY <2>1, <2>2, <2>3 DEF LastReference, IsDefault, PermanentInv, Permanent
<1>2. ASSUME NEW a \in Thread, NEW h \in Thread, MakeSystemCall(a, h) PROVE Exists(t)'
  <2>. DEFINE ready == Woken(h)
  <2>1. /\ Schedule(NoThread, ready) /\ dangling \in Seq(Thread)
        /\ ready \in Seq(Thread) /\ Range(queued) \subseteq Range(ready)
        /\ held' = held \cup {active} /\ reaping' = reaping
    BY <1>2, RangeAppend DEF MakeSystemCall, SystemCall, Works, Running, Woken, TypeOK
  <2>. HIDE DEF ready
  <2>2. /\ Range(dangling) \subseteq Range(dangling')
        /\ Range(ready) \subseteq Range(queued') \cup {active'}
    BY <2>1, ScheduleSets
  <2>. QED  BY <2>1, <2>2
<1>3. CASE SysTick \/ EnableScheduler \/ FallbackLoop \/ DefaultIdle \/ Crashed \/ UNCHANGED vars
  BY <1>3 DEF SysTick, EnableScheduler, FallbackLoop, DefaultIdle, Crashed, vars, schedulerVars
<1>4. CASE DefaultReap
  <2>1. Range(dangling) = Range(dangling') \cup {reaping'}
    BY <1>4, RangeTail DEF DefaultReap, TypeOK
  <2>. QED  BY <1>4, <2>1 DEF DefaultReap, TypeOK
<1>5. CASE DefaultDestroy
  BY <1>5 DEF DefaultDestroy, OnlyDeadThreadsReaped
<1>6. ASSUME NEW a \in Thread, Block(a) \/ TakeReference(a) \/ Die(a) PROVE Exists(t)'
  BY <1>6 DEF Block, TakeReference, Die, schedulerVars
<1>7. ASSUME NEW a \in Thread, NEW x \in Thread,
             Construct(a, x) \/ Unmask(a, x) \/ DropReference(a, x) \/ DestroyDead(a, x)
      PROVE  Exists(t)'
  BY <1>7 DEF Construct, Unmask, DropReference, DestroyDead, Works, Running, schedulerVars
<1>8. ASSUME NEW a \in Thread, NEW x \in Thread, Spawn(a, x) \/ Wakeup(a, x) \/ GiveBack(a, x)
      PROVE  Exists(t)'
  <2>1. /\ queued' \in {queued, Append(queued, x)}
        /\ Wakeup(a, x) \/ queued' = Append(queued, x)
    BY <1>8 DEF Spawn, Wakeup, GiveBack, AddThread, Woken
  <2>2. /\ Range(queued) \subseteq Range(queued')
        /\ Wakeup(a, x) \/ x \in Range(queued')
    BY <2>1, RangeAppend DEF TypeOK
  <2>3. /\ held \ {a, x} \subseteq held' /\ (Wakeup(a, x) => held \ {a} \subseteq held')
        /\ (Spawn(a, x) => held \ {x} \subseteq held')
        /\ (GiveBack(a, x) => held \ {x} \subseteq held')
        /\ a = active /\ active' = active /\ dangling' = dangling /\ reaping' = reaping
    BY <1>8 DEF Spawn, Wakeup, GiveBack, Works, Running
  <2>. QED  BY <2>2, <2>3, <1>8
<1>. QED  BY <1>1, <1>2, <1>3, <1>4, <1>5, <1>6, <1>7, <1>8 DEF Next, KernelStep

-----------------------------------------------------------------------------
(* The theorems *)

\* The invariant, from which the properties below follow.
THEOREM Invariance == Spec => []Inv
BY InitInv, NextInv, PTL DEF Spec

\* The state of the scheduler is well typed.
THEOREM TypeCorrect == Spec => []TypeOK
<1>. Inv => TypeOK  BY DEF Inv
<1>. QED  BY Invariance, PTL

\* No VERIFY of the scheduler and of the context switch ever fails
\* (Scheduler.cpp:69, 147, 227, Thread.hpp:86, 92).
THEOREM VerificationsHold == Spec => []NoVerifyFails
<1>. Inv => NoVerifyFails  BY DEF Inv
<1>. QED  BY Invariance, PTL

\* schedule() never leaves an ordinary thread in two places
\* (Scheduler.cpp:53-75).
THEOREM ThreadsInOnePlace == Spec => []OnePlace
<1>. Inv => OnePlace  BY DEF Inv
<1>. QED  BY Invariance, PTL

\* The default thread is handed only threads that called die(), never a blocked one
\* (Scheduler.cpp:60-66, 135-148).
THEOREM OnlyTheDeadAreDestroyed == Spec => []OnlyDeadThreadsReaped
<1>. Inv => OnlyDeadThreadsReaped  BY DEF Inv
<1>. QED  BY Invariance, PTL

\* A thread that called die() never runs again (Thread.cpp:36-42).
THEOREM DeathIsFinal == Spec => []DeadNeverRuns
<1>. Inv => DeadNeverRuns  BY DEF Inv
<1>. QED  BY Invariance, PTL

\* A thread that did not call die() is never destroyed, whoever drops references
\* to it (RefPtr.hpp, Scheduler.cpp:60-66, 135-148).
THEOREM OnlyTheDeadVanish ==
    Spec => [][\A t \in Thread \ dead : Exists(t) => Exists(t)']_vars
BY Invariance, AliveStays, PTL DEF Spec
=============================================================================
