----------------------------- MODULE Scheduler -----------------------------
(***************************************************************************)
(* The scheduler of the kernel (Kernel/Threads/Scheduler.cpp) and the part *)
(* of Thread it works on.  There is one core.  A thread runs until an      *)
(* exception is taken: PendSV, raised by SysTick or by                     *)
(* Scheduler::trigger(), runs scheduler_next(); SVC runs syscall().  All   *)
(* exceptions have the same priority, so a handler is one atomic step, and *)
(* so is every region of a thread that runs with interrupts masked.        *)
(*                                                                         *)
(* The variable held abstracts the rest of the kernel: the threads that    *)
(* somebody outside the scheduler has a RefPtr to.  The modules that model *)
(* those parts instantiate this one with the places they keep references   *)
(* in.  The specification Spec below is what any user of the scheduler may *)
(* do to it.                                                               *)
(***************************************************************************)
EXTENDS Naturals, Queues

CONSTANTS
    Thread,     \* the Thread objects that may exist
    Default,    \* Scheduler::m_default_thread
    Fallback,   \* Scheduler::m_fallback_thread
    Dummy,      \* the thread loop() enters the scheduler with
    Startup,    \* the thread that runs boot_with_scheduler()
    NoThread,   \* the null RefPtr
    QueueSize   \* capacity of each CircularQueue of threads

ASSUME SchedulerAssumption ==
    /\ {Default, Fallback, Dummy, Startup} \subseteq Thread
    /\ Default # Fallback
    /\ Dummy \notin {Default, Fallback}
    /\ Startup \notin {Default, Fallback, Dummy}
    /\ NoThread \notin Thread
    /\ QueueSize \in Nat \ {0}

VARIABLES
    active,     \* m_active_thread
    queued,     \* m_queued_threads
    dangling,   \* m_dangling_threads
    masked,     \* the threads with m_masked_from_scheduler set
    stashed,    \* the threads whose m_stashed_context is valid
    pendsv,     \* is PendSV pending?
    enabled,    \* m_enabled
    reaping,    \* the local variable of the default thread, Scheduler.cpp:135
    held,       \* the threads referenced from outside the scheduler
    dead,       \* the threads that called die()
    panic       \* which kind of check failed and stopped the machine, if any

schedulerVars == <<active, queued, dangling, masked, stashed, pendsv, enabled, panic>>
vars == <<schedulerVars, reaping, held, dead>>

\* The two threads that loop() marks with m_is_default_thread.
IsDefault(t) == t \in {Default, Fallback}

\* loop() keeps its three threads referenced for ever: two members and a local.
Permanent == {Default, Fallback, Dummy}

\* m_refcount is at least one: somebody still refers to the Thread object.
Exists(t) ==
    t \in held \cup Range(queued) \cup Range(dangling) \cup {active, reaping}

\* Thread t is executing instructions.  A pending PendSV is taken before the
\* next instruction, and crash() never returns.
Running(t) == active = t /\ ~pendsv /\ panic = "none"

\* VERIFY(ok) stops the machine, and so does the ASSERT in enqueue() that the
\* queue has room.
Check(ok, fits) ==
    panic' = IF ~ok THEN "verify" ELSE IF ~fits THEN "overflow" ELSE "none"

-----------------------------------------------------------------------------
(* Scheduler::schedule() *)

\* refcount() < 2 for the thread m_active_thread refers to.
LastReference(t) == t \notin held \cup Range(queued) \cup Range(dangling)

\* Mutant: parks every masked thread, referenced elsewhere or not.
DanglingAfterAnyMasked(running) ==
    IF running # NoThread /\ running \in masked THEN Append(dangling, running) ELSE dangling

\* A masked thread leaves the scheduler; unless another reference keeps it, it
\* is parked in m_dangling_threads, for a handler must not destroy it.
DanglingAfter(running) ==
    IF running # NoThread /\ running \in masked /\ LastReference(running)
    THEN Append(dangling, running)
    ELSE dangling

\* Mutant: does not look at the mask.
QueuedAfterUnlessDefault(running, ready) ==
    IF running # NoThread /\ ~IsDefault(running) THEN Append(ready, running) ELSE ready

\* Any other thread is queued again, the default threads excepted.
QueuedAfter(running, ready) ==
    IF running # NoThread /\ running \notin masked /\ ~IsDefault(running)
    THEN Append(ready, running)
    ELSE ready

ChooseDefault == IF Default \in masked THEN Fallback ELSE Default

\* running is m_active_thread when the handler calls schedule(), ready is
\* m_queued_threads.  The default thread is preferred to every queued thread
\* as long as there is a dangling thread for it to destroy.
Schedule(running, ready) ==
    LET parked == DanglingAfter(running)
        queue  == QueuedAfter(running, ready)
    IN  /\ dangling' = parked
        /\ \/ /\ parked # <<>> \/ queue = <<>>
              /\ active' = ChooseDefault
              /\ queued' = queue
           \/ /\ parked = <<>> /\ queue # <<>>
              /\ active' = Head(queue)
              /\ queued' = Tail(queue)

\* What schedule() verifies: the default threads are referenced by the
\* scheduler, and one of them is available when it is needed.
ScheduleVerifies(running, ready) ==
    /\ (running # NoThread /\ running \notin masked /\ IsDefault(running))
            => ~LastReference(running)
    /\ (DanglingAfter(running) # <<>> \/ QueuedAfter(running, ready) = <<>>)
            => (Default \in masked => Fallback \notin masked)

ScheduleFits(running, ready) ==
    /\ Len(DanglingAfter(running)) <= QueueSize
    /\ Len(QueuedAfter(running, ready)) <= QueueSize

\* Mutant: unstash_context() does not clear the context.
SwitchContextKept == stashed' = stashed \cup {active}

\* stash_context() of the thread that enters a handler and unstash_context()
\* of the one that leaves it; both verify that the context is where it is
\* expected to be.
SwitchContext == stashed' = (stashed \cup {active}) \ {active'}

SwitchVerifies ==
    active # NoThread /\ active \notin stashed /\ active' \in stashed \cup {active}

\* scheduler_next(), the PendSV handler.
PendSV ==
    /\ pendsv /\ panic = "none"
    /\ pendsv' = FALSE
    /\ Schedule(active, queued)
    /\ SwitchContext
    /\ Check(SwitchVerifies /\ ScheduleVerifies(active, queued), ScheduleFits(active, queued))
    /\ UNCHANGED <<masked, enabled, reaping, held, dead>>

\* isr_systick().
SysTick ==
    /\ enabled /\ ~pendsv /\ panic = "none"
    /\ pendsv' = TRUE
    /\ UNCHANGED <<active, queued, dangling, masked, stashed, enabled, panic, reaping, held, dead>>

-----------------------------------------------------------------------------
(* What threads do to the scheduler and to each other. *)

\* Scheduler::trigger(), in the last instructions before a switch.
Trigger == pendsv' = TRUE

\* Scheduler::add_thread().
AddThread(t) == queued' = Append(queued, t)
AddThreadFits == Len(queued) < QueueSize

\* Mutants: a thread that is not masked is queued again; nothing is queued.
WokenAlways(t) == Append(queued, t)
WokenNever(t) == queued

\* Thread::wakeup(), called on t by the running thread or by a handler.
Woken(t) == IF t \in masked THEN Append(queued, t) ELSE queued
WakeupFits(t) == t \in masked => AddThreadFits

\* syscall(), the SVC handler, for a call by the active thread: its context is
\* stashed, it is masked and queued for the thread h, if there is room, and h is
\* woken up.
SystemCall(h, room) ==
    /\ masked' = (masked \cup {active}) \ {h}
    /\ Schedule(NoThread, Woken(h))
    /\ SwitchContext
    /\ Check(SwitchVerifies /\ ScheduleVerifies(NoThread, Woken(h)), room /\ WakeupFits(h))
    /\ UNCHANGED <<pendsv, enabled>>

\* The dummy thread enables the scheduler and is never scheduled again.
EnableScheduler ==
    /\ Running(Dummy) /\ ~enabled
    /\ enabled' = TRUE
    /\ Trigger
    /\ UNCHANGED <<active, queued, dangling, masked, stashed, panic, reaping, held, dead>>

\* The fallback thread gives the scheduler another chance, again and again.
FallbackLoop ==
    /\ Running(Fallback)
    /\ Trigger
    /\ UNCHANGED <<active, queued, dangling, masked, stashed, enabled, panic, reaping, held, dead>>

\* The default thread has nothing to destroy.
DefaultIdle ==
    /\ Running(Default) /\ reaping = NoThread /\ dangling = <<>>
    /\ Trigger
    /\ UNCHANGED <<active, queued, dangling, masked, stashed, enabled, panic, reaping, held, dead>>

\* The default thread takes a dangling thread, with interrupts masked.
DefaultReap ==
    /\ Running(Default) /\ reaping = NoThread /\ dangling # <<>>
    /\ reaping' = Head(dangling)
    /\ dangling' = Tail(dangling)
    /\ UNCHANGED <<active, queued, masked, stashed, pendsv, enabled, panic, held, dead>>

\* Its destructor has run: the Thread object is gone.
Forget(t) ==
    /\ stashed' = stashed \ {t}
    /\ masked' = masked \ {t}
    /\ dead' = dead \ {t}

\* VERIFY(thread->refcount() == 1); thread.clear().
DefaultDestroy ==
    /\ Running(Default) /\ reaping # NoThread
    /\ Check(LastReference(reaping) /\ reaping # active, TRUE)
    /\ reaping' = NoThread
    /\ Forget(reaping)
    /\ UNCHANGED <<active, queued, dangling, pendsv, enabled, held>>

-----------------------------------------------------------------------------
(* What the rest of the kernel may do: the thread a runs kernel code that   *)
(* creates, wakes and blocks threads and copies references to them.         *)

Works(a) ==
    /\ Running(a)
    /\ a \notin {Fallback, Dummy}
    /\ a = Default => reaping # NoThread

\* A new thread is set up and queued.
Spawn(a, t) ==
    /\ Works(a) /\ ~Exists(t)
    /\ AddThread(t)
    /\ stashed' = stashed \cup {t}
    /\ Check(TRUE, AddThreadFits)
    /\ UNCHANGED <<active, dangling, masked, pendsv, enabled, reaping, held, dead>>

\* A new thread is set up, masked, and kept by its creator.
Construct(a, t) ==
    /\ Works(a) /\ ~Exists(t)
    /\ held' = held \cup {t}
    /\ masked' = masked \cup {t}
    /\ stashed' = stashed \cup {t}
    /\ UNCHANGED <<active, queued, dangling, pendsv, enabled, panic, reaping, dead>>

\* The running thread masks itself and leaves; somebody keeps it, in a queue
\* that may be full.
Block(a) ==
    /\ Works(a)
    /\ masked' = masked \cup {a}
    /\ held' = held \cup {a}
    /\ Trigger
    /\ \E fits \in BOOLEAN : Check(TRUE, fits)
    /\ UNCHANGED <<active, queued, dangling, stashed, enabled, reaping, dead>>

\* The running thread wakes another one that it has a reference to; it may drop
\* a reference to itself in the same step, as unlock() does.
Wakeup(a, t) ==
    /\ Works(a) /\ t \in held \ (Permanent \ {Default}) /\ t # a /\ t \notin dead
    /\ masked' = masked \ {t}
    /\ queued' = Woken(t)
    /\ held' \in {held, held \ ({a} \ Permanent)}
    /\ Check(TRUE, WakeupFits(t))
    /\ UNCHANGED <<active, dangling, stashed, pendsv, enabled, reaping, dead>>

\* A blocked thread is given back to the scheduler: first it is unmasked, ...
Unmask(a, t) ==
    /\ Works(a) /\ t \in (held \cap masked) \ (Permanent \cup dead) /\ t # a
    /\ masked' = masked \ {t}
    /\ UNCHANGED <<active, queued, dangling, stashed, pendsv, enabled, panic, reaping, held, dead>>

\* ... then queued, together with the reference.
GiveBack(a, t) ==
    /\ Works(a) /\ t \in held \ (Permanent \cup masked) /\ t # a /\ t \notin Range(queued)
    /\ AddThread(t)
    /\ held' = held \ {t}
    /\ Check(TRUE, AddThreadFits)
    /\ UNCHANGED <<active, dangling, masked, stashed, pendsv, enabled, reaping, dead>>

\* A system call of the running thread, served by some thread h.
MakeSystemCall(a, h) ==
    /\ Works(a) /\ a # Default
    /\ h \in held \ (Permanent \cup dead) /\ h # a
    /\ held' = held \cup {a}
    /\ \E room \in BOOLEAN : SystemCall(h, room)
    /\ UNCHANGED <<reaping, dead>>

\* The running thread stores a reference to itself.
TakeReference(a) ==
    /\ Works(a)
    /\ held' = held \cup {a}
    /\ UNCHANGED <<schedulerVars, reaping, dead>>

\* A reference to a thread that the scheduler still has is dropped.
DropReference(a, t) ==
    /\ Works(a) /\ t \in held \ Permanent
    /\ t \in Range(queued) \cup {a}
    /\ held' = held \ {t}
    /\ UNCHANGED <<schedulerVars, reaping, dead>>

\* The last reference to a thread that has died is dropped: it is destroyed.
DestroyDead(a, t) ==
    /\ Works(a) /\ t \in (held \cap dead) \ Permanent
    /\ held' = held \ {t}
    /\ Forget(t)
    /\ UNCHANGED <<active, queued, dangling, pendsv, enabled, panic, reaping>>

\* Thread::die().
Die(a) ==
    /\ Works(a) /\ a # Default
    /\ masked' = masked \cup {a}
    /\ dead' = dead \cup {a}
    /\ Trigger
    /\ UNCHANGED <<active, queued, dangling, stashed, enabled, panic, reaping, held>>

\* crash() does not return.
Crashed == panic # "none" /\ UNCHANGED vars

-----------------------------------------------------------------------------
\* loop() is about to leave for the dummy thread.
Init ==
    /\ active = Dummy
    /\ queued = <<Startup>>
    /\ dangling = <<>>
    /\ masked = {Dummy}
    /\ stashed = {Default, Fallback, Startup}
    /\ pendsv = FALSE
    /\ enabled = FALSE
    /\ reaping = NoThread
    /\ held = Permanent
    /\ dead = {}
    /\ panic = "none"

KernelStep(a) ==
    \/ Block(a) \/ TakeReference(a) \/ Die(a)
    \/ \E t \in Thread :
          \/ Spawn(a, t) \/ Construct(a, t)
          \/ Wakeup(a, t) \/ Unmask(a, t) \/ GiveBack(a, t) \/ MakeSystemCall(a, t)
          \/ DropReference(a, t) \/ DestroyDead(a, t)

Next ==
    \/ PendSV \/ SysTick
    \/ EnableScheduler \/ FallbackLoop
    \/ DefaultIdle \/ DefaultReap \/ DefaultDestroy
    \/ \E a \in Thread : KernelStep(a)
    \/ Crashed

Spec == Init /\ [][Next]_vars

-----------------------------------------------------------------------------
(* Properties *)

Ordinary == Thread \ {Default, Fallback}

TypeOK ==
    /\ active \in Thread
    /\ queued \in Seq(Thread) /\ dangling \in Seq(Thread)
    /\ masked \subseteq Thread /\ stashed \subseteq Thread
    /\ held \subseteq Thread /\ dead \subseteq Thread
    /\ reaping \in Thread \cup {NoThread}
    /\ pendsv \in BOOLEAN /\ enabled \in BOOLEAN
    /\ panic \in {"none", "verify", "overflow"}

\* No VERIFY of the scheduler, of stash_context(), of unstash_context() or of
\* the default thread ever fails, whatever the kernel does with its threads
\* (Scheduler.cpp:69, 147, 227, Thread.hpp:86, 92).
NoVerifyFails == panic # "verify"

\* schedule() never leaves a thread in two places: an ordinary thread is the
\* active one, or it is queued once, or it is dangling, or it is being
\* destroyed, but never two of these (Scheduler.cpp:53-75).
OnePlace ==
    \A t \in Ordinary :
        /\ Once(queued, t) /\ Once(dangling, t)
        /\ t = active => t \notin Range(queued) \cup Range(dangling) \cup {reaping}
        /\ t \in Range(queued) => t \notin Range(dangling) \cup {reaping}
        /\ t \in Range(dangling) => t # reaping

\* Only a thread that called die() is ever handed to the default thread for
\* destruction; a blocked thread, which is masked as well, is not
\* (Scheduler.cpp:60-66, Thread.hpp:24-29).
OnlyDeadThreadsReaped == Range(dangling) \cup ({reaping} \ {NoThread}) \subseteq dead

\* A thread that called die() and was switched away from is never resumed
\* (Thread.cpp:36-42).
DeadNeverRuns == active \in dead => pendsv

-----------------------------------------------------------------------------
(* The inductive invariant behind these properties *)

\* The three threads of loop() are always referenced, do not die, and the
\* fallback thread never blocks.
PermanentInv ==
    /\ Permanent \subseteq held
    /\ Permanent \cap dead = {}
    /\ Fallback \notin masked

\* Every thread but the active one has its context stashed.
StashInv ==
    /\ active \notin stashed
    /\ \A t \in Thread : Exists(t) /\ t # active => t \in stashed

\* An ordinary thread that is masked is not queued, and runs only until the
\* switch it asked for (or, the dummy thread, until it enables the scheduler).
MaskedInv ==
    /\ \A t \in Ordinary \cap masked : t \notin Range(queued)
    /\ active \in Ordinary \cap masked => pendsv \/ (active = Dummy /\ ~enabled)

\* A masked thread is either kept by somebody or dead, and it still exists.
KeptInv ==
    /\ dead \subseteq masked
    /\ \A t \in dead : Exists(t)
    /\ Ordinary \cap masked \subseteq held \cup dead

\* Nobody but the scheduler refers to a dangling thread.
DanglingInv ==
    /\ (Range(dangling) \cup {reaping}) \cap held = {}

Inv ==
    /\ TypeOK /\ NoVerifyFails /\ OnePlace /\ OnlyDeadThreadsReaped /\ DeadNeverRuns
    /\ PermanentInv /\ StashInv /\ MaskedInv /\ KeptInv /\ DanglingInv
=============================================================================
