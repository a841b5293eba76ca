------------------------------- MODULE Kernel -------------------------------
(***************************************************************************)
(* System calls and the heap together.  The thread of the SystemHandler    *)
(* allocates memory before it creates a worker, workers allocate while     *)
(* they execute a call, and the default thread releases memory when it     *)
(* destroys a thread; all of them lock malloc_mutex                        *)
(* (Kernel/GlobalMemoryAllocator.cpp) and may wait for it, while calls     *)
(* arrive and wake the thread of the SystemHandler.  KernelMutex leaves    *)
(* the default thread out of its lockers; its bodies of lock() and         *)
(* unlock() are used here without its assumptions and theorems.            *)
(***************************************************************************)
EXTENDS Naturals, Queues

CONSTANTS
    Thread, Default, Fallback, Dummy, Startup, NoThread, QueueSize,
    Handler, User, Worker, Call

VARIABLES
    active, queued, dangling, masked, stashed, pendsv, enabled, reaping, dead, panic,
    calls, taken, serves, r0, handlerAt, workerAt, userAt, startupAt, leaked,
    holding, waiting,   \* malloc_mutex
    heap                \* where a thread that uses the heap is: outside of it, returning from
                        \* lock(), inside, or done with what it does there before its next step

mutexVars == <<holding, waiting>>
callVars == <<calls, taken, serves, r0, handlerAt, workerAt, userAt, startupAt, leaked>>
vars == <<active, queued, dangling, masked, stashed, pendsv, enabled, reaping, dead, panic,
          callVars, mutexVars, heap>>

\* The threads that use the heap.
Allocator == {Default, Handler} \cup Worker

\* The mutex keeps threads as well.
Kept == leaked \cup ({holding} \ {NoThread}) \cup Range(waiting)

H == INSTANCE SystemHandler WITH leaked <- Kept
S == INSTANCE Scheduler WITH held <- H!Referenced
Mutex == INSTANCE KernelMutex WITH Locker <- Allocator, pc <- heap

-----------------------------------------------------------------------------
(* operator new and operator delete *)

\* Before its next step the thread executes code that uses the heap: ImmutableString::format()
\* and Thread::construct(), a system call, or ~Thread() with what it releases.  One use of the
\* heap stands for those in a row.
Allocates(t) ==
    /\ S!Running(t)
    /\ \/ t = Handler /\ handlerAt = "spawn"
       \/ t \in Worker /\ workerAt[t] = "syscall"
       \/ t = Default /\ reaping # NoThread

Lock(t) ==
    /\ Allocates(t) /\ heap[t] = "outside"
    /\ Mutex!Acquire(t)
    /\ heap' = [heap EXCEPT ![t] = "entering"]
    /\ UNCHANGED <<active, queued, dangling, stashed, enabled, reaping, dead, callVars>>

Enter(t) == Mutex!Enter(t) /\ UNCHANGED callVars

Unlock(t) ==
    /\ S!Running(t) /\ heap[t] = "inside"
    /\ Mutex!Release(t)
    /\ heap' = [heap EXCEPT ![t] = "done"]
    /\ UNCHANGED <<active, dangling, stashed, pendsv, enabled, reaping, dead, callVars>>

\* The next step of a thread that has used the heap.
Done(t) == heap[t] = "done" /\ heap' = [heap EXCEPT ![t] = "outside"]

\* A plain call may do without.
NotWithin(t) == heap[t] \in {"outside", "done"} /\ heap' = [heap EXCEPT ![t] = "outside"]

-----------------------------------------------------------------------------
(* The threads *)

SchedulerStep ==
    /\ UNCHANGED <<callVars, mutexVars, heap>>
    /\ S!PendSV \/ S!SysTick \/ S!EnableScheduler \/ S!FallbackLoop \/ S!DefaultIdle \/ S!Crashed

DefaultStep ==
    /\ UNCHANGED <<callVars, mutexVars>>
    /\ \/ S!DefaultReap /\ UNCHANGED heap
       \/ Done(Default) /\ S!DefaultDestroy

HandlerStep ==
    /\ UNCHANGED <<leaked, mutexVars>>
    /\ \/ (H!HandlerSleep \/ H!HandlerSeesCall \/ H!HandlerDequeue) /\ UNCHANGED heap
       \/ Done(Handler) /\ \E w \in Worker : H!HandlerSpawn(w)

WorkerStep(w) ==
    /\ UNCHANGED mutexVars
    /\ \/ UNCHANGED leaked /\ NotWithin(w) /\ H!WorkerSyscall(w)
       \/ UNCHANGED leaked /\ Done(w) /\ \E u \in User : H!WorkerPosixSpawn(w, u)
       \/ UNCHANGED <<leaked, heap>> /\ (H!WorkerAnswer(w) \/ H!WorkerUnmask(w) \/ H!WorkerAddThread(w))
       \/ /\ leaked' = leaked \cup ({serves[w]} \ {NoThread})
          /\ UNCHANGED heap
          /\ H!WorkerDie(w)

StartupStep ==
    /\ UNCHANGED <<leaked, mutexVars, heap>>
    /\ H!StartupInitialize \/ H!StartupDie \/ \E u \in User : H!StartupCreateShell(u)

UserCalls(u) ==
    /\ UNCHANGED <<leaked, mutexVars, heap>>
    /\ \E call \in Call : H!SystemCall(u, call)

Return(u) == UNCHANGED <<leaked, mutexVars, heap>> /\ H!Return(u)

HeapStep(t) == Lock(t) \/ Enter(t) \/ Unlock(t)

Init ==
    /\ holding = NoThread /\ waiting = <<>>
    /\ heap = [t \in Allocator |-> "outside"]
    /\ leaked = {}
    /\ H!Init

Next ==
    \/ SchedulerStep \/ DefaultStep \/ HandlerStep \/ StartupStep
    \/ \E w \in Worker : WorkerStep(w)
    \/ \E u \in User : UserCalls(u) \/ Return(u)
    \/ \E t \in Allocator : HeapStep(t)

Spec == Init /\ [][Next]_vars

\* As in SystemHandler, for the steps inside of the heap as well.
Fairness ==
    /\ WF_vars(SchedulerStep)
    /\ SF_vars(DefaultStep) /\ SF_vars(HandlerStep) /\ SF_vars(StartupStep)
    /\ \A w \in Worker : SF_vars(WorkerStep(w))
    /\ \A u \in User : SF_vars(Return(u))
    /\ \A t \in Allocator : SF_vars(HeapStep(t))

FairSpec == Spec /\ Fairness

-----------------------------------------------------------------------------
(* Properties *)

\* unlock() wakes another thread than the one that runs, as wakeup() verifies
\* (Thread.cpp:82), and no other assertion of the scheduler fails.
UnlockWakesAnother == panic # "verify"

\* While the default thread waits for the mutex the fallback thread gives the others the
\* opportunity to release it (Scheduler.cpp:152-163).
DefaultContinues ==
    Default \in Range(waiting) ~> Default \notin Range(waiting) \/ panic # "none"
=============================================================================
