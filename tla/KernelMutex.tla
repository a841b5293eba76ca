---------------------------- MODULE KernelMutex ----------------------------
(***************************************************************************)
(* KernelMutex (Kernel/KernelMutex.hpp) on top of the scheduler: lock()    *)
(* and unlock() run with interrupts masked, a thread that finds the mutex  *)
(* taken masks itself and is queued in the mutex, and unlock() hands the   *)
(* mutex over to the first thread in that queue before it wakes it.        *)
(*                                                                         *)
(* The lockers are ordinary kernel threads: they are created, use the      *)
(* mutex and die, and while they wait nobody but unlock() wakes them.      *)
(***************************************************************************)
EXTENDS Naturals, Queues

CONSTANTS
    Thread, Default, Fallback, Dummy, Startup, NoThread, QueueSize,
    Locker          \* the threads that use the mutex

ASSUME KernelMutexAssumption ==
    /\ {Default, Fallback, Dummy, Startup} \subseteq Thread
    /\ Default # Fallback
    /\ Dummy \notin {Default, Fallback}
    /\ Startup \notin {Default, Fallback, Dummy}
    /\ NoThread \notin Thread
    /\ QueueSize \in Nat \ {0}
    /\ Locker \subseteq Thread \ {Default, Fallback, Dummy}

VARIABLES
    active, queued, dangling, masked, stashed, pendsv, enabled, reaping, dead, panic,
    holding,        \* m_holding_thread
    waiting,        \* m_waiting_threads
    pc              \* where each locker is: outside, returning from lock(), inside

mutexVars == <<holding, waiting>>
vars == <<active, queued, dangling, masked, stashed, pendsv, enabled, reaping, dead, panic,
          holding, waiting, pc>>

\* Mutant: the mutex keeps plain pointers to the waiting threads.
ReferencedByHolding == {Default, Fallback, Dummy} \cup ({holding} \ {NoThread})

\* The references to threads outside the scheduler: the locals and members of
\* loop(), and those of the mutex.
Referenced == {Default, Fallback, Dummy} \cup ({holding} \ {NoThread}) \cup Range(waiting)

S == INSTANCE Scheduler WITH held <- Referenced

-----------------------------------------------------------------------------
(* The bodies of lock() and unlock(), executed by thread t *)

Acquire(t) ==
    \/ /\ holding = NoThread
       /\ holding' = t
       /\ UNCHANGED <<waiting, masked, pendsv, panic>>
    \/ /\ holding # NoThread
       /\ masked' = masked \cup {t}
       /\ waiting' = Append(waiting, t)
       /\ S!Trigger
       /\ S!Check(TRUE, Len(waiting) < QueueSize)
       /\ UNCHANGED holding

\* The waiting thread w gets the mutex, or what is left of it, and is woken up.
HandOff(t, w, owner, rest) ==
    /\ waiting # <<>>
    /\ holding' = owner
    /\ waiting' = rest
    /\ masked' = masked \ {w}
    /\ queued' = S!Woken(w)
    /\ S!Check(w # t, S!WakeupFits(w))

Free ==
    /\ waiting = <<>>
    /\ holding' = NoThread
    /\ UNCHANGED <<waiting, masked, queued, panic>>

\* Mutants: the mutex is free when the waiting thread is woken; the last one to
\* arrive gets it; nobody is woken.
ReleaseThenWake(t) == Free \/ HandOff(t, Head(waiting), NoThread, Tail(waiting))
ReleaseToLast(t) ==
    LET n == Len(waiting) IN Free \/ HandOff(t, waiting[n], waiting[n], SubSeq(waiting, 1, n - 1))
ReleaseSilently(t) ==
    \/ Free
    \/ /\ waiting # <<>>
       /\ holding' = Head(waiting)
       /\ waiting' = Tail(waiting)
       /\ UNCHANGED <<masked, queued, panic>>

\* wakeup() verifies that its target is not the active thread.
Release(t) == Free \/ HandOff(t, Head(waiting), Head(waiting), Tail(waiting))

-----------------------------------------------------------------------------
(* A locker *)

Lock(t) ==
    /\ S!Running(t) /\ pc[t] = "outside"
    /\ Acquire(t)
    /\ pc' = [pc EXCEPT ![t] = "entering"]
    /\ UNCHANGED <<active, queued, dangling, stashed, enabled, reaping, dead>>

\* lock() returns: nothing is checked when a thread that had to wait continues.
Enter(t) ==
    /\ S!Running(t) /\ pc[t] = "entering"
    /\ pc' = [pc EXCEPT ![t] = "inside"]
    /\ UNCHANGED <<active, queued, dangling, masked, stashed, pendsv, enabled, reaping, dead,
                   panic, mutexVars>>

Unlock(t) ==
    /\ S!Running(t) /\ pc[t] = "inside"
    /\ Release(t)
    /\ pc' = [pc EXCEPT ![t] = "outside"]
    /\ UNCHANGED <<active, dangling, stashed, pendsv, enabled, reaping, dead>>

\* Threads come and go.
Create(t, u) == pc[t] = "outside" /\ UNCHANGED <<mutexVars, pc>> /\ S!Spawn(t, u)
Exit(t) == pc[t] = "outside" /\ UNCHANGED <<mutexVars, pc>> /\ S!Die(t)

-----------------------------------------------------------------------------
Init ==
    /\ holding = NoThread
    /\ waiting = <<>>
    /\ pc = [t \in Locker |-> "outside"]
    /\ S!Init

\* The exceptions, the threads that only ask for a switch, and the end.
SchedulerStep ==
    /\ UNCHANGED <<mutexVars, pc>>
    /\ \/ S!PendSV \/ S!SysTick
       \/ S!EnableScheduler \/ S!FallbackLoop \/ S!DefaultIdle
       \/ S!Crashed

DefaultStep == UNCHANGED <<mutexVars, pc>> /\ (S!DefaultReap \/ S!DefaultDestroy)

LockerStep(t) ==
    \/ Lock(t) \/ Enter(t) \/ Unlock(t)
    \/ Exit(t)
    \/ \E u \in Locker : Create(t, u)

Next == SchedulerStep \/ DefaultStep \/ \E t \in Locker : LockerStep(t)

Spec == Init /\ [][Next]_vars

\* A pending exception is taken, and a thread that is scheduled again and again
\* makes progress: a time slice is about a million cycles, far more than any of
\* these steps (Scheduler.cpp:36-39).  Nothing makes a locker die or lock.
Fairness ==
    /\ WF_vars(SchedulerStep)
    /\ SF_vars(DefaultStep)
    /\ \A t \in Locker : SF_vars(Enter(t)) /\ SF_vars(Unlock(t))

FairSpec == Spec /\ Fairness

-----------------------------------------------------------------------------
(* Properties *)

TypeOK ==
    /\ S!TypeOK
    /\ holding \in Locker \cup {NoThread}
    /\ waiting \in Seq(Locker)
    /\ pc \in [Locker -> {"outside", "entering", "inside"}]

\* Two threads are never inside the critical section (KernelMutex.hpp:31-86).
MutualExclusion ==
    \A t, u \in Locker : pc[t] = "inside" /\ pc[u] = "inside" => t = u

\* Nobody waits for a mutex that is free, and a thread that waits is out of the
\* scheduler's reach, so that only unlock() brings it back (KernelMutex.hpp:50-53).
WaitersBlocked ==
    /\ holding = NoThread => waiting = <<>>
    /\ \A t \in Range(waiting) : t \in masked /\ t \notin Range(queued) /\ t \notin dead

\* The mutex is a fair one: it goes to the waiting threads in the order of their
\* arrival, with no gap in which another thread can take it (KernelMutex.hpp:71-80).
Line == IF holding = NoThread THEN <<>> ELSE <<holding>> \o waiting
Inside == {t \in Locker : pc[t] = "inside"}

Fair == INSTANCE FairMutex WITH line <- Line, inside <- Inside
ImplementsFairMutex == Fair!Spec

\* The lockers are users of the scheduler as Scheduler describes them.
ImplementsScheduler == S!Spec

\* A thread that calls lock() eventually holds the mutex, unless the machine
\* stops: the wakeup is not lost between set_masked_from_scheduler() and the
\* switch (KernelMutex.hpp:51-53, 71-80).
EveryLockReturns ==
    \A t \in Locker : pc[t] = "entering" ~> pc[t] = "inside" \/ panic # "none"

-----------------------------------------------------------------------------
(* The inductive invariant behind MutualExclusion *)

\* The line has no gaps and nobody is in it twice.
LineInv ==
    /\ holding \notin Range(waiting)
    /\ \A t \in Locker : Once(waiting, t)

\* A locker is in the line from lock() to unlock(), and first in it when it is
\* inside; it does not die before unlock().
LockerInv ==
    \A t \in Locker :
        /\ pc[t] = "inside" => holding = t
        /\ pc[t] = "entering" => t \in {holding} \cup Range(waiting)
        /\ pc[t] = "outside" => t \notin {holding} \cup Range(waiting)
        /\ t \in dead => pc[t] = "outside"

Inv == TypeOK /\ S!Inv /\ WaitersBlocked /\ LineInv /\ LockerInv
=============================================================================
