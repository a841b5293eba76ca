--------------------------- MODULE SystemHandler ---------------------------
(***************************************************************************)
(* System calls (Kernel/SystemHandler.cpp).  The SVC handler masks the     *)
(* calling thread, queues it and wakes the thread of the SystemHandler.    *)
(* That thread creates a worker thread per call; the worker executes the   *)
(* call, stores the return value in the caller's r0, gives the caller back *)
(* to the scheduler and dies.  An exiting caller is not given back.        *)
(*                                                                         *)
(* Allocation never blocks here: malloc_mutex is free when it is needed.   *)
(***************************************************************************)
EXTENDS Naturals, Queues

CONSTANTS
    Thread, Default, Fallback, Dummy, Startup, NoThread, QueueSize,
    Handler,        \* SystemHandler::m_thread
    User,           \* the threads of processes
    Worker,         \* the threads that execute system calls
    Call            \* the system calls that processes make: posix_spawn creates a
                    \* process, exit does not return, the others are plain

ASSUME SystemHandlerAssumption ==
    /\ {Default, Fallback, Dummy, Startup} \subseteq Thread
    /\ Default # Fallback
    /\ Dummy \notin {Default, Fallback}
    /\ Startup \notin {Default, Fallback, Dummy}
    /\ NoThread \notin Thread
    /\ QueueSize \in Nat \ {0}
    /\ Handler \in Thread \ {Default, Fallback, Dummy, Startup}
    /\ User \subseteq Thread \ {Default, Fallback, Dummy, Startup, Handler}
    /\ Worker \subseteq Thread \ {Default, Fallback, Dummy, Startup, Handler}
    /\ User \cap Worker = {}
    /\ Call \subseteq {"plain", "posix_spawn", "exit"}

VARIABLES
    active, queued, dangling, masked, stashed, pendsv, enabled, reaping, dead, panic,
    calls,          \* m_waiting_threads: the callers nobody has taken
    taken,          \* the local variable of handle_next_waiting_thread()
    serves,         \* the caller that the closure of each worker refers to
    r0,             \* each user's r0: the call it makes, or what it returned
    handlerAt, workerAt, userAt, startupAt,     \* where these threads are
    leaked          \* the callers whose last reference was in a dead worker's closure

callVars == <<calls, taken, serves, r0, handlerAt, workerAt, userAt, startupAt, leaked>>
vars == <<active, queued, dangling, masked, stashed, pendsv, enabled, reaping, dead, panic,
          callVars>>

\* Mutant: handle_next_waiting_thread() keeps a plain pointer.
ReferencedButTaken ==
    {Default, Fallback, Dummy} \cup {t \in {Handler} : startupAt # "initialize"}
        \cup Range(calls) \cup ({serves[w] : w \in Worker} \ {NoThread}) \cup leaked

\* The references to threads outside the scheduler.
Referenced ==
    {Default, Fallback, Dummy} \cup {t \in {Handler} : startupAt # "initialize"}
        \cup Range(calls) \cup ({taken} \ {NoThread})
        \cup ({serves[w] : w \in Worker} \ {NoThread}) \cup leaked

S == INSTANCE Scheduler WITH held <- Referenced

-----------------------------------------------------------------------------
(* A user thread *)

\* A bound on the processes: posix_spawn finds a thread that was not used yet.
EnoughThreads ==
    \E u \in User : userAt[u] = "new" /\ \A v \in User : r0[v] # "posix_spawn"

\* svc: syscall() in SystemHandler.cpp with notify_worker_thread().
SystemCall(u, call) ==
    /\ S!Running(u) /\ userAt[u] = "user"
    /\ call = "posix_spawn" => EnoughThreads
    /\ r0' = [r0 EXCEPT ![u] = call]
    /\ calls' = Append(calls, u)
    /\ userAt' = [userAt EXCEPT ![u] = "svc"]
    /\ S!SystemCall(Handler, Len(calls) < QueueSize)
    /\ UNCHANGED <<taken, serves, handlerAt, workerAt, startupAt, leaked, reaping, dead>>

\* The instruction after svc, with the answer in r0.
Return(u) ==
    /\ S!Running(u) /\ userAt[u] = "svc"
    /\ userAt' = [userAt EXCEPT ![u] = "user"]
    /\ UNCHANGED <<active, queued, dangling, masked, stashed, pendsv, enabled, reaping, dead, panic,
                   calls, taken, serves, r0, handlerAt, workerAt, startupAt, leaked>>

-----------------------------------------------------------------------------
(* The thread of the SystemHandler *)

HandlerRuns(at) == S!Running(Handler) /\ handlerAt = at

\* It checks the queue and goes to sleep with interrupts disabled.
HandlerSleep ==
    /\ HandlerRuns("check") /\ calls = <<>>
    /\ masked' = masked \cup {Handler}
    /\ S!Trigger
    /\ UNCHANGED <<active, queued, dangling, stashed, enabled, reaping, dead, panic, callVars>>

HandlerSeesCall ==
    /\ HandlerRuns("check") /\ calls # <<>>
    /\ handlerAt' = "dequeue"
    /\ UNCHANGED <<active, queued, dangling, masked, stashed, pendsv, enabled, reaping, dead, panic,
                   calls, taken, serves, r0, workerAt, userAt, startupAt, leaked>>

\* Mutant: front() instead of dequeue().
HandlerFront ==
    /\ HandlerRuns("dequeue") /\ calls # <<>>
    /\ taken' = Head(calls)
    /\ handlerAt' = "spawn"
    /\ UNCHANGED <<active, queued, dangling, masked, stashed, pendsv, enabled, reaping, dead, panic,
                   calls, serves, r0, workerAt, userAt, startupAt, leaked>>

HandlerDequeue ==
    /\ HandlerRuns("dequeue") /\ calls # <<>>
    /\ taken' = Head(calls)
    /\ calls' = Tail(calls)
    /\ handlerAt' = "spawn"
    /\ UNCHANGED <<active, queued, dangling, masked, stashed, pendsv, enabled, reaping, dead, panic,
                   serves, r0, workerAt, userAt, startupAt, leaked>>

\* The caller moves into the closure of a new worker, which is queued.
HandlerSpawn(w) ==
    /\ HandlerRuns("spawn")
    /\ serves' = [serves EXCEPT ![w] = taken]
    /\ taken' = NoThread
    /\ handlerAt' = "check"
    /\ workerAt' = [workerAt EXCEPT ![w] = "syscall"]
    /\ UNCHANGED <<calls, r0, userAt, startupAt, leaked>>
    /\ S!Spawn(Handler, w)

-----------------------------------------------------------------------------
(* A worker *)

WorkerRuns(w, at) == S!Running(w) /\ workerAt[w] = at
WorkerGoes(w, to) == workerAt' = [workerAt EXCEPT ![w] = to]

\* Thread::syscall() for a call that needs no other thread.
WorkerSyscall(w) ==
    /\ WorkerRuns(w, "syscall") /\ r0[serves[w]] # "posix_spawn"
    /\ WorkerGoes(w, "answer")
    /\ UNCHANGED <<active, queued, dangling, masked, stashed, pendsv, enabled, reaping, dead, panic,
                   calls, taken, serves, r0, handlerAt, userAt, startupAt, leaked>>

\* sys$posix_spawn() with Process::create(): a new user thread is queued.
WorkerPosixSpawn(w, u) ==
    /\ WorkerRuns(w, "syscall") /\ r0[serves[w]] = "posix_spawn"
    /\ userAt[u] = "new"
    /\ userAt' = [userAt EXCEPT ![u] = "user"]
    /\ WorkerGoes(w, "answer")
    /\ UNCHANGED <<calls, taken, serves, r0, handlerAt, startupAt, leaked>>
    /\ S!Spawn(w, u)

\* Mutant: r0 is overwritten before the decision whether to return.
WorkerAnswerFirst(w) ==
    /\ WorkerRuns(w, "answer")
    /\ r0' = [r0 EXCEPT ![serves[w]] = "answer"]
    /\ WorkerGoes(w, "unmask")
    /\ UNCHANGED <<active, queued, dangling, masked, stashed, pendsv, enabled, reaping, dead, panic,
                   calls, taken, serves, handlerAt, userAt, startupAt, leaked>>

\* The return value is stored in r0 after the decision whether to return.  A
\* worker whose caller exits ends its closure without giving the caller back.
WorkerAnswer(w) ==
    /\ WorkerRuns(w, "answer")
    /\ r0' = [r0 EXCEPT ![serves[w]] = "answer"]
    /\ \/ r0[serves[w]] # "exit" /\ WorkerGoes(w, "unmask") /\ UNCHANGED panic
       \/ r0[serves[w]] = "exit" /\ WorkerGoes(w, "die") /\ S!Check(serves[w] \in masked, TRUE)
    /\ UNCHANGED <<active, queued, dangling, masked, stashed, pendsv, enabled, reaping, dead,
                   calls, taken, serves, handlerAt, userAt, startupAt, leaked>>

WorkerUnmask(w) ==
    /\ WorkerRuns(w, "unmask")
    /\ masked' = masked \ {serves[w]}
    /\ WorkerGoes(w, "add_thread")
    /\ UNCHANGED <<active, queued, dangling, stashed, pendsv, enabled, reaping, dead, panic,
                   calls, taken, serves, r0, handlerAt, userAt, startupAt, leaked>>

WorkerAddThread(w) ==
    /\ WorkerRuns(w, "add_thread")
    /\ S!AddThread(serves[w])
    /\ S!Check(TRUE, S!AddThreadFits)
    /\ serves' = [serves EXCEPT ![w] = NoThread]
    /\ WorkerGoes(w, "die")
    /\ UNCHANGED <<active, dangling, masked, stashed, pendsv, enabled, reaping, dead,
                   calls, taken, r0, handlerAt, userAt, startupAt, leaked>>

\* die() does not return, so the closure, which may still refer to the caller,
\* is never destructed.
WorkerDie(w) ==
    /\ WorkerRuns(w, "die")
    /\ leaked' = leaked \cup ({serves[w]} \ {NoThread})
    /\ serves' = [serves EXCEPT ![w] = NoThread]
    /\ UNCHANGED <<calls, taken, r0, handlerAt, workerAt, userAt, startupAt>>
    /\ S!Die(w)

-----------------------------------------------------------------------------
(* boot_with_scheduler() *)

\* The constructor of SystemHandler: its thread is created masked.
StartupInitialize ==
    /\ S!Running(Startup) /\ startupAt = "initialize"
    /\ startupAt' = "create_shell_process"
    /\ UNCHANGED <<calls, taken, serves, r0, handlerAt, workerAt, userAt, leaked>>
    /\ S!Construct(Startup, Handler)

StartupCreateShell(u) ==
    /\ S!Running(Startup) /\ startupAt = "create_shell_process"
    /\ userAt[u] = "new"
    /\ userAt' = [userAt EXCEPT ![u] = "user"]
    /\ startupAt' = "die"
    /\ UNCHANGED <<calls, taken, serves, r0, handlerAt, workerAt, leaked>>
    /\ S!Spawn(Startup, u)

StartupDie ==
    /\ S!Running(Startup) /\ startupAt = "die"
    /\ UNCHANGED callVars
    /\ S!Die(Startup)

-----------------------------------------------------------------------------
Init ==
    /\ calls = <<>>
    /\ taken = NoThread
    /\ serves = [w \in Worker |-> NoThread]
    /\ r0 = [u \in User |-> "answer"]
    /\ handlerAt = "check"
    /\ workerAt = [w \in Worker |-> "die"]
    /\ userAt = [u \in User |-> "new"]
    /\ startupAt = "initialize"
    /\ leaked = {}
    /\ S!Init

\* The exceptions, the threads that only ask for a switch, and the end.
SchedulerStep ==
    /\ UNCHANGED callVars
    /\ S!PendSV \/ S!SysTick \/ S!EnableScheduler \/ S!DefaultIdle \/ S!Crashed

DefaultStep == UNCHANGED callVars /\ (S!DefaultReap \/ S!DefaultDestroy)

HandlerStep ==
    HandlerSleep \/ HandlerSeesCall \/ HandlerDequeue \/ \E w \in Worker : HandlerSpawn(w)

WorkerStep(w) ==
    \/ WorkerSyscall(w) \/ WorkerAnswer(w) \/ WorkerUnmask(w) \/ WorkerAddThread(w) \/ WorkerDie(w)
    \/ \E u \in User : WorkerPosixSpawn(w, u)

StartupStep == StartupInitialize \/ StartupDie \/ \E u \in User : StartupCreateShell(u)

UserCalls(u) == \E call \in Call : SystemCall(u, call)

Next ==
    \/ SchedulerStep \/ DefaultStep \/ HandlerStep \/ StartupStep
    \/ \E w \in Worker : WorkerStep(w)
    \/ \E u \in User : UserCalls(u) \/ Return(u)

Spec == Init /\ [][Next]_vars

\* A pending exception is taken, and a thread that is scheduled again and again
\* makes progress.  Nothing makes a user thread call the system.
Fairness ==
    /\ WF_vars(SchedulerStep)
    /\ SF_vars(DefaultStep) /\ SF_vars(HandlerStep) /\ SF_vars(StartupStep)
    /\ \A w \in Worker : SF_vars(WorkerStep(w))
    /\ \A u \in User : SF_vars(Return(u))

FairSpec == Spec /\ Fairness

-----------------------------------------------------------------------------
(* Properties *)

TypeOK ==
    /\ S!TypeOK
    /\ calls \in Seq(User)
    /\ taken \in User \cup {NoThread}
    /\ serves \in [Worker -> User \cup {NoThread}]
    /\ r0 \in [User -> Call \cup {"answer"}]
    /\ handlerAt \in {"check", "dequeue", "spawn"}
    /\ workerAt \in [Worker -> {"syscall", "answer", "unmask", "add_thread", "die"}]
    /\ userAt \in [User -> {"new", "user", "svc"}]
    /\ startupAt \in {"initialize", "create_shell_process", "die"}
    /\ leaked \subseteq User

\* A caller without an answer is in the hands of one thread and of nobody else:
\* it is queued for the handler, or taken, or served by one worker, and until
\* the worker unmasks it the scheduler does not touch it (SystemHandler.cpp:27-67).
Servants(u) == {w \in Worker : serves[w] = u}
CallerHasOneServant ==
    \A u \in User :
        /\ u \in Range(calls) => Servants(u) = {} /\ taken # u /\ Once(calls, u)
        /\ u = taken => Servants(u) = {}
        /\ \A w, x \in Servants(u) : w = x
        /\ userAt[u] = "svc" /\ r0[u] # "answer" =>
              /\ u \in Range(calls) \cup {taken} \/ Servants(u) # {}
              /\ u \in masked /\ u \notin Range(queued) \cup {active}

\* A system call is executed once, and the caller continues afterwards and only
\* then; after exit it never does (SystemHandler.cpp:49-67, Thread.cpp:325-339).
ServedIn(u, at) == \E w \in Servants(u) : workerAt[w] = at
Status ==
    [u \in User |->
        IF userAt[u] # "svc" THEN [at |-> "idle", call |-> "none"]
        ELSE IF r0[u] # "answer"
        THEN [at |-> IF ServedIn(u, "answer") THEN "executed" ELSE "requested", call |-> r0[u]]
        ELSE [at |-> IF u \in leaked \/ ServedIn(u, "die") THEN "gone" ELSE "answered",
              call |-> "none"]]

Promise == INSTANCE SystemCalls WITH status <- Status
ImplementsSystemCalls == Promise!Spec

\* System calls use the scheduler as it allows, so that its invariants hold.
ImplementsScheduler == S!Spec

\* Every call but exit returns, unless the machine stops
\* (SystemHandler.cpp:16-25, 57-63).
EveryCallReturns ==
    \A u \in User :
        userAt[u] = "svc" /\ r0[u] \in {"plain", "posix_spawn"}
            ~> userAt[u] = "user" \/ panic # "none"

\* The default thread gets round to every worker that died, so that its stack can
\* be used again (Scheduler.cpp:60-66, 122-150).
WorkersAreDestroyed ==
    \A w \in Worker : w \in dead ~> ~S!Exists(w) \/ panic # "none"

-----------------------------------------------------------------------------
(* The inductive invariant behind the safety properties *)

\* The callers that wait for somebody to execute, to answer or to release them.
InHand == Range(calls) \cup ({taken} \ {NoThread}) \cup ({serves[w] : w \in Worker} \ {NoThread})

\* Nothing calls the system before it is there, and only the threads of the
\* kernel die.
StartupInv ==
    /\ startupAt = "initialize" => ~S!Exists(Handler) /\ \A u \in User : userAt[u] = "new"
    /\ dead \subseteq Worker \cup {Startup}

HandlerInv == handlerAt = "spawn" <=> taken # NoThread

\* A worker lives as long as it refers to a caller, and it refers to one until it
\* gave it back.
WorkerInv ==
    \A w \in Worker :
        /\ serves[w] # NoThread => S!Exists(w) /\ w \notin dead
        /\ workerAt[w] # "die" => serves[w] # NoThread

\* A caller is in one place only.
PlaceInv ==
    \A u \in User :
        /\ Once(calls, u)
        /\ u \in Range(calls) => Servants(u) = {} /\ taken # u
        /\ u = taken => Servants(u) = {}
        /\ \A w, x \in Servants(u) : w = x
        /\ u \in leaked => u \notin InHand

\* A caller does not run, and the scheduler does not have it; it is masked until
\* its worker is about to give it back.
BlockedInv ==
    \A u \in InHand \cup leaked :
        /\ userAt[u] = "svc" /\ u \notin Range(queued) \cup {active}
        /\ u \in masked <=> ~ServedIn(u, "add_thread")

\* r0 is overwritten with the answer exactly once, after the call was executed.
AnswerInv ==
    /\ \A u \in User : userAt[u] = "svc" /\ r0[u] # "answer" => u \in InHand
    /\ \A u \in Range(calls) \cup ({taken} \ {NoThread}) : r0[u] # "answer"
    /\ \A u \in leaked : r0[u] = "answer"
    /\ \A w \in Worker : serves[w] # NoThread =>
           (r0[serves[w]] # "answer" <=> workerAt[w] \in {"syscall", "answer"})

Inv ==
    /\ TypeOK /\ S!Inv
    /\ StartupInv /\ HandlerInv /\ WorkerInv /\ PlaceInv /\ BlockedInv /\ AnswerInv
=============================================================================
