------------------------------ MODULE Process ------------------------------
(***************************************************************************)
(* How processes are created, terminate and are waited for: the system     *)
(* calls posix_spawn, exit and wait (Kernel/Threads/Thread.cpp), with      *)
(* Process::create (Kernel/Process.cpp).  Each call runs in a worker       *)
(* thread of its own.  The workers of different processes are preempted at *)
(* any instruction, and nothing protects m_terminated_children ("FIXME:    *)
(* Syncronization").  The kernel is built with -O0, so an action is one    *)
(* access to shared memory; ++ and -- are a load and a store.              *)
(***************************************************************************)
EXTENDS Integers, FiniteSets

CONSTANTS
    Process,
    Shell,          \* the process that boot_with_scheduler() creates
    NoProcess,      \* the null pointer, and the content of a fresh slot
    Size,           \* the capacity of m_terminated_children
    MaxLive         \* bound: how many children a program starts before it waits

ProcessAssumption ==
    /\ Shell \in Process /\ NoProcess \notin Process
    /\ Size \in Nat \ {0} /\ MaxLive \in Nat

VARIABLES
    m_parent,
    m_offset, m_size, m_data,   \* m_terminated_children of each process
    at,             \* where each process, or the worker of its system call, is
    local,          \* new_process in posix_spawn, terminated_child_process in wait
    register,       \* a loaded number
    reaped,         \* the processes that a wait() has returned
    crashed         \* an ASSERT failed

queueVars == <<m_offset, m_size, m_data>>
vars == <<m_parent, queueVars, at, local, register, reaped, crashed>>

At(p, place) == at[p] = place /\ ~crashed
Go(p, place) == at' = [at EXCEPT ![p] = place]

\* ASSERT(ok)
Assert(p, ok, next) ==
    /\ crashed' = ~ok
    /\ Go(p, next)
    /\ UNCHANGED <<m_parent, queueVars, local, register, reaped>>

Load(p, value, next) ==
    /\ register' = [register EXCEPT ![p] = value]
    /\ Go(p, next)
    /\ UNCHANGED <<m_parent, queueVars, local, reaped, crashed>>

-----------------------------------------------------------------------------
(* sys$posix_spawn() *)

Live(p) == {c \in Process : m_parent[c] = p /\ c \notin reaped}

\* Process::create() queues the thread of the new process before it returns.
PosixSpawn(p, c) ==
    /\ At(p, "user") /\ at[c] = "new"
    /\ Cardinality(Live(p)) < MaxLive
    /\ at' = [at EXCEPT ![p] = "set_parent", ![c] = "user"]
    /\ local' = [local EXCEPT ![p] = c]
    /\ UNCHANGED <<m_parent, queueVars, register, reaped, crashed>>

\* new_process.m_parent = m_process
SetParent(p) ==
    /\ At(p, "set_parent")
    /\ m_parent' = [m_parent EXCEPT ![local[p]] = p]
    /\ Go(p, "user")
    /\ UNCHANGED <<queueVars, local, register, reaped, crashed>>

-----------------------------------------------------------------------------
(* sys$exit(): enqueue() on the queue of the parent *)

\* A process whose m_parent is not set, or not set yet, reports to nobody.
Exit(p) ==
    /\ At(p, "user")
    /\ Go(p, IF m_parent[p] = NoProcess THEN "unreported" ELSE "room")
    /\ UNCHANGED <<m_parent, queueVars, local, register, reaped, crashed>>

\* (The second ASSERT of enqueue_impl(), m_offset < Size, reads an offset that is
\* only ever stored modulo Size.)
EnqueueRoom(p) == At(p, "room") /\ Assert(p, m_size[m_parent[p]] < Size, "slot")
EnqueueSlot(p) == At(p, "slot") /\ Load(p, m_offset[m_parent[p]], "write")

\* The slot behind that at an offset, and the slot of the oldest of the elements before it.
Following(offset) == (offset + 1) % Size
FrontSlot(offset, size) == (offset - size + Size) % Size

\* Mutant: the next slot.
WriteNext(p) ==
    /\ At(p, "write")
    /\ m_data' = [m_data EXCEPT ![m_parent[p]][Following(register[p])] = p]
    /\ Go(p, "offset")
    /\ UNCHANGED <<m_parent, m_offset, m_size, local, register, reaped, crashed>>

EnqueueWrite(p) ==
    /\ At(p, "write")
    /\ m_data' = [m_data EXCEPT ![m_parent[p]][register[p]] = p]
    /\ Go(p, "offset")
    /\ UNCHANGED <<m_parent, m_offset, m_size, local, register, reaped, crashed>>

EnqueueOffset(p) == At(p, "offset") /\ Load(p, m_offset[m_parent[p]], "advance")

EnqueueAdvance(p) ==
    /\ At(p, "advance")
    /\ m_offset' = [m_offset EXCEPT ![m_parent[p]] = Following(register[p])]
    /\ Go(p, "size")
    /\ UNCHANGED <<m_parent, m_size, m_data, local, register, reaped, crashed>>

EnqueueSize(p) == At(p, "size") /\ Load(p, m_size[m_parent[p]], "count")

\* Mutant: nothing is counted.
CountNothing(p) ==
    /\ At(p, "count")
    /\ Go(p, "back")
    /\ UNCHANGED <<m_parent, queueVars, local, register, reaped, crashed>>

EnqueueCount(p) ==
    /\ At(p, "count")
    /\ m_size' = [m_size EXCEPT ![m_parent[p]] = register[p] + 1]
    /\ Go(p, "back")
    /\ UNCHANGED <<m_parent, m_offset, m_data, local, register, reaped, crashed>>

\* back(), whose result is not used, and the last statement of sys$exit(), assert
\* that the queue is not empty.
EnqueueBack(p) == At(p, "back") /\ Assert(p, m_size[m_parent[p]] > 0, "assert")
ExitAssert(p) == At(p, "assert") /\ Assert(p, m_size[m_parent[p]] > 0, "gone")

-----------------------------------------------------------------------------
(* sys$wait(): polls the size, then dequeue() *)

Wait(p) ==
    /\ At(p, "user")
    /\ Go(p, "wait")
    /\ UNCHANGED <<m_parent, queueVars, local, register, reaped, crashed>>

\* Mutant: one element does not count.
WaitPollForTwo(p) ==
    /\ At(p, "wait") /\ m_size[p] > 1
    /\ Go(p, "front")
    /\ UNCHANGED <<m_parent, queueVars, local, register, reaped, crashed>>

WaitPoll(p) ==
    /\ At(p, "wait") /\ m_size[p] > 0
    /\ Go(p, "front")
    /\ UNCHANGED <<m_parent, queueVars, local, register, reaped, crashed>>

DequeueFront(p) == At(p, "front") /\ Assert(p, m_size[p] > 0, "load_offset")
DequeueOffset(p) == At(p, "load_offset") /\ Load(p, m_offset[p], "load_front")
DequeueSlot(p) == At(p, "load_front") /\ Load(p, FrontSlot(register[p], m_size[p]), "take")

DequeueTake(p) ==
    /\ At(p, "take")
    /\ local' = [local EXCEPT ![p] = m_data[p][register[p]]]
    /\ Go(p, "load_size")
    /\ UNCHANGED <<m_parent, queueVars, register, reaped, crashed>>

DequeueSize(p) == At(p, "load_size") /\ Load(p, m_size[p], "return")

\* The element is no longer counted, and its process id is returned.
DequeueReturn(p) ==
    /\ At(p, "return")
    /\ m_size' = [m_size EXCEPT ![p] = register[p] - 1]
    /\ reaped' = reaped \cup {local[p]}
    /\ Go(p, "user")
    /\ UNCHANGED <<m_parent, m_offset, m_data, local, register, crashed>>

-----------------------------------------------------------------------------
Init ==
    /\ m_parent = [p \in Process |-> NoProcess]
    /\ m_offset = [p \in Process |-> 0]
    /\ m_size = [p \in Process |-> 0]
    /\ m_data = [p \in Process |-> [i \in 0 .. Size - 1 |-> NoProcess]]
    /\ at = [p \in Process |-> IF p = Shell THEN "user" ELSE "new"]
    /\ local = [p \in Process |-> NoProcess]
    /\ register = [p \in Process |-> 0]
    /\ reaped = {}
    /\ crashed = FALSE

\* What the program of p asks for.
Program(p) == Exit(p) \/ Wait(p) \/ \E c \in Process : PosixSpawn(p, c)

\* The worker that serves it.
Kernel(p) ==
    \/ SetParent(p)
    \/ EnqueueRoom(p) \/ EnqueueSlot(p) \/ EnqueueWrite(p) \/ EnqueueOffset(p)
    \/ EnqueueAdvance(p) \/ EnqueueSize(p) \/ EnqueueCount(p) \/ EnqueueBack(p) \/ ExitAssert(p)
    \/ WaitPoll(p) \/ DequeueFront(p) \/ DequeueOffset(p) \/ DequeueSlot(p) \/ DequeueTake(p)
    \/ DequeueSize(p) \/ DequeueReturn(p)

Next == \E p \in Process : Program(p) \/ Kernel(p)

Spec == Init /\ [][Next]_vars

\* Workers are ordinary threads, which the scheduler serves in turn.
FairSpec == Spec /\ \A p \in Process : WF_vars(Kernel(p))

-----------------------------------------------------------------------------
(* Properties *)

Enqueuing == {"room", "slot", "write", "offset", "advance", "size", "count"}
Reporting == {"back", "assert", "gone"}
Dequeuing == {"front", "load_offset", "load_front", "take", "load_size", "return"}

TypeOK ==
    /\ m_parent \in [Process -> Process \cup {NoProcess}]
    /\ m_offset \in [Process -> 0 .. Size - 1]
    /\ m_size \in [Process -> 0 .. Size]
    /\ m_data \in [Process -> [0 .. Size - 1 -> Process \cup {NoProcess}]]
    /\ at \in [Process ->
          {"new", "user", "unreported", "set_parent", "wait"} \cup Enqueuing \cup Reporting \cup Dequeuing]
    /\ local \in [Process -> Process \cup {NoProcess}]
    /\ register \in [Process -> 0 .. Size]
    /\ reaped \subseteq Process \cup {NoProcess}
    /\ crashed \in BOOLEAN

\* The children of p that have reported their exit and were not waited for.
Zombies(p) == {c \in Process : m_parent[c] = p /\ at[c] \in Reporting} \ reaped

\* Whenever no child of p is just being added, p's queue has as many elements as
\* it has zombies, and they are the elements: the unprotected ++m_size and --m_size
\* lose nothing as long as a program has one child at a time, as the shell does
\* (Thread.cpp:309-333, Shell.c:208-236).
QueueHoldsZombies ==
    \A p \in Process :
        (~\E c \in Process : m_parent[c] = p /\ at[c] \in Enqueuing) =>
            /\ m_size[p] = Cardinality(Zombies(p))
            /\ Zombies(p) =
                  {m_data[p][(m_offset[p] - m_size[p] + i + Size) % Size] : i \in 0 .. m_size[p] - 1}

\* wait() returns a child of the caller that has exited, and returns it once
\* (Thread.cpp:315-322).
WaitIsExact ==
    [][\A p \in Process : At(p, "return") /\ at'[p] = "user" => local[p] \in Zombies(p)]_vars

\* wait() does return once the child it waits for has exited and reported to its
\* parent (Thread.cpp:315, 331-332).
WaitReturns ==
    \A p, c \in Process :
        at[p] = "wait" /\ c \in Zombies(p) ~> c \in reaped \/ crashed

\* The assertion at the end of sys$exit() and the one in back(), after an enqueue,
\* that the parent's queue is not empty (Thread.cpp:332, CircularQueue.hpp:77).
ExitAssertHolds ==
    \A p \in Process : at[p] \in {"back", "assert"} => m_size[m_parent[p]] > 0

-----------------------------------------------------------------------------
(* The inductive invariant behind the first two properties, as long as a    *)
(* program has one child at a time (MaxLive <= 1).                          *)

\* The element that was added last.
Newest(p) == m_data[p][FrontSlot(m_offset[p], 1)]

\* A process has a parent before it reports to it, and reports before it is reaped; a
\* program has one child.
LifeInv ==
    /\ \A c \in Process :
          /\ at[c] = "new" => m_parent[c] = NoProcess
          /\ at[c] \in Enqueuing \cup Reporting => m_parent[c] # NoProcess
    /\ \A c \in reaped : c \in Process /\ at[c] \in Reporting
    /\ \A c, d \in Process \ reaped : m_parent[c] = m_parent[d] => m_parent[c] = NoProcess \/ c = d

\* The child that posix_spawn has created and not adopted yet is the only one.
SpawnInv ==
    \A p \in Process : at[p] = "set_parent" =>
        /\ local[p] \in Process /\ at[local[p]] # "new" /\ m_parent[local[p]] = NoProcess
        /\ \A c \in Process : m_parent[c] = p => c \in reaped
        /\ \A q \in Process \ {p} : at[q] = "set_parent" => local[q] # local[p]

\* A child that is just being added finds an empty queue and has it to itself.
AddInv ==
    \A c \in Process : at[c] \in Enqueuing =>
        LET p == m_parent[c]
        IN  /\ m_size[p] = 0
            /\ at[c] \in {"write", "advance"} => register[c] = m_offset[p]
            /\ at[c] \in {"offset", "advance"} => m_data[p][m_offset[p]] = c
            /\ at[c] \in {"size", "count"} => Newest(p) = c
            /\ at[c] = "count" => register[c] = 0

\* Otherwise the queue holds the zombie, if there is one.
HoldInv ==
    \A p \in Process : (\A c \in Process : m_parent[c] = p => at[c] \notin Enqueuing) =>
        /\ m_size[p] \in {0, 1} /\ (m_size[p] = 1 => Newest(p) \in Process)
        /\ \A c \in Process :
              m_parent[c] = p /\ at[c] \in Reporting /\ c \notin reaped <=> m_size[p] = 1 /\ c = Newest(p)

\* A wait() that has seen it takes it.
TakeInv ==
    \A p \in Process : at[p] \in Dequeuing =>
        /\ m_size[p] = 1
        /\ at[p] = "load_front" => register[p] = m_offset[p]
        /\ at[p] = "take" => register[p] = FrontSlot(m_offset[p], 1)
        /\ at[p] \in {"load_size", "return"} => local[p] = Newest(p)
        /\ at[p] = "return" => register[p] = 1

Inv == TypeOK /\ LifeInv /\ SpawnInv /\ AddInv /\ HoldInv /\ TakeInv
=============================================================================
