--------------------------- MODULE PageAllocator ---------------------------
(***************************************************************************)
(* The allocator of pages (Kernel/PageAllocator.cpp).  Free memory is kept *)
(* in blocks whose sizes are powers of two, in one list for each power.    *)
(* An allocation climbs from the power it asks for to the first list that  *)
(* is not empty, and on the way back splits what it found and keeps the    *)
(* lower half.  Blocks are never merged.                                   *)
(*                                                                         *)
(* The lists are protected by page_allocator_mutex, of which FairMutex is  *)
(* what KernelMutex is proved to be.  One step is one access to a list.    *)
(***************************************************************************)
EXTENDS Integers, Queues

CONSTANTS
    Thread,         \* the threads that allocate and release pages
    PagePower,      \* page_power
    MaxPower,       \* max_power
    Wanted,         \* the powers that callers ask for
    HeapStart,      \* __heap_start
    HeapEnd         \* __heap_end, the first address behind the heap

VARIABLES
    m_blocks,       \* for each power the bases of the free blocks, as the list links them
    owned,          \* the ranges in the hands of an OwnedPageRange
    op,             \* what each thread is doing: the parameters and locals of its call
    line, inside,   \* page_allocator_mutex
    panic           \* an ASSERT failed, the machine has stopped

vars == <<m_blocks, owned, op, line, inside, panic>>

Mutex == INSTANCE FairMutex WITH Locker <- Thread

Power == 0..MaxPower
PageRange == [power : Power, base : HeapStart..HeapEnd]
Bytes(range) == range.base .. range.base + 2 ^ range.power - 1

PowerAssumption == PagePower \in Nat /\ MaxPower \in Nat /\ PagePower <= MaxPower
WantedAssumption == Wanted \subseteq Power

----------------------------------------------------------------------------
(* discover_blocks(): one block of each power, the largest first.          *)

PageSize == 2 ^ PagePower
FirstPage == ((HeapStart - 1 + PageSize) \div PageSize) * PageSize

\* area_start when the loop comes to block_power = k.
AreaStart[k \in PagePower..MaxPower] ==
    IF k = MaxPower THEN FirstPage
    ELSE LET start == AreaStart[k + 1]
         IN  IF start + 2 ^ (k + 1) <= HeapEnd THEN start + 2 ^ (k + 1) ELSE start

Discovered(k) ==
    IF k >= PagePower /\ AreaStart[k] + 2 ^ k <= HeapEnd THEN <<AreaStart[k]>> ELSE <<>>

\* max_power is larger than any heap that the chip has room for.
HeapAssumption ==
    /\ HeapStart \in Nat \ {0} /\ HeapEnd \in Nat
    /\ FirstPage <= HeapEnd /\ HeapEnd - FirstPage < 2 ^ (MaxPower + 1)

----------------------------------------------------------------------------
(* The calls.                                                              *)

Call(pc, power, level, base) == [pc |-> pc, power |-> power, level |-> level, base |-> base]
Idle == Call("idle", 0, 0, HeapStart)

\* The call of a thread goes on.
GoOn(t, pc, level, base) == op' = [op EXCEPT ![t] = Call(pc, @.power, level, base)]

\* deallocate_locked(): a block becomes the first one of its list.
Push(power, base) == m_blocks' = [m_blocks EXCEPT ![power] = <<base>> \o @]

Allocate(t, power) ==
    /\ op[t] = Idle
    /\ Mutex!Arrive(t)
    /\ op' = [op EXCEPT ![t] = Call("allocate", power, power, HeapStart)]
    /\ UNCHANGED <<m_blocks, owned, panic>>

\* ~OwnedPageRange(): the range is invalid before the mutex is taken.
Deallocate(t, range) ==
    /\ op[t] = Idle
    /\ range \in owned
    /\ owned' = owned \ {range}
    /\ Mutex!Arrive(t)
    /\ op' = [op EXCEPT ![t] = Call("deallocate", range.power, range.power, range.base)]
    /\ UNCHANGED <<m_blocks, panic>>

\* Mutant: the mutex is left disabled, lock() returns at once.
EnterDisabled(t) ==
    /\ op[t].pc \in {"allocate", "deallocate"}
    /\ inside' = inside \cup {t}
    /\ GoOn(t, IF op[t].pc = "allocate" THEN "search" ELSE "push", op[t].level, op[t].base)
    /\ UNCHANGED <<m_blocks, owned, line, panic>>

Enter(t) ==
    /\ Mutex!Enter(t)
    /\ GoOn(t, IF op[t].pc = "allocate" THEN "search" ELSE "push", op[t].level, op[t].base)
    /\ UNCHANGED <<m_blocks, owned, panic>>

\* Mutant: the recursive call for the same power.
ClimbNowhere(t) ==
    /\ op[t].pc = "search"
    /\ m_blocks[op[t].level] = <<>>
    /\ op[t].level < MaxPower
    /\ UNCHANGED vars

\* allocate_locked() calls itself for the next larger power...
Climb(t) ==
    /\ op[t].pc = "search"
    /\ m_blocks[op[t].level] = <<>>
    /\ op[t].level < MaxPower
    /\ GoOn(t, "search", op[t].level + 1, op[t].base)
    /\ UNCHANGED <<m_blocks, owned, line, inside, panic>>

\* ...where there is none, ASSERT(power < max_power) fails.
OutOfMemory(t) ==
    /\ op[t].pc = "search"
    /\ m_blocks[op[t].level] = <<>>
    /\ op[t].level = MaxPower
    /\ panic' = TRUE
    /\ UNCHANGED <<m_blocks, owned, op, line, inside>>

Take(t) ==
    LET level == op[t].level
    IN  /\ op[t].pc = "search"
        /\ m_blocks[level] # <<>>
        /\ m_blocks' = [m_blocks EXCEPT ![level] = Tail(@)]
        /\ GoOn(t, "split", level, Head(m_blocks[level]))
        /\ UNCHANGED <<owned, line, inside, panic>>

\* Mutant: the lower half is put back.
LowerHalf(power, base) == base

\* Back from the recursion: the upper half becomes a free block.
UpperHalf(power, base) == base + 2 ^ power

Split(t) ==
    LET half == op[t].level - 1
    IN  /\ op[t].pc = "split"
        /\ half >= op[t].power
        /\ Push(half, UpperHalf(half, op[t].base))
        /\ GoOn(t, "split", half, op[t].base)
        /\ UNCHANGED <<owned, line, inside, panic>>

\* unlock(), and the OwnedPageRange for the caller.
Allocated(t) ==
    /\ op[t].pc = "split"
    /\ op[t].level = op[t].power
    /\ Mutex!Leave(t)
    /\ owned' = owned \cup {[power |-> op[t].power, base |-> op[t].base]}
    /\ op' = [op EXCEPT ![t] = Idle]
    /\ UNCHANGED <<m_blocks, panic>>

PushBack(t) ==
    /\ op[t].pc = "push"
    /\ Push(op[t].power, op[t].base)
    /\ GoOn(t, "pushed", op[t].level, op[t].base)
    /\ UNCHANGED <<owned, line, inside, panic>>

Deallocated(t) ==
    /\ op[t].pc = "pushed"
    /\ Mutex!Leave(t)
    /\ op' = [op EXCEPT ![t] = Idle]
    /\ UNCHANGED <<m_blocks, owned, panic>>

----------------------------------------------------------------------------
Init ==
    /\ m_blocks = [k \in Power |-> Discovered(k)]
    /\ owned = {}
    /\ op = [t \in Thread |-> Idle]
    /\ Mutex!Init
    /\ panic = FALSE

\* What a thread does inside a call that has begun.
Continue(t) ==
    /\ ~ panic
    /\ \/ Enter(t) \/ Climb(t) \/ OutOfMemory(t) \/ Take(t)
       \/ Split(t) \/ Allocated(t) \/ PushBack(t) \/ Deallocated(t)

Begin(t) ==
    /\ ~ panic
    /\ (\E power \in Wanted : Allocate(t, power)) \/ (\E range \in owned : Deallocate(t, range))

Crashed == panic /\ UNCHANGED vars

Next == Crashed \/ \E t \in Thread : Begin(t) \/ Continue(t)

Spec == Init /\ [][Next]_vars

\* Threads inside a call are scheduled again and again; nobody has to call.
FairSpec == Spec /\ \A t \in Thread : WF_vars(Continue(t))

----------------------------------------------------------------------------
(* Properties.                                                             *)

TypeOK ==
    /\ m_blocks \in [Power -> Seq(HeapStart..HeapEnd)]
    /\ owned \subseteq PageRange
    /\ op \in [Thread -> [pc : {"idle", "allocate", "search", "split", "deallocate", "push", "pushed"},
                          power : Power, level : Power, base : HeapStart..HeapEnd]]
    /\ line \in Seq(Thread) /\ inside \subseteq Thread
    /\ panic \in BOOLEAN

\* The ranges that the free lists hold, that an owner holds, and that a call is moving: a
\* range in two places counts twice.
Movers == {t \in Thread : op[t].pc \in {"split", "deallocate", "push"}}
Moved == [t \in Movers |->
             [power |-> IF op[t].pc = "split" THEN op[t].level ELSE op[t].power, base |-> op[t].base]]

Free == UNION {{[place |-> <<k, i>>, range |-> [power |-> k, base |-> m_blocks[k][i]]] :
                    i \in DOMAIN m_blocks[k]} : k \in Power}
Owned == {[place |-> <<"owned", 0>>, range |-> r] : r \in owned}
Moving == {[place |-> <<t, -1>>, range |-> Moved[t]] : t \in Movers}
Pieces == Free \cup Owned \cup Moving

\* The end of the last whole page.
PagesEnd == FirstPage + ((HeapEnd - FirstPage) \div PageSize) * PageSize

\* No byte belongs to two ranges, and every whole page of the heap belongs to one, whatever
\* was allocated, split and given back by threads in any order: discover_blocks() misses no
\* page, and no call drops or doubles one.
NoPageLost ==
    /\ \A p, q \in Pieces : p # q => Bytes(p.range) \cap Bytes(q.range) = {}
    /\ UNION {Bytes(p.range) : p \in Pieces} = FirstPage .. PagesEnd - 1

\* The ASSERT in allocate_locked() fails only if no free block is large enough, and never
\* because another thread has taken a block and not yet put the rest of it back.
OnlyExhaustionStops ==
    panic => \E t \in Thread :
                /\ op[t].pc = "search"
                /\ \A p \in Free : p.range.power < op[t].power
                /\ \A u \in Thread : op[u].pc \notin {"split", "push"}

\* Every allocation and every release ends, unless the machine stops for want of memory.
EveryCallEnds == \A t \in Thread : op[t] # Idle ~> op[t] = Idle \/ panic

----------------------------------------------------------------------------
(* The inductive invariant behind the two safety properties.               *)

\* Who is in a call stands in the line, and who has entered is its head.
MutexInv ==
    /\ \A t \in Thread : (op[t].pc # "idle" <=> t \in Range(line)) /\ Once(line, t)
    /\ inside = {t \in Thread : op[t].pc \in {"search", "split", "push", "pushed"}}
    /\ \A t \in inside : line # <<>> /\ Head(line) = t

\* The recursion has found the lists below its level empty, and does not come back below
\* the power it was asked for.
LevelInv ==
    \A t \in Thread :
        /\ op[t].pc = "allocate" => op[t].level = op[t].power
        /\ op[t].pc \in {"search", "split"} => op[t].power <= op[t].level
        /\ op[t].pc = "search" =>
              \A k \in op[t].power .. op[t].level - 1 : m_blocks[k] = <<>>

FreeRanges == {r \in PageRange : r.base \in Range(m_blocks[r.power])}
Ranges == FreeRanges \cup owned \cup {Moved[t] : t \in Movers}

\* A range is in one place.
PlaceInv ==
    /\ \A k \in Power, b \in HeapStart..HeapEnd : Once(m_blocks[k], b)
    /\ FreeRanges \cap owned = {}
    /\ \A t \in Movers : Moved[t] \notin FreeRanges \cup owned
    /\ \A t, u \in Movers : Moved[t] = Moved[u] => t = u

\* The ranges are apart and make up the heap.
RangeInv ==
    /\ \A r \in Ranges : r.base + 2 ^ r.power <= HeapEnd
    /\ \A r, s \in Ranges : r # s => Bytes(r) \cap Bytes(s) = {}
    /\ UNION {Bytes(r) : r \in Ranges} = FirstPage .. PagesEnd - 1

Inv == TypeOK /\ MutexInv /\ LevelInv /\ PlaceInv /\ RangeInv /\ OnlyExhaustionStops
=============================================================================
