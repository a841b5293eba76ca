------------------------------ MODULE MCMemory ------------------------------
(***************************************************************************)
(* The pages, a heap, the trees whose nodes come from a heap and the queues*)
(* of terminated children, one at a time: they share nothing.  The heap of *)
(* pages starts between two pages and ends within one; as on the chip, no  *)
(* block of the largest power fits into it.  The tree is that of a HashMap *)
(* in which keys have the same hash, or one that only grows and is walked  *)
(* through, as the directories of the kernel are.  The shell and two more  *)
(* processes are its children one after the other, or child and grandchild.*)
(***************************************************************************)
EXTENDS PageAllocator

CONSTANTS
    HeapSize, Request,                              \* MemoryAllocator
    Key, Data, HashOf, Address, Null, Nothing,      \* HashMap
    Process, Shell, NoProcess, Size, MaxLive        \* Process

VARIABLES
    considered,                                     \* which of them it is
    m_freelist, held, heapPanic,                    \* MemoryAllocator
    m_root, treeSize, node, allocated, current, climbing, visited, found,       \* HashMap
    m_parent, m_offset, m_size, m_data, at, local, register, reaped, crashed    \* Process

pageVars == vars
heapVars == <<m_freelist, held, heapPanic>>
treeVars == <<m_root, treeSize, node, allocated, current, climbing, visited, found>>
childVars == <<m_parent, m_offset, m_size, m_data, at, local, register, reaped, crashed>>

Hashes == [key \in Key |-> key % 3]

Memory == INSTANCE MemoryAllocator WITH panic <- heapPanic
Maps == INSTANCE HashMap WITH m_size <- treeSize
Children == INSTANCE Process

ASSUME PowerAssumption /\ WantedAssumption /\ HeapAssumption
ASSUME Memory!HeapAssumption /\ Memory!RequestAssumption
ASSUME Maps!KeyAssumption /\ Maps!HashAssumption /\ Maps!NothingAssumption
ASSUME Maps!Tree!AddressAssumption
ASSUME Children!ProcessAssumption

MemoryInit ==
    /\ considered \in {"pages", "heap", "map", "tree", "children"}
    /\ Init /\ Memory!Init /\ Maps!Init /\ Children!Init

Paging == considered = "pages" /\ Next
Allocating == considered = "heap" /\ Memory!Next
Mapping == considered = "map" /\ Maps!Next
Walking == considered = "tree" /\ (Maps!Tree!Inserting \/ Maps!Tree!Walk) /\ UNCHANGED found
Waiting == considered = "children" /\ Children!Next

MemoryNext ==
    /\ UNCHANGED considered
    /\ \/ Paging /\ UNCHANGED <<heapVars, treeVars, childVars>>
       \/ Allocating /\ UNCHANGED <<pageVars, treeVars, childVars>>
       \/ (Mapping \/ Walking) /\ UNCHANGED <<pageVars, heapVars, childVars>>
       \/ Waiting /\ UNCHANGED <<pageVars, heapVars, treeVars>>

\* Threads inside a call are scheduled again and again, and so are the workers of the processes.
MemorySpec ==
    /\ MemoryInit /\ [][MemoryNext]_<<considered, pageVars, heapVars, treeVars, childVars>>
    /\ \A t \in Thread : WF_vars(Continue(t))
    /\ \A p \in Process : WF_childVars(Children!Kernel(p))

\* Every page is in one list or in the hands of one owner, or on its way, whatever the threads
\* do at once (PageAllocator.cpp:45-131); what is allocated for a tree is what can be reached in
\* it: remove() neither leaks a node nor leaves a link to a deleted one, and it keeps the others
\* in order (SortedSet.hpp:319-347).
NothingIsLost == NoPageLost /\ Maps!Tree!Inv

\* Free blocks that touch are one block (MemoryAllocator.cpp:78-120).
Coalesced == Memory!Coalesced

\* The allocator is a heap: blocks that are handed out do not overlap, and what is free is
\* there for the next call (MemoryAllocator.cpp:20-125).
ImplementsHeap == Memory!ImplementsHeap

\* The tree is a set, and an iterator visits its members in order, each once, whatever is
\* inserted meanwhile (SortedSet.hpp:120-145).
ImplementsOrderedSet == Maps!Tree!ImplementsOrderedSet

\* set(), get() and remove() are those of a function, also for keys with the same hash
\* (HashTable.hpp:113-132).
ImplementsDictionary == Maps!ImplementsDictionary

\* wait() returns once a child has exited (Thread.cpp:315, 331-332).
WaitReturns == Children!WaitReturns
=============================================================================
