-------------------------- MODULE MemoryAllocator --------------------------
(***************************************************************************)
(* The heap of the kernel (Std/MemoryAllocator.cpp), used with malloc_mutex*)
(* held: one action is one call.  The nodes of the free blocks are linked  *)
(* in the order of their addresses.  allocate() takes the front of the     *)
(* first block that is large enough and leaves a node behind it, which may *)
(* be empty; deallocate() merges a block with the free blocks next to it.  *)
(***************************************************************************)
EXTENDS Integers, Sequences, SequencesExt

CONSTANTS
    HeapSize,       \* m_heap.size()
    Request         \* the sizes that callers ask for

VARIABLES
    m_freelist,     \* the free blocks, as the list links them
    held,           \* the blocks whose pointers callers have
    panic           \* VERIFY_NOT_REACHED() was reached, the machine has stopped

vars == <<m_freelist, held, panic>>

Node == 8           \* sizeof(Node)

\* A block is given by the address of its node in the heap and by m_size.
Blocks == [at : 0..HeapSize, size : 0..HeapSize]
EndOf(block) == block.at + Node + block.size

\* The heap is a range of the page allocator, or an array of the tests.
HeapAssumption == HeapSize \in Nat /\ HeapSize % 4 = 0 /\ HeapSize >= Node
RequestAssumption == Request \subseteq Nat

RoundToWord(size) == IF size % 4 # 0 THEN size + (4 - (size % 4)) ELSE size

----------------------------------------------------------------------------
\* Mutant: the comparison is strict.
LargerThan(block, size) == block.size > size + Node

\* The test uses the size before it is rounded.
LargeEnough(block, size) == block.size >= size + Node

\* The first free block that is large enough, 0 if there is none.
FirstFit(size) == SelectInSeq(m_freelist, LAMBDA block : LargeEnough(block, size))

\* The block that allocate() makes of a free block, and the free block behind it.
Taken(block, size) == [at |-> block.at, size |-> RoundToWord(size)]

Remainder(block, size) ==
    [at |-> EndOf(Taken(block, size)), size |-> block.size - RoundToWord(size) - Node]

\* The free list after a block was taken from it.
Without(i, size) == [m_freelist EXCEPT ![i] = Remainder(@, size)]

----------------------------------------------------------------------------
(* deallocate(): the list with a block added to it.                        *)

\* The first free block behind the given one, 0 if there is none.
Behind(list, block) == SelectInSeq(list, LAMBDA entry : entry.at > block.at)

\* Mutant: merges to the left only.
MergesLeftOnly(list, i, block) == FALSE
MergesRight(list, i, block) == EndOf(block) = list[i].at

MergesLeft(list, i, block) == i > 1 /\ EndOf(list[i - 1]) = block.at

\* Without a free block behind it the block becomes the whole list.
Inserted(list, block) ==
    LET i     == Behind(list, block)
        left  == MergesLeft(list, i, block)
        right == MergesRight(list, i, block)
        from  == IF left THEN list[i - 1].at ELSE block.at
        to    == IF right THEN EndOf(list[i]) ELSE EndOf(block)
    IN  IF i = 0 THEN <<block>>
        ELSE SubSeq(list, 1, IF left THEN i - 2 ELSE i - 1)
               \o <<[at |-> from, size |-> to - from - Node]>>
               \o SubSeq(list, IF right THEN i + 1 ELSE i, Len(list))

----------------------------------------------------------------------------
(* The calls.                                                              *)

Allocate(size) ==
    LET i == FirstFit(size)
    IN  /\ i # 0
        /\ held' = held \cup {Taken(m_freelist[i], size)}
        /\ m_freelist' = Without(i, size)
        /\ UNCHANGED panic

\* VERIFY_NOT_REACHED() after the loop.
AllocateFails(size) ==
    /\ FirstFit(size) = 0
    /\ panic' = TRUE
    /\ UNCHANGED <<m_freelist, held>>

Deallocate(block) ==
    /\ held' = held \ {block}
    /\ m_freelist' = Inserted(m_freelist, block)
    /\ UNCHANGED panic

\* A block that is large enough stays where it is; otherwise a new one is allocated before
\* the old one is released.
Reallocate(block, size) ==
    LET i == FirstFit(size)
    IN  /\ size >= block.size
        /\ i # 0
        /\ held' = (held \ {block}) \cup {Taken(m_freelist[i], size)}
        /\ m_freelist' = Inserted(Without(i, size), block)
        /\ UNCHANGED panic

Init ==
    /\ m_freelist = <<[at |-> 0, size |-> HeapSize - Node]>>
    /\ held = {}
    /\ panic = FALSE

Next ==
    /\ ~ panic
    /\ \/ \E size \in Request : Allocate(size) \/ AllocateFails(size)
       \/ \E block \in held : Deallocate(block) \/ \E size \in Request : Reallocate(block, size)

Spec == Init /\ [][Next]_vars

----------------------------------------------------------------------------
(* Properties.                                                             *)

TypeOK ==
    /\ m_freelist \in Seq(Blocks)
    /\ held \subseteq Blocks
    /\ panic \in BOOLEAN

\* The free list is ordered by address, two neighbours in it never touch, and the last one
\* reaches the end of the heap.  Therefore deallocate() always finds a free block behind the
\* one that it releases: the assignment after its loop (MemoryAllocator.cpp:109), which would
\* lose all others, is never executed.
Coalesced ==
    /\ \A i \in 1..Len(m_freelist) - 1 : EndOf(m_freelist[i]) < m_freelist[i + 1].at
    /\ m_freelist # <<>> /\ EndOf(Last(m_freelist)) = HeapSize

\* Blocks never overlap, and the allocator refuses a request only if no gap between them has
\* room for the block and one more node.
H == INSTANCE Heap WITH Header <- Node, Word <- 4, refused <- panic
ImplementsHeap == H!Spec

----------------------------------------------------------------------------
(* The inductive invariant behind both: every address of the heap is in    *)
(* exactly one block, free or held.                                        *)

Aligned(block) == block.at % 4 = 0 /\ block.size % 4 = 0
Spans(block, a) == block.at <= a /\ a < EndOf(block)
Apart(b1, b2) == EndOf(b1) <= b2.at \/ EndOf(b2) <= b1.at

\* The list is in the order of addresses, and what lies between two free blocks is held.
ListInv(list) ==
    /\ \A i \in 1..Len(list) : Aligned(list[i]) /\ EndOf(list[i]) <= HeapSize
    /\ \A i, j \in 1..Len(list) : i < j => EndOf(list[i]) < list[j].at
    /\ list # <<>> /\ EndOf(Last(list)) = HeapSize

HeldInv(list, blocks) ==
    /\ \A b \in blocks : Aligned(b) /\ EndOf(b) <= HeapSize
    /\ \A b, c \in blocks : b = c \/ Apart(b, c)
    /\ \A i \in 1..Len(list) : \A b \in blocks : Apart(list[i], b)

CoverInv(list, blocks) ==
    \A a \in 0..HeapSize - 1 :
        (\E i \in 1..Len(list) : Spans(list[i], a)) \/ \E b \in blocks : Spans(b, a)

HeapInv(list, blocks) ==
    /\ list \in Seq(Blocks) /\ blocks \subseteq Blocks
    /\ ListInv(list) /\ HeldInv(list, blocks) /\ CoverInv(list, blocks)

Inv == HeapInv(m_freelist, held) /\ panic \in BOOLEAN
=============================================================================
