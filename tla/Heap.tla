-------------------------------- MODULE Heap --------------------------------
(***************************************************************************)
(* What MemoryAllocator promises: the blocks that callers hold lie in the  *)
(* heap and do not overlap, and a request is refused only if there is no   *)
(* room for it.  Every block is preceded by a header of Header bytes, and  *)
(* an allocation needs room for one more header behind the new block.      *)
(***************************************************************************)
EXTENDS Integers

CONSTANTS
    HeapSize,       \* in bytes
    Header,         \* the size of the header of a block
    Word,           \* sizes are rounded up to multiples of it
    Request         \* the sizes that callers ask for

VARIABLES
    held,           \* the blocks in the hands of callers
    refused         \* a request was refused and the machine has stopped

vars == <<held, refused>>

\* A block starts at its header; size is the part that the caller may use.
Blocks == [at : 0..HeapSize, size : 0..HeapSize]
EndOf(block) == block.at + Header + block.size

Rounded(size) == ((size + Word - 1) \div Word) * Word

\* There is room for a block of this size at this place, and for a header behind it.
Room(at, size) ==
    LET end == at + Header + Rounded(size) + Header
    IN  /\ end <= HeapSize
        /\ \A block \in held : end <= block.at \/ EndOf(block) <= at

\* Blocks are aligned.
Places(size) == {at \in {Word * n : n \in 0 .. HeapSize \div Word} : Room(at, size)}

Allocate(size) ==
    /\ \E at \in Places(size) : held' = held \cup {[at |-> at, size |-> Rounded(size)]}
    /\ UNCHANGED refused

Deallocate(block) ==
    /\ block \in held
    /\ held' = held \ {block}
    /\ UNCHANGED refused

\* The old block is still held when the new one is chosen.
Reallocate(block, size) ==
    /\ block \in held
    /\ size >= block.size
    /\ \E at \in Places(size) :
          held' = (held \ {block}) \cup {[at |-> at, size |-> Rounded(size)]}
    /\ UNCHANGED refused

Refuse(size) ==
    /\ Places(size) = {}
    /\ refused' = TRUE
    /\ UNCHANGED held

Init == held = {} /\ refused = FALSE

Next ==
    /\ ~ refused
    /\ \/ \E size \in Request : Allocate(size) \/ Refuse(size)
       \/ \E block \in held : Deallocate(block) \/ \E size \in Request : Reallocate(block, size)

Spec == Init /\ [][Next]_vars
=============================================================================
