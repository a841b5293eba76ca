------------------------------ MODULE Memmove ------------------------------
(***************************************************************************)
(* __aeabi_memmove() of the userland's LibC ("FIXME: This is completely    *)
(* untested").  Memory is read and written in words only: a byte is stored *)
(* by reading the word around it, replacing the byte and writing the word  *)
(* back.  A byte that has not changed is named by the address where it was *)
(* when the call began.                                                    *)
(***************************************************************************)
EXTENDS Naturals

CONSTANT WordCount      \* the number of words in memory

MemmoveAssumption == WordCount \in Nat \ {0}

Address == 0 .. 4 * WordCount - 1

VARIABLES
    memory,                         \* words, each with its four bytes
    destination, source, count,     \* the arguments
    i,                              \* the index of the loop
    byte                            \* the byte that was read, or NoByte

NoByte == 4 * WordCount
vars == <<memory, destination, source, count, i, byte>>

\* unaligned_read_u8()
ReadU8(address) == memory[address \div 4][address % 4]

\* unaligned_write_u8()
WriteU8(address, value) == [memory EXCEPT ![address \div 4][address % 4] = value]

\* Mutant: always from left to right.
AlwaysForward == TRUE

Forward == destination <= source

\* How far from the beginning the loop is.
Index == IF Forward THEN i ELSE count - i - 1

More == i < count

Read ==
    /\ More /\ byte = NoByte
    /\ byte' = ReadU8(source + Index)
    /\ UNCHANGED <<memory, destination, source, count, i>>

Write ==
    /\ byte # NoByte
    /\ memory' = WriteU8(destination + Index, byte)
    /\ i' = i + 1
    /\ byte' = NoByte
    /\ UNCHANGED <<destination, source, count>>

Returned == byte = NoByte /\ ~More

Init ==
    /\ memory = [w \in 0 .. WordCount - 1 |-> [b \in 0 .. 3 |-> 4 * w + b]]
    /\ destination \in Address /\ source \in Address
    /\ count \in {n \in 0 .. 4 * WordCount : destination + n <= 4 * WordCount /\ source + n <= 4 * WordCount}
    /\ i = 0
    /\ byte = NoByte

Next == Read \/ Write

Spec == Init /\ [][Next]_vars

-----------------------------------------------------------------------------
(* Properties *)

\* When it returns, the bytes of the destination are the ones that the source held
\* when it began, however the two overlap and are aligned, and no other byte of
\* memory has changed (abi.c:97-117).
MovesExactly ==
    Returned =>
        \A a \in Address :
            ReadU8(a) = IF a \in destination .. destination + count - 1
                        THEN a - destination + source ELSE a
-----------------------------------------------------------------------------
(* The inductive invariant behind it.                                      *)

TypeOK ==
    /\ memory \in [0 .. WordCount - 1 -> [0 .. 3 -> Address]]
    /\ destination \in Address /\ source \in Address
    /\ count \in Nat /\ i \in 0 .. count
    /\ destination + count <= 4 * WordCount /\ source + count <= 4 * WordCount

\* The loop has been at the byte with this index.
Done(index) == IF Forward THEN index < i ELSE index >= count - i

\* The loop never overwrites a byte of the source that it still has to read.
LoopInv ==
    /\ byte # NoByte => i < count /\ byte = source + Index
    /\ \A a \in Address :
          ReadU8(a) = IF a \in destination .. destination + count - 1 /\ Done(a - destination)
                      THEN a - destination + source ELSE a

Inv == TypeOK /\ LoopInv
=============================================================================
