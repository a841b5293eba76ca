----------------------------- MODULE MemoryFile -----------------------------
(***************************************************************************)
(* The content of a file in memory (Kernel/FileSystem/MemoryFileSystem.hpp)*)
(* and a handle on it in each of several processes.  The bytes are in a    *)
(* Vector, and their number is counted once more for fstat().  The calls   *)
(* run in workers with interrupts enabled: a step ends with a store that   *)
(* the others can see, and any of them may run before the next.            *)
(***************************************************************************)
EXTENDS Naturals, Sequences

CONSTANTS
    Process,        \* each has one thread; the byte that it writes is its name
    Junk,           \* a byte that nobody wrote
    MaxBlocks,      \* bound: the blocks that malloc() returns, none of them twice
    MaxCount,       \* bound: bytes of a call
    MaxSize         \* bound: bytes in the file

Null == 0           \* no block
Block == 0 .. MaxBlocks

MemoryFileAssumption ==
    /\ Junk \notin Process
    /\ MaxBlocks \in Nat /\ MaxCount \in Nat /\ MaxSize \in Nat

VARIABLES
    content,        \* the bytes of each block, none of one that is not allocated
    used,           \* the blocks that were allocated
    m_data, size,   \* the Vector; m_capacity is the length of its block
    m_size,         \* what fstat() returns
    handle,         \* the handle of each process: m_offset, and as history what was read
    call,           \* what each process is doing
    log,            \* history: the bytes that were written since the last truncation
    torn,           \* history: two calls that change the file have overlapped
    panic           \* why the machine stopped

heapVars == <<content, used>>
fileVars == <<m_data, size, m_size, log>>
vars == <<heapVars, fileVars, handle, call, torn, panic>>

\* n bytes are asked for, rest of them left to do; block and number were loaded or computed.
\* then is where ensure_capacity() returns to: "append" is the loop of extend().
Call(at, n) == [at |-> at, n |-> n, rest |-> n, block |-> Null, number |-> 0, then |-> "append"]
Idle == Call("idle", 0)

NewHandle == [offset |-> 0, got |-> <<>>, plain |-> TRUE]
Spoiled(offset) == [offset |-> offset, got |-> <<>>, plain |-> FALSE]

Writing == {"extend", "append", "move", "release", "install", "place", "store", "count", "add"}
Truncating == {"clear", "reset"}
Changes(p) == call[p].at \in Writing \cup Truncating

Goes(p, at) == call' = [call EXCEPT ![p].at = at]
Returns(p) == call' = [call EXCEPT ![p] = Idle]

\* A bound: once two changes have overlapped, the calls of that time go on and none begins.
Ready(p) == ~ torn /\ call[p] = Idle

EntersToChange(p, c) ==
    /\ Ready(p)
    /\ call' = [call EXCEPT ![p] = c]
    /\ torn' = \E other \in Process : Changes(other)
    /\ UNCHANGED <<heapVars, fileVars, handle, panic>>

Stop(why) == panic' = why /\ UNCHANGED <<heapVars, fileVars, handle, call, torn>>

----------------------------------------------------------------------------
(* open(): create_handle(), with O_TRUNC after truncate().  The handle     *)
(* that is considered is the one that the process opened last.             *)

Open(p) ==
    /\ Ready(p)
    /\ handle' = [handle EXCEPT ![p] = NewHandle]
    /\ UNCHANGED <<heapVars, fileVars, call, torn, panic>>

Truncate(p) == EntersToChange(p, Call("clear", 0))

\* The block stays.  The handles, their own process's included, are not told.
Clear(p) ==
    /\ call[p].at = "clear"
    /\ size' = 0 /\ log' = <<>>
    /\ handle' = [q \in Process |-> Spoiled(handle[q].offset)]
    /\ Goes(p, "reset")
    /\ UNCHANGED <<heapVars, m_data, m_size, torn, panic>>

\* Mutant: m_size stays.
KeepSize(p) ==
    /\ call[p].at = "reset"
    /\ handle' = [handle EXCEPT ![p] = NewHandle]
    /\ Returns(p)
    /\ UNCHANGED <<heapVars, fileVars, torn, panic>>

Reset(p) ==
    /\ call[p].at = "reset"
    /\ m_size' = 0
    /\ handle' = [handle EXCEPT ![p] = NewHandle]
    /\ Returns(p)
    /\ UNCHANGED <<heapVars, m_data, size, log, torn, panic>>

----------------------------------------------------------------------------
(* write(): extend() makes room for all bytes and appends one after the    *)
(* other, each of which would make room for itself.                        *)

Write(p, n) ==
    /\ size + n <= MaxSize /\ handle[p].offset + n <= MaxSize
    /\ EntersToChange(p, Call("extend", n))

Room(block) == Len(content[block])

\* ensure_capacity()
EnsuresRoom(p, wanted, then) ==
    \/ /\ Room(m_data) >= wanted
       /\ Goes(p, then)
       /\ UNCHANGED <<heapVars, fileVars, handle, torn, panic>>
    \/ /\ Room(m_data) < wanted /\ used < MaxBlocks
       /\ used' = used + 1
       /\ \E room \in wanted + 1 .. 2 * wanted :        \* round_to_power_of_two()
             /\ \E k \in 1 .. wanted : room = 2 ^ k
             /\ content' = [content EXCEPT ![used + 1] = [i \in 1 .. room |-> Junk]]
       /\ call' = [call EXCEPT ![p] = [@ EXCEPT !.at = "move", !.block = used + 1, !.then = then]]
       /\ UNCHANGED <<fileVars, handle, torn, panic>>
    \/ /\ Room(m_data) < wanted /\ used = MaxBlocks
       /\ Stop("no memory")

Extend(p) == call[p].at = "extend" /\ EnsuresRoom(p, size + call[p].n, "append")
Append1(p) == call[p].at = "append" /\ call[p].rest > 0 /\ EnsuresRoom(p, size + 1, "place")

\* memcpy() into the new block, what was released meanwhile is junk.
Move(p) ==
    LET block == call[p].block
    IN  /\ call[p].at = "move"
        /\ \/ /\ Room(block) > size
              /\ content' = [content EXCEPT ![block] =
                    [i \in DOMAIN @ |-> IF i <= size /\ i <= Room(m_data)
                                        THEN content[m_data][i] ELSE Junk]]
              /\ Goes(p, "release")
              /\ UNCHANGED <<used, fileVars, handle, torn, panic>>
           \/ Room(block) <= size /\ Stop("assert")

Release(p) ==
    /\ call[p].at = "release"
    /\ \/ /\ m_data = Null \/ Room(m_data) > 0
          /\ content' = [content EXCEPT ![m_data] = <<>>]
          /\ Goes(p, "install")
          /\ UNCHANGED <<used, fileVars, handle, torn, panic>>
       \/ m_data # Null /\ Room(m_data) = 0 /\ Stop("released twice")

\* m_data, m_capacity and m_use_inline_data.
Install(p) ==
    /\ call[p].at = "install"
    /\ m_data' = call[p].block
    /\ call' = [call EXCEPT ![p] = [@ EXCEPT !.at = call[p].then, !.block = Null, !.then = "append"]]
    /\ UNCHANGED <<heapVars, size, m_size, log, handle, torn, panic>>

\* The address for the byte: data() + m_size.
Place(p) ==
    /\ call[p].at = "place"
    /\ call' = [call EXCEPT ![p] = [@ EXCEPT !.at = "store", !.block = m_data, !.number = size]]
    /\ UNCHANGED <<heapVars, fileVars, handle, torn, panic>>

\* The byte, and the load of m_size that is to be incremented.  A byte that goes elsewhere than
\* into a block of the file's goes over something else's memory.
Store(p) ==
    LET block == call[p].block
        i     == call[p].number + 1
    IN  /\ call[p].at = "store"
        /\ \/ /\ i <= Room(block)
              /\ content' = [content EXCEPT ![block][i] = p]
              /\ call' = [call EXCEPT ![p] = [@ EXCEPT !.at = "count", !.number = size]]
              /\ UNCHANGED <<used, fileVars, handle, torn, panic>>
           \/ i > Room(block) /\ Stop("overwritten")

\* ++m_size
Count(p) ==
    /\ call[p].at = "count"
    /\ size' = call[p].number + 1
    /\ log' = Append(log, p)
    /\ call' = [call EXCEPT ![p] = [@ EXCEPT !.at = "append", !.rest = call[p].rest - 1, !.block = Null, !.number = 0]]
    /\ UNCHANGED <<heapVars, m_data, m_size, handle, torn, panic>>

\* All bytes are there; the load of the m_size of the file.
Extended(p) ==
    /\ call[p].at = "append" /\ call[p].rest = 0
    /\ call' = [call EXCEPT ![p] = [@ EXCEPT !.at = "add", !.number = m_size]]
    /\ UNCHANGED <<heapVars, fileVars, handle, torn, panic>>

\* m_size and m_offset, which is no longer the number of bytes that were read.
Add(p) ==
    /\ call[p].at = "add"
    /\ m_size' = call[p].number + call[p].n
    /\ handle' = [handle EXCEPT ![p] = IF call[p].n = 0 THEN @ ELSE Spoiled(@.offset + call[p].n)]
    /\ Returns(p)
    /\ UNCHANGED <<heapVars, m_data, size, log, torn, panic>>

----------------------------------------------------------------------------
(* read(): the span is loaded, cut at the offset and copied.               *)

Read(p, n) ==
    /\ Ready(p)
    /\ call' = [call EXCEPT ![p] = [Call("size", n) EXCEPT !.block = m_data]]
    /\ UNCHANGED <<heapVars, fileVars, handle, torn, panic>>

\* slice() verifies that the offset lies within the data.
Slice(p) ==
    /\ call[p].at = "size"
    /\ \/ /\ handle[p].offset <= size
          /\ call' = [call EXCEPT ![p] = [@ EXCEPT !.at = "copy", !.number = size]]
          /\ UNCHANGED <<heapVars, fileVars, handle, torn, panic>>
       \/ handle[p].offset > size /\ Stop("slice")

Least(a, b) == IF a < b THEN a ELSE b

\* Mutant: the offset goes on by what was asked for.
AsAsked(p) == call[p].n

\* copy_trimmed_to()
Nread(p) == Least(call[p].n, call[p].number - handle[p].offset)

\* A block that was released meanwhile may hold anything, and memory behind a block as well.
Copied(p) ==
    LET from  == handle[p].offset
        to    == from + Nread(p)
        block == call[p].block
    IN  IF Nread(p) = 0 THEN handle[p]
        ELSE IF handle[p].plain /\ to <= Room(block)
        THEN [offset |-> to, got |-> handle[p].got \o SubSeq(content[block], from + 1, to), plain |-> TRUE]
        ELSE Spoiled(to)

Copy(p) ==
    /\ call[p].at = "copy"
    /\ handle' = [handle EXCEPT ![p] = Copied(p)]
    /\ Returns(p)
    /\ UNCHANGED <<heapVars, fileVars, torn, panic>>

----------------------------------------------------------------------------
Init ==
    /\ content = [b \in Block |-> <<>>] /\ used = 0
    /\ m_data = Null /\ size = 0 /\ m_size = 0 /\ log = <<>>
    /\ handle = [p \in Process |-> NewHandle]
    /\ call = [p \in Process |-> Idle]
    /\ torn = FALSE
    /\ panic = "none"

Next ==
    /\ panic = "none"
    /\ \E p \in Process :
          \/ Open(p) \/ Truncate(p) \/ Clear(p) \/ Reset(p)
          \/ Extend(p) \/ Append1(p) \/ Move(p) \/ Release(p) \/ Install(p)
          \/ Place(p) \/ Store(p) \/ Count(p) \/ Extended(p) \/ Add(p)
          \/ Slice(p) \/ Copy(p)
          \/ \E n \in 0 .. MaxCount : Write(p, n) \/ Read(p, n)

Spec == Init /\ [][Next]_vars

----------------------------------------------------------------------------
(* Properties.                                                             *)

Byte == Process \cup {Junk}
HandleType == [offset : Nat, got : Seq(Byte), plain : BOOLEAN]
CallType ==
    [at : Writing \cup Truncating \cup {"idle", "size", "copy"}, n : Nat, rest : Nat,
     block : Block, number : Nat, then : {"append", "place"}]

TypeOK ==
    /\ content \in [Block -> Seq(Byte)] /\ used \in Block
    /\ m_data \in Block /\ size \in Nat /\ m_size \in Nat
    /\ handle \in [Process -> HandleType]
    /\ call \in [Process -> CallType]
    /\ log \in Seq(Process) /\ torn \in BOOLEAN
    /\ panic \in {"none", "no memory", "slice", "assert", "overwritten", "released twice"}

\* What a handle has read is the beginning of what was written, each byte once, however far the
\* calls of the others have got meanwhile (MemoryFileSystem.hpp:71-77).  It ends with a write
\* through the handle or a truncation, which leave the offset elsewhere, with a read whose
\* block was released under it, and with two changes at a time.
ReadsBeginning ==
    ~ torn => \A p \in Process :
        handle[p].plain =>
            /\ handle[p].offset <= Len(log)
            /\ handle[p].got = SubSeq(log, 1, handle[p].offset)

\* fstat() never tells of more than is there to be read, unless the file is being truncated, and
\* between the calls that change the file it tells of all, although the size is counted apart
\* from the data and in another step (MemoryFileSystem.hpp:47-57).
FstatTellsTheSize ==
    ~ torn =>
        /\ (\A p \in Process : call[p].at \notin Truncating) => m_size <= size
        /\ (\A p \in Process : ~ Changes(p)) => m_size = size

----------------------------------------------------------------------------
(* The inductive invariant behind them.                                    *)

Growing == {"move", "release", "install"}
Placing == {"place", "store", "count"}

\* What is allocated.
HeapInv == content[Null] = <<>> /\ \A b \in Block : b > used => content[b] = <<>>

\* Where a byte is written, one is left to be written.  What is read begins within the bytes.
RestInv(p) ==
    /\ call[p].at \in Placing \/ (call[p].at \in Growing /\ call[p].then = "place") => call[p].rest > 0
    /\ call[p].at = "copy" => handle[p].offset <= call[p].number

Holds(block) == size < Room(block) /\ \A i \in 1 .. size : content[block][i] = log[i]

\* The block of the Vector holds the bytes, until the new one does.
DataInv ==
    /\ size = Len(log) /\ m_data <= used
    /\ \/ \E p \in Process : call[p].at = "install"
       \/ /\ size <= Room(m_data) /\ \A i \in 1 .. size : content[m_data][i] = log[i]
          /\ m_data = Null \/ Room(m_data) > 0

\* The steps that make room for a byte and put it there.
GrowInv(p) ==
    /\ call[p].at \in Growing => call[p].block \in 1 .. used /\ call[p].block # m_data
    /\ call[p].at = "move" => size < Room(call[p].block)
    /\ call[p].at \in {"release", "install"} => Holds(call[p].block)
    /\ call[p].at = "install" => Room(m_data) = 0
    /\ call[p].at \in Placing => size < Room(m_data)
    /\ call[p].at \in {"store", "count"} => call[p].block = m_data /\ call[p].number = size
    /\ call[p].at = "count" => content[m_data][size + 1] = p

\* One call at a time changes the file, and m_size has yet to follow.
AloneInv ==
    /\ \A p, q \in Process : Changes(p) /\ Changes(q) => p = q
    /\ (\A p \in Process : ~ Changes(p)) => m_size = size

SizeInv(p) ==
    /\ call[p].at \in Writing => size = m_size + (call[p].n - call[p].rest) /\ call[p].rest <= call[p].n
    /\ call[p].at = "add" => call[p].number = m_size /\ call[p].rest = 0
    /\ call[p].at = "clear" => m_size = size
    /\ call[p].at = "reset" => size = 0

\* What a read has loaded is the Vector's, or it was released meanwhile.
LoadInv(p) ==
    call[p].at \in {"size", "copy"} =>
        /\ call[p].block <= used
        /\ call[p].block = m_data \/ Room(call[p].block) = 0

ReadInv(p) ==
    handle[p].plain =>
        /\ handle[p].offset \in 0 .. size
        /\ handle[p].got = SubSeq(log, 1, handle[p].offset)
        /\ call[p].at = "copy" => call[p].number <= size

\* Changes that do not overlap write into no other memory and release nothing twice.
PanicInv == panic \in {"none", "no memory", "slice"}

Inv ==
    /\ TypeOK /\ HeapInv /\ \A p \in Process : RestInv(p)
    /\ ~ torn =>
          /\ DataInv /\ AloneInv /\ PanicInv
          /\ \A p \in Process : GrowInv(p) /\ SizeInv(p) /\ LoadInv(p) /\ ReadInv(p)
=============================================================================
