------------------------------ MODULE Console ------------------------------
(***************************************************************************)
(* The console: read() and write() of ConsoleFileHandle                    *)
(* (Kernel/ConsoleDevice.cpp) on those of UART (Kernel/Interrupt/UART.cpp).*)
(* A DMA channel writes what is received into a ring; the loops of the UART*)
(* run with interrupts masked, which keeps out the other processes but not *)
(* the hardware.  The loops of the console poll.                           *)
(***************************************************************************)
EXTENDS Integers, Sequences

CONSTANTS
    Process,
    buffer_size,    \* of the ring
    FifoSize,       \* bytes that the UART can take before it has sent one
    MaxCount,       \* bound: bytes of a call
    MaxReceived,    \* bound: bytes that are typed
    MaxWritten      \* bound: bytes that a process writes

None == "none"

ASSUME ConsoleAssumption ==
    /\ None \notin Process
    /\ buffer_size \in Nat \ {0} /\ FifoSize \in Nat \ {0}
    /\ MaxCount \in Nat \ {0} /\ MaxReceived \in Nat /\ MaxWritten \in Nat

VARIABLES
    ring,           \* m_input_buffer; the bytes are numbered in the order of their arrival
    received,       \* how many bytes the DMA has written
    consumed,       \* m_input_buffer_consume_offset_raw
    fifo,           \* the bytes that the UART is to send
    call,           \* the call of each process, with its local variables
    guard,          \* the process that has masked interrupts, None if there is none
    delivered,      \* history: the bytes in the order in which they were read
    wire,           \* history: the numbers of the bytes that each process gave to the UART
    panic           \* an assertion failed, the machine has stopped

vars == <<ring, received, consumed, fifo, call, guard, delivered, wire, panic>>
input == <<ring, received>>

\* done is nwritten of the loop of ConsoleFileHandle, index that of the UART's loop.
Call(kind, count) == [kind |-> kind, count |-> count, done |-> 0, index |-> 0]
Idle == Call(None, 0)
Progress(c, done, index) == [kind |-> c.kind, count |-> c.count, done |-> done, index |-> index]

----------------------------------------------------------------------------
(* The hardware.                                                           *)

Slot(n) == n % buffer_size

\* The write address of the DMA channel wraps around with the ring.
AvailableOffset == Slot(received)

Receive ==
    /\ received < MaxReceived
    /\ ring' = [ring EXCEPT ![AvailableOffset] = received + 1]
    /\ received' = received + 1
    /\ UNCHANGED <<consumed, fifo, call, guard, delivered, wire, panic>>

Transmit ==
    /\ fifo # <<>>
    /\ fifo' = Tail(fifo)
    /\ UNCHANGED <<input, consumed, call, guard, delivered, wire, panic>>

----------------------------------------------------------------------------
(* The calls.                                                              *)

\* A write of no bytes returns before it has asked the UART, a read into no bytes goes on to ask.
Begin(p, kind, count) ==
    /\ call[p] = Idle
    /\ kind = "write" => Len(wire[p]) + count <= MaxWritten
    /\ call' = [call EXCEPT ![p] = IF kind = "write" /\ count = 0 THEN Idle ELSE Call(kind, count)]
    /\ UNCHANGED <<input, consumed, fifo, guard, delivered, wire, panic>>

\* MaskedInterruptGuard
Enter(p) ==
    /\ call[p] # Idle
    /\ guard = None
    /\ guard' = p
    /\ UNCHANGED <<input, consumed, fifo, call, delivered, wire, panic>>

\* Mutant: interrupts stay masked while the console polls.
LeaveMasked(p, finished, done) ==
    /\ guard' = IF finished THEN None ELSE p
    /\ call' = [call EXCEPT ![p] = IF finished THEN Idle ELSE Progress(@, done, 0)]

\* The UART's loop ends.  The console's loop goes on with the rest, if there is any.
Leave(p, finished, done) ==
    /\ guard' = None
    /\ call' = [call EXCEPT ![p] = IF finished THEN Idle ELSE Progress(@, done, 0)]

ConsumeOffset == Slot(consumed)

\* input_buffer_size(), which the loop computes anew in every round.
InputSize == AvailableOffset - ConsumeOffset

\* Mutant: the byte that came last.
LatestByte == ring[Slot(AvailableOffset + buffer_size - 1)]

OldestByte == ring[ConsumeOffset]

\* Mutant: the last byte stays.
MoreThanOne(p) == call[p].index + 1 < InputSize /\ call[p].index < call[p].count

More(p) == call[p].index < InputSize /\ call[p].index < call[p].count

ReadByte(p) ==
    /\ guard = p
    /\ call[p].kind = "read"
    /\ InputSize >= 0
    /\ More(p)
    /\ delivered' = Append(delivered, OldestByte)
    /\ consumed' = consumed + 1
    /\ call' = [call EXCEPT ![p] = Progress(@, @.done, @.index + 1)]
    /\ UNCHANGED <<input, fifo, guard, wire, panic>>

ReadReturns(p) ==
    /\ guard = p
    /\ call[p].kind = "read"
    /\ InputSize >= 0
    /\ ~ More(p)
    /\ Leave(p, call[p].index > 0, 0)
    /\ UNCHANGED <<input, consumed, fifo, delivered, wire, panic>>

\* FIXME_ASSERT of input_buffer_size()
ReadStops(p) ==
    /\ guard = p
    /\ call[p].kind = "read"
    /\ InputSize < 0
    /\ panic' = TRUE
    /\ UNCHANGED <<input, consumed, fifo, call, guard, delivered, wire>>

\* Mutant: each round of the console's loop starts at the first byte.
FirstByte(p) == call[p].index

\* The number of the byte that is next, of bytes.slice(nwritten).
NextByte(p) == call[p].done + call[p].index

WriteByte(p) ==
    /\ guard = p
    /\ call[p].kind = "write"
    /\ NextByte(p) < call[p].count
    /\ Len(fifo) < FifoSize
    /\ fifo' = Append(fifo, p)
    /\ wire' = [wire EXCEPT ![p] = Append(@, NextByte(p))]
    /\ call' = [call EXCEPT ![p] = Progress(@, @.done, @.index + 1)]
    /\ UNCHANGED <<input, consumed, guard, delivered, panic>>

WriteReturns(p) ==
    /\ guard = p
    /\ call[p].kind = "write"
    /\ NextByte(p) = call[p].count \/ Len(fifo) = FifoSize
    /\ Leave(p, NextByte(p) = call[p].count, NextByte(p))
    /\ UNCHANGED <<input, consumed, fifo, delivered, wire, panic>>

----------------------------------------------------------------------------
Init ==
    /\ ring = [i \in 0..buffer_size - 1 |-> 0]
    /\ received = 0
    /\ consumed = 0
    /\ fifo = <<>>
    /\ call = [p \in Process |-> Idle]
    /\ guard = None
    /\ delivered = <<>>
    /\ wire = [p \in Process |-> <<>>]
    /\ panic = FALSE

Inside(p) == ReadByte(p) \/ ReadReturns(p) \/ ReadStops(p) \/ WriteByte(p) \/ WriteReturns(p)

Next ==
    /\ ~ panic
    /\ \/ Receive \/ Transmit
       \/ \E p \in Process :
             \/ Enter(p) \/ Inside(p)
             \/ \E kind \in {"read", "write"}, count \in 0..MaxCount : Begin(p, kind, count)

\* The hardware sends, a loop with interrupts masked goes on, and a process that is scheduled
\* finds them unmasked.
Spec ==
    /\ Init /\ [][Next]_vars
    /\ WF_vars(Transmit)
    /\ \A p \in Process : WF_vars(Inside(p)) /\ SF_vars(Enter(p))

----------------------------------------------------------------------------
(* Properties.                                                             *)

TypeOK ==
    /\ ring \in [0..buffer_size - 1 -> 0..MaxReceived]
    /\ received \in 0..MaxReceived /\ consumed \in Nat
    /\ fifo \in Seq(Process) /\ Len(fifo) <= FifoSize
    /\ call \in [Process -> [kind : {None, "read", "write"}, count : 0..MaxCount,
                             done : 0..MaxCount, index : 0..MaxCount]]
    /\ guard \in Process \cup {None}
    /\ delivered \in Seq(Nat) /\ wire \in [Process -> Seq(Nat)]
    /\ panic \in BOOLEAN

\* The bytes that were typed reach the processes in the order in which they came, each once,
\* although the DMA writes while the loop runs (UART.cpp:67-70), as long as it does not
\* overrun them.
NotOverrun == received - consumed <= buffer_size
DeliveredInOrder == \A i \in DOMAIN delivered : delivered[i] = i

\* write() gives each of its bytes to the UART once and in order, whatever the UART takes at a
\* time and whoever writes meanwhile (ConsoleDevice.cpp:26-28).
WrittenInOrder ==
    \A p \in Process : call[p].kind = "write" =>
        LET n == call[p].done + call[p].index
            w == wire[p]
        IN  Len(w) >= n /\ \A i \in 1..n : w[Len(w) - n + i] = i - 1

\* read() returns once a byte is there that nobody else takes (ConsoleDevice.cpp:15-20), if there
\* is room for it: a read into no bytes polls for ever, and does not keep the others from theirs.
ReadsReturn ==
    \A p \in Process :
        call[p].kind = "read" /\ call[p].count > 0 ~> (call[p] = Idle \/ consumed = received)

\* write() returns.
WritesReturn == \A p \in Process : call[p].kind = "write" ~> call[p] = Idle

\* The reader never finds the DMA behind itself: the assertion of UART.cpp:103.
AvailableAfterConsumed == ~ panic

----------------------------------------------------------------------------
(* The inductive invariants behind the two orders. *)

\* What was typed and not read yet is in the ring, as long as nothing of it was overwritten.
RingInv ==
    /\ consumed <= received /\ Len(delivered) = consumed
    /\ \A k \in consumed..received - 1 : ring[Slot(k)] = k + 1

\* A write never passes the end of its bytes, and between two loops of the UART it has
\* counted what it gave.
CallInv ==
    \A p \in Process :
        /\ call[p].kind = None => call[p] = Idle
        /\ call[p].kind = "write" => call[p].done + call[p].index <= call[p].count
        /\ call[p].kind = "read" => call[p].done = 0 /\ call[p].index <= call[p].count
        /\ guard = p => call[p].kind \in {"read", "write"}
=============================================================================
