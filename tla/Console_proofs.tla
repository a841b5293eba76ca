--------------------------- MODULE Console_proofs ---------------------------
(***************************************************************************)
(* The console delivers what was typed and writes what it was given in     *)
(* order, for any number of processes, any sizes of the ring and of the    *)
(* FIFO, and whenever the hardware receives and sends.                     *)
(***************************************************************************)
EXTENDS Console, SequenceTheorems, TLAPS

-----------------------------------------------------------------------------
(* Places in the ring *)

\* Two bytes that are less than a lap apart have different places.
LEMMA PlacesDiffer ==
    ASSUME NEW a \in Nat, NEW b \in Nat, NEW n \in Nat \ {0},
           a < b, b < a + n
    PROVE  a % n # b % n
<1>. DEFINE qa == a \div n
            qb == b \div n
<1>1. qa \in Int
  BY SMT
<1>2. a % n \in Int /\ a = n * qa + (a % n)
  BY SMT
<1>6. qb \in Int
  BY SMT
<1>7. b % n \in Int /\ b = n * qb + (b % n)
  BY SMT
<1>. HIDE DEF qa, qb
<1>. SUFFICES ASSUME a % n = b % n PROVE FALSE
  OBVIOUS
<1>. DEFINE d == qb - qa
<1>3. d \in Int /\ b - a = n * d
  BY <1>1, <1>2, <1>6, <1>7
<1>. HIDE DEF d
<1>4. ASSUME d >= 1 PROVE n * d >= n
  BY <1>3, <1>4
<1>5. ASSUME d <= 0 PROVE n * d <= 0
  BY <1>3, <1>5
<1>. QED  BY <1>3, <1>4, <1>5

LEMMA Place ==
    ASSUME NEW a \in Nat
    PROVE  Slot(a) \in 0..buffer_size - 1
BY ConsoleAssumption DEF Slot

LEMMA SlotsDiffer ==
    ASSUME NEW a \in Nat, NEW b \in Nat, a < b, b < a + buffer_size
    PROVE  Slot(a) # Slot(b)
BY ConsoleAssumption, PlacesDiffer DEF Slot

-----------------------------------------------------------------------------
(* Types and calls *)

CallRecord == [kind : {None, "read", "write"}, count : 0..MaxCount,
               done : 0..MaxCount, index : 0..MaxCount]

LEMMA InitTypes == Init => TypeOK /\ CallInv
<1>. SUFFICES ASSUME Init PROVE TypeOK /\ CallInv
  OBVIOUS
<1>. USE ConsoleAssumption
<1>1. Idle \in CallRecord /\ Idle.kind = None
  BY DEF Idle, Call, CallRecord, None
<1>2. /\ ring \in [0..buffer_size - 1 -> 0..MaxReceived]
      /\ received \in 0..MaxReceived /\ consumed \in Nat
      /\ fifo \in Seq(Process) /\ Len(fifo) <= FifoSize
      /\ call \in [Process -> CallRecord] /\ guard \in Process \cup {None}
      /\ delivered \in Seq(Nat) /\ wire \in [Process -> Seq(Nat)] /\ panic \in BOOLEAN
  BY <1>1 DEF Init
<1>3. CallInv
  BY <1>1 DEF Init, CallInv, None
<1>. QED  BY <1>2, <1>3 DEF TypeOK, CallRecord

LEMMA Types ==
    ASSUME TypeOK
    PROVE  /\ received \in Nat /\ consumed \in Nat /\ fifo \in Seq(Process)
           /\ ring \in [0..buffer_size - 1 -> 0..MaxReceived]
           /\ delivered \in Seq(Nat) /\ wire \in [Process -> Seq(Nat)]
           /\ call \in [Process -> CallRecord]
           /\ AvailableOffset \in 0..buffer_size - 1 /\ ConsumeOffset \in 0..buffer_size - 1
           /\ \A p \in Process : /\ wire[p] \in Seq(Nat) /\ Len(wire[p]) \in Nat
                                 /\ call[p].kind \in {None, "read", "write"}
                                 /\ call[p].index \in Nat /\ call[p].done \in Nat
                                 /\ call[p].count \in Nat
<1>1. /\ received \in Nat /\ consumed \in Nat /\ fifo \in Seq(Process)
      /\ ring \in [0..buffer_size - 1 -> 0..MaxReceived]
      /\ delivered \in Seq(Nat) /\ wire \in [Process -> Seq(Nat)]
      /\ call \in [Process -> CallRecord]
  BY ConsoleAssumption DEF TypeOK, CallRecord
<1>2. AvailableOffset \in 0..buffer_size - 1 /\ ConsumeOffset \in 0..buffer_size - 1
  BY <1>1, Place DEF AvailableOffset, ConsumeOffset
<1>3. ASSUME NEW p \in Process
      PROVE  /\ call[p].kind \in {None, "read", "write"}
             /\ call[p].index \in Nat /\ call[p].done \in Nat /\ call[p].count \in Nat
  BY <1>1, ConsoleAssumption DEF CallRecord
<1>4. ASSUME NEW p \in Process PROVE wire[p] \in Seq(Nat) /\ Len(wire[p]) \in Nat
  BY <1>1
<1>. QED  BY <1>1, <1>2, <1>3, <1>4

\* One step of a call changes the call of one process.
LEMMA CallUpdate ==
    ASSUME TypeOK, NEW p \in Process, NEW x \in CallRecord, call' = [call EXCEPT ![p] = x]
    PROVE  /\ call' \in [Process -> CallRecord]
           /\ call'[p] = x /\ \A o \in Process \ {p} : call'[o] = call[o]
BY DEF TypeOK, CallRecord

LEMMA ProgressRecord ==
    ASSUME NEW c \in CallRecord, NEW done \in 0..MaxCount, NEW index \in 0..MaxCount
    PROVE  /\ Progress(c, done, index) \in CallRecord
           /\ Progress(c, done, index).kind = c.kind
           /\ Progress(c, done, index).count = c.count
           /\ Progress(c, done, index).done = done
           /\ Progress(c, done, index).index = index
BY DEF Progress, CallRecord

\* What a call may be after a step, and what masks interrupts then.
Sound(p, x) ==
    /\ x \in CallRecord /\ call' = [call EXCEPT ![p] = x]
    /\ x.kind = None => x = Idle
    /\ x.kind = "write" => x.done + x.index <= x.count
    /\ x.kind = "read" => x.done = 0 /\ x.index <= x.count
    /\ guard' = p => x.kind \in {"read", "write"}
    /\ guard' \in {guard, None}

\* A step of a call leaves it in such a state.
LEMMA CallStep ==
    ASSUME TypeOK, CallInv, NEW p \in Process,
           \/ ReadByte(p) \/ ReadReturns(p) \/ WriteByte(p) \/ WriteReturns(p)
           \/ \E kind \in {"read", "write"}, count \in 0..MaxCount : Begin(p, kind, count)
    PROVE  \E x \in CallRecord : Sound(p, x)
<1>. USE ConsoleAssumption
<1>0. PICK c \in CallRecord : c = call[p]
  BY DEF TypeOK, CallRecord
<1>1. /\ Idle \in CallRecord /\ Idle.kind = None
      /\ 0 \in 0..MaxCount /\ p # None
  BY DEF CallRecord, Idle, Call, None
<1>2. /\ c.index \in 0..MaxCount /\ c.done \in 0..MaxCount /\ c.count \in 0..MaxCount
      /\ c.kind = "write" => c.done + c.index <= c.count
      /\ c.kind = "read" => c.done = 0 /\ c.index <= c.count
  BY <1>0 DEF CallInv, CallRecord
<1>3. CASE ReadByte(p)
  <2>1. /\ call' = [call EXCEPT ![p] = Progress(c, c.done, c.index + 1)]
        /\ guard' = guard /\ c.kind = "read" /\ c.index < c.count
    BY <1>0, <1>3 DEF ReadByte, More
  <2>2. PICK i \in 0..MaxCount : i = c.index + 1 /\ i <= c.count
    BY <1>2, <2>1
  <2>5. PICK done \in 0..MaxCount : done = c.done
    BY <1>2
  <2>4. PICK x \in CallRecord :
            /\ x = Progress(c, done, i) /\ x.kind = c.kind
            /\ x.count = c.count /\ x.done = done /\ x.index = i
    BY ProgressRecord
  <2>3. Sound(p, x)
    BY <1>1, <1>2, <2>1, <2>2, <2>4, <2>5 DEF Sound, None
  <2>. QED  BY <2>3 DEF Sound
<1>4. CASE WriteByte(p)
  <2>1. /\ call' = [call EXCEPT ![p] = Progress(c, c.done, c.index + 1)]
        /\ guard' = guard /\ c.kind = "write" /\ c.done + c.index < c.count
    BY <1>0, <1>4 DEF WriteByte, NextByte
  <2>2. PICK i \in 0..MaxCount : i = c.index + 1 /\ c.done + i <= c.count
    BY <1>2, <2>1
  <2>5. PICK done \in 0..MaxCount : done = c.done
    BY <1>2
  <2>4. PICK x \in CallRecord :
            /\ x = Progress(c, done, i) /\ x.kind = c.kind
            /\ x.count = c.count /\ x.done = done /\ x.index = i
    BY ProgressRecord
  <2>3. Sound(p, x)
    BY <1>1, <1>2, <2>1, <2>2, <2>4, <2>5 DEF Sound, None
  <2>. QED  BY <2>3 DEF Sound
<1>5. ASSUME guard' = None, call' = [call EXCEPT ![p] = Idle]
      PROVE  \E x \in CallRecord : Sound(p, x)
  <2>1. Sound(p, Idle)
    BY <1>1, <1>5 DEF Sound, None
  <2>. QED  BY <2>1 DEF Sound
<1>6. CASE ReadReturns(p)
  <2>1. CASE c.index > 0
    BY <1>0, <1>5, <1>6, <2>1 DEF ReadReturns, Leave
  <2>2. CASE ~ (c.index > 0)
    <3>1. /\ call' = [call EXCEPT ![p] = Progress(c, 0, 0)]
          /\ guard' = None /\ c.kind = "read"
      BY <1>0, <1>6, <2>2 DEF ReadReturns, Leave
    <3>4. PICK x \in CallRecord :
              /\ x = Progress(c, 0, 0) /\ x.kind = c.kind
              /\ x.count = c.count /\ x.done = 0 /\ x.index = 0
      BY <1>1, ProgressRecord
    <3>2. Sound(p, x)
      BY <1>1, <1>2, <3>1, <3>4 DEF Sound, None
    <3>. QED  BY <3>2 DEF Sound
  <2>. QED  BY <2>1, <2>2
<1>7. CASE WriteReturns(p)
  <2>1. CASE NextByte(p) = c.count
    BY <1>0, <1>5, <1>7, <2>1 DEF WriteReturns, Leave
  <2>2. CASE NextByte(p) # c.count
    <3>1. /\ call' = [call EXCEPT ![p] = Progress(c, c.done + c.index, 0)]
          /\ guard' = None /\ c.kind = "write"
      BY <1>0, <1>7, <2>2 DEF WriteReturns, Leave, NextByte
    <3>2. PICK n \in 0..MaxCount : n = c.done + c.index /\ n + 0 <= c.count
      BY <1>2, <3>1
    <3>4. PICK x \in CallRecord :
              /\ x = Progress(c, n, 0) /\ x.kind = c.kind
              /\ x.count = c.count /\ x.done = n /\ x.index = 0
      BY <1>1, ProgressRecord
    <3>3. Sound(p, x)
      BY <1>1, <1>2, <3>1, <3>2, <3>4 DEF Sound, None
    <3>. QED  BY <3>3 DEF Sound
  <2>. QED  BY <2>1, <2>2
<1>8. ASSUME NEW kind \in {"read", "write"}, NEW count \in 0..MaxCount, Begin(p, kind, count)
      PROVE  \E x \in CallRecord : Sound(p, x)
  <2>1. /\ Call(kind, count) \in CallRecord
        /\ Call(kind, count).kind = kind /\ Call(kind, count).done = 0
        /\ Call(kind, count).index = 0 /\ Call(kind, count).count = count
    BY DEF Call, CallRecord
  <2>2. /\ call' = [call EXCEPT ![p] = IF kind = "write" /\ count = 0 THEN Idle ELSE Call(kind, count)]
        /\ guard' = guard /\ call[p] = Idle
    BY <1>8 DEF Begin
  <2>3. CASE kind = "write" /\ count = 0
    <3>1. call' = [call EXCEPT ![p] = Idle]
      BY <2>2, <2>3
    <3>2. guard # p
      BY <1>1, <2>2 DEF CallInv, None
    <3>3. Sound(p, Idle)
      BY <1>1, <2>2, <3>1, <3>2 DEF Sound, None
    <3>. QED  BY <1>1, <3>3
  <2>4. CASE ~(kind = "write" /\ count = 0)
    <3>1. call' = [call EXCEPT ![p] = Call(kind, count)]
      BY <2>2, <2>4
    <3>2. guard' = guard
      BY <2>2
    <3>3. Sound(p, Call(kind, count))
      BY <2>1, <3>1, <3>2 DEF Sound, None
    <3>. QED  BY <2>1, <3>3
  <2>. QED  BY <2>3, <2>4
<1>. QED  BY <1>3, <1>4, <1>6, <1>7, <1>8

LEMMA NextTypes == TypeOK /\ CallInv /\ [Next]_vars => TypeOK' /\ CallInv'
<1>. SUFFICES ASSUME TypeOK, CallInv, [Next]_vars PROVE TypeOK' /\ CallInv'
  OBVIOUS
<1>. USE ConsoleAssumption
<1>1. CASE UNCHANGED vars
  BY <1>1 DEF vars, input, TypeOK, CallInv
<1>2. CASE Receive
  <2>1. AvailableOffset \in 0..buffer_size - 1
    BY Types
  <2>. QED  BY <1>2, <2>1 DEF Receive, TypeOK, CallInv
<1>3. CASE Transmit
  <2>1. fifo' \in Seq(Process) /\ Len(fifo') <= FifoSize
    <3>1. fifo \in Seq(Process) /\ fifo # <<>> /\ fifo' = Tail(fifo) /\ Len(fifo) <= FifoSize
      BY <1>3 DEF Transmit, TypeOK
    <3>2. fifo' \in Seq(Process) /\ Len(fifo') = Len(fifo) - 1 /\ Len(fifo) \in Nat
      BY <3>1, HeadTailProperties
    <3>. QED  BY <3>1, <3>2
  <2>. QED  BY <1>3, <2>1 DEF Transmit, input, TypeOK, CallInv
<1>4. ASSUME NEW p \in Process, Enter(p) PROVE TypeOK' /\ CallInv'
  <2>1. call[p].kind \in {"read", "write"}
    BY <1>4, Types DEF Enter, CallInv
  <2>. QED  BY <1>4, <2>1 DEF Enter, input, TypeOK, CallInv
<1>5. ASSUME NEW p \in Process, ReadStops(p) PROVE TypeOK' /\ CallInv'
  BY <1>5 DEF ReadStops, input, TypeOK, CallInv
<1>6. ASSUME NEW p \in Process,
             \/ ReadByte(p) \/ ReadReturns(p) \/ WriteByte(p) \/ WriteReturns(p)
             \/ \E kind \in {"read", "write"}, count \in 0..MaxCount : Begin(p, kind, count)
      PROVE  TypeOK' /\ CallInv'
  <2>1. PICK x \in CallRecord : Sound(p, x)
    BY <1>6, CallStep
  <2>2. /\ call' \in [Process -> CallRecord]
        /\ call'[p] = x /\ \A o \in Process \ {p} : call'[o] = call[o]
    BY <2>1, CallUpdate DEF Sound
  <2>3. CallInv'
    BY <2>1, <2>2 DEF CallInv, Sound, TypeOK, None
  <2>4. /\ UNCHANGED <<ring, received, panic>> /\ consumed' \in Nat
        /\ fifo' \in Seq(Process) /\ Len(fifo') <= FifoSize
        /\ delivered' \in Seq(Nat) /\ wire' \in [Process -> Seq(Nat)]
    <3>1. CASE ReadByte(p)
      <4>1. OldestByte \in Nat
        BY Types DEF OldestByte
      <4>. QED  BY <3>1, <4>1, AppendProperties DEF ReadByte, input, TypeOK
    <3>2. CASE WriteByte(p)
      <4>1. NextByte(p) \in Nat
        BY DEF NextByte, TypeOK
      <4>. QED  BY <3>2, <4>1, AppendProperties DEF WriteByte, input, TypeOK
    <3>3. CASE ReadReturns(p) \/ WriteReturns(p)
      BY <3>3 DEF ReadReturns, WriteReturns, input, TypeOK
    <3>4. CASE \E kind \in {"read", "write"}, count \in 0..MaxCount : Begin(p, kind, count)
      BY <3>4 DEF Begin, input, TypeOK
    <3>. QED  BY <1>6, <3>1, <3>2, <3>3, <3>4
  <2>. QED  BY <2>1, <2>2, <2>3, <2>4 DEF TypeOK, CallRecord, Sound
<1>. QED  BY <1>1, <1>2, <1>3, <1>4, <1>5, <1>6 DEF Next, Inside

-----------------------------------------------------------------------------
(* What was typed *)

\* Nothing is overrun before the ring is full for the first time.
LEMMA FirstLap ==
    ASSUME MaxReceived <= buffer_size
    PROVE  (TypeOK => NotOverrun) /\ (TypeOK' => NotOverrun')
<1>1. ASSUME NEW r \in 0..MaxReceived, NEW c \in Nat PROVE r - c <= buffer_size
  BY ConsoleAssumption
<1>. QED  BY <1>1 DEF TypeOK, NotOverrun

LEMMA InitRing == Init => RingInv /\ DeliveredInOrder
BY DEF Init, RingInv, DeliveredInOrder

\* A byte that the DMA writes takes the place of none that is still to be read.
LEMMA ReceiveRing ==
    ASSUME TypeOK, RingInv, DeliveredInOrder, NotOverrun', Receive
    PROVE  RingInv' /\ DeliveredInOrder'
<1>. USE ConsoleAssumption
<1>1. /\ received' = received + 1 /\ ring' = [ring EXCEPT ![Slot(received)] = received + 1]
      /\ consumed' = consumed /\ delivered' = delivered
      /\ received \in Nat /\ consumed \in Nat /\ consumed <= received
      /\ received + 1 - consumed <= buffer_size
      /\ Slot(received) \in 0..buffer_size - 1
      /\ ring \in [0..buffer_size - 1 -> 0..MaxReceived]
  BY Types DEF Receive, AvailableOffset, RingInv, NotOverrun
<1>2. ASSUME NEW k \in consumed..received
      PROVE  ring'[Slot(k)] = k + 1
  <2>0. k \in Nat
    BY <1>1
  <2>3. Slot(k) \in 0..buffer_size - 1
    BY <2>0, Place
  <2>1. CASE k = received
    BY <1>1, <2>1
  <2>2. CASE k < received
    <3>1. Slot(k) # Slot(received)
      BY <1>1, <2>0, <2>2, SlotsDiffer
    <3>2. ring[Slot(k)] = k + 1
      BY <1>1, <2>2 DEF RingInv
    <3>. QED  BY <1>1, <2>3, <3>1, <3>2
  <2>. QED  BY <1>1, <2>1, <2>2
<1>3. RingInv'
  <2>1. received' - 1 = received
    BY <1>1
  <2>. QED  BY <1>1, <1>2, <2>1 DEF RingInv
<1>. QED  BY <1>1, <1>3 DEF DeliveredInOrder

\* The byte that is read is the oldest one that was not read.
LEMMA ReadRing ==
    ASSUME TypeOK, RingInv, DeliveredInOrder, NEW p \in Process, ReadByte(p)
    PROVE  RingInv' /\ DeliveredInOrder'
<1>. USE ConsoleAssumption
<1>1. /\ consumed' = consumed + 1 /\ delivered' = Append(delivered, OldestByte)
      /\ UNCHANGED <<ring, received>>
      /\ received \in Nat /\ consumed \in Nat /\ consumed <= received
      /\ delivered \in Seq(Nat) /\ Len(delivered) = consumed
  BY DEF ReadByte, input, TypeOK, RingInv
<1>2. consumed < received
  <2>1. Slot(received) # Slot(consumed)
    <3>1. /\ Slot(received) \in Int /\ Slot(consumed) \in Int
          /\ call[p].index \in Nat
      BY Types DEF AvailableOffset, ConsumeOffset
    <3>. QED  BY <3>1 DEF ReadByte, More, InputSize, AvailableOffset, ConsumeOffset
  <2>. QED  BY <1>1, <2>1
<1>3. OldestByte = consumed + 1
  BY <1>1, <1>2 DEF OldestByte, ConsumeOffset, RingInv
<1>4. RingInv'
  BY <1>1, <1>2, <1>3, AppendProperties DEF RingInv
<1>5. DeliveredInOrder'
  <2>1. /\ Len(delivered') = consumed + 1
        /\ \A i \in 1..consumed : delivered'[i] = delivered[i]
        /\ delivered'[consumed + 1] = consumed + 1
        /\ DOMAIN delivered' = 1..(consumed + 1) /\ DOMAIN delivered = 1..consumed
    BY <1>1, <1>3, AppendProperties
  <2>. QED  BY <1>1, <2>1 DEF DeliveredInOrder
<1>. QED  BY <1>4, <1>5

LEMMA NextRing ==
    TypeOK /\ RingInv /\ DeliveredInOrder /\ NotOverrun' /\ [Next]_vars
        => RingInv' /\ DeliveredInOrder'
<1>. SUFFICES ASSUME TypeOK, RingInv, DeliveredInOrder, NotOverrun', [Next]_vars
              PROVE  RingInv' /\ DeliveredInOrder'
  OBVIOUS
<1>1. CASE Receive
  BY <1>1, ReceiveRing
<1>2. ASSUME NEW p \in Process, ReadByte(p) PROVE RingInv' /\ DeliveredInOrder'
  BY <1>2, ReadRing
<1>3. ASSUME UNCHANGED <<ring, received, consumed, delivered>>
      PROVE  RingInv' /\ DeliveredInOrder'
  BY <1>3 DEF RingInv, DeliveredInOrder
<1>. QED  BY <1>1, <1>2, <1>3
          DEF Next, Inside, Transmit, Enter, Begin, ReadReturns, ReadStops, WriteByte,
              WriteReturns, vars, input

-----------------------------------------------------------------------------
(* What is written *)

\* The UART's loop gives the next byte of the call.
LEMMA WriteByteOrder ==
    ASSUME TypeOK, CallInv, WrittenInOrder, NEW p \in Process, WriteByte(p)
    PROVE  WrittenInOrder'
<1>. USE ConsoleAssumption
<1>10. call[p].done + call[p].index \in Nat /\ wire[p] \in Seq(Nat)
  BY Types
<1>0. PICK n \in Nat, w \in Seq(Nat) : n = call[p].done + call[p].index /\ w = wire[p]
  BY <1>10
<1>11. call[p].kind = "write"
  BY DEF WriteByte
<1>1. /\ Len(w) \in Nat /\ Len(w) >= n
      /\ \A i \in 1..n : w[Len(w) - n + i] = i - 1
  BY <1>0, <1>11 DEF WrittenInOrder
<1>2. /\ wire' = [wire EXCEPT ![p] = Append(w, n)]
      /\ call' = [call EXCEPT ![p] = Progress(call[p], call[p].done, call[p].index + 1)]
  BY <1>0 DEF WriteByte, NextByte
<1>7. /\ wire'[p] = Append(w, n)
      /\ call'[p] = Progress(call[p], call[p].done, call[p].index + 1)
      /\ \A o \in Process \ {p} : call'[o] = call[o] /\ wire'[o] = wire[o]
  BY <1>2, Types
<1>8. call'[p].done = call[p].done /\ call'[p].index = call[p].index + 1
  BY <1>7 DEF Progress
<1>12. PICK d \in Nat, h \in Nat : d = call[p].done /\ h = call[p].index
  BY Types
<1>13. call'[p].done = d /\ call'[p].index = h + 1 /\ n = d + h
  BY <1>0, <1>8, <1>12
<1>14. d + (h + 1) = n + 1
  BY <1>13
<1>3. call'[p].done + call'[p].index = n + 1
  BY <1>13, <1>14
<1>4. /\ Len(Append(w, n)) = Len(w) + 1
      /\ \A j \in 1..Len(w) : Append(w, n)[j] = w[j]
      /\ Append(w, n)[Len(w) + 1] = n
  BY <1>1, AppendProperties
<1>5. ASSUME NEW i \in 1..(n + 1)
      PROVE  Append(w, n)[Len(w) + 1 - (n + 1) + i] = i - 1
  <2>1. Len(w) + 1 - (n + 1) + i = Len(w) - n + i
    BY <1>1
  <2>2. CASE i = n + 1
    <3>1. Len(w) - n + i = Len(w) + 1
      BY <1>1, <2>2
    <3>. QED  BY <1>1, <1>4, <2>1, <2>2, <3>1
  <2>3. CASE i \in 1..n
    <3>1. Len(w) - n + i \in 1..Len(w)
      BY <1>1, <2>3
    <3>. QED  BY <1>1, <1>4, <2>1, <2>3, <3>1
  <2>. QED  BY <1>1, <2>2, <2>3
<1>6. /\ Len(wire'[p]) >= call'[p].done + call'[p].index
      /\ \A i \in 1..(call'[p].done + call'[p].index) :
             wire'[p][Len(wire'[p]) - (call'[p].done + call'[p].index) + i] = i - 1
  <2>1. Len(wire'[p]) = Len(w) + 1 /\ Len(w) + 1 >= n + 1
    BY <1>1, <1>4, <1>7
  <2>2. \A i \in 1..(n + 1) : wire'[p][Len(w) + 1 - (n + 1) + i] = i - 1
    BY <1>5, <1>7
  <2>3. ASSUME NEW i \in 1..(call'[p].done + call'[p].index)
        PROVE  wire'[p][Len(wire'[p]) - (call'[p].done + call'[p].index) + i] = i - 1
    <3>1. i \in 1..(n + 1)
      BY <1>3
    <3>2. Len(wire'[p]) - (call'[p].done + call'[p].index) + i = Len(w) + 1 - (n + 1) + i
      BY <1>3, <2>1
    <3>. QED  BY <2>2, <3>1, <3>2
  <2>. QED  BY <1>3, <2>1, <2>3
<1>9. ASSUME NEW o \in Process \ {p}, call'[o].kind = "write"
      PROVE  /\ Len(wire'[o]) >= call'[o].done + call'[o].index
             /\ \A i \in 1..(call'[o].done + call'[o].index) :
                    wire'[o][Len(wire'[o]) - (call'[o].done + call'[o].index) + i] = i - 1
  BY <1>7, <1>9 DEF WrittenInOrder
<1>. QED  BY <1>6, <1>9 DEF WrittenInOrder

\* The other steps write nothing; a loop that ends has counted what it wrote.
LEMMA OtherOrder ==
    ASSUME TypeOK, WrittenInOrder, UNCHANGED wire,
           \A p \in Process : call'[p].kind = "write" =>
               \/ call'[p].done + call'[p].index = 0
               \/ /\ call[p].kind = "write"
                  /\ call'[p].done + call'[p].index = call[p].done + call[p].index
    PROVE  WrittenInOrder'
<1>. SUFFICES ASSUME NEW p \in Process, call'[p].kind = "write"
              PROVE  LET n == call'[p].done + call'[p].index
                         w == wire[p]
                     IN  Len(w) >= n /\ \A i \in 1..n : w[Len(w) - n + i] = i - 1
  BY DEF WrittenInOrder
<1>1. Len(wire[p]) \in Nat
  BY DEF TypeOK
<1>. QED  BY <1>1 DEF WrittenInOrder

LEMMA NextOrder == TypeOK /\ CallInv /\ WrittenInOrder /\ [Next]_vars => WrittenInOrder'
<1>. SUFFICES ASSUME TypeOK, CallInv, WrittenInOrder, [Next]_vars PROVE WrittenInOrder'
  OBVIOUS
<1>. USE ConsoleAssumption
<1>1. ASSUME NEW p \in Process, WriteByte(p) PROVE WrittenInOrder'
  BY <1>1, WriteByteOrder
<1>2. ASSUME UNCHANGED <<call, wire>> PROVE WrittenInOrder'
  BY <1>2 DEF WrittenInOrder
<1>3. ASSUME NEW p \in Process, NEW kind \in {"read", "write"}, NEW count \in 0..MaxCount,
             Begin(p, kind, count)
      PROVE  WrittenInOrder'
  <2> DEFINE x == IF kind = "write" /\ count = 0 THEN Idle ELSE Call(kind, count)
  <2>1. x.done = 0 /\ x.index = 0
    <3>1. Idle.done = 0 /\ Idle.index = 0
      BY DEF Idle, Call
    <3>2. Call(kind, count).done = 0 /\ Call(kind, count).index = 0
      BY DEF Call
    <3>. QED  BY <3>1, <3>2
  <2>2. call' = [call EXCEPT ![p] = x] /\ UNCHANGED wire
    BY <1>3 DEF Begin
  <2>. HIDE DEF x
  <2>3. /\ call'[p].done = 0 /\ call'[p].index = 0
        /\ \A o \in Process \ {p} : call'[o] = call[o]
    BY <2>1, <2>2, Types
  <2>. QED  BY <2>2, <2>3, OtherOrder
<1>4. ASSUME NEW p \in Process, ReadByte(p) \/ ReadReturns(p)
      PROVE  WrittenInOrder'
  <2>1. PICK x : /\ call' = [call EXCEPT ![p] = x] /\ x.kind # "write"
    <3>1. Idle.kind # "write"
      BY DEF Idle, Call, None
    <3>2. ASSUME NEW done, NEW index, call[p].kind = "read"
          PROVE  Progress(call[p], done, index).kind # "write"
      BY <3>2 DEF Progress
    <3>3. CASE ReadByte(p)
      BY <3>2, <3>3 DEF ReadByte
    <3>4. CASE ReadReturns(p)
      BY <3>1, <3>2, <3>4 DEF ReadReturns, Leave
    <3>. QED  BY <1>4, <3>3, <3>4
  <2>2. call'[p].kind # "write" /\ \A o \in Process \ {p} : call'[o] = call[o]
    BY <2>1, Types
  <2>3. UNCHANGED wire
    BY <1>4 DEF ReadByte, ReadReturns
  <2>. QED  BY <2>2, <2>3, OtherOrder
<1>5. ASSUME NEW p \in Process, WriteReturns(p) PROVE WrittenInOrder'
  <2>1. /\ UNCHANGED wire /\ \A o \in Process \ {p} : call'[o] = call[o]
        /\ call[p].kind = "write" /\ call[p].done \in Nat /\ call[p].index \in Nat
    BY <1>5 DEF WriteReturns, Leave, TypeOK
  <2>2. CASE NextByte(p) = call[p].count
    <3>1. call'[p].kind # "write"
      BY <1>5, <2>2 DEF WriteReturns, Leave, Idle, Call, None, TypeOK
    <3>. QED  BY <2>1, <3>1, OtherOrder
  <2>3. CASE NextByte(p) # call[p].count
    <3>1. call'[p].done = NextByte(p) /\ call'[p].index = 0
      <4>1. call' = [call EXCEPT ![p] = Progress(call[p], NextByte(p), 0)]
        BY <1>5, <2>3 DEF WriteReturns, Leave
      <4>2. call'[p] = Progress(call[p], NextByte(p), 0)
        BY <4>1, Types
      <4>. QED  BY <4>2 DEF Progress
    <3>2. call'[p].done + call'[p].index = call[p].done + call[p].index
      BY <2>1, <3>1 DEF NextByte
    <3>. QED  BY <2>1, <3>2, OtherOrder
  <2>. QED  BY <2>2, <2>3
<1>. QED  BY <1>1, <1>2, <1>3, <1>4, <1>5
          DEF Next, Inside, Receive, Transmit, Enter, ReadStops, vars, input

-----------------------------------------------------------------------------
(* The theorems *)

\* The types hold for every number of processes and all sizes.
THEOREM TypeCorrect == Spec => [](TypeOK /\ CallInv)
BY InitTypes, NextTypes, PTL DEF Spec

\* As long as the DMA is at most one lap ahead of the readers, the bytes that were
\* typed reach the processes in the order in which they came, each once
\* (UART.cpp:67-70).
THEOREM InputInOrder == Spec /\ []NotOverrun => []DeliveredInOrder
<1>. DEFINE IInv == TypeOK /\ CallInv /\ RingInv /\ DeliveredInOrder
<1>1. Init => IInv
  BY InitTypes, InitRing
<1>2. IInv /\ NotOverrun' /\ [Next]_vars => IInv'
  BY NextTypes, NextRing
<1>. QED  BY <1>1, <1>2, PTL DEF Spec

\* In particular nothing can go wrong before the ring is full for the first time.
THEOREM FirstLapInOrder ==
    ASSUME MaxReceived <= buffer_size
    PROVE  Spec => []DeliveredInOrder
<1>1. TypeOK => NotOverrun
  BY ConsoleAssumption, FirstLap
<1>. QED  BY <1>1, TypeCorrect, InputInOrder, PTL

\* Nor does a read stop the machine before that: the assertion of input_buffer_size()
\* (UART.cpp:103) fails only once the write address of the DMA has wrapped around.
THEOREM FirstLapGoesOn ==
    ASSUME MaxReceived < buffer_size
    PROVE  Spec => []AvailableAfterConsumed
<1>. DEFINE IInv == TypeOK /\ CallInv /\ RingInv /\ DeliveredInOrder /\ NotOverrun
<1>1. TypeOK => NotOverrun
  BY ConsoleAssumption, FirstLap
<1>2. Init => IInv /\ AvailableAfterConsumed
  BY <1>1, InitTypes, InitRing DEF Init, AvailableAfterConsumed
<1>3. IInv /\ [Next]_vars => IInv'
  <2>1. TypeOK' => NotOverrun'
    BY ConsoleAssumption, FirstLap
  <2>. QED  BY <2>1, NextTypes, NextRing
<1>4. IInv /\ AvailableAfterConsumed /\ [Next]_vars => AvailableAfterConsumed'
  <2>. SUFFICES ASSUME IInv, AvailableAfterConsumed, [Next]_vars PROVE AvailableAfterConsumed'
    OBVIOUS
  <2>1. InputSize >= 0
    <3>1. received \in 0..MaxReceived /\ consumed \in Nat /\ consumed <= received
      BY DEF TypeOK, RingInv
    <3>2. AvailableOffset = received /\ ConsumeOffset = consumed
      BY <3>1, ConsoleAssumption DEF AvailableOffset, ConsumeOffset, Slot
    <3>. QED  BY <3>1, <3>2, ConsoleAssumption DEF InputSize
  <2>2. \A p \in Process : ~ ReadStops(p)
    BY <2>1, Types DEF ReadStops, InputSize
  <2>3. UNCHANGED panic
    BY <2>2 DEF Next, Inside, Receive, Transmit, Enter, Begin, ReadByte, ReadReturns,
                WriteByte, WriteReturns, vars, input
  <2>. QED  BY <2>3 DEF AvailableAfterConsumed
<1>. QED  BY <1>2, <1>3, <1>4, PTL DEF Spec

\* A write gives its bytes to the UART in order and each once, however many the UART
\* takes at a time and whoever writes meanwhile (ConsoleDevice.cpp:26-28, UART.cpp:85-95).
THEOREM OutputInOrder == Spec => []WrittenInOrder
<1>1. Init => WrittenInOrder
  BY DEF Init, WrittenInOrder, Idle, Call, None
<1>. QED  BY <1>1, InitTypes, NextTypes, NextOrder, PTL DEF Spec
=============================================================================
