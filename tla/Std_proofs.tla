----------------------------- MODULE Std_proofs -----------------------------
(***************************************************************************)
(* Proofs about the containers: a CircularQueue of any size is a deque,    *)
(* and vectors of any number and capacity are sequences, although append() *)
(* moves their elements from block to block, and a method is the sequence  *)
(* of the methods that it calls; about the owning pointers, for any        *)
(* objects, variables and Optionals; and about paths, which are written as *)
(* the texts that they are read from, for any texts.                       *)
(*                                                                         *)
(* In the middle of a method of a pointer some cells have been released    *)
(* and some objects are being destroyed.  The invariant says which of them *)
(* the rest of the method will empty and delete, and which assignment the  *)
(* method will have been.  In the middle of the constructor of a path, it  *)
(* says what the components make of the text that was consumed.            *)
(***************************************************************************)
EXTENDS MCStd, DataLemmas

-----------------------------------------------------------------------------
(* Arithmetic of the ring *)

\* One lap around the ring (CircularQueue.hpp:72, 79, 87, 137, 150).
LEMMA Wrap ==
    ASSUME NEW n \in Nat \ {0}, NEW x \in 0 .. 2 * n - 1
    PROVE  x % n = IF x < n THEN x ELSE x - n
<1>1. ASSUME x < n PROVE x % n = x
  BY <1>1, SMT
<1>2. ASSUME x >= n PROVE x % n = x - n
  BY <1>2, SMT
<1> QED
  BY <1>1, <1>2

\* The slot of an element, without the modulus.
At(offset, size, index) ==
    IF offset - size + index < 0 THEN offset - size + index + Size ELSE offset - size + index

\* A slot computed by operator[] is a slot of the ring (CircularQueue.hpp:87).
LEMMA SlotAt ==
    ASSUME NEW offset \in 0 .. Size - 1, NEW size \in 0 .. Size, NEW index \in 0 .. size
    PROVE  /\ (offset - size + index + Size) % Size = At(offset, size, index)
           /\ At(offset, size, index) \in 0 .. Size - 1
<1> DEFINE x == offset - size + index + Size
<1>1. x \in 0 .. 2 * Size - 1
  BY CircularQueueAssumption
<1>2. x % Size = IF x < Size THEN x ELSE x - Size
  <2> HIDE DEF x
  <2> QED BY <1>1, Wrap, CircularQueueAssumption
<1> QED
  BY <1>2, CircularQueueAssumption DEF At

\* The next offset.
LEMMA NextOffset ==
    ASSUME NEW offset \in 0 .. Size - 1, NEW k \in 0 .. Size
    PROVE  /\ (offset + k) % Size = IF offset + k < Size THEN offset + k ELSE offset + k - Size
           /\ (offset + k) % Size \in 0 .. Size - 1
<1> DEFINE x == offset + k
<1>1. x \in 0 .. 2 * Size - 1
  BY CircularQueueAssumption
<1>2. x % Size = IF x < Size THEN x ELSE x - Size
  <2> HIDE DEF x
  <2> QED BY <1>1, Wrap, CircularQueueAssumption
<1> QED
  BY <1>2, CircularQueueAssumption

\* The slot before the front, where enqueue_front() writes (CircularQueue.hpp:150).
LEMMA PreviousSlot ==
    ASSUME NEW offset \in 0 .. Size - 1, NEW size \in 0 .. Size - 1
    PROVE  /\ (offset - size - 1 + Size) % Size = At(offset, size + 1, 0)
           /\ At(offset, size + 1, 0) \in 0 .. Size - 1
<1> DEFINE x == offset - size - 1 + Size
<1>1. x \in 0 .. 2 * Size - 1
  BY CircularQueueAssumption
<1>2. x % Size = IF x < Size THEN x ELSE x - Size
  <2> HIDE DEF x
  <2> QED BY <1>1, Wrap, CircularQueueAssumption
<1> QED
  BY <1>2, CircularQueueAssumption DEF At

-----------------------------------------------------------------------------
(* Types *)

\* The types and the bounds of the ring hold for every size.
THEOREM TypeCorrect == Spec => []TypeOK
<1>1. Init => TypeOK
  <2>1. 0 \in 0 .. Size - 1 /\ 0 \in 0 .. Size
    BY CircularQueueAssumption
  <2> QED
    BY <2>1 DEF Init, TypeOK
<1>2. ASSUME TypeOK, [Next]_vars PROVE TypeOK'
  <2> USE <1>2, CircularQueueAssumption
  <2>1. ASSUME NEW q \in Queue, NEW v \in Value, Put(q, v) PROVE TypeOK'
    <3>1. (m_offset[q] + 1) % Size \in 0 .. Size - 1
      <4>1. m_offset[q] \in 0 .. Size - 1 /\ 1 \in 0 .. Size
        BY DEF TypeOK
      <4> QED BY <4>1, NextOffset
    <3>2. m_offset' \in [Queue -> 0 .. Size - 1] /\ m_size' \in [Queue -> 0 .. Size]
      BY <2>1, <3>1 DEF TypeOK, Put
    <3>3. m_data' \in [Queue -> [0 .. Size - 1 -> Value]]
      BY <2>1 DEF TypeOK, Put
    <3>4. m_data'[q][Back(q)'] \in Value
      <4>1. Back(q)' \in 0 .. Size - 1
        BY <3>2 DEF Back
      <4> QED BY <4>1, <3>3
    <3> QED
      BY <2>1, <3>2, <3>3, <3>4 DEF TypeOK, Put
  <2>2. ASSUME NEW q \in Queue, NEW v \in Value, PutFront(q, v) PROVE TypeOK'
    <3>1. m_offset' \in [Queue -> 0 .. Size - 1] /\ m_size' \in [Queue -> 0 .. Size]
      BY <2>2 DEF TypeOK, PutFront
    <3>2. m_data' \in [Queue -> [0 .. Size - 1 -> Value]]
      BY <2>2 DEF TypeOK, PutFront
    <3>3. m_data'[q][Front(q)'] \in Value
      <4>1. Front(q)' \in 0 .. Size - 1
        BY <3>1 DEF Front
      <4> QED BY <4>1, <3>2
    <3> QED
      BY <2>2, <3>1, <3>2, <3>3 DEF TypeOK, PutFront
  <2>3. ASSUME NEW q \in Queue, Take(q) PROVE TypeOK'
    <3>1. Front(q) \in 0 .. Size - 1
      BY DEF TypeOK, Front
    <3> QED
      BY <2>3, <3>1 DEF TypeOK, Take
  <2>4. ASSUME NEW q \in Queue, Clear(q) PROVE TypeOK'
    BY <2>4 DEF TypeOK, Clear
  <2>5. ASSUME NEW q \in Queue, NEW from \in Queue \ {q}, Move(q, from) PROVE TypeOK'
    <3>1. (m_offset[q] + m_size[from]) % Size \in 0 .. Size - 1
      <4>1. m_offset[q] \in 0 .. Size - 1 /\ m_size[from] \in 0 .. Size
        BY DEF TypeOK
      <4> QED BY <4>1, NextOffset
    <3>2. m_offset' \in [Queue -> 0 .. Size - 1] /\ m_size' \in [Queue -> 0 .. Size]
      <4>1. /\ m_offset' = [m_offset EXCEPT ![q] = (@ + m_size[from]) % Size]
            /\ m_size' = [m_size EXCEPT ![q] = m_size[from], ![from] = 0]
        BY <2>5 DEF Move
      <4>2. 0 \in 0 .. Size
        OBVIOUS
      <4> QED BY <3>1, <4>1, <4>2 DEF TypeOK
    <3> DEFINE written(slot) == (slot - m_offset[q] + Size) % Size
               moved == [slot \in 0 .. Size - 1 |->
                            IF written(slot) < m_size[from]
                            THEN m_data[from][Slot(from, written(slot))]
                            ELSE m_data[q][slot]]
    <3>3. moved \in [0 .. Size - 1 -> Value]
      <4> SUFFICES ASSUME NEW slot \in 0 .. Size - 1
                   PROVE  m_data[from][Slot(from, written(slot))] \in Value
                          /\ m_data[q][slot] \in Value
        OBVIOUS
      <4>1. written(slot) \in 0 .. Size - 1
        BY DEF TypeOK
      <4> HIDE DEF written
      <4>2. Slot(from, written(slot)) \in 0 .. Size - 1
        BY <4>1 DEF Slot, TypeOK
      <4> QED BY <4>2 DEF TypeOK
    <3>4. m_data' = [m_data EXCEPT ![q] = moved]
      BY <2>5 DEF Move
    <3> HIDE DEF moved
    <3>5. m_data' \in [Queue -> [0 .. Size - 1 -> Value]]
      BY <3>3, <3>4 DEF TypeOK
    <3> QED
      BY <2>5, <3>2, <3>5 DEF TypeOK, Move
  <2>6. ASSUME NEW q \in Queue, NEW limit, AssertFails(q, limit) PROVE TypeOK'
    BY <2>6 DEF TypeOK, AssertFails, ringVars
  <2>7. CASE UNCHANGED vars
    BY <2>7 DEF TypeOK, vars, ringVars
  <2> QED
    BY <1>2, <2>1, <2>2, <2>3, <2>4, <2>5, <2>6, <2>7 DEF Next, Enqueue, EnqueueFront, Dequeue
<1> QED
  BY <1>1, <1>2, PTL DEF Spec

-----------------------------------------------------------------------------
(* The slots of the elements before and after each operation *)

\* Advancing the offset and the size leaves the slots of the elements where they
\* were, and the new element is behind them (CircularQueue.hpp:135-138).
LEMMA SlotsAfterPut ==
    ASSUME NEW o \in 0 .. Size - 1, NEW s \in 0 .. Size - 1, NEW j \in 0 .. s
    PROVE  /\ At((o + 1) % Size, s + 1, j) = IF j = s THEN o ELSE At(o, s, j)
           /\ j < s => At(o, s, j) # o
<1>1. (o + 1) % Size = IF o + 1 < Size THEN o + 1 ELSE o + 1 - Size
  <2>1. 1 \in 0 .. Size
    BY CircularQueueAssumption
  <2> QED BY <2>1, NextOffset
<1> QED
  BY <1>1, CircularQueueAssumption DEF At

\* back() is the slot that enqueue() wrote (CircularQueue.hpp:79, 141).
LEMMA BackAfterPut ==
    ASSUME NEW o \in 0 .. Size - 1
    PROVE  (((o + 1) % Size) - 1 + Size) % Size = o
<1>1. (o + 1) % Size = IF o + 1 < Size THEN o + 1 ELSE o + 1 - Size
  <2>1. 1 \in 0 .. Size
    BY CircularQueueAssumption
  <2> QED BY <2>1, NextOffset
<1> DEFINE next == (o + 1) % Size
           x == next - 1 + Size
<1>2. x \in 0 .. 2 * Size - 1 /\ (x = o + Size \/ x = o)
  <2>1. next = IF o + 1 < Size THEN o + 1 ELSE o + 1 - Size
    BY <1>1
  <2> HIDE DEF next
  <2> QED BY <2>1, CircularQueueAssumption
<1> HIDE DEF x
<1>3. x % Size = IF x < Size THEN x ELSE x - Size
  BY <1>2, Wrap, CircularQueueAssumption
<1>4. x % Size = o
  BY <1>2, <1>3, CircularQueueAssumption
<1> QED
  BY <1>4 DEF x

\* A larger size moves the front one slot back (CircularQueue.hpp:150-154).
LEMMA SlotsAfterPutFront ==
    ASSUME NEW o \in 0 .. Size - 1, NEW s \in 0 .. Size - 1, NEW j \in 0 .. s
    PROVE  /\ j < s => At(o, s + 1, j + 1) = At(o, s, j)
           /\ j < s => At(o, s, j) # At(o, s + 1, 0)
  BY CircularQueueAssumption DEF At

\* A smaller size moves the front to the next slot (CircularQueue.hpp:91-101).
LEMMA SlotsAfterTake ==
    ASSUME NEW o \in 0 .. Size - 1, NEW s \in 1 .. Size, NEW j \in 0 .. s - 2
    PROVE  At(o, s - 1, j) = At(o, s, j + 1)
  BY CircularQueueAssumption DEF At

\* The slot that receives element j of a queue with k elements, and back again.
LEMMA SlotsAfterMove ==
    ASSUME NEW o \in 0 .. Size - 1, NEW k \in 0 .. Size, NEW j \in 0 .. k - 1
    PROVE  /\ At((o + k) % Size, k, j) \in 0 .. Size - 1
           /\ (At((o + k) % Size, k, j) - o + Size) % Size = j
<1>1. /\ (o + k) % Size = IF o + k < Size THEN o + k ELSE o + k - Size
      /\ (o + k) % Size \in 0 .. Size - 1
  BY NextOffset
<1> DEFINE slot == At((o + k) % Size, k, j)
<1>2. slot = IF o + j < Size THEN o + j ELSE o + j - Size
  BY <1>1, CircularQueueAssumption DEF At
<1>3. slot \in 0 .. Size - 1
  BY <1>2, CircularQueueAssumption
<1> DEFINE x == slot - o + Size
<1>4. x \in 0 .. 2 * Size - 1 /\ (x = j + Size \/ x = j)
  <2> HIDE DEF slot
  <2> QED BY <1>2, <1>3, CircularQueueAssumption
<1>5. x % Size = IF x < Size THEN x ELSE x - Size
  <2> HIDE DEF x
  <2> QED BY <1>4, Wrap, CircularQueueAssumption
<1>6. x % Size = j
  <2> HIDE DEF x
  <2> QED BY <1>4, <1>5, CircularQueueAssumption
<1> QED
  BY <1>3, <1>6

-----------------------------------------------------------------------------
(* The refinement *)

\* Content, element by element, without the modulus.
ContentElements ==
    \A q \in Queue :
        /\ Content[q] \in Seq(Value)
        /\ Len(Content[q]) = m_size[q]
        /\ \A i \in 1 .. m_size[q] :
              /\ At(m_offset[q], m_size[q], i - 1) \in 0 .. Size - 1
              /\ Content[q][i] = m_data[q][At(m_offset[q], m_size[q], i - 1)]

\* In a well typed state the content of a queue is a sequence of m_size elements
\* (CircularQueue.hpp:83-89).
LEMMA ContentIsSequence == TypeOK => ContentElements
<1> SUFFICES ASSUME TypeOK, NEW q \in Queue
             PROVE  /\ Content[q] \in Seq(Value)
                    /\ Len(Content[q]) = m_size[q]
                    /\ \A i \in 1 .. m_size[q] :
                          /\ At(m_offset[q], m_size[q], i - 1) \in 0 .. Size - 1
                          /\ Content[q][i] = m_data[q][At(m_offset[q], m_size[q], i - 1)]
  BY DEF ContentElements
<1>1. /\ m_offset[q] \in 0 .. Size - 1 /\ m_size[q] \in 0 .. Size
      /\ m_data[q] \in [0 .. Size - 1 -> Value]
  BY DEF TypeOK
<1>2. \A i \in 1 .. m_size[q] :
         /\ Slot(q, i - 1) = At(m_offset[q], m_size[q], i - 1)
         /\ At(m_offset[q], m_size[q], i - 1) \in 0 .. Size - 1
  <2> TAKE i \in 1 .. m_size[q]
  <2>1. i - 1 \in 0 .. m_size[q]
    BY <1>1
  <2> QED
    BY <1>1, <2>1, SlotAt DEF Slot
<1>3. Content[q] = [i \in 1 .. m_size[q] |-> m_data[q][Slot(q, i - 1)]]
  BY DEF Content
<1>4. \A i \in 1 .. m_size[q] : m_data[q][Slot(q, i - 1)] \in Value
  BY <1>1, <1>2
<1>5. m_size[q] \in Nat
  BY <1>1, CircularQueueAssumption
<1>6. Content[q] \in [1 .. m_size[q] -> Value]
  BY <1>3, <1>4
<1>7. Content[q] \in Seq(Value) /\ Len(Content[q]) = m_size[q]
  BY <1>5, <1>6
<1> QED
  BY <1>2, <1>3, <1>7

\* Two contents agree when the lengths and the elements do.
LEMMA ContentEqual ==
    ASSUME TypeOK', NEW q \in Queue, NEW s \in Seq(Value),
           m_size'[q] = Len(s),
           \A i \in 1 .. Len(s) :
              m_data'[q][At(m_offset'[q], m_size'[q], i - 1)] = s[i]
    PROVE  Content'[q] = s
<1>1. ContentElements'
  BY ContentIsSequence, PTL
<1>2. /\ Content'[q] \in Seq(Value)
      /\ Len(Content'[q]) = m_size'[q]
      /\ \A i \in 1 .. m_size'[q] :
            Content'[q][i] = m_data'[q][At(m_offset'[q], m_size'[q], i - 1)]
  BY <1>1 DEF ContentElements
<1> QED
  BY <1>2, SeqEqual

\* A queue that an operation leaves alone keeps its content.
LEMMA ContentKept ==
    ASSUME NEW r \in Queue,
           m_offset'[r] = m_offset[r], m_size'[r] = m_size[r], m_data'[r] = m_data[r]
    PROVE  Content'[r] = Content[r]
  BY DEF Content, Slot

\* The effect of each operation on the contents.
LEMMA PutAppends ==
    ASSUME TypeOK, TypeOK', NEW q \in Queue, NEW v \in Value, Put(q, v)
    PROVE  Content' = [Content EXCEPT ![q] = Append(Content[q], v)] /\ returned' = v
<1> DEFINE o == m_offset[q]
           s == m_size[q]
<1>1. ContentElements
  BY ContentIsSequence
<1>2. /\ o \in 0 .. Size - 1 /\ s \in 0 .. Size - 1
      /\ m_offset'[q] = (o + 1) % Size /\ m_size'[q] = s + 1
      /\ m_data'[q] = [m_data[q] EXCEPT ![o] = v]
      /\ m_data[q] \in [0 .. Size - 1 -> Value]
  BY CircularQueueAssumption DEF Put, TypeOK
<1>3. /\ Content[q] \in Seq(Value) /\ Len(Content[q]) = s
      /\ \A i \in 1 .. s : /\ At(o, s, i - 1) \in 0 .. Size - 1
                          /\ Content[q][i] = m_data[q][At(o, s, i - 1)]
  BY <1>1 DEF ContentElements
<1> HIDE DEF o, s
<1>4. /\ Append(Content[q], v) \in Seq(Value)
      /\ Len(Append(Content[q], v)) = s + 1
      /\ \A i \in 1 .. s : Append(Content[q], v)[i] = Content[q][i]
      /\ Append(Content[q], v)[s + 1] = v
  BY <1>3, AppendProperties
<1>5. \A i \in 1 .. s + 1 :
         m_data'[q][At((o + 1) % Size, s + 1, i - 1)] = Append(Content[q], v)[i]
  <2> TAKE i \in 1 .. s + 1
  <2>1. i - 1 \in 0 .. s
    BY <1>2
  <2>2. /\ At((o + 1) % Size, s + 1, i - 1) = IF i - 1 = s THEN o ELSE At(o, s, i - 1)
        /\ i - 1 < s => At(o, s, i - 1) # o
    BY <1>2, <2>1, SlotsAfterPut
  <2>3. CASE i - 1 = s
    <3>1. i = s + 1
      BY <2>3, <1>2
    <3> QED
      BY <2>3, <2>2, <3>1, <1>2, <1>4
  <2>4. CASE i - 1 # s
    <3>1. i \in 1 .. s /\ i - 1 < s
      BY <2>4, <1>2
    <3> QED
      BY <2>4, <3>1, <2>2, <1>2, <1>3, <1>4
  <2> QED
    BY <2>3, <2>4
<1>6. Content'[q] = Append(Content[q], v)
  BY <1>2, <1>4, <1>5, ContentEqual
<1>7. \A r \in Queue \ {q} : Content'[r] = Content[r]
  BY ContentKept DEF Put, TypeOK
<1>8. returned' = v
  <2>1. returned' = m_data'[q][(m_offset'[q] - 1 + Size) % Size]
    BY DEF Put, Back
  <2>2. (m_offset'[q] - 1 + Size) % Size = o
    BY <1>2, BackAfterPut
  <2> QED
    BY <2>1, <2>2, <1>2
<1> QED
  BY <1>6, <1>7, <1>8 DEF Content

\* A sequence with one more element in front, as enqueue_front() leaves it.
LEMMA PrependProperties ==
    ASSUME NEW S, NEW elements \in Seq(S), NEW e \in S
    PROVE  /\ <<e>> \o elements \in Seq(S)
           /\ Len(<<e>> \o elements) = Len(elements) + 1
           /\ (<<e>> \o elements)[1] = e
           /\ \A i \in 1 .. Len(elements) : (<<e>> \o elements)[i + 1] = elements[i]
<1> DEFINE one == <<e>>
<1>1. one \in Seq(S) /\ Len(one) = 1 /\ one[1] = e
  OBVIOUS
<1> HIDE DEF one
<1>2. /\ one \o elements \in Seq(S)
      /\ Len(one \o elements) = Len(one) + Len(elements)
      /\ \A i \in 1 .. Len(one) + Len(elements) :
            (one \o elements)[i] =
                IF i <= Len(one) THEN one[i] ELSE elements[i - Len(one)]
  BY <1>1, ConcatProperties
<1>3. Len(elements) \in Nat
  OBVIOUS
<1>4. \A i \in 1 .. Len(elements) : (one \o elements)[i + 1] = elements[i]
  <2> TAKE i \in 1 .. Len(elements)
  <2>1. i + 1 \in 1 .. 1 + Len(elements) /\ ~(i + 1 <= 1) /\ (i + 1) - 1 = i
    BY <1>3
  <2> QED
    BY <1>1, <1>2, <2>1
<1> QED
  BY <1>1, <1>2, <1>3, <1>4 DEF one

\* enqueue_front() puts the element before the others and changes none
\* (CircularQueue.hpp:144-157).
LEMMA PutFrontPrepends ==
    ASSUME TypeOK, TypeOK', NEW q \in Queue, NEW v \in Value, PutFront(q, v)
    PROVE  Content' = [Content EXCEPT ![q] = <<v>> \o Content[q]] /\ returned' = v
<1> DEFINE o == m_offset[q]
           s == m_size[q]
<1>1. ContentElements
  BY ContentIsSequence
<1>2. /\ o \in 0 .. Size - 1 /\ s \in 0 .. Size - 1 /\ s \in Nat
      /\ m_offset'[q] = o /\ m_size'[q] = s + 1
      /\ m_data'[q] = [m_data[q] EXCEPT ![(o - s - 1 + Size) % Size] = v]
      /\ m_data[q] \in [0 .. Size - 1 -> Value]
  BY CircularQueueAssumption DEF PutFront, TypeOK
<1>3. /\ Content[q] \in Seq(Value) /\ Len(Content[q]) = s
      /\ \A i \in 1 .. s : /\ At(o, s, i - 1) \in 0 .. Size - 1
                          /\ Content[q][i] = m_data[q][At(o, s, i - 1)]
  BY <1>1 DEF ContentElements
<1> HIDE DEF o, s
<1> DEFINE longer == <<v>> \o Content[q]
<1>4. /\ longer \in Seq(Value) /\ Len(longer) = s + 1
      /\ longer[1] = v
      /\ \A i \in 1 .. s : longer[i + 1] = Content[q][i]
  <2>1. Content[q] \in Seq(Value) /\ Len(Content[q]) = s
    BY <1>3
  <2> QED
    BY <2>1, PrependProperties
<1> HIDE DEF longer
<1>5. /\ (o - s - 1 + Size) % Size = At(o, s + 1, 0)
      /\ At(o, s + 1, 0) \in 0 .. Size - 1
  BY <1>2, PreviousSlot
<1>6. \A i \in 1 .. s + 1 :
         m_data'[q][At(o, s + 1, i - 1)] = longer[i]
  <2> TAKE i \in 1 .. s + 1
  <2>1. CASE i = 1
    <3>1. i - 1 = 0
      BY <2>1
    <3>2. m_data'[q][At(o, s + 1, 0)] = v
      BY <1>2, <1>5
    <3> QED
      BY <2>1, <3>1, <3>2, <1>4
  <2>2. CASE i # 1
    <3> DEFINE j == i - 2
    <3>1. j \in 0 .. s - 1 /\ j \in 0 .. s /\ j < s /\ j + 1 = i - 1 /\ i - 1 \in 1 .. s
          /\ i - 1 + 1 = i /\ i - 1 - 1 = j
      BY <2>2, <1>2
    <3> HIDE DEF j
    <3>2. At(o, s + 1, i - 1) = At(o, s, j) /\ At(o, s, j) # At(o, s + 1, 0)
      BY <1>2, <3>1, SlotsAfterPutFront
    <3>3. longer[i] = m_data[q][At(o, s, j)] /\ At(o, s, j) \in 0 .. Size - 1
      BY <3>1, <1>3, <1>4
    <3> QED
      BY <3>2, <3>3, <1>2, <1>5
  <2> QED
    BY <2>1, <2>2
<1>7. Content'[q] = longer
  <2>1. m_size'[q] = Len(longer)
    BY <1>2, <1>4
  <2>2. \A i \in 1 .. Len(longer) :
           m_data'[q][At(m_offset'[q], m_size'[q], i - 1)] = longer[i]
    BY <1>2, <1>4, <1>6
  <2> QED
    BY <1>4, <2>1, <2>2, ContentEqual
<1>8. \A r \in Queue \ {q} : Content'[r] = Content[r]
  BY ContentKept DEF PutFront, TypeOK
<1>9. returned' = v
  <2>1. returned' = m_data'[q][(o - (s + 1) + Size) % Size]
    BY <1>2 DEF PutFront, Front
  <2>2. o - (s + 1) + Size = o - s - 1 + Size
    BY <1>2, CircularQueueAssumption
  <2> QED
    BY <2>1, <2>2, <1>2, <1>5
<1> QED
  BY <1>7, <1>8, <1>9 DEF Content, longer

\* dequeue() returns the first element and keeps the others (CircularQueue.hpp:91-101).
LEMMA TakeRemovesHead ==
    ASSUME TypeOK, TypeOK', NEW q \in Queue, Take(q)
    PROVE  /\ Content[q] # <<>>
           /\ Content' = [Content EXCEPT ![q] = Tail(Content[q])]
           /\ returned' = Head(Content[q])
<1> DEFINE o == m_offset[q]
           s == m_size[q]
<1>1. ContentElements
  BY ContentIsSequence
<1>2. /\ o \in 0 .. Size - 1 /\ s \in 1 .. Size /\ s \in Nat
      /\ m_offset'[q] = o /\ m_size'[q] = s - 1 /\ m_data'[q] = m_data[q]
  BY CircularQueueAssumption DEF Take, TypeOK
<1>3. /\ Content[q] \in Seq(Value) /\ Len(Content[q]) = s
      /\ \A i \in 1 .. s : /\ At(o, s, i - 1) \in 0 .. Size - 1
                          /\ Content[q][i] = m_data[q][At(o, s, i - 1)]
  BY <1>1 DEF ContentElements
<1>4. returned' = m_data[q][At(o, s, 0)]
  <2>1. returned' = m_data[q][(o - s + Size) % Size]
    BY DEF Take, Front
  <2>2. (o - s + 0 + Size) % Size = At(o, s, 0)
    <3>1. 0 \in 0 .. s /\ s \in 0 .. Size
      BY <1>2
    <3> QED BY <1>2, <3>1, SlotAt
  <2>3. o - s + 0 + Size = o - s + Size
    BY <1>2, CircularQueueAssumption
  <2> QED
    BY <2>1, <2>2, <2>3
<1> HIDE DEF o, s
<1>5. Content[q] # <<>>
  BY <1>2, <1>3
<1>6. /\ Tail(Content[q]) \in Seq(Value)
      /\ Len(Tail(Content[q])) = s - 1
      /\ \A i \in 1 .. s - 1 : Tail(Content[q])[i] = Content[q][i + 1]
  BY <1>3, <1>5, HeadTailProperties
<1>7. \A i \in 1 .. s - 1 : m_data'[q][At(o, s - 1, i - 1)] = Tail(Content[q])[i]
  <2> TAKE i \in 1 .. s - 1
  <2>1. i - 1 \in 0 .. s - 2 /\ i + 1 \in 1 .. s /\ i + 1 - 1 = i - 1 + 1
    BY <1>2
  <2>2. At(o, s - 1, i - 1) = At(o, s, i - 1 + 1)
    BY <1>2, <2>1, SlotsAfterTake
  <2> QED
    BY <2>1, <2>2, <1>2, <1>3, <1>6
<1>8. Content'[q] = Tail(Content[q])
  BY <1>2, <1>6, <1>7, ContentEqual
<1>9. \A r \in Queue \ {q} : Content'[r] = Content[r]
  BY ContentKept DEF Take, TypeOK
<1>10. returned' = Head(Content[q])
  <2>1. 1 \in 1 .. s /\ 1 - 1 = 0
    BY <1>2
  <2>2. Head(Content[q]) = Content[q][1]
    BY <1>3, <1>5
  <2>3. Content[q][1] = m_data[q][At(o, s, 1 - 1)]
    BY <2>1, <1>3
  <2> QED
    BY <2>1, <2>2, <2>3, <1>4
<1> QED
  BY <1>5, <1>8, <1>9, <1>10 DEF Content

\* A queue of size zero is empty.
LEMMA ContentEmpty ==
    ASSUME TypeOK', NEW q \in Queue, m_size'[q] = 0
    PROVE  Content'[q] = <<>>
<1>1. ContentElements'
  BY ContentIsSequence, PTL
<1>2. Content'[q] \in Seq(Value) /\ Len(Content'[q]) = 0
  BY <1>1 DEF ContentElements
<1> QED
  BY <1>2, EmptySeq

\* clear() leaves no element (CircularQueue.hpp:108-115).
LEMMA ClearEmpties ==
    ASSUME TypeOK, TypeOK', NEW q \in Queue, Clear(q)
    PROVE  Content' = [Content EXCEPT ![q] = <<>>]
<1>1. Content'[q] = <<>>
  <2>1. m_size'[q] = 0
    BY DEF Clear, TypeOK
  <2> QED BY <2>1, ContentEmpty
<1>2. \A r \in Queue \ {q} : Content'[r] = Content[r]
  BY ContentKept DEF Clear, TypeOK
<1> QED
  BY <1>1, <1>2 DEF Content

\* Moving a queue keeps the order of its elements, wherever they lay in either ring
\* (CircularQueue.hpp:117-127).
LEMMA MoveMoves ==
    ASSUME TypeOK, TypeOK', NEW q \in Queue, NEW from \in Queue \ {q}, Move(q, from)
    PROVE  Content' = [Content EXCEPT ![q] = Content[from], ![from] = <<>>]
<1> DEFINE o == m_offset[q]
           k == m_size[from]
           written(slot) == (slot - o + Size) % Size
           moved == [slot \in 0 .. Size - 1 |->
                        IF written(slot) < k
                        THEN m_data[from][Slot(from, written(slot))]
                        ELSE m_data[q][slot]]
<1>1. ContentElements
  BY ContentIsSequence
<1>2. /\ o \in 0 .. Size - 1 /\ k \in 0 .. Size /\ k \in Nat
      /\ m_offset[from] \in 0 .. Size - 1
      /\ m_offset'[q] = (o + k) % Size /\ m_size'[q] = k /\ m_size'[from] = 0
      /\ m_data'[q] = moved
  BY CircularQueueAssumption DEF Move, TypeOK
<1>3. /\ Content[from] \in Seq(Value) /\ Len(Content[from]) = k
      /\ \A i \in 1 .. k : Content[from][i] = m_data[from][At(m_offset[from], k, i - 1)]
  BY <1>1 DEF ContentElements
<1>4. \A i \in 1 .. k : m_data'[q][At((o + k) % Size, k, i - 1)] = Content[from][i]
  <2> TAKE i \in 1 .. k
  <2> DEFINE slot == At((o + k) % Size, k, i - 1)
  <2>1. i - 1 \in 0 .. k - 1 /\ i - 1 \in 0 .. k /\ i - 1 < k
    BY <1>2
  <2>2. slot \in 0 .. Size - 1 /\ written(slot) = i - 1
    <3> HIDE DEF k
    <3> QED BY <1>2, <2>1, SlotsAfterMove
  <2>3. Slot(from, i - 1) = At(m_offset[from], k, i - 1)
    <3>1. Slot(from, i - 1) = (m_offset[from] - k + (i - 1) + Size) % Size
      BY DEF Slot
    <3> HIDE DEF k
    <3> QED BY <3>1, <1>2, <2>1, SlotAt
  <2>4. moved[slot] = m_data[from][Slot(from, i - 1)]
    <3> HIDE DEF slot, k, o
    <3> QED BY <2>1, <2>2
  <2> QED
    BY <2>3, <2>4, <1>2, <1>3
<1> HIDE DEF k, o, moved, written
<1>5. Content'[q] = Content[from]
  <2>1. PICK s : s = Content[from]
    OBVIOUS
  <2>2. s \in Seq(Value) /\ m_size'[q] = Len(s)
    BY <1>2, <1>3, <2>1
  <2>3. \A i \in 1 .. Len(s) : m_data'[q][At(m_offset'[q], m_size'[q], i - 1)] = s[i]
    BY <1>2, <1>3, <1>4, <2>1
  <2> QED
    BY <2>1, <2>2, <2>3, ContentEqual
<1>6. Content'[from] = <<>>
  BY <1>2, ContentEmpty
<1>7. \A r \in Queue \ {q, from} : Content'[r] = Content[r]
  <2> TAKE r \in Queue \ {q, from}
  <2>1. m_offset'[r] = m_offset[r] /\ m_size'[r] = m_size[r]
    BY DEF Move, TypeOK
  <2>2. m_data'[r] = m_data[r]
    <3>1. m_data' = [m_data EXCEPT ![q] = moved]
      BY DEF Move, moved, written, o, k
    <3> QED BY <3>1 DEF TypeOK
  <2> QED
    BY <2>1, <2>2, ContentKept
<1> QED
  BY <1>5, <1>6, <1>7 DEF Content

\* A ring of any size behaves like a deque: nothing is lost, duplicated or
\* reordered when it wraps around, and the ASSERTs stop what would not fit
\* (CircularQueue.hpp:68-157).
THEOREM RefinesDeque == Spec => ImplementsDeque
<1>1. Init => D!Init
  <2> SUFFICES ASSUME Init PROVE D!Init
    OBVIOUS
  <2>1. Content = [q \in Queue |-> <<>>]
    BY DEF Init, Content
  <2> QED
    BY <2>1 DEF Init, D!Init
<1>2. ASSUME TypeOK, TypeOK', [Next]_vars PROVE [D!Next]_(D!vars)
  <2> USE <1>2
  <2>1. ContentElements
    BY ContentIsSequence
  <2>2. ASSUME NEW q \in Queue, NEW v \in Value, Enqueue(q, v)
        PROVE  D!Enqueue(q, v)
    <3>1. CASE Put(q, v)
      <4>1. m_size[q] < Size /\ UNCHANGED crashed
        BY <3>1 DEF Put
      <4> QED
        BY <3>1, <4>1, <2>1, PutAppends DEF D!Enqueue, D!Replace, ContentElements
    <3>2. CASE AssertFails(q, Size)
      BY <3>2, <2>1 DEF AssertFails, ringVars, D!Enqueue, D!Limit, ContentElements, Content, Slot
    <3> QED
      BY <2>2, <3>1, <3>2 DEF Enqueue
  <2>3. ASSUME NEW q \in Queue, NEW v \in Value, EnqueueFront(q, v)
        PROVE  D!EnqueueFront(q, v)
    <3>1. CASE PutFront(q, v)
      <4>1. m_size[q] < Size /\ UNCHANGED crashed
        BY <3>1 DEF PutFront
      <4> QED
        BY <3>1, <4>1, <2>1, PutFrontPrepends DEF D!EnqueueFront, D!Replace, ContentElements
    <3>2. CASE AssertFails(q, Size)
      BY <3>2, <2>1
         DEF AssertFails, ringVars, D!EnqueueFront, D!Limit, ContentElements, Content, Slot
    <3> QED
      BY <2>3, <3>1, <3>2 DEF EnqueueFront
  <2>4. ASSUME NEW q \in Queue, Dequeue(q) PROVE D!Dequeue(q)
    <3>1. CASE Take(q)
      <4>1. UNCHANGED crashed
        BY <3>1 DEF Take
      <4> QED
        BY <3>1, <4>1, TakeRemovesHead DEF D!Dequeue, D!Replace
    <3>2. CASE AssertFails(q, 0)
      BY <3>2, <2>1 DEF AssertFails, ringVars, D!Dequeue, D!Limit, ContentElements, Content, Slot
    <3> QED
      BY <2>4, <3>1, <3>2 DEF Dequeue
  <2>5. ASSUME NEW q \in Queue, Clear(q) PROVE D!Clear(q)
    <3>1. UNCHANGED <<returned, crashed>>
      BY <2>5 DEF Clear
    <3> QED
      BY <2>5, <3>1, ClearEmpties DEF D!Clear, D!Replace
  <2>6. ASSUME NEW q \in Queue, NEW from \in Queue \ {q}, Move(q, from) PROVE D!Move(q, from)
    <3>1. UNCHANGED <<returned, crashed>>
      BY <2>6 DEF Move
    <3> QED
      BY <2>6, <3>1, MoveMoves DEF D!Move
  <2>7. CASE Next
    BY <2>7, <2>2, <2>3, <2>4, <2>5, <2>6 DEF Next, D!Next
  <2>8. CASE UNCHANGED vars
    BY <2>8 DEF vars, ringVars, D!vars, Content, Slot
  <2> QED
    BY <2>7, <2>8
<1> QED
  BY <1>1, <1>2, TypeCorrect, PTL DEF Spec, ImplementsDeque, D!Spec

-----------------------------------------------------------------------------
(* Vectors: rounding to a power of two *)

\* Powers of two grow.
LEMMA PowersGrow ==
    ASSUME NEW a \in Nat, NEW b \in Nat, a <= b
    PROVE  2 ^ a <= 2 ^ b
<1>. DEFINE T == {d \in Nat : ~ (2 ^ a <= 2 ^ (a + d))}
<1>1. ASSUME T # {} PROVE FALSE
  <2>1. PICK d \in T : \A y \in T : d <= y
    <3>1. T \in SUBSET Nat
      OBVIOUS
    <3>. HIDE DEF T
    <3>. QED  BY <1>1, <3>1, Minimum
  <2>2. d \in Nat /\ ~ (2 ^ a <= 2 ^ (a + d)) /\ 2 ^ a \in Nat
    BY PowerOfTwo
  <2>3. d # 0
    BY <2>2
  <2>4. PICK e \in Nat : e = d - 1
    BY <2>2, <2>3
  <2>5. 2 ^ a <= 2 ^ (a + e)
    <3>1. e \notin T
      BY <2>1, <2>2, <2>4
    <3>. QED  BY <3>1
  <2>6. PICK c \in Nat : c = a + e
    OBVIOUS
  <2>7. c + 1 = a + d
    BY <2>2, <2>4, <2>6
  <2>8. 2 ^ (c + 1) = 2 * 2 ^ c /\ 2 ^ c \in Nat
    BY Double, PowerOfTwo
  <2>9. PICK x, y, z : x = 2 ^ a /\ y = 2 ^ c /\ z = 2 ^ (a + d)
    OBVIOUS
  <2>10. x \in Nat /\ y \in Nat /\ z = 2 * y /\ x <= y /\ ~ (x <= z)
    BY <2>2, <2>5, <2>6, <2>7, <2>8, <2>9
  <2>. QED  BY <2>10
<1>2. PICK d \in Nat : d = b - a
  OBVIOUS
<1>3. a + d = b
  BY <1>2
<1>4. d \notin T
  BY <1>1
<1>. QED  BY <1>3, <1>4

\* A power of two is larger than its exponent.
LEMMA PowerAbove ==
    ASSUME NEW n \in Nat
    PROVE  2 ^ n > n
<1>. DEFINE T == {k \in Nat : ~ (2 ^ k > k)}
<1>1. ASSUME T # {} PROVE FALSE
  <2>1. PICK k \in T : \A y \in T : k <= y
    <3>1. T \in SUBSET Nat
      OBVIOUS
    <3>. HIDE DEF T
    <3>. QED  BY <1>1, <3>1, Minimum
  <2>2. k \in Nat /\ ~ (2 ^ k > k) /\ 2 ^ k \in Nat \ {0}
    BY PowerOfTwo
  <2>3. k # 0
    BY <2>2
  <2>4. PICK e \in Nat : e = k - 1
    BY <2>2, <2>3
  <2>5. 2 ^ e > e
    <3>1. e \notin T
      BY <2>1, <2>2, <2>4
    <3>. QED  BY <3>1
  <2>6. 2 ^ (e + 1) = 2 * 2 ^ e /\ 2 ^ e \in Nat
    BY Double, PowerOfTwo
  <2>7. PICK x, y : x = 2 ^ k /\ y = 2 ^ e
    OBVIOUS
  <2>8. x = 2 * y /\ y \in Nat /\ y > e /\ ~ (x > k) /\ k = e + 1
    <3>1. k = e + 1
      BY <2>2, <2>4
    <3>. QED  BY <2>2, <2>5, <2>6, <2>7, <3>1
  <2>. QED  BY <2>8
<1>. QED  BY <1>1

\* round_to_power_of_two() finds a power that is larger, and at most twice as large
\* (Vector.hpp:160-170).
LEMMA RoundIs ==
    ASSUME NEW n \in Nat \ {0}
    PROVE  /\ \E k \in Nat : V!RoundToPowerOfTwo(n) = 2 ^ k
           /\ V!RoundToPowerOfTwo(n) \in Nat
           /\ V!RoundToPowerOfTwo(n) > n /\ V!RoundToPowerOfTwo(n) <= 2 * n
<1>. DEFINE T == {k \in Nat : 2 ^ k > n}
<1>1. n \in T
  BY PowerAbove
<1>2. PICK k \in T : \A y \in T : k <= y
  <2>1. T \in SUBSET Nat /\ T # {}
    BY <1>1
  <2>. HIDE DEF T
  <2>. QED  BY <2>1, Minimum
<1>3. k \in Nat /\ 2 ^ k > n /\ k <= n
  BY <1>1, <1>2
<1>4. 2 ^ 0 = 1
  <2>1. Cardinality(SUBSET {}) = 2 ^ 0
    BY FS_SUBSET, FS_EmptySet
  <2>2. SUBSET {} = {{}}
    OBVIOUS
  <2>3. Cardinality({{}}) = 1
    BY FS_Singleton
  <2>. QED  BY <2>1, <2>2, <2>3
<1>5. k # 0
  <2>1. ~ (2 ^ 0 > n)
    BY <1>4
  <2>2. ASSUME k = 0 PROVE FALSE
    BY <1>3, <2>1, <2>2
  <2>. QED  BY <2>2
<1>6. PICK e \in Nat : e = k - 1
  BY <1>3, <1>5
<1>7. e + 1 = k /\ ~ (k <= e)
  BY <1>3, <1>6
<1>8. ~ (2 ^ e > n)
  <2>1. e \notin T
    BY <1>2, <1>7
  <2>. QED  BY <2>1
<1>9. 2 ^ (e + 1) = 2 * 2 ^ e /\ 2 ^ e \in Nat
  BY Double, PowerOfTwo
<1>10. PICK x, y : x = 2 ^ k /\ y = 2 ^ e
  OBVIOUS
<1>11. x = 2 * y /\ y \in Nat /\ ~ (y > n)
  BY <1>7, <1>8, <1>9, <1>10
<1>12. x <= 2 * n /\ x > n
  BY <1>3, <1>10, <1>11
<1>13. k \in 1 .. n
  BY <1>3, <1>5
<1>14. \E p \in {2 ^ m : m \in 1 .. n} : p > n /\ p <= 2 * n
  BY <1>10, <1>12, <1>13
<1>15. PICK r : r = V!RoundToPowerOfTwo(n)
  OBVIOUS
<1>16. r \in {2 ^ m : m \in 1 .. n} /\ r > n /\ r <= 2 * n
  BY <1>14, <1>15 DEF V!RoundToPowerOfTwo
<1>17. PICK m \in 1 .. n : r = 2 ^ m
  BY <1>16
<1>18. m \in Nat /\ r \in Nat
  BY <1>17, PowerOfTwo
<1>. QED  BY <1>15, <1>16, <1>17, <1>18

LEMMA RoundGrows ==
    ASSUME NEW n \in Nat \ {0}, NEW m \in Nat \ {0}, n <= m
    PROVE  V!RoundToPowerOfTwo(n) <= V!RoundToPowerOfTwo(m)
<1>1. PICK p \in Nat, q \in Nat : p = V!RoundToPowerOfTwo(n) /\ q = V!RoundToPowerOfTwo(m)
  BY RoundIs
<1>2. p <= 2 * n /\ q > m
  BY <1>1, RoundIs
<1>3. PICK j \in Nat : p = 2 ^ j
  BY <1>1, RoundIs
<1>4. PICK k \in Nat : q = 2 ^ k
  BY <1>1, RoundIs
<1>5. CASE j <= k
  BY <1>1, <1>3, <1>4, <1>5, PowersGrow
<1>6. CASE ~ (j <= k)
  <2>1. PICK l \in Nat : l = k + 1
    OBVIOUS
  <2>2. l <= j
    BY <1>6, <2>1
  <2>3. 2 ^ l <= p
    BY <1>3, <2>2, PowersGrow
  <2>4. 2 ^ l = 2 * q
    BY <1>4, <2>1, Double
  <2>5. 2 * q <= p
    BY <2>3, <2>4
  <2>. QED  BY <1>2, <2>5
<1>. QED  BY <1>5, <1>6

-----------------------------------------------------------------------------
(* The storage *)

\* There are more cells than a vector has elements.
LEMMA CellIs ==
    ASSUME V!VectorAssumption
    PROVE  \A n \in 0 .. MaxSize : n \in V!Cell /\ n \in Nat
<1>1. MaxSize \in Nat \ {0}
  BY DEF V!VectorAssumption
<1>2. V!RoundToPowerOfTwo(MaxSize) \in Nat /\ V!RoundToPowerOfTwo(MaxSize) > MaxSize
  BY <1>1, RoundIs
<1>. QED  BY <1>1, <1>2 DEF V!Cell

\* What a vector holds, and where.
LEMMA Held ==
    ASSUME V!VectorAssumption, V!StorageInv, NEW v \in Vec
    PROVE  /\ vectorSize[v] \in Nat /\ vectorSize[v] <= MaxSize /\ Len(V!Content(v)) = vectorSize[v]
           /\ V!Content(v) \in Seq(Element)
           /\ \A i \in 1 .. vectorSize[v] :
                 V!Content(v)[i] = memory[V!Storage(v)][i - 1] /\ i - 1 \in V!Cell
                 /\ memory[V!Storage(v)][i - 1] \in Element
           /\ V!Storage(v) \in Vec \cup Block /\ V!Storage(v) # Outside
           /\ \A u \in Vec : V!Storage(u) = V!Storage(v) => u = v
           /\ V!Storage(v) \in Block => extent[V!Storage(v)] > 0
<1>1. /\ vectorSize[v] \in 0 .. MaxSize /\ vectorData[v] \in Block \cup {NoBlock} /\ MaxSize \in Nat
      /\ memory \in [Vec \cup Block -> [V!Cell -> Element \cup {Raw}]]
  BY DEF V!StorageInv, V!TypeOK, V!VectorAssumption
<1>2. \A u \in Vec : m_use_inline_data[u] <=> vectorData[u] = NoBlock
  BY DEF V!StorageInv
<1>3. /\ \A u \in Vec : vectorData[u] \in Block \cup {NoBlock}
      /\ \A u \in Vec : vectorData[u] # NoBlock => extent[vectorData[u]] > 0
      /\ \A u, w \in Vec : u # w /\ vectorData[u] = vectorData[w] => vectorData[u] = NoBlock
  BY DEF V!StorageInv, V!TypeOK, V!BlocksAreOwned
<1>4. /\ \A u \in Vec : V!Storage(u) = IF vectorData[u] = NoBlock THEN u ELSE vectorData[u]
      /\ Vec \cap Block = {} /\ NoBlock \notin Block /\ Outside \notin Vec \cup Block
  BY <1>2 DEF V!Storage, V!VectorAssumption
<1>5. V!Storage(v) \in Vec \cup Block /\ V!Storage(v) # Outside
  BY <1>3, <1>4
<1>6. \A u \in Vec : V!Storage(u) = V!Storage(v) => u = v
  BY <1>3, <1>4
<1>7. V!Storage(v) \in Block => extent[V!Storage(v)] > 0
  BY <1>3, <1>4
<1>8. ASSUME NEW i \in 1 .. vectorSize[v]
      PROVE  i - 1 \in V!Cell /\ memory[V!Storage(v)][i - 1] \in Element
  <2>1. i - 1 \in 0 .. MaxSize /\ i - 1 < vectorSize[v]
    BY <1>1
  <2>2. i - 1 \in V!Cell
    BY <2>1, CellIs
  <2>3. PICK j \in V!Cell : j = i - 1
    BY <2>2
  <2>4. memory[V!Storage(v)][j] # Raw
    BY <1>5, <2>1, <2>3 DEF V!StorageInv, V!ElementsAreOwned
  <2>5. memory[V!Storage(v)][j] \in Element \cup {Raw}
    BY <1>1, <1>5
  <2>. QED  BY <2>2, <2>3, <2>4, <2>5
<1>9. PICK n, c : n = vectorSize[v] /\ c = V!Content(v) /\ n \in Nat
  BY <1>1
<1>10. c = [i \in 1 .. n |-> memory[V!Storage(v)][i - 1]]
  BY <1>9 DEF V!Content
<1>11. \A i \in 1 .. n : c[i] = memory[V!Storage(v)][i - 1] /\ c[i] \in Element
  BY <1>8, <1>9, <1>10
<1>12. c \in Seq(Element) /\ Len(c) = n
  <2>1. c = [i \in 1 .. n |-> c[i]]
    BY <1>10
  <2>2. c \in [1 .. n -> Element] /\ n \in Nat
    BY <1>9, <1>11, <2>1
  <2>. QED  BY <2>2
<1>. QED  BY <1>1, <1>5, <1>6, <1>7, <1>8, <1>9, <1>11, <1>12

\* A content is known by its length and its elements.
LEMMA SameContent ==
    ASSUME NEW v \in Vec, NEW w \in Vec, vectorSize'[v] = vectorSize[w],
           \A i \in 1 .. vectorSize[w] : memory'[V!Storage(v)'][i - 1] = memory[V!Storage(w)][i - 1]
    PROVE  V!Content(v)' = V!Content(w)
<1>1. PICK n, p, m : n = vectorSize'[v] /\ p = V!Storage(v)' /\ m = memory'
  OBVIOUS
<1>2. V!Content(v)' = [i \in 1 .. n |-> m[p][i - 1]]
  BY <1>1 DEF V!Content
<1>3. V!Content(w) = [i \in 1 .. n |-> memory[V!Storage(w)][i - 1]]
  BY <1>1 DEF V!Content
<1>. QED  BY <1>1, <1>2, <1>3

\* ensure_capacity() leaves every content as it is, although the one of v moves to another block.
LEMMA EnsureKeeps ==
    ASSUME V!VectorAssumption, V!StorageInv, lists' = lists, NEW v \in Vec, NEW n \in 0 .. MaxSize,
           vectorSize[v] <= n,
           NEW next, V!EnsureCapacity(v, n, next)
    PROVE  /\ V!StorageInv' /\ calls' = next /\ vectorSize' = vectorSize
           /\ \A u \in Vec : V!Content(u)' = V!Content(u)
           /\ \A u \in Vec \ {v} : /\ V!Storage(u)' = V!Storage(u)
                                   /\ m_use_inline_data'[u] = m_use_inline_data[u]
<1>1. CASE V!Enough(v, n)
  <2>1. UNCHANGED <<vectorSize, m_capacity, vectorData, m_use_inline_data, memory, extent, lists>> /\ calls' = next
    BY <1>1 DEF V!EnsureCapacity, V!fields
  <2>. QED  BY <2>1
               DEF V!StorageInv, V!TypeOK, V!ElementsAreOwned, V!BlocksAreOwned, V!Storage,
                   V!Content
<1>2. CASE ~ V!Enough(v, n)
  <2>0. PICK capacity : capacity = V!RoundToPowerOfTwo(n)
    OBVIOUS
  <2>1. PICK b \in Block :
           /\ extent[b] = 0
           /\ memory' = [memory EXCEPT ![V!Storage(v)] = V!Erased, ![b] = V!Moved(v)]
           /\ extent' = [V!Released(v, extent) EXCEPT ![b] = capacity]
           /\ vectorData' = [vectorData EXCEPT ![v] = b]
           /\ m_capacity' = [m_capacity EXCEPT ![v] = capacity]
           /\ m_use_inline_data' = [m_use_inline_data EXCEPT ![v] = FALSE]
           /\ vectorSize' = vectorSize /\ calls' = next
    BY <1>2, <2>0 DEF V!EnsureCapacity
  <2>2. /\ vectorSize \in [Vec -> 0 .. MaxSize] /\ m_capacity \in [Vec -> Nat]
        /\ vectorData \in [Vec -> Block \cup {NoBlock}] /\ m_use_inline_data \in [Vec -> BOOLEAN]
        /\ memory \in [Vec \cup Block -> [V!Cell -> Element \cup {Raw}]]
        /\ extent \in [Block -> Nat] /\ lists \in [Vec -> Seq(Element)]
    BY DEF V!StorageInv, V!TypeOK
  <2>3. Vec \cap Block = {} /\ NoBlock \notin Block /\ InlineSize \in Nat /\ MaxSize \in Nat
    BY DEF V!VectorAssumption
  <2>4. n # 0
    BY <1>2, <2>2 DEF V!Enough
  <2>5. capacity \in Nat /\ capacity > n
    BY <2>0, <2>4, RoundIs
  <2>6. /\ \A u \in Vec : m_use_inline_data[u] <=> vectorData[u] = NoBlock
        /\ \A u \in Vec : vectorData[u] # NoBlock => extent[vectorData[u]] > 0
        /\ \A c \in Block : extent[c] > 0 => \E u \in Vec : vectorData[u] = c
        /\ \A u, w \in Vec : u # w /\ vectorData[u] = vectorData[w] => vectorData[u] = NoBlock
    BY <2>2, <2>3 DEF V!StorageInv, V!BlocksAreOwned
  <2>7. \A u \in Vec : vectorData[u] # b /\ V!Storage(u) # b
    <3>1. \A u \in Vec : vectorData[u] # b
      BY <2>1, <2>3, <2>6
    <3>. QED  BY <2>3, <3>1 DEF V!Storage
  <2>8. V!Storage(v) \in Vec \cup Block
    BY Held
  <2>9. \A p \in Vec \cup Block :
           memory'[p] = IF p = b THEN V!Moved(v) ELSE IF p = V!Storage(v) THEN V!Erased ELSE memory[p]
    BY <2>1, <2>2, <2>7
  <2>10. \A c \in Block : extent'[c] = IF c = b THEN capacity ELSE IF c = vectorData[v] THEN 0 ELSE extent[c]
    <3>1. V!Released(v, extent) = [c \in Block |-> IF c = vectorData[v] THEN 0 ELSE extent[c]]
      BY <2>2 DEF V!Released
    <3>. QED  BY <2>1, <3>1
  <2>11. /\ \A u \in Vec : vectorData'[u] = IF u = v THEN b ELSE vectorData[u]
         /\ \A u \in Vec : m_capacity'[u] = IF u = v THEN capacity ELSE m_capacity[u]
         /\ \A u \in Vec : m_use_inline_data'[u] = IF u = v THEN FALSE ELSE m_use_inline_data[u]
    BY <2>1, <2>2
  <2>12. \A u \in Vec : V!Storage(u)' = IF u = v THEN b ELSE V!Storage(u)
    BY <2>11 DEF V!Storage
  <2>13. /\ \A i \in V!Cell : V!Erased[i] = Raw
         /\ \A i \in V!Cell : V!Moved(v)[i] = IF i < vectorSize[v] THEN memory[V!Storage(v)][i] ELSE Raw
         /\ V!Erased \in [V!Cell -> Element \cup {Raw}]
    BY DEF V!Erased, V!Moved
  <2>14. V!Moved(v) \in [V!Cell -> Element \cup {Raw}]
    BY <2>2, <2>8 DEF V!Moved
  <2>15. V!TypeOK'
    <3>1. memory' \in [Vec \cup Block -> [V!Cell -> Element \cup {Raw}]]
      BY <2>1, <2>2, <2>13, <2>14
    <3>2. extent' \in [Block -> Nat]
      <4>1. V!Released(v, extent) \in [Block -> Nat]
        BY <2>2 DEF V!Released
      <4>. QED  BY <2>1, <2>5, <4>1
    <3>3. m_capacity' \in [Vec -> Nat] /\ vectorData' \in [Vec -> Block \cup {NoBlock}]
          /\ m_use_inline_data' \in [Vec -> BOOLEAN]
      BY <2>1, <2>2, <2>5
    <3>. QED  BY <2>1, <2>2, <3>1, <3>2, <3>3 DEF V!TypeOK
  <2>16. \A u \in Vec :
            /\ vectorSize[u] <= m_capacity[u]
            /\ m_capacity[u] = IF m_use_inline_data[u] THEN InlineSize ELSE extent[vectorData[u]]
    BY DEF V!StorageInv, V!ElementsAreOwned
  <2>17. ASSUME NEW u \in Vec
         PROVE  /\ vectorSize'[u] <= m_capacity'[u]
                /\ m_capacity'[u] = IF m_use_inline_data'[u] THEN InlineSize ELSE extent'[vectorData'[u]]
    <3>1. CASE u = v
      <4>1. vectorSize[v] \in Nat /\ vectorSize[v] <= capacity
        BY <2>2, <2>3, <2>5
      <4>2. m_capacity'[v] = capacity /\ ~ m_use_inline_data'[v] /\ vectorData'[v] = b
        BY <2>11
      <4>3. extent'[b] = capacity /\ vectorSize'[v] = vectorSize[v]
        BY <2>1, <2>10
      <4>. QED  BY <3>1, <4>1, <4>2, <4>3
    <3>2. CASE u # v
      <4>1. m_use_inline_data[u] \/ vectorData[u] \in Block
        BY <2>2, <2>6
      <4>2. vectorData[u] \in Block => extent'[vectorData[u]] = extent[vectorData[u]]
        BY <2>3, <2>6, <2>7, <2>10, <3>2
      <4>. QED  BY <2>1, <2>11, <2>16, <3>2, <4>1, <4>2
    <3>. QED  BY <3>1, <3>2
  <2>18. \A p \in Vec \cup Block, i \in V!Cell :
            memory[p][i] # Raw <=> \E u \in Vec : p = V!Storage(u) /\ i < vectorSize[u]
    BY DEF V!StorageInv, V!ElementsAreOwned
  <2>19. ASSUME NEW p \in Vec \cup Block, NEW i \in V!Cell
         PROVE  memory'[p][i] # Raw <=> \E u \in Vec : p = V!Storage(u)' /\ i < vectorSize'[u]
    <3>1. CASE p = b
      <4>1. memory'[p][i] = IF i < vectorSize[v] THEN memory[V!Storage(v)][i] ELSE Raw
        BY <2>9, <2>13, <3>1
      <4>2. i < vectorSize[v] => memory[V!Storage(v)][i] # Raw
        BY <2>8, <2>18
      <4>3. \A u \in Vec : p = V!Storage(u)' <=> u = v
        BY <2>7, <2>12, <3>1
      <4>. QED  BY <2>1, <4>1, <4>2, <4>3
    <3>2. CASE p # b /\ p = V!Storage(v)
      <4>1. memory'[p][i] = Raw
        BY <2>9, <2>13, <3>2
      <4>2. \A u \in Vec : p # V!Storage(u)'
        BY <2>12, <3>2, Held
      <4>. QED  BY <4>1, <4>2
    <3>3. CASE p # b /\ p # V!Storage(v)
      <4>1. memory'[p] = memory[p]
        BY <2>9, <3>3
      <4>2. \A u \in Vec : p = V!Storage(u)' <=> p = V!Storage(u)
        BY <2>12, <3>3
      <4>. QED  BY <2>1, <2>18, <4>1, <4>2
    <3>. QED  BY <3>1, <3>2, <3>3
  <2>20. V!ElementsAreOwned'
    BY <2>17, <2>19 DEF V!ElementsAreOwned
  <2>21. V!BlocksAreOwned'
    <3>1. ASSUME NEW c \in Block PROVE extent'[c] > 0 <=> \E u \in Vec : vectorData'[u] = c
      <4>1. CASE c = b
        BY <2>5, <2>10, <2>11, <4>1
      <4>2. CASE c # b /\ c = vectorData[v]
        <5>1. extent'[c] = 0
          BY <2>10, <4>2
        <5>2. \A u \in Vec : vectorData'[u] # c
          BY <2>3, <2>6, <2>11, <4>2
        <5>. QED  BY <5>1, <5>2
      <4>3. CASE c # b /\ c # vectorData[v]
        <5>1. extent'[c] = extent[c]
          BY <2>10, <4>3
        <5>2. \A u \in Vec : vectorData'[u] = c <=> vectorData[u] = c
          BY <2>11, <4>3
        <5>. QED  BY <2>3, <2>6, <5>1, <5>2
      <4>. QED  BY <4>1, <4>2, <4>3
    <3>2. \A u \in Vec : vectorData'[u] \in Block \cup {NoBlock}
      BY <2>2, <2>11
    <3>3. {c \in Block : extent'[c] > 0} = {vectorData'[u] : u \in Vec} \ {NoBlock}
      BY <2>3, <3>1, <3>2
    <3>4. \A u, w \in Vec : u # w /\ vectorData'[u] = vectorData'[w] => vectorData'[u] = NoBlock
      BY <2>6, <2>7, <2>11
    <3>. QED  BY <3>3, <3>4 DEF V!BlocksAreOwned
  <2>22. \A u \in Vec : m_use_inline_data'[u] <=> vectorData'[u] = NoBlock
    BY <2>3, <2>6, <2>11
  <2>23. V!StorageInv'
    BY <2>15, <2>20, <2>21, <2>22 DEF V!StorageInv
  <2>24. ASSUME NEW u \in Vec PROVE V!Content(u)' = V!Content(u)
    <3>1. ASSUME NEW i \in 1 .. vectorSize[u]
          PROVE  memory'[V!Storage(u)'][i - 1] = memory[V!Storage(u)][i - 1]
      <4>1. i - 1 \in V!Cell /\ V!Storage(u) \in Vec \cup Block /\ vectorSize[u] \in Nat
        BY Held
      <4>2. CASE u = v
        <5>1. i - 1 < vectorSize[v]
          BY <4>1, <4>2
        <5>2. V!Moved(v)[i - 1] = memory[V!Storage(v)][i - 1]
          BY <2>13, <4>1, <5>1
        <5>. QED  BY <2>9, <2>12, <4>2, <5>2
      <4>3. CASE u # v
        <5>1. V!Storage(u)' = V!Storage(u) /\ V!Storage(u) # b /\ V!Storage(u) # V!Storage(v)
          BY <2>7, <2>12, <4>3, Held
        <5>. QED  BY <2>9, <4>1, <5>1
      <4>. QED  BY <4>2, <4>3
    <3>2. vectorSize'[u] = vectorSize[u]
      BY <2>1
    <3>. QED  BY <3>1, <3>2, SameContent
  <2>. QED  BY <2>1, <2>11, <2>12, <2>23, <2>24
<1>. QED  BY <1>1, <1>2

\* append() puts a value behind the others.
LEMMA ConstructKeeps ==
    ASSUME V!VectorAssumption, V!StorageInv, lists' = lists, NEW v \in Vec, NEW place, NEW i,
           NEW x \in Element,
           vectorSize[v] < MaxSize, V!Enough(v, vectorSize[v] + 1), V!Construct(v, place, i),
           x = IF place = Outside THEN i ELSE memory[place][i]
    PROVE  /\ V!StorageInv' /\ calls' = Tail(calls)
           /\ vectorSize'[v] = vectorSize[v] + 1 /\ \A u \in Vec \ {v} : vectorSize'[u] = vectorSize[u]
           /\ V!Content(v)' = Append(V!Content(v), x)
           /\ \A u \in Vec \ {v} : V!Content(u)' = V!Content(u)
           /\ \A u \in Vec : V!Storage(u)' = V!Storage(u) /\ m_use_inline_data'[u] = m_use_inline_data[u]
<1>1. PICK s : s = vectorSize[v]
  OBVIOUS
<1>2. /\ memory' = [memory EXCEPT ![V!Storage(v)][s] = x]
      /\ vectorSize' = [vectorSize EXCEPT ![v] = @ + 1]
      /\ calls' = Tail(calls)
      /\ UNCHANGED <<m_capacity, vectorData, m_use_inline_data, extent, lists>>
  BY <1>1 DEF V!Construct
<1>3. /\ vectorSize \in [Vec -> 0 .. MaxSize] /\ m_capacity \in [Vec -> Nat]
      /\ memory \in [Vec \cup Block -> [V!Cell -> Element \cup {Raw}]]
      /\ MaxSize \in Nat /\ Raw \notin Element
  BY DEF V!StorageInv, V!TypeOK, V!VectorAssumption
<1>4. s \in Nat /\ s \in V!Cell /\ s + 1 \in 0 .. MaxSize /\ s + 1 <= m_capacity[v]
  BY <1>1, <1>3, CellIs DEF V!Enough
<1>5. V!Storage(v) \in Vec \cup Block /\ \A u \in Vec : V!Storage(u) = V!Storage(v) => u = v
  BY Held
<1>6. \A p \in Vec \cup Block, c \in V!Cell :
         memory'[p][c] = IF p = V!Storage(v) /\ c = s THEN x ELSE memory[p][c]
  BY <1>2, <1>3, <1>4, <1>5
<1>7. \A u \in Vec : vectorSize'[u] = IF u = v THEN s + 1 ELSE vectorSize[u]
  BY <1>1, <1>2, <1>3
<1>8. \A u \in Vec : V!Storage(u)' = V!Storage(u)
  BY <1>2 DEF V!Storage
<1>9. V!TypeOK'
  <2>1. memory' \in [Vec \cup Block -> [V!Cell -> Element \cup {Raw}]]
    BY <1>2, <1>3
  <2>2. vectorSize' \in [Vec -> 0 .. MaxSize]
    BY <1>1, <1>2, <1>3, <1>4
  <2>. QED  BY <1>2, <2>1, <2>2 DEF V!StorageInv, V!TypeOK
<1>10. V!ElementsAreOwned'
  <2>1. \A u \in Vec :
           /\ vectorSize[u] <= m_capacity[u]
           /\ m_capacity[u] = IF m_use_inline_data[u] THEN InlineSize ELSE extent[vectorData[u]]
    BY DEF V!StorageInv, V!ElementsAreOwned
  <2>2. \A u \in Vec :
           /\ vectorSize'[u] <= m_capacity'[u]
           /\ m_capacity'[u] = IF m_use_inline_data'[u] THEN InlineSize ELSE extent'[vectorData'[u]]
    BY <1>2, <1>4, <1>7, <2>1
  <2>3. \A p \in Vec \cup Block, c \in V!Cell :
           memory[p][c] # Raw <=> \E u \in Vec : p = V!Storage(u) /\ c < vectorSize[u]
    BY DEF V!StorageInv, V!ElementsAreOwned
  <2>4. ASSUME NEW p \in Vec \cup Block, NEW c \in V!Cell
        PROVE  memory'[p][c] # Raw <=> \E u \in Vec : p = V!Storage(u)' /\ c < vectorSize'[u]
    <3>0. c \in Int
      BY DEF V!Cell
    <3>1. CASE p = V!Storage(v)
      <4>1. (\E u \in Vec : p = V!Storage(u)' /\ c < vectorSize'[u]) <=> c < s + 1
        BY <1>5, <1>7, <1>8, <3>1
      <4>2. memory[p][c] # Raw <=> c < s
        BY <1>1, <1>5, <2>3, <3>1
      <4>3. CASE c = s
        <5>1. memory'[p][c] = x /\ c < s + 1
          BY <1>4, <1>6, <3>1, <4>3
        <5>. QED  BY <1>3, <4>1, <5>1
      <4>4. CASE c # s
        <5>1. memory'[p][c] = memory[p][c] /\ (c < s + 1 <=> c < s)
          BY <1>4, <1>6, <3>0, <4>4
        <5>. QED  BY <4>1, <4>2, <5>1
      <4>. QED  BY <4>3, <4>4
    <3>2. CASE p # V!Storage(v)
      <4>1. memory'[p][c] = memory[p][c]
        BY <1>6, <3>2
      <4>2. \A u \in Vec : p = V!Storage(u)' /\ c < vectorSize'[u] <=> p = V!Storage(u) /\ c < vectorSize[u]
        BY <1>7, <1>8, <3>2
      <4>. QED  BY <2>3, <4>1, <4>2
    <3>. QED  BY <3>1, <3>2
  <2>. QED  BY <2>2, <2>4 DEF V!ElementsAreOwned
<1>11. V!StorageInv'
  BY <1>2, <1>9, <1>10 DEF V!StorageInv, V!BlocksAreOwned
<1>12. ASSUME NEW u \in Vec \ {v} PROVE V!Content(u)' = V!Content(u)
  <2>1. ASSUME NEW j \in 1 .. vectorSize[u]
        PROVE  memory'[V!Storage(u)'][j - 1] = memory[V!Storage(u)][j - 1]
    <3>1. j - 1 \in V!Cell /\ V!Storage(u) \in Vec \cup Block /\ V!Storage(u) # V!Storage(v)
      BY <1>5, Held
    <3>. QED  BY <1>6, <1>8, <3>1
  <2>2. vectorSize'[u] = vectorSize[u]
    BY <1>7
  <2>. QED  BY <2>1, <2>2, SameContent
<1>13. V!Content(v)' = Append(V!Content(v), x)
  <2>1. PICK d, c : d = V!Content(v)' /\ c = V!Content(v)
    OBVIOUS
  <2>2. d = [j \in 1 .. s + 1 |-> memory'[V!Storage(v)][j - 1]]
    <3>1. d = [j \in 1 .. vectorSize'[v] |-> memory'[V!Storage(v)'][j - 1]]
      BY <2>1 DEF V!Content
    <3>. QED  BY <1>7, <1>8, <3>1
  <2>3. /\ c \in Seq(Element) /\ Len(c) = s
        /\ \A j \in 1 .. s : c[j] = memory[V!Storage(v)][j - 1] /\ j - 1 \in V!Cell
    BY <1>1, <2>1, Held
  <2>4. ASSUME NEW j \in 1 .. s + 1 PROVE d[j] = IF j <= s THEN c[j] ELSE x
    <3>1. d[j] = memory'[V!Storage(v)][j - 1]
      BY <2>2
    <3>2. CASE j <= s
      <4>1. j \in 1 .. s /\ j - 1 # s
        BY <1>4, <3>2
      <4>. QED  BY <1>5, <1>6, <2>3, <3>1, <3>2, <4>1
    <3>3. CASE ~ (j <= s)
      <4>1. j - 1 = s
        BY <1>4, <3>3
      <4>. QED  BY <1>4, <1>5, <1>6, <3>1, <3>3, <4>1
    <3>. QED  BY <3>2, <3>3
  <2>5. PICK a : a = Append(c, x)
    OBVIOUS
  <2>6. a \in Seq(Element) /\ Len(a) = s + 1 /\ \A j \in 1 .. s + 1 : a[j] = IF j <= s THEN c[j] ELSE x
    BY <1>4, <2>3, <2>5
  <2>7. d \in Seq(Element) /\ Len(d) = s + 1
    <3>1. \A j \in 1 .. s + 1 : d[j] \in Element
      <4>1. \A j \in 1 .. s : c[j] \in Element
        BY <2>3
      <4>2. \A j \in 1 .. s + 1 : j <= s => j \in 1 .. s
        BY <1>4
      <4>. QED  BY <2>4, <4>1, <4>2
    <3>2. d \in [1 .. s + 1 -> Element] /\ s + 1 \in Nat
      BY <1>4, <2>2, <3>1
    <3>. QED  BY <3>2
  <2>8. d = a
    BY <1>4, <2>4, <2>6, <2>7, SeqEqual
  <2>. QED  BY <2>1, <2>5, <2>8
<1>. QED  BY <1>1, <1>2, <1>7, <1>8, <1>11, <1>12, <1>13

\* clear() destroys the elements of v.
LEMMA ClearKeeps ==
    ASSUME V!VectorAssumption, V!StorageInv, lists' = lists, NEW v \in Vec, V!Clear(v)
    PROVE  /\ V!StorageInv' /\ calls' = Tail(calls)
           /\ V!Content(v)' = <<>> /\ \A u \in Vec \ {v} : V!Content(u)' = V!Content(u)
           /\ \A u \in Vec \ {v} : vectorSize'[u] = vectorSize[u]
           /\ \A u \in Vec : V!Storage(u)' = V!Storage(u) /\ m_use_inline_data'[u] = m_use_inline_data[u]
<1>1. /\ memory' = [memory EXCEPT ![V!Storage(v)] =
                       [c \in V!Cell |-> IF c < vectorSize[v] THEN Raw ELSE @[c]]]
      /\ vectorSize' = [vectorSize EXCEPT ![v] = 0]
      /\ calls' = Tail(calls)
      /\ UNCHANGED <<m_capacity, vectorData, m_use_inline_data, extent, lists>>
  BY DEF V!Clear
<1>2. /\ vectorSize \in [Vec -> 0 .. MaxSize] /\ m_capacity \in [Vec -> Nat]
      /\ memory \in [Vec \cup Block -> [V!Cell -> Element \cup {Raw}]]
      /\ MaxSize \in Nat
  BY DEF V!StorageInv, V!TypeOK, V!VectorAssumption
<1>3. V!Storage(v) \in Vec \cup Block /\ \A u \in Vec : V!Storage(u) = V!Storage(v) => u = v
  BY Held
<1>4. PICK m : m = [c \in V!Cell |-> IF c < vectorSize[v] THEN Raw ELSE memory[V!Storage(v)][c]]
  OBVIOUS
<1>5. memory' = [memory EXCEPT ![V!Storage(v)] = m]
  BY <1>1, <1>4
<1>6. m \in [V!Cell -> Element \cup {Raw}]
  BY <1>2, <1>3, <1>4
<1>7. \A p \in Vec \cup Block : memory'[p] = IF p = V!Storage(v) THEN m ELSE memory[p]
  BY <1>2, <1>5
<1>8. \A u \in Vec : vectorSize'[u] = IF u = v THEN 0 ELSE vectorSize[u]
  BY <1>1, <1>2
<1>9. \A u \in Vec : V!Storage(u)' = V!Storage(u)
  BY <1>1 DEF V!Storage
<1>10. V!TypeOK'
  <2>1. memory' \in [Vec \cup Block -> [V!Cell -> Element \cup {Raw}]]
    BY <1>2, <1>5, <1>6
  <2>2. vectorSize' \in [Vec -> 0 .. MaxSize]
    BY <1>1, <1>2
  <2>. QED  BY <1>1, <2>1, <2>2 DEF V!StorageInv, V!TypeOK
<1>11. V!ElementsAreOwned'
  <2>1. \A u \in Vec :
           /\ vectorSize[u] <= m_capacity[u]
           /\ m_capacity[u] = IF m_use_inline_data[u] THEN InlineSize ELSE extent[vectorData[u]]
    BY DEF V!StorageInv, V!ElementsAreOwned
  <2>2. ASSUME NEW u \in Vec
        PROVE  /\ vectorSize'[u] <= m_capacity'[u]
               /\ m_capacity'[u] = IF m_use_inline_data'[u] THEN InlineSize ELSE extent'[vectorData'[u]]
    <3>1. m_capacity[u] \in Nat
      BY <1>2
    <3>. QED  BY <1>1, <1>8, <2>1, <3>1
  <2>3. \A p \in Vec \cup Block, c \in V!Cell :
           memory[p][c] # Raw <=> \E u \in Vec : p = V!Storage(u) /\ c < vectorSize[u]
    BY DEF V!StorageInv, V!ElementsAreOwned
  <2>4. ASSUME NEW p \in Vec \cup Block, NEW c \in V!Cell
        PROVE  memory'[p][c] # Raw <=> \E u \in Vec : p = V!Storage(u)' /\ c < vectorSize'[u]
    <3>1. CASE p = V!Storage(v)
      <4>1. ~ \E u \in Vec : p = V!Storage(u)' /\ c < vectorSize'[u]
        <5>1. ~ (c < 0)
          BY DEF V!Cell
        <5>. QED  BY <1>3, <1>8, <1>9, <3>1, <5>1
      <4>2. memory'[p][c] = IF c < vectorSize[v] THEN Raw ELSE memory[p][c]
        BY <1>4, <1>7, <3>1
      <4>3. memory[p][c] # Raw => c < vectorSize[v]
        BY <1>3, <2>3, <3>1
      <4>. QED  BY <4>1, <4>2, <4>3
    <3>2. CASE p # V!Storage(v)
      <4>1. memory'[p] = memory[p]
        BY <1>7, <3>2
      <4>2. \A u \in Vec : p = V!Storage(u)' /\ c < vectorSize'[u] <=> p = V!Storage(u) /\ c < vectorSize[u]
        BY <1>8, <1>9, <3>2
      <4>. QED  BY <2>3, <4>1, <4>2
    <3>. QED  BY <3>1, <3>2
  <2>. QED  BY <2>2, <2>4 DEF V!ElementsAreOwned
<1>12. V!StorageInv'
  BY <1>1, <1>10, <1>11 DEF V!StorageInv, V!BlocksAreOwned
<1>13. ASSUME NEW u \in Vec \ {v} PROVE V!Content(u)' = V!Content(u)
  <2>1. \A j \in 1 .. vectorSize[u] : memory'[V!Storage(u)'][j - 1] = memory[V!Storage(u)][j - 1]
    <3>1. V!Storage(u) \in Vec \cup Block /\ V!Storage(u) # V!Storage(v)
      BY <1>3, Held
    <3>. QED  BY <1>7, <1>9, <3>1
  <2>2. vectorSize'[u] = vectorSize[u]
    BY <1>8
  <2>. QED  BY <2>1, <2>2, SameContent
<1>14. V!Content(v)' = <<>>
  <2>1. V!Content(v)' = [j \in 1 .. vectorSize'[v] |-> memory'[V!Storage(v)'][j - 1]] /\ vectorSize'[v] = 0
    BY <1>8 DEF V!Content
  <2>. QED  BY <2>1
<1>. QED  BY <1>1, <1>8, <1>9, <1>12, <1>13, <1>14

\* The content of an empty vector.
LEMMA EmptyContent ==
    ASSUME V!VectorAssumption, V!StorageInv, NEW v \in Vec
    PROVE  V!Content(v) = <<>> <=> vectorSize[v] = 0
<1>1. V!Content(v) \in Seq(Element) /\ Len(V!Content(v)) = vectorSize[v]
  BY Held
<1>. QED  BY <1>1

\* The destructor of a vector without elements.
LEMMA FreeKeeps ==
    ASSUME V!VectorAssumption, V!StorageInv, lists' = lists, NEW v \in Vec, V!Content(v) = <<>>,
           V!Free(v)
    PROVE  /\ V!StorageInv' /\ calls' = Tail(calls)
           /\ \A u \in Vec : V!Content(u)' = V!Content(u)
<1>1. /\ extent' = V!Released(v, extent)
      /\ vectorData' = [vectorData EXCEPT ![v] = NoBlock]
      /\ m_capacity' = [m_capacity EXCEPT ![v] = InlineSize]
      /\ m_use_inline_data' = [m_use_inline_data EXCEPT ![v] = TRUE]
      /\ calls' = Tail(calls)
      /\ UNCHANGED <<vectorSize, memory, lists>>
  BY DEF V!Free
<1>2. /\ vectorSize \in [Vec -> 0 .. MaxSize] /\ m_capacity \in [Vec -> Nat]
      /\ vectorData \in [Vec -> Block \cup {NoBlock}] /\ m_use_inline_data \in [Vec -> BOOLEAN]
      /\ extent \in [Block -> Nat]
  BY DEF V!StorageInv, V!TypeOK
<1>3. Vec \cap Block = {} /\ NoBlock \notin Block /\ InlineSize \in Nat /\ vectorSize[v] = 0
  BY EmptyContent DEF V!VectorAssumption
<1>4. /\ \A u \in Vec : m_use_inline_data[u] <=> vectorData[u] = NoBlock
      /\ \A c \in Block : extent[c] > 0 <=> \E u \in Vec : vectorData[u] = c
      /\ \A u, w \in Vec : u # w /\ vectorData[u] = vectorData[w] => vectorData[u] = NoBlock
  BY <1>2, <1>3 DEF V!StorageInv, V!BlocksAreOwned
<1>5. \A c \in Block : extent'[c] = IF c = vectorData[v] THEN 0 ELSE extent[c]
  BY <1>1, <1>2 DEF V!Released
<1>6. /\ \A u \in Vec : vectorData'[u] = IF u = v THEN NoBlock ELSE vectorData[u]
      /\ \A u \in Vec : m_capacity'[u] = IF u = v THEN InlineSize ELSE m_capacity[u]
      /\ \A u \in Vec : m_use_inline_data'[u] = IF u = v THEN TRUE ELSE m_use_inline_data[u]
  BY <1>1, <1>2
<1>7. \A u \in Vec \ {v} : V!Storage(u)' = V!Storage(u)
  BY <1>6 DEF V!Storage
<1>8. V!TypeOK'
  <2>1. extent' \in [Block -> Nat]
    BY <1>1, <1>2 DEF V!Released
  <2>. QED  BY <1>1, <1>2, <1>3, <2>1 DEF V!StorageInv, V!TypeOK
<1>9. V!ElementsAreOwned'
  <2>1. \A u \in Vec :
           /\ vectorSize[u] <= m_capacity[u]
           /\ m_capacity[u] = IF m_use_inline_data[u] THEN InlineSize ELSE extent[vectorData[u]]
    BY DEF V!StorageInv, V!ElementsAreOwned
  <2>2. ASSUME NEW u \in Vec
        PROVE  /\ vectorSize'[u] <= m_capacity'[u]
               /\ m_capacity'[u] = IF m_use_inline_data'[u] THEN InlineSize ELSE extent'[vectorData'[u]]
    <3>1. CASE u = v
      <4>1. vectorSize'[u] = 0 /\ m_capacity'[u] = InlineSize /\ m_use_inline_data'[u]
        BY <1>1, <1>3, <1>6, <3>1
      <4>. QED  BY <1>3, <4>1
    <3>2. CASE u # v
      <4>1. ~ m_use_inline_data[u] => vectorData[u] \in Block /\ extent'[vectorData[u]] = extent[vectorData[u]]
        BY <1>2, <1>4, <1>5, <3>2
      <4>. QED  BY <1>1, <1>6, <2>1, <3>2, <4>1
    <3>. QED  BY <3>1, <3>2
  <2>3. \A p \in Vec \cup Block, c \in V!Cell :
           memory[p][c] # Raw <=> \E u \in Vec : p = V!Storage(u) /\ c < vectorSize[u]
    BY DEF V!StorageInv, V!ElementsAreOwned
  <2>4. ASSUME NEW p \in Vec \cup Block, NEW c \in V!Cell
        PROVE  memory'[p][c] # Raw <=> \E u \in Vec : p = V!Storage(u)' /\ c < vectorSize'[u]
    <3>1. ~ (c < 0)
      BY DEF V!Cell
    <3>2. \A u \in Vec : p = V!Storage(u)' /\ c < vectorSize'[u] <=> p = V!Storage(u) /\ c < vectorSize[u]
      BY <1>1, <1>3, <1>7, <3>1
    <3>. QED  BY <1>1, <2>3, <3>2
  <2>. QED  BY <2>2, <2>4 DEF V!ElementsAreOwned
<1>10. V!BlocksAreOwned'
  <2>1. ASSUME NEW c \in Block PROVE extent'[c] > 0 <=> \E u \in Vec : vectorData'[u] = c
    <3>1. CASE c = vectorData[v]
      <4>1. extent'[c] = 0
        BY <1>5, <3>1
      <4>2. \A u \in Vec : vectorData'[u] # c
        BY <1>3, <1>4, <1>6, <3>1
      <4>. QED  BY <4>1, <4>2
    <3>2. CASE c # vectorData[v]
      BY <1>3, <1>4, <1>5, <1>6, <3>2
    <3>. QED  BY <3>1, <3>2
  <2>2. \A u \in Vec : vectorData'[u] \in Block \cup {NoBlock}
    BY <1>2, <1>6
  <2>3. {c \in Block : extent'[c] > 0} = {vectorData'[u] : u \in Vec} \ {NoBlock}
    BY <1>3, <2>1, <2>2
  <2>4. \A u, w \in Vec : u # w /\ vectorData'[u] = vectorData'[w] => vectorData'[u] = NoBlock
    BY <1>4, <1>6
  <2>. QED  BY <2>3, <2>4 DEF V!BlocksAreOwned
<1>11. V!StorageInv'
  BY <1>4, <1>6, <1>8, <1>9, <1>10 DEF V!StorageInv
<1>12. ASSUME NEW u \in Vec PROVE V!Content(u)' = V!Content(u)
  <2>1. CASE u = v
    <3>1. \A j \in 1 .. vectorSize[u] : memory'[V!Storage(u)'][j - 1] = memory[V!Storage(u)][j - 1]
      BY <1>3, <2>1
    <3>. QED  BY <1>1, <3>1, SameContent
  <2>2. CASE u # v
    <3>1. \A j \in 1 .. vectorSize[u] : memory'[V!Storage(u)'][j - 1] = memory[V!Storage(u)][j - 1]
      BY <1>1, <1>7, <2>2
    <3>. QED  BY <1>1, <3>1, SameContent
  <2>. QED  BY <2>1, <2>2
<1>. QED  BY <1>1, <1>11, <1>12

\* A vector without elements takes over the block of another one, and its elements with it.
LEMMA TakeOverKeeps ==
    ASSUME V!VectorAssumption, V!StorageInv, lists' = lists, NEW v \in Vec, NEW w \in Vec \ {v},
           V!Content(v) = <<>>,
           ~ m_use_inline_data[w], V!TakeOver(v, w)
    PROVE  /\ V!StorageInv' /\ calls' = Tail(calls)
           /\ V!Content(v)' = V!Content(w) /\ V!Content(w)' = <<>>
           /\ \A u \in Vec \ {v, w} : V!Content(u)' = V!Content(u)
<1>1. /\ extent' = V!Released(v, extent)
      /\ vectorData' = [vectorData EXCEPT ![v] = vectorData[w], ![w] = NoBlock]
      /\ vectorSize' = [vectorSize EXCEPT ![v] = vectorSize[w], ![w] = 0]
      /\ m_capacity' = [m_capacity EXCEPT ![v] = m_capacity[w], ![w] = InlineSize]
      /\ m_use_inline_data' = [m_use_inline_data EXCEPT ![v] = FALSE, ![w] = TRUE]
      /\ calls' = Tail(calls)
      /\ UNCHANGED <<memory, lists>>
  BY DEF V!TakeOver, V!Left
<1>2. /\ vectorSize \in [Vec -> 0 .. MaxSize] /\ m_capacity \in [Vec -> Nat]
      /\ vectorData \in [Vec -> Block \cup {NoBlock}] /\ m_use_inline_data \in [Vec -> BOOLEAN]
      /\ extent \in [Block -> Nat]
  BY DEF V!StorageInv, V!TypeOK
<1>3. Vec \cap Block = {} /\ NoBlock \notin Block /\ InlineSize \in Nat /\ MaxSize \in Nat /\ vectorSize[v] = 0
  BY EmptyContent DEF V!VectorAssumption
<1>4. /\ \A u \in Vec : m_use_inline_data[u] <=> vectorData[u] = NoBlock
      /\ \A c \in Block : extent[c] > 0 <=> \E u \in Vec : vectorData[u] = c
      /\ \A u, t \in Vec : u # t /\ vectorData[u] = vectorData[t] => vectorData[u] = NoBlock
  <2>1. \A u \in Vec : m_use_inline_data[u] <=> vectorData[u] = NoBlock
    BY DEF V!StorageInv
  <2>2. \A c \in Block : extent[c] > 0 <=> \E u \in Vec : vectorData[u] = c
    BY <1>3 DEF V!StorageInv, V!BlocksAreOwned
  <2>3. \A u, t \in Vec : u # t /\ vectorData[u] = vectorData[t] => vectorData[u] = NoBlock
    BY DEF V!StorageInv, V!BlocksAreOwned
  <2>. QED  BY <2>1, <2>2, <2>3
<1>5. \A c \in Block : extent'[c] = IF c = vectorData[v] THEN 0 ELSE extent[c]
  BY <1>1, <1>2 DEF V!Released
<1>6. /\ \A u \in Vec : vectorData'[u] = IF u = v THEN vectorData[w] ELSE IF u = w THEN NoBlock ELSE vectorData[u]
      /\ \A u \in Vec : vectorSize'[u] = IF u = v THEN vectorSize[w] ELSE IF u = w THEN 0 ELSE vectorSize[u]
      /\ \A u \in Vec : m_capacity'[u] = IF u = v THEN m_capacity[w]
                                         ELSE IF u = w THEN InlineSize ELSE m_capacity[u]
      /\ \A u \in Vec : m_use_inline_data'[u] = IF u = v THEN FALSE
                                                ELSE IF u = w THEN TRUE ELSE m_use_inline_data[u]
  <2>1. v # w
    OBVIOUS
  <2>2. \A u \in Vec : vectorData'[u] = IF u = v THEN vectorData[w] ELSE IF u = w THEN NoBlock ELSE vectorData[u]
    BY <1>1, <1>2, <2>1
  <2>3. \A u \in Vec : vectorSize'[u] = IF u = v THEN vectorSize[w] ELSE IF u = w THEN 0 ELSE vectorSize[u]
    BY <1>1, <1>2, <2>1
  <2>4. \A u \in Vec : m_capacity'[u] = IF u = v THEN m_capacity[w]
                                         ELSE IF u = w THEN InlineSize ELSE m_capacity[u]
    BY <1>1, <1>2, <2>1
  <2>5. \A u \in Vec : m_use_inline_data'[u] = IF u = v THEN FALSE
                                                ELSE IF u = w THEN TRUE ELSE m_use_inline_data[u]
    BY <1>1, <1>2, <2>1
  <2>. QED  BY <2>2, <2>3, <2>4, <2>5
<1>7. /\ \A u \in Vec \ {v, w} : V!Storage(u)' = V!Storage(u)
      /\ V!Storage(v)' = V!Storage(w) /\ vectorData[w] \in Block /\ vectorData[w] # vectorData[v]
  <2>1. vectorData[w] \in Block
    BY <1>2, <1>4
  <2>2. vectorData[w] # vectorData[v]
    <3>1. vectorData[w] # NoBlock /\ w # v
      BY <1>3, <2>1
    <3>. QED  BY <1>4, <3>1
  <2>3. \A u \in Vec \ {v, w} : V!Storage(u)' = V!Storage(u)
    BY <1>6 DEF V!Storage
  <2>4. V!Storage(v)' = V!Storage(w)
    BY <1>6 DEF V!Storage
  <2>. QED  BY <2>1, <2>2, <2>3, <2>4
<1>8. V!TypeOK'
  <2>1. extent' \in [Block -> Nat]
    BY <1>1, <1>2 DEF V!Released
  <2>2. vectorSize' \in [Vec -> 0 .. MaxSize] /\ m_capacity' \in [Vec -> Nat]
    BY <1>1, <1>2, <1>3
  <2>3. vectorData' \in [Vec -> Block \cup {NoBlock}] /\ m_use_inline_data' \in [Vec -> BOOLEAN]
    BY <1>1, <1>2
  <2>. QED  BY <1>1, <2>1, <2>2, <2>3 DEF V!StorageInv, V!TypeOK
<1>9. V!ElementsAreOwned'
  <2>1. \A u \in Vec :
           /\ vectorSize[u] <= m_capacity[u]
           /\ m_capacity[u] = IF m_use_inline_data[u] THEN InlineSize ELSE extent[vectorData[u]]
    BY DEF V!StorageInv, V!ElementsAreOwned
  <2>2. ASSUME NEW u \in Vec
        PROVE  /\ vectorSize'[u] <= m_capacity'[u]
               /\ m_capacity'[u] = IF m_use_inline_data'[u] THEN InlineSize ELSE extent'[vectorData'[u]]
    <3>1. CASE u = v
      <4>1. extent'[vectorData[w]] = extent[vectorData[w]]
        BY <1>5, <1>7
      <4>2. vectorSize[w] <= m_capacity[w] /\ m_capacity[w] = extent[vectorData[w]]
        BY <2>1
      <4>. QED  BY <1>6, <3>1, <4>1, <4>2
    <3>2. CASE u = w
      <4>1. vectorSize'[u] = 0 /\ m_capacity'[u] = InlineSize /\ m_use_inline_data'[u]
        BY <1>6, <3>2
      <4>. QED  BY <1>3, <4>1
    <3>3. CASE u # v /\ u # w
      <4>1. ~ m_use_inline_data[u] => vectorData[u] \in Block /\ extent'[vectorData[u]] = extent[vectorData[u]]
        BY <1>2, <1>4, <1>5, <3>3
      <4>. QED  BY <1>6, <2>1, <3>3, <4>1
    <3>. QED  BY <3>1, <3>2, <3>3
  <2>3. \A p \in Vec \cup Block, c \in V!Cell :
           memory[p][c] # Raw <=> \E u \in Vec : p = V!Storage(u) /\ c < vectorSize[u]
    BY DEF V!StorageInv, V!ElementsAreOwned
  <2>4. ASSUME NEW p \in Vec \cup Block, NEW c \in V!Cell
        PROVE  memory'[p][c] # Raw <=> \E u \in Vec : p = V!Storage(u)' /\ c < vectorSize'[u]
    <3>1. ~ (c < 0)
      BY DEF V!Cell
    <3>2. ASSUME NEW u \in Vec, p = V!Storage(u), c < vectorSize[u]
          PROVE  \E t \in Vec : p = V!Storage(t)' /\ c < vectorSize'[t]
      <4>1. CASE u = w
        BY <1>6, <1>7, <3>2, <4>1
      <4>2. CASE u # w
        <5>1. u # v
          BY <1>3, <3>1, <3>2
        <5>. QED  BY <1>6, <1>7, <3>2, <4>2, <5>1
      <4>. QED  BY <4>1, <4>2
    <3>3. ASSUME NEW u \in Vec, p = V!Storage(u)', c < vectorSize'[u]
          PROVE  \E t \in Vec : p = V!Storage(t) /\ c < vectorSize[t]
      <4>1. CASE u = v
        BY <1>6, <1>7, <3>3, <4>1
      <4>2. CASE u # v
        <5>1. u # w
          BY <1>6, <3>1, <3>3, <4>2
        <5>. QED  BY <1>6, <1>7, <3>3, <4>2, <5>1
      <4>. QED  BY <4>1, <4>2
    <3>. QED  BY <1>1, <2>3, <3>2, <3>3
  <2>. QED  BY <2>2, <2>4 DEF V!ElementsAreOwned
<1>10. V!BlocksAreOwned'
  <2>1. ASSUME NEW c \in Block PROVE extent'[c] > 0 <=> \E u \in Vec : vectorData'[u] = c
    <3>1. CASE c = vectorData[v]
      <4>1. extent'[c] = 0
        BY <1>5, <3>1
      <4>2. \A u \in Vec : vectorData'[u] # c
        BY <1>3, <1>4, <1>6, <1>7, <3>1
      <4>. QED  BY <4>1, <4>2
    <3>2. CASE c # vectorData[v]
      <4>1. extent'[c] = extent[c]
        BY <1>5, <3>2
      <4>2. (\E u \in Vec : vectorData'[u] = c) <=> (\E u \in Vec : vectorData[u] = c)
        BY <1>3, <1>6, <3>2
      <4>. QED  BY <1>4, <4>1, <4>2
    <3>. QED  BY <3>1, <3>2
  <2>2. \A u \in Vec : vectorData'[u] \in Block \cup {NoBlock}
    BY <1>2, <1>6
  <2>3. {c \in Block : extent'[c] > 0} = {vectorData'[u] : u \in Vec} \ {NoBlock}
    BY <1>3, <2>1, <2>2
  <2>4. \A u, t \in Vec : u # t /\ vectorData'[u] = vectorData'[t] => vectorData'[u] = NoBlock
    BY <1>4, <1>6
  <2>. QED  BY <2>3, <2>4 DEF V!BlocksAreOwned
<1>11. V!StorageInv'
  <2>1. \A u \in Vec : m_use_inline_data'[u] <=> vectorData'[u] = NoBlock
    BY <1>3, <1>4, <1>6, <1>7
  <2>. QED  BY <1>8, <1>9, <1>10, <2>1 DEF V!StorageInv
<1>12. ASSUME NEW u \in Vec \ {v, w} PROVE V!Content(u)' = V!Content(u)
  <2>1. \A j \in 1 .. vectorSize[u] : memory'[V!Storage(u)'][j - 1] = memory[V!Storage(u)][j - 1]
    BY <1>1, <1>7
  <2>2. vectorSize'[u] = vectorSize[u]
    BY <1>6
  <2>. QED  BY <2>1, <2>2, SameContent
<1>13. V!Content(v)' = V!Content(w)
  <2>1. \A j \in 1 .. vectorSize[w] : memory'[V!Storage(v)'][j - 1] = memory[V!Storage(w)][j - 1]
    BY <1>1, <1>7
  <2>2. vectorSize'[v] = vectorSize[w]
    BY <1>6
  <2>. QED  BY <2>1, <2>2, SameContent
<1>14. V!Content(w)' = <<>>
  <2>1. V!Content(w)' = [j \in 1 .. vectorSize'[w] |-> memory'[V!Storage(w)'][j - 1]] /\ vectorSize'[w] = 0
    BY <1>6 DEF V!Content
  <2>. QED  BY <2>1
<1>. QED  BY <1>1, <1>11, <1>12, <1>13, <1>14

-----------------------------------------------------------------------------
(* The methods that a method still has to call *)

\* What a method may still have to call.
Calls ==
    {V!GrowBy(v, n) : v \in Vec, n \in Nat}
        \cup {V!AppendFrom(v, p, i) : v \in Vec, p \in Vec \cup Block \cup {Outside}, i \in Nat \cup Element}
        \cup {V!ClearOf(v) : v \in Vec} \cup {V!FreeOf(v) : v \in Vec}
        \cup {V!Steal(v, w) : v \in Vec, w \in Vec}

\* The first call, and those after it.
LEMMA FirstCall ==
    ASSUME NEW S, NEW e \in S, NEW s \in Seq(S)
    PROVE  /\ <<e>> \o s \in Seq(S) /\ <<e>> \o s # <<>>
           /\ Head(<<e>> \o s) = e /\ Tail(<<e>> \o s) = s
<1>1. <<e>> \in Seq(S) /\ Len(<<e>>) = 1 /\ <<e>>[1] = e
  OBVIOUS
<1>2. PICK q, n : q = <<e>> \o s /\ n = Len(s)
  OBVIOUS
<1>3. n \in Nat
  BY <1>2
<1>4. /\ q \in Seq(S) /\ Len(q) = 1 + n
      /\ \A i \in 1 .. 1 + n : q[i] = IF i <= 1 THEN e ELSE s[i - 1]
  <2>1. /\ q \in Seq(S) /\ Len(q) = Len(<<e>>) + n
        /\ \A i \in 1 .. Len(<<e>>) + n : q[i] = IF i <= Len(<<e>>) THEN <<e>>[i] ELSE s[i - Len(<<e>>)]
    BY <1>1, <1>2, ConcatProperties
  <2>2. 1 + n \in Nat /\ \A i \in 1 .. 1 + n : i <= 1 => i = 1
    BY <1>3
  <2>. QED  BY <1>1, <2>1, <2>2
<1>5. q # <<>> /\ Head(q) = e
  <2>1. Len(<<>>) = 0 /\ 1 \in 1 .. 1 + n
    BY <1>3
  <2>2. Head(q) = q[1]
    BY <1>3, <1>4
  <2>. QED  BY <1>3, <1>4, <2>1, <2>2
<1>6. Tail(q) \in Seq(S) /\ Len(Tail(q)) = Len(q) - 1 /\ \A i \in 1 .. Len(Tail(q)) : Tail(q)[i] = q[i + 1]
  BY <1>4, <1>5, HeadTailProperties
<1>7. ASSUME NEW i \in 1 .. n PROVE q[i + 1] = s[i]
  <2>1. i + 1 \in 1 .. 1 + n /\ ~ (i + 1 <= 1) /\ (i + 1) - 1 = i
    BY <1>3
  <2>. QED  BY <1>4, <2>1
<1>8. Tail(q) = s
  <2>1. Len(Tail(q)) = n
    BY <1>3, <1>4, <1>6
  <2>2. \A i \in 1 .. Len(Tail(q)) : Tail(q)[i] = s[i]
    BY <1>6, <1>7, <2>1
  <2>. QED  BY <1>2, <1>6, <2>1, <2>2, SeqEqual
<1>. QED  BY <1>2, <1>4, <1>5, <1>8

\* The calls are calls.
LEMMA CallsAre ==
    ASSUME V!VectorAssumption, V!StorageInv, NEW v \in Vec, NEW w \in Vec
    PROVE  /\ V!GrowBy(v, vectorSize[w]) \in Calls /\ V!ClearOf(v) \in Calls
           /\ V!FreeOf(v) \in Calls /\ V!Steal(v, w) \in Calls
           /\ \A x \in Element : V!AppendFrom(v, Outside, x) \in Calls
           /\ \A n \in Nat : V!AppendFrom(v, V!Storage(w), n) \in Calls
<1>1. vectorSize[w] \in Nat /\ V!Storage(w) \in Vec \cup Block
  BY Held
<1>2. V!GrowBy(v, vectorSize[w]) \in Calls
  BY <1>1 DEF Calls
<1>3. V!ClearOf(v) \in Calls /\ V!FreeOf(v) \in Calls
  BY DEF Calls
<1>4. V!Steal(v, w) \in Calls
  BY DEF Calls
<1>5. \A x \in Element : V!AppendFrom(v, Outside, x) \in Calls
  BY DEF Calls
<1>6. \A n \in Nat : V!AppendFrom(v, V!Storage(w), n) \in Calls
  BY <1>1 DEF Calls
<1>. QED  BY <1>2, <1>3, <1>4, <1>5, <1>6

\* The calls of append() of extend(), one by one.
LEMMA AppendsAre ==
    ASSUME V!VectorAssumption, V!StorageInv, NEW v \in Vec, NEW w \in Vec,
           NEW k \in 0 .. vectorSize[w]
    PROVE  /\ V!Appends(v, w, k) \in Seq(Calls) /\ Len(V!Appends(v, w, k)) = vectorSize[w] - k
           /\ \A i \in 1 .. vectorSize[w] - k : V!Appends(v, w, k)[i] = V!AppendFrom(v, V!Storage(w), k + i - 1)
<1>1. PICK n, a : n = vectorSize[w] - k /\ a = V!Appends(v, w, k)
  OBVIOUS
<1>2. n \in Nat /\ k \in Nat
  <2>1. vectorSize[w] \in Nat
    BY Held
  <2>. QED  BY <1>1, <2>1
<1>3. a = [i \in 1 .. n |-> V!AppendFrom(v, V!Storage(w), k + i - 1)]
  BY <1>1 DEF V!Appends
<1>4. ASSUME NEW i \in 1 .. n
      PROVE a[i] \in Calls /\ a[i] = V!AppendFrom(v, V!Storage(w), k + i - 1)
  <2>1. k + i - 1 \in Nat
    BY <1>2
  <2>. QED  BY <1>3, <2>1, CallsAre
<1>5. a \in [1 .. n -> Calls]
  BY <1>3, <1>4
<1>. QED  BY <1>1, <1>2, <1>4, <1>5

LEMMA AppendsStep ==
    ASSUME V!VectorAssumption, V!StorageInv, NEW v \in Vec, NEW w \in Vec, NEW k \in Nat,
           k < vectorSize[w]
    PROVE  V!Appends(v, w, k) = <<V!AppendFrom(v, V!Storage(w), k)>> \o V!Appends(v, w, k + 1)
<1>0. vectorSize[w] \in Nat
  BY Held
<1>1. PICK n, a, b, e : /\ n = vectorSize[w] - (k + 1) /\ a = V!Appends(v, w, k)
                        /\ b = V!Appends(v, w, k + 1) /\ e = V!AppendFrom(v, V!Storage(w), k)
  OBVIOUS
<1>2. n \in Nat /\ vectorSize[w] - k = n + 1 /\ k \in 0 .. vectorSize[w] /\ k + 1 \in 0 .. vectorSize[w]
  BY <1>0, <1>1
<1>3. a \in Seq(Calls) /\ Len(a) = n + 1 /\ \A i \in 1 .. n + 1 : a[i] = V!AppendFrom(v, V!Storage(w), k + i - 1)
  BY <1>1, <1>2, AppendsAre
<1>4. b \in Seq(Calls) /\ Len(b) = n /\ \A i \in 1 .. n : b[i] = V!AppendFrom(v, V!Storage(w), k + 1 + i - 1)
  BY <1>1, <1>2, AppendsAre
<1>5. <<e>> \in Seq(Calls) /\ Len(<<e>>) = 1 /\ <<e>>[1] = e
  <2>1. e \in Calls
    BY <1>1, CallsAre
  <2>. QED  BY <2>1
<1>6. PICK q : q = <<e>> \o b
  OBVIOUS
<1>7. /\ q \in Seq(Calls) /\ Len(q) = Len(<<e>>) + Len(b)
      /\ \A i \in 1 .. Len(<<e>>) + Len(b) : q[i] = IF i <= Len(<<e>>) THEN <<e>>[i] ELSE b[i - Len(<<e>>)]
  BY <1>4, <1>5, <1>6, ConcatProperties
<1>8. Len(q) = n + 1 /\ \A i \in 1 .. n + 1 : q[i] = IF i <= 1 THEN <<e>>[i] ELSE b[i - 1]
  <2>1. Len(<<e>>) + Len(b) = n + 1
    BY <1>2, <1>4, <1>5
  <2>. QED  BY <1>5, <1>7, <2>1
<1>9. ASSUME NEW i \in 1 .. n + 1 PROVE a[i] = q[i]
  <2>1. CASE i = 1
    <3>1. q[i] = e
      BY <1>2, <1>5, <1>8, <2>1
    <3>2. k + i - 1 = k
      BY <2>1
    <3>. QED  BY <1>1, <1>3, <3>1, <3>2
  <2>2. CASE i # 1
    <3>1. i - 1 \in 1 .. n /\ ~ (i <= 1) /\ k + 1 + (i - 1) - 1 = k + i - 1
      BY <1>2, <2>2
    <3>2. q[i] = b[i - 1]
      BY <1>8, <3>1
    <3>. QED  BY <1>3, <1>4, <3>1, <3>2
  <2>. QED  BY <2>1, <2>2
<1>10. a = q
  BY <1>3, <1>7, <1>8, <1>9, SeqEqual
<1>. QED  BY <1>1, <1>6, <1>10

\* extend() is ensure_capacity() and then one append() for each element.
LEMMA ExtendIs ==
    ASSUME V!VectorAssumption, V!StorageInv, NEW v \in Vec, NEW w \in Vec, NEW rest \in Seq(Calls)
    PROVE  /\ V!ExtendBy(v, w) \o rest = <<V!GrowBy(v, vectorSize[w])>> \o (V!Appends(v, w, 0) \o rest)
           /\ V!Appends(v, w, 0) \o rest \in Seq(Calls)
           /\ V!ExtendBy(v, w) \in Seq(Calls)
<1>1. vectorSize[w] \in Nat /\ 0 \in 0 .. vectorSize[w]
  BY Held
<1>2. PICK n, place : n = vectorSize[w] /\ place = V!Storage(w)
  OBVIOUS
<1>3. V!Appends(v, w, 0) = [i \in 1 .. n |-> V!AppendFrom(v, place, i - 1)]
  <2>1. V!Appends(v, w, 0) = [i \in 1 .. n - 0 |-> V!AppendFrom(v, place, 0 + i - 1)]
    BY <1>2 DEF V!Appends
  <2>2. 1 .. n - 0 = 1 .. n /\ \A i \in 1 .. n : 0 + i - 1 = i - 1
    BY <1>1, <1>2
  <2>. QED  BY <2>1, <2>2
<1>4. V!ExtendBy(v, w) = <<V!GrowBy(v, vectorSize[w])>> \o V!Appends(v, w, 0)
  BY <1>2, <1>3 DEF V!ExtendBy
<1>5. <<V!GrowBy(v, vectorSize[w])>> \in Seq(Calls)
  <2>1. V!GrowBy(v, vectorSize[w]) \in Calls
    BY CallsAre
  <2>. QED  BY <2>1
<1>6. V!Appends(v, w, 0) \in Seq(Calls)
  BY <1>1, AppendsAre
<1>7. V!Appends(v, w, 0) \o rest \in Seq(Calls) /\ V!ExtendBy(v, w) \in Seq(Calls)
  BY <1>4, <1>5, <1>6, ConcatProperties
<1>. QED  BY <1>4, <1>5, <1>6, <1>7, ConcatAssociative

\* The first call of append(), and those after it.
LEMMA AppendsFirst ==
    ASSUME V!VectorAssumption, V!StorageInv, NEW v \in Vec, NEW w \in Vec, NEW rest \in Seq(Calls),
           NEW k \in Nat, k < vectorSize[w]
    PROVE  /\ V!Appends(v, w, k) \o rest = <<V!AppendFrom(v, V!Storage(w), k)>> \o (V!Appends(v, w, k + 1) \o rest)
           /\ V!Appends(v, w, k + 1) \o rest \in Seq(Calls)
<1>1. k + 1 \in 0 .. vectorSize[w]
  <2>1. vectorSize[w] \in Nat
    BY Held
  <2>. QED  BY <2>1
<1>2. V!Appends(v, w, k + 1) \in Seq(Calls)
  BY <1>1, AppendsAre
<1>3. <<V!AppendFrom(v, V!Storage(w), k)>> \in Seq(Calls)
  <2>1. V!AppendFrom(v, V!Storage(w), k) \in Calls
    BY CallsAre
  <2>. QED  BY <2>1
<1>4. V!Appends(v, w, k + 1) \o rest \in Seq(Calls)
  BY <1>2, ConcatProperties
<1>5. V!Appends(v, w, k) = <<V!AppendFrom(v, V!Storage(w), k)>> \o V!Appends(v, w, k + 1)
  BY AppendsStep
<1>6. (<<V!AppendFrom(v, V!Storage(w), k)>> \o V!Appends(v, w, k + 1)) \o rest
         = <<V!AppendFrom(v, V!Storage(w), k)>> \o (V!Appends(v, w, k + 1) \o rest)
  BY <1>2, <1>3, ConcatAssociative
<1>. QED  BY <1>4, <1>5, <1>6

\* After the last call of append(), the rest is left.
LEMMA AppendsLast ==
    ASSUME V!VectorAssumption, V!StorageInv, NEW v \in Vec, NEW w \in Vec, NEW rest \in Seq(Calls)
    PROVE  V!Appends(v, w, vectorSize[w]) \o rest = rest
<1>1. vectorSize[w] \in Nat /\ vectorSize[w] \in 0 .. vectorSize[w] /\ vectorSize[w] - vectorSize[w] = 0
  BY Held
<1>2. V!Appends(v, w, vectorSize[w]) \in Seq(Calls) /\ Len(V!Appends(v, w, vectorSize[w])) = 0
  BY <1>1, AppendsAre
<1>3. V!Appends(v, w, vectorSize[w]) = <<>>
  BY <1>2
<1>. QED  BY <1>3, ConcatEmptySeq

\* The step of a method whose next call is known.
LEMMA WorkGrow ==
    ASSUME NEW v, NEW n, NEW s \in Seq(Calls), V!GrowBy(v, n) \in Calls, calls = <<V!GrowBy(v,
           n)>> \o s, V!Work
    PROVE  V!EnsureCapacity(v, vectorSize[v] + n, s) /\ lists' = lists
<1>1. Head(calls) = V!GrowBy(v, n) /\ Tail(calls) = s
  BY FirstCall
<1>2. PICK c : c = Head(calls)
  OBVIOUS
<1>3. c.do = "grow" /\ c.vec = v /\ c.n = n
  BY <1>1, <1>2 DEF V!GrowBy
<1>4. V!EnsureCapacity(c.vec, vectorSize[c.vec] + c.n, Tail(calls)) /\ lists' = lists
  BY <1>2, <1>3 DEF V!Work
<1>. QED  BY <1>1, <1>3, <1>4

LEMMA WorkAppend ==
    ASSUME NEW v, NEW p, NEW i, NEW s \in Seq(Calls), V!AppendFrom(v, p, i) \in Calls,
           calls = <<V!AppendFrom(v, p, i)>> \o s, V!Work
    PROVE  /\ \/ V!EnsureCapacity(v, vectorSize[v] + 1, calls)
              \/ V!Enough(v, vectorSize[v] + 1) /\ V!Construct(v, p, i)
           /\ lists' = lists /\ Tail(calls) = s
<1>1. Head(calls) = V!AppendFrom(v, p, i) /\ Tail(calls) = s
  BY FirstCall
<1>. QED  BY <1>1 DEF V!Work, V!AppendFrom

LEMMA WorkClear ==
    ASSUME NEW v, NEW s \in Seq(Calls), V!ClearOf(v) \in Calls, calls = <<V!ClearOf(v)>> \o s,
           V!Work
    PROVE  V!Clear(v) /\ lists' = lists /\ Tail(calls) = s /\ calls # <<>>
<1>1. Head(calls) = V!ClearOf(v) /\ Tail(calls) = s /\ calls # <<>>
  BY FirstCall
<1>. QED  BY <1>1 DEF V!Work, V!ClearOf

LEMMA WorkLast ==
    ASSUME NEW v, NEW w, V!Work
    PROVE  /\ calls = <<V!FreeOf(v)>> => V!Free(v) /\ lists' = lists /\ Tail(calls) = <<>>
           /\ calls = <<V!Steal(v, w)>> => V!TakeOver(v, w) /\ lists' = lists /\ Tail(calls) = <<>>
<1>1. ASSUME calls = <<V!FreeOf(v)>> PROVE V!Free(v) /\ lists' = lists /\ Tail(calls) = <<>>
  <2>1. Head(calls) = V!FreeOf(v) /\ Tail(calls) = <<>>
    BY <1>1
  <2>. QED  BY <2>1 DEF V!Work, V!FreeOf
<1>2. ASSUME calls = <<V!Steal(v, w)>>
      PROVE V!TakeOver(v, w) /\ lists' = lists /\ Tail(calls) = <<>>
  <2>1. Head(calls) = V!Steal(v, w) /\ Tail(calls) = <<>>
    BY <1>2
  <2>. QED  BY <2>1 DEF V!Work, V!Steal
<1>. QED  BY <1>1, <1>2

\* What a method has done when it has nothing more to call.
Outcome ==
    \E v \in Vec :
        \/ \E x \in Element : \A u \in Vec : V!Content(u)' = IF u = v THEN Append(lists[v], x) ELSE lists[u]
        \/ \E w \in Vec \ {v} :
              \/ \A u \in Vec : V!Content(u)' = IF u = v THEN lists[v] \o lists[w] ELSE lists[u]
              \/ \A u \in Vec : V!Content(u)' = IF u = v THEN lists[w] ELSE lists[u]
              \/ \A u \in Vec : V!Content(u)' = IF u = v THEN lists[w] ELSE IF u = w THEN <<>> ELSE lists[u]
        \/ \A u \in Vec : V!Content(u)' = IF u = v THEN <<>> ELSE lists[u]

Goes == V!StorageInv' /\ V!WorkInv' /\ (calls' = <<>> => Outcome)

LEMMA AppendingGoes ==
    ASSUME V!VectorAssumption, V!StorageInv, V!Work, NEW v \in Vec, NEW x \in Element,
           V!Appending(v, x)
    PROVE  Goes
<1>1. /\ calls = <<V!AppendFrom(v, Outside, x)>> /\ vectorSize[v] < MaxSize
      /\ \A u \in Vec : V!Content(u) = lists[u]
  BY DEF V!Appending, V!Holds
<1>2. V!AppendFrom(v, Outside, x) \in Calls
  BY CallsAre
<1>3. calls = <<V!AppendFrom(v, Outside, x)>> \o <<>> /\ <<>> \in Seq(Calls)
  <2>1. <<V!AppendFrom(v, Outside, x)>> \in Seq(Calls)
    BY <1>2
  <2>. QED  BY <1>1, <2>1, ConcatEmptySeq
<1>4. /\ \/ V!EnsureCapacity(v, vectorSize[v] + 1, calls)
         \/ V!Enough(v, vectorSize[v] + 1) /\ V!Construct(v, Outside, x)
      /\ lists' = lists /\ Tail(calls) = <<>>
  BY <1>2, <1>3, WorkAppend
<1>5. vectorSize[v] + 1 \in 0 .. MaxSize /\ vectorSize[v] <= vectorSize[v] + 1
  <2>1. vectorSize[v] \in Nat /\ MaxSize \in Nat
    BY Held DEF V!VectorAssumption
  <2>. QED  BY <1>1, <2>1
<1>6. CASE V!EnsureCapacity(v, vectorSize[v] + 1, calls)
  <2>1. /\ V!StorageInv' /\ calls' = calls /\ vectorSize' = vectorSize
        /\ \A u \in Vec : V!Content(u)' = V!Content(u)
    BY <1>4, <1>5, <1>6, EnsureKeeps
  <2>2. V!Holds(v, lists[v])'
    BY <1>1, <1>4, <2>1 DEF V!Holds
  <2>3. V!Appending(v, x)'
    BY <1>1, <2>1, <2>2 DEF V!Appending, V!AppendFrom
  <2>4. V!WorkInv'
    BY <2>3 DEF V!WorkInv
  <2>5. calls' # <<>>
    BY <1>1, <2>1
  <2>. QED  BY <2>1, <2>4, <2>5 DEF Goes
<1>7. CASE V!Enough(v, vectorSize[v] + 1) /\ V!Construct(v, Outside, x)
  <2>1. /\ V!StorageInv' /\ calls' = Tail(calls) /\ V!Content(v)' = Append(V!Content(v), x)
        /\ \A u \in Vec \ {v} : V!Content(u)' = V!Content(u)
    <3>1. x = IF Outside = Outside THEN x ELSE memory[Outside][x]
      OBVIOUS
    <3>. QED  BY <1>1, <1>4, <1>7, <3>1, ConstructKeeps
  <2>2. \A u \in Vec : V!Content(u)' = IF u = v THEN Append(lists[v], x) ELSE lists[u]
    BY <1>1, <2>1
  <2>3. Outcome
    BY <2>2 DEF Outcome
  <2>4. calls' = <<>>
    BY <1>4, <2>1
  <2>5. V!WorkInv'
    BY <2>4 DEF V!WorkInv
  <2>. QED  BY <2>1, <2>3, <2>5 DEF Goes
<1>. QED  BY <1>4, <1>6, <1>7

LEMMA EndingGoes ==
    ASSUME V!VectorAssumption, V!StorageInv, V!Work, NEW v \in Vec, V!Ending(v)
    PROVE  Goes
<1>1. /\ calls \in V!Endings(v) /\ \A u \in Vec : V!Content(u) = IF u = v THEN <<>> ELSE lists[u]
  BY DEF V!Ending, V!Holds
<1>2. V!Content(v) = <<>>
  BY <1>1
<1>3. CASE calls = <<V!FreeOf(v)>>
  <2>1. V!Free(v) /\ lists' = lists /\ Tail(calls) = <<>>
    BY <1>3, WorkLast
  <2>2. V!StorageInv' /\ calls' = Tail(calls) /\ \A u \in Vec : V!Content(u)' = V!Content(u)
    BY <1>2, <2>1, FreeKeeps
  <2>3. \A u \in Vec : V!Content(u)' = IF u = v THEN <<>> ELSE lists[u]
    BY <1>1, <2>2
  <2>4. Outcome
    BY <2>3 DEF Outcome
  <2>5. V!WorkInv'
    BY <2>1, <2>2 DEF V!WorkInv
  <2>. QED  BY <2>2, <2>4, <2>5 DEF Goes
<1>4. ASSUME NEW w \in Vec \ {v}, ~ m_use_inline_data[w], calls = <<V!Steal(v, w)>>
      PROVE  Goes
  <2>1. V!TakeOver(v, w) /\ lists' = lists /\ Tail(calls) = <<>>
    BY <1>4, WorkLast
  <2>2. /\ V!StorageInv' /\ calls' = Tail(calls) /\ V!Content(v)' = V!Content(w)
        /\ V!Content(w)' = <<>>
        /\ \A u \in Vec \ {v, w} : V!Content(u)' = V!Content(u)
    BY <1>2, <1>4, <2>1, TakeOverKeeps
  <2>3. \A u \in Vec : V!Content(u)' = IF u = v THEN lists[w] ELSE IF u = w THEN <<>> ELSE lists[u]
    BY <1>1, <2>2
  <2>4. Outcome
    BY <2>3 DEF Outcome
  <2>5. V!WorkInv'
    BY <2>1, <2>2 DEF V!WorkInv
  <2>. QED  BY <2>2, <2>4, <2>5 DEF Goes
<1>. QED  BY <1>1, <1>3, <1>4 DEF V!Endings

\* The rests of a method are sequences of calls.
LEMMA RestsAre ==
    ASSUME V!VectorAssumption, V!StorageInv, NEW v \in Vec
    PROVE  V!Rests(v) \subseteq Seq(Calls) /\ V!Tails(v) \subseteq Seq(Calls)
<1>0. \A w \in Vec : V!Tails(w) \subseteq Seq(Calls)
  <2>1. ASSUME NEW w \in Vec PROVE <<>> \in Seq(Calls) /\ <<V!ClearOf(w)>> \in Seq(Calls)
    <3>1. V!ClearOf(w) \in Calls
      BY CallsAre
    <3>. QED  BY <3>1
  <2>. QED  BY <2>1 DEF V!Tails
<1>1. V!Endings(v) \subseteq Seq(Calls)
  <2>1. <<V!FreeOf(v)>> \in Seq(Calls)
    <3>1. V!FreeOf(v) \in Calls
      BY CallsAre
    <3>. QED  BY <3>1
  <2>2. ASSUME NEW w \in Vec PROVE <<V!Steal(v, w)>> \in Seq(Calls)
    <3>1. V!Steal(v, w) \in Calls
      BY CallsAre
    <3>. QED  BY <3>1
  <2>. QED  BY <2>1, <2>2 DEF V!Endings
<1>2. ASSUME NEW w \in Vec, NEW rest \in V!Tails(w) PROVE V!ExtendBy(v, w) \o rest \in Seq(Calls)
  <2>1. rest \in Seq(Calls)
    BY <1>0
  <2>2. V!ExtendBy(v, w) \in Seq(Calls)
    BY <2>1, ExtendIs
  <2>. QED  BY <2>1, <2>2, ConcatProperties
<1>3. <<>> \in Seq(Calls)
  OBVIOUS
<1>4. ASSUME NEW s \in V!Rests(v) PROVE s \in Seq(Calls)
  <2>1. \/ s = <<>> \/ s \in V!Endings(v)
        \/ \E w \in Vec \ {v} : \E rest \in V!Tails(w) : s = V!ExtendBy(v, w) \o rest
    BY DEF V!Rests
  <2>2. ASSUME NEW w \in Vec \ {v}, NEW rest \in V!Tails(w), s = V!ExtendBy(v, w) \o rest
        PROVE  s \in Seq(Calls)
    BY <1>2, <2>2
  <2>. QED  BY <1>1, <1>3, <2>1, <2>2
<1>. QED  BY <1>0, <1>4

\* What remains to be called is the same as long as the other vector is not touched.
LEMMA SameCalls ==
    ASSUME NEW v \in Vec, NEW w \in Vec, vectorSize'[w] = vectorSize[w],
           V!Storage(w)' = V!Storage(w)
    PROVE  V!ExtendBy(v, w)' = V!ExtendBy(v, w) /\ \A k \in Nat : V!Appends(v, w, k)' = V!Appends(v, w, k)
<1>1. PICK n, p : n = vectorSize[w] /\ p = V!Storage(w)
  OBVIOUS
<1>2. V!ExtendBy(v, w)' = <<V!GrowBy(v, n)>> \o [i \in 1 .. n |-> V!AppendFrom(v, p, i - 1)]
  BY <1>1 DEF V!ExtendBy, V!GrowBy, V!AppendFrom
<1>3. V!ExtendBy(v, w) = <<V!GrowBy(v, n)>> \o [i \in 1 .. n |-> V!AppendFrom(v, p, i - 1)]
  BY <1>1 DEF V!ExtendBy
<1>4. ASSUME NEW k \in Nat PROVE V!Appends(v, w, k)' = V!Appends(v, w, k)
  <2>1. V!Appends(v, w, k)' = [i \in 1 .. n - k |-> V!AppendFrom(v, p, k + i - 1)]
    BY <1>1 DEF V!Appends, V!AppendFrom
  <2>2. V!Appends(v, w, k) = [i \in 1 .. n - k |-> V!AppendFrom(v, p, k + i - 1)]
    BY <1>1 DEF V!Appends
  <2>. QED  BY <2>1, <2>2
<1>. QED  BY <1>2, <1>3, <1>4

\* There is nothing to call when all elements are appended and there is no rest.
LEMMA AppendsEmpty ==
    ASSUME V!VectorAssumption, V!StorageInv, NEW v \in Vec, NEW w \in Vec, NEW rest \in Seq(Calls),
           NEW k \in 0 .. vectorSize[w], V!Appends(v, w, k) \o rest = <<>>
    PROVE  k = vectorSize[w] /\ rest = <<>>
<1>1. vectorSize[w] \in Nat
  BY Held
<1>2. k = vectorSize[w]
  <2>1. SUFFICES ASSUME k < vectorSize[w] PROVE FALSE
    BY <1>1
  <2>2. k \in Nat
    BY <1>1
  <2>3. /\ V!Appends(v, w, k) \o rest = <<V!AppendFrom(v, V!Storage(w), k)>> \o (V!Appends(v, w, k + 1) \o rest)
        /\ V!Appends(v, w, k + 1) \o rest \in Seq(Calls)
    BY <2>1, <2>2, AppendsFirst
  <2>4. V!AppendFrom(v, V!Storage(w), k) \in Calls
    BY <2>2, CallsAre
  <2>. QED  BY <2>3, <2>4, FirstCall
<1>. QED  BY <1>2, AppendsLast

\* After a step of extend(), what it has appended and what it will append make up the other vector.
LEMMA ExtendingMoves ==
    ASSUME V!VectorAssumption, V!StorageInv, V!StorageInv', lists' = lists,
           NEW v \in Vec, NEW w \in Vec \ {v}, NEW rest \in V!Tails(w), NEW base,
           base \in {<<>>, lists[v]}, base = lists[v] => rest = <<>> \/ base = <<>>,
           vectorSize'[w] = vectorSize[w], V!Storage(w)' = V!Storage(w), V!Content(w) = lists[w],
           Len(base) + vectorSize[w] <= MaxSize, NEW k \in 0 .. vectorSize[w],
           calls' = V!Appends(v, w, k) \o rest, V!Content(v)' = base \o SubSeq(lists[w], 1, k),
           \A u \in Vec \ {v} : V!Content(u)' = lists[u]
    PROVE  Goes
<1>1. V!Holds(v, base \o SubSeq(lists[w], 1, k))'
  BY DEF V!Holds
<1>2. k \in Nat /\ vectorSize[w] \in Nat
  BY Held
<1>3. calls' = V!Appends(v, w, k)' \o rest
  BY <1>2, SameCalls
<1>4. V!Extending(v, w, base, rest)'
  <2>1. \E j \in 0 .. vectorSize'[w] :
           calls' = V!Appends(v, w, j)' \o rest /\ V!Holds(v, base \o SubSeq(lists[w], 1, j))'
    BY <1>1, <1>3
  <2>2. \E j \in 0 .. vectorSize'[w] :
           (calls = V!Appends(v, w, j) \o rest /\ V!Holds(v, base \o SubSeq(lists[w], 1, j)))'
    BY <2>1
  <2>. QED  BY <2>2 DEF V!Extending
<1>5. V!WorkInv'
  <2>1. base \in {<<>>, lists'[v]}
    OBVIOUS
  <2>. QED  BY <1>4, <2>1 DEF V!WorkInv
<1>6. ASSUME calls' = <<>> PROVE Outcome
  <2>1. rest \in Seq(Calls)
    BY RestsAre
  <2>2. k = vectorSize[w]
    BY <1>6, <2>1, AppendsEmpty
  <2>3. lists[w] \in Seq(Element) /\ Len(lists[w]) = k /\ lists[v] \in Seq(Element)
    BY <2>2, Held DEF V!StorageInv, V!TypeOK
  <2>4. V!Content(v)' = base \o lists[w]
    BY <2>3, SubSeqFull
  <2>5. CASE base = lists[v]
    <3>1. \A u \in Vec : V!Content(u)' = IF u = v THEN lists[v] \o lists[w] ELSE lists[u]
      BY <2>4, <2>5
    <3>. QED  BY <3>1 DEF Outcome
  <2>6. CASE base = <<>>
    <3>1. V!Content(v)' = lists[w]
      BY <2>3, <2>4, <2>6, ConcatEmptySeq
    <3>2. \A u \in Vec : V!Content(u)' = IF u = v THEN lists[w] ELSE lists[u]
      BY <3>1
    <3>. QED  BY <3>2 DEF Outcome
  <2>. QED  BY <2>5, <2>6
<1>. QED  BY <1>5, <1>6 DEF Goes

LEMMA ClearingGoes ==
    ASSUME V!VectorAssumption, V!StorageInv, V!Work, NEW v \in Vec, V!Clearing(v)
    PROVE  Goes
<1>1. PICK rest \in V!Rests(v) : calls = <<V!ClearOf(v)>> \o rest
  BY DEF V!Clearing
<1>2. \A u \in Vec : V!Content(u) = lists[u]
  BY DEF V!Clearing, V!Holds
<1>3. rest \in Seq(Calls) /\ V!ClearOf(v) \in Calls
  BY RestsAre, CallsAre
<1>4. V!Clear(v) /\ lists' = lists /\ Tail(calls) = rest
  BY <1>1, <1>3, WorkClear
<1>5. /\ V!StorageInv' /\ calls' = Tail(calls) /\ V!Content(v)' = <<>>
      /\ \A u \in Vec \ {v} : V!Content(u)' = V!Content(u) /\ vectorSize'[u] = vectorSize[u]
      /\ \A u \in Vec : V!Storage(u)' = V!Storage(u) /\ m_use_inline_data'[u] = m_use_inline_data[u]
  BY <1>4, ClearKeeps
<1>6. \A u \in Vec : V!Content(u)' = IF u = v THEN <<>> ELSE lists[u]
  BY <1>2, <1>5
<1>7. Outcome
  BY <1>6 DEF Outcome
<1>8. V!Holds(v, <<>>)'
  BY <1>4, <1>6 DEF V!Holds
<1>9. CASE rest = <<>>
  <2>1. V!WorkInv'
    BY <1>4, <1>5, <1>9 DEF V!WorkInv
  <2>. QED  BY <1>5, <1>7, <2>1 DEF Goes
<1>10. CASE rest \in V!Endings(v)
  <2>1. V!Endings(v)' = V!Endings(v)
    BY <1>5 DEF V!Endings, V!FreeOf, V!Steal
  <2>2. V!Ending(v)'
    BY <1>4, <1>5, <1>8, <1>10, <2>1 DEF V!Ending
  <2>3. V!WorkInv'
    BY <2>2 DEF V!WorkInv
  <2>. QED  BY <1>5, <1>7, <2>3 DEF Goes
<1>11. ASSUME NEW w \in Vec \ {v}, NEW tail \in V!Tails(w), rest = V!ExtendBy(v, w) \o tail
       PROVE  Goes
  <2>1. vectorSize'[w] = vectorSize[w] /\ V!Storage(w)' = V!Storage(w)
    BY <1>5
  <2>2. calls' = V!ExtendBy(v, w)' \o tail
    BY <1>4, <1>5, <1>11, <2>1, SameCalls
  <2>3. Len(<<>>) + vectorSize'[w] <= MaxSize
    <3>1. vectorSize[w] \in Nat /\ vectorSize[w] <= MaxSize /\ Len(<<>>) = 0
      BY Held
    <3>. QED  BY <2>1, <3>1
  <2>4. V!Extending(v, w, <<>>, tail)'
    BY <1>8, <2>2, <2>3 DEF V!Extending
  <2>5. V!WorkInv'
    BY <2>4 DEF V!WorkInv
  <2>. QED  BY <1>5, <1>7, <2>5 DEF Goes
<1>. QED  BY <1>9, <1>10, <1>11 DEF V!Rests

\* A beginning with the next element is a longer beginning.
LEMMA NextElement ==
    ASSUME NEW S, NEW base \in Seq(S), NEW s \in Seq(S), NEW k \in Nat, k < Len(s)
    PROVE  Append(base \o SubSeq(s, 1, k), s[k + 1]) = base \o SubSeq(s, 1, k + 1)
<1>1. PICK n, b : n = Len(s) /\ b = Len(base)
  OBVIOUS
<1>2. n \in Nat /\ b \in Nat /\ k < n /\ k + 1 \in 1 .. n
  BY <1>1
<1>3. PICK x, y : x = SubSeq(s, 1, k) /\ y = SubSeq(s, 1, k + 1)
  OBVIOUS
<1>4. x \in Seq(S) /\ Len(x) = k /\ \A i \in 1 .. k : x[i] = s[i]
  BY <1>1, <1>2, <1>3
<1>5. y \in Seq(S) /\ Len(y) = k + 1 /\ \A i \in 1 .. k + 1 : y[i] = s[i]
  BY <1>1, <1>2, <1>3
<1>6. PICK c, d, e : c = base \o x /\ d = base \o y /\ e = Append(c, s[k + 1])
  OBVIOUS
<1>7. /\ c \in Seq(S) /\ Len(c) = b + k
      /\ \A i \in 1 .. b + k : c[i] = IF i <= b THEN base[i] ELSE x[i - b]
  BY <1>1, <1>4, <1>6, ConcatProperties
<1>8. /\ d \in Seq(S) /\ Len(d) = b + (k + 1)
      /\ \A i \in 1 .. b + (k + 1) : d[i] = IF i <= b THEN base[i] ELSE y[i - b]
  <2>1. /\ d \in Seq(S) /\ Len(d) = Len(base) + Len(y)
        /\ \A i \in 1 .. Len(base) + Len(y) : d[i] = IF i <= Len(base) THEN base[i] ELSE y[i - Len(base)]
    <3>1. y \in Seq(S)
      BY <1>5
    <3>. QED  BY <1>6, <3>1, ConcatProperties
  <2>2. Len(base) = b /\ Len(y) = k + 1
    BY <1>1, <1>5
  <2>. QED  BY <2>1, <2>2
<1>9. s[k + 1] \in S
  BY <1>1, <1>2
<1>10. /\ e \in Seq(S) /\ Len(e) = b + k + 1
       /\ \A i \in 1 .. b + k : e[i] = c[i]
       /\ e[b + k + 1] = s[k + 1]
  BY <1>2, <1>6, <1>7, <1>9
<1>11. b + (k + 1) = b + k + 1
  BY <1>2
<1>12. ASSUME NEW i \in 1 .. b + k + 1 PROVE e[i] = d[i]
  <2>1. d[i] = IF i <= b THEN base[i] ELSE y[i - b]
    BY <1>8, <1>11
  <2>2. CASE i <= b + k
    <3>1. i \in 1 .. b + k
      BY <1>2, <2>2
    <3>2. e[i] = IF i <= b THEN base[i] ELSE x[i - b]
      BY <1>7, <1>10, <3>1
    <3>3. ~ (i <= b) => i - b \in 1 .. k /\ i - b \in 1 .. k + 1
      BY <1>2, <3>1
    <3>. QED  BY <1>4, <1>5, <2>1, <3>2, <3>3
  <2>3. CASE ~ (i <= b + k)
    <3>1. i = b + k + 1 /\ ~ (i <= b) /\ i - b = k + 1 /\ k + 1 \in 1 .. k + 1
      BY <1>2, <2>3
    <3>2. d[i] = y[k + 1]
      BY <2>1, <3>1
    <3>. QED  BY <1>5, <1>10, <3>1, <3>2
  <2>. QED  BY <2>2, <2>3
<1>13. e = d
  <2>1. Len(e) = Len(d) /\ \A i \in 1 .. Len(e) : e[i] = d[i]
    BY <1>8, <1>10, <1>11, <1>12
  <2>. QED  BY <1>8, <1>10, <2>1, SeqEqual
<1>. QED  BY <1>3, <1>6, <1>13

LEMMA ExtendingGoes ==
    ASSUME V!VectorAssumption, V!StorageInv, V!Work, NEW v \in Vec, NEW w \in Vec \ {v},
           NEW rest \in V!Tails(w),
           NEW base \in {<<>>, lists[v]}, V!Extending(v, w, base, rest)
    PROVE  Goes
<1>1. /\ base = lists[v] => rest = <<>> \/ base = <<>>
      /\ Len(base) + vectorSize[w] <= MaxSize
  BY DEF V!Extending
<1>2. rest \in Seq(Calls)
  BY RestsAre
<1>3. base \in Seq(Element) /\ \A u \in Vec : lists[u] \in Seq(Element)
  <2>1. \A u \in Vec : lists[u] \in Seq(Element)
    BY DEF V!StorageInv, V!TypeOK
  <2>2. <<>> \in Seq(Element)
    OBVIOUS
  <2>. QED  BY <2>1, <2>2
<1>4. MaxSize \in Nat /\ vectorSize[w] \in Nat /\ Len(base) \in Nat
  BY <1>3, Held DEF V!VectorAssumption
<1>5. CASE calls = V!ExtendBy(v, w) \o rest /\ V!Holds(v, base)
  <2>1. PICK s : s = V!Appends(v, w, 0) \o rest
    OBVIOUS
  <2>2. calls = <<V!GrowBy(v, vectorSize[w])>> \o s /\ s \in Seq(Calls) /\ V!GrowBy(v, vectorSize[w]) \in Calls
    BY <1>2, <1>5, <2>1, ExtendIs, CallsAre
  <2>3. V!EnsureCapacity(v, vectorSize[v] + vectorSize[w], s) /\ lists' = lists
    BY <2>2, WorkGrow
  <2>4. V!Content(v) = base /\ \A u \in Vec \ {v} : V!Content(u) = lists[u]
    BY <1>5 DEF V!Holds
  <2>5. vectorSize[v] = Len(base)
    BY <2>4, Held
  <2>6. vectorSize[v] + vectorSize[w] \in 0 .. MaxSize /\ vectorSize[v] <= vectorSize[v] + vectorSize[w]
    BY <1>1, <1>4, <2>5
  <2>7. /\ V!StorageInv' /\ calls' = s /\ vectorSize' = vectorSize
        /\ \A u \in Vec : V!Content(u)' = V!Content(u)
        /\ \A u \in Vec \ {v} : V!Storage(u)' = V!Storage(u)
    BY <2>3, <2>6, EnsureKeeps
  <2>8. base \o SubSeq(lists[w], 1, 0) = base
    <3>1. SubSeq(lists[w], 1, 0) = <<>>
      BY SubSeqEmpty
    <3>. QED  BY <1>3, <3>1, ConcatEmptySeq
  <2>9. 0 \in 0 .. vectorSize[w]
    BY <1>4
  <2>. QED  BY <1>1, <2>1, <2>3, <2>4, <2>7, <2>8, <2>9, ExtendingMoves
<1>6. ASSUME NEW k \in 0 .. vectorSize[w], calls = V!Appends(v, w, k) \o rest,
             V!Holds(v, base \o SubSeq(lists[w], 1, k))
      PROVE  Goes
  <2>1. PICK c : c = base \o SubSeq(lists[w], 1, k)
    OBVIOUS
  <2>2. V!Content(v) = c /\ \A u \in Vec \ {v} : V!Content(u) = lists[u]
    BY <1>6, <2>1 DEF V!Holds
  <2>3. lists[w] \in Seq(Element) /\ Len(lists[w]) = vectorSize[w] /\ vectorSize[v] = Len(c)
    BY <1>3, <2>2, Held
  <2>4. Len(c) = Len(base) + k
    <3>1. SubSeq(lists[w], 1, k) \in Seq(Element) /\ Len(SubSeq(lists[w], 1, k)) = k
      BY <1>4, <2>3
    <3>. QED  BY <1>3, <2>1, <3>1, ConcatProperties
  <2>5. CASE k = vectorSize[w]
    <3>1. calls = rest
      BY <1>2, <1>6, <2>5, AppendsLast
    <3>2. rest = <<V!ClearOf(w)>>
      BY <3>1 DEF V!Work, V!Tails
    <3>3. calls = <<V!ClearOf(w)>> \o <<>> /\ <<>> \in Seq(Calls) /\ V!ClearOf(w) \in Calls
      <4>1. <<V!ClearOf(w)>> \in Seq(Calls)
        BY <1>2, <3>2
      <4>. QED  BY <3>1, <3>2, <4>1, CallsAre, ConcatEmptySeq
    <3>4. V!Clear(w) /\ lists' = lists /\ Tail(calls) = <<>>
      BY <3>3, WorkClear
    <3>5. /\ V!StorageInv' /\ calls' = Tail(calls) /\ V!Content(w)' = <<>>
          /\ \A u \in Vec \ {w} : V!Content(u)' = V!Content(u)
      BY <3>4, ClearKeeps
    <3>6. base = <<>>
      <4>1. rest # <<>>
        BY <3>2
      <4>. QED  BY <1>1, <4>1
    <3>7. c = lists[w]
      BY <2>1, <2>3, <2>5, <3>6, ConcatEmptySeq, SubSeqFull
    <3>8. \A u \in Vec : V!Content(u)' = IF u = v THEN lists[w] ELSE IF u = w THEN <<>> ELSE lists[u]
      BY <2>2, <3>5, <3>7
    <3>9. Outcome
      BY <3>8 DEF Outcome
    <3>10. V!WorkInv'
      BY <3>4, <3>5 DEF V!WorkInv
    <3>. QED  BY <3>5, <3>9, <3>10 DEF Goes
  <2>6. CASE k # vectorSize[w]
    <3>1. k \in Nat /\ k < vectorSize[w] /\ k + 1 \in 0 .. vectorSize[w]
      BY <1>4, <2>6
    <3>2. PICK s, p : s = V!Appends(v, w, k + 1) \o rest /\ p = V!Storage(w)
      OBVIOUS
    <3>3. calls = <<V!AppendFrom(v, p, k)>> \o s /\ s \in Seq(Calls) /\ V!AppendFrom(v, p, k) \in Calls
      BY <1>2, <1>6, <3>1, <3>2, AppendsFirst, CallsAre
    <3>4. /\ \/ V!EnsureCapacity(v, vectorSize[v] + 1, calls)
             \/ V!Enough(v, vectorSize[v] + 1) /\ V!Construct(v, p, k)
          /\ lists' = lists /\ Tail(calls) = s
      BY <3>3, WorkAppend
    <3>5. vectorSize[v] < MaxSize /\ vectorSize[v] + 1 \in 0 .. MaxSize /\ vectorSize[v] <= vectorSize[v] + 1
      BY <1>1, <1>4, <2>3, <2>4, <3>1
    <3>6. CASE V!EnsureCapacity(v, vectorSize[v] + 1, calls)
      <4>1. /\ V!StorageInv' /\ calls' = calls /\ vectorSize' = vectorSize
            /\ \A u \in Vec : V!Content(u)' = V!Content(u)
            /\ \A u \in Vec \ {v} : V!Storage(u)' = V!Storage(u)
        BY <3>4, <3>5, <3>6, EnsureKeeps
      <4>. QED  BY <1>1, <1>6, <2>1, <2>2, <3>4, <4>1, ExtendingMoves
    <3>7. CASE V!Enough(v, vectorSize[v] + 1) /\ V!Construct(v, p, k)
      <4>1. PICK x : x = lists[w][k + 1]
        OBVIOUS
      <4>2. x = memory[p][k] /\ x \in Element /\ p # Outside
        <5>1. k + 1 \in 1 .. vectorSize[w] /\ (k + 1) - 1 = k
          BY <1>4, <3>1
        <5>2. V!Content(w) = lists[w]
          BY <2>2
        <5>3. V!Content(w)[k + 1] = memory[V!Storage(w)][(k + 1) - 1]
              /\ memory[V!Storage(w)][(k + 1) - 1] \in Element /\ V!Storage(w) # Outside
          BY <5>1, Held
        <5>. QED  BY <3>2, <4>1, <5>1, <5>2, <5>3
      <4>3. x = IF p = Outside THEN k ELSE memory[p][k]
        BY <4>2
      <4>4. /\ V!StorageInv' /\ calls' = Tail(calls) /\ V!Content(v)' = Append(V!Content(v), x)
            /\ \A u \in Vec \ {v} : vectorSize'[u] = vectorSize[u] /\ V!Content(u)' = V!Content(u)
            /\ \A u \in Vec : V!Storage(u)' = V!Storage(u)
        BY <3>4, <3>5, <3>7, <4>2, <4>3, ConstructKeeps
      <4>5. V!Content(v)' = base \o SubSeq(lists[w], 1, k + 1)
        <5>1. Append(base \o SubSeq(lists[w], 1, k), lists[w][k + 1]) = base \o SubSeq(lists[w], 1, k + 1)
          BY <1>3, <2>3, <3>1, NextElement
        <5>. QED  BY <2>1, <2>2, <4>1, <4>4, <5>1
      <4>. QED  BY <1>1, <2>2, <3>1, <3>2, <3>4, <4>4, <4>5, ExtendingMoves
    <3>. QED  BY <3>4, <3>6, <3>7
  <2>. QED  BY <2>5, <2>6
<1>. QED  BY <1>5, <1>6 DEF V!Extending

LEMMA WorkGoes ==
    ASSUME V!VectorAssumption, V!Inv, V!Work
    PROVE  Goes
<1>1. V!StorageInv /\ V!WorkInv /\ calls # <<>>
  BY DEF V!Inv, V!Work
<1>2. PICK v \in Vec :
         \/ \E x \in Element : V!Appending(v, x)
         \/ V!Clearing(v)
         \/ V!Ending(v)
         \/ \E w \in Vec \ {v} : \E base \in {<<>>, lists[v]}, rest \in V!Tails(w) : V!Extending(v, w, base, rest)
  BY <1>1 DEF V!WorkInv
<1>. QED  BY <1>1, <1>2, AppendingGoes, ClearingGoes, EndingGoes, ExtendingGoes

\* A method begins: nothing but the list of calls and the history change.
LEMMA CallKeeps ==
    ASSUME V!VectorAssumption, V!StorageInv, NEW method, V!Call(method)
    PROVE  /\ V!StorageInv' /\ calls = <<>> /\ calls' = method
           /\ lists' = [v \in Vec |-> V!Content(v)]
           /\ vectorSize' = vectorSize /\ m_use_inline_data' = m_use_inline_data
           /\ \A v \in Vec : V!Storage(v)' = V!Storage(v) /\ V!Holds(v, lists[v])'
<1>1. /\ calls = <<>> /\ calls' = method /\ lists' = [v \in Vec |-> V!Content(v)]
      /\ UNCHANGED <<vectorSize, m_capacity, vectorData, m_use_inline_data, memory, extent>>
  BY DEF V!Call, V!fields
<1>2. lists' \in [Vec -> Seq(Element)]
  BY <1>1, Held
<1>3. V!StorageInv'
  <2>1. V!TypeOK'
    BY <1>1, <1>2 DEF V!StorageInv, V!TypeOK
  <2>2. V!ElementsAreOwned' /\ V!BlocksAreOwned'
    BY <1>1 DEF V!StorageInv, V!ElementsAreOwned, V!BlocksAreOwned, V!Storage
  <2>. QED  BY <1>1, <2>1, <2>2 DEF V!StorageInv
<1>4. \A v \in Vec : V!Storage(v)' = V!Storage(v)
  BY <1>1 DEF V!Storage
<1>5. \A u \in Vec : V!Content(u)' = lists'[u]
  <2>1. ASSUME NEW u \in Vec PROVE V!Content(u)' = V!Content(u)
    BY <1>1, <1>4, SameContent
  <2>. QED  BY <1>1, <2>1
<1>6. \A v \in Vec : V!Holds(v, lists[v])'
  BY <1>5 DEF V!Holds
<1>. QED  BY <1>1, <1>3, <1>4, <1>6

\* What may follow a clear() stays the same with the sizes and the places of the vectors.
LEMMA RestsStay ==
    ASSUME NEW v \in Vec, NEW rest \in V!Rests(v), vectorSize' = vectorSize,
           m_use_inline_data' = m_use_inline_data,
           \A u \in Vec : V!Storage(u)' = V!Storage(u)
    PROVE  rest \in V!Rests(v)'
<1>1. V!Endings(v)' = V!Endings(v)
  BY DEF V!Endings, V!FreeOf, V!Steal
<1>2. \A w \in Vec : V!ExtendBy(v, w)' = V!ExtendBy(v, w)
  BY SameCalls
<1>3. \/ rest = <<>> \/ rest \in V!Endings(v)
      \/ \E w \in Vec \ {v} : \E tail \in V!Tails(w) : rest = V!ExtendBy(v, w) \o tail
  BY DEF V!Rests
<1>4. rest = <<>> => rest \in V!Rests(v)'
  BY DEF V!Rests
<1>5. rest \in V!Endings(v) => rest \in V!Rests(v)'
  BY <1>1 DEF V!Rests
<1>6. ASSUME NEW w \in Vec \ {v}, NEW tail \in V!Tails(w), rest = V!ExtendBy(v, w) \o tail
      PROVE  rest \in V!Rests(v)'
  <2>1. rest = V!ExtendBy(v, w)' \o tail
    BY <1>2, <1>6
  <2>2. V!Tails(w)' = V!Tails(w)
    BY DEF V!Tails, V!ClearOf
  <2>. QED  BY <2>1, <2>2 DEF V!Rests
<1>. QED  BY <1>3, <1>4, <1>5, <1>6

\* A method that begins with clear().
LEMMA ClearingBegins ==
    ASSUME V!VectorAssumption, V!StorageInv, NEW v \in Vec, NEW rest \in V!Rests(v), NEW method,
           V!Call(method), method = <<V!ClearOf(v)>> \o rest
    PROVE  V!Inv' /\ calls' # <<>>
<1>1. /\ V!StorageInv' /\ calls' = method
      /\ vectorSize' = vectorSize /\ m_use_inline_data' = m_use_inline_data
      /\ \A u \in Vec : V!Storage(u)' = V!Storage(u) /\ V!Holds(u, lists[u])'
  BY CallKeeps
<1>2. rest \in V!Rests(v)'
  BY <1>1, RestsStay
<1>3. V!Clearing(v)'
  BY <1>1, <1>2 DEF V!Clearing, V!ClearOf
<1>4. V!WorkInv'
  BY <1>3 DEF V!WorkInv
<1>5. calls' # <<>>
  <2>1. rest \in Seq(Calls) /\ V!ClearOf(v) \in Calls
    BY RestsAre, CallsAre
  <2>. QED  BY <1>1, <2>1, FirstCall
<1>. QED  BY <1>1, <1>4, <1>5 DEF V!Inv

\* Every call begins one of the methods.
LEMMA CallBegins ==
    ASSUME V!VectorAssumption, V!StorageInv, NEW v \in Vec,
           \/ \E x \in Element : V!AppendValue(v, x)
           \/ \E w \in Vec \ {v} : V!Extend(v, w) \/ V!Call(V!CopyAssign(v, w)) \/ V!Call(V!MoveAssign(v, w))
           \/ V!Call(<<V!ClearOf(v)>>) \/ V!Call(V!Destroy(v))
    PROVE  /\ V!Inv' /\ calls = <<>> /\ calls' # <<>>
           /\ lists' = [u \in Vec |-> V!Content(u)]
<1>0. \A method : V!Call(method) => calls = <<>> /\ lists' = [u \in Vec |-> V!Content(u)]
  BY DEF V!Call
<1>1. ASSUME NEW x \in Element, V!AppendValue(v, x)
      PROVE  V!Inv' /\ calls' # <<>>
  <2>1. V!Call(<<V!AppendFrom(v, Outside, x)>>) /\ vectorSize[v] < MaxSize
    BY <1>1 DEF V!AppendValue
  <2>2. /\ V!StorageInv' /\ calls' = <<V!AppendFrom(v, Outside, x)>> /\ vectorSize' = vectorSize
        /\ V!Holds(v, lists[v])'
    BY <2>1, CallKeeps
  <2>3. V!Appending(v, x)'
    BY <2>1, <2>2 DEF V!Appending, V!AppendFrom
  <2>4. V!WorkInv'
    BY <2>3 DEF V!WorkInv
  <2>5. calls' # <<>>
    BY <2>2
  <2>. QED  BY <2>2, <2>4, <2>5 DEF V!Inv
<1>2. ASSUME NEW w \in Vec \ {v}, V!Extend(v, w)
      PROVE  V!Inv' /\ calls' # <<>>
  <2>1. V!Call(V!ExtendBy(v, w)) /\ vectorSize[v] + vectorSize[w] <= MaxSize
    BY <1>2 DEF V!Extend
  <2>2. /\ V!StorageInv' /\ calls' = V!ExtendBy(v, w) /\ vectorSize' = vectorSize
        /\ V!Holds(v, lists[v])'
        /\ \A u \in Vec : V!Storage(u)' = V!Storage(u)
        /\ lists' = [u \in Vec |-> V!Content(u)]
    BY <2>1, CallKeeps
  <2>3. PICK base : base = lists'[v]
    OBVIOUS
  <2>4. Len(base) = vectorSize'[v] /\ vectorSize'[w] = vectorSize[w]
    BY <2>2, <2>3, Held
  <2>5. <<>> \in Seq(Calls) /\ <<>> \in V!Tails(w)
    BY DEF V!Tails
  <2>6. V!ExtendBy(v, w) = V!ExtendBy(v, w) \o <<>> /\ calls' # <<>>
    <3>1. V!ExtendBy(v, w) \in Seq(Calls)
      BY <2>5, ExtendIs
    <3>2. V!ExtendBy(v, w) = V!ExtendBy(v, w) \o <<>>
      BY <3>1, ConcatEmptySeq
    <3>3. /\ V!ExtendBy(v, w) \o <<>> = <<V!GrowBy(v, vectorSize[w])>> \o (V!Appends(v, w, 0) \o <<>>)
          /\ V!Appends(v, w, 0) \o <<>> \in Seq(Calls) /\ V!GrowBy(v, vectorSize[w]) \in Calls
      BY <2>5, ExtendIs, CallsAre
    <3>. QED  BY <2>2, <3>2, <3>3, FirstCall
  <2>7. V!ExtendBy(v, w)' = V!ExtendBy(v, w)
    BY <2>2, <2>4, SameCalls
  <2>8. V!Extending(v, w, base, <<>>)'
    BY <2>1, <2>2, <2>3, <2>4, <2>6, <2>7 DEF V!Extending
  <2>9. V!WorkInv'
    BY <2>3, <2>5, <2>8 DEF V!WorkInv
  <2>. QED  BY <2>2, <2>6, <2>9 DEF V!Inv
<1>3. ASSUME NEW w \in Vec \ {v}, V!Call(V!CopyAssign(v, w))
      PROVE  V!Inv' /\ calls' # <<>>
  <2>1. <<>> \in Seq(Calls) /\ <<>> \in V!Tails(w)
    BY DEF V!Tails
  <2>2. V!ExtendBy(v, w) = V!ExtendBy(v, w) \o <<>>
    <3>1. V!ExtendBy(v, w) \in Seq(Calls)
      BY <2>1, ExtendIs
    <3>. QED  BY <3>1, ConcatEmptySeq
  <2>3. V!ExtendBy(v, w) \in V!Rests(v)
    <3>1. V!ExtendBy(v, w) \o <<>> \in V!Rests(v)
      BY DEF V!Rests, V!Tails
    <3>. QED  BY <2>2, <3>1
  <2>4. V!CopyAssign(v, w) = <<V!ClearOf(v)>> \o V!ExtendBy(v, w)
    BY DEF V!CopyAssign
  <2>. QED  BY <1>3, <2>3, <2>4, ClearingBegins
<1>4. ASSUME NEW w \in Vec \ {v}, V!Call(V!MoveAssign(v, w))
      PROVE  V!Inv' /\ calls' # <<>>
  <2>1. CASE m_use_inline_data[w]
    <3>1. V!ExtendBy(v, w) \o <<V!ClearOf(w)>> \in V!Rests(v)
      BY DEF V!Rests, V!Tails
    <3>2. V!MoveAssign(v, w) = <<V!ClearOf(v)>> \o (V!ExtendBy(v, w) \o <<V!ClearOf(w)>>)
      BY <2>1 DEF V!MoveAssign
    <3>. QED  BY <1>4, <3>1, <3>2, ClearingBegins
  <2>2. CASE ~ m_use_inline_data[w]
    <3>1. <<V!Steal(v, w)>> \in V!Rests(v)
      BY <2>2 DEF V!Rests, V!Endings
    <3>2. V!MoveAssign(v, w) = <<V!ClearOf(v)>> \o <<V!Steal(v, w)>>
      BY <2>2 DEF V!MoveAssign
    <3>. QED  BY <1>4, <3>1, <3>2, ClearingBegins
  <2>. QED  BY <2>1, <2>2
<1>5. ASSUME V!Call(<<V!ClearOf(v)>>)
      PROVE  V!Inv' /\ calls' # <<>>
  <2>1. <<>> \in V!Rests(v)
    BY DEF V!Rests
  <2>2. <<V!ClearOf(v)>> = <<V!ClearOf(v)>> \o <<>>
    <3>1. V!ClearOf(v) \in Calls
      BY CallsAre
    <3>2. <<V!ClearOf(v)>> \in Seq(Calls)
      BY <3>1
    <3>. QED  BY <3>2, ConcatEmptySeq
  <2>. QED  BY <1>5, <2>1, <2>2, ClearingBegins
<1>6. ASSUME V!Call(V!Destroy(v))
      PROVE  V!Inv' /\ calls' # <<>>
  <2>1. <<V!FreeOf(v)>> \in V!Rests(v)
    BY DEF V!Rests, V!Endings
  <2>2. V!Destroy(v) = <<V!ClearOf(v)>> \o <<V!FreeOf(v)>>
    BY DEF V!Destroy, V!FreeOf
  <2>. QED  BY <1>6, <2>1, <2>2, ClearingBegins
<1>7. calls = <<>> /\ lists' = [u \in Vec |-> V!Content(u)]
  BY <1>0 DEF V!AppendValue, V!Extend
<1>. QED  BY <1>1, <1>2, <1>3, <1>4, <1>5, <1>6, <1>7

LEMMA VectorInitKeeps ==
    ASSUME V!VectorAssumption, V!Init
    PROVE  V!Inv /\ V!L!Init
<1>1. /\ vectorSize = [v \in Vec |-> 0] /\ m_capacity = [v \in Vec |-> InlineSize]
      /\ vectorData = [v \in Vec |-> NoBlock] /\ m_use_inline_data = [v \in Vec |-> TRUE]
      /\ memory = [p \in Vec \cup Block |-> [i \in V!Cell |-> Raw]]
      /\ extent = [b \in Block |-> 0] /\ calls = <<>> /\ lists = [v \in Vec |-> <<>>]
  BY DEF V!Init, V!Erased
<1>2. InlineSize \in Nat /\ MaxSize \in Nat /\ Vec \cap Block = {} /\ NoBlock \notin Block
  BY DEF V!VectorAssumption
<1>3. V!TypeOK
  <2>1. lists \in [Vec -> Seq(Element)]
    BY <1>1
  <2>2. memory \in [Vec \cup Block -> [V!Cell -> Element \cup {Raw}]]
    BY <1>1
  <2>3. vectorSize \in [Vec -> 0 .. MaxSize] /\ m_capacity \in [Vec -> Nat] /\ extent \in [Block -> Nat]
    BY <1>1, <1>2
  <2>. QED  BY <1>1, <2>1, <2>2, <2>3 DEF V!TypeOK
<1>4. V!ElementsAreOwned
  <2>1. \A p \in Vec \cup Block, i \in V!Cell : memory[p][i] = Raw
    BY <1>1
  <2>2. \A i \in V!Cell : ~ (i < 0)
    BY DEF V!Cell
  <2>3. \A v \in Vec : vectorSize[v] = 0 /\ m_capacity[v] = InlineSize /\ m_use_inline_data[v]
    BY <1>1
  <2>. QED  BY <1>2, <2>1, <2>2, <2>3 DEF V!ElementsAreOwned
<1>5. V!BlocksAreOwned
  BY <1>1 DEF V!BlocksAreOwned
<1>6. V!WorkInv
  BY <1>1 DEF V!WorkInv
<1>7. V!L!Init
  <2>1. ASSUME NEW v \in Vec PROVE V!Content(v) = <<>>
    <3>1. V!Content(v) = [i \in 1 .. vectorSize[v] |-> memory[V!Storage(v)][i - 1]] /\ vectorSize[v] = 0
      BY <1>1 DEF V!Content
    <3>. QED  BY <3>1
  <2>2. [v \in Vec |-> V!Content(v)] = [v \in Vec |-> <<>>]
    BY <2>1
  <2>. QED  BY <1>1, <2>2 DEF V!L!Init
<1>. QED  BY <1>1, <1>3, <1>4, <1>5, <1>6, <1>7 DEF V!Inv, V!StorageInv

\* The sequences that the users see.
Outer == IF calls = <<>> THEN [v \in Vec |-> V!Content(v)] ELSE lists

\* The sequences after a step.
Stepped(f) ==
    \E v \in Vec :
        \/ \E x \in Element : f = [lists EXCEPT ![v] = Append(@, x)]
        \/ \E w \in Vec \ {v} : \/ f = [lists EXCEPT ![v] = @ \o lists[w]]
                                \/ f = [lists EXCEPT ![v] = lists[w]]
                                \/ f = [lists EXCEPT ![v] = lists[w], ![w] = <<>>]
        \/ f = [lists EXCEPT ![v] = <<>>]

\* What a finished method has done is a step of the sequences.
LEMMA OutcomeIsStep ==
    ASSUME V!StorageInv, NEW f, f = [v \in Vec |-> f[v]], \A v \in Vec : f[v] = V!Content(v)',
           Outcome
    PROVE  Stepped(f)
<1>0. lists = [v \in Vec |-> lists[v]]
  BY DEF V!StorageInv, V!TypeOK
<1>1. ASSUME NEW v \in Vec, NEW x \in Element,
             \A u \in Vec : V!Content(u)' = IF u = v THEN Append(lists[v], x) ELSE lists[u]
      PROVE  Stepped(f)
  <2>1. \A u \in Vec : f[u] = IF u = v THEN Append(lists[v], x) ELSE lists[u]
    BY <1>1
  <2>2. f = [lists EXCEPT ![v] = Append(@, x)]
    BY <1>0, <2>1
  <2>. QED  BY <2>2 DEF Stepped
<1>2. ASSUME NEW v \in Vec, NEW w \in Vec \ {v},
             \A u \in Vec : V!Content(u)' = IF u = v THEN lists[v] \o lists[w] ELSE lists[u]
      PROVE  Stepped(f)
  <2>1. \A u \in Vec : f[u] = IF u = v THEN lists[v] \o lists[w] ELSE lists[u]
    BY <1>2
  <2>2. f = [lists EXCEPT ![v] = @ \o lists[w]]
    BY <1>0, <2>1
  <2>. QED  BY <2>2 DEF Stepped
<1>3. ASSUME NEW v \in Vec, NEW w \in Vec \ {v},
             \A u \in Vec : V!Content(u)' = IF u = v THEN lists[w] ELSE lists[u]
      PROVE  Stepped(f)
  <2>1. \A u \in Vec : f[u] = IF u = v THEN lists[w] ELSE lists[u]
    BY <1>3
  <2>2. f = [lists EXCEPT ![v] = lists[w]]
    BY <1>0, <2>1
  <2>. QED  BY <2>2 DEF Stepped
<1>4. ASSUME NEW v \in Vec, NEW w \in Vec \ {v},
             \A u \in Vec : V!Content(u)' = IF u = v THEN lists[w] ELSE IF u = w THEN <<>> ELSE lists[u]
      PROVE  Stepped(f)
  <2>1. \A u \in Vec : f[u] = IF u = v THEN lists[w] ELSE IF u = w THEN <<>> ELSE lists[u]
    BY <1>4
  <2>2. f = [lists EXCEPT ![v] = lists[w], ![w] = <<>>]
    BY <1>0, <2>1
  <2>. QED  BY <2>2 DEF Stepped
<1>5. ASSUME NEW v \in Vec, \A u \in Vec : V!Content(u)' = IF u = v THEN <<>> ELSE lists[u]
      PROVE  Stepped(f)
  <2>1. \A u \in Vec : f[u] = IF u = v THEN <<>> ELSE lists[u]
    BY <1>5
  <2>2. f = [lists EXCEPT ![v] = <<>>]
    BY <1>0, <2>1
  <2>. QED  BY <2>2 DEF Stepped
<1>. QED  BY <1>1, <1>2, <1>3, <1>4, <1>5 DEF Outcome

LEMMA VectorNextKeeps ==
    ASSUME V!VectorAssumption, V!Inv, [V!Next]_V!vars
    PROVE  V!Inv' /\ [V!L!Next]_Outer
<1>1. CASE V!Work
  <2>1. Goes /\ lists' = lists /\ calls # <<>> /\ V!StorageInv
    BY <1>1, WorkGoes DEF V!Work, V!Inv
  <2>2. V!Inv'
    BY <2>1 DEF Goes, V!Inv
  <2>3. Outer = lists
    BY <2>1 DEF Outer
  <2>4. CASE calls' # <<>>
    <3>1. Outer' = lists'
      BY <2>4 DEF Outer
    <3>. QED  BY <2>1, <2>2, <2>3, <3>1
  <2>5. CASE calls' = <<>>
    <3>1. PICK f : f = Outer'
      OBVIOUS
    <3>2. f = [v \in Vec |-> V!Content(v)']
      BY <2>5, <3>1 DEF Outer
    <3>3. \A v \in Vec : f[v] = V!Content(v)'
      BY <3>2
    <3>4. f = [v \in Vec |-> f[v]]
      BY <3>2
    <3>5. Outcome
      BY <2>1, <2>5 DEF Goes
    <3>6. Stepped(f)
      BY <2>1, <3>3, <3>4, <3>5, OutcomeIsStep
    <3>7. V!L!Next
      <4>1. (IF calls = <<>> THEN [v \in Vec |-> V!Content(v)] ELSE lists) = lists
        BY <2>1
      <4>2. (IF calls = <<>> THEN [v \in Vec |-> V!Content(v)] ELSE lists)' = f
        BY <3>1 DEF Outer
      <4>. QED  BY <3>6, <4>1, <4>2
                   DEF Stepped, V!L!Next, V!L!Append1, V!L!Extend, V!L!Copy, V!L!Move, V!L!Clear
    <3>. QED  BY <2>2, <3>7
  <2>. QED  BY <2>4, <2>5
<1>2. ASSUME NEW v \in Vec,
             \/ \E x \in Element : V!AppendValue(v, x)
             \/ \E w \in Vec \ {v} : V!Extend(v, w) \/ V!Call(V!CopyAssign(v, w)) \/ V!Call(V!MoveAssign(v, w))
             \/ V!Call(<<V!ClearOf(v)>>) \/ V!Call(V!Destroy(v))
      PROVE  V!Inv' /\ [V!L!Next]_Outer
  <2>1. /\ V!Inv' /\ calls = <<>> /\ calls' # <<>>
        /\ lists' = [u \in Vec |-> V!Content(u)]
    BY <1>2, CallBegins DEF V!Inv
  <2>2. Outer = [u \in Vec |-> V!Content(u)] /\ Outer' = lists'
    BY <2>1 DEF Outer
  <2>. QED  BY <2>1, <2>2
<1>3. CASE UNCHANGED V!vars
  <2>1. UNCHANGED <<vectorSize, m_capacity, vectorData, m_use_inline_data, memory, extent, calls, lists>>
    BY <1>3 DEF V!vars, V!fields
  <2>2. Outer' = Outer
    <3>1. \A v \in Vec : V!Content(v)' = V!Content(v)
      BY <2>1 DEF V!Content, V!Storage
    <3>. QED  BY <2>1, <3>1 DEF Outer
  <2>3. V!StorageInv'
    BY <2>1 DEF V!Inv, V!StorageInv, V!TypeOK, V!ElementsAreOwned, V!BlocksAreOwned, V!Storage
  <2>4. V!WorkInv'
    <3>1. \A u \in Vec : V!Content(u)' = V!Content(u) /\ V!Storage(u)' = V!Storage(u)
      BY <2>1 DEF V!Content, V!Storage
    <3>2. \A v \in Vec : \A content : V!Holds(v, content) => V!Holds(v, content)'
      BY <2>1, <3>1 DEF V!Holds
    <3>3. SUFFICES ASSUME calls # <<>>
                   PROVE  V!WorkInv'
      BY <2>1 DEF V!WorkInv
    <3>4. PICK v \in Vec :
             \/ \E x \in Element : V!Appending(v, x)
             \/ V!Clearing(v)
             \/ V!Ending(v)
             \/ \E w \in Vec \ {v} : \E base \in {<<>>, lists[v]}, rest \in V!Tails(w) : V!Extending(v, w, base, rest)
      BY <3>3 DEF V!Inv, V!WorkInv
    <3>5. ASSUME NEW x \in Element, V!Appending(v, x) PROVE V!WorkInv'
      <4>1. V!Appending(v, x)'
        BY <2>1, <3>2, <3>5 DEF V!Appending, V!AppendFrom
      <4>. QED  BY <4>1 DEF V!WorkInv
    <3>6. CASE V!Clearing(v)
      <4>1. PICK rest \in V!Rests(v) : calls = <<V!ClearOf(v)>> \o rest
        BY <3>6 DEF V!Clearing
      <4>2. rest \in V!Rests(v)'
        BY <2>1, <3>1, RestsStay
      <4>3. V!Holds(v, lists[v])'
        BY <2>1, <3>2, <3>6 DEF V!Clearing
      <4>4. V!Clearing(v)'
        BY <2>1, <4>1, <4>2, <4>3 DEF V!Clearing, V!ClearOf
      <4>. QED  BY <4>4 DEF V!WorkInv
    <3>7. CASE V!Ending(v)
      <4>1. V!Endings(v)' = V!Endings(v)
        BY <2>1 DEF V!Endings, V!FreeOf, V!Steal
      <4>2. V!Ending(v)'
        BY <2>1, <3>2, <3>7, <4>1 DEF V!Ending
      <4>. QED  BY <4>2 DEF V!WorkInv
    <3>8. ASSUME NEW w \in Vec \ {v}, NEW base \in {<<>>, lists[v]}, NEW rest \in V!Tails(w),
                 V!Extending(v, w, base, rest)
          PROVE  V!WorkInv'
      <4>1. V!ExtendBy(v, w)' = V!ExtendBy(v, w) /\ \A k \in Nat : V!Appends(v, w, k)' = V!Appends(v, w, k)
        BY <2>1, <3>1, SameCalls
      <4>2. vectorSize[w] \in Nat /\ \A k \in 0 .. vectorSize[w] : k \in Nat
        BY Held DEF V!Inv
      <4>3. V!Extending(v, w, base, rest)'
        <5>1. CASE calls = V!ExtendBy(v, w) \o rest /\ V!Holds(v, base)
          BY <2>1, <3>2, <3>8, <4>1, <5>1 DEF V!Extending
        <5>2. ASSUME NEW k \in 0 .. vectorSize[w], calls = V!Appends(v, w, k) \o rest,
                     V!Holds(v, base \o SubSeq(lists[w], 1, k))
              PROVE  V!Extending(v, w, base, rest)'
          <6>1. calls' = V!Appends(v, w, k)' \o rest /\ V!Holds(v, base \o SubSeq(lists[w], 1, k))'
            BY <2>1, <3>2, <4>1, <4>2, <5>2
          <6>2. \E j \in 0 .. vectorSize'[w] :
                   (calls = V!Appends(v, w, j) \o rest /\ V!Holds(v, base \o SubSeq(lists[w], 1, j)))'
            BY <2>1, <5>2, <6>1
          <6>. QED  BY <2>1, <3>8, <6>2 DEF V!Extending
        <5>. QED  BY <3>8, <5>1, <5>2 DEF V!Extending
      <4>4. base \in {<<>>, lists'[v]} /\ rest \in V!Tails(w)'
        BY <2>1 DEF V!Tails, V!ClearOf
      <4>. QED  BY <4>3, <4>4 DEF V!WorkInv
    <3>. QED  BY <3>4, <3>5, <3>6, <3>7, <3>8
  <2>. QED  BY <2>2, <2>3, <2>4 DEF V!Inv
<1>. QED  BY <1>1, <1>2, <1>3 DEF V!Next

\* The elements and the blocks have one owner, and the methods do what their names say.
THEOREM VectorInvariance ==
    ASSUME V!VectorAssumption
    PROVE  V!Spec => [](V!ElementsAreOwned /\ V!BlocksAreOwned) /\ V!ImplementsLists
<1>1. V!Init => V!Inv /\ V!L!Init
  BY VectorInitKeeps
<1>2. V!Inv /\ [V!Next]_V!vars => V!Inv' /\ [V!L!Next]_Outer
  BY VectorNextKeeps
<1>3. V!Inv => V!ElementsAreOwned /\ V!BlocksAreOwned
  BY DEF V!Inv, V!StorageInv
<1>. QED  BY <1>1, <1>2, <1>3, PTL DEF V!Spec, V!ImplementsLists, V!L!Spec, Outer

-----------------------------------------------------------------------------
(* What the pointers reach *)

Pointers == [Variable \cup Object -> Object \cup {NoObject}]

\* What is reached in one more step.
Onwards(p, roots, without) ==
    [X \in SUBSET Object |-> {p[c] : c \in (roots \cup X) \ {without}} \ {NoObject}]

GoesOnwards(F, p, roots, without) ==
    /\ F \in [SUBSET Object -> SUBSET Object]
    /\ \A X \in SUBSET Object : F[X] = {p[c] : c \in (roots \cup X) \ {without}} \ {NoObject}

LEMMA OnwardsIs ==
    ASSUME NEW p \in Pointers, NEW roots \in SUBSET (Variable \cup Object), NEW without
    PROVE  GoesOnwards(Onwards(p, roots, without), p, roots, without)
<1>1. ASSUME NEW X \in SUBSET Object PROVE {p[c] : c \in (roots \cup X) \ {without}} \ {NoObject} \in SUBSET Object
  BY DEF Pointers
<1>. QED  BY <1>1 DEF Onwards, GoesOnwards

\* R is what the cells of roots reach: what is not necessary is not in it.
IsReach(R, p, roots, without) ==
    /\ R \in SUBSET Object
    /\ \A c \in (roots \cup R) \ {without} : p[c] \in R \cup {NoObject}
    /\ \A o \in R : \E c \in (roots \cup R) \ {without} : p[c] = o
    /\ \A T : (\A c \in (roots \cup T) \ {without} : p[c] \in T \cup {NoObject}) => R \subseteq T

LEMMA ReachIs ==
    ASSUME IsFiniteSet(Object), NoObject \notin Object,
           NEW p \in Pointers, NEW roots \in SUBSET (Variable \cup Object), NEW without
    PROVE  IsReach(Refs!H!Reach(p, roots, without), p, roots, without)
<1>1. PICK N \in Nat : N = Cardinality(Object)
  BY FS_CardinalityType
<1>2. PICK F \in [SUBSET Object -> SUBSET Object] :
         \A X \in SUBSET Object : F[X] = {p[c] : c \in (roots \cup X) \ {without}} \ {NoObject}
  <2>1. GoesOnwards(Onwards(p, roots, without), p, roots, without)
    BY OnwardsIs
  <2>. QED  BY <2>1, Zenon DEF GoesOnwards
<1>. DEFINE Within(W) == W = [n \in 0 .. N |-> IF n = 0 THEN {} ELSE {p[c] : c \in (roots \cup W[n - 1]) \ {without}} \ {NoObject}]
<1>3. \E W : Within(W)
  <2>1. {} \in SUBSET Object
    OBVIOUS
  <2>2. PICK f \in [0 .. N -> SUBSET Object] : f[0] = {} /\ \A n \in 1 .. N : f[n] = F[f[n - 1]]
    <3>1. \E f : Iterates(f, N, SUBSET Object, {}, F)
      BY <1>1, <2>1, IterationExists
    <3>. QED  BY <3>1 DEF Iterates
  <2>3. \A n \in 0 .. N : f[n] = IF n = 0 THEN {} ELSE {p[c] : c \in (roots \cup f[n - 1]) \ {without}} \ {NoObject}
    <3>. TAKE n \in 0 .. N
    <3>1. CASE n # 0
      <4>1. n \in 1 .. N /\ n - 1 \in 0 .. N
        BY <3>1
      <4>2. f[n] = F[f[n - 1]] /\ f[n - 1] \in SUBSET Object
        BY <2>2, <4>1
      <4>. QED  BY <1>2, <3>1, <4>2
    <3>. QED  BY <2>2, <3>1
  <2>4. f = [n \in 0 .. N |-> f[n]]
    BY <2>2
  <2>. QED  BY <2>3, <2>4
<1>4. PICK W : Within(W) /\ Refs!H!Reach(p, roots, without) = W[N]
  <2>. DEFINE C == CHOOSE W : Within(W)
  <2>1. Within(C)
    BY <1>3
  <2>2. Refs!H!Reach(p, roots, without) = C[N]
    BY <1>1 DEF Refs!H!Reach, Cardinality, Refs!H!Cardinality
  <2>. QED  BY <2>1, <2>2
<1>5. \A n \in 0 .. N : W[n] = IF n = 0 THEN {} ELSE {p[c] : c \in (roots \cup W[n - 1]) \ {without}} \ {NoObject}
  BY <1>4
<1>6. \A n \in 0 .. N : W[n] \in SUBSET Object
  <2>. TAKE n \in 0 .. N
  <2>. DEFINE B == {m \in 0 .. N : W[m] \notin SUBSET Object}
  <2>1. SUFFICES ASSUME B # {} PROVE FALSE
    OBVIOUS
  <2>2. PICK m \in B : \A y \in B : m <= y
    <3>1. B \in SUBSET Nat
      OBVIOUS
    <3>. HIDE DEF B
    <3>. QED  BY <2>1, <3>1, Minimum
  <2>3. m \in 0 .. N /\ W[m] \notin SUBSET Object
    OBVIOUS
  <2>4. m # 0
    BY <1>5, <2>3
  <2>5. m - 1 \in 0 .. N /\ ~ (m <= m - 1)
    BY <2>3, <2>4
  <2>6. W[m - 1] \in SUBSET Object
    BY <2>2, <2>5
  <2>7. W[m] = F[W[m - 1]]
    BY <1>2, <1>5, <2>3, <2>4, <2>6
  <2>. QED  BY <2>3, <2>6, <2>7
<1>7. W \in [0 .. N -> SUBSET Object] /\ W[0] = {}
  BY <1>4, <1>5, <1>6
<1>8. ASSUME NEW n \in 1 .. N PROVE W[n] = F[W[n - 1]]
  <2>1. n # 0 /\ n \in 0 .. N /\ n - 1 \in 0 .. N
    OBVIOUS
  <2>. QED  BY <1>2, <1>5, <1>6, <2>1
<1>. HIDE DEF Within
<1>9. \A X, Y \in SUBSET Object : X \subseteq Y => F[X] \subseteq F[Y]
  <2>1. SUFFICES ASSUME NEW X \in SUBSET Object, NEW Y \in SUBSET Object, X \subseteq Y PROVE F[X] \subseteq F[Y]
    OBVIOUS
  <2>. QED  BY <1>2, <2>1
<1>10. PICK R \in SUBSET Object : R = W[N]
  BY <1>7
<1>11. F[R] = R /\ \A T : StaysIn(F, Object, T) => R \subseteq T
  <2>1. Monotone(F, Object) /\ Iterates(W, N, SUBSET Object, {}, F)
    BY <1>7, <1>8, <1>9 DEF Monotone, Iterates
  <2>2. LeastFixedPoint(W[N], F, Object)
    BY <1>1, <2>1, IterationSettles
  <2>. QED  BY <1>10, <2>2 DEF LeastFixedPoint
<1>12. ASSUME NEW c \in (roots \cup R) \ {without} PROVE p[c] \in R \cup {NoObject}
  BY <1>2, <1>11
<1>13. ASSUME NEW o \in R PROVE \E c \in (roots \cup R) \ {without} : p[c] = o
  BY <1>2, <1>11
<1>14. ASSUME NEW T, \A c \in (roots \cup T) \ {without} : p[c] \in T \cup {NoObject} PROVE R \subseteq T
  <2>1. ASSUME NEW X \in SUBSET Object, X \subseteq T PROVE F[X] \subseteq T
    BY <1>2, <1>14, <2>1
  <2>. QED  BY <1>11, <2>1 DEF StaysIn
<1>. QED  BY <1>4, <1>10, <1>12, <1>13, <1>14 DEF IsReach

-----------------------------------------------------------------------------
(* What holds in the middle of a method *)

\* No objects keep each other alive.
Sourced(ptr) ==
    \A S \in SUBSET Object : S # {} => \E o \in S : \A p \in S : ptr[p] # o

Steps == [do : {"copy", "take", "ref", "release", "reset", "free", "validate", "invalidate"},
          cell : Variable \cup Object, from : Variable \cup Object]
\* One step, and what is left to do after it.
Then(step, x) == <<step>> \o x

Cells(L) == Variable \cup L
HoldersOf(ptr, L, o, U) == {c \in Cells(L) \ U : ptr[c] = o}

\* The cells U have been released, and the objects Dying are being destroyed.
SoundIn(ptr, cnt, L, U, Dying) ==
    /\ ptr \in Pointers /\ cnt \in [Object -> Nat]
    /\ L \subseteq Object /\ Sourced(ptr)
    /\ \A o \in L : cnt[o] = Cardinality(HoldersOf(ptr, L, o, U))
    /\ \A o \in L : o \in Dying <=> HoldersOf(ptr, L, o, U) = {}
    /\ \A c \in Cells(L) \ U : ptr[c] \in L \cup {NoObject}
    /\ \A o \in Object \ L : ptr[o] = NoObject

\* b is not kept by c alone, and does not lead to c.
Safe(ptr, L, b, c) ==
    \/ b \in Variable
    \/ \E K \in SUBSET L :
          b \in K /\ \A o \in K : \E d \in (Variable \cup K) \ {c} : ptr[d] = o
Apart(ptr, b, c) ==
    \E R \in SUBSET Object :
        c \notin R /\ ptr[b] \in R \cup {NoObject} /\ \A o \in R : ptr[o] \in R \cup {NoObject}

\* An Optional without a value holds nothing, except where the method still clears it.
Tidy(ptr, valid, X) ==
    \A c \in (Optionals \cup {Temporary}) \ X :
        c = Temporary \/ ~ valid[c] => ptr[c] = NoObject

\* The cells that the method is through with, or does not change, are as it shall leave them.
Matches(ptr, L, p, X) == \A c \in Cells(L) \ X : ptr[c] = p[c]

\* What the method shall leave behind: one assignment, made where it began.
Goal(p) ==
    \E c \in Variable \cup before.living :
       \/ \E o \in Object : before.constructed = {o} /\ life[o] # "unused" /\ p = [before.pointer EXCEPT ![c] = o]
       \/ /\ before.constructed = {}
          /\ \/ p = [before.pointer EXCEPT ![c] = NoObject]
             \/ \E b \in (Variable \cup before.living) \ {c} :
                   \/ p = [before.pointer EXCEPT ![c] = before.pointer[b]]
                   \/ p = [before.pointer EXCEPT ![c] = before.pointer[b], ![b] = NoObject]

\* The rest of the method after c has been cleared.
Ends(rest, c, ptr, L, valid, p, Dying) ==
    /\ rest = <<>>
    /\ p[c] = NoObject /\ Matches(ptr, L, p, {c} \cup Dying) /\ Tidy(ptr, valid, {c})

Copies(rest, c, ptr, L, valid, p, Dying) ==
    \E b \in (Variable \cup L) \ {c} :
        /\ rest = Refs!CopyConstruct(c, b)
        /\ Safe(ptr, L, b, c) /\ Apart(ptr, b, c) /\ c # Temporary
        /\ p[c] = p[b] /\ Matches(ptr, L, p, {c} \cup Dying) /\ Tidy(ptr, valid, {c})

\* What may be left to do with the source of a move.
Leftover(b, t) ==
    \/ t = <<>>
    \/ t = Refs!Clear(b)
    \/ b \in Optionals /\ t = <<Refs!Step("invalidate", b)>> \o Refs!Clear(b)

Takes(rest, c, ptr, L, valid, p, Dying) ==
    \E b \in (Variable \cup L) \ {c} : \E t \in {<<>>, Refs!Clear(b), <<Refs!Step("invalidate", b)>> \o Refs!Clear(b)} :
        /\ rest = Refs!MoveConstruct(c, b) \o t /\ Leftover(b, t)
        /\ Safe(ptr, L, b, c) /\ Apart(ptr, b, c) /\ c # Temporary
        /\ p[c] = ptr[b] /\ p[b] = NoObject
        /\ Matches(ptr, L, p, {c, b} \cup Dying) /\ Tidy(ptr, valid, {c, b})

Fills(rest, c, ptr, L, valid, p, Dying) ==
    Copies(rest, c, ptr, L, valid, p, Dying) \/ Takes(rest, c, ptr, L, valid, p, Dying)

\* The Optional b of c = move(b).must() is cleared before c is.
MustOf(b) == Refs!Clear(b) \o Refs!MoveConstruct(b, Temporary) \o Refs!Clear(Temporary)
Musts(rest, c, ptr, L, valid, p, Dying) ==
    \E b \in (Variable \cup L) \ (Optionals \cup {c, Temporary}) :
        /\ c # Temporary
        /\ rest = MustOf(b)
        /\ Safe(ptr, L, b, c) /\ Apart(ptr, Temporary, b)
        /\ p[c] = NoObject /\ p[b] = ptr[Temporary] /\ p[Temporary] = NoObject
        /\ Matches(ptr, L, p, {c, b, Temporary} \cup Dying) /\ Tidy(ptr, valid, {c, Temporary})

Validate(c) == IF c \in Optionals THEN <<Refs!Step("validate", c)>> ELSE <<>>

\* The rest of a method that clears c now.
After(rest, c, ptr, L, valid, p, Dying) ==
    \/ Ends(rest, c, ptr, L, valid, p, Dying)
    \/ Musts(rest, c, ptr, L, valid, p, Dying)
    \/ \E q \in Seq(Steps) : rest = Validate(c) \o q /\ Fills(q, c, ptr, L, valid, p, Dying)

\* The destructors that are running: r[1] is the cell at work, each one was released by the
\* destructor of the object after it, or by clear().
Chain(r, c, ptr, L) ==
    /\ Len(r) >= 1 /\ r[Len(r)] = c
    /\ \A i \in 1 .. Len(r) - 1 : r[i] \in L /\ ptr[r[i + 1]] = r[i]
    /\ \A i, j \in 1 .. Len(r) : r[i] = r[j] => i = j

Unwind(r) ==
    [i \in 1 .. 2 * Len(r) - 1 |->
        IF i % 2 = 1 THEN Refs!Step("reset", r[(i + 1) \div 2]) ELSE Refs!Step("free", r[i \div 2])]
Doomed(r) == {r[i] : i \in 1 .. Len(r) - 1}
Released(r) == {r[i] : i \in 1 .. Len(r)}

\* c is being cleared: the cell at work is about to be released, to be emptied, or its object to
\* be freed.
ClearingAt(p, r, c, rest) ==
    /\ Chain(r, c, m_pointer, Refs!Living)
    /\ After(rest, c, m_pointer, Refs!Living, m_is_valid, p, Doomed(r))
    /\ \/ /\ todo = Then(Refs!Step("release", r[1]), Unwind(r) \o rest)
          /\ SoundIn(m_pointer, m_refcount, Refs!Living, Released(r) \ {r[1]}, Doomed(r))
       \/ /\ todo = Unwind(r) \o rest
          /\ SoundIn(m_pointer, m_refcount, Refs!Living, Released(r), Doomed(r))
       \/ /\ Len(r) > 1 /\ m_pointer[r[1]] = NoObject
          /\ todo = Then(Refs!Step("free", r[1]), Unwind(Tail(r)) \o rest)
          /\ SoundIn(m_pointer, m_refcount, Refs!Living, Released(r) \ {r[1]}, Doomed(r))

Clearing(p) ==
    \E r \in Seq(Variable \cup Object), rest \in Seq(Steps) :
        \E c \in Cells(Refs!Living) : ClearingAt(p, r, c, rest)

\* Nothing is half done.
Whole == SoundIn(m_pointer, m_refcount, Refs!Living, {}, {})

Invalidating(p) ==
    \E c \in Optionals, rest \in Seq(Steps) :
        /\ todo = Then(Refs!Step("invalidate", c), Refs!Clear(c) \o rest) /\ Whole
        /\ After(rest, c, m_pointer, Refs!Living, m_is_valid, p, {})

Validating(p) ==
    \E c \in Optionals, q \in Seq(Steps) :
        /\ todo = Then(Refs!Step("validate", c), q) /\ m_pointer[c] = NoObject /\ Whole
        /\ Fills(q, c, m_pointer, Refs!Living, m_is_valid, p, {})

Filling(p) ==
    \E c \in Cells(Refs!Living) :
        /\ c \in Optionals => m_is_valid[c]
        /\ m_pointer[c] = NoObject /\ Whole
        /\ Fills(todo, c, m_pointer, Refs!Living, m_is_valid, p, {})

Counting(p) ==
    \E c \in Cells(Refs!Living) :
        /\ todo = Then(Refs!Step("ref", c), <<>>)
        /\ SoundIn(m_pointer, m_refcount, Refs!Living, {c}, {}) /\ m_pointer[c] \in Refs!Living \cup {NoObject}
        /\ Matches(m_pointer, Refs!Living, p, {}) /\ Tidy(m_pointer, m_is_valid, {})

Musting(p) ==
    \E c \in Cells(Refs!Living) \ (Optionals \cup {Temporary}), b \in Optionals :
        /\ todo = Then(Refs!StepFrom("take", Temporary, b), Then(Refs!Step("invalidate", b), Refs!Clear(b) \o MustOf(c)))
        /\ Whole /\ Apart(m_pointer, b, c)
        /\ p[c] = m_pointer[b] /\ p[b] = NoObject
        /\ Matches(m_pointer, Refs!Living, p, {c, b}) /\ Tidy(m_pointer, m_is_valid, {})

Idle == todo = <<>> /\ Whole /\ Tidy(m_pointer, m_is_valid, {})

Busy(p) == Clearing(p) \/ Invalidating(p) \/ Validating(p) \/ Filling(p) \/ Counting(p) \/ Musting(p)

Typed == m_is_valid \in [Optionals -> BOOLEAN] /\ life \in [Object -> {"unused", "live", "deleted"}]

OwnInv == Typed /\ (Idle \/ (todo # <<>> /\ \E p \in Pointers : Goal(p) /\ Busy(p)))

-----------------------------------------------------------------------------
(* What the steps do to the counts *)

Small == IsFiniteSet(Object) /\ IsFiniteSet(Variable) /\ NoObject \notin Object \cup Variable
         /\ Object \cap Variable = {} /\ Optionals \subseteq Variable /\ Temporary \in Variable \ Optionals

LEMMA HoldersFinite ==
    ASSUME Small, NEW ptr, NEW L \in SUBSET Object, NEW o, NEW U
    PROVE  /\ IsFiniteSet(HoldersOf(ptr, L, o, U)) /\ Cardinality(HoldersOf(ptr, L, o, U)) \in Nat
           /\ Cardinality(HoldersOf(ptr, L, o, U)) = 0 <=> HoldersOf(ptr, L, o, U) = {}
<1>1. IsFiniteSet(Variable \cup Object)
  BY FS_Union DEF Small
<1>2. HoldersOf(ptr, L, o, U) \in SUBSET (Variable \cup Object)
  BY DEF HoldersOf, Cells
<1>3. IsFiniteSet(HoldersOf(ptr, L, o, U))
  BY <1>1, <1>2, FS_Subset
<1>. QED  BY <1>3, FS_CardinalityType, FS_EmptySet

\* One that is released, whose object lives on or not.
Holds(ptr, c, o) == ptr[c] = o /\ o # NoObject
Drops(less, cnt, o) == less = [cnt EXCEPT ![o] = @ - 1]
Dooms(E, Dying, cnt, o) == E = IF cnt[o] = 1 THEN Dying \cup {o} ELSE Dying

LEMMA ReleaseIs ==
    ASSUME Small, NEW ptr, NEW cnt, NEW L, NEW U, NEW Dying, SoundIn(ptr, cnt, L, U, Dying),
           NEW c \in Cells(L) \ U, NEW o, Holds(ptr, c, o), NEW E, Dooms(E, Dying, cnt, o),
           NEW less, Drops(less, cnt, o)
    PROVE  o \in L /\ o \notin Dying /\ cnt[o] >= 1 /\ SoundIn(ptr, less, L, U \cup {c}, E)
<1>. USE DEF Holds, Dooms, Drops
<1>1. o \in L /\ L \in SUBSET Object /\ cnt \in [Object -> Nat] /\ o \in Object
  BY DEF SoundIn
<1>2. c \in HoldersOf(ptr, L, o, U)
  BY DEF HoldersOf
<1>3. o \notin Dying
  BY <1>1, <1>2 DEF SoundIn
<1>4. IsFiniteSet(HoldersOf(ptr, L, o, U)) /\ Cardinality(HoldersOf(ptr, L, o, U)) \in Nat
      /\ (Cardinality(HoldersOf(ptr, L, o, U)) = 0 <=> HoldersOf(ptr, L, o, U) = {})
  BY <1>1, HoldersFinite
<1>5. cnt[o] = Cardinality(HoldersOf(ptr, L, o, U)) /\ cnt[o] \in Nat
  BY <1>1 DEF SoundIn
<1>6. cnt[o] >= 1
  BY <1>2, <1>4, <1>5
<1>7. HoldersOf(ptr, L, o, U \cup {c}) = HoldersOf(ptr, L, o, U) \ {c}
  BY DEF HoldersOf
<1>8. \A v : v # o => HoldersOf(ptr, L, v, U \cup {c}) = HoldersOf(ptr, L, v, U)
  BY DEF HoldersOf
<1>9. Cardinality(HoldersOf(ptr, L, o, U \cup {c})) = cnt[o] - 1
  BY <1>2, <1>4, <1>5, <1>7, FS_RemoveElement
<1>10. HoldersOf(ptr, L, o, U \cup {c}) = {} <=> cnt[o] = 1
  <2>1. (Cardinality(HoldersOf(ptr, L, o, U \cup {c})) = 0) <=> (HoldersOf(ptr, L, o, U \cup {c}) = {})
    BY <1>1, HoldersFinite
  <2>2. (cnt[o] - 1 = 0) <=> (cnt[o] = 1)
    BY <1>5
  <2>. QED  BY <1>9, <2>1, <2>2
<1>11. PICK n : n = [cnt EXCEPT ![o] = @ - 1]
  OBVIOUS
<1>12. n \in [Object -> Nat] /\ n[o] = cnt[o] - 1 /\ \A v \in Object : v # o => n[v] = cnt[v]
  BY <1>1, <1>5, <1>6, <1>11
<1>13. \A v \in L : n[v] = Cardinality(HoldersOf(ptr, L, v, U \cup {c}))
  <2>. TAKE v \in L
  <2>1. CASE v = o
    BY <1>9, <1>12, <2>1
  <2>2. CASE v # o
    BY <1>1, <1>8, <1>12, <2>2 DEF SoundIn
  <2>. QED  BY <2>1, <2>2
<1>14. \A v \in L : v \in E <=> HoldersOf(ptr, L, v, U \cup {c}) = {}
  <2>. TAKE v \in L
  <2>1. CASE v = o
    BY <1>3, <1>10, <2>1
  <2>2. CASE v # o
    BY <1>8, <2>2 DEF SoundIn
  <2>. QED  BY <2>1, <2>2
<1>15. SoundIn(ptr, n, L, U \cup {c}, E)
  BY <1>12, <1>13, <1>14 DEF SoundIn
<1>. QED  BY <1>1, <1>3, <1>6, <1>11, <1>15

\* What refers to nothing, or is about to, does not count.
LEMMA ResetIs ==
    ASSUME Small, NEW ptr, NEW cnt, NEW L, NEW U, NEW Dying, SoundIn(ptr, cnt, L, U, Dying),
           NEW c \in Variable \cup Object, c \in U \/ ptr[c] = NoObject,
           NEW W, W \ {c} = U \ {c}
    PROVE  SoundIn([ptr EXCEPT ![c] = NoObject], cnt, L, W, Dying)
<1>1. PICK n : n = [ptr EXCEPT ![c] = NoObject]
  OBVIOUS
<1>2. /\ ptr \in Pointers /\ n \in Pointers /\ n[c] = NoObject /\ \A d \in Variable \cup Object : d # c => n[d] = ptr[d]
      /\ L \in SUBSET Object
  BY <1>1 DEF SoundIn, Pointers
<1>3. ASSUME NEW o \in Object PROVE HoldersOf(n, L, o, W) = HoldersOf(ptr, L, o, U)
  <2>1. \A d \in Cells(L) : d \in Variable \cup Object
    BY <1>2 DEF Cells
  <2>2. ASSUME NEW d \in Cells(L) PROVE d \notin W /\ n[d] = o <=> d \notin U /\ ptr[d] = o
    BY <1>2, <2>1 DEF Small
  <2>. QED  BY <2>2 DEF HoldersOf
<1>4. Sourced(n)
  <2>1. SUFFICES ASSUME NEW S \in SUBSET Object, S # {} PROVE \E o \in S : \A p \in S : n[p] # o
    BY DEF Sourced
  <2>2. PICK o \in S : \A p \in S : ptr[p] # o
    BY <2>1 DEF SoundIn, Sourced
  <2>3. \A p \in S : n[p] # o
    BY <1>2, <2>2 DEF Small
  <2>. QED  BY <2>3
<1>5. \A d \in Cells(L) \ W : n[d] \in L \cup {NoObject}
  BY <1>2 DEF SoundIn, Cells
<1>6. SoundIn(n, cnt, L, W, Dying)
  BY <1>2, <1>3, <1>4, <1>5 DEF SoundIn
<1>. QED  BY <1>1, <1>6

\* A destroyed object is gone.
LEMMA FreeIs ==
    ASSUME Small, NEW ptr, NEW cnt, NEW L, NEW U, NEW Dying, SoundIn(ptr, cnt, L, U, Dying),
           NEW o \in L, o \in Dying, ptr[o] = NoObject
    PROVE  SoundIn(ptr, cnt, L \ {o}, U, Dying \ {o})
<1>1. /\ ptr \in Pointers /\ cnt \in [Object -> Nat] /\ Sourced(ptr) /\ L \in SUBSET Object
      /\ HoldersOf(ptr, L, o, U) = {}
  BY DEF SoundIn
<1>2. ASSUME NEW v \in Object PROVE HoldersOf(ptr, L \ {o}, v, U) = HoldersOf(ptr, L, v, U)
  BY <1>1 DEF HoldersOf, Cells, Small
<1>3. \A c \in Cells(L \ {o}) \ U : ptr[c] \in (L \ {o}) \cup {NoObject}
  BY <1>1 DEF SoundIn, Cells, HoldersOf
<1>4. \A v \in Object \ (L \ {o}) : ptr[v] = NoObject
  BY DEF SoundIn
<1>. QED  BY <1>1, <1>2, <1>3, <1>4 DEF SoundIn

\* Another reference to what b holds closes no circle where b does not lead to c.
LEMMA LinkedSourced ==
    ASSUME Small, NEW ptr \in Pointers, Sourced(ptr), NEW c \in Variable \cup Object, NEW b \in Variable \cup Object,
           Apart(ptr, b, c), NEW n \in Pointers, n[c] = ptr[b],
           \A d \in Variable \cup Object : d # c => n[d] \in {ptr[d], NoObject}
    PROVE  Sourced(n)
<1>1. SUFFICES ASSUME NEW S \in SUBSET Object, S # {} PROVE \E o \in S : \A p \in S : n[p] # o
  BY DEF Sourced
<1>2. PICK R \in SUBSET Object :
         c \notin R /\ ptr[b] \in R \cup {NoObject} /\ \A o \in R : ptr[o] \in R \cup {NoObject}
  BY DEF Apart
<1>3. \A o \in S : o # NoObject
  BY DEF Small
<1>4. CASE c \notin S
  <2>1. PICK o \in S : \A p \in S : ptr[p] # o
    BY <1>1 DEF Sourced
  <2>2. \A p \in S : n[p] \in {ptr[p], NoObject}
    BY <1>4
  <2>. QED  BY <1>3, <2>1, <2>2
<1>5. CASE c \in S
  <2>1. S \ R # {} /\ S \ R \in SUBSET Object
    BY <1>2, <1>5
  <2>2. PICK o \in S \ R : \A p \in S \ R : ptr[p] # o
    BY <2>1 DEF Sourced
  <2>3. ASSUME NEW p \in S, n[p] = o PROVE FALSE
    <3>1. CASE p = c
      BY <1>2, <1>3, <2>2, <2>3, <3>1
    <3>2. CASE p # c
      <4>1. ptr[p] = o
        BY <1>3, <2>3, <3>2
      <4>2. p \in R
        BY <2>2, <4>1
      <4>. QED  BY <1>2, <1>3, <2>2, <4>1, <4>2
    <3>. QED  BY <3>1, <3>2
  <2>. QED  BY <2>3
<1>. QED  BY <1>4, <1>5

\* A copy is not counted yet.
LEMMA CopyIs ==
    ASSUME Small, NEW ptr, NEW cnt, NEW L, SoundIn(ptr, cnt, L, {}, {}),
           NEW c \in Cells(L), NEW b \in Cells(L), ptr[c] = NoObject, Apart(ptr, b, c)
    PROVE  SoundIn([ptr EXCEPT ![c] = ptr[b]], cnt, L, {c}, {}) /\ ptr[b] \in L \cup {NoObject}
<1>1. PICK n : n = [ptr EXCEPT ![c] = ptr[b]]
  OBVIOUS
<1>2. /\ ptr \in Pointers /\ L \in SUBSET Object /\ c \in Variable \cup Object /\ b \in Variable \cup Object
      /\ ptr[b] \in L \cup {NoObject} /\ Sourced(ptr)
  BY DEF SoundIn, Cells
<1>3. n \in Pointers /\ n[c] = ptr[b] /\ \A d \in Variable \cup Object : d # c => n[d] = ptr[d]
  BY <1>1, <1>2 DEF Pointers
<1>4. Sourced(n)
  BY <1>2, <1>3, LinkedSourced
<1>5. ASSUME NEW o \in Object PROVE HoldersOf(n, L, o, {c}) = HoldersOf(ptr, L, o, {})
  <2>1. \A d \in Cells(L) : d \in Variable \cup Object
    BY <1>2 DEF Cells
  <2>2. ASSUME NEW d \in Cells(L) PROVE d # c /\ n[d] = o <=> ptr[d] = o
    BY <1>2, <1>3, <2>1 DEF Small
  <2>. QED  BY <2>2 DEF HoldersOf
<1>6. \A d \in Cells(L) \ {c} : n[d] \in L \cup {NoObject}
  BY <1>2, <1>3 DEF SoundIn, Cells
<1>7. \A o \in Object \ L : n[o] = NoObject
  BY <1>2, <1>3 DEF SoundIn, Cells, Small
<1>8. SoundIn(n, cnt, L, {c}, {})
  BY <1>2, <1>3, <1>4, <1>5, <1>6, <1>7 DEF SoundIn
<1>. QED  BY <1>1, <1>2, <1>8

LEMMA RefIs ==
    ASSUME Small, NEW ptr, NEW cnt, NEW L, NEW c \in Cells(L), SoundIn(ptr, cnt, L, {c}, {}),
           ptr[c] \in L \cup {NoObject},
           NEW n, n = IF ptr[c] = NoObject THEN cnt ELSE [cnt EXCEPT ![ptr[c]] = @ + 1]
    PROVE  SoundIn(ptr, n, L, {}, {}) /\ (ptr[c] # NoObject => cnt[ptr[c]] >= 1)
<1>1. ptr \in Pointers /\ cnt \in [Object -> Nat] /\ L \in SUBSET Object
  BY DEF SoundIn
<1>2. \A v \in L : HoldersOf(ptr, L, v, {}) =
                     IF v = ptr[c] THEN HoldersOf(ptr, L, v, {c}) \cup {c} ELSE HoldersOf(ptr, L, v, {c})
  BY DEF HoldersOf
<1>3. \A v \in L : HoldersOf(ptr, L, v, {c}) # {}
  BY DEF SoundIn
<1>4. \A v \in L : HoldersOf(ptr, L, v, {}) # {}
  BY <1>2, <1>3
<1>5. n \in [Object -> Nat]
        /\ \A v \in L : n[v] = IF v = ptr[c] THEN cnt[v] + 1 ELSE cnt[v]
  BY <1>1 DEF Small
<1>6. \A v \in L : n[v] = Cardinality(HoldersOf(ptr, L, v, {}))
  <2>. TAKE v \in L
  <2>1. cnt[v] = Cardinality(HoldersOf(ptr, L, v, {c})) /\ IsFiniteSet(HoldersOf(ptr, L, v, {c}))
    BY <1>1, HoldersFinite DEF SoundIn
  <2>2. c \notin HoldersOf(ptr, L, v, {c})
    BY DEF HoldersOf
  <2>3. Cardinality(HoldersOf(ptr, L, v, {c}) \cup {c}) = Cardinality(HoldersOf(ptr, L, v, {c})) + 1
    BY <2>1, <2>2, FS_AddElement
  <2>. QED  BY <1>2, <1>5, <2>1, <2>3
<1>7. \A d \in Cells(L) : ptr[d] \in L \cup {NoObject}
  BY DEF SoundIn
<1>8. ptr[c] # NoObject => cnt[ptr[c]] >= 1
  <2>1. SUFFICES ASSUME ptr[c] # NoObject PROVE cnt[ptr[c]] >= 1
    OBVIOUS
  <2>2. PICK v \in L : v = ptr[c]
    BY <2>1
  <2>3. cnt[v] = Cardinality(HoldersOf(ptr, L, v, {c})) /\ Cardinality(HoldersOf(ptr, L, v, {c})) # 0
        /\ Cardinality(HoldersOf(ptr, L, v, {c})) \in Nat
    BY <1>1, <1>3, HoldersFinite DEF SoundIn
  <2>. QED  BY <2>2, <2>3
<1>9. SoundIn(ptr, n, L, {}, {})
  BY <1>1, <1>4, <1>5, <1>6, <1>7 DEF SoundIn
<1>. QED  BY <1>8, <1>9

\* A move passes a reference on.
LEMMA TakeIs ==
    ASSUME Small, NEW ptr, NEW cnt, NEW L, SoundIn(ptr, cnt, L, {}, {}),
           NEW c \in Cells(L), NEW b \in Cells(L), b # c, ptr[c] = NoObject, Apart(ptr, b, c)
    PROVE  SoundIn([ptr EXCEPT ![c] = ptr[b], ![b] = NoObject], cnt, L, {}, {})
<1>1. PICK n : n = [ptr EXCEPT ![c] = ptr[b], ![b] = NoObject]
  OBVIOUS
<1>2. /\ ptr \in Pointers /\ L \in SUBSET Object /\ c \in Variable \cup Object /\ b \in Variable \cup Object
      /\ ptr[b] \in L \cup {NoObject} /\ Sourced(ptr) /\ cnt \in [Object -> Nat]
  BY DEF SoundIn, Cells
<1>3. /\ n \in Pointers /\ n[c] = ptr[b] /\ n[b] = NoObject
      /\ \A d \in Variable \cup Object : d # c /\ d # b => n[d] = ptr[d]
  BY <1>1, <1>2 DEF Pointers
<1>4. Sourced(n)
  <2>1. \A d \in Variable \cup Object : d # c => n[d] \in {ptr[d], NoObject}
    BY <1>3
  <2>. QED  BY <1>2, <1>3, <2>1, LinkedSourced
<1>5. ASSUME NEW o \in Object, o # ptr[b] PROVE HoldersOf(n, L, o, {}) = HoldersOf(ptr, L, o, {})
  <2>1. \A d \in Cells(L) : d \in Variable \cup Object
    BY <1>2 DEF Cells
  <2>2. ASSUME NEW d \in Cells(L) PROVE n[d] = o <=> ptr[d] = o
    BY <1>2, <1>3, <1>5, <2>1 DEF Small
  <2>. QED  BY <2>2 DEF HoldersOf
<1>6. ASSUME NEW o \in Object, o = ptr[b]
      PROVE  HoldersOf(n, L, o, {}) = (HoldersOf(ptr, L, o, {}) \ {b}) \cup {c}
  <2>1. \A d \in Cells(L) : d \in Variable \cup Object
    BY <1>2 DEF Cells
  <2>2. ASSUME NEW d \in Cells(L) PROVE n[d] = o <=> (ptr[d] = o /\ d # b) \/ d = c
    BY <1>2, <1>3, <1>6, <2>1 DEF Small
  <2>. QED  BY <2>2 DEF HoldersOf
<1>7. \A o \in L : /\ Cardinality(HoldersOf(n, L, o, {})) = Cardinality(HoldersOf(ptr, L, o, {}))
                   /\ HoldersOf(n, L, o, {}) # {}
  <2>. TAKE o \in L
  <2>1. HoldersOf(ptr, L, o, {}) # {}
    BY DEF SoundIn
  <2>2. CASE o # ptr[b]
    BY <1>2, <1>5, <2>1, <2>2
  <2>3. CASE o = ptr[b]
    <3>. DEFINE S == HoldersOf(ptr, L, o, {})
    <3>1. b \in S /\ c \notin S /\ IsFiniteSet(S) /\ Cardinality(S) \in Nat
      <4>1. IsFiniteSet(S) /\ Cardinality(S) \in Nat
        BY <1>2, HoldersFinite
      <4>2. b \in S
        BY <1>2, <2>3 DEF HoldersOf
      <4>3. o # NoObject
        BY <1>2 DEF Small
      <4>4. c \notin S
        BY <4>3 DEF HoldersOf
      <4>. QED  BY <4>1, <4>2, <4>4
    <3>. HIDE DEF S
    <3>2. IsFiniteSet(S \ {b}) /\ Cardinality(S \ {b}) = Cardinality(S) - 1
      BY <3>1, FS_RemoveElement
    <3>3. c \notin S \ {b}
      BY <3>1
    <3>4. Cardinality((S \ {b}) \cup {c}) = Cardinality(S \ {b}) + 1
      BY <3>2, <3>3, FS_AddElement
    <3>5. Cardinality((S \ {b}) \cup {c}) = Cardinality(S)
      BY <3>1, <3>2, <3>4
    <3>6. HoldersOf(n, L, o, {}) = (S \ {b}) \cup {c}
      BY <1>2, <1>6, <2>3 DEF S
    <3>. QED  BY <3>5, <3>6 DEF S
  <2>. QED  BY <2>2, <2>3
<1>8. \A d \in Cells(L) : n[d] \in L \cup {NoObject}
  BY <1>2, <1>3 DEF SoundIn, Cells
<1>9. \A o \in Object \ L : n[o] = NoObject
  BY <1>2, <1>3 DEF SoundIn, Cells, Small
<1>10. SoundIn(n, cnt, L, {}, {})
  BY <1>2, <1>3, <1>4, <1>7, <1>8, <1>9 DEF SoundIn
<1>. QED  BY <1>1, <1>10

\* The first pointer to a new object is the temporary one.
LEMMA NewIs ==
    ASSUME Small, NEW ptr, NEW cnt, NEW L, SoundIn(ptr, cnt, L, {}, {}),
           NEW o \in Object \ L, ptr[Temporary] = NoObject
    PROVE  SoundIn([ptr EXCEPT ![Temporary] = o], [cnt EXCEPT ![o] = 1], L \cup {o}, {}, {})
<1>1. PICK n, m : n = [ptr EXCEPT ![Temporary] = o] /\ m = [cnt EXCEPT ![o] = 1]
  OBVIOUS
<1>2. /\ ptr \in Pointers /\ L \in SUBSET Object /\ Sourced(ptr) /\ cnt \in [Object -> Nat]
      /\ Temporary \in Variable /\ Temporary \notin Object /\ ptr[o] = NoObject
  BY DEF SoundIn, Small
<1>3. /\ n \in Pointers /\ n[Temporary] = o /\ \A d \in Variable \cup Object : d # Temporary => n[d] = ptr[d]
      /\ m \in [Object -> Nat] /\ m[o] = 1 /\ \A v \in Object : v # o => m[v] = cnt[v]
  BY <1>1, <1>2 DEF Pointers
<1>4. Sourced(n)
  <2>1. \A p \in Object : n[p] = ptr[p]
    BY <1>2, <1>3
  <2>2. SUFFICES ASSUME NEW S \in SUBSET Object, S # {} PROVE \E q \in S : \A p \in S : n[p] # q
    BY DEF Sourced
  <2>3. PICK q \in S : \A p \in S : ptr[p] # q
    BY <1>2, <2>2 DEF Sourced
  <2>4. \A p \in S : n[p] # q
    BY <2>1, <2>3
  <2>. QED  BY <2>4
<1>5. ASSUME NEW d \in Cells(L) PROVE ptr[d] \in L \cup {NoObject} /\ d \in Variable \cup Object /\ ptr[d] # o
  BY <1>2 DEF SoundIn, Cells, Small
<1>6. HoldersOf(n, L \cup {o}, o, {}) = {Temporary}
  <2>1. ASSUME NEW d \in Cells(L \cup {o}), d # Temporary PROVE n[d] # o
    BY <1>2, <1>3, <1>5, <2>1 DEF Cells, Small
  <2>. QED  BY <1>2, <1>3, <2>1 DEF HoldersOf, Cells
<1>7. ASSUME NEW v \in L PROVE HoldersOf(n, L \cup {o}, v, {}) = HoldersOf(ptr, L, v, {})
  <2>1. v # o /\ v # NoObject
    BY <1>2 DEF Small
  <2>2. ASSUME NEW d PROVE d \in Cells(L \cup {o}) /\ n[d] = v <=> d \in Cells(L) /\ ptr[d] = v
    BY <1>2, <1>3, <1>5, <2>1 DEF Cells
  <2>. QED  BY <2>2 DEF HoldersOf
<1>8. \A v \in L \cup {o} : m[v] = Cardinality(HoldersOf(n, L \cup {o}, v, {})) /\ HoldersOf(n, L \cup {o}, v, {}) # {}
  <2>. TAKE v \in L \cup {o}
  <2>1. CASE v = o
    BY <1>3, <1>6, <2>1, FS_Singleton
  <2>2. CASE v # o
    <3>1. v \in L
      BY <2>2
    <3>. QED  BY <1>2, <1>3, <1>7, <2>2, <3>1 DEF SoundIn
  <2>. QED  BY <2>1, <2>2
<1>9. \A d \in Cells(L \cup {o}) : n[d] \in (L \cup {o}) \cup {NoObject}
  BY <1>2, <1>3, <1>5 DEF Cells
<1>10. \A v \in Object \ (L \cup {o}) : n[v] = NoObject
  BY <1>2, <1>3 DEF SoundIn
<1>11. SoundIn(n, m, L \cup {o}, {}, {})
  BY <1>2, <1>3, <1>4, <1>8, <1>9, <1>10 DEF SoundIn
<1>. QED  BY <1>1, <1>11

-----------------------------------------------------------------------------
(* What the destructors leave alone *)

\* While c is being cleared, the cells of doomed objects lose their pointers, and the objects go.
Later(c, ptr, L, Dying, n, M, E) ==
    /\ n \in Pointers /\ M \subseteq L /\ L \ M \subseteq Dying /\ Dying \subseteq E \cup (L \ M)
    /\ \A d \in Variable \cup Object : n[d] \in {ptr[d], NoObject} /\ (d \notin Dying \cup {c} => n[d] = ptr[d])
SameBut(c, valid, w) == \A d \in Optionals \ {c} : w[d] = valid[d]

\* Each object of K is held by another one, or by a variable, but not by c.
Sustains(K, ptr, c) == \A o \in K : \E d \in (Variable \cup K) \ {c} : ptr[d] = o

\* What is kept without c is not doomed.
LEMMA KeptAway ==
    ASSUME Small, NEW ptr, NEW cnt, NEW L, NEW U, NEW Dying, SoundIn(ptr, cnt, L, U, Dying),
           NEW c, U \subseteq Dying \cup {c}, Dying \subseteq L,
           NEW K \in SUBSET L, Sustains(K, ptr, c)
    PROVE  K \cap Dying = {}
<1>. DEFINE S == K \cap Dying
<1>1. SUFFICES ASSUME S # {} PROVE FALSE
  OBVIOUS
<1>2. PICK o \in S : \A p \in S : ptr[p] # o
  <2>1. S \in SUBSET Object
    BY DEF SoundIn
  <2>. HIDE DEF S
  <2>. QED  BY <1>1, <2>1 DEF SoundIn, Sourced
<1>3. PICK d \in (Variable \cup K) \ {c} : ptr[d] = o
  BY DEF Sustains
<1>4. o \in L /\ o \in Dying /\ d \in Cells(L)
  BY DEF Cells
<1>5. HoldersOf(ptr, L, o, U) = {}
  BY <1>4 DEF SoundIn
<1>6. d \in U
  BY <1>3, <1>4, <1>5 DEF HoldersOf
<1>7. d \in Dying /\ d \notin Variable
  BY <1>3, <1>6 DEF SoundIn, Small
<1>. QED  BY <1>2, <1>3, <1>7

LEMMA SafeStays ==
    ASSUME Small, NEW ptr, NEW cnt, NEW L, NEW U, NEW Dying, SoundIn(ptr, cnt, L, U, Dying),
           NEW c, U \subseteq Dying \cup {c}, Dying \subseteq L,
           NEW n, NEW M, NEW E, Later(c, ptr, L, Dying, n, M, E),
           NEW b \in Cells(L), Safe(ptr, L, b, c)
    PROVE  Safe(n, M, b, c) /\ b \in Cells(M) /\ b \notin Dying
<1>1. Dying \subseteq Object /\ L \subseteq Object
  BY DEF SoundIn
<1>2. CASE b \in Variable
  BY <1>1, <1>2 DEF Safe, Cells, Small
<1>3. CASE b \notin Variable
  <2>1. PICK K \in SUBSET L : b \in K /\ \A o \in K : \E d \in (Variable \cup K) \ {c} : ptr[d] = o
    BY <1>3 DEF Safe
  <2>2. K \cap Dying = {}
    <3>1. Sustains(K, ptr, c)
      BY <2>1 DEF Sustains
    <3>. QED  BY <3>1, KeptAway
  <2>3. K \in SUBSET M /\ b \in M
    BY <2>1, <2>2 DEF Later
  <2>4. ASSUME NEW o \in K PROVE \E d \in (Variable \cup K) \ {c} : n[d] = o
    <3>1. PICK d \in (Variable \cup K) \ {c} : ptr[d] = o
      BY <2>1
    <3>2. d \notin Dying \cup {c} /\ d \in Variable \cup Object
      BY <1>1, <2>2 DEF Small
    <3>3. n[d] = o
      BY <3>1, <3>2 DEF Later
    <3>. QED  BY <3>3
  <2>. QED  BY <2>1, <2>2, <2>3, <2>4 DEF Safe, Cells
<1>. QED  BY <1>2, <1>3

LEMMA ApartStays ==
    ASSUME Small, NEW ptr, NEW c, NEW L, NEW Dying, NEW n, NEW M, NEW E, Later(c, ptr, L, Dying, n, M, E),
           NEW b \in Variable \cup Object, NEW d, Apart(ptr, b, d)
    PROVE  Apart(n, b, d)
<1>1. PICK R \in SUBSET Object :
         d \notin R /\ ptr[b] \in R \cup {NoObject} /\ \A o \in R : ptr[o] \in R \cup {NoObject}
  BY DEF Apart
<1>2. n[b] \in R \cup {NoObject} /\ \A o \in R : n[o] \in R \cup {NoObject}
  BY <1>1 DEF Later
<1>. QED  BY <1>1, <1>2 DEF Apart

LEMMA TidyStays ==
    ASSUME Small, NEW ptr, NEW c, NEW L, NEW Dying, NEW n, NEW M, NEW E, Later(c, ptr, L, Dying, n, M, E),
           NEW valid, NEW w, SameBut(c, valid, w), NEW X, Tidy(ptr, valid, X), c \in X
    PROVE  Tidy(n, w, X)
  BY DEF Later, SameBut, Tidy, Small

LEMMA MatchesStays ==
    ASSUME Small, NEW ptr, NEW c, NEW L \in SUBSET Object, NEW Dying, NEW n, NEW M, NEW E, Later(c, ptr, L, Dying, n, M, E),
           NEW p, NEW X, Matches(ptr, L, p, X \cup Dying), c \in X
    PROVE  Matches(n, M, p, X \cup E)
<1>1. SUFFICES ASSUME NEW d \in Cells(M) \ (X \cup E) PROVE n[d] = p[d]
  BY DEF Matches
<1>2. d \in Cells(L) /\ d \in Variable \cup Object
  BY DEF Cells, Later
<1>3. CASE d \in Dying
  BY <1>3 DEF Later, Cells, Small
<1>4. CASE d \notin Dying
  <2>1. d \notin Dying \cup {c} /\ d \in Cells(L) \ (X \cup Dying)
    BY <1>2, <1>4
  <2>. QED  BY <1>2, <2>1 DEF Matches, Later
<1>. QED  BY <1>3, <1>4

LEMMA FillsStays ==
    ASSUME Small, NEW ptr, NEW cnt, NEW L, NEW U, NEW Dying, SoundIn(ptr, cnt, L, U, Dying),
           NEW c, U \subseteq Dying \cup {c}, Dying \subseteq L,
           NEW n, NEW M, NEW E, Later(c, ptr, L, Dying, n, M, E),
           NEW valid, NEW w, SameBut(c, valid, w),
           NEW q, NEW p, Fills(q, c, ptr, L, valid, p, Dying)
    PROVE  Fills(q, c, n, M, w, p, E)
<1>1. L \in SUBSET Object /\ Dying \in SUBSET Object /\ Temporary \in Variable /\ Temporary \notin Dying
      /\ \A b \in Cells(L) : b \in Variable \cup Object
  BY DEF SoundIn, Small, Cells
<1>2. ASSUME NEW b \in Cells(L), Safe(ptr, L, b, c)
      PROVE  Safe(n, M, b, c) /\ b \in Cells(M) /\ b \notin Dying
  BY <1>2, SafeStays
<1>3. ASSUME NEW b \in Variable \cup Object, NEW d, Apart(ptr, b, d) PROVE Apart(n, b, d)
  BY <1>3, ApartStays
<1>4. ASSUME NEW X, Tidy(ptr, valid, X), c \in X PROVE Tidy(n, w, X)
  BY <1>4, TidyStays
<1>5. ASSUME NEW X, Matches(ptr, L, p, X \cup Dying), c \in X PROVE Matches(n, M, p, X \cup E)
  BY <1>1, <1>5, MatchesStays
<1>6. \A d \in Variable \cup Object : d \notin Dying \cup {c} => n[d] = ptr[d]
  BY DEF Later
<1>7. ASSUME Copies(q, c, ptr, L, valid, p, Dying) PROVE Copies(q, c, n, M, w, p, E)
  <2>1. PICK b \in (Variable \cup L) \ {c} :
           /\ q = Refs!CopyConstruct(c, b)
           /\ Safe(ptr, L, b, c) /\ Apart(ptr, b, c) /\ c # Temporary
           /\ p[c] = p[b] /\ Matches(ptr, L, p, {c} \cup Dying) /\ Tidy(ptr, valid, {c})
    BY <1>7 DEF Copies
  <2>2. b \in Cells(L)
    BY DEF Cells
  <2>3. b \in (Variable \cup M) \ {c} /\ Safe(n, M, b, c) /\ Apart(n, b, c)
    BY <1>1, <1>2, <1>3, <2>1, <2>2 DEF Cells
  <2>4. Matches(n, M, p, {c} \cup E) /\ Tidy(n, w, {c})
    BY <1>4, <1>5, <2>1
  <2>. QED  BY <2>1, <2>3, <2>4 DEF Copies
<1>8. ASSUME Takes(q, c, ptr, L, valid, p, Dying) PROVE Takes(q, c, n, M, w, p, E)
  <2>5. PICK b \in (Variable \cup L) \ {c} : \E t \in {<<>>, Refs!Clear(b), <<Refs!Step("invalidate", b)>> \o Refs!Clear(b)} :
           /\ q = Refs!MoveConstruct(c, b) \o t /\ Leftover(b, t)
           /\ Safe(ptr, L, b, c) /\ Apart(ptr, b, c) /\ c # Temporary
           /\ p[c] = ptr[b] /\ p[b] = NoObject
           /\ Matches(ptr, L, p, {c, b} \cup Dying) /\ Tidy(ptr, valid, {c, b})
    BY <1>8 DEF Takes
  <2>1. PICK t \in {<<>>, Refs!Clear(b), <<Refs!Step("invalidate", b)>> \o Refs!Clear(b)} :
           /\ q = Refs!MoveConstruct(c, b) \o t /\ Leftover(b, t)
           /\ Safe(ptr, L, b, c) /\ Apart(ptr, b, c) /\ c # Temporary
           /\ p[c] = ptr[b] /\ p[b] = NoObject
           /\ Matches(ptr, L, p, {c, b} \cup Dying) /\ Tidy(ptr, valid, {c, b})
    BY <2>5
  <2>2. b \in Cells(L)
    BY DEF Cells
  <2>3. b \in (Variable \cup M) \ {c} /\ Safe(n, M, b, c) /\ Apart(n, b, c) /\ n[b] = ptr[b]
    BY <1>1, <1>2, <1>3, <1>6, <2>1, <2>2 DEF Cells
  <2>4. Matches(n, M, p, {c, b} \cup E) /\ Tidy(n, w, {c, b})
    BY <1>4, <1>5, <2>1
  <2>. QED  BY <2>1, <2>3, <2>4 DEF Takes
<1>. QED  BY <1>7, <1>8 DEF Fills

LEMMA AfterStays ==
    ASSUME Small, NEW ptr, NEW cnt, NEW L, NEW U, NEW Dying, SoundIn(ptr, cnt, L, U, Dying),
           NEW c, U \subseteq Dying \cup {c}, Dying \subseteq L,
           NEW n, NEW M, NEW E, Later(c, ptr, L, Dying, n, M, E),
           NEW valid, NEW w, SameBut(c, valid, w),
           NEW rest, NEW p, After(rest, c, ptr, L, valid, p, Dying)
    PROVE  After(rest, c, n, M, w, p, E)
<1>1. L \in SUBSET Object /\ Dying \in SUBSET Object /\ Temporary \in Variable /\ Temporary \notin Dying
      /\ \A b \in Cells(L) : b \in Variable \cup Object
  BY DEF SoundIn, Small, Cells
<1>2. ASSUME NEW b \in Cells(L), Safe(ptr, L, b, c)
      PROVE  Safe(n, M, b, c) /\ b \in Cells(M) /\ b \notin Dying
  BY <1>2, SafeStays
<1>3. ASSUME NEW b \in Variable \cup Object, NEW d, Apart(ptr, b, d) PROVE Apart(n, b, d)
  BY <1>3, ApartStays
<1>4. ASSUME NEW X, Tidy(ptr, valid, X), c \in X PROVE Tidy(n, w, X)
  BY <1>4, TidyStays
<1>5. ASSUME NEW X, Matches(ptr, L, p, X \cup Dying), c \in X PROVE Matches(n, M, p, X \cup E)
  BY <1>1, <1>5, MatchesStays
<1>6. \A d \in Variable \cup Object : d \notin Dying \cup {c} => n[d] = ptr[d]
  BY DEF Later
<1>7. ASSUME Ends(rest, c, ptr, L, valid, p, Dying) PROVE Ends(rest, c, n, M, w, p, E)
  BY <1>4, <1>5, <1>7 DEF Ends
<1>8. ASSUME Musts(rest, c, ptr, L, valid, p, Dying) PROVE Musts(rest, c, n, M, w, p, E)
  <2>1. PICK b \in (Variable \cup L) \ (Optionals \cup {c, Temporary}) :
           /\ c # Temporary
           /\ rest = MustOf(b)
           /\ Safe(ptr, L, b, c) /\ Apart(ptr, Temporary, b)
           /\ p[c] = NoObject /\ p[b] = ptr[Temporary] /\ p[Temporary] = NoObject
           /\ Matches(ptr, L, p, {c, b, Temporary} \cup Dying) /\ Tidy(ptr, valid, {c, Temporary})
    BY <1>8 DEF Musts
  <2>2. b \in Cells(L)
    BY DEF Cells
  <2>3. b \in (Variable \cup M) \ (Optionals \cup {c, Temporary}) /\ Safe(n, M, b, c) /\ Apart(n, Temporary, b)
    BY <1>1, <1>2, <1>3, <2>1, <2>2 DEF Cells
  <2>4. n[Temporary] = ptr[Temporary]
    BY <1>1, <1>6, <2>1
  <2>5. Matches(n, M, p, {c, b, Temporary} \cup E) /\ Tidy(n, w, {c, Temporary})
    BY <1>4, <1>5, <2>1
  <2>. QED  BY <2>1, <2>3, <2>4, <2>5 DEF Musts
<1>9. ASSUME NEW q, Fills(q, c, ptr, L, valid, p, Dying) PROVE Fills(q, c, n, M, w, p, E)
  BY <1>9, FillsStays
<1>. QED  BY <1>7, <1>8, <1>9 DEF After

-----------------------------------------------------------------------------
(* The destructors that are running *)

LEMMA UnwindIs ==
    ASSUME NEW r \in Seq(Variable \cup Object), Len(r) >= 1
    PROVE  /\ Unwind(r) \in Seq(Steps) /\ Len(Unwind(r)) = 2 * Len(r) - 1
           /\ Len(r) = 1 => Unwind(r) = <<Refs!Step("reset", r[1])>>
<1>1. PICK n \in Nat : n = Len(r) /\ n >= 1
  OBVIOUS
<1>2. \A i \in 1 .. n : r[i] \in Variable \cup Object
  BY <1>1
<1>3. ASSUME NEW i \in 1 .. 2 * n - 1
      PROVE  (IF (i % 2) = 1 THEN Refs!Step("reset", r[(i + 1) \div 2]) ELSE Refs!Step("free", r[i \div 2])) \in Steps
  <2>1. CASE (i % 2) = 1
    <3>1. (i + 1) \div 2 \in 1 .. n
      BY <1>1, <2>1
    <3>. QED  BY <1>2, <2>1, <3>1 DEF Refs!Step, Steps
  <2>2. CASE (i % 2) # 1
    <3>1. i \div 2 \in 1 .. n
      BY <1>1, <2>2
    <3>. QED  BY <1>2, <2>2, <3>1 DEF Refs!Step, Steps
  <2>. QED  BY <2>1, <2>2
<1>4. Unwind(r) \in [1 .. 2 * n - 1 -> Steps] /\ 2 * n - 1 \in Nat
  BY <1>1, <1>3 DEF Unwind
<1>5. Unwind(r) \in Seq(Steps) /\ Len(Unwind(r)) = 2 * n - 1
  BY <1>4
<1>6. ASSUME n = 1 PROVE Unwind(r) = <<Refs!Step("reset", r[1])>>
  <2>1. PICK u \in Seq(Steps) : u = Unwind(r)
    BY <1>5
  <2>2. Len(u) = 1
    BY <1>5, <1>6, <2>1
  <2>4. 1 \in 1 .. 2 * Len(r) - 1 /\ (1 % 2) = 1 /\ (1 + 1) \div 2 = 1
    BY <1>1
  <2>5. u[1] = Refs!Step("reset", r[1])
    BY <2>1, <2>4 DEF Unwind
  <2>3. u = <<u[1]>>
    BY <2>2
  <2>. QED  BY <2>1, <2>3, <2>5
<1>. QED  BY <1>1, <1>5, <1>6

\* The destructor of one more object.
LEMMA UnwindPush ==
    ASSUME NEW r \in Seq(Variable \cup Object), Len(r) >= 1, NEW o \in Object
    PROVE  Unwind(<<o>> \o r) = <<Refs!Step("reset", o), Refs!Step("free", o)>> \o Unwind(r)
<1>1. PICK n \in Nat : n = Len(r) /\ n >= 1
  OBVIOUS
<1>2. PICK s \in Seq(Variable \cup Object) : s = <<o>> \o r
  <2>1. <<o>> \in Seq(Variable \cup Object)
    OBVIOUS
  <2>. QED  BY <2>1, ConcatProperties
<1>3. Len(s) = n + 1 /\ s[1] = o /\ \A i \in 1 .. n : s[i + 1] = r[i]
  BY <1>1, <1>2
<1>4. PICK u \in Seq(Steps) : u = Unwind(s)
  BY <1>3, UnwindIs
<1>5. PICK v \in Seq(Steps) : v = Unwind(r)
  BY UnwindIs
<1>6. Len(u) = 2 * n + 1 /\ Len(v) = 2 * n - 1
  BY <1>1, <1>3, <1>4, <1>5, UnwindIs
<1>7. \A i \in 1 .. 2 * n + 1 : u[i] = IF (i % 2) = 1 THEN Refs!Step("reset", s[(i + 1) \div 2]) ELSE Refs!Step("free", s[i \div 2])
  BY <1>3, <1>4 DEF Unwind
<1>8. \A i \in 1 .. 2 * n - 1 : v[i] = IF (i % 2) = 1 THEN Refs!Step("reset", r[(i + 1) \div 2]) ELSE Refs!Step("free", r[i \div 2])
  BY <1>1, <1>5 DEF Unwind
<1>9. PICK t \in Seq(Steps) : t = <<Refs!Step("reset", o), Refs!Step("free", o)>> \o v
  <2>1. Refs!Step("reset", o) \in Steps /\ Refs!Step("free", o) \in Steps
    BY DEF Refs!Step, Steps
  <2>2. <<Refs!Step("reset", o), Refs!Step("free", o)>> \in Seq(Steps)
    BY <2>1
  <2>. QED  BY <1>5, <2>2, ConcatProperties
<1>10. Len(t) = 2 * n + 1 /\ t[1] = Refs!Step("reset", o) /\ t[2] = Refs!Step("free", o)
       /\ \A i \in 1 .. 2 * n - 1 : t[i + 2] = v[i]
  <2>1. PICK x, y : x = Refs!Step("reset", o) /\ y = Refs!Step("free", o)
    OBVIOUS
  <2>2. t = <<x, y>> \o v /\ <<x, y>> \in Seq(Steps)
    <3>1. x \in Steps /\ y \in Steps
      BY <2>1 DEF Refs!Step, Steps
    <3>. QED  BY <1>9, <2>1, <3>1
  <2>3. Len(t) = Len(<<x, y>>) + Len(v)
        /\ \A i \in 1 .. Len(<<x, y>>) + Len(v) : t[i] = IF i <= Len(<<x, y>>) THEN <<x, y>>[i] ELSE v[i - Len(<<x, y>>)]
    BY <1>5, <2>2, ConcatProperties
  <2>4. Len(t) = 2 + Len(v) /\ \A i \in 1 .. 2 + Len(v) : t[i] = IF i <= 2 THEN <<x, y>>[i] ELSE v[i - 2]
    BY <2>3
  <2>. QED  BY <1>1, <1>6, <2>1, <2>4
<1>11. ASSUME NEW i \in 1 .. 2 * n + 1 PROVE u[i] = t[i]
  <2>1. CASE i = 1
    BY <1>3, <1>7, <1>10, <2>1
  <2>2. CASE i = 2
    BY <1>3, <1>7, <1>10, <2>2
  <2>3. CASE i > 2
    <3>1. PICK j \in 1 .. 2 * n - 1 : i = j + 2
      BY <2>3
    <3>2. t[i] = v[j]
      BY <1>10, <3>1
    <3>3. CASE (j % 2) = 1
      <4>1. (i % 2) = 1 /\ (i + 1) \div 2 = (j + 1) \div 2 + 1 /\ (j + 1) \div 2 \in 1 .. n
        BY <3>1, <3>3
      <4>2. u[i] = Refs!Step("reset", s[(j + 1) \div 2 + 1])
        BY <1>7, <4>1
      <4>3. v[j] = Refs!Step("reset", r[(j + 1) \div 2])
        BY <1>8, <3>3
      <4>. QED  BY <1>3, <3>2, <4>1, <4>2, <4>3
    <3>4. CASE (j % 2) # 1
      <4>1. (i % 2) # 1 /\ i \div 2 = j \div 2 + 1 /\ j \div 2 \in 1 .. n
        BY <3>1, <3>4
      <4>2. u[i] = Refs!Step("free", s[j \div 2 + 1])
        BY <1>7, <4>1
      <4>3. v[j] = Refs!Step("free", r[j \div 2])
        BY <1>8, <3>4
      <4>. QED  BY <1>3, <3>2, <4>1, <4>2, <4>3
    <3>. QED  BY <3>3, <3>4
  <2>. QED  BY <2>1, <2>2, <2>3
<1>12. u = t
  BY <1>6, <1>10, <1>11
<1>. QED  BY <1>2, <1>4, <1>5, <1>9, <1>12

\* One more destructor, and one less.
Prepended(s, o, r) == s = <<o>> \o r
Popping(s, o, r) == Len(s) > 1 /\ o = s[1] /\ r = Tail(s)
PointsTo(ptr, r, o) == ptr[r[1]] = o
Lacks(S, o, T) == o \in S /\ T = S \ {o}
Empties(w, ptr, o) == w = [ptr EXCEPT ![o] = NoObject]
UnwindsTo(s, o, r) == Unwind(s) = <<Refs!Step("reset", o), Refs!Step("free", o)>> \o Unwind(r)

LEMMA Pushed ==
    ASSUME NEW r \in Seq(Variable \cup Object), NEW c, NEW ptr, NEW L \in SUBSET Object, Chain(r, c, ptr, L),
           NEW o \in L, PointsTo(ptr, r, o), o \notin Released(r),
           NEW s, Prepended(s, o, r)
    PROVE  /\ s \in Seq(Variable \cup Object) /\ Chain(s, c, ptr, L) /\ s[1] = o
           /\ Doomed(s) = Doomed(r) \cup {o} /\ Released(s) = Released(r) \cup {o}
<1>1. PICK n \in Nat : n = Len(r) /\ n >= 1
  BY DEF Chain
<1>2. s \in Seq(Variable \cup Object) /\ Len(s) = n + 1 /\ s[1] = o /\ \A i \in 1 .. n : s[i + 1] = r[i]
  BY <1>1 DEF Prepended
<1>3. \A i \in 2 .. n + 1 : s[i] = r[i - 1] /\ i - 1 \in 1 .. n
  BY <1>1, <1>2
<1>4. s[Len(s)] = c
  BY <1>1, <1>2 DEF Chain
<1>5. ASSUME NEW i \in 1 .. n PROVE s[i] \in L /\ ptr[s[i + 1]] = s[i]
  <2>1. CASE i = 1
    BY <1>1, <1>2, <2>1 DEF PointsTo
  <2>2. CASE i # 1
    <3>1. s[i] = r[i - 1] /\ s[i + 1] = r[i] /\ i - 1 \in 1 .. n - 1 /\ (i - 1) + 1 = i
      BY <1>1, <1>2, <1>3, <2>2
    <3>. QED  BY <1>1, <3>1 DEF Chain
  <2>. QED  BY <2>1, <2>2
<1>6. ASSUME NEW i \in 1 .. n + 1, NEW j \in 1 .. n + 1, s[i] = s[j] PROVE i = j
  <2>1. \A k \in 2 .. n + 1 : s[k] # o
    BY <1>1, <1>3 DEF Released
  <2>2. CASE i = 1 \/ j = 1
    BY <1>2, <1>6, <2>1, <2>2
  <2>3. CASE i # 1 /\ j # 1
    <3>1. i \in 2 .. n + 1 /\ j \in 2 .. n + 1
      BY <2>3
    <3>2. i - 1 \in 1 .. n /\ j - 1 \in 1 .. n /\ r[i - 1] = r[j - 1]
      BY <1>3, <1>6, <3>1
    <3>3. i - 1 = j - 1
      BY <1>1, <3>2 DEF Chain
    <3>. QED  BY <3>3
  <2>. QED  BY <2>2, <2>3
<1>7. Chain(s, c, ptr, L)
  BY <1>1, <1>2, <1>4, <1>5, <1>6 DEF Chain
<1>8. Doomed(s) = Doomed(r) \cup {o}
  <2>1. ASSUME NEW i \in 1 .. Len(s) - 1 PROVE s[i] \in Doomed(r) \cup {o}
    <3>1. CASE i = 1
      BY <1>2, <3>1
    <3>2. CASE i # 1
      <4>1. s[i] = r[i - 1] /\ i - 1 \in 1 .. n - 1
        BY <1>2, <1>3, <3>2
      <4>. QED  BY <1>1, <4>1 DEF Doomed
    <3>. QED  BY <3>1, <3>2
  <2>2. ASSUME NEW i \in 1 .. Len(r) - 1 PROVE r[i] \in Doomed(s)
    <3>1. i + 1 \in 1 .. Len(s) - 1 /\ s[i + 1] = r[i]
      BY <1>1, <1>2
    <3>. QED  BY <3>1 DEF Doomed
  <2>3. o \in Doomed(s)
    <3>1. 1 \in 1 .. Len(s) - 1
      BY <1>1, <1>2
    <3>. QED  BY <1>2, <3>1 DEF Doomed
  <2>. QED  BY <2>1, <2>2, <2>3 DEF Doomed
<1>9. Released(s) = Released(r) \cup {o}
  <2>1. ASSUME NEW i \in 1 .. Len(s) PROVE s[i] \in Released(r) \cup {o}
    <3>1. CASE i = 1
      BY <1>2, <3>1
    <3>2. CASE i # 1
      <4>1. s[i] = r[i - 1] /\ i - 1 \in 1 .. n
        BY <1>2, <1>3, <3>2
      <4>. QED  BY <1>1, <4>1 DEF Released
    <3>. QED  BY <3>1, <3>2
  <2>2. ASSUME NEW i \in 1 .. Len(r) PROVE r[i] \in Released(s)
    <3>1. i + 1 \in 1 .. Len(s) /\ s[i + 1] = r[i]
      BY <1>1, <1>2
    <3>. QED  BY <3>1 DEF Released
  <2>3. o \in Released(s)
    <3>1. 1 \in 1 .. Len(s)
      BY <1>1, <1>2
    <3>. QED  BY <1>2, <3>1 DEF Released
  <2>. QED  BY <2>1, <2>2, <2>3 DEF Released
<1>. QED  BY <1>2, <1>7, <1>8, <1>9

LEMMA Popped ==
    ASSUME NEW s \in Seq(Variable \cup Object), NEW c, NEW ptr \in Pointers, NEW L \in SUBSET Object, Chain(s, c, ptr, L),
           NEW o, NEW r, Popping(s, o, r), NEW w, Empties(w, ptr, o)
    PROVE  /\ r \in Seq(Variable \cup Object) /\ o \in L /\ o \in Object
           /\ Chain(r, c, ptr, L \ {o}) /\ Chain(s, c, w, L)
           /\ Lacks(Doomed(s), o, Doomed(r)) /\ Lacks(Released(s), o, Released(r))
           /\ UnwindsTo(s, o, r)
<1>1. PICK n \in Nat : n + 1 = Len(s) /\ n >= 1
  <2>1. Len(s) - 1 \in Nat /\ (Len(s) - 1) + 1 = Len(s) /\ Len(s) - 1 >= 1
    BY DEF Popping
  <2>. QED  BY <2>1
<1>2. r \in Seq(Variable \cup Object) /\ Len(r) = n /\ \A i \in 1 .. n : r[i] = s[i + 1]
  BY <1>1 DEF Popping
<1>3. s = <<o>> \o r /\ s[1] = o
  BY <1>1, <1>2 DEF Popping
<1>4. \A i \in 1 .. n : s[i] \in L /\ ptr[s[i + 1]] = s[i]
  BY <1>1 DEF Chain
<1>5. \A i, j \in 1 .. n + 1 : s[i] = s[j] => i = j
  BY <1>1 DEF Chain
<1>6. o \in L /\ ptr[r[1]] = o
  <2>1. 1 \in 1 .. n
    BY <1>1
  <2>2. s[1] \in L /\ ptr[s[1 + 1]] = s[1] /\ r[1] = s[1 + 1]
    BY <1>2, <1>4, <2>1
  <2>. QED  BY <1>3, <2>2
<1>7. \A i \in 1 .. n : r[i] # o
  <2>. TAKE i \in 1 .. n
  <2>1. i + 1 \in 1 .. n + 1 /\ 1 \in 1 .. n + 1 /\ i + 1 # 1
    OBVIOUS
  <2>. QED  BY <1>2, <1>3, <1>5, <2>1
<1>8. o \notin Released(r)
  BY <1>2, <1>7 DEF Released
<1>9. r[Len(r)] = c
  BY <1>1, <1>2 DEF Chain
<1>10. ASSUME NEW i \in 1 .. n - 1 PROVE r[i] \in L \ {o} /\ ptr[r[i + 1]] = r[i] /\ r[i + 1] # o
  <2>1. i + 1 \in 1 .. n /\ i \in 1 .. n
    OBVIOUS
  <2>2. r[i] = s[i + 1] /\ r[i + 1] = s[(i + 1) + 1]
    BY <1>2, <2>1
  <2>. QED  BY <1>4, <1>7, <2>1, <2>2
<1>11. ASSUME NEW i \in 1 .. n, NEW j \in 1 .. n, r[i] = r[j] PROVE i = j
  <2>1. s[i + 1] = s[j + 1] /\ i + 1 \in 1 .. n + 1 /\ j + 1 \in 1 .. n + 1
    BY <1>2, <1>11
  <2>2. i + 1 = j + 1
    BY <1>5, <2>1
  <2>. QED  BY <2>2
<1>12. Chain(r, c, ptr, L \ {o})
  BY <1>1, <1>2, <1>9, <1>10, <1>11 DEF Chain
<1>14. Chain(r, c, ptr, L)
  BY <1>12 DEF Chain
<1>13. Chain(s, c, w, L)
  <2>1. ASSUME NEW i \in 1 .. n PROVE w[s[i + 1]] = s[i]
    <3>1. s[i + 1] = r[i] /\ r[i] # o /\ r[i] \in Variable \cup Object
      BY <1>2, <1>7
    <3>. QED  BY <1>4, <3>1 DEF Pointers, Empties
  <2>2. s[Len(s)] = c
    BY DEF Chain
  <2>. QED  BY <1>1, <1>4, <1>5, <2>1, <2>2 DEF Chain
<1>15. Doomed(s) = Doomed(r) \cup {o} /\ Released(s) = Released(r) \cup {o}
  <2>1. r \in Seq(Variable \cup Object)
    BY <1>2
  <2>2. Prepended(s, o, r) /\ PointsTo(ptr, r, o)
    BY <1>3, <1>6 DEF Prepended, PointsTo
  <2>. QED  BY <1>6, <1>8, <1>14, <2>1, <2>2, Pushed
<1>17. UnwindsTo(s, o, r)
  BY <1>1, <1>2, <1>3, <1>6, UnwindPush DEF UnwindsTo
<1>16. Doomed(r) \subseteq Released(r)
  BY <1>1, <1>2 DEF Doomed, Released
<1>18. Lacks(Doomed(s), o, Doomed(r)) /\ Lacks(Released(s), o, Released(r))
  BY <1>8, <1>15, <1>16 DEF Lacks
<1>. QED  BY <1>2, <1>6, <1>12, <1>13, <1>17, <1>18

\* The cell that is cleared is not in a doomed object.
LEMMA ChainIs ==
    ASSUME Small, NEW r \in Seq(Variable \cup Object), NEW c, NEW ptr, NEW L \in SUBSET Object, Chain(r, c, ptr, L)
    PROVE  /\ Released(r) = Doomed(r) \cup {c} /\ c \notin Doomed(r) /\ Doomed(r) \subseteq L
           /\ r[1] \in Released(r) /\ r[1] \in Variable \cup Object
           /\ Len(r) = 1 => r[1] = c /\ Doomed(r) = {} /\ Released(r) = {c}
           /\ Len(r) # 1 => Len(r) > 1 /\ r[1] \in Doomed(r)
<1>1. PICK n \in Nat : n = Len(r) /\ n >= 1
  BY DEF Chain
<1>2. r[n] = c /\ \A i \in 1 .. n : r[i] \in Variable \cup Object
  BY <1>1 DEF Chain
<1>3. Doomed(r) = {r[i] : i \in 1 .. n - 1} /\ Released(r) = {r[i] : i \in 1 .. n}
  BY <1>1 DEF Doomed, Released
<1>4. \A i \in 1 .. n : i = n \/ i \in 1 .. n - 1
  OBVIOUS
<1>5. Released(r) = Doomed(r) \cup {c}
  BY <1>1, <1>2, <1>3, <1>4
<1>6. \A i \in 1 .. n - 1 : r[i] # c
  <2>. TAKE i \in 1 .. n - 1
  <2>1. i \in 1 .. n /\ n \in 1 .. n /\ i # n
    BY <1>1
  <2>. QED  BY <1>1, <1>2, <2>1 DEF Chain
<1>7. Doomed(r) \subseteq L
  BY <1>1, <1>3 DEF Chain
<1>8. 1 \in 1 .. n /\ (n # 1 => n > 1 /\ 1 \in 1 .. n - 1)
  BY <1>1
<1>. QED  BY <1>1, <1>2, <1>3, <1>5, <1>6, <1>7, <1>8

-----------------------------------------------------------------------------
(* The steps one by one *)

LEMMA ThenIs ==
    ASSUME NEW step \in Steps, NEW x \in Seq(Steps)
    PROVE  /\ Then(step, x) \in Seq(Steps) /\ Then(step, x) # <<>>
           /\ Head(Then(step, x)) = step /\ Tail(Then(step, x)) = x
<1>1. <<step>> \in Seq(Steps) /\ Len(<<step>>) = 1 /\ <<step>>[1] = step
  OBVIOUS
<1>2. PICK t : t = Then(step, x)
  OBVIOUS
<1>3. t \in Seq(Steps) /\ Len(t) = 1 + Len(x)
      /\ \A i \in 1 .. 1 + Len(x) : t[i] = IF i <= 1 THEN <<step>>[i] ELSE x[i - 1]
  BY <1>1, <1>2, ConcatProperties DEF Then
<1>4. t # <<>> /\ t[1] = step /\ \A i \in 1 .. Len(x) : t[i + 1] = x[i]
  BY <1>1, <1>3
<1>5. Head(t) = step
  BY <1>3, <1>4
<1>6. Tail(t) \in Seq(Steps) /\ Len(Tail(t)) = Len(x) /\ \A i \in 1 .. Len(x) : Tail(t)[i] = x[i]
  BY <1>3, <1>4, HeadTailProperties
<1>7. Tail(t) = x
  BY <1>6, SeqEqual
<1>. QED  BY <1>2, <1>3, <1>4, <1>5, <1>7

LEMMA TwoThen ==
    ASSUME NEW a \in Steps, NEW b \in Steps, NEW x \in Seq(Steps)
    PROVE  <<a, b>> \o x = Then(a, Then(b, x))
<1>1. <<a>> \in Seq(Steps) /\ <<b>> \in Seq(Steps) /\ <<a>> \o <<b>> = <<a, b>>
  <2>1. <<a>> \in Seq(Steps) /\ <<b>> \in Seq(Steps) /\ <<a, b>> \in Seq(Steps)
    OBVIOUS
  <2>2. PICK s, t, u : s = <<a>> /\ t = <<b>> /\ u = <<a, b>>
    OBVIOUS
  <2>3. s \in Seq(Steps) /\ t \in Seq(Steps) /\ u \in Seq(Steps) /\ Len(s) = 1 /\ Len(t) = 1 /\ Len(u) = 2
        /\ s[1] = a /\ t[1] = b /\ u[1] = a /\ u[2] = b
    BY <2>1, <2>2
  <2>4. PICK v : v = s \o t
    OBVIOUS
  <2>5. v \in Seq(Steps) /\ Len(v) = 1 + 1 /\ \A i \in 1 .. 1 + 1 : v[i] = IF i <= 1 THEN s[i] ELSE t[i - 1]
    <3>1. v \in Seq(Steps) /\ Len(v) = Len(s) + Len(t)
          /\ \A i \in 1 .. Len(s) + Len(t) : v[i] = IF i <= Len(s) THEN s[i] ELSE t[i - Len(s)]
      BY <2>3, <2>4, ConcatProperties
    <3>. QED  BY <2>3, <3>1
  <2>6. v = u
    <3>1. Len(v) = Len(u) /\ \A i \in 1 .. Len(v) : v[i] = u[i]
      BY <2>3, <2>5
    <3>. QED  BY <2>3, <2>5, <3>1, SeqEqual
  <2>. QED  BY <2>1, <2>2, <2>4, <2>6
<1>2. (<<a>> \o <<b>>) \o x = <<a>> \o (<<b>> \o x)
  BY <1>1, ConcatAssociative
<1>. QED  BY <1>1, <1>2 DEF Then

LEMMA ThenOn ==
    ASSUME NEW a \in Steps, NEW y \in Seq(Steps), NEW x \in Seq(Steps)
    PROVE  Then(a, y) \o x = Then(a, y \o x)
<1>1. <<a>> \in Seq(Steps)
  OBVIOUS
<1>. QED  BY <1>1, ConcatAssociative DEF Then

LEMMA StepIs ==
    ASSUME NEW do \in {"copy", "take", "ref", "release", "reset", "free", "validate", "invalidate"},
           NEW c \in Variable \cup Object
    PROVE  /\ Refs!Step(do, c) \in Steps /\ Refs!Step(do, c).do = do /\ Refs!Step(do, c).cell = c /\ Refs!Step(do, c).from = c
           /\ \A b \in Variable \cup Object :
                 /\ Refs!StepFrom(do, c, b) \in Steps /\ Refs!StepFrom(do, c, b).do = do
                 /\ Refs!StepFrom(do, c, b).cell = c /\ Refs!StepFrom(do, c, b).from = b
  BY DEF Refs!Step, Refs!StepFrom, Steps

\* The methods are made of these steps.
LEMMA MethodsAre ==
    ASSUME NEW c \in Variable \cup Object, NEW x \in Seq(Steps)
    PROVE  /\ Refs!Clear(c) \in Seq(Steps) /\ Refs!Clear(c) \o x \in Seq(Steps)
           /\ Refs!Clear(c) \o x = Then(Refs!Step("release", c), Then(Refs!Step("reset", c), x))
           /\ Refs!Clear(c) = Then(Refs!Step("release", c), Then(Refs!Step("reset", c), <<>>))
           /\ <<Refs!Step("invalidate", c)>> \o Refs!Clear(c) = Then(Refs!Step("invalidate", c), Refs!Clear(c))
           /\ <<Refs!Step("invalidate", c)>> \o Refs!Clear(c) \in Seq(Steps)
           /\ <<Refs!Step("invalidate", c)>> \o Refs!Clear(c) \o x = Then(Refs!Step("invalidate", c), Refs!Clear(c) \o x)
           /\ <<Refs!Step("validate", c)>> \o x = Then(Refs!Step("validate", c), x)
           /\ Refs!Delete(c) \o x = Then(Refs!Step("release", c), Then(Refs!Step("reset", c), Then(Refs!Step("free", c), x)))
           /\ \A b \in Variable \cup Object :
                 /\ Refs!CopyConstruct(c, b) = Then(Refs!StepFrom("copy", c, b), Then(Refs!Step("ref", c), <<>>))
                 /\ Refs!CopyConstruct(c, b) \in Seq(Steps)
                 /\ Refs!MoveConstruct(c, b) \o x = Then(Refs!StepFrom("take", c, b), x)
                 /\ Refs!MoveConstruct(c, b) \o x \in Seq(Steps)
                 /\ Refs!MoveConstruct(c, b) = Then(Refs!StepFrom("take", c, b), <<>>)
<1>. DEFINE rel == Refs!Step("release", c)
            res == Refs!Step("reset", c)
            inv == Refs!Step("invalidate", c)
            val == Refs!Step("validate", c)
            fre == Refs!Step("free", c)
            ref == Refs!Step("ref", c)
<1>1. rel \in Steps /\ res \in Steps /\ inv \in Steps /\ val \in Steps /\ fre \in Steps /\ ref \in Steps
  BY StepIs
<1>2. Refs!Clear(c) = <<rel, res>> /\ Refs!Delete(c) = <<rel, res>> \o <<fre>>
  BY DEF Refs!Clear, Refs!Delete
<1>. HIDE DEF rel, res, inv, val, fre, ref
<1>3. <<>> \in Seq(Steps) /\ <<rel, res>> \in Seq(Steps) /\ <<fre>> \in Seq(Steps) /\ <<inv>> \in Seq(Steps)
  BY <1>1
<1>4. <<rel, res>> \o x = Then(rel, Then(res, x)) /\ <<rel, res>> \o x \in Seq(Steps)
  BY <1>1, <1>3, TwoThen, ConcatProperties
<1>5. <<rel, res>> = Then(rel, Then(res, <<>>))
  <2>1. <<rel, res>> \o <<>> = Then(rel, Then(res, <<>>))
    BY <1>1, <1>3, TwoThen
  <2>2. <<rel, res>> \o <<>> = <<rel, res>>
    BY <1>3, ConcatEmptySeq
  <2>. QED  BY <2>1, <2>2
<1>6. (<<inv>> \o <<rel, res>>) \o x = <<inv>> \o (<<rel, res>> \o x) /\ <<inv>> \o <<rel, res>> \in Seq(Steps)
  BY <1>3, ConcatAssociative, ConcatProperties
<1>7. (<<rel, res>> \o <<fre>>) \o x = Then(rel, Then(res, Then(fre, x)))
  <2>1. <<fre>> \o x \in Seq(Steps)
    BY <1>3, ConcatProperties
  <2>2. (<<rel, res>> \o <<fre>>) \o x = <<rel, res>> \o (<<fre>> \o x)
    BY <1>3, ConcatAssociative
  <2>3. <<rel, res>> \o (<<fre>> \o x) = Then(rel, Then(res, <<fre>> \o x))
    BY <1>1, <2>1, TwoThen
  <2>. QED  BY <2>2, <2>3 DEF Then
<1>8. ASSUME NEW b \in Variable \cup Object
      PROVE  /\ Refs!CopyConstruct(c, b) = Then(Refs!StepFrom("copy", c, b), Then(ref, <<>>))
             /\ Refs!CopyConstruct(c, b) \in Seq(Steps)
             /\ Refs!MoveConstruct(c, b) \o x = Then(Refs!StepFrom("take", c, b), x)
             /\ Refs!MoveConstruct(c, b) \o x \in Seq(Steps)
             /\ Refs!MoveConstruct(c, b) = Then(Refs!StepFrom("take", c, b), <<>>)
  <2>. DEFINE cop == Refs!StepFrom("copy", c, b)
              tak == Refs!StepFrom("take", c, b)
  <2>1. cop \in Steps /\ tak \in Steps
    BY StepIs
  <2>2. Refs!CopyConstruct(c, b) = <<cop, ref>> /\ Refs!MoveConstruct(c, b) = <<tak>>
    BY DEF Refs!CopyConstruct, Refs!MoveConstruct, ref
  <2>. HIDE DEF cop, tak
  <2>3. <<cop, ref>> \in Seq(Steps) /\ <<tak>> \in Seq(Steps)
    BY <1>1, <2>1
  <2>4. <<cop, ref>> \o <<>> = Then(cop, Then(ref, <<>>))
    <3>1. cop \in Steps /\ ref \in Steps /\ <<>> \in Seq(Steps)
      BY <1>1, <2>1
    <3>. QED  BY <3>1, TwoThen
  <2>5. <<cop, ref>> \o <<>> = <<cop, ref>> /\ <<tak>> \o <<>> = <<tak>>
    BY <2>3, ConcatEmptySeq
  <2>6. <<tak>> \o x \in Seq(Steps)
    BY <2>3, ConcatProperties
  <2>. QED  BY <2>2, <2>3, <2>4, <2>5, <2>6 DEF Then, cop, tak
<1>. QED  BY <1>2, <1>3, <1>4, <1>5, <1>6, <1>7, <1>8 DEF Then, rel, res, inv, val, fre, ref

\* What the step that is next does.
LEMMA WorkRelease ==
    ASSUME NEW c \in Variable \cup Object, NEW x \in Seq(Steps), NEW o, o = m_pointer[c],
           todo = Then(Refs!Step("release", c), x), Refs!Work
    PROVE  /\ UNCHANGED <<m_pointer, m_is_valid, life, before>>
           /\ o = NoObject => m_refcount' = m_refcount /\ todo' = x
           /\ o # NoObject => m_refcount' = [m_refcount EXCEPT ![o] = @ - 1]
           /\ o # NoObject /\ m_refcount[o] # 1 => todo' = x
           /\ o # NoObject /\ m_refcount[o] = 1 => todo' = Refs!Delete(o) \o x
<1>1. Head(todo) = Refs!Step("release", c) /\ Tail(todo) = x
  <2>1. PICK s \in Steps : s = Refs!Step("release", c)
    BY StepIs
  <2>2. todo = Then(s, x)
    BY <2>1
  <2>. QED  BY <2>1, <2>2, ThenIs
<1>2. Refs!Step("release", c).do = "release" /\ Refs!Step("release", c).cell = c
  BY DEF Refs!Step
<1>3. Refs!Release(c)
  BY <1>1, <1>2 DEF Refs!Work
<1>4. <<>> \o x = x
  BY ConcatEmptySeq
<1>. QED  BY <1>1, <1>3, <1>4 DEF Refs!Release, Refs!Last

LEMMA WorkStore ==
    ASSUME NEW c \in Variable \cup Object, NEW b \in Variable \cup Object, NEW x \in Seq(Steps), Refs!Work
    PROVE  /\ todo = Then(Refs!Step("reset", c), x) =>
                 /\ UNCHANGED <<m_is_valid, m_refcount, life, before>> /\ todo' = x
                 /\ m_pointer' = [m_pointer EXCEPT ![c] = NoObject]
           /\ todo = Then(Refs!StepFrom("copy", c, b), x) =>
                 /\ UNCHANGED <<m_is_valid, m_refcount, life, before>> /\ todo' = x
                 /\ m_pointer' = [m_pointer EXCEPT ![c] = m_pointer[b]]
           /\ todo = Then(Refs!StepFrom("take", c, b), x) =>
                 /\ UNCHANGED <<m_is_valid, m_refcount, life, before>> /\ todo' = x
                 /\ m_pointer' = [m_pointer EXCEPT ![c] = m_pointer[b], ![b] = NoObject]
<1>1. ASSUME todo = Then(Refs!Step("reset", c), x)
      PROVE  /\ UNCHANGED <<m_is_valid, m_refcount, life, before>> /\ todo' = x
             /\ m_pointer' = [m_pointer EXCEPT ![c] = NoObject]
  <2>1. Head(todo) = Refs!Step("reset", c) /\ Tail(todo) = x
    <3>1. PICK s \in Steps : s = Refs!Step("reset", c)
      BY StepIs
    <3>2. todo = Then(s, x)
      BY <1>1, <3>1
    <3>. QED  BY <3>1, <3>2, ThenIs
  <2>2. Refs!Step("reset", c).do = "reset" /\ Refs!Step("reset", c).cell = c
    BY DEF Refs!Step
  <2>. QED  BY <2>1, <2>2 DEF Refs!Work, Refs!Store
<1>2. ASSUME todo = Then(Refs!StepFrom("copy", c, b), x)
      PROVE  /\ UNCHANGED <<m_is_valid, m_refcount, life, before>> /\ todo' = x
             /\ m_pointer' = [m_pointer EXCEPT ![c] = m_pointer[b]]
  <2>1. Head(todo) = Refs!StepFrom("copy", c, b) /\ Tail(todo) = x
    <3>1. PICK s \in Steps : s = Refs!StepFrom("copy", c, b)
      BY StepIs
    <3>2. todo = Then(s, x)
      BY <1>2, <3>1
    <3>. QED  BY <3>1, <3>2, ThenIs
  <2>2. Refs!StepFrom("copy", c, b).do = "copy" /\ Refs!StepFrom("copy", c, b).cell = c /\ Refs!StepFrom("copy", c, b).from = b
    BY DEF Refs!StepFrom
  <2>. QED  BY <2>1, <2>2 DEF Refs!Work, Refs!Store
<1>3. ASSUME todo = Then(Refs!StepFrom("take", c, b), x)
      PROVE  /\ UNCHANGED <<m_is_valid, m_refcount, life, before>> /\ todo' = x
             /\ m_pointer' = [m_pointer EXCEPT ![c] = m_pointer[b], ![b] = NoObject]
  <2>1. Head(todo) = Refs!StepFrom("take", c, b) /\ Tail(todo) = x
    <3>1. PICK s \in Steps : s = Refs!StepFrom("take", c, b)
      BY StepIs
    <3>2. todo = Then(s, x)
      BY <1>3, <3>1
    <3>. QED  BY <3>1, <3>2, ThenIs
  <2>2. Refs!StepFrom("take", c, b).do = "take" /\ Refs!StepFrom("take", c, b).cell = c /\ Refs!StepFrom("take", c, b).from = b
    BY DEF Refs!StepFrom
  <2>. QED  BY <2>1, <2>2 DEF Refs!Work, Refs!Store
<1>. QED  BY <1>1, <1>2, <1>3

LEMMA WorkOther ==
    ASSUME NEW c \in Variable \cup Object, NEW x \in Seq(Steps), Refs!Work
    PROVE  /\ todo = Then(Refs!Step("ref", c), x) =>
                 /\ UNCHANGED <<m_pointer, m_is_valid, life, before>> /\ todo' = x
                 /\ m_refcount' = IF m_pointer[c] = NoObject THEN m_refcount
                                  ELSE [m_refcount EXCEPT ![m_pointer[c]] = @ + 1]
           /\ todo = Then(Refs!Step("validate", c), x) =>
                 /\ UNCHANGED <<m_pointer, m_refcount, life, before>> /\ todo' = x
                 /\ m_is_valid' = [m_is_valid EXCEPT ![c] = TRUE]
           /\ todo = Then(Refs!Step("invalidate", c), x) =>
                 /\ UNCHANGED <<m_pointer, m_refcount, life, before>> /\ todo' = x
                 /\ m_is_valid' = [m_is_valid EXCEPT ![c] = FALSE]
           /\ todo = Then(Refs!Step("free", c), x) =>
                 /\ UNCHANGED <<m_pointer, m_is_valid, m_refcount, before>> /\ todo' = x
                 /\ life' = [life EXCEPT ![c] = "deleted"]
<1>1. ASSUME NEW do \in {"ref", "validate", "invalidate", "free"}, todo = Then(Refs!Step(do, c), x)
      PROVE  Head(todo).do = do /\ Head(todo).cell = c /\ Tail(todo) = x
  <2>1. Head(todo) = Refs!Step(do, c) /\ Tail(todo) = x
    <3>1. PICK s \in Steps : s = Refs!Step(do, c)
      BY StepIs
    <3>2. todo = Then(s, x)
      BY <1>1, <3>1
    <3>. QED  BY <3>1, <3>2, ThenIs
  <2>. QED  BY <2>1 DEF Refs!Step
<1>2. ASSUME todo = Then(Refs!Step("ref", c), x) PROVE Refs!Ref(c) /\ Tail(todo) = x
  <2>1. Head(todo).do = "ref" /\ Head(todo).cell = c /\ Tail(todo) = x
    BY <1>1, <1>2
  <2>. QED  BY <2>1 DEF Refs!Work
<1>3. ASSUME todo = Then(Refs!Step("validate", c), x) PROVE Refs!Mark(c, TRUE) /\ Tail(todo) = x
  <2>1. Head(todo).do = "validate" /\ Head(todo).cell = c /\ Tail(todo) = x
    BY <1>1, <1>3
  <2>. QED  BY <2>1 DEF Refs!Work
<1>4. ASSUME todo = Then(Refs!Step("invalidate", c), x) PROVE Refs!Mark(c, FALSE) /\ Tail(todo) = x
  <2>1. Head(todo).do = "invalidate" /\ Head(todo).cell = c /\ Tail(todo) = x
    BY <1>1, <1>4
  <2>. QED  BY <2>1 DEF Refs!Work
<1>5. ASSUME todo = Then(Refs!Step("free", c), x) PROVE Refs!Free(c) /\ Tail(todo) = x
  <2>1. Head(todo).do = "free" /\ Head(todo).cell = c /\ Tail(todo) = x
    BY <1>1, <1>5
  <2>. QED  BY <2>1 DEF Refs!Work
<1>. QED  BY <1>2, <1>3, <1>4, <1>5 DEF Refs!Ref, Refs!Mark, Refs!Free

-----------------------------------------------------------------------------
(* Where a method goes on *)

\* p is still what the method leaves behind, when it goes on and when it is through.
Onward(p) ==
    /\ Typed'
    /\ \/ todo' # <<>> /\ Busy(p)'
       \/ Idle' /\ Matches(m_pointer', Refs!Living', p, {})

\* The cell that is being cleared is not held by what it holds.
LEMMA NotTop ==
    ASSUME NEW r \in Seq(Variable \cup Object), NEW c, NEW ptr, NEW L \in SUBSET Object, Chain(r, c, ptr, L),
           Sourced(ptr), NEW o \in Object, PointsTo(ptr, r, o)
    PROVE  o # c
<1>. SUFFICES ASSUME o = c PROVE FALSE
  OBVIOUS
<1>1. PICK n \in Nat : n = Len(r) /\ n >= 1
  BY DEF Chain
<1>. DEFINE S == {r[i] : i \in 1 .. n}
<1>2. \A i \in 1 .. n - 1 : r[i] \in L /\ ptr[r[i + 1]] = r[i]
  BY <1>1 DEF Chain
<1>3. r[n] = o /\ ptr[r[1]] = o
  BY <1>1 DEF Chain, PointsTo
<1>4. \A i \in 1 .. n : i = n \/ (i \in 1 .. n - 1 /\ i + 1 \in 1 .. n)
  BY <1>1
<1>5. S \in SUBSET Object /\ S # {}
  <2>1. \A i \in 1 .. n : r[i] \in Object
    BY <1>2, <1>3, <1>4
  <2>2. 1 \in 1 .. n
    BY <1>1
  <2>. QED  BY <2>1, <2>2
<1>6. PICK a \in S : \A b \in S : ptr[b] # a
  <2>. HIDE DEF S
  <2>. QED  BY <1>5 DEF Sourced
<1>7. PICK i \in 1 .. n : a = r[i]
  OBVIOUS
<1>8. 1 \in 1 .. n
  BY <1>1
<1>9. r[1] \in S
  BY <1>8
<1>10. CASE i = n
  BY <1>3, <1>6, <1>7, <1>9, <1>10
<1>11. CASE i # n
  <2>1. r[i + 1] \in S /\ ptr[r[i + 1]] = r[i]
    BY <1>2, <1>4, <1>11
  <2>. QED  BY <1>6, <1>7, <2>1
<1>. QED  BY <1>10, <1>11

\* A method whose next steps are the two of clear().
LEMMA ClearStarts ==
    ASSUME Small, NEW p, NEW c \in Variable \cup Object, c \in Cells(Refs!Living'), NEW rest \in Seq(Steps),
           todo' = Refs!Clear(c) \o rest, Whole', After(rest, c, m_pointer', Refs!Living', m_is_valid', p, {})
    PROVE  todo' # <<>> /\ Busy(p)'
<1>1. PICK r : r = <<c>>
  OBVIOUS
<1>2. r \in Seq(Variable \cup Object) /\ Len(r) = 1 /\ r[1] = c
  BY <1>1
<1>3. Unwind(r) = <<Refs!Step("reset", c)>>
  <2>1. Len(r) >= 1
    BY <1>2
  <2>2. Unwind(r) = <<Refs!Step("reset", r[1])>>
    BY <1>2, <2>1, UnwindIs
  <2>. QED  BY <1>2, <2>2
<1>4. Released(r) = {c} /\ Doomed(r) = {}
  BY <1>2 DEF Released, Doomed
<1>5. Chain(r, c, m_pointer', Refs!Living')
  BY <1>2 DEF Chain
<1>6. Refs!Step("release", c) \in Steps /\ Refs!Step("reset", c) \in Steps
  BY StepIs
<1>7. todo' = Then(Refs!Step("release", c), Then(Refs!Step("reset", c), rest))
  BY MethodsAre
<1>8. todo' = Then(Refs!Step("release", r[1]), Unwind(r) \o rest)
  BY <1>2, <1>3, <1>7 DEF Then
<1>9. todo' # <<>>
  <2>1. PICK s \in Steps, t \in Steps : s = Refs!Step("release", c) /\ t = Refs!Step("reset", c)
    BY <1>6
  <2>2. Then(t, rest) \in Seq(Steps)
    BY ThenIs
  <2>3. Then(s, Then(t, rest)) # <<>>
    BY <2>2, ThenIs
  <2>. QED  BY <1>7, <2>1, <2>3
<1>10. {c} \ {c} = {}
  OBVIOUS
<1>11. SoundIn(m_pointer', m_refcount', Refs!Living', Released(r) \ {r[1]}, Doomed(r))
  BY <1>2, <1>4, <1>10 DEF Whole
<1>12. ClearingAt(p, r, c, rest)'
  BY <1>4, <1>5, <1>8, <1>11 DEF ClearingAt
<1>13. Clearing(p)'
  BY <1>2, <1>12 DEF Clearing
<1>. QED  BY <1>9, <1>13 DEF Busy

\* What fills a cell begins with a step.
LEMMA FillsOn ==
    ASSUME NEW q, NEW c \in Variable \cup Object, NEW ptr, NEW cnt, NEW L, NEW U, NEW Dying, SoundIn(ptr, cnt, L, U, Dying),
           NEW valid, NEW p, NEW E, Fills(q, c, ptr, L, valid, p, E)
    PROVE  q # <<>>
<1>1. CASE Copies(q, c, ptr, L, valid, p, E)
  <2>1. PICK b \in (Variable \cup L) \ {c} : q = Refs!CopyConstruct(c, b)
    BY <1>1 DEF Copies
  <2>2. b \in Variable \cup Object
    BY <2>1 DEF SoundIn
  <2>3. q = <<Refs!StepFrom("copy", c, b), Refs!Step("ref", c)>>
    BY <2>1 DEF Refs!CopyConstruct
  <2>. QED  BY <2>3
<1>2. CASE Takes(q, c, ptr, L, valid, p, E)
  <2>1. PICK b \in (Variable \cup L) \ {c} :
            \E t : q = Refs!MoveConstruct(c, b) \o t /\ Leftover(b, t)
    BY <1>2 DEF Takes
  <2>2. PICK t : q = Refs!MoveConstruct(c, b) \o t /\ Leftover(b, t)
    BY <2>1
  <2>3. b \in Variable \cup Object
    BY <2>1 DEF SoundIn
  <2>4. t \in Seq(Steps)
    <3>1. <<>> \in Seq(Steps)
      OBVIOUS
    <3>2. Refs!Clear(b) \in Seq(Steps) /\ <<Refs!Step("invalidate", b)>> \o Refs!Clear(b) \in Seq(Steps)
      BY <2>3, <3>1, MethodsAre
    <3>. QED  BY <2>2, <3>1, <3>2 DEF Leftover
  <2>5. q = Then(Refs!StepFrom("take", c, b), t)
    BY <2>2, <2>3, <2>4, MethodsAre
  <2>6. Refs!StepFrom("take", c, b) \in Steps
    BY <2>3, StepIs
  <2>. QED  BY <2>4, <2>5, <2>6, ThenIs
<1>. QED  BY <1>1, <1>2 DEF Fills

LEMMA MustOfIs ==
    ASSUME Small, NEW b \in Variable \cup Object
    PROVE  /\ Refs!MoveConstruct(b, Temporary) \o Refs!Clear(Temporary) \in Seq(Steps)
           /\ MustOf(b) = Refs!Clear(b) \o (Refs!MoveConstruct(b, Temporary) \o Refs!Clear(Temporary))
           /\ MustOf(b) \in Seq(Steps)
<1>1. Temporary \in Variable \cup Object /\ <<>> \in Seq(Steps)
  BY DEF Small
<1>2. PICK u, v, w : u = Refs!Clear(b) /\ v = Refs!MoveConstruct(b, Temporary) /\ w = Refs!Clear(Temporary)
  OBVIOUS
<1>3. v = <<Refs!StepFrom("take", b, Temporary)>>
  BY <1>2 DEF Refs!MoveConstruct
<1>4. Refs!StepFrom("take", b, Temporary) \in Steps
  BY <1>1, StepIs
<1>5. v \in Seq(Steps)
  BY <1>3, <1>4
<1>6. u \in Seq(Steps) /\ w \in Seq(Steps)
  BY <1>1, <1>2, MethodsAre
<1>7. (u \o v) \o w = u \o (v \o w)
  BY <1>5, <1>6, ConcatAssociative
<1>8. v \o w \in Seq(Steps)
  BY <1>5, <1>6, ConcatProperties
<1>9. u \o (v \o w) \in Seq(Steps)
  BY <1>6, <1>8, ConcatProperties
<1>. QED  BY <1>2, <1>7, <1>8, <1>9 DEF MustOf

\* c is empty now, and the rest of the method follows.
LEMMA Resumes ==
    ASSUME Small, Typed', NEW p, NEW c \in Variable \cup Object, c \in Cells(Refs!Living'), NEW rest \in Seq(Steps),
           todo' = rest, Whole', m_pointer'[c] = NoObject,
           After(rest, c, m_pointer', Refs!Living', m_is_valid', p, {})
    PROVE  Onward(p)
<1>1. CASE Ends(rest, c, m_pointer', Refs!Living', m_is_valid', p, {})
  <2>1. todo' = <<>> /\ Matches(m_pointer', Refs!Living', p, {})
    BY <1>1 DEF Ends, Matches
  <2>2. Tidy(m_pointer', m_is_valid', {})
    BY <1>1 DEF Ends, Tidy
  <2>. QED  BY <2>1, <2>2 DEF Onward, Idle
<1>2. CASE Musts(rest, c, m_pointer', Refs!Living', m_is_valid', p, {})
  <2>1. PICK b \in (Variable \cup Refs!Living') \ (Optionals \cup {c, Temporary}) :
        /\ c # Temporary
        /\ rest = MustOf(b)
        /\ Safe(m_pointer', Refs!Living', b, c) /\ Apart(m_pointer', Temporary, b)
        /\ p[c] = NoObject /\ p[b] = m_pointer'[Temporary] /\ p[Temporary] = NoObject
        /\ Matches(m_pointer', Refs!Living', p, {c, b, Temporary} \cup {}) /\ Tidy(m_pointer', m_is_valid', {c, Temporary})
    BY <1>2 DEF Musts
  <2>2. b \in Variable \cup Object /\ b \in Cells(Refs!Living') /\ Temporary \in Variable
    BY <2>1 DEF Cells, Whole, SoundIn, Small
  <2>3. Refs!Clear(Temporary) \in Seq(Steps)
    BY <2>2, MethodsAre
  <2>4. PICK q \in Seq(Steps) : q = Refs!MoveConstruct(b, Temporary) \o Refs!Clear(Temporary)
    BY <2>2, MustOfIs
  <2>5. todo' = Refs!Clear(b) \o q
    <3>1. MustOf(b) = Refs!Clear(b) \o (Refs!MoveConstruct(b, Temporary) \o Refs!Clear(Temporary))
      BY <2>2, MustOfIs
    <3>. QED  BY <2>1, <2>4, <3>1
  <2>6. Takes(q, b, m_pointer', Refs!Living', m_is_valid', p, {})
    <3>1. Matches(m_pointer', Refs!Living', p, {b, Temporary} \cup {})
      BY <2>1 DEF Matches
    <3>2. Tidy(m_pointer', m_is_valid', {b, Temporary})
      BY <2>1 DEF Tidy
    <3>3. Leftover(Temporary, Refs!Clear(Temporary))
      BY DEF Leftover
    <3>4. Safe(m_pointer', Refs!Living', Temporary, b)
      BY <2>2 DEF Safe
    <3>5. Refs!Clear(Temporary) \in {<<>>, Refs!Clear(Temporary), <<Refs!Step("invalidate", Temporary)>> \o Refs!Clear(Temporary)}
      OBVIOUS
    <3>6. Temporary \in (Variable \cup Refs!Living') \ {b}
      BY <2>1, <2>2
    <3>7. PICK t \in {<<>>, Refs!Clear(Temporary), <<Refs!Step("invalidate", Temporary)>> \o Refs!Clear(Temporary)} : t = Refs!Clear(Temporary)
      BY <3>5
    <3>8. /\ q = Refs!MoveConstruct(b, Temporary) \o t /\ Leftover(Temporary, t)
          /\ Safe(m_pointer', Refs!Living', Temporary, b) /\ Apart(m_pointer', Temporary, b) /\ b # Temporary
          /\ p[b] = m_pointer'[Temporary] /\ p[Temporary] = NoObject
          /\ Matches(m_pointer', Refs!Living', p, {b, Temporary} \cup {}) /\ Tidy(m_pointer', m_is_valid', {b, Temporary})
      BY <2>1, <2>4, <3>1, <3>2, <3>3, <3>4, <3>7
    <3>. QED  BY <3>6, <3>8 DEF Takes
  <2>7. Validate(b) \o q = q
    <3>1. Validate(b) = <<>>
      BY <2>1 DEF Validate
    <3>. QED  BY <3>1
  <2>8. After(q, b, m_pointer', Refs!Living', m_is_valid', p, {})
    BY <2>6, <2>7 DEF After, Fills
  <2>9. todo' # <<>> /\ Busy(p)'
    BY <2>2, <2>5, <2>8, ClearStarts
  <2>. QED  BY <2>9 DEF Onward
<1>3. ASSUME NEW q \in Seq(Steps), rest = Validate(c) \o q, Fills(q, c, m_pointer', Refs!Living', m_is_valid', p, {})
      PROVE  Onward(p)
  <2>1. CASE c \in Optionals
    <3>1. todo' = Then(Refs!Step("validate", c), q)
      BY <1>3, <2>1 DEF Validate, Then
    <3>2. Validating(p)'
      BY <1>3, <2>1, <3>1 DEF Validating
    <3>3. todo' # <<>>
      <4>1. PICK s \in Steps : s = Refs!Step("validate", c)
        BY StepIs
      <4>. QED  BY <3>1, <4>1, ThenIs
    <3>. QED  BY <3>2, <3>3 DEF Onward, Busy
  <2>2. CASE c \notin Optionals
    <3>1. todo' = q
      <4>1. Validate(c) = <<>>
        BY <2>2 DEF Validate
      <4>. QED  BY <1>3, <4>1
    <3>2. Filling(p)'
      BY <1>3, <2>2, <3>1 DEF Filling
    <3>3. q # <<>>
      BY <1>3, FillsOn DEF Whole
    <3>. QED  BY <3>1, <3>2, <3>3 DEF Onward, Busy
  <2>. QED  BY <2>1, <2>2
<1>. QED  BY <1>1, <1>2, <1>3 DEF After

\* The cell at work has been released, and its object goes on to be destroyed or not.
LEMMA ReleaseKeeps ==
    ASSUME Small, Typed, NEW p, NEW r \in Seq(Variable \cup Object), NEW rest \in Seq(Steps),
           NEW c \in Variable \cup Object, c \in Cells(Refs!Living),
           Chain(r, c, m_pointer, Refs!Living), After(rest, c, m_pointer, Refs!Living, m_is_valid, p, Doomed(r)),
           todo = Then(Refs!Step("release", r[1]), Unwind(r) \o rest),
           SoundIn(m_pointer, m_refcount, Refs!Living, Released(r) \ {r[1]}, Doomed(r)), Refs!Work
    PROVE  Onward(p)
<1>. DEFINE L == Refs!Living
            Dying == Doomed(r)
            U == Released(r) \ {r[1]}
<1>1. L \in SUBSET Object /\ m_pointer \in Pointers /\ Sourced(m_pointer)
  BY DEF SoundIn
<1>2. /\ Released(r) = Dying \cup {c} /\ c \notin Dying /\ Dying \subseteq L
      /\ r[1] \in Released(r) /\ r[1] \in Variable \cup Object
  BY <1>1, ChainIs
<1>3. PICK o : o = m_pointer[r[1]]
  OBVIOUS
<1>4. Len(r) >= 1
  BY DEF Chain
<1>5. Unwind(r) \in Seq(Steps)
  BY <1>4, UnwindIs
<1>6. PICK x \in Seq(Steps) : x = Unwind(r) \o rest
  BY <1>5, ConcatProperties
<1>7. /\ UNCHANGED <<m_pointer, m_is_valid, life, before>>
      /\ o = NoObject => m_refcount' = m_refcount /\ todo' = x
      /\ o # NoObject => m_refcount' = [m_refcount EXCEPT ![o] = @ - 1]
      /\ o # NoObject /\ m_refcount[o] # 1 => todo' = x
      /\ o # NoObject /\ m_refcount[o] = 1 => todo' = Refs!Delete(o) \o x
  <2>1. PICK d \in Variable \cup Object : d = r[1]
    BY <1>2
  <2>2. todo = Then(Refs!Step("release", d), x) /\ o = m_pointer[d]
    BY <1>3, <1>6, <2>1
  <2>. QED  BY <2>2, WorkRelease
<1>8. Refs!Living' = Refs!Living /\ Typed'
  BY <1>7 DEF Refs!Living, Typed
<1>9. U \cup {r[1]} = Released(r) /\ r[1] \notin U
  BY <1>2
<1>10. todo' = x => todo' # <<>>
  <2>1. Len(x) = Len(Unwind(r)) + Len(rest)
    BY <1>5, <1>6, ConcatProperties
  <2>2. Len(Unwind(r)) = 2 * Len(r) - 1 /\ Len(r) \in Nat /\ Len(rest) \in Nat
    BY <1>4, UnwindIs
  <2>3. Len(x) # 0
    BY <1>4, <2>1, <2>2
  <2>. QED  BY <2>3
<1>11. CASE o = NoObject
  <2>1. [m_pointer EXCEPT ![r[1]] = NoObject] = m_pointer
    BY <1>1, <1>2, <1>3, <1>11 DEF Pointers
  <2>2. Released(r) \ {r[1]} = U \ {r[1]}
    OBVIOUS
  <2>3. SoundIn([m_pointer EXCEPT ![r[1]] = NoObject], m_refcount, L, Released(r), Dying)
    BY <1>2, <1>3, <1>11, <2>2, ResetIs
  <2>4. ClearingAt(p, r, c, rest)'
    BY <1>6, <1>7, <1>8, <1>11, <2>1, <2>3 DEF ClearingAt
  <2>. QED  BY <1>7, <1>8, <1>10, <1>11, <2>4 DEF Onward, Busy, Clearing
<1>12. CASE o # NoObject
  <2>1. r[1] \in Cells(L) \ U
    BY <1>2, <1>9 DEF Cells
  <2>2. PICK E : E = IF m_refcount[o] = 1 THEN Dying \cup {o} ELSE Dying
    OBVIOUS
  <2>3. /\ o \in L /\ o \notin Dying /\ m_refcount[o] >= 1
        /\ SoundIn(m_pointer, m_refcount', L, U \cup {r[1]}, E)
    <3>1. PICK d : d = r[1]
      OBVIOUS
    <3>2. d \in Cells(L) \ U /\ o = m_pointer[d] /\ SoundIn(m_pointer, m_refcount, L, U, Dying)
      BY <1>3, <2>1, <3>1
    <3>. HIDE DEF L, U, Dying
    <3>3. /\ o \in L /\ o \notin Dying /\ m_refcount[o] >= 1
          /\ SoundIn(m_pointer, m_refcount', L, U \cup {d}, E)
      <4>1. Holds(m_pointer, d, o) /\ Dooms(E, Dying, m_refcount, o) /\ Drops(m_refcount', m_refcount, o)
        BY <1>7, <1>12, <2>2, <3>2 DEF Holds, Dooms, Drops
      <4>. QED  BY <3>2, <4>1, ReleaseIs
    <3>. QED  BY <3>1, <3>3
  <2>4. SoundIn(m_pointer, m_refcount', L, Released(r), E)
    BY <1>7, <1>9, <1>12, <2>3
  <2>5. CASE m_refcount[o] # 1
    <3>1. SoundIn(m_pointer', m_refcount', Refs!Living', Released(r), Doomed(r))
      BY <1>7, <1>8, <2>2, <2>4, <2>5
    <3>2. ClearingAt(p, r, c, rest)'
      BY <1>6, <1>7, <1>8, <1>12, <2>5, <3>1 DEF ClearingAt
    <3>. QED  BY <1>7, <1>8, <1>10, <1>12, <2>5, <3>2 DEF Onward, Busy, Clearing
  <2>6. CASE m_refcount[o] = 1
    <3>1. PointsTo(m_pointer, r, o)
      BY <1>3 DEF PointsTo
    <3>2. o \in Object
      BY <1>1, <2>3
    <3>3. o # c
      BY <1>1, <3>1, <3>2, NotTop
    <3>4. o \notin Released(r)
      BY <1>2, <2>3, <3>3
    <3>5. PICK s : s = <<o>> \o r
      OBVIOUS
    <3>6. Prepended(s, o, r)
      BY <3>5 DEF Prepended
    <3>7. /\ s \in Seq(Variable \cup Object) /\ Chain(s, c, m_pointer, L) /\ s[1] = o
          /\ Doomed(s) = Doomed(r) \cup {o} /\ Released(s) = Released(r) \cup {o}
      BY <1>1, <2>3, <3>1, <3>4, <3>6, Pushed
    <3>8. E = Doomed(s) /\ Released(s) \ {s[1]} = Released(r)
      BY <2>2, <2>6, <3>4, <3>7
    <3>9. SoundIn(m_pointer', m_refcount', Refs!Living', Released(s) \ {s[1]}, Doomed(s))
      BY <1>7, <1>8, <2>4, <3>8
    <3>10. Later(c, m_pointer, L, Dying, m_pointer, L, Doomed(s))
      <4>1. \A d \in Variable \cup Object : m_pointer[d] \in {m_pointer[d], NoObject} /\ (d \notin Dying \cup {c} => m_pointer[d] = m_pointer[d])
        OBVIOUS
      <4>2. L \ L \subseteq Dying /\ Dying \subseteq Doomed(s) \cup (L \ L) /\ L \subseteq L
        BY <3>7
      <4>. QED  BY <1>1, <4>1, <4>2 DEF Later
    <3>11. SameBut(c, m_is_valid, m_is_valid)
      BY DEF SameBut
    <3>12. After(rest, c, m_pointer, L, m_is_valid, p, Doomed(s))
      <4>1. U \subseteq Dying \cup {c}
        BY <1>2
      <4>. HIDE DEF L, U, Dying
      <4>. QED  BY <1>2, <3>10, <3>11, <4>1, AfterStays DEF L, U, Dying
    <3>13. Unwind(s) = <<Refs!Step("reset", o), Refs!Step("free", o)>> \o Unwind(r)
      BY <1>4, <3>2, <3>5, UnwindPush
    <3>14. PICK a \in Steps, b \in Steps : a = Refs!Step("reset", o) /\ b = Refs!Step("free", o)
      BY <3>2, StepIs
    <3>15. Unwind(s) \o rest = Then(a, Then(b, x))
      <4>1. <<a, b>> \in Seq(Steps)
        OBVIOUS
      <4>2. (<<a, b>> \o Unwind(r)) \o rest = <<a, b>> \o (Unwind(r) \o rest)
        BY <1>5, <4>1, ConcatAssociative
      <4>3. <<a, b>> \o x = Then(a, Then(b, x))
        BY TwoThen
      <4>. QED  BY <1>6, <3>13, <3>14, <4>2, <4>3
    <3>16. todo' = Then(Refs!Step("release", s[1]), Unwind(s) \o rest)
      <4>1. Refs!Delete(o) \o x = Then(Refs!Step("release", o), Then(Refs!Step("reset", o), Then(Refs!Step("free", o), x)))
        BY <3>2, MethodsAre
      <4>. QED  BY <1>7, <1>12, <2>6, <3>7, <3>14, <3>15, <4>1
    <3>17. todo' # <<>>
      <4>1. PICK d \in Steps : d = Refs!Step("release", o)
        BY <3>2, StepIs
      <4>2. Then(b, x) \in Seq(Steps)
        BY ThenIs
      <4>3. Then(a, Then(b, x)) \in Seq(Steps)
        BY <4>2, ThenIs
      <4>4. Then(d, Then(a, Then(b, x))) # <<>>
        BY <4>3, ThenIs
      <4>. QED  BY <3>7, <3>15, <3>16, <4>1, <4>4
    <3>18. ClearingAt(p, s, c, rest)'
      BY <1>7, <1>8, <3>7, <3>9, <3>12, <3>16 DEF ClearingAt
    <3>. QED  BY <1>7, <1>8, <3>7, <3>17, <3>18 DEF Onward, Busy, Clearing
  <2>. QED  BY <2>5, <2>6
<1>. QED  BY <1>11, <1>12

\* The cell at work is emptied; where it was the one that clear() is about, the method resumes.
LEMMA ResetKeeps ==
    ASSUME Small, Typed, NEW p, NEW r \in Seq(Variable \cup Object), NEW rest \in Seq(Steps),
           NEW c \in Variable \cup Object, c \in Cells(Refs!Living),
           Chain(r, c, m_pointer, Refs!Living), After(rest, c, m_pointer, Refs!Living, m_is_valid, p, Doomed(r)),
           todo = Unwind(r) \o rest,
           SoundIn(m_pointer, m_refcount, Refs!Living, Released(r), Doomed(r)), Refs!Work
    PROVE  Onward(p)
<1>. DEFINE L == Refs!Living
            Dying == Doomed(r)
            U == Released(r)
<1>1. L \in SUBSET Object /\ m_pointer \in Pointers /\ SoundIn(m_pointer, m_refcount, L, U, Dying)
  BY DEF SoundIn
<1>2. /\ U = Dying \cup {c} /\ c \notin Dying /\ Dying \subseteq L
      /\ r[1] \in U /\ r[1] \in Variable \cup Object
      /\ Len(r) = 1 => r[1] = c /\ Dying = {} /\ U = {c}
      /\ Len(r) # 1 => Len(r) > 1 /\ r[1] \in Dying
  BY <1>1, ChainIs
<1>3. Len(r) >= 1
  BY DEF Chain
<1>4. PICK d \in Variable \cup Object : d = r[1]
  BY <1>2
<1>5. PICK s \in Steps : s = Refs!Step("reset", d)
  BY StepIs
<1>6. PICK n \in Pointers : n = [m_pointer EXCEPT ![d] = NoObject]
  BY <1>1 DEF Pointers
<1>7. n[d] = NoObject /\ \A e \in Variable \cup Object : n[e] \in {m_pointer[e], NoObject} /\ (e # d => n[e] = m_pointer[e])
  BY <1>1, <1>6 DEF Pointers
<1>8. SameBut(c, m_is_valid, m_is_valid)
  BY DEF SameBut
<1>9. d \in Dying \cup {c}
  BY <1>2, <1>4
<1>10. Later(c, m_pointer, L, Dying, n, L, Dying)
  BY <1>2, <1>7, <1>9 DEF Later
<1>11. After(rest, c, n, L, m_is_valid, p, Dying)
  <2>1. U \subseteq Dying \cup {c}
    BY <1>2
  <2>2. After(rest, c, m_pointer, L, m_is_valid, p, Dying)
    OBVIOUS
  <2>. HIDE DEF L, U, Dying
  <2>. QED  BY <1>1, <1>2, <1>8, <1>10, <2>1, <2>2, AfterStays
<1>12. ASSUME NEW x \in Seq(Steps), todo = Then(s, x)
       PROVE  UNCHANGED <<m_is_valid, m_refcount, life, before>> /\ todo' = x /\ m_pointer' = n
  <2>1. todo = Then(Refs!Step("reset", d), x)
    BY <1>5, <1>12
  <2>2. UNCHANGED <<m_is_valid, m_refcount, life, before>> /\ todo' = x
        /\ m_pointer' = [m_pointer EXCEPT ![d] = NoObject]
    BY <2>1, WorkStore
  <2>. QED  BY <1>6, <2>2
<1>13. ASSUME NEW W, W \ {d} = U \ {d}, n = m_pointer'
       PROVE  SoundIn(n, m_refcount, L, W, Dying)
  <2>1. d \in U
    BY <1>2, <1>4
  <2>. HIDE DEF L, U, Dying
  <2>2. SoundIn([m_pointer EXCEPT ![d] = NoObject], m_refcount, L, W, Dying)
    BY <1>1, <1>13, <2>1, ResetIs
  <2>. QED  BY <1>6, <2>2
<1>14. CASE Len(r) = 1
  <2>1. Unwind(r) = <<s>>
    <3>1. Unwind(r) = <<Refs!Step("reset", r[1])>>
      BY <1>3, <1>14, UnwindIs
    <3>. QED  BY <1>4, <1>5, <3>1
  <2>2. todo = Then(s, rest)
    BY <2>1 DEF Then
  <2>3. UNCHANGED <<m_is_valid, m_refcount, life, before>> /\ todo' = rest /\ m_pointer' = n
    BY <1>12, <2>2
  <2>4. Refs!Living' = L /\ Typed'
    BY <2>3 DEF Refs!Living, Typed
  <2>5. d = c /\ Dying = {} /\ U = {c} /\ {} \ {d} = U \ {d}
    BY <1>2, <1>4, <1>14
  <2>6. SoundIn(n, m_refcount, L, {}, Dying)
    BY <1>13, <2>3, <2>5
  <2>7. Whole'
    BY <2>3, <2>4, <2>5, <2>6 DEF Whole
  <2>8. m_pointer'[c] = NoObject
    BY <1>7, <2>3, <2>5
  <2>9. After(rest, c, m_pointer', Refs!Living', m_is_valid', p, {})
    BY <1>11, <2>3, <2>4, <2>5
  <2>10. c \in Cells(Refs!Living')
    BY <2>4
  <2>. QED  BY <2>3, <2>4, <2>7, <2>8, <2>9, <2>10, Resumes
<1>15. CASE Len(r) # 1
  <2>1. PICK q : q = Tail(r)
    OBVIOUS
  <2>2. Popping(r, d, q)
    BY <1>2, <1>4, <1>15, <2>1 DEF Popping
  <2>3. /\ q \in Seq(Variable \cup Object) /\ d \in Object
        /\ Chain(r, c, n, L) /\ Chain(q, c, m_pointer, L \ {d})
        /\ UnwindsTo(r, d, q)
    <3>1. Empties(n, m_pointer, d)
      BY <1>6 DEF Empties
    <3>2. Chain(r, c, m_pointer, L)
      OBVIOUS
    <3>. HIDE DEF L, U, Dying
    <3>. QED  BY <1>1, <2>2, <3>1, <3>2, Popped
  <2>4. PICK f \in Steps : f = Refs!Step("free", d)
    BY StepIs
  <2>5. Unwind(q) \in Seq(Steps)
    <3>1. Len(q) >= 1
      BY <2>3 DEF Chain
    <3>. QED  BY <2>3, <3>1, UnwindIs
  <2>6. PICK y \in Seq(Steps) : y = Unwind(q) \o rest
    BY <2>5, ConcatProperties
  <2>7. todo = Then(s, Then(f, y))
    <3>1. <<s, f>> \in Seq(Steps)
      OBVIOUS
    <3>2. (<<s, f>> \o Unwind(q)) \o rest = <<s, f>> \o (Unwind(q) \o rest)
      BY <2>5, <3>1, ConcatAssociative
    <3>3. <<s, f>> \o y = Then(s, Then(f, y))
      BY TwoThen
    <3>. QED  BY <1>5, <2>3, <2>4, <2>6, <3>2, <3>3 DEF UnwindsTo
  <2>8. Then(f, y) \in Seq(Steps) /\ Then(f, y) # <<>>
    BY ThenIs
  <2>9. UNCHANGED <<m_is_valid, m_refcount, life, before>> /\ todo' = Then(f, y) /\ m_pointer' = n
    BY <1>12, <2>7, <2>8
  <2>10. Refs!Living' = L /\ Typed'
    BY <2>9 DEF Refs!Living, Typed
  <2>11. SoundIn(n, m_refcount, L, U \ {d}, Dying)
    BY <1>13, <2>9
  <2>12. todo' = Then(Refs!Step("free", r[1]), Unwind(Tail(r)) \o rest)
    BY <1>4, <2>1, <2>4, <2>6, <2>9
  <2>13. Len(r) > 1 /\ m_pointer'[r[1]] = NoObject
    BY <1>2, <1>4, <1>7, <1>15, <2>9
  <2>14. Chain(r, c, m_pointer', Refs!Living')
    BY <1>6, <2>3, <2>9, <2>10
  <2>15. ClearingAt(p, r, c, rest)'
    BY <1>4, <1>11, <2>9, <2>10, <2>11, <2>12, <2>13, <2>14 DEF ClearingAt
  <2>. QED  BY <2>8, <2>9, <2>10, <2>15 DEF Onward, Busy, Clearing
<1>. QED  BY <1>14, <1>15

\* A destroyed object is freed, and its pointer's owner is emptied next.
LEMMA FreeingKeeps ==
    ASSUME Small, Typed, NEW p, NEW r \in Seq(Variable \cup Object), NEW rest \in Seq(Steps),
           NEW c \in Variable \cup Object, c \in Cells(Refs!Living),
           Chain(r, c, m_pointer, Refs!Living), After(rest, c, m_pointer, Refs!Living, m_is_valid, p, Doomed(r)),
           Len(r) > 1, m_pointer[r[1]] = NoObject,
           todo = Then(Refs!Step("free", r[1]), Unwind(Tail(r)) \o rest),
           SoundIn(m_pointer, m_refcount, Refs!Living, Released(r) \ {r[1]}, Doomed(r)), Refs!Work
    PROVE  Onward(p)
<1>. DEFINE L == Refs!Living
            Dying == Doomed(r)
<1>1. L \in SUBSET Object /\ m_pointer \in Pointers
  BY DEF SoundIn
<1>2. /\ Released(r) = Dying \cup {c} /\ c \notin Dying /\ Dying \subseteq L
      /\ r[1] \in Dying /\ r[1] \in Variable \cup Object
  <2>1. /\ Released(r) = Dying \cup {c} /\ c \notin Dying /\ Dying \subseteq L /\ r[1] \in Variable \cup Object
        /\ Len(r) # 1 => Len(r) > 1 /\ r[1] \in Dying
    BY <1>1, ChainIs
  <2>2. Len(r) # 1
    <3>1. PICK k \in Nat : k = Len(r)
      OBVIOUS
    <3>2. k > 1
      BY <3>1
    <3>3. k # 1
      BY <3>2
    <3>. QED  BY <3>1, <3>3
  <2>. QED  BY <2>1, <2>2
<1>3. PICK q, o : q = Tail(r) /\ o = r[1]
  OBVIOUS
<1>4. PICK U : U = Released(r) \ {o}
  OBVIOUS
<1>5. SoundIn(m_pointer, m_refcount, L, U, Dying) /\ After(rest, c, m_pointer, L, m_is_valid, p, Dying)
  BY <1>3, <1>4
<1>6. Popping(r, o, q)
  BY <1>3 DEF Popping
<1>7. /\ q \in Seq(Variable \cup Object) /\ o \in L /\ o \in Object /\ o \in Dying
      /\ Chain(q, c, m_pointer, L \ {o})
      /\ Doomed(q) = Dying \ {o} /\ Released(q) = U
  <2>1. PICK w : w = [m_pointer EXCEPT ![o] = NoObject]
    OBVIOUS
  <2>2. Empties(w, m_pointer, o)
    BY <2>1 DEF Empties
  <2>3. Chain(r, c, m_pointer, L)
    OBVIOUS
  <2>. HIDE DEF L
  <2>4. /\ q \in Seq(Variable \cup Object) /\ o \in L /\ o \in Object /\ o \in Doomed(r)
        /\ Chain(q, c, m_pointer, L \ {o})
        /\ Doomed(q) = Doomed(r) \ {o} /\ Released(q) = Released(r) \ {o}
    <3>. HIDE DEF Dying
    <3>1. /\ q \in Seq(Variable \cup Object) /\ o \in L /\ o \in Object
          /\ Chain(q, c, m_pointer, L \ {o})
          /\ Lacks(Doomed(r), o, Doomed(q)) /\ Lacks(Released(r), o, Released(q))
      BY <1>1, <1>6, <2>2, <2>3, Popped
    <3>. QED  BY <3>1 DEF Lacks
  <2>. QED  BY <1>4, <2>4
<1>8. Unwind(q) \in Seq(Steps) /\ Unwind(q) # <<>>
  <2>1. Len(q) >= 1 /\ Len(q) \in Nat
    BY <1>7 DEF Chain
  <2>2. Unwind(q) \in Seq(Steps) /\ Len(Unwind(q)) = 2 * Len(q) - 1
    BY <1>7, <2>1, UnwindIs
  <2>. QED  BY <2>1, <2>2
<1>9. PICK y \in Seq(Steps) : y = Unwind(q) \o rest /\ y # <<>>
  <2>1. Unwind(q) \o rest \in Seq(Steps) /\ Len(Unwind(q) \o rest) = Len(Unwind(q)) + Len(rest)
    BY <1>8, ConcatProperties
  <2>2. Len(Unwind(q)) \in Nat /\ Len(Unwind(q)) # 0 /\ Len(rest) \in Nat
    BY <1>8, EmptySeq
  <2>3. Len(Unwind(q) \o rest) # 0
    BY <2>1, <2>2
  <2>4. Len(<<>>) = 0
    OBVIOUS
  <2>5. Unwind(q) \o rest # <<>>
    BY <2>3, <2>4, Zenon
  <2>. QED  BY <2>1, <2>5
<1>10. UNCHANGED <<m_pointer, m_is_valid, m_refcount, before>> /\ todo' = y /\ life' = [life EXCEPT ![o] = "deleted"]
  <2>1. PICK d \in Variable \cup Object : d = o
    BY <1>7
  <2>2. todo = Then(Refs!Step("free", d), y)
    BY <1>3, <1>9, <2>1
  <2>3. UNCHANGED <<m_pointer, m_is_valid, m_refcount, before>> /\ todo' = y /\ life' = [life EXCEPT ![d] = "deleted"]
    BY <2>2, WorkOther
  <2>. QED  BY <2>1, <2>3
<1>11. Refs!Living' = L \ {o} /\ Typed'
  BY <1>7, <1>10 DEF Refs!Living, Typed
<1>12. PICK M : M = L \ {o}
  OBVIOUS
<1>13. PICK E : E = Dying \ {o}
  OBVIOUS
<1>14. SoundIn(m_pointer, m_refcount, M, U, E)
  <2>1. m_pointer[o] = NoObject
    BY <1>3
  <2>. HIDE DEF L, Dying
  <2>2. SoundIn(m_pointer, m_refcount, L \ {o}, U, Dying \ {o})
    BY <1>5, <1>7, <2>1, FreeIs
  <2>. QED  BY <1>12, <1>13, <2>2
<1>15. Later(c, m_pointer, L, Dying, m_pointer, M, E)
  BY <1>1, <1>2, <1>7, <1>12, <1>13 DEF Later
<1>16. SameBut(c, m_is_valid, m_is_valid)
  BY DEF SameBut
<1>17. After(rest, c, m_pointer, M, m_is_valid, p, E)
  <2>1. U \subseteq Dying \cup {c}
    BY <1>2, <1>4
  <2>. HIDE DEF L, Dying
  <2>. QED  BY <1>2, <1>5, <1>15, <1>16, <2>1, AfterStays
<1>18. c \in Cells(M)
  BY <1>2, <1>7, <1>12 DEF Cells
<1>19. ClearingAt(p, q, c, rest)'
  BY <1>7, <1>9, <1>10, <1>11, <1>12, <1>13, <1>14, <1>17 DEF ClearingAt
<1>. QED  BY <1>7, <1>9, <1>10, <1>11, <1>12, <1>18, <1>19 DEF Onward, Busy, Clearing

LEMMA ClearingKeeps ==
    ASSUME Small, Typed, NEW p, Clearing(p), Refs!Work
    PROVE  Onward(p)
<1>1. PICK r \in Seq(Variable \cup Object), rest \in Seq(Steps) :
        \E c \in Cells(Refs!Living) : ClearingAt(p, r, c, rest)
  BY DEF Clearing
<1>2. PICK c \in Cells(Refs!Living) : ClearingAt(p, r, c, rest)
  BY <1>1
<1>3. c \in Variable \cup Object
  BY DEF Cells, Refs!Living
<1>4. Chain(r, c, m_pointer, Refs!Living) /\ After(rest, c, m_pointer, Refs!Living, m_is_valid, p, Doomed(r))
  BY <1>2 DEF ClearingAt
<1>5. CASE /\ todo = Then(Refs!Step("release", r[1]), Unwind(r) \o rest)
           /\ SoundIn(m_pointer, m_refcount, Refs!Living, Released(r) \ {r[1]}, Doomed(r))
  BY <1>3, <1>4, <1>5, ReleaseKeeps
<1>6. CASE /\ todo = Unwind(r) \o rest
           /\ SoundIn(m_pointer, m_refcount, Refs!Living, Released(r), Doomed(r))
  BY <1>3, <1>4, <1>6, ResetKeeps
<1>7. CASE /\ Len(r) > 1 /\ m_pointer[r[1]] = NoObject
           /\ todo = Then(Refs!Step("free", r[1]), Unwind(Tail(r)) \o rest)
           /\ SoundIn(m_pointer, m_refcount, Refs!Living, Released(r) \ {r[1]}, Doomed(r))
  BY <1>3, <1>4, <1>7, FreeingKeeps
<1>. QED  BY <1>2, <1>5, <1>6, <1>7 DEF ClearingAt

LEMMA InvalidatingKeeps ==
    ASSUME Small, Typed, NEW p, Invalidating(p), Refs!Work
    PROVE  Onward(p)
<1>1. PICK c \in Optionals, rest \in Seq(Steps) :
        /\ todo = Then(Refs!Step("invalidate", c), Refs!Clear(c) \o rest) /\ Whole
        /\ After(rest, c, m_pointer, Refs!Living, m_is_valid, p, {})
  BY DEF Invalidating
<1>2. c \in Variable \cup Object /\ c \in Cells(Refs!Living)
  BY DEF Small, Cells
<1>3. PICK x \in Seq(Steps) : x = Refs!Clear(c) \o rest
  BY <1>2, MethodsAre
<1>4. UNCHANGED <<m_pointer, m_refcount, life, before>> /\ todo' = x
      /\ m_is_valid' = [m_is_valid EXCEPT ![c] = FALSE]
  BY <1>1, <1>2, <1>3, WorkOther
<1>5. Refs!Living' = Refs!Living /\ Typed'
  BY <1>4 DEF Refs!Living, Typed
<1>6. Whole'
  BY <1>1, <1>4, <1>5 DEF Whole
<1>7. SameBut(c, m_is_valid, m_is_valid')
  BY <1>4 DEF SameBut, Typed
<1>8. SoundIn(m_pointer, m_refcount, Refs!Living, {}, {})
  BY <1>1 DEF Whole
<1>9. m_pointer \in Pointers /\ Refs!Living \subseteq Object
  BY <1>8 DEF SoundIn
<1>10. Later(c, m_pointer, Refs!Living, {}, m_pointer, Refs!Living, {})
  BY <1>9 DEF Later
<1>11. After(rest, c, m_pointer, Refs!Living, m_is_valid', p, {})
  <2>1. {} \subseteq {} \cup {c} /\ {} \subseteq Refs!Living
    OBVIOUS
  <2>. QED  BY <1>1, <1>7, <1>8, <1>10, <2>1, AfterStays
<1>12. After(rest, c, m_pointer', Refs!Living', m_is_valid', p, {})
  BY <1>4, <1>5, <1>11
<1>13. todo' = Refs!Clear(c) \o rest /\ c \in Cells(Refs!Living')
  BY <1>2, <1>3, <1>4, <1>5
<1>14. todo' # <<>> /\ Busy(p)'
  BY <1>2, <1>6, <1>12, <1>13, ClearStarts
<1>. QED  BY <1>5, <1>14 DEF Onward

LEMMA ValidatingKeeps ==
    ASSUME Small, Typed, NEW p, Validating(p), Refs!Work
    PROVE  Onward(p)
<1>1. PICK c \in Optionals, q \in Seq(Steps) :
        /\ todo = Then(Refs!Step("validate", c), q) /\ m_pointer[c] = NoObject /\ Whole
        /\ Fills(q, c, m_pointer, Refs!Living, m_is_valid, p, {})
  BY DEF Validating
<1>2. c \in Variable \cup Object /\ c \in Cells(Refs!Living)
  BY DEF Small, Cells
<1>4. UNCHANGED <<m_pointer, m_refcount, life, before>> /\ todo' = q
      /\ m_is_valid' = [m_is_valid EXCEPT ![c] = TRUE]
  BY <1>1, <1>2, WorkOther
<1>5. Refs!Living' = Refs!Living /\ Typed'
  BY <1>4 DEF Refs!Living, Typed
<1>6. Whole' /\ m_pointer'[c] = NoObject
  BY <1>1, <1>4, <1>5 DEF Whole
<1>7. SameBut(c, m_is_valid, m_is_valid') /\ m_is_valid'[c]
  BY <1>4 DEF SameBut, Typed
<1>8. SoundIn(m_pointer, m_refcount, Refs!Living, {}, {})
  BY <1>1 DEF Whole
<1>9. m_pointer \in Pointers /\ Refs!Living \subseteq Object
  BY <1>8 DEF SoundIn
<1>10. Later(c, m_pointer, Refs!Living, {}, m_pointer, Refs!Living, {})
  BY <1>9 DEF Later
<1>11. Fills(q, c, m_pointer, Refs!Living, m_is_valid', p, {})
  <2>1. {} \subseteq {} \cup {c} /\ {} \subseteq Refs!Living
    OBVIOUS
  <2>. QED  BY <1>1, <1>7, <1>8, <1>10, <2>1, FillsStays
<1>12. Fills(todo', c, m_pointer', Refs!Living', m_is_valid', p, {})
  BY <1>4, <1>5, <1>11
<1>13. c \in Cells(Refs!Living')
  BY <1>2, <1>5
<1>14. Filling(p)'
  BY <1>6, <1>7, <1>12, <1>13 DEF Filling
<1>15. q # <<>>
  BY <1>1, <1>2, <1>8, FillsOn
<1>. QED  BY <1>4, <1>5, <1>14, <1>15 DEF Onward, Busy

LEMMA CopyKeeps ==
    ASSUME Small, Typed, NEW p, NEW c \in Cells(Refs!Living), c \in Optionals => m_is_valid[c],
           m_pointer[c] = NoObject, Whole, Copies(todo, c, m_pointer, Refs!Living, m_is_valid, p, {}), Refs!Work
    PROVE  Onward(p)
<1>1. PICK b \in (Variable \cup Refs!Living) \ {c} :
        /\ todo = Refs!CopyConstruct(c, b)
        /\ Apart(m_pointer, b, c) /\ c # Temporary
        /\ p[c] = p[b] /\ Matches(m_pointer, Refs!Living, p, {c} \cup {}) /\ Tidy(m_pointer, m_is_valid, {c})
  BY DEF Copies
<1>2. SoundIn(m_pointer, m_refcount, Refs!Living, {}, {})
  BY DEF Whole
<1>3. m_pointer \in Pointers /\ Refs!Living \subseteq Object
  BY <1>2 DEF SoundIn
<1>4. c \in Variable \cup Object /\ b \in Variable \cup Object /\ b \in Cells(Refs!Living) /\ c \in Cells(Refs!Living) /\ b # c
  BY <1>1, <1>3 DEF Cells
<1>5. PICK x \in Seq(Steps) : x = Then(Refs!Step("ref", c), <<>>) /\ x # <<>>
  <2>1. PICK s \in Steps : s = Refs!Step("ref", c)
    BY <1>4, StepIs
  <2>2. <<>> \in Seq(Steps)
    OBVIOUS
  <2>. QED  BY <2>1, <2>2, ThenIs
<1>6. todo = Then(Refs!StepFrom("copy", c, b), x)
  <2>1. PICK y \in Seq(Steps) : TRUE
    BY <1>5
  <2>2. Refs!CopyConstruct(c, b) = Then(Refs!StepFrom("copy", c, b), Then(Refs!Step("ref", c), <<>>))
    BY <1>4, <2>1, MethodsAre
  <2>. QED  BY <1>1, <1>5, <2>2
<1>7. /\ UNCHANGED <<m_is_valid, m_refcount, life, before>> /\ todo' = x
      /\ m_pointer' = [m_pointer EXCEPT ![c] = m_pointer[b]]
  BY <1>4, <1>6, WorkStore
<1>8. Refs!Living' = Refs!Living /\ Typed'
  BY <1>7 DEF Refs!Living, Typed
<1>9. PICK n : n = m_pointer'
  OBVIOUS
<1>10. n[c] = m_pointer[b] /\ \A d \in Variable \cup Object : d # c => n[d] = m_pointer[d]
  BY <1>3, <1>4, <1>7, <1>9 DEF Pointers
<1>11. SoundIn([m_pointer EXCEPT ![c] = m_pointer[b]], m_refcount, Refs!Living, {c}, {}) /\ m_pointer[b] \in Refs!Living \cup {NoObject}
  BY <1>1, <1>2, <1>4, CopyIs
<1>12. SoundIn(n, m_refcount, Refs!Living, {c}, {}) /\ n[c] \in Refs!Living \cup {NoObject}
  BY <1>7, <1>9, <1>10, <1>11
<1>13. Matches(n, Refs!Living, p, {})
  <2>1. \A d \in Cells(Refs!Living) : d # c => n[d] = p[d]
    BY <1>1, <1>3, <1>10 DEF Matches, Cells
  <2>2. n[c] = p[c]
    BY <1>1, <1>4, <1>10 DEF Matches
  <2>. QED  BY <2>1, <2>2 DEF Matches
<1>14. Tidy(n, m_is_valid, {})
  <2>. SUFFICES ASSUME NEW d \in Optionals \cup {Temporary}, d = Temporary \/ ~ m_is_valid[d] PROVE n[d] = NoObject
    BY DEF Tidy
  <2>1. d # c /\ d \in Variable \cup Object
    BY <1>1 DEF Small
  <2>. QED  BY <1>1, <1>10, <2>1 DEF Tidy
<1>15. Counting(p)'
  BY <1>4, <1>5, <1>7, <1>8, <1>9, <1>12, <1>13, <1>14 DEF Counting
<1>. QED  BY <1>5, <1>7, <1>8, <1>15 DEF Onward, Busy

LEMMA TakeKeeps ==
    ASSUME Small, Typed, NEW p, NEW c \in Cells(Refs!Living), c \in Optionals => m_is_valid[c],
           m_pointer[c] = NoObject, Whole, Takes(todo, c, m_pointer, Refs!Living, m_is_valid, p, {}), Refs!Work
    PROVE  Onward(p)
<1>1. PICK b \in (Variable \cup Refs!Living) \ {c} :
        \E t \in {<<>>, Refs!Clear(b), <<Refs!Step("invalidate", b)>> \o Refs!Clear(b)} :
        /\ todo = Refs!MoveConstruct(c, b) \o t /\ Leftover(b, t)
        /\ Safe(m_pointer, Refs!Living, b, c) /\ Apart(m_pointer, b, c) /\ c # Temporary
        /\ p[c] = m_pointer[b] /\ p[b] = NoObject
        /\ Matches(m_pointer, Refs!Living, p, {c, b} \cup {}) /\ Tidy(m_pointer, m_is_valid, {c, b})
  BY DEF Takes
<1>2. PICK t :
        /\ todo = Refs!MoveConstruct(c, b) \o t /\ Leftover(b, t)
        /\ Apart(m_pointer, b, c) /\ c # Temporary
        /\ p[c] = m_pointer[b] /\ p[b] = NoObject
        /\ Matches(m_pointer, Refs!Living, p, {c, b} \cup {}) /\ Tidy(m_pointer, m_is_valid, {c, b})
  BY <1>1
<1>3. SoundIn(m_pointer, m_refcount, Refs!Living, {}, {})
  BY DEF Whole
<1>4. m_pointer \in Pointers /\ Refs!Living \subseteq Object
  BY <1>3 DEF SoundIn
<1>5. c \in Variable \cup Object /\ b \in Variable \cup Object /\ b \in Cells(Refs!Living) /\ c \in Cells(Refs!Living) /\ b # c
  BY <1>1, <1>4 DEF Cells
<1>6. <<>> \in Seq(Steps)
  OBVIOUS
<1>7. t \in Seq(Steps)
  <2>1. Refs!Clear(b) \in Seq(Steps) /\ <<Refs!Step("invalidate", b)>> \o Refs!Clear(b) \in Seq(Steps)
    BY <1>5, <1>6, MethodsAre
  <2>. QED  BY <1>2, <1>6, <2>1 DEF Leftover
<1>8. todo = Then(Refs!StepFrom("take", c, b), t)
  BY <1>2 DEF Refs!MoveConstruct, Then
<1>9. /\ UNCHANGED <<m_is_valid, m_refcount, life, before>> /\ todo' = t
      /\ m_pointer' = [m_pointer EXCEPT ![c] = m_pointer[b], ![b] = NoObject]
  BY <1>5, <1>7, <1>8, WorkStore
<1>10. Refs!Living' = Refs!Living /\ Typed'
  BY <1>9 DEF Refs!Living, Typed
<1>11. PICK n : n = m_pointer'
  OBVIOUS
<1>12. n[c] = m_pointer[b] /\ n[b] = NoObject /\ \A d \in Variable \cup Object : d # c /\ d # b => n[d] = m_pointer[d]
  BY <1>4, <1>5, <1>9, <1>11 DEF Pointers
<1>13. SoundIn([m_pointer EXCEPT ![c] = m_pointer[b], ![b] = NoObject], m_refcount, Refs!Living, {}, {})
  BY <1>2, <1>3, <1>5, TakeIs
<1>14. Whole'
  BY <1>9, <1>10, <1>13 DEF Whole
<1>15. Matches(n, Refs!Living, p, {})
  <2>1. \A d \in Cells(Refs!Living) : d # c /\ d # b => n[d] = p[d]
    BY <1>2, <1>4, <1>12 DEF Matches, Cells
  <2>. QED  BY <1>2, <1>12, <2>1 DEF Matches
<1>16. Tidy(n, m_is_valid, {})
  <2>. SUFFICES ASSUME NEW d \in Optionals \cup {Temporary}, d = Temporary \/ ~ m_is_valid[d] PROVE n[d] = NoObject
    BY DEF Tidy
  <2>1. d # c /\ d \in Variable \cup Object
    BY <1>2 DEF Small
  <2>. QED  BY <1>2, <1>12, <2>1 DEF Tidy
<1>17. CASE t = <<>>
  BY <1>9, <1>10, <1>11, <1>14, <1>15, <1>16, <1>17 DEF Onward, Idle
<1>18. Ends(<<>>, b, n, Refs!Living, m_is_valid, p, {})
  BY <1>2, <1>15, <1>16 DEF Ends, Matches, Tidy
<1>19. After(<<>>, b, m_pointer', Refs!Living', m_is_valid', p, {}) /\ b \in Cells(Refs!Living')
  BY <1>5, <1>9, <1>10, <1>11, <1>18 DEF After
<1>20. CASE t = Refs!Clear(b)
  <2>1. todo' = Refs!Clear(b) \o <<>>
    <3>1. Refs!Clear(b) \in Seq(Steps)
      BY <1>7, <1>20
    <3>2. \A s \in Seq(Steps) : s \o <<>> = s
      BY ConcatEmptySeq
    <3>. QED  BY <1>9, <1>20, <3>1, <3>2
  <2>2. todo' # <<>> /\ Busy(p)'
    BY <1>5, <1>6, <1>14, <1>19, <2>1, ClearStarts
  <2>. QED  BY <1>10, <2>2 DEF Onward
<1>21. CASE b \in Optionals /\ t = <<Refs!Step("invalidate", b)>> \o Refs!Clear(b)
  <2>1. t = Then(Refs!Step("invalidate", b), Refs!Clear(b) \o <<>>)
    <3>1. Refs!Clear(b) \in Seq(Steps)
      BY <1>5, <1>6, MethodsAre
    <3>2. \A s \in Seq(Steps) : s \o <<>> = s
      BY ConcatEmptySeq
    <3>. QED  BY <1>21, <3>1, <3>2 DEF Then
  <2>2. Invalidating(p)'
    BY <1>6, <1>9, <1>14, <1>19, <1>21, <2>1 DEF Invalidating
  <2>3. t # <<>>
    <3>1. PICK s \in Steps : s = Refs!Step("invalidate", b)
      BY <1>5, StepIs
    <3>2. PICK y \in Seq(Steps) : y = Refs!Clear(b)
      BY <1>5, <1>6, MethodsAre
    <3>3. t = Then(s, y)
      BY <1>21, <3>1, <3>2 DEF Then
    <3>. QED  BY <3>3, ThenIs
  <2>. QED  BY <1>9, <1>10, <2>2, <2>3 DEF Onward, Busy
<1>. QED  BY <1>2, <1>17, <1>20, <1>21 DEF Leftover

LEMMA FillingKeeps ==
    ASSUME Small, Typed, NEW p, Filling(p), Refs!Work
    PROVE  Onward(p)
<1>1. PICK c \in Cells(Refs!Living) :
        /\ c \in Optionals => m_is_valid[c]
        /\ m_pointer[c] = NoObject /\ Whole
        /\ Fills(todo, c, m_pointer, Refs!Living, m_is_valid, p, {})
  BY DEF Filling
<1>. QED  BY <1>1, CopyKeeps, TakeKeeps DEF Fills

LEMMA CountingKeeps ==
    ASSUME Small, Typed, NEW p, Counting(p), Refs!Work
    PROVE  Onward(p)
<1>1. PICK c \in Cells(Refs!Living) :
        /\ todo = Then(Refs!Step("ref", c), <<>>)
        /\ SoundIn(m_pointer, m_refcount, Refs!Living, {c}, {}) /\ m_pointer[c] \in Refs!Living \cup {NoObject}
        /\ Matches(m_pointer, Refs!Living, p, {}) /\ Tidy(m_pointer, m_is_valid, {})
  BY DEF Counting
<1>2. c \in Variable \cup Object
  BY <1>1 DEF Cells, SoundIn
<1>3. <<>> \in Seq(Steps)
  OBVIOUS
<1>4. /\ UNCHANGED <<m_pointer, m_is_valid, life, before>> /\ todo' = <<>>
      /\ m_refcount' = IF m_pointer[c] = NoObject THEN m_refcount
                       ELSE [m_refcount EXCEPT ![m_pointer[c]] = @ + 1]
  BY <1>1, <1>2, <1>3, WorkOther
<1>5. Refs!Living' = Refs!Living /\ Typed'
  BY <1>4 DEF Refs!Living, Typed
<1>6. SoundIn(m_pointer, m_refcount', Refs!Living, {}, {})
  BY <1>1, <1>4, RefIs
<1>7. Whole'
  BY <1>4, <1>5, <1>6 DEF Whole
<1>. QED  BY <1>1, <1>4, <1>5, <1>7 DEF Onward, Idle

\* The value of an Optional is moved into the temporary object of must().
LEMMA MustingKeeps ==
    ASSUME Small, Typed, NEW p, Musting(p), Refs!Work
    PROVE  Onward(p)
<1>1. PICK c \in Cells(Refs!Living) \ (Optionals \cup {Temporary}), b \in Optionals :
        /\ todo = Then(Refs!StepFrom("take", Temporary, b), Then(Refs!Step("invalidate", b), Refs!Clear(b) \o MustOf(c)))
        /\ Whole /\ Apart(m_pointer, b, c)
        /\ p[c] = m_pointer[b] /\ p[b] = NoObject
        /\ Matches(m_pointer, Refs!Living, p, {c, b}) /\ Tidy(m_pointer, m_is_valid, {})
  BY DEF Musting
<1>2. SoundIn(m_pointer, m_refcount, Refs!Living, {}, {})
  BY <1>1 DEF Whole
<1>3. m_pointer \in Pointers /\ Refs!Living \subseteq Object
  BY <1>2 DEF SoundIn
<1>4. PICK k : k = Temporary
  OBVIOUS
<1>5. /\ c \in Variable \cup Object /\ b \in Variable \cup Object /\ k \in Variable \cup Object
      /\ b \in Variable /\ k \in Variable /\ b # k /\ b # c /\ k # c
      /\ b \in Cells(Refs!Living) /\ k \in Cells(Refs!Living)
  BY <1>1, <1>3, <1>4 DEF Cells, Small
<1>6. MustOf(c) \in Seq(Steps)
  BY <1>5, MustOfIs
<1>7. PICK x \in Seq(Steps) : x = Refs!Clear(b) \o MustOf(c)
  BY <1>5, <1>6, MethodsAre
<1>8. PICK y \in Seq(Steps) : y = Then(Refs!Step("invalidate", b), x) /\ y # <<>>
  <2>1. PICK s \in Steps : s = Refs!Step("invalidate", b)
    BY <1>5, StepIs
  <2>. QED  BY <2>1, ThenIs
<1>9. todo = Then(Refs!StepFrom("take", k, b), y)
  BY <1>1, <1>4, <1>7, <1>8
<1>10. /\ UNCHANGED <<m_is_valid, m_refcount, life, before>> /\ todo' = y
       /\ m_pointer' = [m_pointer EXCEPT ![k] = m_pointer[b], ![b] = NoObject]
  BY <1>5, <1>9, WorkStore
<1>11. Refs!Living' = Refs!Living /\ Typed'
  BY <1>10 DEF Refs!Living, Typed
<1>12. PICK n : n = m_pointer'
  OBVIOUS
<1>13. n[k] = m_pointer[b] /\ n[b] = NoObject /\ \A d \in Variable \cup Object : d # k /\ d # b => n[d] = m_pointer[d]
  BY <1>3, <1>5, <1>10, <1>12 DEF Pointers
<1>14. m_pointer[k] = NoObject
  BY <1>1, <1>4 DEF Tidy
<1>15. Apart(m_pointer, b, k)
  <2>1. k \notin Object
    BY <1>5 DEF Small
  <2>2. \A d \in Cells(Refs!Living) : m_pointer[d] \in Refs!Living \cup {NoObject}
    BY <1>2 DEF SoundIn
  <2>3. m_pointer[b] \in Refs!Living \cup {NoObject} /\ \A o \in Refs!Living : m_pointer[o] \in Refs!Living \cup {NoObject}
    BY <1>5, <2>2 DEF Cells
  <2>. QED  BY <1>3, <2>1, <2>3 DEF Apart
<1>16. SoundIn(n, m_refcount, Refs!Living, {}, {})
  <2>1. SoundIn([m_pointer EXCEPT ![k] = m_pointer[b], ![b] = NoObject], m_refcount, Refs!Living, {}, {})
    BY <1>2, <1>5, <1>14, <1>15, TakeIs
  <2>. QED  BY <1>10, <1>12, <2>1
<1>17. Whole'
  BY <1>10, <1>11, <1>12, <1>16 DEF Whole
<1>18. Safe(n, Refs!Living, c, b)
  <2>1. CASE c \in Variable
    BY <2>1 DEF Safe
  <2>2. CASE c \in Refs!Living
    <3>1. ASSUME NEW o \in Refs!Living PROVE \E d \in (Variable \cup Refs!Living) \ {b} : n[d] = o
      <4>1. HoldersOf(n, Refs!Living, o, {}) # {}
        BY <1>16, <3>1 DEF SoundIn
      <4>2. PICK d \in Cells(Refs!Living) : n[d] = o
        BY <4>1 DEF HoldersOf
      <4>3. o # NoObject
        BY <1>3 DEF Small
      <4>. QED  BY <1>13, <4>2, <4>3 DEF Cells
    <3>. QED  BY <2>2, <3>1 DEF Safe
  <2>. QED  BY <1>1, <2>1, <2>2 DEF Cells
<1>19. Apart(n, k, c)
  <2>1. PICK R \in SUBSET Object :
            c \notin R /\ m_pointer[b] \in R \cup {NoObject} /\ \A o \in R : m_pointer[o] \in R \cup {NoObject}
    BY <1>1 DEF Apart
  <2>2. \A o \in R : o # k /\ o # b /\ o \in Variable \cup Object
    BY <1>5 DEF Small
  <2>3. \A o \in R : n[o] \in R \cup {NoObject}
    BY <1>13, <2>1, <2>2
  <2>. QED  BY <1>13, <2>1, <2>3 DEF Apart
<1>20. p[k] = NoObject
  BY <1>1, <1>4, <1>5, <1>14 DEF Matches
<1>21. Matches(n, Refs!Living, p, {b, c, k} \cup {})
  BY <1>1, <1>3, <1>13 DEF Matches, Cells
<1>22. Tidy(n, m_is_valid, {b, k})
  <2>. SUFFICES ASSUME NEW d \in (Optionals \cup {Temporary}) \ {b, k}, d = Temporary \/ ~ m_is_valid[d] PROVE n[d] = NoObject
    BY DEF Tidy
  <2>1. d \in Variable \cup Object
    BY DEF Small
  <2>. QED  BY <1>1, <1>13, <2>1 DEF Tidy
<1>23. Musts(MustOf(c), b, n, Refs!Living, m_is_valid, p, {})
  <2>1. c \in (Variable \cup Refs!Living) \ (Optionals \cup {b, Temporary})
    BY <1>1, <1>5 DEF Cells
  <2>2. b # Temporary /\ MustOf(c) = MustOf(c)
    BY <1>4, <1>5
  <2>3. /\ Safe(n, Refs!Living, c, b) /\ Apart(n, Temporary, c)
        /\ p[b] = NoObject /\ p[c] = n[Temporary] /\ p[Temporary] = NoObject
        /\ Matches(n, Refs!Living, p, {b, c, Temporary} \cup {}) /\ Tidy(n, m_is_valid, {b, Temporary})
    BY <1>1, <1>4, <1>13, <1>18, <1>19, <1>20, <1>21, <1>22
  <2>. QED  BY <2>1, <2>2, <2>3 DEF Musts
<1>24. After(MustOf(c), b, m_pointer', Refs!Living', m_is_valid', p, {})
  BY <1>10, <1>11, <1>12, <1>23 DEF After
<1>25. Invalidating(p)'
  BY <1>6, <1>7, <1>8, <1>10, <1>17, <1>24 DEF Invalidating
<1>. QED  BY <1>8, <1>10, <1>11, <1>25 DEF Onward, Busy

\* Each step of a method leads to what comes next.
LEMMA BusyKeeps ==
    ASSUME Small, Typed, NEW p, Busy(p), Refs!Work
    PROVE  Onward(p)
  BY ClearingKeeps, InvalidatingKeeps, ValidatingKeeps, FillingKeeps, CountingKeeps, MustingKeeps DEF Busy

-----------------------------------------------------------------------------
(* Where a method begins *)

\* Nothing of the program changes with a call yet.
LEMMA CallIs ==
    ASSUME NEW method, Refs!Call(method), Small, Typed, Idle
    PROVE  /\ todo' = method /\ m_pointer' = m_pointer /\ m_is_valid' = m_is_valid
           /\ Refs!Living' = Refs!Living /\ Typed' /\ Whole' /\ Whole
           /\ before' = [pointer |-> m_pointer, living |-> Refs!Living, constructed |-> {}]
           /\ SoundIn(m_pointer, m_refcount, Refs!Living, {}, {}) /\ Tidy(m_pointer, m_is_valid, {})
           /\ m_pointer \in Pointers /\ Refs!Living \subseteq Object
<1>1. todo' = method /\ UNCHANGED <<m_pointer, m_is_valid, m_refcount, life>>
      /\ before' = [pointer |-> m_pointer, living |-> Refs!Living, constructed |-> {}]
  BY DEF Refs!Call
<1>2. Refs!Living' = Refs!Living /\ Typed'
  BY <1>1 DEF Refs!Living, Typed
<1>3. SoundIn(m_pointer, m_refcount, Refs!Living, {}, {}) /\ Whole /\ Tidy(m_pointer, m_is_valid, {})
  BY DEF Idle, Whole
<1>4. Whole'
  BY <1>1, <1>2, <1>3 DEF Whole
<1>. QED  BY <1>1, <1>2, <1>3, <1>4 DEF SoundIn

LEMMA BeginClear ==
    ASSUME Small, Typed, Idle, NEW p, NEW c \in Cells(Refs!Living), NEW rest \in Seq(Steps),
           After(rest, c, m_pointer, Refs!Living, m_is_valid, p, {}), Refs!Call(Refs!Clear(c) \o rest)
    PROVE  Onward(p)
<1>1. /\ todo' = Refs!Clear(c) \o rest /\ m_pointer' = m_pointer /\ m_is_valid' = m_is_valid
      /\ Refs!Living' = Refs!Living /\ Typed' /\ Whole' /\ Refs!Living \subseteq Object
  BY CallIs
<1>2. c \in Variable \cup Object /\ c \in Cells(Refs!Living')
  BY <1>1 DEF Cells
<1>3. After(rest, c, m_pointer', Refs!Living', m_is_valid', p, {})
  BY <1>1
<1>4. todo' # <<>> /\ Busy(p)'
  BY <1>1, <1>2, <1>3, ClearStarts
<1>. QED  BY <1>1, <1>4 DEF Onward

LEMMA BeginOptional ==
    ASSUME Small, Typed, Idle, NEW p, NEW c \in Optionals, NEW rest \in Seq(Steps),
           After(rest, c, m_pointer, Refs!Living, m_is_valid, p, {}), Refs!Call(Refs!OptionalClear(c) \o rest)
    PROVE  Onward(p)
<1>1. /\ todo' = Refs!OptionalClear(c) \o rest /\ m_pointer' = m_pointer /\ m_is_valid' = m_is_valid
      /\ Refs!Living' = Refs!Living /\ Typed' /\ Whole' /\ Refs!Living \subseteq Object /\ Tidy(m_pointer, m_is_valid, {})
  BY CallIs
<1>2. c \in Variable \cup Object /\ c \in Cells(Refs!Living')
  BY <1>1 DEF Cells, Small
<1>3. After(rest, c, m_pointer', Refs!Living', m_is_valid', p, {})
  BY <1>1
<1>4. CASE m_is_valid[c]
  <2>1. PICK s \in Steps : s = Refs!Step("invalidate", c)
    BY <1>2, StepIs
  <2>2. Refs!Clear(c) \in Seq(Steps) /\ Refs!Clear(c) \o rest \in Seq(Steps)
    BY <1>2, MethodsAre
  <2>3. Refs!OptionalClear(c) = <<s>> \o Refs!Clear(c)
    BY <1>4, <2>1 DEF Refs!OptionalClear
  <2>4. (<<s>> \o Refs!Clear(c)) \o rest = <<s>> \o (Refs!Clear(c) \o rest)
    <3>1. <<s>> \in Seq(Steps)
      OBVIOUS
    <3>. QED  BY <2>2, <3>1, ConcatAssociative
  <2>5. todo' = Then(s, Refs!Clear(c) \o rest)
    BY <1>1, <2>3, <2>4 DEF Then
  <2>6. todo' # <<>>
    BY <2>2, <2>5, ThenIs
  <2>7. Invalidating(p)'
    BY <1>1, <1>3, <2>1, <2>5 DEF Invalidating
  <2>. QED  BY <1>1, <2>6, <2>7 DEF Onward, Busy
<1>5. CASE ~ m_is_valid[c]
  <2>1. todo' = rest
    <3>1. Refs!OptionalClear(c) = <<>>
      BY <1>5 DEF Refs!OptionalClear
    <3>. QED  BY <1>1, <3>1
  <2>2. m_pointer'[c] = NoObject
    BY <1>1, <1>5 DEF Tidy
  <2>. QED  BY <1>1, <1>2, <1>3, <2>1, <2>2, Resumes
<1>. QED  BY <1>4, <1>5

\* The preconditions of an assignment, without the graph.
LEMMA AssignableIs ==
    ASSUME Small, Idle, NEW c, NEW b \in Cells(Refs!Living), Refs!Assignable(c, b)
    PROVE  c # b /\ Safe(m_pointer, Refs!Living, b, c) /\ Apart(m_pointer, b, c)
<1>1. m_pointer \in Pointers /\ Refs!Living \in SUBSET Object /\ \A d \in Cells(Refs!Living) : m_pointer[d] \in Refs!Living \cup {NoObject}
  BY DEF Idle, Whole, SoundIn
<1>2. c # b /\ b \in Variable \cup Refs!H!Reach(m_pointer, Variable, c) /\ c \notin Refs!H!Reach(m_pointer, {b}, NoObject)
  BY DEF Refs!Assignable
<1>3. IsFiniteSet(Object) /\ NoObject \notin Object /\ NoObject \notin Variable
  BY DEF Small
<1>4. Safe(m_pointer, Refs!Living, b, c)
  <2>1. PICK K : K = Refs!H!Reach(m_pointer, Variable, c)
    OBVIOUS
  <2>2. Variable \in SUBSET (Variable \cup Object)
    OBVIOUS
  <2>3. IsReach(K, m_pointer, Variable, c)
    BY <1>1, <1>3, <2>1, <2>2, ReachIs
  <2>4. K \subseteq Refs!Living
    <3>1. \A d \in (Variable \cup Refs!Living) \ {c} : m_pointer[d] \in Refs!Living \cup {NoObject}
      BY <1>1 DEF Cells
    <3>. QED  BY <2>3, <3>1 DEF IsReach
  <2>5. \A o \in K : \E d \in (Variable \cup K) \ {c} : m_pointer[d] = o
    BY <2>3 DEF IsReach
  <2>. QED  BY <1>2, <2>1, <2>4, <2>5 DEF Safe
<1>5. Apart(m_pointer, b, c)
  <2>1. PICK R : R = Refs!H!Reach(m_pointer, {b}, NoObject)
    OBVIOUS
  <2>2. b \in Variable \cup Object
    BY <1>1 DEF Cells
  <2>3. {b} \in SUBSET (Variable \cup Object)
    BY <2>2
  <2>4. PICK B \in SUBSET (Variable \cup Object) : B = {b}
    BY <2>3
  <2>5. IsReach(R, m_pointer, B, NoObject)
    BY <1>1, <1>3, <2>1, <2>4, ReachIs
  <2>6. R \in SUBSET Object /\ \A d \in (B \cup R) \ {NoObject} : m_pointer[d] \in R \cup {NoObject}
    BY <2>5 DEF IsReach
  <2>7. b # NoObject /\ \A d \in R : d # NoObject
    BY <1>3, <2>2, <2>6
  <2>8. m_pointer[b] \in R \cup {NoObject} /\ \A o \in R : m_pointer[o] \in R \cup {NoObject}
    BY <2>4, <2>6, <2>7
  <2>. QED  BY <1>2, <2>1, <2>6, <2>8 DEF Apart
<1>. QED  BY <1>2, <1>4, <1>5

\* What the program assigns to, and with what.
Assigned(p, ptr, c, o) == p = [ptr EXCEPT ![c] = o]
Moved(p, ptr, c, b) == p = [ptr EXCEPT ![c] = ptr[b], ![b] = NoObject]

LEMMA EndsAfter ==
    ASSUME Small, Idle, NEW c \in Cells(Refs!Living), c # Temporary, NEW p, Assigned(p, m_pointer, c, NoObject)
    PROVE  After(<<>>, c, m_pointer, Refs!Living, m_is_valid, p, {})
<1>1. m_pointer \in Pointers /\ Refs!Living \in SUBSET Object /\ Tidy(m_pointer, m_is_valid, {})
  BY DEF Idle, Whole, SoundIn
<1>2. p[c] = NoObject /\ \A d \in Variable \cup Object : d # c => p[d] = m_pointer[d]
  BY <1>1 DEF Assigned, Pointers, Cells
<1>3. Matches(m_pointer, Refs!Living, p, {c} \cup {}) /\ Tidy(m_pointer, m_is_valid, {c})
  BY <1>1, <1>2 DEF Matches, Tidy, Cells
<1>. QED  BY <1>2, <1>3 DEF After, Ends

LEMMA CopyAfter ==
    ASSUME Small, Idle, NEW c \in Cells(Refs!Living), c # Temporary, NEW b \in Cells(Refs!Living), Refs!Assignable(c, b),
           NEW p, Assigned(p, m_pointer, c, m_pointer[b])
    PROVE  /\ Validate(c) \o Refs!CopyConstruct(c, b) \in Seq(Steps)
           /\ After(Validate(c) \o Refs!CopyConstruct(c, b), c, m_pointer, Refs!Living, m_is_valid, p, {})
<1>1. m_pointer \in Pointers /\ Refs!Living \in SUBSET Object /\ Tidy(m_pointer, m_is_valid, {})
  BY DEF Idle, Whole, SoundIn
<1>2. c # b /\ Safe(m_pointer, Refs!Living, b, c) /\ Apart(m_pointer, b, c)
  BY AssignableIs
<1>3. c \in Variable \cup Object /\ b \in Variable \cup Object /\ b \in (Variable \cup Refs!Living) \ {c}
  BY <1>1, <1>2 DEF Cells
<1>4. p[c] = m_pointer[b] /\ \A d \in Variable \cup Object : d # c => p[d] = m_pointer[d]
  BY <1>1, <1>3 DEF Assigned, Pointers
<1>5. Matches(m_pointer, Refs!Living, p, {c} \cup {}) /\ Tidy(m_pointer, m_is_valid, {c})
  BY <1>1, <1>4 DEF Matches, Tidy, Cells
<1>6. PICK q \in Seq(Steps) : q = Refs!CopyConstruct(c, b)
  <2>1. Refs!CopyConstruct(c, b) = <<Refs!StepFrom("copy", c, b), Refs!Step("ref", c)>>
    BY DEF Refs!CopyConstruct
  <2>2. Refs!StepFrom("copy", c, b) \in Steps /\ Refs!Step("ref", c) \in Steps
    BY <1>3, StepIs
  <2>3. PICK x \in Steps, y \in Steps : x = Refs!StepFrom("copy", c, b) /\ y = Refs!Step("ref", c)
    BY <2>2
  <2>4. <<x, y>> \in Seq(Steps)
    OBVIOUS
  <2>. QED  BY <2>1, <2>3, <2>4
<1>7. Copies(q, c, m_pointer, Refs!Living, m_is_valid, p, {})
  <2>1. /\ q = Refs!CopyConstruct(c, b)
        /\ Safe(m_pointer, Refs!Living, b, c) /\ Apart(m_pointer, b, c) /\ c # Temporary
        /\ p[c] = p[b] /\ Matches(m_pointer, Refs!Living, p, {c} \cup {}) /\ Tidy(m_pointer, m_is_valid, {c})
    BY <1>2, <1>3, <1>4, <1>5, <1>6
  <2>. QED  BY <1>3, <2>1 DEF Copies
<1>8. Validate(c) \in Seq(Steps)
  <2>1. Refs!Step("validate", c) \in Steps
    BY <1>3, StepIs
  <2>. QED  BY <2>1 DEF Validate
<1>9. Validate(c) \o q \in Seq(Steps)
  BY <1>8, ConcatProperties
<1>10. After(Validate(c) \o q, c, m_pointer, Refs!Living, m_is_valid, p, {})
  BY <1>7 DEF After, Fills
<1>. QED  BY <1>6, <1>9, <1>10

LEMMA TakeAfter ==
    ASSUME Small, NEW ptr \in Pointers, NEW L \in SUBSET Object, NEW valid,
           NEW c \in Cells(L), NEW b \in Cells(L), c # b, c # Temporary,
           Safe(ptr, L, b, c), Apart(ptr, b, c), Tidy(ptr, valid, {c, b}),
           NEW t, Leftover(b, t), NEW p, p[c] = ptr[b], p[b] = NoObject, Matches(ptr, L, p, {c, b})
    PROVE  /\ Refs!MoveConstruct(c, b) \o t \in Seq(Steps) /\ Validate(c) \o (Refs!MoveConstruct(c, b) \o t) \in Seq(Steps)
           /\ After(Validate(c) \o (Refs!MoveConstruct(c, b) \o t), c, ptr, L, valid, p, {})
<1>1. c \in Variable \cup Object /\ b \in Variable \cup Object /\ b \in (Variable \cup L) \ {c}
  BY DEF Cells
<1>2. t \in Seq(Steps)
  <2>1. <<>> \in Seq(Steps)
    OBVIOUS
  <2>2. Refs!Clear(b) \in Seq(Steps) /\ <<Refs!Step("invalidate", b)>> \o Refs!Clear(b) \in Seq(Steps)
    BY <1>1, <2>1, MethodsAre
  <2>. QED  BY <2>1, <2>2 DEF Leftover
<1>3. PICK q \in Seq(Steps) : q = Refs!MoveConstruct(c, b) \o t
  <2>1. Refs!StepFrom("take", c, b) \in Steps
    BY <1>1, StepIs
  <2>2. Refs!MoveConstruct(c, b) \in Seq(Steps)
    BY <2>1 DEF Refs!MoveConstruct
  <2>. QED  BY <1>2, <2>2, ConcatProperties
<1>4. t \in {<<>>, Refs!Clear(b), <<Refs!Step("invalidate", b)>> \o Refs!Clear(b)}
  BY DEF Leftover
<1>5. Matches(ptr, L, p, {c, b} \cup {})
  BY DEF Matches
<1>6. Takes(q, c, ptr, L, valid, p, {})
  BY <1>1, <1>3, <1>4, <1>5 DEF Takes
<1>7. Validate(c) \in Seq(Steps)
  <2>1. Refs!Step("validate", c) \in Steps
    BY <1>1, StepIs
  <2>. QED  BY <2>1 DEF Validate
<1>8. Validate(c) \o q \in Seq(Steps)
  BY <1>7, ConcatProperties
<1>9. After(Validate(c) \o q, c, ptr, L, valid, p, {})
  BY <1>6 DEF After, Fills
<1>. QED  BY <1>3, <1>8, <1>9

LEMMA MoveAfter ==
    ASSUME Small, Idle, NEW c \in Cells(Refs!Living), c # Temporary, NEW b \in Cells(Refs!Living), Refs!Assignable(c, b),
           NEW t, Leftover(b, t), NEW p, Moved(p, m_pointer, c, b)
    PROVE  /\ Refs!MoveConstruct(c, b) \o t \in Seq(Steps) /\ Validate(c) \o (Refs!MoveConstruct(c, b) \o t) \in Seq(Steps)
           /\ After(Validate(c) \o (Refs!MoveConstruct(c, b) \o t), c, m_pointer, Refs!Living, m_is_valid, p, {})
<1>1. m_pointer \in Pointers /\ Refs!Living \in SUBSET Object /\ Tidy(m_pointer, m_is_valid, {})
  BY DEF Idle, Whole, SoundIn
<1>2. c # b /\ Safe(m_pointer, Refs!Living, b, c) /\ Apart(m_pointer, b, c)
  BY AssignableIs
<1>3. c \in Variable \cup Object /\ b \in Variable \cup Object
  BY <1>1 DEF Cells
<1>4. p[c] = m_pointer[b] /\ p[b] = NoObject /\ \A d \in Variable \cup Object : d # c /\ d # b => p[d] = m_pointer[d]
  BY <1>1, <1>2, <1>3 DEF Moved, Pointers
<1>5. Matches(m_pointer, Refs!Living, p, {c, b}) /\ Tidy(m_pointer, m_is_valid, {c, b})
  BY <1>1, <1>4 DEF Matches, Tidy, Cells
<1>. QED  BY <1>1, <1>2, <1>4, <1>5, TakeAfter

\* The call of a method leaves what the outside sees as it is, and has a goal.
Begins == \E p \in Pointers : Goal(p)' /\ Onward(p)

LEMMA GoalIs ==
    ASSUME NEW ptr, NEW L, before' = [pointer |-> ptr, living |-> L, constructed |-> {}],
           NEW c \in Cells(L), NEW p,
           \/ Assigned(p, ptr, c, NoObject)
           \/ \E b \in Cells(L) \ {c} : Assigned(p, ptr, c, ptr[b]) \/ Moved(p, ptr, c, b)
    PROVE  Goal(p)'
<1>1. before'.pointer = ptr /\ before'.living = L /\ before'.constructed = {}
  OBVIOUS
<1>2. c \in Variable \cup before'.living
  BY <1>1 DEF Cells
<1>3. CASE Assigned(p, ptr, c, NoObject)
  BY <1>1, <1>2, <1>3 DEF Goal, Assigned
<1>4. ASSUME NEW b \in Cells(L) \ {c}, Assigned(p, ptr, c, ptr[b]) \/ Moved(p, ptr, c, b) PROVE Goal(p)'
  <2>1. b \in (Variable \cup before'.living) \ {c}
    BY <1>1 DEF Cells
  <2>2. \/ p = [before'.pointer EXCEPT ![c] = before'.pointer[b]]
        \/ p = [before'.pointer EXCEPT ![c] = before'.pointer[b], ![b] = NoObject]
    BY <1>1, <1>4 DEF Assigned, Moved
  <2>. QED  BY <1>1, <1>2, <2>1, <2>2 DEF Goal
<1>. QED  BY <1>3, <1>4

LEMMA InPointers ==
    ASSUME NEW ptr \in Pointers, NEW c \in Variable \cup Object, NEW b \in Variable \cup Object
    PROVE  /\ [ptr EXCEPT ![c] = NoObject] \in Pointers
           /\ [ptr EXCEPT ![c] = ptr[b]] \in Pointers
           /\ [ptr EXCEPT ![c] = ptr[b], ![b] = NoObject] \in Pointers
  BY DEF Pointers

LEMMA PointerIs ==
    ASSUME Small, Idle, NEW c
    PROVE  /\ c \in Refs!Pointer <=> c \in Cells(Refs!Living) /\ c \notin Optionals \cup {Temporary}
           /\ c \in Optionals => c \in Cells(Refs!Living) /\ c # Temporary
  BY DEF Refs!Pointer, Cells, Small, Refs!Living

LEMMA DropBegins ==
    ASSUME Small, Typed, Idle, NEW c, Refs!Drop(c)
    PROVE  Begins
<1>1. PICK p : p = [m_pointer EXCEPT ![c] = NoObject]
  OBVIOUS
<1>2. Assigned(p, m_pointer, c, NoObject)
  BY <1>1 DEF Assigned
<1>3. m_pointer \in Pointers /\ Refs!Living \subseteq Object
  BY DEF Idle, Whole, SoundIn
<1>4. c \in Cells(Refs!Living) /\ c # Temporary
  BY PointerIs DEF Refs!Drop
<1>5. c \in Variable \cup Object /\ p \in Pointers
  BY <1>1, <1>3, <1>4 DEF Cells, Pointers
<1>6. After(<<>>, c, m_pointer, Refs!Living, m_is_valid, p, {})
  BY <1>2, <1>4, EndsAfter
<1>7. <<>> \in Seq(Steps) /\ \A s \in Seq(Steps) : s \o <<>> = s
  BY ConcatEmptySeq
<1>8. Refs!Clear(c) \in Seq(Steps) /\ Refs!OptionalClear(c) \in Seq(Steps)
  <2>1. Refs!Clear(c) \in Seq(Steps) /\ <<Refs!Step("invalidate", c)>> \o Refs!Clear(c) \in Seq(Steps)
    BY <1>5, <1>7, MethodsAre
  <2>. QED  BY <1>7, <2>1 DEF Refs!OptionalClear
<1>9. CASE c \in Refs!Pointer /\ Refs!Call(Refs!Clear(c))
  <2>1. Refs!Call(Refs!Clear(c) \o <<>>)
    BY <1>7, <1>8, <1>9
  <2>2. Onward(p)
    BY <1>4, <1>6, <1>7, <2>1, BeginClear
  <2>3. before' = [pointer |-> m_pointer, living |-> Refs!Living, constructed |-> {}]
    BY <1>9, CallIs
  <2>4. Goal(p)'
    BY <1>2, <1>4, <2>3, GoalIs
  <2>. QED  BY <1>5, <2>2, <2>4 DEF Begins
<1>10. CASE c \in Optionals /\ Refs!Call(Refs!OptionalClear(c))
  <2>1. Refs!Call(Refs!OptionalClear(c) \o <<>>)
    BY <1>7, <1>8, <1>10
  <2>2. Onward(p)
    BY <1>6, <1>7, <1>10, <2>1, BeginOptional
  <2>3. before' = [pointer |-> m_pointer, living |-> Refs!Living, constructed |-> {}]
    BY <1>10, CallIs
  <2>4. Goal(p)'
    BY <1>2, <1>4, <2>3, GoalIs
  <2>. QED  BY <1>5, <2>2, <2>4 DEF Begins
<1>. QED  BY <1>9, <1>10 DEF Refs!Drop

\* A method that clears c, and then fills it or not.
LEMMA FillBegins ==
    ASSUME Small, Typed, Idle, NEW c \in Refs!Pointer \cup Optionals, NEW p \in Pointers, NEW rest \in Seq(Steps),
           After(rest, c, m_pointer, Refs!Living, m_is_valid, p, {}),
           \/ c \in Refs!Pointer /\ Refs!Call(Refs!Clear(c) \o rest)
           \/ c \in Optionals /\ Refs!Call(Refs!OptionalClear(c) \o rest),
           NEW b \in Cells(Refs!Living), b # c, Assigned(p, m_pointer, c, m_pointer[b]) \/ Moved(p, m_pointer, c, b)
    PROVE  Begins
<1>1. c \in Cells(Refs!Living)
  BY PointerIs
<1>2. Onward(p)
  BY <1>1, BeginClear, BeginOptional
<1>3. before' = [pointer |-> m_pointer, living |-> Refs!Living, constructed |-> {}]
  <2>1. PICK method : Refs!Call(method)
    OBVIOUS
  <2>. QED  BY <2>1, CallIs
<1>4. \E e \in Cells(Refs!Living) \ {c} : Assigned(p, m_pointer, c, m_pointer[e]) \/ Moved(p, m_pointer, c, e)
  OBVIOUS
<1>5. Goal(p)'
  BY <1>1, <1>3, <1>4, GoalIs
<1>. QED  BY <1>2, <1>5 DEF Begins

LEMMA CopyConstructIs ==
    ASSUME NEW c \in Variable \cup Object, NEW b \in Variable \cup Object
    PROVE  Refs!CopyConstruct(c, b) \in Seq(Steps) /\ Refs!MoveConstruct(c, b) \in Seq(Steps)
<1>1. PICK x \in Steps, y \in Steps, z \in Steps :
        x = Refs!StepFrom("copy", c, b) /\ y = Refs!Step("ref", c) /\ z = Refs!StepFrom("take", c, b)
  BY StepIs
<1>2. <<x, y>> \in Seq(Steps) /\ <<z>> \in Seq(Steps)
  OBVIOUS
<1>. QED  BY <1>1, <1>2 DEF Refs!CopyConstruct, Refs!MoveConstruct

LEMMA OptionalClearIs ==
    ASSUME NEW c \in Variable \cup Object
    PROVE  Refs!OptionalClear(c) \in Seq(Steps) /\ <<Refs!Step("validate", c)>> \in Seq(Steps)
<1>1. <<>> \in Seq(Steps)
  OBVIOUS
<1>2. <<Refs!Step("invalidate", c)>> \o Refs!Clear(c) \in Seq(Steps)
  BY <1>1, MethodsAre
<1>3. Refs!Step("validate", c) \in Steps
  BY StepIs
<1>. QED  BY <1>1, <1>2, <1>3 DEF Refs!OptionalClear

LEMMA CopyBegins ==
    ASSUME Small, Typed, Idle, NEW c \in Refs!Pointer \cup Optionals, NEW b \in Refs!Pointer \cup Optionals, Refs!Assignable(c, b),
           \/ c \in Refs!Pointer /\ Refs!Call(Refs!CopyAssign(c, b))
           \/ c \in Optionals /\ Refs!Call(Refs!OptionalCopyValue(c, b))
           \/ c \in Optionals /\ m_is_valid[b] /\ Refs!Call(Refs!OptionalCopy(c, b))
    PROVE  Begins
<1>1. c \in Cells(Refs!Living) /\ b \in Cells(Refs!Living) /\ c # Temporary /\ c # b
  BY PointerIs DEF Refs!Assignable, Small
<1>2. m_pointer \in Pointers /\ Refs!Living \subseteq Object
  BY DEF Idle, Whole, SoundIn
<1>3. c \in Variable \cup Object /\ b \in Variable \cup Object
  BY <1>1, <1>2 DEF Cells
<1>4. PICK p \in Pointers : p = [m_pointer EXCEPT ![c] = m_pointer[b]]
  BY <1>2, <1>3, InPointers
<1>5. Assigned(p, m_pointer, c, m_pointer[b])
  BY <1>4 DEF Assigned
<1>6. PICK q : q = Refs!CopyConstruct(c, b)
  OBVIOUS
<1>7. Validate(c) \o q \in Seq(Steps) /\ After(Validate(c) \o q, c, m_pointer, Refs!Living, m_is_valid, p, {})
  BY <1>1, <1>5, <1>6, CopyAfter
<1>8. CASE c \in Refs!Pointer /\ Refs!Call(Refs!CopyAssign(c, b))
  <2>1. Validate(c) \o q = q
    <3>1. c \notin Optionals
      BY <1>8, PointerIs
    <3>2. Validate(c) = <<>>
      BY <3>1 DEF Validate
    <3>3. q \in Seq(Steps)
      BY <1>3, <1>6, CopyConstructIs
    <3>. QED  BY <3>2, <3>3, ConcatEmptySeq
  <2>2. Refs!Call(Refs!Clear(c) \o (Validate(c) \o q))
    BY <1>6, <1>8, <2>1 DEF Refs!CopyAssign
  <2>. QED  BY <1>1, <1>5, <1>7, <1>8, <2>2, FillBegins
<1>9. CASE c \in Optionals /\ (Refs!Call(Refs!OptionalCopyValue(c, b)) \/ (m_is_valid[b] /\ Refs!Call(Refs!OptionalCopy(c, b))))
  <2>1. Validate(c) = <<Refs!Step("validate", c)>>
    BY <1>9 DEF Validate
  <2>2. Refs!OptionalCopyValue(c, b) = Refs!OptionalClear(c) \o (<<Refs!Step("validate", c)>> \o q)
    <3>1. PICK u, v : u = Refs!OptionalClear(c) /\ v = <<Refs!Step("validate", c)>>
      OBVIOUS
    <3>2. u \in Seq(Steps) /\ v \in Seq(Steps) /\ q \in Seq(Steps)
      BY <1>3, <1>6, <3>1, CopyConstructIs, OptionalClearIs
    <3>3. (u \o v) \o q = u \o (v \o q)
      BY <3>2, ConcatAssociative
    <3>. QED  BY <1>6, <3>1, <3>3 DEF Refs!OptionalCopyValue
  <2>3. m_is_valid[b] => Refs!OptionalCopy(c, b) = Refs!OptionalClear(c) \o (<<Refs!Step("validate", c)>> \o q)
    BY <1>6 DEF Refs!OptionalCopy
  <2>4. Refs!Call(Refs!OptionalClear(c) \o (Validate(c) \o q))
    BY <1>9, <2>1, <2>2, <2>3
  <2>. QED  BY <1>1, <1>5, <1>7, <1>9, <2>4, FillBegins
<1>. QED  BY <1>8, <1>9

LEMMA MoveBegins ==
    ASSUME Small, Typed, Idle, NEW c \in Refs!Pointer \cup Optionals, NEW b \in Refs!Pointer \cup Optionals, Refs!Assignable(c, b),
           \/ c \in Refs!Pointer /\ Refs!Call(Refs!MoveAssign(c, b))
           \/ c \in Optionals /\ Refs!Call(Refs!OptionalMoveValue(c, b))
           \/ c \in Optionals /\ b \in Optionals /\ m_is_valid[b] /\ Refs!Call(Refs!OptionalMove(c, b))
    PROVE  Begins
<1>1. c \in Cells(Refs!Living) /\ b \in Cells(Refs!Living) /\ c # Temporary /\ c # b
  BY PointerIs DEF Refs!Assignable, Small
<1>2. m_pointer \in Pointers /\ Refs!Living \subseteq Object
  BY DEF Idle, Whole, SoundIn
<1>3. c \in Variable \cup Object /\ b \in Variable \cup Object
  BY <1>1, <1>2 DEF Cells
<1>4. PICK p \in Pointers : p = [m_pointer EXCEPT ![c] = m_pointer[b], ![b] = NoObject]
  BY <1>2, <1>3, InPointers
<1>5. Moved(p, m_pointer, c, b)
  BY <1>4 DEF Moved
<1>6. ASSUME NEW t, Leftover(b, t), NEW q, q = Refs!MoveConstruct(c, b) \o t
      PROVE  Validate(c) \o q \in Seq(Steps) /\ After(Validate(c) \o q, c, m_pointer, Refs!Living, m_is_valid, p, {})
             /\ q \in Seq(Steps)
  BY <1>1, <1>5, <1>6, MoveAfter
<1>7. Refs!MoveConstruct(c, b) \in Seq(Steps) /\ Refs!OptionalClear(c) \in Seq(Steps) /\ Refs!OptionalClear(b) \in Seq(Steps)
  BY <1>3, CopyConstructIs, OptionalClearIs
<1>8. Leftover(b, <<>>) /\ Refs!MoveConstruct(c, b) = Refs!MoveConstruct(c, b) \o <<>>
  BY <1>7, ConcatEmptySeq DEF Leftover
<1>9. CASE c \in Refs!Pointer /\ Refs!Call(Refs!MoveAssign(c, b))
  <2>0. PICK q : q = Refs!MoveConstruct(c, b)
    OBVIOUS
  <2>1. Validate(c) \o q = q
    <3>1. c \notin Optionals
      BY <1>9, PointerIs
    <3>2. Validate(c) = <<>>
      BY <3>1 DEF Validate
    <3>. QED  BY <1>7, <2>0, <3>2, ConcatEmptySeq
  <2>2. Refs!Call(Refs!Clear(c) \o (Validate(c) \o q))
    BY <1>9, <2>0, <2>1 DEF Refs!MoveAssign
  <2>3. Validate(c) \o q \in Seq(Steps) /\ After(Validate(c) \o q, c, m_pointer, Refs!Living, m_is_valid, p, {})
    BY <1>6, <1>8, <2>0
  <2>. QED  BY <1>1, <1>5, <1>9, <2>2, <2>3, FillBegins
<1>10. CASE c \in Optionals /\ Refs!Call(Refs!OptionalMoveValue(c, b))
  <2>0. PICK q : q = Refs!MoveConstruct(c, b)
    OBVIOUS
  <2>1. Validate(c) = <<Refs!Step("validate", c)>>
    BY <1>10 DEF Validate
  <2>2. Refs!OptionalMoveValue(c, b) = Refs!OptionalClear(c) \o (<<Refs!Step("validate", c)>> \o q)
    <3>1. PICK u, v : u = Refs!OptionalClear(c) /\ v = <<Refs!Step("validate", c)>>
      OBVIOUS
    <3>2. u \in Seq(Steps) /\ v \in Seq(Steps) /\ q \in Seq(Steps)
      BY <1>3, <1>7, <2>0, <3>1, OptionalClearIs
    <3>3. (u \o v) \o q = u \o (v \o q)
      BY <3>2, ConcatAssociative
    <3>. QED  BY <2>0, <3>1, <3>3 DEF Refs!OptionalMoveValue, Refs!MoveConstruct
  <2>3. Refs!Call(Refs!OptionalClear(c) \o (Validate(c) \o q))
    BY <1>10, <2>1, <2>2
  <2>4. Validate(c) \o q \in Seq(Steps) /\ After(Validate(c) \o q, c, m_pointer, Refs!Living, m_is_valid, p, {})
    BY <1>6, <1>8, <2>0
  <2>. QED  BY <1>1, <1>5, <1>10, <2>3, <2>4, FillBegins
<1>11. CASE c \in Optionals /\ b \in Optionals /\ m_is_valid[b] /\ Refs!Call(Refs!OptionalMove(c, b))
  <2>0. PICK t : t = Refs!OptionalClear(b)
    OBVIOUS
  <2>1. PICK q : q = Refs!MoveConstruct(c, b) \o t
    OBVIOUS
  <2>2. Leftover(b, t)
    BY <1>11, <2>0 DEF Leftover, Refs!OptionalClear
  <2>3. Validate(c) = <<Refs!Step("validate", c)>>
    BY <1>11 DEF Validate
  <2>4. Refs!OptionalMove(c, b) = Refs!OptionalClear(c) \o (<<Refs!Step("validate", c)>> \o q)
    <3>1. PICK u, v, w : u = Refs!OptionalClear(c) /\ v = <<Refs!Step("validate", c)>> /\ w = Refs!MoveConstruct(c, b)
      OBVIOUS
    <3>2. v \in Seq(Steps) /\ w \in Seq(Steps) /\ t \in Seq(Steps)
      BY <1>3, <1>7, <2>0, <3>1, OptionalClearIs
    <3>3. (v \o w) \o t = v \o (w \o t)
      BY <3>2, ConcatAssociative
    <3>4. Refs!OptionalMove(c, b) = u \o ((v \o w) \o t)
      BY <1>11, <2>0, <3>1 DEF Refs!OptionalMove
    <3>. QED  BY <2>1, <3>1, <3>3, <3>4
  <2>5. Refs!Call(Refs!OptionalClear(c) \o (Validate(c) \o q))
    BY <1>11, <2>3, <2>4
  <2>6. Validate(c) \o q \in Seq(Steps) /\ After(Validate(c) \o q, c, m_pointer, Refs!Living, m_is_valid, p, {})
    BY <1>6, <2>1, <2>2
  <2>. QED  BY <1>1, <1>5, <1>11, <2>5, <2>6, FillBegins
<1>. QED  BY <1>9, <1>10, <1>11

\* An Optional without a value is assigned.
LEMMA NothingBegins ==
    ASSUME Small, Typed, Idle, NEW c \in Optionals, NEW b \in Optionals, ~ m_is_valid[b],
           Refs!Call(Refs!OptionalCopy(c, b)) \/ Refs!Call(Refs!OptionalMove(c, b))
    PROVE  Begins
<1>1. c \in Cells(Refs!Living) /\ b \in Cells(Refs!Living) /\ c # Temporary
  BY PointerIs DEF Small
<1>2. m_pointer \in Pointers /\ Refs!Living \subseteq Object
  BY DEF Idle, Whole, SoundIn
<1>3. c \in Variable \cup Object
  BY <1>1, <1>2 DEF Cells
<1>4. PICK p \in Pointers : p = [m_pointer EXCEPT ![c] = NoObject]
  BY <1>2, <1>3, InPointers
<1>5. Assigned(p, m_pointer, c, NoObject)
  BY <1>4 DEF Assigned
<1>6. After(<<>>, c, m_pointer, Refs!Living, m_is_valid, p, {}) /\ <<>> \in Seq(Steps)
  BY <1>1, <1>5, EndsAfter
<1>7. Refs!Call(Refs!OptionalClear(c) \o <<>>)
  BY DEF Refs!OptionalCopy, Refs!OptionalMove
<1>8. Onward(p)
  BY <1>6, <1>7, BeginOptional
<1>9. before' = [pointer |-> m_pointer, living |-> Refs!Living, constructed |-> {}]
  BY <1>7, CallIs
<1>10. Goal(p)'
  BY <1>1, <1>5, <1>9, GoalIs
<1>. QED  BY <1>8, <1>10 DEF Begins

Associates(s, t, u) == (s \o t) \o u = s \o (t \o u)

LEMMA StepsAssociate ==
    ASSUME NEW s \in Seq(Steps), NEW t \in Seq(Steps), NEW u \in Seq(Steps)
    PROVE  Associates(s, t, u)
  BY ConcatAssociative DEF Associates

LEMMA MustBegins ==
    ASSUME Small, Typed, Idle, NEW c \in Refs!Pointer, NEW b \in Optionals, Refs!Assignable(c, b), m_is_valid[b],
           Refs!Call(Refs!MustMove(c, b))
    PROVE  Begins
<1>1. /\ c \in Cells(Refs!Living) \ (Optionals \cup {Temporary})
      /\ c \in Cells(Refs!Living) /\ b \in Cells(Refs!Living) /\ c # b
  BY PointerIs DEF Refs!Assignable, Small
<1>2. m_pointer \in Pointers /\ Refs!Living \subseteq Object
  BY DEF Idle, Whole, SoundIn
<1>3. c \in Variable \cup Object /\ b \in Variable \cup Object /\ Temporary \in Variable \cup Object
  BY <1>1, <1>2 DEF Cells, Small
<1>4. PICK p \in Pointers : p = [m_pointer EXCEPT ![c] = m_pointer[b], ![b] = NoObject]
  BY <1>2, <1>3, InPointers
<1>5. Moved(p, m_pointer, c, b)
  BY <1>4 DEF Moved
<1>6. /\ todo' = Refs!MustMove(c, b) /\ m_pointer' = m_pointer /\ m_is_valid' = m_is_valid
      /\ Refs!Living' = Refs!Living /\ Typed' /\ Whole' /\ Tidy(m_pointer, m_is_valid, {})
      /\ before' = [pointer |-> m_pointer, living |-> Refs!Living, constructed |-> {}]
  BY CallIs
<1>7. Refs!MustMove(c, b) = Then(Refs!StepFrom("take", Temporary, b), Then(Refs!Step("invalidate", b), Refs!Clear(b) \o MustOf(c)))
  <2>1. PICK v, w : v = Refs!StepFrom("take", Temporary, b) /\ w = Refs!Step("invalidate", b)
    OBVIOUS
  <2>2. v \in Steps /\ w \in Steps
    BY <1>3, <2>1, StepIs
  <2>3. PICK A, B, C, E, F : A = <<v>> /\ B = <<w>> /\ C = Refs!Clear(b) /\ E = Refs!MoveAssign(c, Temporary) /\ F = Refs!Clear(Temporary)
    OBVIOUS
  <2>4. A \in Seq(Steps) /\ B \in Seq(Steps)
    BY <2>2, <2>3
  <2>5. C \in Seq(Steps) /\ F \in Seq(Steps) /\ Refs!Clear(c) \in Seq(Steps)
    <3>1. <<>> \in Seq(Steps)
      OBVIOUS
    <3>. QED  BY <1>3, <2>3, <3>1, MethodsAre
  <2>6. E = Refs!Clear(c) \o Refs!MoveConstruct(c, Temporary)
    BY <2>3 DEF Refs!MoveAssign
  <2>7. E \in Seq(Steps)
    <3>1. Refs!MoveConstruct(c, Temporary) \in Seq(Steps)
      BY <1>3, CopyConstructIs
    <3>. QED  BY <2>5, <2>6, <3>1, ConcatProperties
  <2>8. Refs!MustMove(c, b) = ((A \o (B \o C)) \o E) \o F
    BY <2>1, <2>3 DEF Refs!MustMove, Refs!OptionalClear, Refs!MoveConstruct
  <2>9. MustOf(c) = E \o F
    BY <2>3, <2>6 DEF MustOf
  <2>10. ((A \o (B \o C)) \o E) \o F = A \o (B \o (C \o (E \o F)))
    <3>1. PICK X \in Seq(Steps), Y \in Seq(Steps) : X = B \o C /\ Y = E \o F
      BY <2>4, <2>5, <2>7, ConcatProperties
    <3>2. PICK Z \in Seq(Steps) : Z = A \o X
      BY <2>4, <3>1, ConcatProperties
    <3>3. (Z \o E) \o F = Z \o (E \o F)
      <4>1. Z \in Seq(Steps) /\ E \in Seq(Steps) /\ F \in Seq(Steps)
        BY <2>5, <2>7
      <4>2. Associates(Z, E, F)
        BY <4>1, StepsAssociate
      <4>. QED  BY <4>2 DEF Associates
    <3>4. (A \o X) \o Y = A \o (X \o Y)
      <4>1. A \in Seq(Steps) /\ X \in Seq(Steps) /\ Y \in Seq(Steps)
        BY <2>4
      <4>2. Associates(A, X, Y)
        BY <4>1, StepsAssociate
      <4>. QED  BY <4>2 DEF Associates
    <3>5. (B \o C) \o Y = B \o (C \o Y)
      <4>1. B \in Seq(Steps) /\ C \in Seq(Steps) /\ Y \in Seq(Steps)
        BY <2>4, <2>5
      <4>2. Associates(B, C, Y)
        BY <4>1, StepsAssociate
      <4>. QED  BY <4>2 DEF Associates
    <3>. QED  BY <3>1, <3>2, <3>3, <3>4, <3>5
  <2>. QED  BY <2>1, <2>3, <2>8, <2>9, <2>10 DEF Then
<1>8. Apart(m_pointer, b, c)
  BY <1>1, AssignableIs
<1>9. p[c] = m_pointer[b] /\ p[b] = NoObject /\ \A d \in Variable \cup Object : d # c /\ d # b => p[d] = m_pointer[d]
  BY <1>1, <1>2, <1>3, <1>4 DEF Pointers
<1>10. Matches(m_pointer, Refs!Living, p, {c, b})
  BY <1>2, <1>9 DEF Matches, Cells
<1>11. Musting(p)'
  BY <1>1, <1>6, <1>7, <1>8, <1>9, <1>10 DEF Musting
<1>12. todo' # <<>>
  <2>1. PICK v \in Steps, w \in Steps : v = Refs!StepFrom("take", Temporary, b) /\ w = Refs!Step("invalidate", b)
    BY <1>3, StepIs
  <2>2. MustOf(c) \in Seq(Steps)
    BY <1>3, MustOfIs
  <2>3. Refs!Clear(b) \o MustOf(c) \in Seq(Steps)
    BY <1>3, <2>2, MethodsAre
  <2>4. Then(w, Refs!Clear(b) \o MustOf(c)) \in Seq(Steps)
    BY <2>3, ThenIs
  <2>. QED  BY <1>6, <1>7, <2>1, <2>4, ThenIs
<1>13. Onward(p)
  BY <1>6, <1>11, <1>12 DEF Onward, Busy
<1>14. \E e \in Cells(Refs!Living) \ {c} : Assigned(p, m_pointer, c, m_pointer[e]) \/ Moved(p, m_pointer, c, e)
  BY <1>1, <1>5
<1>15. Goal(p)'
  BY <1>1, <1>6, <1>14, GoalIs
<1>. QED  BY <1>13, <1>15 DEF Begins

LEMMA AssignBegins ==
    ASSUME Small, Typed, Idle, NEW c \in Refs!Pointer \cup Optionals, NEW b \in Refs!Pointer \cup Optionals, Refs!Assign(c, b)
    PROVE  Begins
<1>1. Refs!Assignable(c, b)
  BY DEF Refs!Assign
<1>2. CASE \/ c \in Refs!Pointer /\ Refs!Call(Refs!CopyAssign(c, b))
           \/ c \in Optionals /\ Refs!Call(Refs!OptionalCopyValue(c, b))
           \/ c \in Optionals /\ m_is_valid[b] /\ Refs!Call(Refs!OptionalCopy(c, b))
  BY <1>1, <1>2, CopyBegins
<1>3. CASE \/ c \in Refs!Pointer /\ Refs!Call(Refs!MoveAssign(c, b))
           \/ c \in Optionals /\ Refs!Call(Refs!OptionalMoveValue(c, b))
           \/ c \in Optionals /\ b \in Optionals /\ m_is_valid[b] /\ Refs!Call(Refs!OptionalMove(c, b))
  BY <1>1, <1>3, MoveBegins
<1>4. CASE c \in Optionals /\ b \in Optionals /\ ~ m_is_valid[b] /\ (Refs!Call(Refs!OptionalCopy(c, b)) \/ Refs!Call(Refs!OptionalMove(c, b)))
  BY <1>4, NothingBegins
<1>5. CASE c \in Refs!Pointer /\ b \in Optionals /\ m_is_valid[b] /\ Refs!Call(Refs!MustMove(c, b))
  BY <1>1, <1>5, MustBegins
<1>. QED  BY <1>2, <1>3, <1>4, <1>5 DEF Refs!Assign

LEMMA ConstructBegins ==
    ASSUME Small, Typed, Idle, NEW c \in Refs!Pointer, NEW o \in Object, Refs!Construct(c, o)
    PROVE  Begins
<1>1. /\ life[o] = "unused" /\ life' = [life EXCEPT ![o] = "live"]
      /\ m_refcount' = [m_refcount EXCEPT ![o] = 1]
      /\ m_pointer' = [m_pointer EXCEPT ![Temporary] = o]
      /\ todo' = Refs!MoveAssign(c, Temporary) \o Refs!Clear(Temporary)
      /\ before' = [pointer |-> m_pointer, living |-> Refs!Living, constructed |-> {o}]
      /\ UNCHANGED m_is_valid
  BY DEF Refs!Construct
<1>2. SoundIn(m_pointer, m_refcount, Refs!Living, {}, {}) /\ Tidy(m_pointer, m_is_valid, {})
  BY DEF Idle, Whole
<1>3. m_pointer \in Pointers /\ Refs!Living \in SUBSET Object
  BY <1>2 DEF SoundIn
<1>4. PICK k \in Variable : k = Temporary /\ k \notin Object
  BY DEF Small
<1>5. c \in Cells(Refs!Living) /\ c \notin Optionals /\ c # k /\ c \in Variable \cup Object
  <2>1. c \in Cells(Refs!Living) /\ c \notin Optionals \cup {Temporary}
    BY PointerIs
  <2>. QED  BY <1>3, <1>4, <2>1 DEF Cells
<1>6. PICK p \in Pointers : p = [m_pointer EXCEPT ![c] = o]
  BY <1>3, <1>5 DEF Pointers
<1>7. o \notin Refs!Living /\ Refs!Living' = Refs!Living \cup {o} /\ Typed'
  BY <1>1 DEF Refs!Living, Typed
<1>8. PICK L \in SUBSET Object : L = Refs!Living \cup {o}
  BY <1>3
<1>9. PICK n : n = [m_pointer EXCEPT ![k] = o]
  OBVIOUS
<1>10. n \in Pointers /\ n[k] = o /\ \A d \in Variable \cup Object : d # k => n[d] = m_pointer[d]
  BY <1>3, <1>4, <1>9 DEF Pointers
<1>11. SoundIn(n, m_refcount', L, {}, {})
  <2>1. o \in Object \ Refs!Living /\ m_pointer[Temporary] = NoObject
    BY <1>2, <1>7 DEF Tidy
  <2>2. SoundIn([m_pointer EXCEPT ![Temporary] = o], [m_refcount EXCEPT ![o] = 1], Refs!Living \cup {o}, {}, {})
    BY <1>2, <2>1, NewIs
  <2>. QED  BY <1>1, <1>4, <1>8, <1>9, <2>2
<1>12. Whole'
  BY <1>1, <1>4, <1>7, <1>8, <1>9, <1>11 DEF Whole
<1>13. p[c] = o /\ p[k] = NoObject /\ \A d \in Variable \cup Object : d # c => p[d] = m_pointer[d]
  <2>1. m_pointer[k] = NoObject
    BY <1>2, <1>4 DEF Tidy
  <2>. QED  BY <1>3, <1>4, <1>5, <1>6, <2>1 DEF Pointers
<1>14. c \in Cells(L) /\ k \in Cells(L) /\ c # o
  BY <1>4, <1>5, <1>7, <1>8 DEF Cells, Small
<1>15. Apart(n, k, c)
  <2>1. n[o] = NoObject
    <3>1. o # k /\ o \in Object \ Refs!Living
      BY <1>4, <1>7
    <3>2. m_pointer[o] = NoObject
      BY <1>2, <3>1 DEF SoundIn
    <3>. QED  BY <1>10, <3>1, <3>2
  <2>2. {o} \in SUBSET Object /\ c \notin {o} /\ n[k] \in {o} \cup {NoObject} /\ \A v \in {o} : n[v] \in {o} \cup {NoObject}
    BY <1>10, <1>14, <2>1
  <2>. QED  BY <2>2 DEF Apart
<1>16. Safe(n, L, k, c)
  BY <1>4 DEF Safe
<1>17. Matches(n, L, p, {c, k})
  BY <1>10, <1>13 DEF Matches, Cells
<1>18. Tidy(n, m_is_valid, {c, k})
  <2>. SUFFICES ASSUME NEW d \in (Optionals \cup {Temporary}) \ {c, k}, d = Temporary \/ ~ m_is_valid[d] PROVE n[d] = NoObject
    BY DEF Tidy
  <2>1. d \in Variable \cup Object
    BY DEF Small
  <2>. QED  BY <1>2, <1>10, <2>1 DEF Tidy
<1>19. PICK t : t = Refs!Clear(k)
  OBVIOUS
<1>20. PICK q : q = Refs!MoveConstruct(c, k) \o t
  OBVIOUS
<1>21. q \in Seq(Steps) /\ Validate(c) \o q \in Seq(Steps)
      /\ After(Validate(c) \o q, c, n, L, m_is_valid, p, {})
  <2>1. Leftover(k, t)
    BY <1>19 DEF Leftover
  <2>2. p[c] = n[k] /\ p[k] = NoObject
    BY <1>10, <1>13
  <2>. QED  BY <1>4, <1>5, <1>10, <1>14, <1>15, <1>16, <1>17, <1>18, <1>20, <2>1, <2>2, TakeAfter
<1>22. Validate(c) \o q = q
  <2>1. Validate(c) = <<>>
    BY <1>5 DEF Validate
  <2>. QED  BY <1>21, <2>1, ConcatEmptySeq
<1>23. todo' = Refs!Clear(c) \o q
  <2>1. PICK u, v : u = Refs!Clear(c) /\ v = Refs!MoveConstruct(c, k)
    OBVIOUS
  <2>2. u \in Seq(Steps) /\ t \in Seq(Steps)
    <3>1. <<>> \in Seq(Steps)
      OBVIOUS
    <3>. QED  BY <1>4, <1>5, <1>19, <2>1, <3>1, MethodsAre
  <2>3. v \in Seq(Steps)
    BY <1>4, <1>5, <2>1, CopyConstructIs
  <2>4. (u \o v) \o t = u \o (v \o t)
    BY <2>2, <2>3, ConcatAssociative
  <2>. QED  BY <1>1, <1>4, <1>19, <1>20, <2>1, <2>4 DEF Refs!MoveAssign
<1>24. After(q, c, m_pointer', Refs!Living', m_is_valid', p, {})
  BY <1>1, <1>4, <1>7, <1>8, <1>9, <1>21, <1>22
<1>25. c \in Cells(Refs!Living')
  BY <1>7, <1>8, <1>14
<1>26. todo' # <<>> /\ Busy(p)'
  BY <1>5, <1>12, <1>21, <1>23, <1>24, <1>25, ClearStarts
<1>27. Onward(p)
  BY <1>7, <1>26 DEF Onward
<1>28. Goal(p)'
  <2>1. before'.constructed = {o} /\ before'.pointer = m_pointer /\ c \in Variable \cup before'.living
    BY <1>1, <1>5 DEF Cells
  <2>2. life'[o] # "unused"
    BY <1>1 DEF Typed
  <2>. QED  BY <1>6, <2>1, <2>2 DEF Goal
<1>. QED  BY <1>27, <1>28 DEF Begins

-----------------------------------------------------------------------------
(* A pointer is a handle *)

\* What the methods do not do to the history and to the objects that do not exist yet.
LEMMA WorkLeaves ==
    ASSUME Small, Typed, Refs!Work
    PROVE  before' = before /\ \A o \in Object : life'[o] = "unused" <=> life[o] = "unused"
<1>1. PICK s : s = Head(todo)
  OBVIOUS
<1>2. s.cell \in Variable \cup Refs!Living
  BY <1>1 DEF Refs!Work, Refs!Touches
<1>3. CASE life' = life /\ before' = before
  BY <1>3
<1>4. CASE Refs!Free(s.cell)
  <2>1. PICK c : c = s.cell
    OBVIOUS
  <2>2. before' = before /\ life' = [life EXCEPT ![c] = "deleted"]
    BY <1>4, <2>1 DEF Refs!Free
  <2>3. \A o \in Object : life'[o] = IF o = c THEN "deleted" ELSE life[o]
    BY <2>2 DEF Typed
  <2>4. c \in Object => life[c] = "live"
    BY <1>2, <2>1 DEF Refs!Living, Small
  <2>. QED  BY <2>2, <2>3, <2>4
<1>5. \/ s.do = "release" /\ Refs!Release(s.cell)
      \/ s.do = "ref" /\ Refs!Ref(s.cell)
      \/ s.do \in {"reset", "copy", "take"} /\ Refs!Store(s)
      \/ s.do = "validate" /\ Refs!Mark(s.cell, TRUE)
      \/ s.do = "invalidate" /\ Refs!Mark(s.cell, FALSE)
      \/ s.do = "free" /\ Refs!Free(s.cell)
  BY <1>1 DEF Refs!Work
<1>6. (\E c : Refs!Release(c) \/ Refs!Ref(c)) => life' = life /\ before' = before
  BY DEF Refs!Release, Refs!Ref
<1>7. (\E t : Refs!Store(t)) => life' = life /\ before' = before
  BY DEF Refs!Store
<1>8. (\E c, v : Refs!Mark(c, v)) => life' = life /\ before' = before
  BY DEF Refs!Mark
<1>. QED  BY <1>3, <1>4, <1>5, <1>6, <1>7, <1>8

LEMMA GoalStays ==
    ASSUME Small, Typed, Refs!Work, NEW p, Goal(p)
    PROVE  Goal(p)'
<1>1. before' = before /\ \A o \in Object : life'[o] = "unused" <=> life[o] = "unused"
  BY WorkLeaves
<1>. QED  BY <1>1 DEF Goal

\* When nothing is half done, the living objects are the ones that are reached.
LEMMA LivingIsReached ==
    ASSUME Small, NEW ptr, NEW cnt, NEW L, SoundIn(ptr, cnt, L, {}, {}), NEW p \in Pointers, Matches(ptr, L, p, {})
    PROVE  /\ Refs!H!Reach(p, Variable, NoObject) = L
           /\ ptr = [c \in Variable \cup Object |-> IF c \in Variable \cup L THEN p[c] ELSE NoObject]
<1>1. ptr \in Pointers /\ L \in SUBSET Object /\ Sourced(ptr)
  BY DEF SoundIn
<1>2. \A c \in Variable \cup L : ptr[c] = p[c] /\ ptr[c] \in L \cup {NoObject}
  BY DEF Matches, SoundIn, Cells
<1>3. PICK R : R = Refs!H!Reach(p, Variable, NoObject)
  OBVIOUS
<1>4. IsReach(R, p, Variable, NoObject)
  <2>1. IsFiniteSet(Object) /\ NoObject \notin Object /\ Variable \in SUBSET (Variable \cup Object)
    BY DEF Small
  <2>. QED  BY <1>3, <2>1, ReachIs
<1>5. R \subseteq L
  <2>1. \A c \in (Variable \cup L) \ {NoObject} : p[c] \in L \cup {NoObject}
    BY <1>2
  <2>. QED  BY <1>4, <2>1 DEF IsReach
<1>6. L \subseteq R
  <2>1. SUFFICES ASSUME L \ R # {} PROVE FALSE
    OBVIOUS
  <2>2. L \ R \in SUBSET Object
    BY <1>1
  <2>3. PICK o \in L \ R : \A c \in L \ R : ptr[c] # o
    BY <1>1, <2>1, <2>2 DEF Sourced
  <2>4. HoldersOf(ptr, L, o, {}) # {}
    BY <2>3 DEF SoundIn
  <2>5. PICK c \in Variable \cup L : ptr[c] = o
    BY <2>4 DEF HoldersOf, Cells
  <2>6. c \in (Variable \cup R) \ {NoObject}
    BY <1>1, <2>3, <2>5 DEF Small
  <2>7. o # NoObject
    BY <1>1, <2>3 DEF Small
  <2>. QED  BY <1>2, <1>4, <2>3, <2>5, <2>6, <2>7 DEF IsReach
<1>7. R = L
  BY <1>5, <1>6
<1>8. ptr = [c \in Variable \cup Object |-> ptr[c]]
  BY <1>1 DEF Pointers
<1>9. \A c \in Variable \cup Object : ptr[c] = IF c \in Variable \cup L THEN p[c] ELSE NoObject
  BY <1>2 DEF SoundIn
<1>. QED  BY <1>3, <1>7, <1>8, <1>9

\* The last step of a method is the assignment.
LEMMA EndIsAssignment ==
    ASSUME Small, Typed, Refs!Work, NEW p \in Pointers, Goal(p), todo # <<>>,
           Idle', Matches(m_pointer', Refs!Living', p, {})
    PROVE  Refs!H!Next
<1>1. todo' = <<>> /\ SoundIn(m_pointer', m_refcount', Refs!Living', {}, {})
  BY DEF Idle, Whole
<1>2. Refs!H!Reach(p, Variable, NoObject) = Refs!Living'
      /\ m_pointer' = [c \in Variable \cup Object |-> IF c \in Variable \cup Refs!Living' THEN p[c] ELSE NoObject]
  BY <1>1, LivingIsReached
<1>3. Refs!Settled = before /\ Refs!Settled'.pointer = m_pointer' /\ Refs!Settled'.living = Refs!Living'
  BY <1>1 DEF Refs!Settled
<1>4. DOMAIN p = Variable \cup Object
  BY DEF Pointers
<1>5. Refs!H!Becomes(p)
  BY <1>2, <1>3, <1>4 DEF Refs!H!Becomes
<1>6. before' = before /\ \A o \in Object : life'[o] = "unused" <=> life[o] = "unused"
  BY WorkLeaves
<1>7. PICK u, v : u = {o \in Object : life[o] # "unused" /\ (todo = <<>> \/ o \notin before.constructed)}
                  /\ v = {o \in Object : life'[o] # "unused" /\ (todo' = <<>> \/ o \notin before'.constructed)}
  OBVIOUS
<1>8. u = {o \in Object : life[o] # "unused" /\ o \notin before.constructed} /\ v = {o \in Object : life[o] # "unused"}
  BY <1>1, <1>6, <1>7
<1>9. PICK c \in Variable \cup before.living :
       \/ \E o \in Object : before.constructed = {o} /\ life[o] # "unused" /\ p = [before.pointer EXCEPT ![c] = o]
       \/ /\ before.constructed = {}
          /\ \/ p = [before.pointer EXCEPT ![c] = NoObject]
             \/ \E b \in (Variable \cup before.living) \ {c} :
                   \/ p = [before.pointer EXCEPT ![c] = before.pointer[b]]
                   \/ p = [before.pointer EXCEPT ![c] = before.pointer[b], ![b] = NoObject]
  BY DEF Goal
<1>10. c \in Refs!H!Cell
  BY <1>3, <1>9 DEF Refs!H!Cell
<1>11. ASSUME NEW o \in Object, before.constructed = {o}, life[o] # "unused", p = [before.pointer EXCEPT ![c] = o]
       PROVE  Refs!H!Next
  <2>1. o \notin u /\ v = u \cup {o}
    BY <1>8, <1>11
  <2>2. Refs!H!Construct(c, o)
    BY <1>3, <1>5, <1>7, <1>11, <2>1 DEF Refs!H!Construct
  <2>. QED  BY <1>10, <2>2 DEF Refs!H!Next
<1>12. CASE before.constructed = {}
  <2>1. v = u
    BY <1>8, <1>12
  <2>2. CASE p = [before.pointer EXCEPT ![c] = NoObject]
    <3>1. Refs!H!Clear(c)
      BY <1>3, <1>5, <1>7, <2>1, <2>2 DEF Refs!H!Clear
    <3>. QED  BY <1>10, <3>1 DEF Refs!H!Next
  <2>3. ASSUME NEW b \in (Variable \cup before.living) \ {c},
               \/ p = [before.pointer EXCEPT ![c] = before.pointer[b]]
               \/ p = [before.pointer EXCEPT ![c] = before.pointer[b], ![b] = NoObject]
        PROVE  Refs!H!Next
    <3>1. b \in Refs!H!Cell \ {c}
      BY <1>3 DEF Refs!H!Cell
    <3>2. Refs!H!Copy(c, b) \/ Refs!H!Move(c, b)
      BY <1>3, <1>5, <1>7, <2>1, <2>3 DEF Refs!H!Copy, Refs!H!Move
    <3>. QED  BY <1>10, <3>1, <3>2 DEF Refs!H!Next
  <2>. QED  BY <1>9, <1>12, <2>2, <2>3
<1>. QED  BY <1>9, <1>11, <1>12

\* From outside, nothing changes where a method goes on.
LEMMA OnIsNothing ==
    ASSUME Small, Typed, Refs!Work, todo # <<>>, todo' # <<>>
    PROVE  UNCHANGED Refs!H!vars
<1>1. before' = before /\ \A o \in Object : life'[o] = "unused" <=> life[o] = "unused"
  BY WorkLeaves
<1>2. Refs!Settled' = Refs!Settled
  BY <1>1 DEF Refs!Settled
<1>3. {o \in Object : life'[o] # "unused" /\ (todo' = <<>> \/ o \notin before'.constructed)}
      = {o \in Object : life[o] # "unused" /\ (todo = <<>> \/ o \notin before.constructed)}
  BY <1>1
<1>. QED  BY <1>2, <1>3 DEF Refs!H!vars

\* Nor where one begins.
LEMMA BeginIsNothing ==
    ASSUME Small, Typed, Idle,
           \/ \E method : Refs!Call(method)
           \/ \E c \in Refs!Pointer, o \in Object : Refs!Construct(c, o)
    PROVE  UNCHANGED Refs!H!vars
<1>1. CASE \E method : Refs!Call(method)
  <2>1. PICK method : Refs!Call(method)
    BY <1>1
  <2>2. /\ todo = <<>> /\ UNCHANGED <<m_pointer, life>>
        /\ before' = [pointer |-> m_pointer, living |-> Refs!Living, constructed |-> {}]
    BY <2>1 DEF Refs!Call
  <2>3. Refs!Living' = Refs!Living
    BY <2>2 DEF Refs!Living
  <2>4. Refs!Settled = [pointer |-> m_pointer, living |-> Refs!Living]
    BY <2>2 DEF Refs!Settled
  <2>5. Refs!Settled'.pointer = m_pointer /\ Refs!Settled'.living = Refs!Living
    BY <2>2, <2>3 DEF Refs!Settled
  <2>6. {o \in Object : life'[o] # "unused" /\ (todo' = <<>> \/ o \notin before'.constructed)}
        = {o \in Object : life[o] # "unused" /\ (todo = <<>> \/ o \notin before.constructed)}
    BY <2>2
  <2>. QED  BY <2>4, <2>5, <2>6 DEF Refs!H!vars
<1>2. ASSUME NEW c \in Refs!Pointer, NEW o \in Object, Refs!Construct(c, o)
      PROVE  UNCHANGED Refs!H!vars
  <2>1. /\ todo = <<>> /\ life[o] = "unused" /\ life' = [life EXCEPT ![o] = "live"]
        /\ todo' = Refs!MoveAssign(c, Temporary) \o Refs!Clear(Temporary)
        /\ before' = [pointer |-> m_pointer, living |-> Refs!Living, constructed |-> {o}]
    BY <1>2 DEF Refs!Construct
  <2>2. todo' # <<>>
    <3>1. m_pointer \in Pointers /\ Refs!Living \subseteq Object
      BY DEF Idle, Whole, SoundIn
    <3>2. c \in Variable \cup Object /\ Temporary \in Variable \cup Object
      BY <3>1 DEF Refs!Pointer, Small
    <3>3. PICK u \in Seq(Steps), v \in Seq(Steps), w \in Seq(Steps) :
            u = Refs!Clear(c) /\ v = Refs!MoveConstruct(c, Temporary) /\ w = Refs!Clear(Temporary)
      <4>1. <<>> \in Seq(Steps)
        OBVIOUS
      <4>2. Refs!Clear(c) \in Seq(Steps) /\ Refs!Clear(Temporary) \in Seq(Steps)
        BY <3>2, <4>1, MethodsAre
      <4>3. Refs!MoveConstruct(c, Temporary) \in Seq(Steps)
        BY <3>2, CopyConstructIs
      <4>. QED  BY <4>2, <4>3
    <3>4. Len(u) = 2
      BY <3>3 DEF Refs!Clear
    <3>5. u \o v \in Seq(Steps) /\ Len(u \o v) = Len(u) + Len(v)
      BY ConcatProperties
    <3>6. Len((u \o v) \o w) = Len(u \o v) + Len(w)
      BY <3>5, ConcatProperties
    <3>7. Len(v) \in Nat /\ Len(w) \in Nat
      OBVIOUS
    <3>8. Len(todo') # 0
      BY <2>1, <3>3, <3>4, <3>5, <3>6, <3>7 DEF Refs!MoveAssign
    <3>9. Len(<<>>) = 0
      OBVIOUS
    <3>. QED  BY <3>8, <3>9, Zenon
  <2>3. Refs!Settled = [pointer |-> m_pointer, living |-> Refs!Living]
    BY <2>1 DEF Refs!Settled
  <2>4. Refs!Settled'.pointer = m_pointer /\ Refs!Settled'.living = Refs!Living
    BY <2>1, <2>2 DEF Refs!Settled
  <2>5. {z \in Object : life'[z] # "unused" /\ (todo' = <<>> \/ z \notin before'.constructed)}
        = {z \in Object : life[z] # "unused" /\ (todo = <<>> \/ z \notin before.constructed)}
    <3>1. \A z \in Object : life'[z] = IF z = o THEN "live" ELSE life[z]
      BY <2>1 DEF Typed
    <3>. QED  BY <2>1, <2>2, <3>1
  <2>. QED  BY <2>3, <2>4, <2>5 DEF Refs!H!vars
<1>. QED  BY <1>1, <1>2

LEMMA OwnInit ==
    ASSUME Small, Refs!Init
    PROVE  OwnInv /\ Refs!H!Init
<1>1. /\ m_pointer = [c \in Variable \cup Object |-> NoObject] /\ m_is_valid = [c \in Optionals |-> FALSE]
      /\ m_refcount = [o \in Object |-> 0] /\ life = [o \in Object |-> "unused"] /\ todo = <<>>
  BY DEF Refs!Init
<1>2. Refs!Living = {} /\ Typed
  BY <1>1 DEF Refs!Living, Typed
<1>3. m_pointer \in Pointers /\ m_refcount \in [Object -> Nat]
  BY <1>1 DEF Pointers
<1>4. Sourced(m_pointer)
  <2>1. \A o \in Object : m_pointer[o] = NoObject
    BY <1>1
  <2>. QED  BY <2>1 DEF Sourced, Small
<1>5. Whole
  <2>1. \A c \in Cells({}) \ {} : m_pointer[c] \in {} \cup {NoObject}
    BY <1>1 DEF Cells
  <2>2. \A o \in Object \ {} : m_pointer[o] = NoObject
    BY <1>1
  <2>3. SoundIn(m_pointer, m_refcount, {}, {}, {})
    BY <1>3, <1>4, <2>1, <2>2 DEF SoundIn
  <2>. QED  BY <1>2, <2>3 DEF Whole
<1>6. Tidy(m_pointer, m_is_valid, {})
  BY <1>1 DEF Tidy, Small
<1>7. OwnInv
  BY <1>1, <1>2, <1>5, <1>6 DEF OwnInv, Idle
<1>8. Refs!H!Init
  BY <1>1, <1>2 DEF Refs!H!Init, Refs!Settled
<1>. QED  BY <1>7, <1>8

LEMMA OwnStep ==
    ASSUME Small, OwnInv, Refs!Next
    PROVE  OwnInv' /\ (Refs!H!Next \/ UNCHANGED Refs!H!vars)
<1>1. CASE Refs!Work
  <2>1. Typed /\ todo # <<>>
    BY <1>1 DEF Refs!Work, OwnInv
  <2>2. PICK p \in Pointers : Goal(p) /\ Busy(p)
    BY <2>1 DEF OwnInv, Idle
  <2>3. Onward(p) /\ Goal(p)'
    BY <1>1, <2>1, <2>2, BusyKeeps, GoalStays
  <2>4. CASE todo' # <<>> /\ Busy(p)'
    <3>1. OwnInv'
      BY <2>3, <2>4 DEF OwnInv, Onward
    <3>. QED  BY <1>1, <2>1, <2>4, <3>1, OnIsNothing
  <2>5. CASE Idle' /\ Matches(m_pointer', Refs!Living', p, {})
    <3>1. OwnInv'
      BY <2>3, <2>5 DEF OwnInv, Onward
    <3>. QED  BY <1>1, <2>1, <2>2, <2>5, <3>1, EndIsAssignment
  <2>. QED  BY <2>3, <2>4, <2>5 DEF Onward
<1>2. ASSUME todo = <<>>, Begins, UNCHANGED Refs!H!vars
      PROVE  OwnInv' /\ (Refs!H!Next \/ UNCHANGED Refs!H!vars)
  <2>1. PICK p \in Pointers : Goal(p)' /\ Onward(p)
    BY <1>2 DEF Begins
  <2>2. OwnInv'
    BY <2>1 DEF OwnInv, Onward
  <2>. QED  BY <1>2, <2>2
<1>3. ASSUME NEW c \in Refs!Pointer, NEW o \in Object, Refs!Construct(c, o)
      PROVE  OwnInv' /\ (Refs!H!Next \/ UNCHANGED Refs!H!vars)
  <2>1. todo = <<>>
    BY <1>3 DEF Refs!Construct
  <2>2. Typed /\ Idle
    BY <2>1 DEF OwnInv
  <2>. QED  BY <1>2, <1>3, <2>1, <2>2, ConstructBegins, BeginIsNothing
<1>4. ASSUME NEW c \in Refs!Pointer \cup Optionals, NEW b \in Refs!Pointer \cup Optionals, Refs!Assign(c, b)
      PROVE  OwnInv' /\ (Refs!H!Next \/ UNCHANGED Refs!H!vars)
  <2>1. \E method : Refs!Call(method)
    BY <1>4 DEF Refs!Assign
  <2>2. todo = <<>>
    BY <2>1 DEF Refs!Call
  <2>3. Typed /\ Idle
    BY <2>2 DEF OwnInv
  <2>. QED  BY <1>2, <1>4, <2>1, <2>2, <2>3, AssignBegins, BeginIsNothing
<1>5. ASSUME NEW c \in Refs!Pointer \cup Optionals, Refs!Drop(c)
      PROVE  OwnInv' /\ (Refs!H!Next \/ UNCHANGED Refs!H!vars)
  <2>1. \E method : Refs!Call(method)
    BY <1>5 DEF Refs!Drop
  <2>2. todo = <<>>
    BY <2>1 DEF Refs!Call
  <2>3. Typed /\ Idle
    BY <2>2 DEF OwnInv
  <2>. QED  BY <1>2, <1>5, <2>1, <2>2, <2>3, DropBegins, BeginIsNothing
<1>. QED  BY <1>1, <1>3, <1>4, <1>5 DEF Refs!Next

LEMMA OwnStutter ==
    ASSUME OwnInv, UNCHANGED Refs!vars
    PROVE  OwnInv' /\ UNCHANGED Refs!H!vars
<1>1. /\ m_pointer' = m_pointer /\ m_is_valid' = m_is_valid /\ m_refcount' = m_refcount
      /\ life' = life /\ todo' = todo /\ before' = before
  BY DEF Refs!vars
<1>2. Refs!Living' = Refs!Living /\ Typed' /\ Typed
  BY <1>1 DEF Refs!Living, Typed, OwnInv
<1>3. Whole => Whole'
  BY <1>1, <1>2 DEF Whole
<1>4. Idle => Idle'
  BY <1>1, <1>3 DEF Idle
<1>5. ASSUME NEW p PROVE Goal(p) => Goal(p)'
  BY <1>1 DEF Goal
<1>6. ASSUME NEW p PROVE Busy(p) => Busy(p)'
  <2>1. Clearing(p) => Clearing(p)'
    <3>1. ASSUME NEW r, NEW c, NEW rest PROVE ClearingAt(p, r, c, rest) => ClearingAt(p, r, c, rest)'
      BY <1>1, <1>2 DEF ClearingAt
    <3>. QED  BY <1>2, <3>1 DEF Clearing
  <2>2. Invalidating(p) => Invalidating(p)'
    BY <1>1, <1>2, <1>3 DEF Invalidating
  <2>3. Validating(p) => Validating(p)'
    BY <1>1, <1>2, <1>3 DEF Validating
  <2>4. Filling(p) => Filling(p)'
    BY <1>1, <1>2, <1>3 DEF Filling
  <2>5. Counting(p) => Counting(p)'
    BY <1>1, <1>2 DEF Counting
  <2>6. Musting(p) => Musting(p)'
    BY <1>1, <1>2, <1>3 DEF Musting
  <2>. QED  BY <2>1, <2>2, <2>3, <2>4, <2>5, <2>6 DEF Busy
<1>7. OwnInv'
  BY <1>1, <1>2, <1>4, <1>5, <1>6 DEF OwnInv
<1>8. UNCHANGED Refs!H!vars
  BY <1>1, <1>2 DEF Refs!H!vars, Refs!Settled
<1>. QED  BY <1>7, <1>8

-----------------------------------------------------------------------------
(* No step touches what is deleted *)

LEMMA TouchesIs ==
    ASSUME NEW step \in Steps, step.cell \in Cells(Refs!Living), step.from \in Cells(Refs!Living),
           \/ step.do \notin {"release", "ref"}
           \/ m_pointer[step.cell] = NoObject
           \/ m_pointer[step.cell] \in Refs!Living /\ m_refcount[m_pointer[step.cell]] >= 1
    PROVE  Refs!Touches(step)
  BY DEF Refs!Touches, Cells, Refs!Living

LEMMA HeldIsCounted ==
    ASSUME Small, NEW L, NEW U, NEW Dying, SoundIn(m_pointer, m_refcount, L, U, Dying), NEW c \in Cells(L) \ U
    PROVE  m_pointer[c] = NoObject \/ (m_pointer[c] \in L /\ m_refcount[m_pointer[c]] >= 1)
<1>1. PICK o : o = m_pointer[c]
  OBVIOUS
<1>2. SUFFICES ASSUME o # NoObject PROVE o \in L /\ m_refcount[o] >= 1
  BY <1>1
<1>3. PICK E, less : E = (IF m_refcount[o] = 1 THEN Dying \cup {o} ELSE Dying) /\ less = [m_refcount EXCEPT ![o] = @ - 1]
  OBVIOUS
<1>4. Holds(m_pointer, c, o) /\ Dooms(E, Dying, m_refcount, o) /\ Drops(less, m_refcount, o)
  BY <1>1, <1>2, <1>3 DEF Holds, Dooms, Drops
<1>. QED  BY <1>4, ReleaseIs

LEMMA ClearingTouches ==
    ASSUME Small, NEW p, Clearing(p)
    PROVE  Refs!Touches(Head(todo))
<1>1. PICK r \in Seq(Variable \cup Object), rest \in Seq(Steps) :
        \E c \in Cells(Refs!Living) : ClearingAt(p, r, c, rest)
  BY DEF Clearing
<1>2. PICK c \in Cells(Refs!Living) : ClearingAt(p, r, c, rest)
  BY <1>1
<1>3. Chain(r, c, m_pointer, Refs!Living) /\ Refs!Living \in SUBSET Object
  BY <1>2 DEF ClearingAt, Refs!Living
<1>4. /\ Released(r) = Doomed(r) \cup {c} /\ Doomed(r) \subseteq Refs!Living
      /\ r[1] \in Released(r) /\ r[1] \in Variable \cup Object
  BY <1>3, ChainIs
<1>5. PICK d \in Variable \cup Object : d = r[1]
  BY <1>4
<1>6. d \in Cells(Refs!Living)
  BY <1>4, <1>5 DEF Cells
<1>7. Len(r) >= 1 /\ Len(r) \in Nat
  BY <1>3 DEF Chain
<1>8. Unwind(r) \in Seq(Steps) /\ Len(Unwind(r)) = 2 * Len(r) - 1
  BY <1>7, UnwindIs
<1>9. Unwind(r) \o rest \in Seq(Steps)
  BY <1>8, ConcatProperties
<1>10. ASSUME NEW do \in {"copy", "take", "ref", "release", "reset", "free", "validate", "invalidate"},
              Head(todo) = Refs!Step(do, d), do = "release" => m_pointer[d] = NoObject \/ (m_pointer[d] \in Refs!Living /\ m_refcount[m_pointer[d]] >= 1),
              do # "ref"
       PROVE  Refs!Touches(Head(todo))
  <2>1. PICK s \in Steps : s = Refs!Step(do, d)
    BY StepIs
  <2>2. s.do = do /\ s.cell = d /\ s.from = d
    BY <2>1, StepIs
  <2>3. Refs!Touches(s)
    BY <1>6, <1>10, <2>2, TouchesIs
  <2>. QED  BY <1>10, <2>1, <2>3
<1>11. CASE /\ todo = Then(Refs!Step("release", r[1]), Unwind(r) \o rest)
            /\ SoundIn(m_pointer, m_refcount, Refs!Living, Released(r) \ {r[1]}, Doomed(r))
  <2>1. d \in Cells(Refs!Living) \ (Released(r) \ {r[1]})
    BY <1>5, <1>6
  <2>2. m_pointer[d] = NoObject \/ (m_pointer[d] \in Refs!Living /\ m_refcount[m_pointer[d]] >= 1)
    BY <1>11, <2>1, HeldIsCounted
  <2>3. Head(todo) = Refs!Step("release", d)
    <3>1. PICK s \in Steps, x \in Seq(Steps) : s = Refs!Step("release", d) /\ x = Unwind(r) \o rest
      BY <1>9, StepIs
    <3>2. Head(Then(s, x)) = s
      BY ThenIs
    <3>. QED  BY <1>5, <1>11, <3>1, <3>2
  <2>. QED  BY <1>10, <2>2, <2>3
<1>12. CASE todo = Unwind(r) \o rest
  <2>1. Head(todo) = Refs!Step("reset", d)
    <3>1. PICK u : u = Unwind(r)
      OBVIOUS
    <3>2. u \in Seq(Steps) /\ Len(u) >= 1 /\ Len(u) \in Nat
      BY <1>7, <1>8, <3>1
    <3>3. todo[1] = u[1] /\ todo \in Seq(Steps) /\ Len(todo) >= 1
      <4>1. todo \in Seq(Steps) /\ Len(todo) = Len(u) + Len(rest)
            /\ \A i \in 1 .. Len(u) + Len(rest) : todo[i] = IF i <= Len(u) THEN u[i] ELSE rest[i - Len(u)]
        BY <1>12, <3>1, <3>2, ConcatProperties
      <4>2. Len(rest) \in Nat
        OBVIOUS
      <4>. QED  BY <3>2, <4>1, <4>2
    <3>4. u[1] = Refs!Step("reset", d)
      <4>1. 1 \in 1 .. 2 * Len(r) - 1 /\ (1 % 2) = 1 /\ (1 + 1) \div 2 = 1
        BY <1>7
      <4>. QED  BY <1>5, <3>1, <4>1 DEF Unwind
    <3>5. Head(todo) = todo[1]
      BY <3>3
    <3>. QED  BY <3>3, <3>4, <3>5
  <2>. QED  BY <1>10, <2>1
<1>13. CASE todo = Then(Refs!Step("free", r[1]), Unwind(Tail(r)) \o rest) /\ Len(r) > 1
  <2>1. Head(todo) = Refs!Step("free", d)
    <3>1. PICK q : q = Tail(r)
      OBVIOUS
    <3>2. q \in Seq(Variable \cup Object) /\ Len(q) >= 1
      BY <1>7, <1>13, <3>1
    <3>3. Unwind(q) \in Seq(Steps)
      BY <3>2, UnwindIs
    <3>4. PICK s \in Steps, x \in Seq(Steps) : s = Refs!Step("free", d) /\ x = Unwind(q) \o rest
      BY <3>3, StepIs, ConcatProperties
    <3>5. Head(Then(s, x)) = s
      BY ThenIs
    <3>. QED  BY <1>5, <1>13, <3>1, <3>4, <3>5
  <2>. QED  BY <1>10, <2>1
<1>. QED  BY <1>2, <1>11, <1>12, <1>13 DEF ClearingAt

LEMMA FillingTouches ==
    ASSUME Small, NEW p, Filling(p)
    PROVE  Refs!Touches(Head(todo))
<1>1. PICK c \in Cells(Refs!Living) : Whole /\ Fills(todo, c, m_pointer, Refs!Living, m_is_valid, p, {})
  BY DEF Filling
<1>2. ASSUME NEW b \in (Variable \cup Refs!Living) \ {c}, NEW s, NEW x \in Seq(Steps), todo = Then(s, x),
             s = Refs!StepFrom("copy", c, b) \/ s = Refs!StepFrom("take", c, b)
      PROVE  Refs!Touches(Head(todo))
  <2>1. c \in Variable \cup Object /\ b \in Variable \cup Object /\ b \in Cells(Refs!Living)
    BY DEF Cells, Refs!Living
  <2>2. s \in Steps /\ s.do \in {"copy", "take"} /\ s.cell = c /\ s.from = b
    BY <1>2, <2>1, StepIs
  <2>3. Refs!Touches(s)
    BY <2>1, <2>2, TouchesIs
  <2>4. Head(Then(s, x)) = s
    BY <2>2, ThenIs
  <2>. QED  BY <1>2, <2>3, <2>4
<1>3. CASE Copies(todo, c, m_pointer, Refs!Living, m_is_valid, p, {})
  <2>1. PICK b \in (Variable \cup Refs!Living) \ {c} : todo = Refs!CopyConstruct(c, b)
    BY <1>3 DEF Copies
  <2>2. c \in Variable \cup Object /\ b \in Variable \cup Object
    BY DEF Cells, Refs!Living
  <2>3. PICK s \in Steps, t \in Steps : s = Refs!StepFrom("copy", c, b) /\ t = Refs!Step("ref", c)
    BY <2>2, StepIs
  <2>4. todo = <<s, t>>
    BY <2>1, <2>3 DEF Refs!CopyConstruct
  <2>5. <<t>> \in Seq(Steps)
    OBVIOUS
  <2>6. Head(todo) = s
    BY <2>4
  <2>7. s.do = "copy" /\ s.cell = c /\ s.from = b /\ b \in Cells(Refs!Living)
    BY <2>2, <2>3, StepIs DEF Cells
  <2>8. Refs!Touches(s)
    BY <2>7, TouchesIs
  <2>. QED  BY <2>6, <2>8
<1>4. CASE Takes(todo, c, m_pointer, Refs!Living, m_is_valid, p, {})
  <2>1. PICK b \in (Variable \cup Refs!Living) \ {c} : \E t : todo = Refs!MoveConstruct(c, b) \o t /\ Leftover(b, t)
    BY <1>4 DEF Takes
  <2>2. PICK t : todo = Refs!MoveConstruct(c, b) \o t /\ Leftover(b, t)
    BY <2>1
  <2>3. t \in Seq(Steps)
    <3>1. <<>> \in Seq(Steps) /\ b \in Variable \cup Object
      BY DEF Refs!Living
    <3>2. Refs!Clear(b) \in Seq(Steps) /\ <<Refs!Step("invalidate", b)>> \o Refs!Clear(b) \in Seq(Steps)
      BY <3>1, MethodsAre
    <3>. QED  BY <2>2, <3>1, <3>2 DEF Leftover
  <2>4. todo = Then(Refs!StepFrom("take", c, b), t)
    BY <2>2 DEF Refs!MoveConstruct, Then
  <2>. QED  BY <1>2, <2>3, <2>4
<1>. QED  BY <1>1, <1>3, <1>4 DEF Fills

LEMMA SameCount == \A S : Refs!Cardinality(S) = Cardinality(S)
  BY DEF Refs!Cardinality, Cardinality

LEMMA OwnTouches ==
    ASSUME Small, OwnInv
    PROVE  Refs!TouchesTheLiving /\ Refs!CountIsExact
<1>1. Refs!CountIsExact
  <2>1. SUFFICES ASSUME todo = <<>>, NEW o \in Refs!Living
                 PROVE  m_refcount[o] = Cardinality({c \in Variable \cup Refs!Living : m_pointer[c] = o})
    BY SameCount DEF Refs!CountIsExact
  <2>2. Idle
    BY <2>1 DEF OwnInv
  <2>3. m_refcount[o] = Cardinality(HoldersOf(m_pointer, Refs!Living, o, {}))
    BY <2>1, <2>2 DEF Idle, Whole, SoundIn
  <2>4. HoldersOf(m_pointer, Refs!Living, o, {}) = {c \in Variable \cup Refs!Living : m_pointer[c] = o}
    BY DEF HoldersOf, Cells
  <2>. QED  BY <2>3, <2>4
<1>2. Refs!TouchesTheLiving
  <2>1. SUFFICES ASSUME todo # <<>> PROVE Refs!Touches(Head(todo))
    BY DEF Refs!TouchesTheLiving
  <2>2. PICK p \in Pointers : Busy(p)
    BY <2>1 DEF OwnInv, Idle
  <2>3. CASE Clearing(p)
    BY <2>3, ClearingTouches
  <2>4. CASE Filling(p)
    BY <2>4, FillingTouches
  <2>5. ASSUME NEW c \in Optionals, NEW do \in {"validate", "invalidate"}, NEW x \in Seq(Steps),
               todo = Then(Refs!Step(do, c), x)
        PROVE  Refs!Touches(Head(todo))
    <3>1. c \in Variable \cup Object /\ c \in Cells(Refs!Living)
      BY DEF Small, Cells
    <3>2. PICK s \in Steps : s = Refs!Step(do, c) /\ s.do = do /\ s.cell = c /\ s.from = c
      BY <3>1, StepIs
    <3>3. Refs!Touches(s)
      BY <3>1, <3>2, TouchesIs
    <3>4. Head(Then(s, x)) = s
      BY ThenIs
    <3>. QED  BY <2>5, <3>2, <3>3, <3>4
  <2>6. CASE Invalidating(p)
    <3>1. PICK c \in Optionals, rest \in Seq(Steps) : todo = Then(Refs!Step("invalidate", c), Refs!Clear(c) \o rest)
      BY <2>6 DEF Invalidating
    <3>2. PICK x \in Seq(Steps) : x = Refs!Clear(c) \o rest
      <4>1. c \in Variable \cup Object
        BY DEF Small
      <4>. QED  BY <4>1, MethodsAre
    <3>. QED  BY <2>5, <3>1, <3>2
  <2>7. CASE Validating(p)
    BY <2>5, <2>7 DEF Validating
  <2>8. CASE Counting(p)
    <3>1. PICK c \in Cells(Refs!Living) :
            /\ todo = Then(Refs!Step("ref", c), <<>>)
            /\ SoundIn(m_pointer, m_refcount, Refs!Living, {c}, {}) /\ m_pointer[c] \in Refs!Living \cup {NoObject}
      BY <2>8 DEF Counting
    <3>2. c \in Variable \cup Object /\ <<>> \in Seq(Steps)
      BY DEF Cells, Refs!Living
    <3>3. PICK s \in Steps : s = Refs!Step("ref", c) /\ s.do = "ref" /\ s.cell = c /\ s.from = c
      BY <3>2, StepIs
    <3>4. m_pointer[c] = NoObject \/ (m_pointer[c] \in Refs!Living /\ m_refcount[m_pointer[c]] >= 1)
      <4>1. PICK n : n = IF m_pointer[c] = NoObject THEN m_refcount ELSE [m_refcount EXCEPT ![m_pointer[c]] = @ + 1]
        OBVIOUS
      <4>2. m_pointer[c] # NoObject => m_refcount[m_pointer[c]] >= 1
        BY <3>1, <4>1, RefIs
      <4>. QED  BY <3>1, <4>2
    <3>5. Refs!Touches(s)
      BY <3>3, <3>4, TouchesIs
    <3>6. Head(Then(s, <<>>)) = s
      BY <3>2, ThenIs
    <3>. QED  BY <3>1, <3>3, <3>5, <3>6
  <2>9. CASE Musting(p)
    <3>1. PICK c \in Cells(Refs!Living), b \in Optionals :
            todo = Then(Refs!StepFrom("take", Temporary, b), Then(Refs!Step("invalidate", b), Refs!Clear(b) \o MustOf(c)))
      BY <2>9 DEF Musting
    <3>2. c \in Variable \cup Object /\ b \in Variable \cup Object /\ Temporary \in Variable \cup Object
          /\ b \in Cells(Refs!Living) /\ Temporary \in Cells(Refs!Living)
      BY DEF Cells, Refs!Living, Small
    <3>3. PICK s \in Steps, t \in Steps : s = Refs!StepFrom("take", Temporary, b) /\ t = Refs!Step("invalidate", b)
      BY <3>2, StepIs
    <3>4. s.do = "take" /\ s.cell = Temporary /\ s.from = b
      BY <3>2, <3>3, StepIs
    <3>5. MustOf(c) \in Seq(Steps)
      BY <3>2, MustOfIs
    <3>6. Refs!Clear(b) \o MustOf(c) \in Seq(Steps)
      BY <3>2, <3>5, MethodsAre
    <3>7. PICK x \in Seq(Steps) : x = Then(t, Refs!Clear(b) \o MustOf(c))
      BY <3>6, ThenIs
    <3>8. Head(Then(s, x)) = s
      BY ThenIs
    <3>9. Refs!Touches(s)
      BY <3>2, <3>4, TouchesIs
    <3>. QED  BY <3>1, <3>3, <3>7, <3>8, <3>9
  <2>. QED  BY <2>2, <2>3, <2>4, <2>6, <2>7, <2>8, <2>9 DEF Busy
<1>. QED  BY <1>1, <1>2

-----------------------------------------------------------------------------
(* OwnPtr, which does not count *)

\* The steps of the methods that OwnPtr has.
Plain == [do : {"take", "release", "reset", "free", "validate", "invalidate"},
          cell : Variable \cup Object, from : Variable \cup Object]

\* The one reference that an OwnPtr is.
Single == (\A o \in Object : m_refcount[o] <= 1) /\ todo \in Seq(Plain)

LEMMA PlainStepIs ==
    ASSUME NEW do \in {"take", "release", "reset", "free", "validate", "invalidate"},
           NEW c \in Variable \cup Object, NEW b \in Variable \cup Object
    PROVE  Refs!Step(do, c) \in Plain /\ Refs!StepFrom(do, c, b) \in Plain
  BY DEF Refs!Step, Refs!StepFrom, Plain

LEMMA PlainMethods ==
    ASSUME NEW c \in Variable \cup Object, NEW b \in Variable \cup Object
    PROVE  /\ Refs!Clear(c) \in Seq(Plain) /\ Refs!Delete(c) \in Seq(Plain)
           /\ Refs!MoveConstruct(c, b) \in Seq(Plain) /\ Refs!MoveAssign(c, b) \in Seq(Plain)
           /\ Refs!OptionalClear(c) \in Seq(Plain)
           /\ <<Refs!Step("validate", c)>> \in Seq(Plain)
<1>1. PICK rel \in Plain, res \in Plain, fre \in Plain, inv \in Plain, val \in Plain, tak \in Plain :
         /\ rel = Refs!Step("release", c) /\ res = Refs!Step("reset", c) /\ fre = Refs!Step("free", c)
         /\ inv = Refs!Step("invalidate", c) /\ val = Refs!Step("validate", c)
         /\ tak = Refs!StepFrom("take", c, b)
  BY PlainStepIs
<1>2. PICK clear \in Seq(Plain) : clear = Refs!Clear(c)
  <2>1. <<rel, res>> \in Seq(Plain)
    OBVIOUS
  <2>2. Refs!Clear(c) = <<rel, res>>
    BY <1>1 DEF Refs!Clear
  <2>. QED  BY <2>1, <2>2
<1>3. PICK move \in Seq(Plain) : move = Refs!MoveConstruct(c, b)
  <2>1. <<tak>> \in Seq(Plain)
    OBVIOUS
  <2>2. Refs!MoveConstruct(c, b) = <<tak>>
    BY <1>1 DEF Refs!MoveConstruct
  <2>. QED  BY <2>1, <2>2
<1>4. <<fre>> \in Seq(Plain) /\ <<inv>> \in Seq(Plain) /\ <<val>> \in Seq(Plain) /\ <<>> \in Seq(Plain)
  OBVIOUS
<1>5. clear \o <<fre>> \in Seq(Plain) /\ <<inv>> \o clear \in Seq(Plain) /\ clear \o move \in Seq(Plain)
  BY <1>4, ConcatProperties
<1>6. Refs!Delete(c) = clear \o <<fre>> /\ Refs!MoveAssign(c, b) = clear \o move
  BY <1>1, <1>2, <1>3 DEF Refs!Delete, Refs!MoveAssign
<1>7. Refs!OptionalClear(c) = <<inv>> \o clear \/ Refs!OptionalClear(c) = <<>>
  BY <1>1, <1>2 DEF Refs!OptionalClear
<1>. QED  BY <1>1, <1>2, <1>3, <1>4, <1>5, <1>6, <1>7

LEMMA PlainMoves ==
    ASSUME Small, NEW c \in Variable \cup Object, NEW b \in Variable \cup Object
    PROVE  /\ Refs!OptionalMoveValue(c, b) \in Seq(Plain)
           /\ Refs!OptionalMove(c, b) \in Seq(Plain)
           /\ Refs!MustMove(c, b) \in Seq(Plain)
           /\ Refs!MoveAssign(c, Temporary) \o Refs!Clear(Temporary) \in Seq(Plain)
<1>1. Temporary \in Variable \cup Object
  BY DEF Small
<1>2. PICK clear \in Seq(Plain), move \in Seq(Plain), valid \in Seq(Plain), other \in Seq(Plain) :
         /\ clear = Refs!OptionalClear(c) /\ move = Refs!MoveConstruct(c, b)
         /\ valid = <<Refs!Step("validate", c)>> /\ other = Refs!OptionalClear(b)
  BY PlainMethods
<1>3. PICK first \in Seq(Plain), second \in Seq(Plain), last \in Seq(Plain) :
         /\ first = Refs!MoveConstruct(Temporary, b) /\ second = Refs!MoveAssign(c, Temporary)
         /\ last = Refs!Clear(Temporary)
  BY <1>1, PlainMethods
<1>4. <<>> \in Seq(Plain)
  OBVIOUS
<1>5. Refs!OptionalMoveValue(c, b) = (clear \o valid) \o move
  BY <1>2 DEF Refs!OptionalMoveValue
<1>6. PICK rest : rest = IF m_is_valid[b] THEN (valid \o move) \o other ELSE <<>>
  OBVIOUS
<1>7. Refs!OptionalMove(c, b) = clear \o rest
  BY <1>2, <1>6 DEF Refs!OptionalMove
<1>8. rest \in Seq(Plain)
  <2>1. (valid \o move) \o other \in Seq(Plain)
    BY ConcatProperties
  <2>. QED  BY <1>4, <1>6, <2>1
<1>9. Refs!MustMove(c, b) = ((first \o other) \o second) \o last
  BY <1>2, <1>3 DEF Refs!MustMove
<1>10. (clear \o valid) \o move \in Seq(Plain) /\ clear \o rest \in Seq(Plain)
       /\ ((first \o other) \o second) \o last \in Seq(Plain) /\ second \o last \in Seq(Plain)
  BY <1>8, ConcatProperties
<1>. QED  BY <1>3, <1>5, <1>7, <1>9, <1>10

LEMMA SameMethods ==
    ASSUME NEW c, NEW b
    PROVE  /\ Owns!Clear(c) = Refs!Clear(c) /\ Owns!Delete(c) = Refs!Delete(c)
           /\ Owns!MoveAssign(c, b) = Refs!MoveAssign(c, b)
           /\ Owns!OptionalClear(c) = Refs!OptionalClear(c)
           /\ Owns!OptionalMoveValue(c, b) = Refs!OptionalMoveValue(c, b)
           /\ Owns!OptionalMove(c, b) = Refs!OptionalMove(c, b)
           /\ Owns!MustMove(c, b) = Refs!MustMove(c, b)
<1>1. ASSUME NEW do PROVE Owns!Step(do, c) = Refs!Step(do, c)
  BY DEF Owns!Step, Refs!Step
<1>2. ASSUME NEW x, NEW y PROVE Owns!MoveConstruct(x, y) = Refs!MoveConstruct(x, y)
  BY DEF Owns!MoveConstruct, Refs!MoveConstruct, Owns!StepFrom, Refs!StepFrom
<1>3. ASSUME NEW x PROVE Owns!Clear(x) = Refs!Clear(x) /\ Owns!OptionalClear(x) = Refs!OptionalClear(x)
  BY DEF Owns!Clear, Refs!Clear, Owns!OptionalClear, Refs!OptionalClear, Owns!Step, Refs!Step
<1>4. ASSUME NEW x, NEW y PROVE Owns!MoveAssign(x, y) = Refs!MoveAssign(x, y)
  BY <1>2, <1>3 DEF Owns!MoveAssign, Refs!MoveAssign
<1>5. Owns!Delete(c) = Refs!Delete(c)
  BY <1>1, <1>3 DEF Owns!Delete, Refs!Delete
<1>6. Owns!OptionalMoveValue(c, b) = Refs!OptionalMoveValue(c, b)
  BY <1>1, <1>2, <1>3 DEF Owns!OptionalMoveValue, Refs!OptionalMoveValue
<1>7. Owns!OptionalMove(c, b) = Refs!OptionalMove(c, b)
  BY <1>1, <1>2, <1>3 DEF Owns!OptionalMove, Refs!OptionalMove
<1>8. Owns!MustMove(c, b) = Refs!MustMove(c, b)
  BY <1>2, <1>3, <1>4 DEF Owns!MustMove, Refs!MustMove
<1>. QED  BY <1>3, <1>4, <1>5, <1>6, <1>7, <1>8

LEMMA SameReach ==
    ASSUME NEW p, NEW roots, NEW without
    PROVE  Owns!H!Reach(p, roots, without) = Refs!H!Reach(p, roots, without)
  BY DEF Owns!H!Reach, Refs!H!Reach, Owns!H!Cardinality, Refs!H!Cardinality

LEMMA SameGuards ==
    /\ Owns!Living = Refs!Living /\ Owns!Pointer = Refs!Pointer
    /\ \A step : Owns!Touches(step) <=> Refs!Touches(step)
    /\ \A c, b : Owns!Assignable(c, b) <=> Refs!Assignable(c, b)
    /\ \A method : Owns!Call(method) <=> Refs!Call(method)
<1>1. Owns!Living = Refs!Living
  BY DEF Owns!Living, Refs!Living
<1>2. Owns!Pointer = Refs!Pointer
  BY <1>1 DEF Owns!Pointer, Refs!Pointer
<1>3. ASSUME NEW step PROVE (Owns!Touches(step) <=> Refs!Touches(step))
  BY <1>1 DEF Owns!Touches, Refs!Touches
<1>4. ASSUME NEW c, NEW b PROVE (Owns!Assignable(c, b) <=> Refs!Assignable(c, b))
  BY SameReach DEF Owns!Assignable, Refs!Assignable
<1>5. ASSUME NEW method PROVE (Owns!Call(method) <=> Refs!Call(method))
  BY <1>1 DEF Owns!Call, Refs!Call
<1>. QED  BY <1>1, <1>2, <1>3, <1>4, <1>5

LEMMA OwnTyped ==
    ASSUME Small, OwnInv
    PROVE  m_pointer \in Pointers /\ m_refcount \in [Object -> Nat]
<1>1. CASE Whole
  BY <1>1 DEF Whole, SoundIn
<1>2. CASE Idle
  BY <1>1, <1>2 DEF Idle
<1>3. ASSUME NEW p, Busy(p) PROVE m_pointer \in Pointers /\ m_refcount \in [Object -> Nat]
  <2>1. ASSUME NEW U, NEW X, SoundIn(m_pointer, m_refcount, Refs!Living, U, X)
        PROVE  m_pointer \in Pointers /\ m_refcount \in [Object -> Nat]
    BY <2>1 DEF SoundIn
  <2>2. CASE Clearing(p)
    BY <2>1, <2>2 DEF Clearing, ClearingAt
  <2>3. CASE Counting(p)
    BY <2>1, <2>3 DEF Counting
  <2>4. CASE Invalidating(p) \/ Validating(p) \/ Filling(p) \/ Musting(p)
    BY <1>1, <2>4 DEF Invalidating, Validating, Filling, Musting
  <2>. QED  BY <1>3, <2>2, <2>3, <2>4 DEF Busy
<1>. QED  BY <1>2, <1>3 DEF OwnInv

\* An OwnPtr behaves as a RefPtr that is never copied.
LEMMA OwningWorks ==
    ASSUME Small, OwnInv, Single, Owns!Work
    PROVE  Refs!Work /\ Single'
<1>1. m_pointer \in Pointers /\ m_refcount \in [Object -> Nat]
  BY OwnTyped
<1>2. todo # <<>> /\ Refs!Touches(Head(todo)) /\ todo \in Seq(Plain)
  BY SameGuards DEF Owns!Work, Single
<1>3. PICK s \in Plain, rest \in Seq(Plain) : s = Head(todo) /\ rest = Tail(todo)
  <2>1. Head(todo) \in Plain /\ Tail(todo) \in Seq(Plain)
    BY <1>2, HeadTailProperties
  <2>. QED  BY <2>1
<1>4. s.cell \in Variable \cup Object /\ s.do \in {"take", "release", "reset", "free", "validate", "invalidate"}
  BY DEF Plain
<1>5. \/ s.do = "release" /\ Owns!Release(s.cell)
      \/ s.do \in {"reset", "take"} /\ Owns!Store(s)
      \/ s.do = "validate" /\ Owns!Mark(s.cell, TRUE)
      \/ s.do = "invalidate" /\ Owns!Mark(s.cell, FALSE)
      \/ s.do = "free" /\ Owns!Free(s.cell)
  BY <1>3, <1>4 DEF Owns!Work
<1>6. CASE s.do = "release" /\ Owns!Release(s.cell)
  <2>1. PICK o : o = m_pointer[s.cell]
    OBVIOUS
  <2>2. o \in Object \cup {NoObject}
    BY <1>1, <1>4, <2>1 DEF Pointers
  <2>3. CASE o = NoObject
    <3>1. UNCHANGED <<m_refcount, m_pointer, m_is_valid, life, before>> /\ todo' = <<>> \o rest
      BY <1>3, <1>6, <2>1, <2>3 DEF Owns!Release
    <3>2. Refs!Release(s.cell)
      BY <1>3, <2>1, <2>3, <3>1 DEF Refs!Release
    <3>3. <<>> \o rest \in Seq(Plain)
      BY ConcatEmptySeq
    <3>. QED  BY <1>2, <1>3, <1>6, <3>1, <3>2, <3>3 DEF Refs!Work, Single
  <2>4. CASE o # NoObject
    <3>1. o \in Object /\ m_refcount[o] = 1
      <4>1. m_refcount[o] >= 1
        BY <1>2, <1>3, <1>6, <2>1, <2>4 DEF Refs!Touches
      <4>2. m_refcount[o] <= 1 /\ m_refcount[o] \in Nat /\ o \in Object
        BY <1>1, <2>2, <2>4 DEF Single
      <4>. QED  BY <4>1, <4>2
    <3>2. m_refcount' = [m_refcount EXCEPT ![o] = @ - 1] /\ todo' = Refs!Delete(o) \o rest
          /\ UNCHANGED <<m_pointer, m_is_valid, life, before>>
      BY <1>3, <1>6, <2>1, <2>4, SameMethods DEF Owns!Release, Owns!Last
    <3>3. Refs!Release(s.cell)
      BY <1>3, <2>1, <2>4, <3>1, <3>2 DEF Refs!Release, Refs!Last
    <3>4. Refs!Delete(o) \o rest \in Seq(Plain)
      <4>1. PICK d \in Seq(Plain) : d = Refs!Delete(o)
        BY <3>1, PlainMethods
      <4>2. d \o rest \in Seq(Plain)
        BY ConcatProperties
      <4>. QED  BY <4>1, <4>2
    <3>5. \A q \in Object : m_refcount'[q] <= 1
      BY <1>1, <3>1, <3>2 DEF Single
    <3>. QED  BY <1>2, <1>3, <1>6, <3>2, <3>3, <3>4, <3>5 DEF Refs!Work, Single
  <2>. QED  BY <2>3, <2>4
<1>7. CASE s.do \in {"reset", "take"} /\ Owns!Store(s)
  <2>1. Refs!Store(s) /\ todo' = rest /\ UNCHANGED m_refcount
    BY <1>3, <1>7 DEF Owns!Store, Refs!Store
  <2>. QED  BY <1>2, <1>3, <1>7, <2>1 DEF Refs!Work, Single
<1>8. ASSUME NEW valid \in BOOLEAN, Owns!Mark(s.cell, valid)
      PROVE  Refs!Mark(s.cell, valid) /\ Single'
  <2>1. Refs!Mark(s.cell, valid) /\ todo' = rest /\ UNCHANGED m_refcount
    BY <1>3, <1>8 DEF Owns!Mark, Refs!Mark
  <2>. QED  BY <2>1 DEF Single
<1>9. CASE s.do = "free" /\ Owns!Free(s.cell)
  <2>1. Refs!Free(s.cell) /\ todo' = rest /\ UNCHANGED m_refcount
    BY <1>3, <1>9 DEF Owns!Free, Refs!Free
  <2>. QED  BY <1>2, <1>3, <1>9, <2>1 DEF Refs!Work, Single
<1>10. CASE s.do = "validate" /\ Owns!Mark(s.cell, TRUE)
  BY <1>2, <1>3, <1>8, <1>10 DEF Refs!Work
<1>11. CASE s.do = "invalidate" /\ Owns!Mark(s.cell, FALSE)
  BY <1>2, <1>3, <1>8, <1>11 DEF Refs!Work
<1>. QED  BY <1>5, <1>6, <1>7, <1>9, <1>10, <1>11

LEMMA OwningIsSharing ==
    ASSUME Small, OwnInv, Single, Owns!Next
    PROVE  Refs!Next /\ Single'
<1>1. Refs!Pointer \cup Optionals \subseteq Variable \cup Object
  BY DEF Refs!Pointer, Refs!Living, Small
<1>2. CASE Owns!Work
  BY <1>2, OwningWorks DEF Refs!Next
<1>3. ASSUME NEW method \in Seq(Plain), Owns!Call(method) PROVE Refs!Call(method) /\ Single'
  <2>1. Refs!Call(method)
    BY <1>3, SameGuards
  <2>. QED  BY <2>1 DEF Refs!Call, Single
<1>4. ASSUME NEW c \in Refs!Pointer, NEW o \in Object, Owns!Construct(c, o) PROVE Refs!Next /\ Single'
  <2>1. PICK method \in Seq(Plain) : method = Refs!MoveAssign(c, Temporary) \o Refs!Clear(Temporary)
    BY <1>1, PlainMoves
  <2>2. m_refcount' = [m_refcount EXCEPT ![o] = 1] /\ todo' = method
    BY <1>4, <2>1, SameMethods DEF Owns!Construct
  <2>3. Refs!Construct(c, o)
    BY <1>4, SameMethods, SameGuards DEF Owns!Construct, Refs!Construct
  <2>4. \A q \in Object : m_refcount'[q] <= 1
    BY <2>2, OwnTyped DEF Single
  <2>. QED  BY <2>2, <2>3, <2>4 DEF Refs!Next, Single
<1>5. ASSUME NEW c \in Refs!Pointer \cup Optionals, NEW b \in Refs!Pointer \cup Optionals, Owns!Assign(c, b)
      PROVE  Refs!Next /\ Single'
  <2>1. Refs!Assignable(c, b) /\ c \in Variable \cup Object /\ b \in Variable \cup Object
    BY <1>1, <1>5, SameGuards DEF Owns!Assign
  <2>2. \/ c \in Refs!Pointer /\ b \in Refs!Pointer /\ Owns!Call(Refs!MoveAssign(c, b))
        \/ c \in Optionals /\ b \in Refs!Pointer /\ Owns!Call(Refs!OptionalMoveValue(c, b))
        \/ c \in Optionals /\ b \in Optionals /\ Owns!Call(Refs!OptionalMove(c, b))
        \/ c \in Refs!Pointer /\ b \in Optionals /\ m_is_valid[b] /\ Owns!Call(Refs!MustMove(c, b))
    BY <1>5, SameGuards, SameMethods DEF Owns!Assign
  <2>3. Refs!Assign(c, b) /\ Single'
    <3>1. CASE c \in Refs!Pointer /\ b \in Refs!Pointer /\ Owns!Call(Refs!MoveAssign(c, b))
      BY <1>3, <2>1, <3>1, PlainMethods DEF Refs!Assign
    <3>2. CASE c \in Optionals /\ b \in Refs!Pointer /\ Owns!Call(Refs!OptionalMoveValue(c, b))
      BY <1>3, <2>1, <3>2, PlainMoves DEF Refs!Assign
    <3>3. CASE c \in Optionals /\ b \in Optionals /\ Owns!Call(Refs!OptionalMove(c, b))
      BY <1>3, <2>1, <3>3, PlainMoves DEF Refs!Assign
    <3>4. CASE c \in Refs!Pointer /\ b \in Optionals /\ m_is_valid[b] /\ Owns!Call(Refs!MustMove(c, b))
      BY <1>3, <2>1, <3>4, PlainMoves DEF Refs!Assign
    <3>. QED  BY <2>2, <3>1, <3>2, <3>3, <3>4
  <2>. QED  BY <2>3 DEF Refs!Next
<1>6. ASSUME NEW c \in Refs!Pointer \cup Optionals, Owns!Drop(c) PROVE Refs!Next /\ Single'
  <2>1. c \in Variable \cup Object
    BY <1>1
  <2>2. \/ c \in Refs!Pointer /\ Owns!Call(Refs!Clear(c))
        \/ c \in Optionals /\ m_is_valid[c] /\ Owns!Call(Refs!OptionalClear(c))
    BY <1>6, SameGuards, SameMethods DEF Owns!Drop
  <2>3. Refs!Drop(c) /\ Single'
    BY <1>3, <2>1, <2>2, PlainMethods DEF Refs!Drop
  <2>. QED  BY <2>3 DEF Refs!Next
<1>. QED  BY <1>2, <1>4, <1>5, <1>6, SameGuards DEF Owns!Next

PointersInv == OwnInv /\ (considered = "ownptr" => Single)

\* The steps of the run are steps of the pointers.
LEMMA PointersStep ==
    ASSUME Small, PointersInv, [StdNext]_<<considered, queueVars, pointerVars, vectorVars, pathVars>>
    PROVE  PointersInv' /\ [Refs!H!Next]_Refs!H!vars
<1>1. UNCHANGED considered /\ (Sharing \/ Owning \/ UNCHANGED pointerVars)
  BY DEF StdNext
<1>2. CASE Sharing
  <2>1. Refs!Next /\ considered = "refptr"
    BY <1>2 DEF Sharing
  <2>2. OwnInv' /\ (Refs!H!Next \/ UNCHANGED Refs!H!vars)
    BY <2>1, OwnStep DEF PointersInv
  <2>. QED  BY <1>1, <2>1, <2>2 DEF PointersInv
<1>3. CASE Owning
  <2>1. Owns!Next /\ considered = "ownptr"
    BY <1>3 DEF Owning
  <2>2. Refs!Next /\ Single'
    BY <2>1, OwningIsSharing DEF PointersInv
  <2>3. OwnInv' /\ (Refs!H!Next \/ UNCHANGED Refs!H!vars)
    BY <2>2, OwnStep DEF PointersInv
  <2>. QED  BY <2>2, <2>3 DEF PointersInv
<1>4. CASE UNCHANGED pointerVars
  <2>1. UNCHANGED Refs!vars
    BY <1>4 DEF pointerVars, Refs!vars
  <2>2. OwnInv' /\ UNCHANGED Refs!H!vars
    BY <2>1, OwnStutter DEF PointersInv
  <2>3. Single => Single'
    BY <1>4 DEF pointerVars, Single
  <2>. QED  BY <1>1, <2>2, <2>3 DEF PointersInv
<1>. QED  BY <1>1, <1>2, <1>3, <1>4

-----------------------------------------------------------------------------
(* Texts that are put together.                                            *)

Characters == Letter \cup {Slash}
Text == Seq(Characters)

\* g says what the first of the parts are together.
Together(g, parts, n) ==
    g = [i \in 1 .. n |-> IF i = 1 THEN parts[i] ELSE g[i - 1] \o parts[i]]

\* There is such a function, for any parts.
LEMMA TogetherExists ==
    ASSUME NEW parts, NEW n \in Nat
    PROVE  \E g : Together(g, parts, n)
<1>. DEFINE T == {m \in 0 .. n : ~ \E g : Together(g, parts, m)}
<1>1. SUFFICES ASSUME T # {} PROVE FALSE
  BY SMT
<1>2. PICK m \in T : \A y \in T : m <= y
  <2>1. T \in SUBSET Nat
    OBVIOUS
  <2>. HIDE DEF T
  <2>. QED  BY <1>1, <2>1, Minimum
<1>3. m \in Nat /\ m <= n /\ ~ \E g : Together(g, parts, m)
  OBVIOUS
<1>4. m # 0
  <2>1. PICK g : g = [i \in 1 .. 0 |-> parts[i]]
    OBVIOUS
  <2>2. g = [i \in 1 .. 0 |-> IF i = 1 THEN parts[i] ELSE g[i - 1] \o parts[i]]
    BY <2>1
  <2>. QED  BY <1>3, <2>2 DEF Together
<1>5. PICK g : Together(g, parts, m - 1)
  <2>1. m - 1 \in 0 .. n /\ ~ (m <= m - 1)
    BY <1>3, <1>4
  <2>. QED  BY <1>2, <2>1
<1>6. \A i \in 1 .. m - 1 : g[i] = IF i = 1 THEN parts[i] ELSE g[i - 1] \o parts[i]
  BY <1>5 DEF Together
<1>7. PICK h : h = [i \in 1 .. m |-> IF i = m THEN IF m = 1 THEN parts[m] ELSE g[m - 1] \o parts[m] ELSE g[i]]
  OBVIOUS
<1>8. ASSUME NEW i \in 1 .. m PROVE h[i] = IF i = 1 THEN parts[i] ELSE h[i - 1] \o parts[i]
  <2>1. i - 1 # m /\ (i # 1 => i - 1 \in 1 .. m)
    BY <1>3
  <2>2. i # 1 => h[i - 1] = g[i - 1]
    BY <1>7, <2>1
  <2>3. CASE i = m
    BY <1>7, <2>2, <2>3
  <2>4. CASE i # m
    <3>1. i \in 1 .. m - 1
      BY <1>3, <2>4
    <3>. QED  BY <1>6, <1>7, <2>2, <2>4, <3>1
  <2>. QED  BY <2>3, <2>4
<1>9. h = [i \in 1 .. m |-> h[i]]
  BY <1>7
<1>10. h = [i \in 1 .. m |-> IF i = 1 THEN parts[i] ELSE h[i - 1] \o parts[i]]
  BY <1>8, <1>9
<1>. QED  BY <1>3, <1>10 DEF Together

\* What the first parts are does not depend on the later ones.
LEMMA TogetherAgrees ==
    ASSUME NEW parts, NEW more, NEW n \in Nat, NEW k \in Nat, n # 0, n <= k,
           \A j \in 1 .. n : parts[j] = more[j],
           NEW g, Together(g, parts, n), NEW h, Together(h, more, k)
    PROVE  g[n] = h[n]
<1>. DEFINE T == {m \in 1 .. n : g[m] # h[m]}
<1>1. SUFFICES ASSUME T # {} PROVE FALSE
  BY SMT
<1>2. PICK m \in T : \A y \in T : m <= y
  <2>1. T \in SUBSET Nat
    OBVIOUS
  <2>. HIDE DEF T
  <2>. QED  BY <1>1, <2>1, Minimum
<1>3. m \in 1 .. n /\ m \in 1 .. k /\ g[m] # h[m]
  OBVIOUS
<1>4. /\ g[m] = IF m = 1 THEN parts[m] ELSE g[m - 1] \o parts[m]
      /\ h[m] = IF m = 1 THEN more[m] ELSE h[m - 1] \o more[m]
  BY <1>3 DEF Together
<1>5. m # 1 /\ parts[m] = more[m]
  BY <1>3, <1>4
<1>6. m - 1 \in 1 .. n /\ ~ (m <= m - 1)
  BY <1>3, <1>5
<1>7. g[m - 1] = h[m - 1]
  BY <1>2, <1>6
<1>. QED  BY <1>3, <1>4, <1>5, <1>7

\* The function that FlattenSeq chooses.
LEMMA FlattenIs ==
    ASSUME NEW parts, Len(parts) \in Nat, Len(parts) # 0
    PROVE  \E g : Together(g, parts, Len(parts)) /\ Path!FlattenSeq(parts) = g[Len(parts)]
<1>. DEFINE C == CHOOSE g : Together(g, parts, Len(parts))
<1>1. Together(C, parts, Len(parts))
  BY TogetherExists
<1>2. Path!FlattenSeq(parts) = C[Len(parts)]
  BY DEF Path!FlattenSeq, Together
<1>. QED  BY <1>1, <1>2

LEMMA FlattenNothing == Path!FlattenSeq(<<>>) = <<>>
  BY DEF Path!FlattenSeq

\* One more part comes behind the others.
LEMMA FlattenAppend ==
    ASSUME NEW parts \in Seq(Text), NEW part \in Text, Path!FlattenSeq(parts) \in Text
    PROVE  Path!FlattenSeq(Append(parts, part)) = Path!FlattenSeq(parts) \o part
<1>1. PICK n \in Nat : n = Len(parts)
  OBVIOUS
<1>2. PICK more : more = Append(parts, part)
  OBVIOUS
<1>3. Len(more) = n + 1 /\ more[n + 1] = part /\ \A j \in 1 .. n : parts[j] = more[j]
  BY <1>1, <1>2, AppendProperties
<1>4. PICK h : Together(h, more, n + 1) /\ Path!FlattenSeq(more) = h[n + 1]
  BY <1>1, <1>3, FlattenIs
<1>5. h[n + 1] = IF n + 1 = 1 THEN more[n + 1] ELSE h[(n + 1) - 1] \o more[n + 1]
  <2>1. \A i \in 1 .. n + 1 : h[i] = IF i = 1 THEN more[i] ELSE h[i - 1] \o more[i]
    BY <1>4 DEF Together
  <2>2. n + 1 \in 1 .. n + 1
    BY <1>1
  <2>. QED  BY <2>1, <2>2
<1>6. CASE n = 0
  <2>1. parts = <<>>
    BY <1>1, <1>6, EmptySeq
  <2>2. Path!FlattenSeq(parts) \o part = part
    <3>1. part \in Seq(Characters) /\ Path!FlattenSeq(parts) = <<>>
      BY <2>1, FlattenNothing DEF Text
    <3>. QED  BY <3>1, ConcatEmptySeq
  <2>. QED  BY <1>2, <1>3, <1>4, <1>5, <1>6, <2>2
<1>7. CASE n # 0
  <2>1. PICK g : Together(g, parts, n) /\ Path!FlattenSeq(parts) = g[n]
    BY <1>1, <1>7, FlattenIs
  <2>2. g[n] = h[n]
    <3>1. n <= n + 1 /\ n + 1 \in Nat
      BY <1>1
    <3>2. \A j \in 1 .. n : parts[j] = more[j]
      BY <1>3
    <3>3. PICK k \in Nat : k = n + 1
      BY <3>1
    <3>4. Together(g, parts, n) /\ Together(h, more, k) /\ n <= k
      BY <1>4, <2>1, <3>1, <3>3
    <3>. QED  BY <1>7, <3>2, <3>4, TogetherAgrees
  <2>3. (n + 1) - 1 = n /\ n + 1 # 1
    BY <1>1, <1>7
  <2>. QED  BY <1>2, <1>3, <1>4, <1>5, <2>1, <2>2, <2>3
<1>. QED  BY <1>6, <1>7

\* The parts of a path that is written with a slash before each component, and of one that has
\* a slash only between them (Path.hpp:63-85).
Slashed(cs) == [i \in 1 .. Len(cs) |-> <<Slash>> \o cs[i]]
Parted(cs) == [i \in 1 .. Len(cs) |-> (IF i > 1 THEN <<Slash>> ELSE <<>>) \o cs[i]]

Joined(cs) == Path!FlattenSeq(Slashed(cs))
Relative(cs) == Path!FlattenSeq(Parted(cs))

LEMMA Slashes == <<Slash>> \in Text /\ Len(<<Slash>>) = 1 /\ <<Slash>>[1] = Slash /\ <<>> \in Text
  BY EmptySeq DEF Text, Characters

LEMMA Behind ==
    ASSUME NEW s \in Text
    PROVE  /\ <<Slash>> \o s \in Text /\ <<>> \o s = s
           /\ Len(<<Slash>> \o s) = 1 + Len(s)
           /\ (<<Slash>> \o s)[1] = Slash
           /\ \A i \in 1 .. Len(s) : (<<Slash>> \o s)[i + 1] = s[i]
<1>1. <<Slash>> \in Seq(Characters) /\ s \in Seq(Characters) /\ Len(s) \in Nat /\ Len(<<Slash>>) = 1 /\ <<Slash>>[1] = Slash
  BY Slashes DEF Text
<1>2. /\ <<Slash>> \o s \in Seq(Characters)
      /\ Len(<<Slash>> \o s) = Len(<<Slash>>) + Len(s)
      /\ \A i \in 1 .. Len(<<Slash>>) + Len(s) :
             (<<Slash>> \o s)[i] = IF i <= Len(<<Slash>>) THEN <<Slash>>[i] ELSE s[i - Len(<<Slash>>)]
  BY <1>1, ConcatProperties
<1>3. <<>> \o s = s
  BY <1>1, ConcatEmptySeq
<1>. QED  BY <1>1, <1>2, <1>3 DEF Text

\* A path with one component more.
LEMMA PartsAppend ==
    ASSUME NEW cs \in Seq(Text), NEW c \in Text
    PROVE  /\ Slashed(cs) \in Seq(Text) /\ Parted(cs) \in Seq(Text)
           /\ Slashed(Append(cs, c)) = Append(Slashed(cs), <<Slash>> \o c)
           /\ Parted(Append(cs, c)) = Append(Parted(cs), IF cs = <<>> THEN c ELSE <<Slash>> \o c)
<1>1. PICK n \in Nat : n = Len(cs)
  OBVIOUS
<1>2. PICK ds \in Seq(Text) : ds = Append(cs, c)
  BY AppendProperties
<1>3. Len(ds) = n + 1 /\ ds[n + 1] = c /\ \A i \in 1 .. n : ds[i] = cs[i] /\ cs[i] \in Text
  BY <1>1, <1>2, AppendProperties, ElementOfSeq
<1>4. cs = <<>> <=> n = 0
  BY <1>1, EmptySeq
<1>5. PICK last \in Text : last = <<Slash>> \o c
  BY Behind
<1>6. ASSUME NEW es \in Seq(Text)
      PROVE  /\ Slashed(es) \in Seq(Text) /\ Len(Slashed(es)) = Len(es)
             /\ \A i \in 1 .. Len(es) : Slashed(es)[i] = <<Slash>> \o es[i]
             /\ Parted(es) \in Seq(Text) /\ Len(Parted(es)) = Len(es)
             /\ \A i \in 1 .. Len(es) : Parted(es)[i] = IF i > 1 THEN <<Slash>> \o es[i] ELSE es[i]
  <2>1. \A i \in 1 .. Len(es) : es[i] \in Text
    BY ElementOfSeq
  <2>2. \A i \in 1 .. Len(es) : <<Slash>> \o es[i] \in Text /\ <<>> \o es[i] = es[i]
    BY <2>1, Behind
  <2>3. Len(es) \in Nat
    BY LenProperties
  <2>4. /\ Slashed(es) \in [1 .. Len(es) -> Text]
        /\ \A i \in 1 .. Len(es) : Slashed(es)[i] = <<Slash>> \o es[i]
    BY <2>2 DEF Slashed
  <2>5. \A i \in 1 .. Len(es) : (IF i > 1 THEN <<Slash>> ELSE <<>>) \o es[i] = IF i > 1 THEN <<Slash>> \o es[i] ELSE es[i]
    BY <2>2
  <2>6. /\ Parted(es) \in [1 .. Len(es) -> Text]
        /\ \A i \in 1 .. Len(es) : Parted(es)[i] = IF i > 1 THEN <<Slash>> \o es[i] ELSE es[i]
    BY <2>1, <2>2, <2>5 DEF Parted
  <2>7. ASSUME NEW f \in [1 .. Len(es) -> Text] PROVE f \in Seq(Text) /\ Len(f) = Len(es)
    BY <2>3
  <2>. QED  BY <2>4, <2>6, <2>7
<1>7. Slashed(ds) = Append(Slashed(cs), last)
  <2>1. PICK a \in Seq(Text) : a = Append(Slashed(cs), last)
    BY <1>6, AppendProperties
  <2>2. Len(a) = n + 1 /\ a[n + 1] = last /\ \A i \in 1 .. n : a[i] = Slashed(cs)[i]
    BY <1>1, <1>6, <2>1, AppendProperties
  <2>3. PICK b \in Seq(Text) : b = Slashed(ds)
    BY <1>6
  <2>4. Len(b) = n + 1 /\ \A i \in 1 .. n + 1 : b[i] = <<Slash>> \o ds[i]
    BY <1>3, <1>6, <2>3
  <2>5. ASSUME NEW i \in 1 .. n + 1 PROVE b[i] = a[i]
    <3>1. CASE i = n + 1
      BY <1>3, <1>5, <2>2, <2>4, <3>1
    <3>2. CASE i # n + 1
      <4>1. i \in 1 .. n
        BY <1>1, <3>2
      <4>2. a[i] = Slashed(cs)[i] /\ b[i] = <<Slash>> \o ds[i]
        BY <1>1, <2>2, <2>4, <4>1
      <4>3. ds[i] = cs[i] /\ i \in 1 .. Len(cs)
        BY <1>1, <1>3, <4>1
      <4>4. Slashed(cs)[i] = <<Slash>> \o cs[i]
        BY <1>6, <4>3
      <4>. QED  BY <4>2, <4>3, <4>4
    <3>. QED  BY <3>1, <3>2
  <2>6. b = a
    BY <2>2, <2>4, <2>5, SeqEqual
  <2>. QED  BY <2>1, <2>3, <2>6
<1>8. PICK next \in Text : next = IF cs = <<>> THEN c ELSE last
  OBVIOUS
<1>9. Parted(ds) = Append(Parted(cs), next)
  <2>1. PICK a \in Seq(Text) : a = Append(Parted(cs), next)
    BY <1>6, AppendProperties
  <2>2. Len(a) = n + 1 /\ a[n + 1] = next /\ \A i \in 1 .. n : a[i] = Parted(cs)[i]
    BY <1>1, <1>6, <2>1, AppendProperties
  <2>3. PICK b \in Seq(Text) : b = Parted(ds)
    BY <1>6
  <2>4. Len(b) = n + 1 /\ \A i \in 1 .. n + 1 : b[i] = IF i > 1 THEN <<Slash>> \o ds[i] ELSE ds[i]
    BY <1>3, <1>6, <2>3
  <2>5. ASSUME NEW i \in 1 .. n + 1 PROVE b[i] = a[i]
    <3>1. CASE i = n + 1
      <4>1. b[i] = IF n + 1 > 1 THEN last ELSE c
        BY <1>3, <1>5, <2>4, <3>1
      <4>2. a[i] = IF n = 0 THEN c ELSE last
        BY <1>4, <1>8, <2>2, <3>1
      <4>. QED  BY <4>1, <4>2
    <3>2. CASE i # n + 1
      <4>1. i \in 1 .. n
        BY <1>1, <3>2
      <4>2. a[i] = Parted(cs)[i] /\ b[i] = IF i > 1 THEN <<Slash>> \o ds[i] ELSE ds[i]
        BY <1>1, <2>2, <2>4, <4>1
      <4>3. ds[i] = cs[i] /\ i \in 1 .. Len(cs)
        BY <1>1, <1>3, <4>1
      <4>4. Parted(cs)[i] = IF i > 1 THEN <<Slash>> \o cs[i] ELSE cs[i]
        BY <1>6, <4>3
      <4>. QED  BY <4>2, <4>3, <4>4
    <3>. QED  BY <3>1, <3>2
  <2>6. b = a
    BY <2>2, <2>4, <2>5, SeqEqual
  <2>. QED  BY <2>1, <2>3, <2>6
<1>. QED  BY <1>2, <1>5, <1>6, <1>7, <1>8, <1>9

\* What a path is as a text, component by component.
Reads(cs) == Joined(cs) \in Text /\ Relative(cs) \in Text /\ (cs # <<>> => Joined(cs) = <<Slash>> \o Relative(cs))

LEMMA JoinedNothing == Joined(<<>>) = <<>> /\ Relative(<<>>) = <<>>
<1>1. Slashed(<<>>) = <<>> /\ Parted(<<>>) = <<>>
  BY DEF Slashed, Parted
<1>. QED  BY <1>1, FlattenNothing DEF Joined, Relative

\* One component more comes behind a slash, but for the first of a relative path.
LEMMA JoinedAppend ==
    ASSUME NEW cs \in Seq(Text), NEW c \in Text, Reads(cs)
    PROVE  /\ Joined(Append(cs, c)) = Joined(cs) \o (<<Slash>> \o c)
           /\ Relative(Append(cs, c)) = Relative(cs) \o (IF cs = <<>> THEN c ELSE <<Slash>> \o c)
           /\ Reads(Append(cs, c))
<1>1. PICK ds \in Seq(Text) : ds = Append(cs, c)
  BY AppendProperties
<1>2. PICK last \in Text : last = <<Slash>> \o c
  BY Behind
<1>3. PICK next \in Text : next = IF cs = <<>> THEN c ELSE last
  OBVIOUS
<1>4. /\ Slashed(cs) \in Seq(Text) /\ Slashed(ds) = Append(Slashed(cs), last)
      /\ Parted(cs) \in Seq(Text) /\ Parted(ds) = Append(Parted(cs), next)
  BY <1>1, <1>2, <1>3, PartsAppend
<1>5. Joined(ds) = Joined(cs) \o last
  <2>1. PICK parts \in Seq(Text) : parts = Slashed(cs)
    BY <1>4
  <2>2. Path!FlattenSeq(parts) \in Text
    BY <2>1 DEF Reads, Joined
  <2>3. Path!FlattenSeq(Append(parts, last)) = Path!FlattenSeq(parts) \o last
    BY <2>2, FlattenAppend
  <2>. QED  BY <1>4, <2>1, <2>3 DEF Joined
<1>6. Relative(ds) = Relative(cs) \o next
  <2>1. PICK parts \in Seq(Text) : parts = Parted(cs)
    BY <1>4
  <2>2. Path!FlattenSeq(parts) \in Text
    BY <2>1 DEF Reads, Relative
  <2>3. Path!FlattenSeq(Append(parts, next)) = Path!FlattenSeq(parts) \o next
    BY <2>2, FlattenAppend
  <2>. QED  BY <1>4, <2>1, <2>3 DEF Relative
<1>7. PICK j \in Text, r \in Text : j = Joined(cs) /\ r = Relative(cs)
  BY DEF Reads
<1>8. j \o last \in Text /\ r \o next \in Text
  BY ConcatProperties DEF Text
<1>9. j \o last = <<Slash>> \o (r \o next)
  <2>1. CASE cs = <<>>
    <3>1. j = <<>> /\ r = <<>> /\ next = c
      BY <1>3, <1>7, <2>1, JoinedNothing
    <3>2. j \o last = last /\ r \o next = next
      BY <3>1, ConcatEmptySeq DEF Text
    <3>. QED  BY <1>2, <3>1, <3>2
  <2>2. CASE cs # <<>>
    <3>1. j = <<Slash>> \o r /\ next = last
      BY <1>3, <1>7, <2>2 DEF Reads
    <3>2. (<<Slash>> \o r) \o last = <<Slash>> \o (r \o last)
      BY Slashes, ConcatAssociative DEF Text
    <3>. QED  BY <3>1, <3>2
  <2>. QED  BY <2>1, <2>2
<1>10. Reads(ds)
  BY <1>5, <1>6, <1>7, <1>8, <1>9 DEF Reads
<1>. QED  BY <1>1, <1>2, <1>3, <1>5, <1>6, <1>10

\* So it is for any path: a shortest one that is read differently has a component more than one
\* that is not.
LEMMA AllRead ==
    ASSUME NEW cs \in Seq(Text)
    PROVE  Reads(cs)
<1>. DEFINE T == {n \in Nat : \E ds \in Seq(Text) : Len(ds) = n /\ ~ Reads(ds)}
<1>1. SUFFICES ASSUME T # {} PROVE FALSE
  <2>1. Len(cs) \in Nat
    BY LenProperties
  <2>. QED  BY <2>1
<1>2. PICK n \in T : \A y \in T : n <= y
  <2>1. T \in SUBSET Nat
    OBVIOUS
  <2>. HIDE DEF T
  <2>. QED  BY <1>1, <2>1, Minimum
<1>3. PICK ds \in Seq(Text) : Len(ds) = n /\ ~ Reads(ds)
  OBVIOUS
<1>4. n \in Nat
  OBVIOUS
<1>5. ds # <<>>
  <2>1. Reads(<<>>)
    BY JoinedNothing, Slashes DEF Reads
  <2>. QED  BY <1>3, <2>1
<1>6. PICK es \in Seq(Text), c \in Text : ds = Append(es, c)
  BY <1>5, SequenceEmptyOrAppend
<1>7. Len(es) \in Nat /\ n = Len(es) + 1
  BY <1>3, <1>6, AppendProperties, LenProperties
<1>8. Reads(es)
  <2>1. Len(es) \notin T
    <3>1. ~ (n <= Len(es))
      BY <1>4, <1>7
    <3>. HIDE DEF T
    <3>. QED  BY <1>2, <3>1
  <2>. QED  BY <1>7, <2>1
<1>9. Reads(ds)
  BY <1>6, <1>8, JoinedAppend
<1>. QED  BY <1>3, <1>9

\* A relative path begins with its first component.
LEMMA BeginsWithFirst ==
    ASSUME NEW cs \in Seq(Text), cs # <<>>
    PROVE  \E r \in Text : Relative(cs) = cs[1] \o r
<1>. DEFINE Leads(ds) == \E r \in Text : Relative(ds) = ds[1] \o r
            T == {n \in Nat : \E ds \in Seq(Text) : ds # <<>> /\ Len(ds) = n /\ ~ Leads(ds)}
<1>1. SUFFICES ASSUME T # {} PROVE FALSE
  <2>1. Len(cs) \in Nat
    BY LenProperties
  <2>. QED  BY <2>1
<1>2. PICK n \in T : \A y \in T : n <= y
  <2>1. T \in SUBSET Nat
    OBVIOUS
  <2>. HIDE DEF T
  <2>. QED  BY <1>1, <2>1, Minimum
<1>3. PICK ds \in Seq(Text) : ds # <<>> /\ Len(ds) = n /\ ~ Leads(ds)
  OBVIOUS
<1>4. n \in Nat
  OBVIOUS
<1>6. PICK es \in Seq(Text), c \in Text : ds = Append(es, c)
  BY <1>3, SequenceEmptyOrAppend
<1>7. Len(es) \in Nat /\ n = Len(es) + 1
  BY <1>3, <1>6, AppendProperties, LenProperties
<1>8. Reads(es)
  BY AllRead
<1>9. Relative(ds) = Relative(es) \o (IF es = <<>> THEN c ELSE <<Slash>> \o c)
  BY <1>6, <1>8, JoinedAppend
<1>10. CASE es = <<>>
  <2>1. Relative(es) = <<>> /\ <<>> \o c = c /\ c \o <<>> = c
    BY <1>10, JoinedNothing, ConcatEmptySeq DEF Text
  <2>2. ds[1] = c
    <3>1. Len(es) = 0
      BY <1>10
    <3>2. Append(es, c)[Len(es) + 1] = c
      BY AppendProperties
    <3>. QED  BY <1>6, <3>1, <3>2
  <2>3. Relative(ds) = ds[1] \o <<>>
    BY <1>9, <1>10, <2>1, <2>2
  <2>. QED  BY <1>3, <2>3, Slashes
<1>11. CASE es # <<>>
  <2>1. Leads(es)
    <3>1. Len(es) \notin T
      <4>1. ~ (n <= Len(es))
        BY <1>4, <1>7
      <4>. HIDE DEF T
      <4>. QED  BY <1>2, <4>1
    <3>. QED  BY <1>7, <1>11, <3>1
  <2>2. PICK r \in Text : Relative(es) = es[1] \o r
    BY <2>1
  <2>3. es[1] = ds[1] /\ es[1] \in Text
    <3>1. Len(es) # 0
      BY <1>11, EmptySeq
    <3>2. 1 \in 1 .. Len(es)
      BY <1>7, <3>1
    <3>. QED  BY <1>6, <3>2, AppendProperties, ElementOfSeq
  <2>4. PICK last \in Text : last = <<Slash>> \o c
    BY Behind
  <2>5. r \o last \in Text
    BY ConcatProperties DEF Text
  <2>6. (es[1] \o r) \o last = es[1] \o (r \o last)
    <3>1. PICK e \in Text : e = es[1]
      BY <2>3
    <3>2. (e \o r) \o last = e \o (r \o last)
      <4>1. e \in Seq(Characters) /\ r \in Seq(Characters) /\ last \in Seq(Characters)
        BY DEF Text
      <4>. QED  BY <4>1, ConcatAssociative
    <3>. QED  BY <3>1, <3>2
  <2>7. Relative(ds) = ds[1] \o (r \o last)
    BY <1>9, <1>11, <2>2, <2>3, <2>4, <2>6
  <2>. QED  BY <1>3, <2>5, <2>7
<1>. QED  BY <1>10, <1>11

-----------------------------------------------------------------------------
(* What a path says.                                                       *)

\* A component is a text without slashes.
Component == Seq(Letter)

LEMMA ComponentIsText ==
    ASSUME Slash \notin Letter
    PROVE  /\ Component \subseteq Text /\ Seq(Component) \subseteq Seq(Text)
           /\ \A c \in Component : ~ Path!Contains(c, Slash)
<1>1. Letter \subseteq Characters
  BY DEF Characters
<1>2. Component \subseteq Text
  BY <1>1, SeqMonotonic DEF Component, Text
<1>3. Seq(Component) \subseteq Seq(Text)
  BY <1>2, SeqMonotonic
<1>4. ASSUME NEW c \in Component PROVE ~ Path!Contains(c, Slash)
  BY ElementOfSeq DEF Component, Path!Contains
<1>. QED  BY <1>2, <1>3, <1>4

LEMMA StringIs ==
    ASSUME NEW cs
    PROVE  /\ Path!String(<<TRUE, cs>>) = IF cs = <<>> THEN <<Slash>> ELSE Joined(cs)
           /\ Path!String(<<FALSE, cs>>) = Relative(cs)
  BY DEF Path!String, Joined, Relative, Slashed, Parted

\* The text, with a slash in front if it has none.
Absolute(t) == IF Head(t) = Slash THEN t ELSE <<Slash>> \o t

LEMMA MeansIs ==
    ASSUME NEW a, NEW cs, NEW t
    PROVE  Path!Means(<<a, cs>>, t) <=> /\ a <=> Head(t) = Slash
                                        /\ \A i \in 1 .. Len(cs) : ~ Path!Contains(cs[i], Slash)
                                        /\ Absolute(t) \in {Joined(cs), Append(Joined(cs), Slash)}
  BY DEF Path!Means, Absolute, Joined, Slashed

\* The last character of a path is the last of its last component.
LEMMA EndsWithLast ==
    ASSUME NEW s \in Text, NEW c \in Text, c # <<>>
    PROVE  /\ s \o c \in Text /\ s \o c # <<>>
           /\ Path!Last(s \o c) = c[Len(c)]
<1>1. s \in Seq(Characters) /\ c \in Seq(Characters)
  BY DEF Text
<1>2. /\ s \o c \in Seq(Characters) /\ Len(s \o c) = Len(s) + Len(c)
      /\ \A i \in 1 .. Len(s) + Len(c) : (s \o c)[i] = IF i <= Len(s) THEN s[i] ELSE c[i - Len(s)]
  BY <1>1, ConcatProperties
<1>3. Len(s) \in Nat /\ Len(c) \in Nat \ {0}
  BY <1>1, EmptySeq, LenProperties
<1>4. (s \o c)[Len(s) + Len(c)] = c[Len(c)]
  <2>1. Len(s) + Len(c) \in 1 .. Len(s) + Len(c) /\ ~ (Len(s) + Len(c) <= Len(s)) /\ (Len(s) + Len(c)) - Len(s) = Len(c)
    BY <1>3
  <2>. QED  BY <1>2, <2>1
<1>5. s \o c # <<>>
  BY <1>2, <1>3
<1>. QED  BY <1>2, <1>4, <1>5 DEF Path!Last, Text

\* parent() and filename() (Path.hpp:44-61).
LEMMA CutIsWhole ==
    ASSUME Slash \notin Letter, NEW a \in BOOLEAN, NEW cs \in Seq(Component), NEW c \in Component
    PROVE  Path!String(<<a, Append(cs, c)>>) = Path!Prefix(<<a, cs>>) \o c
<1>1. cs \in Seq(Text) /\ c \in Text
  BY ComponentIsText
<1>2. Reads(cs)
  BY <1>1, AllRead
<1>3. /\ Joined(Append(cs, c)) = Joined(cs) \o (<<Slash>> \o c)
      /\ Relative(Append(cs, c)) = Relative(cs) \o (IF cs = <<>> THEN c ELSE <<Slash>> \o c)
  BY <1>1, <1>2, JoinedAppend
<1>4. Append(cs, c) # <<>>
  BY AppendProperties
<1>5. ASSUME NEW s \in Text PROVE s \o (<<Slash>> \o c) = Append(s, Slash) \o c
  <2>1. s \in Seq(Characters) /\ c \in Seq(Characters) /\ <<Slash>> \in Seq(Characters) /\ Slash \in Characters
    BY <1>1, Slashes DEF Text, Characters
  <2>2. Append(s, Slash) = s \o <<Slash>>
    BY <2>1, AppendIsConcat
  <2>3. (s \o <<Slash>>) \o c = s \o (<<Slash>> \o c)
    BY <2>1, ConcatAssociative
  <2>. QED  BY <2>2, <2>3
<1>6. CASE a = TRUE
  <2>1. Path!String(<<a, Append(cs, c)>>) = Joined(cs) \o (<<Slash>> \o c)
    BY <1>3, <1>4, <1>6, StringIs
  <2>2. CASE cs = <<>>
    <3>1. Path!Prefix(<<a, cs>>) = <<Slash>>
      BY <1>6, <2>2, StringIs DEF Path!Prefix
    <3>2. Joined(cs) \o (<<Slash>> \o c) = <<Slash>> \o c
      BY <1>1, <2>2, JoinedNothing, Behind
    <3>. QED  BY <2>1, <3>1, <3>2
  <2>3. CASE cs # <<>>
    <3>1. Path!Prefix(<<a, cs>>) = Append(Joined(cs), Slash)
      BY <1>6, <2>3, StringIs DEF Path!Prefix
    <3>. QED  BY <1>2, <1>5, <2>1, <3>1 DEF Reads
  <2>. QED  BY <2>2, <2>3
<1>7. CASE a = FALSE
  <2>1. Path!String(<<a, Append(cs, c)>>) = Relative(cs) \o (IF cs = <<>> THEN c ELSE <<Slash>> \o c)
    BY <1>3, <1>7, StringIs
  <2>2. CASE cs = <<>>
    <3>1. Path!Prefix(<<a, cs>>) = <<>>
      BY <1>7, <2>2, StringIs, JoinedNothing DEF Path!Prefix
    <3>2. Relative(cs) = <<>>
      BY <2>2, JoinedNothing
    <3>. QED  BY <2>1, <2>2, <3>1, <3>2
  <2>3. CASE cs # <<>>
    <3>1. Path!Prefix(<<a, cs>>) = Append(Relative(cs), Slash)
      BY <1>7, <2>3, StringIs DEF Path!Prefix
    <3>. QED  BY <1>2, <1>5, <2>1, <2>3, <3>1 DEF Reads
  <2>. QED  BY <2>2, <2>3
<1>. QED  BY <1>6, <1>7

\* A path that is written as a text is read from it again (Path.hpp:63-85).
LEMMA WrittenIsRead ==
    ASSUME Slash \notin Letter, NEW a \in BOOLEAN, NEW cs \in Seq(Component),
           \A i \in 1 .. Len(cs) : cs[i] # <<>>, a \/ cs # <<>>
    PROVE  /\ Path!String(<<a, cs>>) \in Text /\ Path!String(<<a, cs>>) # <<>>
           /\ Path!Means(<<a, cs>>, Path!String(<<a, cs>>))
           /\ Path!Last(Path!String(<<a, cs>>)) = Slash => cs = <<>>
<1>1. cs \in Seq(Text) /\ \A c \in Component : c \in Text /\ ~ Path!Contains(c, Slash)
  BY ComponentIsText
<1>2. Reads(cs)
  BY <1>1, AllRead
<1>3. \A i \in 1 .. Len(cs) : cs[i] \in Component /\ ~ Path!Contains(cs[i], Slash)
  BY <1>1, ElementOfSeq
<1>4. PICK t : t = Path!String(<<a, cs>>)
  OBVIOUS
<1>5. PICK j \in Text, r \in Text : j = Joined(cs) /\ r = Relative(cs) /\ (cs # <<>> => j = <<Slash>> \o r)
  BY <1>2 DEF Reads
<1>6. CASE cs = <<>>
  <2>1. a = TRUE /\ t = <<Slash>> /\ j = <<>>
    BY <1>4, <1>5, <1>6, StringIs, JoinedNothing
  <2>2. Head(t) = Slash /\ t \in Text /\ t # <<>>
    BY <2>1, Slashes
  <2>3. Absolute(t) = Append(j, Slash)
    <3>1. Append(<<>>, Slash) = <<Slash>>
      OBVIOUS
    <3>. QED  BY <2>1, <2>2, <3>1 DEF Absolute
  <2>4. Path!Means(<<a, cs>>, t)
    BY <1>3, <1>5, <2>1, <2>2, <2>3, MeansIs
  <2>. QED  BY <1>4, <1>6, <2>2, <2>4
<1>7. CASE cs # <<>>
  <2>1. PICK es \in Seq(Component), c \in Component : cs = Append(es, c)
    BY <1>7, SequenceEmptyOrAppend
  <2>2. c # <<>> /\ c \in Text /\ c[Len(c)] # Slash
    <3>1. Len(cs) = Len(es) + 1 /\ cs[Len(es) + 1] = c /\ Len(es) \in Nat
      BY <2>1, AppendProperties, LenProperties
    <3>2. c # <<>>
      BY <3>1
    <3>3. Len(c) \in 1 .. Len(c)
      BY <3>2, EmptySeq DEF Component
    <3>. QED  BY <1>1, <3>2, <3>3 DEF Path!Contains
  <2>3. Reads(es) /\ es \in Seq(Text)
    BY ComponentIsText, AllRead
  <2>4. j = Joined(es) \o (<<Slash>> \o c) /\ r = Relative(es) \o (IF es = <<>> THEN c ELSE <<Slash>> \o c)
    BY <1>5, <2>1, <2>2, <2>3, JoinedAppend
  <2>5. /\ <<Slash>> \o c \in Text /\ <<Slash>> \o c # <<>> /\ (<<Slash>> \o c)[Len(<<Slash>> \o c)] = c[Len(c)]
    BY <2>2, Slashes, EndsWithLast DEF Path!Last
  <2>6. /\ j # <<>> /\ Path!Last(j) = c[Len(c)]
        /\ r # <<>> /\ Path!Last(r) = c[Len(c)]
    <3>1. Joined(es) \in Text /\ Relative(es) \in Text
      BY <2>3 DEF Reads
    <3>. QED  BY <2>2, <2>4, <2>5, <3>1, EndsWithLast
  <2>7. CASE a = TRUE
    <3>1. t = j
      BY <1>4, <1>5, <1>7, <2>7, StringIs
    <3>2. Head(t) = Slash
      BY <1>5, <1>7, <2>6, <3>1, Behind
    <3>3. Path!Means(<<a, cs>>, t)
      BY <1>3, <1>5, <2>7, <3>1, <3>2, MeansIs DEF Absolute
    <3>. QED  BY <1>4, <2>2, <2>6, <3>1, <3>3
  <2>8. CASE a = FALSE
    <3>1. t = r
      BY <1>4, <1>5, <2>8, StringIs
    <3>2. PICK s \in Text : r = cs[1] \o s
      BY <1>1, <1>5, <1>7, BeginsWithFirst
    <3>3. PICK f \in Component : f = cs[1] /\ f # <<>>
      <4>1. 1 \in 1 .. Len(cs)
        BY <1>7, EmptySeq
      <4>. QED  BY <1>3, <4>1
    <3>4. Head(t) # Slash
      <4>1. f \in Seq(Characters) /\ s \in Seq(Characters) /\ Len(f) \in Nat \ {0}
        BY <1>1, <3>3, EmptySeq DEF Text
      <4>2. (f \o s)[1] = f[1]
        <5>1. 1 \in 1 .. Len(f) + Len(s) /\ 1 <= Len(f)
          BY <4>1, LenProperties
        <5>. QED  BY <4>1, <5>1, ConcatProperties
      <4>3. f[1] # Slash
        BY <1>1, <4>1 DEF Path!Contains
      <4>. QED  BY <2>6, <3>1, <3>2, <3>3, <4>2, <4>3
    <3>5. Path!Means(<<a, cs>>, t)
      BY <1>3, <1>5, <1>7, <2>8, <3>1, <3>4, MeansIs DEF Absolute
    <3>. QED  BY <1>4, <2>2, <2>6, <3>1, <3>5
  <2>. QED  BY <2>7, <2>8
<1>. QED  BY <1>6, <1>7

-----------------------------------------------------------------------------
(* The constructor of a path.                                              *)

\* What the lexer has left behind, with a slash in front if the text has none.
Consumed == (IF Head(text) = Slash THEN <<>> ELSE <<Slash>>) \o SubSeq(text, 1, lexerOffset)

PathTypes ==
    /\ text \in Text /\ text # <<>>
    /\ lexerOffset \in 0 .. Len(text) /\ start \in 0 .. Len(text)
    /\ m_is_absolute \in BOOLEAN
    /\ m_components \in Seq(Component)
    /\ at \in {"absolute", "loop", "consume", "slash", "done"}

\* Between two components: the slash behind the last one is consumed, or there is none.
BetweenInv ==
    \/ Consumed = Joined(m_components) \o <<Slash>>
    \/ /\ lexerOffset = Len(text)
       /\ Consumed = Joined(m_components)
       /\ m_components # <<>> /\ m_components[Len(m_components)] # <<>>

\* Within a component, which is not empty when the text ends.
WithinInv ==
    /\ start <= lexerOffset /\ start < Len(text)
    /\ Path!Substr \in Component
    /\ Consumed = (Joined(m_components) \o <<Slash>>) \o Path!Substr

\* Behind a component.
BehindInv ==
    /\ Path!Stops
    /\ m_components # <<>>
    /\ Consumed = Joined(m_components)
    /\ lexerOffset = Len(text) => m_components[Len(m_components)] # <<>>

PathInv ==
    /\ PathTypes
    /\ at = "absolute" => lexerOffset = 0 /\ m_components = <<>>
    /\ at \in {"loop", "consume", "slash"} => (m_is_absolute <=> Head(text) = Slash)
    /\ at = "loop" => BetweenInv
    /\ at = "consume" => WithinInv
    /\ at = "slash" => BehindInv

LEMMA TextsAreTexts ==
    ASSUME NEW input \in Path!Texts
    PROVE  input \in Text /\ input # <<>>
<1>1. PICK n \in 1 .. MaxText : input \in [1 .. n -> Characters]
  BY DEF Path!Texts, Characters
<1>2. n \in Nat \ {0}
  BY <1>1
<1>3. input \in Seq(Characters) /\ Len(input) = n
  BY <1>1, <1>2
<1>. QED  BY <1>2, <1>3, EmptySeq DEF Text

\* The lexer is at the end of the text, or in front of one more character.
LEMMA LexerIs ==
    ASSUME PathTypes
    PROVE  /\ Path!eof <=> lexerOffset = Len(text)
           /\ Len(text) \in Nat \ {0}
           /\ ~ Path!eof => lexerOffset + 1 \in 1 .. Len(text) /\ text[lexerOffset + 1] \in Characters
           /\ Path!Peeks(Slash) <=> ~ Path!eof /\ text[lexerOffset + 1] = Slash
<1>1. text \in Seq(Characters) /\ Len(text) \in Nat \ {0} /\ lexerOffset \in 0 .. Len(text)
  BY EmptySeq DEF PathTypes, Text
<1>2. Path!eof <=> lexerOffset = Len(text)
  BY <1>1 DEF Path!eof
<1>. QED  BY <1>1, <1>2, ElementOfSeq DEF Path!Peeks

\* A character more.
LEMMA OneMore ==
    ASSUME PathTypes, ~ Path!eof, NEW k \in 0 .. lexerOffset
    PROVE  /\ SubSeq(text, k + 1, lexerOffset) \in Text
           /\ SubSeq(text, k + 1, lexerOffset + 1) = SubSeq(text, k + 1, lexerOffset) \o <<text[lexerOffset + 1]>>
<1>1. text \in Seq(Characters) /\ Len(text) \in Nat /\ lexerOffset \in Nat /\ lexerOffset + 1 \in 1 .. Len(text)
  BY LexerIs DEF PathTypes, Text
<1>2. PICK t \in Seq(Characters), n \in Nat, m \in Nat : t = text /\ n = lexerOffset + 1 /\ m = k + 1
  BY <1>1
<1>3. m \in 1 .. Len(t) /\ n \in m .. Len(t) /\ n - 1 = lexerOffset
  BY <1>1, <1>2
<1>4. SubSeq(t, m, n) = SubSeq(t, m, n - 1) \o <<t[n]>>
  BY <1>3, SubSeqRecursiveSecond
<1>5. \A i \in m .. n - 1 : t[i] \in Characters
  BY <1>3, ElementOfSeq
<1>6. SubSeq(t, m, n - 1) \in Seq(Characters)
  BY <1>3, <1>5, SubSeqProperties
<1>. QED  BY <1>2, <1>3, <1>4, <1>6 DEF Text

\* What was consumed is a text, and grows by a character.
LEMMA ConsumedGrows ==
    ASSUME PathTypes, ~ Path!eof, text' = text, lexerOffset' = lexerOffset + 1
    PROVE  /\ Consumed \in Text
           /\ Consumed' = Consumed \o <<text[lexerOffset + 1]>>
<1>1. PICK s \in Text : s = SubSeq(text, 1, lexerOffset)
  <2>1. 0 \in 0 .. lexerOffset /\ 0 + 1 = 1
    BY DEF PathTypes
  <2>. QED  BY <2>1, OneMore
<1>2. SubSeq(text, 1, lexerOffset + 1) = s \o <<text[lexerOffset + 1]>>
  <2>1. 0 \in 0 .. lexerOffset /\ 0 + 1 = 1
    BY DEF PathTypes
  <2>. QED  BY <1>1, <2>1, OneMore
<1>3. PICK front \in Text : front = IF Head(text) = Slash THEN <<>> ELSE <<Slash>>
  BY Slashes
<1>4. <<text[lexerOffset + 1]>> \in Seq(Characters)
  BY LexerIs
<1>5. front \o s \in Text /\ front \o (s \o <<text[lexerOffset + 1]>>) = (front \o s) \o <<text[lexerOffset + 1]>>
  BY <1>4, ConcatProperties, ConcatAssociative DEF Text
<1>6. Consumed = front \o s
  BY <1>1, <1>3 DEF Consumed
<1>7. Consumed' = front \o (s \o <<text[lexerOffset + 1]>>)
  BY <1>2, <1>3 DEF Consumed
<1>. QED  BY <1>5, <1>6, <1>7

\* At its end, it is all of the text.
LEMMA ConsumedAll ==
    ASSUME PathTypes, lexerOffset = Len(text)
    PROVE  Consumed = Absolute(text)
<1>1. text \in Seq(Characters)
  BY DEF PathTypes, Text
<1>2. SubSeq(text, 1, lexerOffset) = text
  BY <1>1, SubSeqFull
<1>3. <<>> \o text = text
  BY <1>1, ConcatEmptySeq
<1>. QED  BY <1>2, <1>3 DEF Consumed, Absolute

\* The components are texts, and the path can be written.
LEMMA ComponentsRead ==
    ASSUME Slash \notin Letter, NEW cs \in Seq(Component)
    PROVE  cs \in Seq(Text) /\ Reads(cs) /\ Joined(cs) \in Text /\ Relative(cs) \in Text
<1>1. cs \in Seq(Text)
  BY ComponentIsText
<1>2. Reads(cs)
  BY <1>1, AllRead
<1>. QED  BY <1>1, <1>2 DEF Reads

LEMMA PathStart ==
    ASSUME PathTypes, lexerOffset = 0, m_components = <<>>, Path!Absolute
    PROVE  (m_is_absolute' <=> Head(text) = Slash) /\ BetweenInv' /\ lexerOffset' \in 0 .. Len(text)
<1>1. /\ text' = text /\ m_components' = <<>>
      /\ m_is_absolute' = Path!Peeks(Slash)
      /\ lexerOffset' = IF Path!Peeks(Slash) THEN lexerOffset + 1 ELSE lexerOffset
  BY DEF Path!Absolute
<1>2. Len(text) \in Nat \ {0} /\ ~ Path!eof /\ text[1] \in Characters
  BY LexerIs
<1>3. Head(text) = text[1]
  BY DEF PathTypes, Text
<1>4. Path!Peeks(Slash) <=> Head(text) = Slash
  BY <1>2, <1>3, LexerIs
<1>5. PICK front \in Text : front = IF Head(text) = Slash THEN <<>> ELSE <<Slash>>
  BY Slashes
<1>6. Consumed = front
  <2>1. SubSeq(text, 1, 0) = <<>>
    BY SubSeqEmpty
  <2>2. front \o <<>> = front
    BY ConcatEmptySeq DEF Text
  <2>. QED  BY <1>5, <2>1, <2>2 DEF Consumed
<1>7. Consumed' = <<Slash>>
  <2>1. CASE Path!Peeks(Slash)
    <3>1. front = <<>> /\ text[lexerOffset + 1] = Slash
      BY <1>4, <1>5, <2>1, LexerIs
    <3>2. Consumed' = Consumed \o <<text[lexerOffset + 1]>>
      BY <1>1, <1>2, <2>1, ConsumedGrows
    <3>. QED  BY <1>6, <3>1, <3>2, Slashes, Behind
  <2>2. CASE ~ Path!Peeks(Slash)
    <3>1. Consumed' = Consumed
      BY <1>1, <2>2 DEF Consumed
    <3>. QED  BY <1>4, <1>5, <1>6, <2>2, <3>1
  <2>. QED  BY <2>1, <2>2
<1>8. Joined(<<>>) \o <<Slash>> = <<Slash>>
  BY JoinedNothing, Slashes, Behind
<1>9. Consumed' = Joined(m_components') \o <<Slash>>
  BY <1>1, <1>7, <1>8
<1>10. lexerOffset' \in 0 .. Len(text)
  BY <1>1, <1>2
<1>. QED  BY <1>1, <1>4, <1>9, <1>10 DEF BetweenInv

LEMMA PathLoops ==
    ASSUME Slash \notin Letter, PathTypes, BetweenInv, Path!Loop, ~ Path!eof
    PROVE  WithinInv'
<1>1. /\ text' = text /\ lexerOffset' = lexerOffset /\ m_components' = m_components /\ start' = lexerOffset
  BY DEF Path!Loop, Path!path
<1>2. lexerOffset \in Nat /\ Len(text) \in Nat /\ lexerOffset < Len(text)
  BY LexerIs DEF PathTypes
<1>3. Consumed = Joined(m_components) \o <<Slash>>
  BY <1>2 DEF BetweenInv
<1>4. Path!Substr' = <<>>
  <2>1. SubSeq(text, lexerOffset + 1, lexerOffset) = <<>>
    BY <1>2, SubSeqEmpty
  <2>. QED  BY <1>1, <2>1 DEF Path!Substr
<1>5. PICK j \in Text : j = Joined(m_components)
  BY ComponentsRead DEF PathTypes
<1>6. (j \o <<Slash>>) \o <<>> = j \o <<Slash>>
  <2>1. j \o <<Slash>> \in Seq(Characters)
    BY Slashes, ConcatProperties DEF Text
  <2>. QED  BY <2>1, ConcatEmptySeq
<1>7. Consumed' = (Joined(m_components') \o <<Slash>>) \o Path!Substr'
  <2>1. Consumed' = Consumed
    BY <1>1 DEF Consumed
  <2>. QED  BY <1>1, <1>3, <1>4, <1>5, <1>6, <2>1
<1>8. Path!Substr' \in Component
  BY <1>4, EmptySeq DEF Component
<1>9. start' <= lexerOffset' /\ start' < Len(text')
  BY <1>1, <1>2
<1>. QED  BY <1>7, <1>8, <1>9 DEF WithinInv

LEMMA PathConsumes ==
    ASSUME Slash \notin Letter, PathTypes, WithinInv, Path!Consume
    PROVE  WithinInv' /\ lexerOffset' \in 0 .. Len(text)
<1>1. /\ text' = text /\ m_components' = m_components /\ start' = start
      /\ lexerOffset' = lexerOffset + 1
      /\ ~ Path!eof /\ ~ Path!Peeks(Slash)
  BY DEF Path!Consume, Path!path, Path!Stops
<1>2. PICK c \in Letter : c = text[lexerOffset + 1]
  BY <1>1, LexerIs DEF Characters
<1>3. lexerOffset \in Nat /\ Len(text) \in Nat /\ lexerOffset < Len(text) /\ start \in 0 .. lexerOffset
  BY <1>1, LexerIs DEF PathTypes, WithinInv
<1>4. PICK s \in Component : s = Path!Substr
  BY DEF WithinInv
<1>5. Path!Substr' = s \o <<c>>
  <2>1. SubSeq(text, start + 1, lexerOffset + 1) = SubSeq(text, start + 1, lexerOffset) \o <<text[lexerOffset + 1]>>
    BY <1>1, <1>3, OneMore
  <2>. QED  BY <1>1, <1>2, <1>4, <2>1 DEF Path!Substr
<1>6. s \o <<c>> \in Component
  BY ConcatProperties DEF Component
<1>7. PICK j \in Text : j = Joined(m_components)
  BY ComponentsRead DEF PathTypes
<1>8. Consumed' = (j \o <<Slash>>) \o (s \o <<c>>)
  <2>1. Consumed' = Consumed \o <<c>>
    BY <1>1, <1>2, ConsumedGrows
  <2>2. Consumed = (j \o <<Slash>>) \o s
    BY <1>4, <1>7 DEF WithinInv
  <2>3. PICK k \in Seq(Characters) : k = j \o <<Slash>>
    BY Slashes, ConcatProperties DEF Text
  <2>4. s \in Seq(Characters) /\ <<c>> \in Seq(Characters)
    BY ComponentIsText DEF Characters, Text
  <2>5. (k \o s) \o <<c>> = k \o (s \o <<c>>)
    BY <2>4, ConcatAssociative
  <2>. QED  BY <2>1, <2>2, <2>3, <2>5
<1>9. start' <= lexerOffset' /\ start' < Len(text') /\ lexerOffset' \in 0 .. Len(text)
  BY <1>1, <1>3 DEF WithinInv
<1>. QED  BY <1>1, <1>5, <1>6, <1>7, <1>8, <1>9 DEF WithinInv

LEMMA PathAppends ==
    ASSUME Slash \notin Letter, PathTypes, WithinInv, Path!Component
    PROVE  BehindInv' /\ m_components' \in Seq(Component)
<1>1. /\ text' = text /\ lexerOffset' = lexerOffset /\ Path!Stops
      /\ m_components' = Append(m_components, Path!Substr)
  BY DEF Path!Component
<1>2. PICK s \in Component : s = Path!Substr
  BY DEF WithinInv
<1>3. PICK cs \in Seq(Component) : cs = m_components
  BY DEF PathTypes
<1>4. PICK ds \in Seq(Component) : ds = Append(cs, s) /\ ds # <<>> /\ ds[Len(ds)] = s
  <2>1. /\ Append(cs, s) \in Seq(Component) /\ Append(cs, s) # <<>>
        /\ Len(Append(cs, s)) = Len(cs) + 1 /\ Append(cs, s)[Len(cs) + 1] = s
    BY AppendProperties
  <2>. QED  BY <2>1
<1>5. Joined(ds) = Joined(cs) \o (<<Slash>> \o s)
  <2>1. cs \in Seq(Text) /\ Reads(cs) /\ s \in Text
    BY ComponentsRead, ComponentIsText
  <2>. QED  BY <1>4, <2>1, JoinedAppend
<1>6. Consumed = Joined(ds)
  <2>1. PICK j \in Seq(Characters) : j = Joined(cs)
    BY ComponentsRead DEF Text
  <2>2. s \in Seq(Characters) /\ <<Slash>> \in Seq(Characters)
    BY ComponentIsText, Slashes DEF Text
  <2>3. (j \o <<Slash>>) \o s = j \o (<<Slash>> \o s)
    BY <2>2, ConcatAssociative
  <2>. QED  BY <1>2, <1>3, <1>5, <2>1, <2>3 DEF WithinInv
<1>7. ASSUME lexerOffset = Len(text) PROVE s # <<>>
  <2>1. text \in Seq(Characters) /\ Len(text) \in Nat /\ start \in Nat /\ lexerOffset \in Nat /\ start < lexerOffset
    BY <1>7, LexerIs DEF PathTypes, WithinInv, Text
  <2>2. \A i \in start + 1 .. lexerOffset : text[i] \in Characters
    BY <1>7, <2>1, ElementOfSeq
  <2>3. Len(SubSeq(text, start + 1, lexerOffset)) = lexerOffset - (start + 1) + 1
    BY <2>1, <2>2, SubSeqProperties
  <2>4. Len(s) # 0
    BY <1>2, <2>1, <2>3 DEF Path!Substr
  <2>. QED  BY <2>4
<1>8. Path!Stops'
  BY <1>1 DEF Path!Stops, Path!eof, Path!Peeks
<1>9. m_components' = ds /\ Consumed' = Consumed
  BY <1>1, <1>2, <1>3, <1>4 DEF Consumed
<1>. QED  BY <1>1, <1>4, <1>6, <1>7, <1>8, <1>9 DEF BehindInv

LEMMA PathSkips ==
    ASSUME PathTypes, BehindInv, Path!SkipSlash
    PROVE  BetweenInv' /\ lexerOffset' \in 0 .. Len(text)
<1>1. /\ text' = text /\ m_components' = m_components
      /\ lexerOffset' = IF Path!Peeks(Slash) THEN lexerOffset + 1 ELSE lexerOffset
  BY DEF Path!SkipSlash, Path!path
<1>2. CASE Path!Peeks(Slash)
  <2>1. ~ Path!eof /\ text[lexerOffset + 1] = Slash
    BY <1>2, LexerIs
  <2>2. Consumed' = Consumed \o <<Slash>>
    BY <1>1, <1>2, <2>1, ConsumedGrows
  <2>3. lexerOffset' \in 0 .. Len(text)
    BY <1>1, <1>2, <2>1, LexerIs DEF PathTypes
  <2>. QED  BY <1>1, <2>2, <2>3 DEF BehindInv, BetweenInv
<1>3. CASE ~ Path!Peeks(Slash)
  <2>1. lexerOffset = Len(text)
    BY <1>3, LexerIs DEF BehindInv, Path!Stops
  <2>2. Consumed' = Consumed
    BY <1>1, <1>3 DEF Consumed
  <2>3. lexerOffset' = Len(text') /\ lexerOffset' \in 0 .. Len(text)
    BY <1>1, <1>3, <2>1 DEF PathTypes
  <2>. QED  BY <1>1, <2>1, <2>2, <2>3 DEF BehindInv, BetweenInv
<1>. QED  BY <1>2, <1>3

\* The loop ends when the components are what the text says (Path.hpp:15-30).
LEMMA PathEnds ==
    ASSUME Slash \notin Letter, PathTypes, m_is_absolute <=> Head(text) = Slash, BetweenInv, Path!eof
    PROVE  Path!Means(Path!path, text) /\ Path!Exact(Path!path, text)
<1>1. PICK cs \in Seq(Component) : cs = m_components
  BY DEF PathTypes
<1>2. PICK a \in BOOLEAN : a = m_is_absolute
  BY DEF PathTypes
<1>3. PICK t \in Text : t = text /\ t # <<>>
  BY DEF PathTypes
<1>4. PICK j \in Text, r \in Text : j = Joined(cs) /\ r = Relative(cs) /\ (cs # <<>> => j = <<Slash>> \o r)
  BY ComponentsRead DEF Reads
<1>5. Len(t) \in Nat \ {0} /\ Len(j) \in Nat /\ Len(r) \in Nat
  BY <1>3, EmptySeq, LenProperties DEF Text
<1>6. Absolute(t) = Consumed
  BY <1>3, LexerIs, ConsumedAll
<1>7. a <=> Head(t) = Slash
  BY <1>2, <1>3
<1>8. \A i \in 1 .. Len(cs) : ~ Path!Contains(cs[i], Slash)
  BY ComponentIsText, ElementOfSeq
<1>9. j \o <<Slash>> = Append(j, Slash) /\ Len(Append(j, Slash)) = Len(j) + 1
  <2>1. j \in Seq(Characters) /\ Slash \in Characters
    BY DEF Text, Characters
  <2>. QED  BY <2>1, AppendIsConcat, AppendProperties
<1>10. Path!String(<<a, cs>>) = IF a THEN IF cs = <<>> THEN <<Slash>> ELSE j ELSE r
  BY <1>4, StringIs
<1>11. CASE Consumed = j \o <<Slash>>
  <2>1. Path!Means(<<a, cs>>, t)
    BY <1>4, <1>6, <1>7, <1>8, <1>9, <1>11, MeansIs
  <2>2. Len(Absolute(t)) = IF a THEN Len(t) ELSE 1 + Len(t)
    BY <1>7, Behind DEF Absolute
  <2>3. CASE cs = <<>>
    <3>1. j = <<>> /\ j \o <<Slash>> = <<Slash>> /\ Len(<<Slash>>) = 1
      BY <1>4, <2>3, JoinedNothing, Slashes, Behind
    <3>2. a
      BY <1>5, <1>6, <1>11, <2>2, <3>1
    <3>3. t = <<Slash>>
      BY <1>6, <1>7, <1>11, <3>1, <3>2 DEF Absolute
    <3>. QED  BY <1>1, <1>2, <1>3, <2>1, <3>3 DEF Path!path, Path!Exact
  <2>4. CASE cs # <<>>
    <3>1. Len(Absolute(t)) = Len(j) + 1 /\ Len(j) = 1 + Len(r)
      BY <1>4, <1>6, <1>9, <1>11, <2>4, Behind
    <3>2. Len(t) = Len(Path!String(<<a, cs>>)) + 1
      BY <1>5, <1>10, <2>2, <2>4, <3>1
    <3>. QED  BY <1>1, <1>2, <1>3, <2>1, <3>2 DEF Path!path, Path!Exact
  <2>. QED  BY <2>3, <2>4
<1>12. CASE Consumed # j \o <<Slash>>
  <2>1. Consumed = j /\ cs # <<>> /\ cs[Len(cs)] # <<>>
    BY <1>1, <1>4, <1>12 DEF BetweenInv
  <2>2. Path!Means(<<a, cs>>, t)
    BY <1>4, <1>6, <1>7, <1>8, <2>1, MeansIs
  <2>3. PICK es \in Seq(Component), c \in Component : cs = Append(es, c)
    BY <2>1, SequenceEmptyOrAppend
  <2>4. c # <<>> /\ c \in Text /\ c[Len(c)] # Slash
    <3>1. Len(cs) = Len(es) + 1 /\ cs[Len(es) + 1] = c /\ Len(es) \in Nat
      BY <2>3, AppendProperties, LenProperties
    <3>2. c # <<>>
      BY <2>1, <3>1
    <3>3. Len(c) \in 1 .. Len(c) /\ ~ Path!Contains(c, Slash)
      BY <3>2, EmptySeq, ComponentIsText DEF Component
    <3>. QED  BY <3>2, <3>3, ComponentIsText DEF Path!Contains
  <2>5. j = Joined(es) \o (<<Slash>> \o c)
    <3>1. es \in Seq(Text) /\ Reads(es)
      BY ComponentsRead
    <3>. QED  BY <1>4, <2>3, <2>4, <3>1, JoinedAppend
  <2>6. Path!Last(j) = c[Len(c)]
    <3>1. /\ <<Slash>> \o c \in Text /\ <<Slash>> \o c # <<>> /\ (<<Slash>> \o c)[Len(<<Slash>> \o c)] = c[Len(c)]
      BY <2>4, Slashes, EndsWithLast DEF Path!Last
    <3>2. Joined(es) \in Text
      BY ComponentsRead
    <3>. QED  BY <2>5, <3>1, <3>2, EndsWithLast
  <2>7. Path!Last(Absolute(t)) = Path!Last(t)
    <3>1. CASE a
      BY <1>7, <3>1 DEF Absolute
    <3>2. CASE ~ a
      <4>1. Absolute(t) = <<Slash>> \o t
        BY <1>7, <3>2 DEF Absolute
      <4>. QED  BY <1>3, <4>1, Slashes, EndsWithLast DEF Path!Last
    <3>. QED  BY <3>1, <3>2
  <2>8. Path!Last(t) # Slash
    BY <1>6, <2>1, <2>4, <2>6, <2>7
  <2>. QED  BY <1>1, <1>2, <1>3, <2>2, <2>8 DEF Path!path, Path!Exact
<1>. QED  BY <1>11, <1>12

\* The first steps of the constructor.
LEMMA PathBegins ==
    ASSUME Slash \notin Letter, NEW input \in Text, input # <<>>, text' = input,
           lexerOffset' = 0, start' = 0, m_components' = <<>>, m_is_absolute' = FALSE, at' = "absolute"
    PROVE  PathInv'
<1>1. Len(input) \in Nat /\ 0 \in 0 .. Len(input) /\ <<>> \in Seq(Component)
  BY EmptySeq, LenProperties DEF Text
<1>. QED  BY <1>1 DEF PathInv, PathTypes

LEMMA PathInit ==
    ASSUME Path!Init
    PROVE  PathInv
<1>1. PICK input \in Path!Texts :
          /\ text = input /\ lexerOffset = 0 /\ start = 0
          /\ m_components = <<>> /\ m_is_absolute = FALSE /\ at = "absolute"
  BY DEF Path!Init
<1>2. input \in Text /\ input # <<>>
  BY TextsAreTexts
<1>3. Len(input) \in Nat /\ 0 \in 0 .. Len(input) /\ <<>> \in Seq(Component)
  BY <1>2, EmptySeq, LenProperties DEF Text
<1>. QED  BY <1>1, <1>2, <1>3 DEF PathInv, PathTypes

\* A path with one component less.
LEMMA AllButLastIs ==
    ASSUME NEW S, NEW es \in Seq(S), NEW c \in S
    PROVE  Path!AllButLast(Append(es, c)) = es /\ Path!Last(Append(es, c)) = c
<1>1. PICK ds \in Seq(S) : ds = Append(es, c)
  BY AppendProperties
<1>2. PICK n \in Nat : n = Len(es)
  BY LenProperties
<1>3. Len(ds) = n + 1 /\ ds[n + 1] = c /\ \A i \in 1 .. n : ds[i] = es[i] /\ ds[i] \in S
  BY <1>1, <1>2, AppendProperties, ElementOfSeq
<1>4. PICK bs : bs = SubSeq(ds, 1, n)
  OBVIOUS
<1>5. bs \in Seq(S) /\ Len(bs) = n /\ \A i \in 1 .. n : bs[i] = ds[i]
  <2>1. /\ SubSeq(ds, 1, n) \in Seq(S)
        /\ Len(SubSeq(ds, 1, n)) = IF 1 <= n THEN n - 1 + 1 ELSE 0
        /\ \A i \in 1 .. n - 1 + 1 : SubSeq(ds, 1, n)[i] = ds[1 + i - 1]
    BY <1>2, <1>3, SubSeqProperties
  <2>. QED  BY <1>2, <1>4, <2>1
<1>6. bs = es
  BY <1>2, <1>3, <1>5, SeqEqual
<1>7. Len(ds) - 1 = n
  BY <1>2, <1>3
<1>. QED  BY <1>1, <1>3, <1>4, <1>6, <1>7 DEF Path!AllButLast, Path!Last

\* A path that is not asked for its parent, in a state in which the constructor has not ended.
LEMMA PathsConstruct ==
    ASSUME Slash \notin Letter, PathInv,
           Path!Absolute \/ Path!Loop \/ Path!Consume \/ Path!Component \/ Path!SkipSlash
    PROVE  PathInv' /\ (Path!Loop /\ at' = "done" => Path!Means(Path!path, text) /\ Path!Exact(Path!path, text))
<1>1. CASE Path!Absolute
  <2>1. /\ at = "absolute" /\ at' = "loop" /\ text' = text /\ m_components' = m_components /\ start' = start
        /\ m_is_absolute' \in BOOLEAN
    BY <1>1, LexerIs DEF Path!Absolute, PathInv, Path!Peeks, Path!eof
  <2>2. (m_is_absolute' <=> Head(text) = Slash) /\ BetweenInv' /\ lexerOffset' \in 0 .. Len(text)
    BY <1>1, <2>1, PathStart DEF PathInv
  <2>3. PathInv'
    BY <2>1, <2>2 DEF PathInv, PathTypes
  <2>. QED  BY <2>1, <2>3 DEF Path!Loop
<1>2. CASE Path!Loop
  <2>1. /\ at = "loop" /\ text' = text /\ lexerOffset' = lexerOffset /\ m_components' = m_components
        /\ m_is_absolute' = m_is_absolute /\ start' = lexerOffset
        /\ at' = IF Path!eof THEN "done" ELSE "consume"
    BY <1>2 DEF Path!Loop, Path!path
  <2>2. PathTypes'
    BY <2>1 DEF PathInv, PathTypes
  <2>3. CASE Path!eof
    <3>1. PathInv'
      BY <2>1, <2>2, <2>3 DEF PathInv
    <3>2. Path!Means(Path!path, text) /\ Path!Exact(Path!path, text)
      BY <2>1, <2>3, PathEnds DEF PathInv
    <3>. QED  BY <3>1, <3>2
  <2>4. CASE ~ Path!eof
    <3>1. WithinInv'
      BY <1>2, <2>1, <2>4, PathLoops DEF PathInv
    <3>2. PathInv'
      BY <2>1, <2>2, <2>4, <3>1 DEF PathInv
    <3>. QED  BY <2>1, <2>4, <3>2
  <2>. QED  BY <2>3, <2>4
<1>3. CASE Path!Consume
  <2>1. /\ at = "consume" /\ at' = at /\ text' = text /\ m_components' = m_components
        /\ m_is_absolute' = m_is_absolute /\ start' = start
    BY <1>3 DEF Path!Consume, Path!path
  <2>2. WithinInv' /\ lexerOffset' \in 0 .. Len(text)
    BY <1>3, <2>1, PathConsumes DEF PathInv
  <2>3. PathInv'
    BY <2>1, <2>2 DEF PathInv, PathTypes
  <2>. QED  BY <2>1, <2>3 DEF Path!Loop
<1>4. CASE Path!Component
  <2>1. /\ at = "consume" /\ at' = "slash" /\ text' = text /\ lexerOffset' = lexerOffset
        /\ m_is_absolute' = m_is_absolute /\ start' = start
    BY <1>4 DEF Path!Component
  <2>2. BehindInv' /\ m_components' \in Seq(Component)
    BY <1>4, <2>1, PathAppends DEF PathInv
  <2>3. PathInv'
    BY <2>1, <2>2 DEF PathInv, PathTypes
  <2>. QED  BY <2>1, <2>3 DEF Path!Loop
<1>5. CASE Path!SkipSlash
  <2>1. /\ at = "slash" /\ at' = "loop" /\ text' = text /\ m_components' = m_components
        /\ m_is_absolute' = m_is_absolute /\ start' = start
    BY <1>5 DEF Path!SkipSlash, Path!path
  <2>2. BetweenInv' /\ lexerOffset' \in 0 .. Len(text)
    BY <1>5, <2>1, PathSkips DEF PathInv
  <2>3. PathInv'
    BY <2>1, <2>2 DEF PathInv, PathTypes
  <2>. QED  BY <2>1, <2>3 DEF Path!Loop
<1>. QED  BY <1>1, <1>2, <1>3, <1>4, <1>5

\* Its methods.
LEMMA PathsAreAsked ==
    ASSUME Slash \notin Letter, PathInv, at = "done",
           Path!Parent \/ Path!ReadAgain \/ \E c \in Letter : Path!Divide(<<c>>)
    PROVE  PathInv' /\ Path!ParentAndFilename
<1>1. PICK cs \in Seq(Component) : cs = m_components
  BY DEF PathInv, PathTypes
<1>2. PICK a \in BOOLEAN : a = m_is_absolute
  BY DEF PathInv, PathTypes
<1>3. CASE Path!Parent
  <2>1. /\ cs # <<>> /\ m_components' = Path!AllButLast(cs)
        /\ text' = text /\ lexerOffset' = lexerOffset /\ m_is_absolute' = a /\ start' = start /\ at' = at
    BY <1>1, <1>2, <1>3 DEF Path!Parent
  <2>2. PICK es \in Seq(Component), c \in Component : cs = Append(es, c)
    BY <2>1, SequenceEmptyOrAppend
  <2>3. m_components' = es /\ Path!Last(cs) = c
    BY <2>1, <2>2, AllButLastIs
  <2>4. PathInv'
    BY <2>1, <2>3 DEF PathInv, PathTypes
  <2>5. Path!path = <<a, Append(es, c)>> /\ Path!path' = <<a, es>>
    BY <1>1, <1>2, <2>1, <2>2, <2>3 DEF Path!path
  <2>6. Path!String(<<a, Append(es, c)>>) = Path!Prefix(<<a, es>>) \o c
    BY CutIsWhole
  <2>7. Path!Prefix(Path!path)' = Path!Prefix(<<a, es>>)
    BY <2>5 DEF Path!Prefix, Path!String
  <2>8. Path!ParentAndFilename
    BY <1>1, <2>3, <2>5, <2>6, <2>7 DEF Path!ParentAndFilename
  <2>. QED  BY <2>4, <2>8
<1>4. CASE Path!ReadAgain
  <2>1. PICK input : input = Path!String(Path!path)
    OBVIOUS
  <2>2. /\ input # <<>> /\ text' = input /\ lexerOffset' = 0 /\ start' = 0
        /\ m_components' = <<>> /\ m_is_absolute' = FALSE /\ at' = "absolute"
    BY <1>4, <2>1 DEF Path!ReadAgain, Path!Construct
  <2>3. input \in Text
    <3>1. Path!path = <<a, cs>>
      BY <1>1, <1>2 DEF Path!path
    <3>2. Path!String(<<a, cs>>) = IF a THEN IF cs = <<>> THEN <<Slash>> ELSE Joined(cs) ELSE Relative(cs)
      BY StringIs
    <3>. QED  BY <2>1, <3>1, <3>2, Slashes, ComponentsRead
  <2>4. PathInv'
    BY <2>2, <2>3, PathBegins
  <2>5. ~ Path!Parent
    BY <2>2 DEF Path!Parent, PathInv
  <2>. QED  BY <2>4, <2>5 DEF Path!ParentAndFilename
<1>5. CASE \E c \in Letter : Path!Divide(<<c>>)
  <2>1. PICK c \in Letter : Path!Divide(<<c>>)
    BY <1>5
  <2>2. PICK component \in Component : component = <<c>>
    <3>1. <<c>> \in Seq(Letter)
      OBVIOUS
    <3>. QED  BY <3>1 DEF Component
  <2>3. /\ m_components' = Append(cs, component)
        /\ text' = text /\ lexerOffset' = lexerOffset /\ m_is_absolute' = m_is_absolute /\ start' = start /\ at' = at
    BY <1>1, <2>1, <2>2 DEF Path!Divide
  <2>4. Append(cs, component) \in Seq(Component) /\ Len(Append(cs, component)) = Len(cs) + 1 /\ Len(cs) \in Nat
    BY AppendProperties, LenProperties
  <2>5. PathInv'
    BY <2>3, <2>4 DEF PathInv, PathTypes
  <2>6. ~ Path!Parent
    <3>1. ASSUME Path!Parent PROVE FALSE
      <4>1. cs # <<>> /\ m_components' = Path!AllButLast(cs)
        BY <1>1, <3>1 DEF Path!Parent
      <4>2. PICK es \in Seq(Component), d \in Component : cs = Append(es, d)
        BY <4>1, SequenceEmptyOrAppend
      <4>3. m_components' = es /\ Len(cs) = Len(es) + 1 /\ Len(es) \in Nat
        BY <4>1, <4>2, AllButLastIs, AppendProperties, LenProperties
      <4>. QED  BY <2>3, <2>4, <4>3
    <3>. QED  BY <3>1
  <2>. QED  BY <2>5, <2>6 DEF Path!ParentAndFilename
<1>. QED  BY <1>3, <1>4, <1>5

\* Each step keeps the invariant and the promises.
LEMMA PathStep ==
    ASSUME Slash \notin Letter, PathInv, Path!Next
    PROVE  PathInv' /\ Path!ReadsWhatIsThere /\ Path!ParentAndFilename
<1>1. CASE Path!Absolute \/ Path!Loop \/ Path!Consume \/ Path!Component \/ Path!SkipSlash
  <2>1. PathInv' /\ (Path!Loop /\ at' = "done" => Path!Means(Path!path, text) /\ Path!Exact(Path!path, text))
    BY <1>1, PathsConstruct
  <2>2. at # "done"
    BY <1>1 DEF Path!Absolute, Path!Loop, Path!Consume, Path!Component, Path!SkipSlash
  <2>. QED  BY <2>1, <2>2 DEF Path!ReadsWhatIsThere, Path!ParentAndFilename, Path!Parent
<1>2. CASE Path!Parent \/ Path!ReadAgain \/ \E c \in Letter : Path!Divide(<<c>>)
  <2>1. at = "done"
    BY <1>2 DEF Path!Parent, Path!ReadAgain, Path!Divide
  <2>2. PathInv' /\ Path!ParentAndFilename
    BY <1>2, <2>1, PathsAreAsked
  <2>. QED  BY <2>1, <2>2 DEF Path!ReadsWhatIsThere, Path!Loop
<1>3. (Path!Absolute \/ Path!Loop \/ Path!Consume \/ Path!Component \/ Path!SkipSlash)
        \/ (Path!Parent \/ Path!ReadAgain \/ \E c \in Letter : Path!Divide(<<c>>))
  BY DEF Path!Next
<1>. QED  BY <1>1, <1>2, <1>3

\* What is written is read back, in every state.
LEMMA PathReadsBack ==
    ASSUME Slash \notin Letter, PathInv'
    PROVE  Path!StringReadsBack'
<1>1. PICK cs \in Seq(Component) : cs = m_components'
  BY DEF PathInv, PathTypes
<1>2. PICK a \in BOOLEAN : a = m_is_absolute'
  BY DEF PathInv, PathTypes
<1>3. Path!path' = <<a, cs>>
  BY <1>1, <1>2 DEF Path!path
<1>4. ASSUME a \/ cs # <<>>, \A i \in 1 .. Len(cs) : cs[i] # <<>>
      PROVE  /\ Path!Means(<<a, cs>>, Path!String(<<a, cs>>))
             /\ Path!Last(Path!String(<<a, cs>>)) = Slash => cs = <<>>
  BY <1>4, WrittenIsRead
<1>5. Path!String(Path!path)' = Path!String(<<a, cs>>)
  BY <1>3 DEF Path!String
<1>6. Path!Means(Path!path, Path!String(Path!path))' <=> Path!Means(<<a, cs>>, Path!String(<<a, cs>>))
  BY <1>3, <1>5 DEF Path!Means
<1>7. Path!Last(Path!String(Path!path))' = Path!Last(Path!String(<<a, cs>>))
  BY <1>5 DEF Path!Last
<1>. QED  BY <1>1, <1>2, <1>4, <1>6, <1>7 DEF Path!StringReadsBack

LEMMA PathStutter ==
    ASSUME PathInv, UNCHANGED pathVars
    PROVE  PathInv'
  BY DEF pathVars, PathInv, PathTypes, BetweenInv, WithinInv, BehindInv, Consumed, Path!Substr,
         Path!Stops, Path!eof, Path!Peeks

-----------------------------------------------------------------------------
(* The run. *)

\* Each of the parts that the run considers is a behaviour of its own specification.
THEOREM StdRunIsEach ==
    StdSpec => Spec /\ V!Spec
<1>1. StdInit => Init /\ V!Init
  BY DEF StdInit
<1>2. [StdNext]_<<considered, queueVars, pointerVars, vectorVars, pathVars>>
         => [Next]_vars /\ [V!Next]_V!vars
  <2>1. /\ UNCHANGED queueVars => UNCHANGED vars
        /\ UNCHANGED vectorVars => UNCHANGED V!vars
    BY DEF queueVars, vectorVars, V!vars, V!fields
  <2>. QED  BY <2>1 DEF StdNext, Queueing, Growing
<1>. QED  BY <1>1, <1>2, PTL DEF StdSpec, Spec, V!Spec

\* Every vector behaves as a sequence of its own, through every reallocation, copy and move
\* (Vector.hpp:43-158).
THEOREM VectorsAreLists ==
    ASSUME V!VectorAssumption
    PROVE  StdSpec => ImplementsLists
  BY VectorInvariance, StdRunIsEach, PTL DEF ImplementsLists

\* Pointers that are copied, moved, wrapped and dropped are handles: an object is destroyed by
\* the step that drops its last reference, no step of any method or destructor touches what is
\* deleted, and the count is the number of the pointers (RefPtr.hpp:56-146, OwnPtr.hpp:86-129,
\* Optional.hpp:53-122).
THEOREM PointersAreHandles ==
    ASSUME Refs!OwnershipAssumption
    PROVE  StdSpec => [](Refs!TouchesTheLiving /\ Refs!CountIsExact) /\ ImplementsHandles
<1>1. Small
  BY DEF Small, Refs!OwnershipAssumption, Refs!IsFiniteSet, IsFiniteSet
<1>2. StdInit => PointersInv /\ Refs!H!Init
  <2>1. SUFFICES ASSUME StdInit PROVE PointersInv /\ Refs!H!Init
    OBVIOUS
  <2>2. Refs!Init
    BY <2>1 DEF StdInit
  <2>3. OwnInv /\ Refs!H!Init
    BY <1>1, <2>2, OwnInit
  <2>4. m_refcount = [o \in Object |-> 0] /\ todo = <<>>
    BY <2>2 DEF Refs!Init
  <2>5. Single
    BY <2>4 DEF Single
  <2>. QED  BY <2>3, <2>5 DEF PointersInv
<1>3. PointersInv /\ [StdNext]_<<considered, queueVars, pointerVars, vectorVars, pathVars>>
         => PointersInv' /\ [Refs!H!Next]_Refs!H!vars
  BY <1>1, PointersStep
<1>4. PointersInv => Refs!TouchesTheLiving /\ Refs!CountIsExact
  BY <1>1, OwnTouches DEF PointersInv
<1>. QED  BY <1>2, <1>3, <1>4, PTL DEF StdSpec, ImplementsHandles, Refs!ImplementsHandles, Refs!H!Spec

\* Every object, every element and every block has its owners, and none is used without one
\* (RefPtr.hpp:120-150, OwnPtr.hpp:86-129, Vector.hpp:43-158).
THEOREM EverythingHasAnOwner ==
    ASSUME Refs!OwnershipAssumption, V!VectorAssumption
    PROVE  StdSpec => []EverythingIsOwned
<1>1. StdSpec => [](Refs!TouchesTheLiving /\ Refs!CountIsExact)
  BY PointersAreHandles, PTL
<1>2. StdSpec => [](V!ElementsAreOwned /\ V!BlocksAreOwned)
  BY VectorInvariance, StdRunIsEach, PTL
<1>3. Refs!TouchesTheLiving /\ Refs!CountIsExact /\ V!ElementsAreOwned /\ V!BlocksAreOwned => EverythingIsOwned
  BY DEF EverythingIsOwned
<1>. QED  BY <1>1, <1>2, <1>3, PTL

\* The components are those of the text, the text of a path is read as that path again, and
\* parent() and filename() cut it where the entry of a directory is named (Path.hpp:15-94).
THEOREM PathsSayWhatTheyRead ==
    ASSUME Path!PathsAssumption
    PROVE  StdSpec => PathsSayTheSame
<1>1. Slash \notin Letter
  BY DEF Path!PathsAssumption
<1>2. StdInit => PathInv
  BY PathInit DEF StdInit
<1>3. PathInv /\ [StdNext]_<<considered, queueVars, pointerVars, vectorVars, pathVars>>
        => PathInv' /\ [Path!ReadsWhatIsThere /\ Path!ParentAndFilename /\ Path!StringReadsBack']_Path!vars
  <2>1. SUFFICES ASSUME PathInv, [StdNext]_<<considered, queueVars, pointerVars, vectorVars, pathVars>>
                 PROVE  PathInv' /\ [Path!ReadsWhatIsThere /\ Path!ParentAndFilename /\ Path!StringReadsBack']_Path!vars
    OBVIOUS
  <2>2. Path!Next \/ UNCHANGED pathVars
    BY <2>1 DEF StdNext, Reading
  <2>3. CASE Path!Next
    <3>1. PathInv' /\ Path!ReadsWhatIsThere /\ Path!ParentAndFilename
      BY <1>1, <2>1, <2>3, PathStep
    <3>. QED  BY <1>1, <3>1, PathReadsBack
  <2>4. CASE UNCHANGED pathVars
    <3>1. UNCHANGED Path!vars
      BY <2>4 DEF pathVars, Path!vars, Path!path
    <3>. QED  BY <2>1, <2>4, <3>1, PathStutter
  <2>. QED  BY <2>2, <2>3, <2>4
<1>. QED  BY <1>2, <1>3, PTL DEF StdSpec, PathsSayTheSame, Path!PathsSayTheSame
=============================================================================
