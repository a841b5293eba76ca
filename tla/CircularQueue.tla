--------------------------- MODULE CircularQueue ---------------------------
(***************************************************************************)
(* Std/CircularQueue.hpp: a deque in a ring of Size slots.  m_offset is    *)
(* the slot behind the last element, m_size the number of elements; the    *)
(* front is m_size slots before m_offset.  Differences of usize wrap       *)
(* around and back again once Size is added, so numbers are integers here. *)
(***************************************************************************)
EXTENDS Integers, Sequences

CONSTANTS
    Queue,      \* the queues, for an element can move from one to another
    Value,      \* T
    Size

ASSUME CircularQueueAssumption == Size \in Nat \ {0}

VARIABLES
    m_offset, m_size, m_data,   \* per queue
    returned,                   \* what the last operation returned
    crashed                     \* an ASSERT failed

ringVars == <<m_offset, m_size, m_data, returned>>
vars == <<ringVars, crashed>>

\* The slots of operator[], front() and back().
Slot(q, index) == (m_offset[q] - m_size[q] + index + Size) % Size
Front(q) == (m_offset[q] - m_size[q] + Size) % Size
Back(q) == (m_offset[q] - 1 + Size) % Size

\* ASSERT fails when m_size has reached a limit.
AssertFails(q, limit) == m_size[q] = limit /\ crashed' = TRUE /\ UNCHANGED ringVars

Put(q, v) ==
    /\ m_size[q] < Size
    /\ m_data' = [m_data EXCEPT ![q][m_offset[q]] = v]
    /\ m_offset' = [m_offset EXCEPT ![q] = (@ + 1) % Size]
    /\ m_size' = [m_size EXCEPT ![q] = @ + 1]
    /\ returned' = m_data'[q][Back(q)']
    /\ UNCHANGED crashed

Enqueue(q, v) == Put(q, v) \/ AssertFails(q, Size)

\* Mutant: writes over the front instead of before it.
PutFrontOver(q, v) ==
    /\ m_size[q] < Size
    /\ m_data' = [m_data EXCEPT ![q][Front(q)] = v]
    /\ m_size' = [m_size EXCEPT ![q] = @ + 1]
    /\ UNCHANGED <<m_offset, crashed>>
    /\ returned' = m_data'[q][Front(q)']

PutFront(q, v) ==
    /\ m_size[q] < Size
    /\ m_data' = [m_data EXCEPT ![q][(m_offset[q] - m_size[q] - 1 + Size) % Size] = v]
    /\ m_size' = [m_size EXCEPT ![q] = @ + 1]
    /\ UNCHANGED <<m_offset, crashed>>
    /\ returned' = m_data'[q][Front(q)']

EnqueueFront(q, v) == PutFront(q, v) \/ AssertFails(q, Size)

\* The front is destructed where it is: the slot keeps its bytes.
Take(q) ==
    /\ m_size[q] > 0
    /\ m_size' = [m_size EXCEPT ![q] = @ - 1]
    /\ returned' = m_data[q][Front(q)]
    /\ UNCHANGED <<m_offset, m_data, crashed>>

Dequeue(q) == Take(q) \/ AssertFails(q, 0)

Clear(q) ==
    /\ m_size' = [m_size EXCEPT ![q] = 0]
    /\ UNCHANGED <<m_offset, m_data, returned, crashed>>

\* operator=(CircularQueue&&): q is cleared, then every element of the other
\* queue is dequeued there and enqueued here, behind the slots in use before.
Move(q, from) ==
    LET written(slot) == (slot - m_offset[q] + Size) % Size
    IN  /\ m_data' = [m_data EXCEPT ![q] =
                [slot \in 0 .. Size - 1 |->
                    IF written(slot) < m_size[from]
                    THEN m_data[from][Slot(from, written(slot))]
                    ELSE m_data[q][slot]]]
        /\ m_offset' = [m_offset EXCEPT ![q] = (@ + m_size[from]) % Size]
        /\ m_size' = [m_size EXCEPT ![q] = m_size[from], ![from] = 0]
        /\ UNCHANGED <<returned, crashed>>

-----------------------------------------------------------------------------
\* m_data is not initialised.
Init ==
    /\ m_offset = [q \in Queue |-> 0]
    /\ m_size = [q \in Queue |-> 0]
    /\ m_data \in [Queue -> [0 .. Size - 1 -> Value]]
    /\ returned \in Value
    /\ crashed = FALSE

Next ==
    /\ ~crashed
    /\ \E q \in Queue :
          \/ \E v \in Value : Enqueue(q, v) \/ EnqueueFront(q, v)
          \/ Dequeue(q) \/ Clear(q)
          \/ \E from \in Queue \ {q} : Move(q, from)

Spec == Init /\ [][Next]_vars

-----------------------------------------------------------------------------
(* Properties *)

\* The offset is a slot and the queue never claims more elements than slots.
TypeOK ==
    /\ m_offset \in [Queue -> 0 .. Size - 1]
    /\ m_size \in [Queue -> 0 .. Size]
    /\ m_data \in [Queue -> [0 .. Size - 1 -> Value]]
    /\ returned \in Value
    /\ crashed \in BOOLEAN

\* The elements, in the order operator[] gives them.
Content == [q \in Queue |-> [i \in 1 .. m_size[q] |-> m_data[q][Slot(q, i - 1)]]]

\* However the ring wraps around, it behaves like a deque, and a full or an empty
\* queue stops the machine instead of losing an element (CircularQueue.hpp:68-157).
D == INSTANCE Deque WITH content <- Content
ImplementsDeque == D!Spec
=============================================================================
