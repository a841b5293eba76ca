------------------------------- MODULE Deque -------------------------------
(***************************************************************************)
(* What a CircularQueue promises: a sequence of at most Size elements,     *)
(* served at both ends; using it beyond its limits stops the machine.      *)
(***************************************************************************)
EXTENDS Naturals, Sequences

CONSTANTS Queue, Value, Size

VARIABLES
    content,        \* the elements of each queue, the front first
    returned,       \* the element the last operation returned
    crashed

vars == <<content, returned, crashed>>

Limit(q, limit) ==
    Len(content[q]) = limit /\ crashed' = TRUE /\ UNCHANGED <<content, returned>>

Replace(q, elements, v) ==
    /\ content' = [content EXCEPT ![q] = elements]
    /\ returned' = v
    /\ UNCHANGED crashed

Enqueue(q, v) ==
    \/ Len(content[q]) < Size /\ Replace(q, Append(content[q], v), v)
    \/ Limit(q, Size)

EnqueueFront(q, v) ==
    \/ Len(content[q]) < Size /\ Replace(q, <<v>> \o content[q], v)
    \/ Limit(q, Size)

Dequeue(q) ==
    \/ content[q] # <<>> /\ Replace(q, Tail(content[q]), Head(content[q]))
    \/ Limit(q, 0)

Clear(q) == Replace(q, <<>>, returned)

\* from is moved to q.
Move(q, from) ==
    /\ content' = [content EXCEPT ![q] = content[from], ![from] = <<>>]
    /\ UNCHANGED <<returned, crashed>>

Init == content = [q \in Queue |-> <<>>] /\ returned \in Value /\ crashed = FALSE

Next ==
    /\ ~crashed
    /\ \E q \in Queue :
          \/ \E v \in Value : Enqueue(q, v) \/ EnqueueFront(q, v)
          \/ Dequeue(q) \/ Clear(q)
          \/ \E from \in Queue \ {q} : Move(q, from)

Spec == Init /\ [][Next]_vars
=============================================================================
