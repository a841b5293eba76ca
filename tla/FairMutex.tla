----------------------------- MODULE FairMutex -----------------------------
(***************************************************************************)
(* What a KernelMutex promises to the threads that use it: the mutex is a  *)
(* line of threads.  The first one in the line owns it, the others wait in *)
(* the order of their arrival, and only the owner is inside.               *)
(***************************************************************************)
EXTENDS Queues

CONSTANT Locker     \* the threads that use the mutex

VARIABLES
    line,           \* the threads that have arrived and not left, in order
    inside          \* the threads that execute the critical section

vars == <<line, inside>>

Arrive(t) ==
    /\ t \notin Range(line)
    /\ line' = Append(line, t)
    /\ UNCHANGED inside

Enter(t) ==
    /\ line # <<>> /\ Head(line) = t /\ t \notin inside
    /\ inside' = inside \cup {t}
    /\ UNCHANGED line

Leave(t) ==
    /\ t \in inside
    /\ line # <<>> /\ Head(line) = t
    /\ line' = Tail(line)
    /\ inside' = inside \ {t}

Init == line = <<>> /\ inside = {}

Next == \E t \in Locker : Arrive(t) \/ Enter(t) \/ Leave(t)

Spec == Init /\ [][Next]_vars
=============================================================================
