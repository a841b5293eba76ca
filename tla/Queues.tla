------------------------------- MODULE Queues -------------------------------
(***************************************************************************)
(* The queues of the kernel, all of them CircularQueue, as sequences.      *)
(***************************************************************************)
EXTENDS Sequences, Functions

\* t is at one index of the queue at most.
Once(queue, t) == \A i, j \in DOMAIN queue : queue[i] = t /\ queue[j] = t => i = j

=============================================================================
