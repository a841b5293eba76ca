---------------------------- MODULE SystemCalls ----------------------------
(***************************************************************************)
(* What a system call promises to the threads of processes: a call is      *)
(* executed exactly once, only then does the caller continue, with the     *)
(* answer to its own call, and a caller that exits never continues.        *)
(***************************************************************************)
CONSTANTS
    User,       \* the threads of processes
    Call        \* the system calls, "exit" among them

VARIABLE status \* what each user thread is doing

Idle == [at |-> "idle", call |-> "none"]

Request(u) ==
    \E c \in Call :
        /\ status[u] = Idle
        /\ status' = [status EXCEPT ![u] = [at |-> "requested", call |-> c]]

Execute(u) ==
    /\ status[u].at = "requested"
    /\ status' = [status EXCEPT ![u].at = "executed"]

Answer(u) ==
    /\ status[u].at = "executed" /\ status[u].call # "exit"
    /\ status' = [status EXCEPT ![u] = [at |-> "answered", call |-> "none"]]

Exit(u) ==
    /\ status[u].at = "executed" /\ status[u].call = "exit"
    /\ status' = [status EXCEPT ![u] = [at |-> "gone", call |-> "none"]]

Return(u) ==
    /\ status[u].at = "answered"
    /\ status' = [status EXCEPT ![u] = Idle]

Init == status = [u \in User |-> Idle]

Next == \E u \in User : Request(u) \/ Execute(u) \/ Answer(u) \/ Exit(u) \/ Return(u)

Spec == Init /\ [][Next]_status
=============================================================================
