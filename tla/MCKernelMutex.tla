--------------------------- MODULE MCKernelMutex ---------------------------
(***************************************************************************)
(* Small instances of KernelMutex: the startup thread and three more       *)
(* threads use the mutex.                                                  *)
(***************************************************************************)
EXTENDS KernelMutex

CONSTANT Extra

MCLocker == {Startup} \cup Extra
MCThread == {Default, Fallback, Dummy} \cup MCLocker
=============================================================================
