------------------------------ MODULE MCKernel ------------------------------
(***************************************************************************)
(* Small instances of Kernel.                                              *)
(***************************************************************************)
EXTENDS Kernel

MCThread == {Default, Fallback, Dummy, Startup, Handler} \cup User \cup Worker
=============================================================================
