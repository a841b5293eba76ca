---------------------------- MODULE MCScheduler ----------------------------
(***************************************************************************)
(* A small instance of Scheduler: the four threads of the boot sequence    *)
(* and one or two more.  Extra threads are interchangeable.                *)
(***************************************************************************)
EXTENDS Scheduler, TLC

CONSTANT Extra

MCThread == {Default, Fallback, Dummy, Startup} \cup Extra

Symmetry == Permutations(Extra)
=============================================================================
