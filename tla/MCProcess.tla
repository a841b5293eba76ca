----------------------------- MODULE MCProcess -----------------------------
(***************************************************************************)
(* The shell and two more processes, which may be its children one after   *)
(* the other, or child and grandchild.                                     *)
(***************************************************************************)
EXTENDS Process
=============================================================================
