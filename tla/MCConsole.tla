----------------------------- MODULE MCConsole -----------------------------
(***************************************************************************)
(* Two processes on a ring of a few bytes.                                 *)
(***************************************************************************)
EXTENDS Console
=============================================================================
