-------------------------- MODULE MCSystemHandler --------------------------
(***************************************************************************)
(* Small instances of SystemHandler.                                       *)
(***************************************************************************)
EXTENDS SystemHandler

MCThread == {Default, Fallback, Dummy, Startup, Handler} \cup User \cup Worker
=============================================================================
