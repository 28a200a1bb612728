----------------------------- MODULE MCConsole -----------------------------
(***************************************************************************)
(* Model checking of Console.                                              *)
(***************************************************************************)
EXTENDS Console
=============================================================================
