--------------------------- MODULE MCFileWatcher ---------------------------
(***************************************************************************)
(* Model checking of FileWatcher.                                          *)
(***************************************************************************)
EXTENDS FileWatcher
=============================================================================
