--------------------------- MODULE SingleWatcher ---------------------------
(***************************************************************************)
(* What the console promises about its observers: at any moment at most    *)
(* one project directory is being observed, a new directory is observed    *)
(* only after the previous observer is gone, and once the console has left *)
(* its serving window no directory is taken up again.                      *)
(*                                                                         *)
(* services/watcher_supervisor.py opens with this promise ("One live       *)
(* FileWatcher at a time -- the selected project's").  WatcherSupervisor   *)
(* is shown to implement it.                                               *)
(***************************************************************************)
CONSTANTS Roots, NoRoot

VARIABLES
  watched,   \* the directory an observer thread is running for, or NoRoot
  closed     \* the serving window is over

vars == <<watched, closed>>

Init == watched = NoRoot /\ closed = FALSE

Begin(r) ==
  /\ ~closed
  /\ watched = NoRoot
  /\ watched' = r
  /\ UNCHANGED closed

End ==
  /\ watched # NoRoot
  /\ watched' = NoRoot
  /\ UNCHANGED closed

Close ==
  /\ closed' = TRUE
  /\ UNCHANGED watched

Next == (\E r \in Roots : Begin(r)) \/ End \/ Close

Spec == Init /\ [][Next]_vars
=============================================================================
