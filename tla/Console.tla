------------------------------ MODULE Console ------------------------------
(***************************************************************************)
(* The project selection and the watcher supervisor as create_app wires    *)
(* them: every _apply_selected calls the retarget hook in the same loop    *)
(* step (SelectionState.subscribe, _watcher_retarget_hook), and the        *)
(* requests that move the selection run only in the serving window.        *)
(***************************************************************************)
EXTENDS Selection

CONSTANT MaxMoves  \* bound: swap tasks in one serving window

ASSUME MovesAssumption == MaxMoves \in Nat

VARIABLES current, root, generation, started, built, rooted, running, moves,
          swap, swapping, loop, stopHeld

\* The CLI passes create_app both a watcher on the pinned root and the factory.
Sup == INSTANCE WatcherSupervisor
         WITH Roots <- Paths, NoRoot <- NoPath, BootRoot <- PinnedRoot,
              HasInitial <- TRUE, HasFactory <- TRUE

supVars == <<current, root, generation, started, built, rooted, running,
             moves, swap, swapping, loop, stopHeld>>

vars == <<selVars, supVars>>

Init == SelInit /\ Sup!SupInit

\* A handler's step; while stop() runs the loop runs no handler.
Handler(r) == loop = "serving" /\ QuietStep(r) /\ UNCHANGED supVars

\* The in-memory selection moves and the hook is called, in one loop step.
Switch(r, path) == Apply(r, path) /\ Sup!Move(path)

Supervise == Sup!SupNext /\ moves' = moves /\ UNCHANGED selVars

Next ==
  \/ \E r \in Requests : Handler(r)
  \/ \E r \in Requests, path \in Paths \cup {NoPath} : Switch(r, path)
  \/ Supervise

Spec == Init /\ [][Next]_vars

\* The loop runs ready tasks and a worker thread returns; a request in flight
\* goes on.  No client must send one.
Fairness ==
  /\ \A t \in Sup!Tasks : WF_vars(loop = "serving" /\ Sup!SwapStep(t) /\ UNCHANGED selVars)
  /\ \A r \in Requests :
       WF_vars(~Idle(r) /\ (Handler(r) \/ \E path \in Paths \cup {NoPath} : Switch(r, path)))

FairSpec == Spec /\ Fairness

(***************************************************************************)
(* Properties                                                              *)
(***************************************************************************)
\* Once the requests and the swaps have come to rest, the supervisor targets the
\* directory of the session's selection, and if it has a live watcher that
\* watcher observes it: the page and its live updates are about one project.
WatcherFollowsSelection ==
  loop = "serving" /\ Settled /\ Sup!Quiet =>
    /\ root = RootOf(session)
    /\ current # Sup!NoWatcher => rooted[current] = RootOf(session)

\* A switch to another directory is never dropped on the way: whatever overlaps,
\* the supervisor reaches a state in which it targets what is selected.
SelectionIsReached ==
  \A path \in Paths \cup {NoPath} :
    (loop = "serving" /\ RootOf(session) = path)
      ~> (root = path \/ RootOf(session) # path \/ loop # "serving")
=============================================================================
