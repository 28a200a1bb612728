------------------------- MODULE WatcherSupervisor -------------------------
(***************************************************************************)
(* services/watcher_supervisor.py with its two drivers in app.py: the      *)
(* lifespan, which opens and closes the serving window, and the selection  *)
(* hook, which turns every selection change into a swap task.              *)
(*                                                                         *)
(* Two threads are at work.  The event loop runs the lifespan, the hook    *)
(* and retarget_rebuild; a worker thread runs retarget_release, one        *)
(* attribute access at a time, so the loop's stop() can interleave with    *)
(* it.  A swap task holds the asyncio.Lock `swapping` from before its      *)
(* release until after its rebuild.                                        *)
(*                                                                         *)
(* Watchers are numbered in the order they are constructed, swap tasks in  *)
(* the order the hook creates them.                                        *)
(***************************************************************************)
EXTENDS Naturals

CONSTANTS
  Roots,        \* project directories
  NoRoot,       \* None, where a directory is expected
  BootRoot,     \* app.state.project_root
  HasInitial,   \* create_app was given file_watcher
  HasFactory,   \* create_app was given watcher_factory
  MaxMoves      \* bound: selection changes in one serving window

ASSUME RootAssumption == NoRoot \notin Roots /\ BootRoot \in Roots
ASSUME WiringAssumption == HasInitial \in BOOLEAN /\ HasFactory \in BOOLEAN
ASSUME MovesAssumption == MaxMoves \in Nat

VARIABLES
  current,      \* _current, or NoWatcher
  root,         \* _root
  generation,   \* _generation
  started,      \* _started
  built,        \* number of watchers constructed
  rooted,       \* rooted[w]: the directory watcher w was constructed on
  running,      \* watchers whose observer thread is alive
  moves,        \* number of swap tasks created
  swap,         \* swap[t]: where task t is, its target, the watcher it holds
  swapping,     \* the task holding the asyncio.Lock, or NoTask
  loop,         \* what the event loop's lifespan is doing
  stopHeld      \* the watcher stop() took from _current

supVars == <<current, root, generation, started, built, rooted, running,
             moves, swap, swapping, loop, stopHeld>>

NoWatcher == 0
NoTask    == 0
Tasks     == 1..MaxMoves
Watchers  == 1..(MaxMoves + 1)
Targets   == Roots \cup {NoRoot}

\* Where a task can be.  "guard" to "join" are retarget_release on the worker.
Releasing == {"claim", "load", "drop", "join"}
Places    == {"none", "waiting", "guard", "skip", "rebuild", "done"} \cup Releasing

\* "boot", then "serving"; "load" to "join" are stop(); "exited" is a failed boot.
LoopStates == {"boot", "serving", "load", "drop", "join", "stopped", "exited"}

\* The loop thread can run a task or a callback: it is not inside stop().
LoopFree == loop \in {"serving", "stopped"}

At(t, place) == swap[t].at = place

Goto(t, place) == swap' = [swap EXCEPT ![t].at = place]

(***************************************************************************)
(* Boot and shutdown (the lifespan)                                        *)
(***************************************************************************)
SupInit ==
  /\ current = (IF HasInitial THEN 1 ELSE NoWatcher)
  /\ built = (IF HasInitial THEN 1 ELSE 0)
  /\ rooted = [w \in Watchers |-> BootRoot]
  /\ root = NoRoot
  /\ generation = 0
  /\ started = FALSE
  /\ running = {}
  /\ moves = 0
  /\ swap = [t \in Tasks |-> [at |-> "none", target |-> NoRoot, held |-> NoWatcher]]
  /\ swapping = NoTask
  /\ loop = "boot"
  /\ stopHeld = NoWatcher

\* start(): the initial watcher as it is, else one from the factory, else none.
Start ==
  /\ loop = "boot"
  /\ started' = TRUE
  /\ root' = BootRoot
  /\ loop' = "serving"
  /\ \/ /\ current # NoWatcher
        /\ running' = {current}
        /\ UNCHANGED <<current, built, rooted>>
     \/ /\ current = NoWatcher
        /\ IF HasFactory
           THEN /\ built' = built + 1
                /\ rooted' = [rooted EXCEPT ![built + 1] = BootRoot]
                /\ current' = built + 1
                /\ running' = {built + 1}
           ELSE UNCHANGED <<current, built, rooted, running>>
  /\ UNCHANGED <<generation, moves, swap, swapping, stopHeld>>

\* start() lets a watcher's failure propagate, and the console does not boot.
StartFails ==
  /\ loop = "boot"
  /\ current # NoWatcher \/ HasFactory
  /\ started' = TRUE
  /\ root' = BootRoot
  /\ loop' = "exited"
  /\ UNCHANGED <<current, generation, built, rooted, running, moves, swap,
                 swapping, stopHeld>>

\* stop(), on the loop thread, one attribute access at a time.
StopLatch ==
  /\ loop = "serving"
  /\ started' = FALSE
  /\ loop' = "load"
  /\ UNCHANGED <<current, root, generation, built, rooted, running, moves, swap,
                 swapping, stopHeld>>

StopLoad ==
  /\ loop = "load"
  /\ stopHeld' = current
  /\ loop' = "drop"
  /\ UNCHANGED <<current, root, generation, started, built, rooted, running,
                 moves, swap, swapping>>

StopDrop ==
  /\ loop = "drop"
  /\ current' = NoWatcher
  /\ loop' = (IF stopHeld = NoWatcher THEN "stopped" ELSE "join")
  /\ UNCHANGED <<root, generation, started, built, rooted, running, moves, swap,
                 swapping, stopHeld>>

StopJoin ==
  /\ loop = "join"
  /\ running' = running \ {stopHeld}
  /\ loop' = "stopped"
  /\ UNCHANGED <<current, root, generation, started, built, rooted, moves, swap,
                 swapping, stopHeld>>

(***************************************************************************)
(* The selection hook and its swap tasks                                   *)
(***************************************************************************)
\* _retarget_off_loop: only a handler calls it, so only while serving.
Move(r) ==
  /\ loop = "serving"
  /\ moves < MaxMoves
  /\ moves' = moves + 1
  /\ swap' = [swap EXCEPT ![moves + 1].at = "waiting", ![moves + 1].target = r]
  /\ UNCHANGED <<current, root, generation, started, built, rooted, running,
                 swapping, loop, stopHeld>>

\* Mutant of Acquire: the swaps are not serialised.
AcquireUnlocked(t) ==
  /\ LoopFree
  /\ At(t, "waiting")
  /\ swapping' = t
  /\ Goto(t, "guard")
  /\ UNCHANGED <<current, root, generation, started, built, rooted, running,
                 moves, loop, stopHeld>>

\* Mutant of Acquire: the lock goes to any waiting task.
AcquireAnyOrder(t) == swapping = NoTask /\ AcquireUnlocked(t)

\* asyncio.Lock is first come first served.
Acquire(t) ==
  /\ LoopFree
  /\ At(t, "waiting")
  /\ swapping = NoTask
  /\ \A u \in 1..(t - 1) : ~At(u, "waiting")
  /\ swapping' = t
  /\ Goto(t, "guard")
  /\ UNCHANGED <<current, root, generation, started, built, rooted, running,
                 moves, loop, stopHeld>>

ReleaseGuard(t) ==
  /\ At(t, "guard")
  /\ Goto(t, IF root = swap[t].target \/ ~started THEN "skip" ELSE "claim")
  /\ UNCHANGED <<current, root, generation, started, built, rooted, running,
                 moves, swapping, loop, stopHeld>>

ReleaseClaim(t) ==
  /\ At(t, "claim")
  /\ root' = swap[t].target
  /\ Goto(t, "load")
  /\ UNCHANGED <<current, generation, started, built, rooted, running, moves,
                 swapping, loop, stopHeld>>

ReleaseLoad(t) ==
  /\ At(t, "load")
  /\ swap' = [swap EXCEPT ![t].at = "drop", ![t].held = current]
  /\ UNCHANGED <<current, root, generation, started, built, rooted, running,
                 moves, swapping, loop, stopHeld>>

ReleaseDrop(t) ==
  /\ At(t, "drop")
  /\ current' = NoWatcher
  /\ Goto(t, IF swap[t].held = NoWatcher THEN "rebuild" ELSE "join")
  /\ UNCHANGED <<root, generation, started, built, rooted, running, moves,
                 swapping, loop, stopHeld>>

\* Mutant of ReleaseJoin: the outgoing watcher is dropped but never stopped.
ReleaseLeaks(t) ==
  /\ At(t, "join")
  /\ Goto(t, "rebuild")
  /\ UNCHANGED <<current, root, generation, started, built, rooted, running,
                 moves, swapping, loop, stopHeld>>

ReleaseJoin(t) ==
  /\ At(t, "join")
  /\ running' = running \ {swap[t].held}
  /\ Goto(t, "rebuild")
  /\ UNCHANGED <<current, root, generation, started, built, rooted, moves,
                 swapping, loop, stopHeld>>

\* Mutant of EndSkipped: a skipped swap keeps the lock.
EndSkippedLocked(t) ==
  /\ LoopFree
  /\ At(t, "skip")
  /\ Goto(t, "done")
  /\ UNCHANGED <<current, root, generation, started, built, rooted, running,
                 moves, swapping, loop, stopHeld>>

\* retarget_release returned False: the task ends and gives the lock back.
EndSkipped(t) ==
  /\ LoopFree
  /\ At(t, "skip")
  /\ swapping' = NoTask
  /\ Goto(t, "done")
  /\ UNCHANGED <<current, root, generation, started, built, rooted, running,
                 moves, loop, stopHeld>>

\* Mutant of Rebuild: it does not look whether the console is shutting down.
RebuildUnchecked(t) ==
  /\ LoopFree
  /\ At(t, "rebuild")
  /\ HasFactory /\ swap[t].target # NoRoot
  /\ generation' = generation + 1
  /\ built' = built + 1
  /\ rooted' = [rooted EXCEPT ![built + 1] = swap[t].target]
  /\ current' = built + 1
  /\ running' = running \cup {built + 1}
  /\ swapping' = NoTask
  /\ Goto(t, "done")
  /\ UNCHANGED <<root, started, moves, loop, stopHeld>>

\* Mutant of Rebuild: a swap is not counted when it brings up a watcher.
RebuildUncounted(t) ==
  /\ LoopFree
  /\ At(t, "rebuild")
  /\ started /\ HasFactory /\ swap[t].target # NoRoot
  /\ built' = built + 1
  /\ rooted' = [rooted EXCEPT ![built + 1] = swap[t].target]
  /\ current' = built + 1
  /\ running' = running \cup {built + 1}
  /\ swapping' = NoTask
  /\ Goto(t, "done")
  /\ UNCHANGED <<root, generation, started, moves, loop, stopHeld>>

\* retarget_rebuild in the serving window, with a watcher to show for it ...
Rebuild(t) ==
  /\ LoopFree
  /\ At(t, "rebuild")
  /\ started /\ HasFactory /\ swap[t].target # NoRoot
  /\ generation' = generation + 1
  /\ built' = built + 1
  /\ rooted' = [rooted EXCEPT ![built + 1] = swap[t].target]
  /\ current' = built + 1
  /\ running' = running \cup {built + 1}
  /\ swapping' = NoTask
  /\ Goto(t, "done")
  /\ UNCHANGED <<root, started, moves, loop, stopHeld>>

\* Mutant of RebuildWatcherless: a failed build is counted and tried again.
RebuildRetried(t) ==
  /\ LoopFree
  /\ At(t, "rebuild")
  /\ started
  /\ generation' = generation + 1
  /\ UNCHANGED <<current, root, started, built, rooted, running, moves, swap,
                 swapping, loop, stopHeld>>

\* ... or without: no factory, no directory, or a watcher that would not start.
RebuildWatcherless(t) ==
  /\ LoopFree
  /\ At(t, "rebuild")
  /\ started
  /\ generation' = generation + 1
  /\ swapping' = NoTask
  /\ Goto(t, "done")
  /\ UNCHANGED <<current, root, started, built, rooted, running, moves, loop, stopHeld>>

\* retarget_rebuild after shutdown does nothing at all.
RebuildAfterStop(t) ==
  /\ LoopFree
  /\ At(t, "rebuild")
  /\ ~started
  /\ swapping' = NoTask
  /\ Goto(t, "done")
  /\ UNCHANGED <<current, root, generation, started, built, rooted, running,
                 moves, loop, stopHeld>>

ReleaseStep(t) ==
  ReleaseGuard(t) \/ ReleaseClaim(t) \/ ReleaseLoad(t) \/ ReleaseDrop(t) \/ ReleaseJoin(t)

LoopStep(t) ==
  Acquire(t) \/ EndSkipped(t) \/ Rebuild(t) \/ RebuildWatcherless(t) \/ RebuildAfterStop(t)

SwapStep(t) == ReleaseStep(t) \/ LoopStep(t)

StopStep == StopLoad \/ StopDrop \/ StopJoin

SupNext ==
  \/ Start \/ StartFails
  \/ StopLatch \/ StopStep
  \/ \E r \in Targets : Move(r)
  \/ \E t \in Tasks : SwapStep(t)

SupSpec == SupInit /\ [][SupNext]_supVars

\* A worker thread returns and the loop keeps running its ready tasks for as
\* long as it serves; nothing makes an operator switch projects or quit.
SupFairness ==
  /\ WF_supVars(StopStep)
  /\ \A t \in Tasks : WF_supVars(loop = "serving" /\ SwapStep(t))

SupFairSpec == SupSpec /\ SupFairness

(***************************************************************************)
(* Properties                                                              *)
(***************************************************************************)
\* Type invariant.  The generation counts real swaps only, so it never exceeds
\* the number of swap tasks, and start() does not move it.
SupTypeOK ==
  /\ current \in Watchers \cup {NoWatcher}
  /\ root \in Targets
  /\ moves \in 0..MaxMoves
  /\ generation \in 0..moves
  /\ started \in BOOLEAN
  /\ built \in 0..(moves + 1)
  /\ rooted \in [Watchers -> Roots]
  /\ running \subseteq Watchers
  /\ swap \in [Tasks -> [at: Places, target: Targets, held: Watchers \cup {NoWatcher}]]
  /\ swapping \in Tasks \cup {NoTask}
  /\ loop \in LoopStates
  /\ stopHeld \in Watchers \cup {NoWatcher}

\* Two observer threads are never alive together, however many switches overlap
\* (the class docstring: "Owns at most one FileWatcher").
OneWatcherAtMost == \A v, w \in running : v = w

\* Some thread still holds watcher w and is going to stop it.
BeingStopped(w) ==
  \/ \E t \in Tasks : swap[t].at \in {"drop", "join"} /\ swap[t].held = w
  \/ loop \in {"drop", "join"} /\ stopHeld = w

\* No observer thread is orphaned: a running watcher is the current one, or
\* some thread holds it and is about to stop it.  Once stop() has emptied the
\* slot nothing runs except what a thread is already stopping.
NoOrphan ==
  \A w \in running :
    BeingStopped(w) \/ (w = current /\ loop \notin {"join", "stopped"})

\* No swap has started on _root and not yet dropped the outgoing watcher.
Claimed == \E t \in Tasks : swap[t].at \in {"load", "drop"}

\* The live watcher observes the directory the supervisor says it targets; only
\* a swap between its claim and its release separates the two.
WatcherOnTarget ==
  current # NoWatcher /\ started /\ ~Claimed => rooted[current] = root

Quiet == \A t \in Tasks : swap[t].at \in {"none", "done"}

\* When the swaps have settled the supervisor targets the directory of the last
\* selection change, whatever order the tasks were resumed in.
LastMoveWins ==
  Quiet /\ loop = "serving" =>
    root = (IF moves = 0 THEN BootRoot ELSE swap[moves].target)

\* The observers as SingleWatcher sees them.
Observed == IF running = {} THEN NoRoot ELSE rooted[built]

Single == INSTANCE SingleWatcher
            WITH watched <- Observed, closed <- loop \notin {"boot", "serving"}

\* The supervisor implements the promise: observers never overlap, and none is
\* started once shutdown has begun.
ImplementsSingleWatcher == Single!Spec
=============================================================================
