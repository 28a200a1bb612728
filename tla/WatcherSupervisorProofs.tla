---------------------- MODULE WatcherSupervisorProofs ----------------------
(***************************************************************************)
(* Safety of the watcher supervisor for every set of directories, every    *)
(* wiring and every number of selection changes.                           *)
(***************************************************************************)
EXTENDS WatcherSupervisor, TLAPS

(***************************************************************************)
(* The inductive invariant                                                 *)
(***************************************************************************)
\* The places a task passes through while it holds the lock.
Holding == {"guard", "skip", "rebuild"} \cup Releasing

\* A swap task holds the lock from its release to its rebuild.
LockInv == \A t \in Tasks : swap[t].at \in Holding <=> swapping = t

\* Tasks are created in order, and the lock is handed out in that order; the
\* generation and the watchers built count at most one per task already served.
OrderInv ==
  /\ \A t \in Tasks : t > moves <=> At(t, "none")
  /\ \A t \in Tasks : At(t, "waiting") => generation < t /\ swapping < t
  /\ swapping # NoTask => generation < swapping
  /\ built <= generation + 1

\* The serving window is the one in which `started` holds.
WindowInv ==
  /\ started <=> loop \in {"serving", "exited"}
  /\ loop = "boot" =>
       /\ moves = 0 /\ generation = 0 /\ running = {} /\ current = built
       /\ rooted = [w \in Watchers |-> BootRoot]
  /\ loop = "exited" => running = {}

\* Where the newest watcher is: nothing older runs, and a slot that a swap or a
\* shutdown has emptied stays empty until that swap's own rebuild.
SlotInv ==
  /\ current \in {NoWatcher, built}
  /\ running \subseteq {built}
  /\ \A t \in Tasks : At(t, "drop") => current \in {NoWatcher, swap[t].held}
  /\ \A t \in Tasks : swap[t].at \in {"join", "rebuild"} => current = NoWatcher
  /\ loop = "drop" => current \in {NoWatcher, stopHeld}
  /\ loop \in {"join", "stopped"} => current = NoWatcher

\* Once it is past its claim, the supervisor targets what the swap asked for.
ClaimInv ==
  \A t \in Tasks : swap[t].at \in {"load", "drop", "join", "rebuild"} =>
    root = swap[t].target

\* First come, first served: whatever was created before a task that has had the
\* lock is done.
FifoInv ==
  \A t, u \in Tasks : t < u /\ swap[u].at \notin {"none", "waiting"} => At(t, "done")

\* A task that has set the target, or found it set.
Served(t) == swap[t].at \in {"skip", "load", "drop", "join", "rebuild", "done"}

\* While serving, the target is that of the last task served.
LatestInv ==
  loop = "serving" =>
    /\ \A t \in Tasks :
         Served(t) /\ (\A u \in Tasks : u > t => ~Served(u)) => root = swap[t].target
    /\ (\A t \in Tasks : ~Served(t)) => root = BootRoot

IInv ==
  /\ SupTypeOK
  /\ LockInv /\ OrderInv /\ WindowInv /\ SlotInv /\ ClaimInv
  /\ FifoInv /\ LatestInv
  /\ NoOrphan /\ WatcherOnTarget

\* The type invariant: the bounds on `built` and `generation` need the order in
\* which tasks are served.
LEMMA TypeStep == IInv /\ [SupNext]_supVars => SupTypeOK'
<1> SUFFICES ASSUME SupTypeOK, LockInv, OrderInv, WindowInv, [SupNext]_supVars
             PROVE  SupTypeOK'
  BY DEF IInv
<1> USE RootAssumption, WiringAssumption, MovesAssumption
    DEF SupTypeOK, LoopStates,
        Tasks, Watchers, Targets, NoTask, NoWatcher, Places, Releasing, LoopFree, At, Goto
<1>1. CASE Start
  <2>1. moves = 0 /\ built <= 1 /\ built' <= 1 /\ 1 \in Watchers
    BY <1>1 DEF Start, WindowInv, OrderInv
  <2>2. rooted' \in [Watchers -> Roots]
    BY <1>1, <2>1 DEF Start, WindowInv
  <2>3. built' \in 0..1 /\ current' = built' /\ running' \subseteq {built'} \ {NoWatcher}
    <3>1. current = built /\ running = {}
      BY <1>1 DEF Start, WindowInv
    <3>2. CASE current # NoWatcher
      BY <1>1, <2>1, <3>1, <3>2 DEF Start
    <3>3. CASE current = NoWatcher
      BY <1>1, <2>1, <3>1, <3>3 DEF Start
    <3> QED
      BY <3>2, <3>3
  <2> QED
    BY <1>1, <2>1, <2>2, <2>3 DEF Start
<1>2. CASE StartFails
  BY <1>2 DEF StartFails
<1>3. CASE StopLatch
  BY <1>3 DEF StopLatch
<1>4. CASE StopLoad
  BY <1>4 DEF StopLoad
<1>5. CASE StopDrop
  BY <1>5 DEF StopDrop
<1>6. CASE StopJoin
  BY <1>6 DEF StopJoin
<1>7. ASSUME NEW r \in Targets, Move(r) PROVE SupTypeOK'
  <2>1. moves + 1 \in Tasks
    BY <1>7 DEF Move
  <2>2. swap' \in [Tasks -> [at: Places, target: Targets, held: Watchers \cup {NoWatcher}]]
    <3> DEFINE waiting == [swap[moves + 1] EXCEPT !.at = "waiting", !.target = r]
    <3>1. waiting \in [at: Places, target: Targets, held: Watchers \cup {NoWatcher}]
      BY <2>1
    <3>2. swap' = [swap EXCEPT ![moves + 1] = waiting]
      BY <1>7 DEF Move
    <3> HIDE DEF waiting, Places, Targets, Watchers, Tasks
    <3> QED
      BY <3>1, <3>2
  <2>3. moves' \in 0..MaxMoves
    BY <1>7 DEF Move
  <2>4. UNCHANGED <<current, root, generation, started, built, rooted, running,
                    swapping, loop, stopHeld>>
    BY <1>7 DEF Move
  <2>5. generation' \in 0..moves' /\ built' \in 0..(moves' + 1)
    BY <1>7 DEF Move
  <2> HIDE DEF Places, Releasing, LoopStates, Targets, Watchers, Tasks
  <2> QED
    BY <2>2, <2>3, <2>4, <2>5
<1>8. ASSUME NEW t \in Tasks, SwapStep(t) PROVE SupTypeOK'
  <2>1. CASE Acquire(t)
    BY <2>1 DEF Acquire
  <2>2. CASE ReleaseGuard(t)
    <3>1. PICK place \in {"skip", "claim"} : swap' = [swap EXCEPT ![t].at = place]
      BY <2>2 DEF ReleaseGuard
    <3>2. swap' \in [Tasks -> [at: Places, target: Targets, held: Watchers \cup {NoWatcher}]]
      BY <3>1
    <3> QED
      BY <2>2, <3>2 DEF ReleaseGuard
  <2>3. CASE ReleaseClaim(t)
    BY <2>3 DEF ReleaseClaim
  <2>4. CASE ReleaseLoad(t)
    <3> DEFINE loaded == [swap[t] EXCEPT !.at = "drop", !.held = current]
    <3>1. loaded \in [at: Places, target: Targets, held: Watchers \cup {NoWatcher}]
      OBVIOUS
    <3>2. swap' = [swap EXCEPT ![t] = loaded]
      BY <2>4 DEF ReleaseLoad
    <3>3. swap' \in [Tasks -> [at: Places, target: Targets, held: Watchers \cup {NoWatcher}]]
      <4> HIDE DEF loaded, Places, Targets, Watchers, Tasks
      <4> QED
        BY <3>1, <3>2
    <3> QED
      BY <2>4, <3>3 DEF ReleaseLoad
  <2>5. CASE ReleaseDrop(t)
    <3>1. PICK place \in {"rebuild", "join"} : swap' = [swap EXCEPT ![t].at = place]
      BY <2>5 DEF ReleaseDrop
    <3>2. swap' \in [Tasks -> [at: Places, target: Targets, held: Watchers \cup {NoWatcher}]]
      BY <3>1
    <3> QED
      BY <2>5, <3>2 DEF ReleaseDrop
  <2>6. CASE ReleaseJoin(t)
    BY <2>6 DEF ReleaseJoin
  <2>7. CASE EndSkipped(t)
    BY <2>7 DEF EndSkipped
  <2>8. CASE Rebuild(t)
    <3>1. generation < t /\ t <= moves /\ built <= generation + 1
      BY <2>8 DEF Rebuild, OrderInv, LockInv, Holding
    <3>2. swap' \in [Tasks -> [at: Places, target: Targets, held: Watchers \cup {NoWatcher}]]
      BY <2>8 DEF Rebuild
    <3> QED
      BY <2>8, <3>1, <3>2 DEF Rebuild
  <2>9. CASE RebuildWatcherless(t)
    <3>1. generation < t /\ t <= moves /\ built <= generation + 1
      BY <2>9 DEF RebuildWatcherless, OrderInv, LockInv, Holding
    <3>2. swap' \in [Tasks -> [at: Places, target: Targets, held: Watchers \cup {NoWatcher}]]
      BY <2>9 DEF RebuildWatcherless
    <3> QED
      BY <2>9, <3>1, <3>2 DEF RebuildWatcherless
  <2>10. CASE RebuildAfterStop(t)
    BY <2>10 DEF RebuildAfterStop
  <2> QED
    BY <1>8, <2>1, <2>2, <2>3, <2>4, <2>5, <2>6, <2>7, <2>8, <2>9, <2>10
       DEF SwapStep, ReleaseStep, LoopStep
<1>9. CASE UNCHANGED supVars
  BY <1>9 DEF supVars
<1> QED
  BY <1>1, <1>2, <1>3, <1>4, <1>5, <1>6, <1>7, <1>8, <1>9 DEF SupNext, StopStep

\* Mutual exclusion of the swap tasks.
LEMMA LockStep == IInv /\ [SupNext]_supVars => LockInv'
<1> SUFFICES ASSUME SupTypeOK, LockInv, OrderInv, WindowInv, [SupNext]_supVars
             PROVE  LockInv'
  BY DEF IInv
<1> USE RootAssumption, WiringAssumption, MovesAssumption
    DEF SupTypeOK, LockInv, OrderInv, WindowInv, Holding,
        Tasks, Watchers, Targets, NoTask, NoWatcher, Places, Releasing, LoopFree, At, Goto
<1>1. CASE Start
  BY <1>1 DEF Start
<1>2. CASE StartFails
  BY <1>2 DEF StartFails
<1>3. CASE StopLatch
  BY <1>3 DEF StopLatch
<1>4. CASE StopLoad
  BY <1>4 DEF StopLoad
<1>5. CASE StopDrop
  BY <1>5 DEF StopDrop
<1>6. CASE StopJoin
  BY <1>6 DEF StopJoin
<1>7. ASSUME NEW r \in Targets, Move(r) PROVE LockInv'
  BY <1>7 DEF Move
<1>8. ASSUME NEW t \in Tasks, SwapStep(t) PROVE LockInv'
  <2>1. CASE Acquire(t)
    BY <2>1 DEF Acquire
  <2>2. CASE ReleaseGuard(t)
    BY <2>2 DEF ReleaseGuard
  <2>3. CASE ReleaseClaim(t)
    BY <2>3 DEF ReleaseClaim
  <2>4. CASE ReleaseLoad(t)
    BY <2>4 DEF ReleaseLoad
  <2>5. CASE ReleaseDrop(t)
    BY <2>5 DEF ReleaseDrop
  <2>6. CASE ReleaseJoin(t)
    BY <2>6 DEF ReleaseJoin
  <2>7. CASE EndSkipped(t)
    BY <2>7 DEF EndSkipped
  <2>8. CASE Rebuild(t)
    BY <2>8 DEF Rebuild
  <2>9. CASE RebuildWatcherless(t)
    BY <2>9 DEF RebuildWatcherless
  <2>10. CASE RebuildAfterStop(t)
    BY <2>10 DEF RebuildAfterStop
  <2> QED
    BY <1>8, <2>1, <2>2, <2>3, <2>4, <2>5, <2>6, <2>7, <2>8, <2>9, <2>10
       DEF SwapStep, ReleaseStep, LoopStep
<1>9. CASE UNCHANGED supVars
  BY <1>9 DEF supVars
<1> QED
  BY <1>1, <1>2, <1>3, <1>4, <1>5, <1>6, <1>7, <1>8, <1>9 DEF SupNext, StopStep

\* Tasks are served in order, each moving the counters at most once.
LEMMA OrderStep == IInv /\ [SupNext]_supVars => OrderInv'
<1> SUFFICES ASSUME SupTypeOK, LockInv, OrderInv, WindowInv, [SupNext]_supVars
             PROVE  OrderInv'
  BY DEF IInv
<1> USE RootAssumption, WiringAssumption, MovesAssumption
    DEF SupTypeOK, LockInv, OrderInv, WindowInv, Holding,
        Tasks, Watchers, Targets, NoTask, NoWatcher, Places, Releasing, LoopFree, At, Goto
<1>1. CASE Start
  BY <1>1 DEF Start
<1>2. CASE StartFails
  BY <1>2 DEF StartFails
<1>3. CASE StopLatch
  BY <1>3 DEF StopLatch
<1>4. CASE StopLoad
  BY <1>4 DEF StopLoad
<1>5. CASE StopDrop
  BY <1>5 DEF StopDrop
<1>6. CASE StopJoin
  BY <1>6 DEF StopJoin
<1>7. ASSUME NEW r \in Targets, Move(r) PROVE OrderInv'
  BY <1>7 DEF Move
<1>8. ASSUME NEW t \in Tasks, SwapStep(t) PROVE OrderInv'
  <2>1. CASE Acquire(t)
    BY <2>1 DEF Acquire
  <2>2. CASE ReleaseGuard(t)
    BY <2>2 DEF ReleaseGuard
  <2>3. CASE ReleaseClaim(t)
    BY <2>3 DEF ReleaseClaim
  <2>4. CASE ReleaseLoad(t)
    BY <2>4 DEF ReleaseLoad
  <2>5. CASE ReleaseDrop(t)
    BY <2>5 DEF ReleaseDrop
  <2>6. CASE ReleaseJoin(t)
    BY <2>6 DEF ReleaseJoin
  <2>7. CASE EndSkipped(t)
    BY <2>7 DEF EndSkipped
  <2>8. CASE Rebuild(t)
    BY <2>8 DEF Rebuild
  <2>9. CASE RebuildWatcherless(t)
    BY <2>9 DEF RebuildWatcherless
  <2>10. CASE RebuildAfterStop(t)
    BY <2>10 DEF RebuildAfterStop
  <2> QED
    BY <1>8, <2>1, <2>2, <2>3, <2>4, <2>5, <2>6, <2>7, <2>8, <2>9, <2>10
       DEF SwapStep, ReleaseStep, LoopStep
<1>9. CASE UNCHANGED supVars
  BY <1>9 DEF supVars
<1> QED
  BY <1>1, <1>2, <1>3, <1>4, <1>5, <1>6, <1>7, <1>8, <1>9 DEF SupNext, StopStep

\* The serving window and its boot.
LEMMA WindowStep == IInv /\ [SupNext]_supVars => WindowInv'
<1> SUFFICES ASSUME SupTypeOK, OrderInv, WindowInv, [SupNext]_supVars
             PROVE  WindowInv'
  BY DEF IInv
<1> USE RootAssumption, WiringAssumption, MovesAssumption
    DEF SupTypeOK, OrderInv, WindowInv, LoopStates,
        Tasks, Watchers, Targets, NoTask, NoWatcher, Places, Releasing, LoopFree, At, Goto
<1>1. CASE Start
  BY <1>1 DEF Start
<1>2. CASE StartFails
  BY <1>2 DEF StartFails
<1>3. CASE StopLatch
  BY <1>3 DEF StopLatch
<1>4. CASE StopLoad
  BY <1>4 DEF StopLoad
<1>5. CASE StopDrop
  BY <1>5 DEF StopDrop
<1>6. CASE StopJoin
  BY <1>6 DEF StopJoin
<1>7. ASSUME NEW r \in Targets, Move(r) PROVE WindowInv'
  BY <1>7 DEF Move
<1>8. ASSUME NEW t \in Tasks, SwapStep(t) PROVE WindowInv'
  <2>1. CASE Acquire(t)
    BY <2>1 DEF Acquire
  <2>2. CASE ReleaseGuard(t)
    BY <2>2 DEF ReleaseGuard
  <2>3. CASE ReleaseClaim(t)
    BY <2>3 DEF ReleaseClaim
  <2>4. CASE ReleaseLoad(t)
    BY <2>4 DEF ReleaseLoad
  <2>5. CASE ReleaseDrop(t)
    BY <2>5 DEF ReleaseDrop
  <2>6. CASE ReleaseJoin(t)
    BY <2>6 DEF ReleaseJoin
  <2>7. CASE EndSkipped(t)
    BY <2>7 DEF EndSkipped
  <2>8. CASE Rebuild(t)
    BY <2>8 DEF Rebuild
  <2>9. CASE RebuildWatcherless(t)
    BY <2>9 DEF RebuildWatcherless
  <2>10. CASE RebuildAfterStop(t)
    BY <2>10 DEF RebuildAfterStop
  <2> QED
    BY <1>8, <2>1, <2>2, <2>3, <2>4, <2>5, <2>6, <2>7, <2>8, <2>9, <2>10
       DEF SwapStep, ReleaseStep, LoopStep
<1>9. CASE UNCHANGED supVars
  BY <1>9 DEF supVars
<1> QED
  BY <1>1, <1>2, <1>3, <1>4, <1>5, <1>6, <1>7, <1>8, <1>9 DEF SupNext, StopStep

\* Only a rebuild fills the slot, and it finds it empty with nothing running.
LEMMA SlotStep == IInv /\ [SupNext]_supVars => SlotInv'
<1> SUFFICES ASSUME SupTypeOK, LockInv, OrderInv, WindowInv, SlotInv, NoOrphan, [SupNext]_supVars
             PROVE  SlotInv'
  BY DEF IInv
<1> USE RootAssumption, WiringAssumption, MovesAssumption
    DEF SupTypeOK, LockInv, OrderInv, WindowInv, SlotInv, NoOrphan, BeingStopped, Holding,
        Tasks, Watchers, Targets, NoTask, NoWatcher, Places, Releasing, LoopFree, At, Goto
<1>1. CASE Start
  <2>1. running = {} /\ current = built /\ loop' = "serving"
    BY <1>1 DEF Start
  <2>2. \A t \in Tasks : At(t, "none") /\ swap' = swap
    BY <1>1 DEF Start
  <2>3. current' = built' /\ running' \subseteq {built'}
    BY <1>1, <2>1 DEF Start
  <2> QED
    BY <1>1, <2>1, <2>2, <2>3
<1>2. CASE StartFails
  BY <1>2 DEF StartFails
<1>3. CASE StopLatch
  BY <1>3 DEF StopLatch
<1>4. CASE StopLoad
  BY <1>4 DEF StopLoad
<1>5. CASE StopDrop
  BY <1>5 DEF StopDrop
<1>6. CASE StopJoin
  BY <1>6 DEF StopJoin
<1>7. ASSUME NEW r \in Targets, Move(r) PROVE SlotInv'
  BY <1>7 DEF Move
<1>8. ASSUME NEW t \in Tasks, SwapStep(t) PROVE SlotInv'
  <2>1. CASE Acquire(t)
    BY <2>1 DEF Acquire
  <2>2. CASE ReleaseGuard(t)
    BY <2>2 DEF ReleaseGuard
  <2>3. CASE ReleaseClaim(t)
    BY <2>3 DEF ReleaseClaim
  <2>4. CASE ReleaseLoad(t)
    BY <2>4 DEF ReleaseLoad
  <2>5. CASE ReleaseDrop(t)
    BY <2>5 DEF ReleaseDrop
  <2>6. CASE ReleaseJoin(t)
    BY <2>6 DEF ReleaseJoin
  <2>7. CASE EndSkipped(t)
    BY <2>7 DEF EndSkipped
  <2>8. CASE Rebuild(t)
    <3>1. swapping = t /\ loop = "serving" /\ current = NoWatcher
      BY <2>8 DEF Rebuild
    <3>2. running = {}
      <4>1. \A u \in Tasks : swap[u].at \notin {"drop", "join"}
        BY <2>8, <3>1 DEF Rebuild
      <4>2. \A w \in running : w \in Watchers /\ w # current
        BY <3>1
      <4> QED
        BY <3>1, <4>1, <4>2
    <3>3. current' = built' /\ running' = {built'}
      BY <2>8, <3>2 DEF Rebuild
    <3>4. \A u \in Tasks : swap'[u].at \notin Holding
      BY <2>8, <3>1 DEF Rebuild
    <3> QED
      BY <2>8, <3>1, <3>3, <3>4 DEF Rebuild
  <2>9. CASE RebuildWatcherless(t)
    BY <2>9 DEF RebuildWatcherless
  <2>10. CASE RebuildAfterStop(t)
    BY <2>10 DEF RebuildAfterStop
  <2> QED
    BY <1>8, <2>1, <2>2, <2>3, <2>4, <2>5, <2>6, <2>7, <2>8, <2>9, <2>10
       DEF SwapStep, ReleaseStep, LoopStep
<1>9. CASE UNCHANGED supVars
  BY <1>9 DEF supVars
<1> QED
  BY <1>1, <1>2, <1>3, <1>4, <1>5, <1>6, <1>7, <1>8, <1>9 DEF SupNext, StopStep

\* Nobody else moves the target while a swap is under way.
LEMMA ClaimStep == IInv /\ [SupNext]_supVars => ClaimInv'
<1> SUFFICES ASSUME SupTypeOK, LockInv, OrderInv, WindowInv, ClaimInv, [SupNext]_supVars
             PROVE  ClaimInv'
  BY DEF IInv
<1> USE RootAssumption, WiringAssumption, MovesAssumption
    DEF SupTypeOK, LockInv, OrderInv, WindowInv, ClaimInv, Holding,
        Tasks, Watchers, Targets, NoTask, NoWatcher, Places, Releasing, LoopFree, At, Goto
<1>1. CASE Start
  BY <1>1 DEF Start
<1>2. CASE StartFails
  BY <1>2 DEF StartFails
<1>3. CASE StopLatch
  BY <1>3 DEF StopLatch
<1>4. CASE StopLoad
  BY <1>4 DEF StopLoad
<1>5. CASE StopDrop
  BY <1>5 DEF StopDrop
<1>6. CASE StopJoin
  BY <1>6 DEF StopJoin
<1>7. ASSUME NEW r \in Targets, Move(r) PROVE ClaimInv'
  BY <1>7 DEF Move
<1>8. ASSUME NEW t \in Tasks, SwapStep(t) PROVE ClaimInv'
  <2>1. CASE Acquire(t)
    BY <2>1 DEF Acquire
  <2>2. CASE ReleaseGuard(t)
    BY <2>2 DEF ReleaseGuard
  <2>3. CASE ReleaseClaim(t)
    BY <2>3 DEF ReleaseClaim
  <2>4. CASE ReleaseLoad(t)
    BY <2>4 DEF ReleaseLoad
  <2>5. CASE ReleaseDrop(t)
    BY <2>5 DEF ReleaseDrop
  <2>6. CASE ReleaseJoin(t)
    BY <2>6 DEF ReleaseJoin
  <2>7. CASE EndSkipped(t)
    BY <2>7 DEF EndSkipped
  <2>8. CASE Rebuild(t)
    BY <2>8 DEF Rebuild
  <2>9. CASE RebuildWatcherless(t)
    BY <2>9 DEF RebuildWatcherless
  <2>10. CASE RebuildAfterStop(t)
    BY <2>10 DEF RebuildAfterStop
  <2> QED
    BY <1>8, <2>1, <2>2, <2>3, <2>4, <2>5, <2>6, <2>7, <2>8, <2>9, <2>10
       DEF SwapStep, ReleaseStep, LoopStep
<1>9. CASE UNCHANGED supVars
  BY <1>9 DEF supVars
<1> QED
  BY <1>1, <1>2, <1>3, <1>4, <1>5, <1>6, <1>7, <1>8, <1>9 DEF SupNext, StopStep

\* The lock is given out in the order of creation.
LEMMA FifoStep == IInv /\ [SupNext]_supVars => FifoInv'
<1> SUFFICES ASSUME SupTypeOK, LockInv, OrderInv, WindowInv, FifoInv, [SupNext]_supVars
             PROVE  FifoInv'
  BY DEF IInv
<1> USE RootAssumption, WiringAssumption, MovesAssumption
    DEF SupTypeOK, LockInv, OrderInv, WindowInv, FifoInv, Holding,
        Tasks, Watchers, Targets, NoTask, NoWatcher, Places, Releasing, LoopFree, At, Goto
<1>1. CASE Start
  BY <1>1 DEF Start
<1>2. CASE StartFails
  BY <1>2 DEF StartFails
<1>3. CASE StopLatch
  BY <1>3 DEF StopLatch
<1>4. CASE StopLoad
  BY <1>4 DEF StopLoad
<1>5. CASE StopDrop
  BY <1>5 DEF StopDrop
<1>6. CASE StopJoin
  BY <1>6 DEF StopJoin
<1>7. ASSUME NEW r \in Targets, Move(r) PROVE FifoInv'
  BY <1>7 DEF Move
<1>8. ASSUME NEW t \in Tasks, SwapStep(t) PROVE FifoInv'
  <2>1. CASE Acquire(t)
    BY <2>1 DEF Acquire
  <2>2. CASE ReleaseGuard(t)
    BY <2>2 DEF ReleaseGuard
  <2>3. CASE ReleaseClaim(t)
    BY <2>3 DEF ReleaseClaim
  <2>4. CASE ReleaseLoad(t)
    BY <2>4 DEF ReleaseLoad
  <2>5. CASE ReleaseDrop(t)
    BY <2>5 DEF ReleaseDrop
  <2>6. CASE ReleaseJoin(t)
    BY <2>6 DEF ReleaseJoin
  <2>7. CASE EndSkipped(t)
    BY <2>7 DEF EndSkipped
  <2>8. CASE Rebuild(t)
    BY <2>8 DEF Rebuild
  <2>9. CASE RebuildWatcherless(t)
    BY <2>9 DEF RebuildWatcherless
  <2>10. CASE RebuildAfterStop(t)
    BY <2>10 DEF RebuildAfterStop
  <2> QED
    BY <1>8, <2>1, <2>2, <2>3, <2>4, <2>5, <2>6, <2>7, <2>8, <2>9, <2>10
       DEF SwapStep, ReleaseStep, LoopStep
<1>9. CASE UNCHANGED supVars
  BY <1>9 DEF supVars
<1> QED
  BY <1>1, <1>2, <1>3, <1>4, <1>5, <1>6, <1>7, <1>8, <1>9 DEF SupNext, StopStep

\* The last task served decides the target.
LEMMA LatestStep == IInv /\ [SupNext]_supVars => LatestInv'
<1> SUFFICES ASSUME SupTypeOK, LockInv, OrderInv, WindowInv, FifoInv, LatestInv, [SupNext]_supVars
             PROVE  LatestInv'
  BY DEF IInv
<1> USE RootAssumption, WiringAssumption, MovesAssumption
    DEF SupTypeOK, LockInv, OrderInv, WindowInv, FifoInv, LatestInv, Served, Holding,
        Tasks, Watchers, Targets, NoTask, NoWatcher, Places, Releasing, LoopFree, At, Goto
<1>1. CASE Start
  BY <1>1 DEF Start
<1>2. CASE StartFails
  BY <1>2 DEF StartFails
<1>3. CASE StopLatch
  BY <1>3 DEF StopLatch
<1>4. CASE StopLoad
  BY <1>4 DEF StopLoad
<1>5. CASE StopDrop
  BY <1>5 DEF StopDrop
<1>6. CASE StopJoin
  BY <1>6 DEF StopJoin
<1>7. ASSUME NEW r \in Targets, Move(r) PROVE LatestInv'
  <2>1. \A u \in Tasks : Served(u)' <=> Served(u)
    BY <1>7 DEF Move
  <2>2. \A u \in Tasks : Served(u) => swap'[u] = swap[u]
    BY <1>7 DEF Move
  <2> QED
    BY <1>7, <2>1, <2>2 DEF Move
<1>8. ASSUME NEW t \in Tasks, SwapStep(t) PROVE LatestInv'
  <2>1. CASE Acquire(t)
    BY <2>1 DEF Acquire
  <2>2. CASE ReleaseGuard(t)
    <3>1. \A u \in Tasks : swap'[u].target = swap[u].target
      BY <2>2 DEF ReleaseGuard
    <3>2. \A u \in Tasks : u # t => (Served(u)' <=> Served(u))
      BY <2>2 DEF ReleaseGuard
    <3>3. ~Served(t) /\ \A u \in Tasks : u > t => ~Served(u)
      BY <2>2 DEF ReleaseGuard
    <3>4. CASE loop = "serving" /\ root # swap[t].target
      <4>1. ~Served(t)'
        BY <2>2, <3>4 DEF ReleaseGuard
      <4> QED
        BY <2>2, <3>1, <3>2, <3>3, <3>4, <4>1 DEF ReleaseGuard
    <3>5. CASE loop = "serving" /\ root = swap[t].target
      <4>1. Served(t)'
        BY <2>2, <3>5 DEF ReleaseGuard
      <4> QED
        BY <2>2, <3>1, <3>2, <3>3, <3>5, <4>1 DEF ReleaseGuard
    <3>6. CASE loop # "serving"
      BY <2>2, <3>6 DEF ReleaseGuard
    <3> QED
      BY <3>4, <3>5, <3>6
  <2>3. CASE ReleaseClaim(t)
    <3>1. \A u \in Tasks : swap'[u].target = swap[u].target
      BY <2>3 DEF ReleaseClaim
    <3>2. \A u \in Tasks : u # t => (Served(u)' <=> Served(u))
      BY <2>3 DEF ReleaseClaim
    <3>3. Served(t)' /\ root' = swap[t].target
      BY <2>3 DEF ReleaseClaim
    <3>4. \A u \in Tasks : u > t => ~Served(u)
      BY <2>3 DEF ReleaseClaim
    <3>5. ASSUME NEW v \in Tasks, Served(v)', \A u \in Tasks : u > v => ~Served(u)'
          PROVE  v = t
      BY <3>2, <3>3, <3>4, <3>5
    <3> HIDE DEF Served
    <3> QED
      BY <3>1, <3>3, <3>5
  <2>4. CASE ReleaseLoad(t)
    BY <2>4 DEF ReleaseLoad
  <2>5. CASE ReleaseDrop(t)
    BY <2>5 DEF ReleaseDrop
  <2>6. CASE ReleaseJoin(t)
    BY <2>6 DEF ReleaseJoin
  <2>7. CASE EndSkipped(t)
    BY <2>7 DEF EndSkipped
  <2>8. CASE Rebuild(t)
    BY <2>8 DEF Rebuild
  <2>9. CASE RebuildWatcherless(t)
    BY <2>9 DEF RebuildWatcherless
  <2>10. CASE RebuildAfterStop(t)
    BY <2>10 DEF RebuildAfterStop
  <2> QED
    BY <1>8, <2>1, <2>2, <2>3, <2>4, <2>5, <2>6, <2>7, <2>8, <2>9, <2>10
       DEF SwapStep, ReleaseStep, LoopStep
<1>9. CASE UNCHANGED supVars
  BY <1>9 DEF supVars
<1> QED
  BY <1>1, <1>2, <1>3, <1>4, <1>5, <1>6, <1>7, <1>8, <1>9 DEF SupNext, StopStep

\* A watcher taken out of the slot is held by whoever took it.
LEMMA OrphanStep == IInv /\ [SupNext]_supVars => NoOrphan'
<1> SUFFICES ASSUME SupTypeOK, OrderInv, WindowInv, SlotInv, NoOrphan, [SupNext]_supVars
             PROVE  NoOrphan'
  BY DEF IInv
<1> USE RootAssumption, WiringAssumption, MovesAssumption
    DEF SupTypeOK, OrderInv, WindowInv, SlotInv, NoOrphan, BeingStopped,
        Tasks, Watchers, Targets, NoTask, NoWatcher, Places, Releasing, LoopFree, At, Goto
<1>1. CASE Start
  <2>1. running = {} /\ current = built /\ loop' = "serving"
    BY <1>1 DEF Start
  <2>2. \A t \in Tasks : At(t, "none") /\ swap' = swap
    BY <1>1 DEF Start
  <2>3. current' = built' /\ running' \subseteq {built'}
    BY <1>1, <2>1 DEF Start
  <2> QED
    BY <1>1, <2>1, <2>2, <2>3
<1>2. CASE StartFails
  BY <1>2 DEF StartFails
<1>3. CASE StopLatch
  BY <1>3 DEF StopLatch
<1>4. CASE StopLoad
  BY <1>4 DEF StopLoad
<1>5. CASE StopDrop
  BY <1>5 DEF StopDrop
<1>6. CASE StopJoin
  BY <1>6 DEF StopJoin
<1>7. ASSUME NEW r \in Targets, Move(r) PROVE NoOrphan'
  BY <1>7 DEF Move
<1>8. ASSUME NEW t \in Tasks, SwapStep(t) PROVE NoOrphan'
  <2>1. CASE Acquire(t)
    BY <2>1 DEF Acquire
  <2>2. CASE ReleaseGuard(t)
    BY <2>2 DEF ReleaseGuard
  <2>3. CASE ReleaseClaim(t)
    BY <2>3 DEF ReleaseClaim
  <2>4. CASE ReleaseLoad(t)
    BY <2>4 DEF ReleaseLoad
  <2>5. CASE ReleaseDrop(t)
    BY <2>5 DEF ReleaseDrop
  <2>6. CASE ReleaseJoin(t)
    BY <2>6 DEF ReleaseJoin
  <2>7. CASE EndSkipped(t)
    BY <2>7 DEF EndSkipped
  <2>8. CASE Rebuild(t)
    <3>1. \A w \in running : BeingStopped(w)
      <4>1. current = NoWatcher
        BY <2>8 DEF Rebuild
      <4>2. \A w \in running : w \in Watchers
        OBVIOUS
      <4> QED
        BY ONLY <4>1, <4>2, NoOrphan, MovesAssumption DEF NoOrphan, Watchers, NoWatcher
    <3>2. \A w \in running : BeingStopped(w)'
      BY <2>8, <3>1 DEF Rebuild
    <3>3. running' = running \cup {current'} /\ loop' = "serving"
      BY <2>8 DEF Rebuild
    <3> QED
      BY <3>2, <3>3
  <2>9. CASE RebuildWatcherless(t)
    BY <2>9 DEF RebuildWatcherless
  <2>10. CASE RebuildAfterStop(t)
    BY <2>10 DEF RebuildAfterStop
  <2> QED
    BY <1>8, <2>1, <2>2, <2>3, <2>4, <2>5, <2>6, <2>7, <2>8, <2>9, <2>10
       DEF SwapStep, ReleaseStep, LoopStep
<1>9. CASE UNCHANGED supVars
  BY <1>9 DEF supVars
<1> QED
  BY <1>1, <1>2, <1>3, <1>4, <1>5, <1>6, <1>7, <1>8, <1>9 DEF SupNext, StopStep

\* The watcher in the slot observes the target.
LEMMA TargetStep == IInv /\ [SupNext]_supVars => WatcherOnTarget'
<1> SUFFICES ASSUME SupTypeOK, LockInv, OrderInv, WindowInv, SlotInv, ClaimInv, WatcherOnTarget, [SupNext]_supVars
             PROVE  WatcherOnTarget'
  BY DEF IInv
<1> USE RootAssumption, WiringAssumption, MovesAssumption
    DEF SupTypeOK, LockInv, OrderInv, WindowInv, SlotInv, ClaimInv, WatcherOnTarget,
        Claimed, Holding,
        Tasks, Watchers, Targets, NoTask, NoWatcher, Places, Releasing, LoopFree, At, Goto
<1>1. CASE Start
  BY <1>1 DEF Start
<1>2. CASE StartFails
  BY <1>2 DEF StartFails
<1>3. CASE StopLatch
  BY <1>3 DEF StopLatch
<1>4. CASE StopLoad
  BY <1>4 DEF StopLoad
<1>5. CASE StopDrop
  BY <1>5 DEF StopDrop
<1>6. CASE StopJoin
  BY <1>6 DEF StopJoin
<1>7. ASSUME NEW r \in Targets, Move(r) PROVE WatcherOnTarget'
  BY <1>7 DEF Move
<1>8. ASSUME NEW t \in Tasks, SwapStep(t) PROVE WatcherOnTarget'
  <2>1. CASE Acquire(t)
    BY <2>1 DEF Acquire
  <2>2. CASE ReleaseGuard(t)
    BY <2>2 DEF ReleaseGuard
  <2>3. CASE ReleaseClaim(t)
    BY <2>3 DEF ReleaseClaim
  <2>4. CASE ReleaseLoad(t)
    BY <2>4 DEF ReleaseLoad
  <2>5. CASE ReleaseDrop(t)
    BY <2>5 DEF ReleaseDrop
  <2>6. CASE ReleaseJoin(t)
    BY <2>6 DEF ReleaseJoin
  <2>7. CASE EndSkipped(t)
    BY <2>7 DEF EndSkipped
  <2>8. CASE Rebuild(t)
    BY <2>8 DEF Rebuild
  <2>9. CASE RebuildWatcherless(t)
    BY <2>9 DEF RebuildWatcherless
  <2>10. CASE RebuildAfterStop(t)
    BY <2>10 DEF RebuildAfterStop
  <2> QED
    BY <1>8, <2>1, <2>2, <2>3, <2>4, <2>5, <2>6, <2>7, <2>8, <2>9, <2>10
       DEF SwapStep, ReleaseStep, LoopStep
<1>9. CASE UNCHANGED supVars
  BY <1>9 DEF supVars
<1> QED
  BY <1>1, <1>2, <1>3, <1>4, <1>5, <1>6, <1>7, <1>8, <1>9 DEF SupNext, StopStep

LEMMA InitInv == SupInit => IInv
<1> SUFFICES ASSUME SupInit PROVE IInv
  OBVIOUS
<1> USE RootAssumption, WiringAssumption, MovesAssumption
    DEF SupInit, Tasks, Watchers, Targets, NoTask, NoWatcher, At
<1>1. SupTypeOK
  <2>1. rooted \in [Watchers -> Roots]
    OBVIOUS
  <2>2. swap \in [Tasks -> [at: Places, target: Targets, held: Watchers \cup {NoWatcher}]]
    BY DEF Places
  <2>3. current \in Watchers \cup {NoWatcher} /\ built \in 0..1
    OBVIOUS
  <2>4. generation \in 0..moves /\ moves \in 0..MaxMoves /\ built \in 0..(moves + 1)
    BY <2>3
  <2>5. stopHeld \in Watchers \cup {NoWatcher} /\ swapping \in Tasks \cup {NoTask}
    OBVIOUS
  <2>6. root \in Targets /\ started \in BOOLEAN /\ running \subseteq Watchers /\ loop \in LoopStates
    BY DEF LoopStates
  <2> QED
    BY ONLY <2>1, <2>2, <2>3, <2>4, <2>5, <2>6 DEF SupTypeOK
<1>2. LockInv /\ OrderInv /\ WindowInv
  BY DEF LockInv, Holding, Releasing, OrderInv, WindowInv
<1>3. SlotInv /\ ClaimInv /\ FifoInv /\ LatestInv
  BY DEF SlotInv, ClaimInv, FifoInv, LatestInv
<1>4. NoOrphan /\ WatcherOnTarget
  BY DEF NoOrphan, WatcherOnTarget
<1> QED
  BY <1>1, <1>2, <1>3, <1>4 DEF IInv

\* The inductive invariant holds of the specification.
THEOREM Invariance == SupSpec => []IInv
<1>1. SupInit => IInv
  BY InitInv
<1>2. IInv /\ [SupNext]_supVars => IInv'
  BY TypeStep, LockStep, OrderStep, WindowStep, SlotStep, ClaimStep, FifoStep,
     LatestStep, OrphanStep, TargetStep DEF IInv
<1> QED
  BY <1>1, <1>2, PTL DEF SupSpec

\* The type invariant, with its bounds on the generation and on the watchers
\* built.
THEOREM TypeCorrect == SupSpec => []SupTypeOK
<1>1. IInv => SupTypeOK
  BY DEF IInv
<1> QED
  BY <1>1, Invariance, PTL

\* Two observers never run together, however many switches and whatever
\* interleaving of the loop and the worker.
THEOREM AtMostOneWatcher == SupSpec => []OneWatcherAtMost
<1>1. IInv => OneWatcherAtMost
  BY DEF IInv, SlotInv, OneWatcherAtMost
<1> QED
  BY <1>1, Invariance, PTL

\* No interleaving of switches and shutdown leaves an observer nobody will stop.
THEOREM NothingOrphaned == SupSpec => []NoOrphan
<1>1. IInv => NoOrphan
  BY DEF IInv
<1> QED
  BY <1>1, Invariance, PTL

\* The live watcher observes the supervisor's target.
THEOREM LiveWatcherOnTarget == SupSpec => []WatcherOnTarget
<1>1. IInv => WatcherOnTarget
  BY DEF IInv
<1> QED
  BY <1>1, Invariance, PTL

\* The selection made last is the one the supervisor settles on.
THEOREM LastSelectionWins == SupSpec => []LastMoveWins
<1>1. IInv => LastMoveWins
  <2> SUFFICES ASSUME IInv, Quiet, loop = "serving"
               PROVE  root = IF moves = 0 THEN BootRoot ELSE swap[moves].target
    BY DEF LastMoveWins
  <2> USE MovesAssumption DEF IInv, SupTypeOK, OrderInv, LatestInv, Served, Quiet, At, Tasks
  <2>1. CASE moves = 0
    BY <2>1
  <2>2. CASE moves # 0
    <3>1. moves \in Tasks /\ Served(moves)
      BY <2>2
    <3>2. \A u \in Tasks : u > moves => ~Served(u)
      OBVIOUS
    <3> QED
      BY <2>2, <3>1, <3>2
  <2> QED
    BY <2>1, <2>2
<1> QED
  BY <1>1, Invariance, PTL

(***************************************************************************)
(* The supervisor implements SingleWatcher                                 *)
(***************************************************************************)
\* Every step takes up a directory, gives one up, closes the window, or is
\* invisible.
LEMMA StepMaps ==
  IInv /\ IInv' /\ [SupNext]_supVars => [Single!Next]_(Single!vars)
<1> SUFFICES ASSUME IInv, IInv', [SupNext]_supVars
             PROVE  [Single!Next]_(Single!vars)
  OBVIOUS
<1> DEFINE Shut == loop \notin {"boot", "serving"}
<1> USE RootAssumption, WiringAssumption, MovesAssumption
    DEF IInv, SupTypeOK, SlotInv, WindowInv, Observed, Watchers, NoWatcher, Targets, LoopFree,
        Single!Next, Single!vars, Single!Begin, Single!End, Single!Close
<1>1. CASE Start
  <2>1. Observed = NoRoot /\ Observed' \in Roots \cup {NoRoot} /\ ~Shut /\ ~Shut'
    BY <1>1 DEF Start
  <2> QED
    BY <2>1
<1>2. CASE StartFails
  BY <1>2 DEF StartFails
<1>3. CASE StopLatch
  BY <1>3 DEF StopLatch
<1>4. CASE StopLoad
  BY <1>4 DEF StopLoad
<1>5. CASE StopDrop
  BY <1>5 DEF StopDrop
<1>6. CASE StopJoin
  BY <1>6 DEF StopJoin
<1>7. ASSUME NEW r \in Targets, Move(r) PROVE [Single!Next]_(Single!vars)
  BY <1>7 DEF Move
<1>8. ASSUME NEW t \in Tasks, SwapStep(t) PROVE [Single!Next]_(Single!vars)
  <2>1. CASE Rebuild(t)
    <3>1. running = {} /\ loop = "serving" /\ UNCHANGED loop
      BY <2>1 DEF Rebuild, NoOrphan, BeingStopped, LockInv, Holding
    <3>2. running' = {built'} /\ rooted'[built'] \in Roots
      BY <2>1, <3>1 DEF Rebuild
    <3> QED
      BY <3>1, <3>2
  <2>2. CASE ReleaseJoin(t)
    BY <2>2 DEF ReleaseJoin
  <2>3. CASE \/ Acquire(t) \/ ReleaseGuard(t) \/ ReleaseClaim(t) \/ ReleaseLoad(t)
             \/ ReleaseDrop(t) \/ EndSkipped(t) \/ RebuildWatcherless(t)
             \/ RebuildAfterStop(t)
    <3>1. UNCHANGED <<running, rooted, built, loop>>
      BY <2>3 DEF Acquire, ReleaseGuard, ReleaseClaim, ReleaseLoad, ReleaseDrop,
                  EndSkipped, RebuildWatcherless, RebuildAfterStop
    <3> QED
      BY <3>1
  <2> QED
    BY <1>8, <2>1, <2>2, <2>3 DEF SwapStep, ReleaseStep, LoopStep
<1>9. CASE UNCHANGED supVars
  BY <1>9 DEF supVars
<1> QED
  BY <1>1, <1>2, <1>3, <1>4, <1>5, <1>6, <1>7, <1>8, <1>9 DEF SupNext, StopStep

\* Refinement: observers never overlap and none is started once shutdown has
\* begun.
THEOREM Refinement == SupSpec => ImplementsSingleWatcher
<1>1. SupInit => Single!Init
  BY DEF SupInit, Single!Init, Observed
<1>2. IInv /\ IInv' /\ [SupNext]_supVars => [Single!Next]_(Single!vars)
  BY StepMaps
<1> QED
  BY <1>1, <1>2, Invariance, PTL DEF SupSpec, ImplementsSingleWatcher, Single!Spec
=============================================================================
