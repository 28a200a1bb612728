---------------------------- MODULE FileWatcher ----------------------------
(***************************************************************************)
(* RealFileWatcher (file_adapter/watcher_real.py): one watcher, from       *)
(* start() to the return of stop().                                        *)
(*                                                                         *)
(* Three threads meet in it.  The observer thread takes the raw events of  *)
(* the file system, schedules artefact directories that appear late, and   *)
(* posts everything else to the loop.  The loop debounces and fans out.    *)
(* stop() runs on the loop (shutdown) or on a worker thread (a project     *)
(* switch); it posts the clean-up to the loop in the second case.  The     *)
(* posted callbacks run in order.                                          *)
(*                                                                         *)
(* A path is a directory of watched_artifacts.py, standing for the files   *)
(* in it, or Planning, for the subtree that is in place in every project.  *)
(* The directories are .factory, which a fresh clone does not have, and    *)
(* those in it.  Changes are numbered as they happen.                      *)
(***************************************************************************)
EXTENDS Naturals, Sequences, FiniteSets

CONSTANTS
  Planning,    \* the files under docs/planning
  Factory,     \* .factory, the parent of the other directories
  DirKind,     \* directories that are artefacts themselves (results, receipts)
  ParentKind,  \* directories watched for a file in them (.factory, metrics)
  MaxChanges,  \* bound: changes under the watches
  MaxMoves     \* bound: directories created or removed

Dirs == DirKind \cup ParentKind
Paths == Dirs \cup {Planning}

ASSUME DirAssumption ==
  DirKind \cap ParentKind = {} /\ Planning \notin Dirs /\ Factory \in ParentKind
ASSUME ChangeAssumption == MaxChanges \in Nat /\ MaxMoves \in Nat

VARIABLES
  exists,     \* the directories on disk
  moves,      \* how often that changed
  disturbed,  \* history: directories that changed during start() or were removed
  phase,      \* of the observer thread: "new", "surveyed", "running", "joined",
              \* or "dead", when an exception ended it
  scheduled,  \* _scheduled_artifact_dirs
  watched,    \* the directories an emitter of the observer sees
  calls,      \* calls[d]: how often d was scheduled on the observer
  raw,        \* the observer's event queue
  posting,    \* what the observer thread posts next, past the check of _stopped
  ready,      \* the callbacks posted to the loop
  doing,      \* what the loop runs, past its check of _stopped
  armed,      \* the paths whose TimerHandle is neither cancelled nor fired
  pending,    \* _pending: pending[p] is a change, 0 for none
  stopped,    \* _stopped
  stopAt,     \* how far stop() is; "resumed" when the loop sees it returned
  changes,    \* how many there were
  newest,     \* newest[p]: the last change of p
  reported,   \* reported[p]: the last change of p that was fanned out
  late        \* history: events fanned out after stop() returned

files == <<changes, newest>>
disk == <<exists, moves, disturbed>>
observer == <<phase, scheduled, watched, calls, raw, posting>>
loopVars == <<doing, armed, pending, reported, late>>
vars == <<disk, observer, ready, loopVars, stopped, stopAt, files>>

Nothing == <<"nothing">>
Changed(p, n) == <<"changed", p, n>>
Appeared(d) == <<"appeared", d>>
DirEvent == <<"directory">>   \* any other directory event at or under .factory
Discard == <<"discard">>
Resume == <<"resume">>
Flushing(p) == <<"flush", p>>
StopCalled == <<"stop">>

Phases == {"new", "surveyed", "running", "joined", "dead"}
StopPlaces == {"no", "latched", "joined", "returned", "resumed"}
Numbers == 0..MaxChanges
Changes == {Changed(p, n) : p \in Paths, n \in 1..MaxChanges}
RawEvents == Changes \cup {Appeared(d) : d \in Dirs} \cup {DirEvent}

Init ==
  /\ exists \in {there \in SUBSET Dirs : there = {} \/ Factory \in there}
  /\ moves = 0
  /\ disturbed = {}
  /\ phase = "new"
  /\ scheduled = {} /\ watched = {}
  /\ calls = [d \in Dirs |-> 0]
  /\ raw = <<>> /\ posting = Nothing /\ ready = <<>> /\ doing = Nothing
  /\ armed = {}
  /\ pending = [p \in Paths |-> 0]
  /\ stopped = FALSE
  /\ stopAt = "no"
  /\ changes = 0
  /\ newest = [p \in Paths |-> 0]
  /\ reported = [p \in Paths |-> 0]
  /\ late = 0

-----------------------------------------------------------------------------
\* Mutant of Survey: the kind of a directory is not looked at.
SurveyAnyKind ==
  /\ phase = "new"
  /\ scheduled' = exists
  /\ phase' = "surveyed"
  /\ UNCHANGED <<disk, watched, calls, raw, posting, ready, loopVars, stopped, stopAt, files>>

\* start() looks at the disk twice: it first records the artefact directories
\* it finds ...
Survey ==
  /\ phase = "new"
  /\ scheduled' = exists \cap DirKind
  /\ phase' = "surveyed"
  /\ UNCHANGED <<disk, watched, calls, raw, posting, ready, loopVars, stopped, stopAt, files>>

\* ... and then schedules every directory that is there, and no other: .factory itself
\* has to be there to be watched, and nothing looks for it again.
Launch ==
  /\ phase = "surveyed"
  /\ watched' = exists
  /\ calls' = [d \in Dirs |-> IF d \in exists THEN 1 ELSE 0]
  /\ phase' = "running"
  /\ UNCHANGED <<disk, scheduled, raw, posting, ready, loopVars, stopped, stopAt, files>>

-----------------------------------------------------------------------------
(* The file system, moved by the factory and by editors.                   *)

\* What the watch on .factory reports, if start() could place one.
Heard(event) ==
  raw' = IF phase = "running" /\ Factory \in watched THEN Append(raw, event) ELSE raw

\* inotify names the new directory; FSEvents only says that its parent changed.
MakeDir(d) ==
  /\ moves < MaxMoves
  /\ d \notin exists
  /\ d # Factory => Factory \in exists
  /\ exists' = exists \cup {d}
  /\ moves' = moves + 1
  /\ disturbed' = IF phase = "surveyed" THEN disturbed \cup {d} ELSE disturbed
  /\ \E event \in {Appeared(d), DirEvent} : Heard(event)
  /\ UNCHANGED <<phase, scheduled, watched, calls, posting, ready, loopVars, stopped, stopAt, files>>

RemoveDir(d) ==
  /\ moves < MaxMoves
  /\ d \in exists
  /\ d = Factory => exists = {Factory}
  /\ exists' = exists \ {d}
  /\ watched' = watched \ {d}
  /\ moves' = moves + 1
  /\ disturbed' = disturbed \cup {d}
  /\ Heard(DirEvent)
  /\ UNCHANGED <<phase, scheduled, calls, posting, ready, loopVars, stopped, stopAt, files>>

Seen(p) == phase = "running" /\ (p = Planning \/ p \in watched)

Change(p) ==
  /\ Seen(p)
  /\ changes < MaxChanges
  /\ changes' = changes + 1
  /\ newest' = [newest EXCEPT ![p] = changes']
  /\ raw' = Append(raw, Changed(p, changes'))
  /\ UNCHANGED <<disk, phase, scheduled, watched, calls, posting, ready, loopVars, stopped, stopAt>>

-----------------------------------------------------------------------------
(* The observer thread: _ChangeEventHandler.on_any_event.                  *)

Taking == phase = "running" /\ posting = Nothing /\ raw # <<>>

\* _dispatch_from_thread: the check ...
TakeChange ==
  /\ Taking
  /\ Head(raw) \in Changes
  /\ raw' = Tail(raw)
  /\ posting' = IF stopped THEN Nothing ELSE Head(raw)
  /\ UNCHANGED <<disk, phase, scheduled, watched, calls, ready, loopVars, stopped, stopAt, files>>

\* ... and the call_soon_threadsafe after it.
Post ==
  /\ posting # Nothing
  /\ ready' = Append(ready, posting)
  /\ posting' = Nothing
  /\ UNCHANGED <<disk, phase, scheduled, watched, calls, raw, loopVars, stopped, stopAt, files>>

Schedule(ds) ==
  /\ scheduled' = scheduled \cup ds
  /\ calls' = [d \in Dirs |-> IF d \in ds THEN calls[d] + 1 ELSE calls[d]]
  /\ watched' = watched \cup (ds \cap exists)
  \* observer.schedule raises for a directory that is gone, and ends the thread.
  /\ phase' = IF ds \subseteq exists THEN phase ELSE "dead"

\* Mutant of Missing: what is scheduled already is not left out.
MissingOrNot == exists \cap DirKind

\* _schedule_missing_artifact_dirs
Missing == (exists \cap DirKind) \ scheduled

\* _schedule_late, for a directory of kind "dir"; another one is any directory.
TakeAppeared ==
  /\ Taking
  /\ \E d \in Dirs :
       /\ Head(raw) = Appeared(d)
       /\ Schedule(IF d \in DirKind THEN {d} \ scheduled ELSE Missing)
  /\ raw' = Tail(raw)
  /\ UNCHANGED <<disk, posting, ready, loopVars, stopped, stopAt, files>>

TakeDirEvent ==
  /\ Taking
  /\ Head(raw) = DirEvent
  /\ Schedule(Missing)
  /\ raw' = Tail(raw)
  /\ UNCHANGED <<disk, posting, ready, loopVars, stopped, stopAt, files>>

-----------------------------------------------------------------------------
(* The loop thread.  Another thread may latch _stopped between a callback's *)
(* check of it and what follows.                                            *)

LoopFree == doing = Nothing
NextCallback(callback) == LoopFree /\ ready # <<>> /\ Head(ready) = callback

\* _coalesce
Coalesce ==
  /\ LoopFree
  /\ ready # <<>>
  /\ Head(ready) \in Changes
  /\ doing' = IF stopped THEN Nothing ELSE Head(ready)
  /\ ready' = Tail(ready)
  /\ UNCHANGED <<disk, observer, armed, pending, reported, late, stopped, stopAt, files>>

\* Mutant of Arm: a change that finds one waiting does not replace it.
ArmKeepsFirst ==
  \E p \in Paths, n \in 1..MaxChanges :
    /\ doing = Changed(p, n)
    /\ armed' = armed \cup {p}
    /\ pending' = [pending EXCEPT ![p] = IF @ = 0 THEN n ELSE @]
    /\ doing' = Nothing
    /\ UNCHANGED <<disk, observer, ready, reported, late, stopped, stopAt, files>>

\* Cancels the timer that is armed, if any, and arms a new one.
Arm ==
  \E p \in Paths, n \in 1..MaxChanges :
    /\ doing = Changed(p, n)
    /\ armed' = armed \cup {p}
    /\ pending' = [pending EXCEPT ![p] = n]
    /\ doing' = Nothing
    /\ UNCHANGED <<disk, observer, ready, reported, late, stopped, stopAt, files>>

\* Mutant of Flush: _flush does not look at _stopped.
FlushUnlatched(p) ==
  /\ LoopFree
  /\ p \in armed
  /\ armed' = armed \ {p}
  /\ doing' = Flushing(p)
  /\ UNCHANGED <<disk, observer, ready, pending, reported, late, stopped, stopAt, files>>

\* A timer is due: _flush.
Flush(p) ==
  /\ LoopFree
  /\ p \in armed
  /\ armed' = armed \ {p}
  /\ doing' = IF stopped THEN Nothing ELSE Flushing(p)
  /\ UNCHANGED <<disk, observer, ready, pending, reported, late, stopped, stopAt, files>>

\* _hub.fan_out
FanOut ==
  \E p \in Paths :
    /\ doing = Flushing(p)
    /\ pending' = [pending EXCEPT ![p] = 0]
    /\ reported' = IF pending[p] = 0 THEN reported ELSE [reported EXCEPT ![p] = pending[p]]
    /\ late' = IF pending[p] # 0 /\ stopAt \in {"returned", "resumed"} THEN late + 1 ELSE late
    /\ doing' = Nothing
    /\ UNCHANGED <<disk, observer, ready, armed, stopped, stopAt, files>>

-----------------------------------------------------------------------------
(* stop().                                                                 *)

Latch ==
  /\ phase \in {"running", "dead"}
  /\ stopAt = "no"
  /\ stopped' = TRUE
  /\ stopAt' = "latched"

\* On a worker thread, for a project switch ...
LatchOffLoop ==
  /\ Latch
  /\ UNCHANGED <<disk, observer, ready, loopVars, files>>

\* ... or on the loop, for a shutdown: nothing else runs there until it is done.
LatchOnLoop ==
  /\ Latch
  /\ LoopFree
  /\ doing' = StopCalled
  /\ UNCHANGED <<disk, observer, ready, armed, pending, reported, late, files>>

\* observer.join returns between two events, and what is queued is dropped.
Join ==
  /\ stopAt = "latched"
  /\ posting = Nothing
  /\ stopAt' = "joined"
  /\ phase' = "joined"
  /\ raw' = <<>>
  /\ watched' = {}
  /\ UNCHANGED <<disk, scheduled, calls, posting, ready, loopVars, stopped, files>>

\* _discard_debounce_state
Discarded ==
  /\ armed' = {}
  /\ pending' = [p \in Paths |-> 0]

\* Mutant of ReturnOffLoop: the clean-up is done on the worker thread.
ReturnInline ==
  /\ stopAt = "joined"
  /\ doing # StopCalled
  /\ Discarded
  /\ stopAt' = "returned"
  /\ ready' = Append(ready, Resume)
  /\ UNCHANGED <<disk, observer, doing, reported, late, stopped, files>>

\* Off the loop the clean-up is posted; the loop learns of the return after it.
ReturnOffLoop ==
  /\ stopAt = "joined"
  /\ doing # StopCalled
  /\ stopAt' = "returned"
  /\ ready' = ready \o <<Discard, Resume>>
  /\ UNCHANGED <<disk, observer, loopVars, stopped, files>>

ReturnOnLoop ==
  /\ stopAt = "joined"
  /\ doing = StopCalled
  /\ Discarded
  /\ stopAt' = "resumed"
  /\ doing' = Nothing
  /\ UNCHANGED <<disk, observer, ready, reported, late, stopped, files>>

RunDiscard ==
  /\ NextCallback(Discard)
  /\ Discarded
  /\ ready' = Tail(ready)
  /\ UNCHANGED <<disk, observer, doing, reported, late, stopped, stopAt, files>>

\* The task that awaited the worker thread goes on.
RunResume ==
  /\ NextCallback(Resume)
  /\ stopAt' = "resumed"
  /\ ready' = Tail(ready)
  /\ UNCHANGED <<disk, observer, loopVars, stopped, files>>

-----------------------------------------------------------------------------
Disk == \E d \in Dirs : MakeDir(d) \/ RemoveDir(d)
ObserverStep == TakeChange \/ Post \/ TakeAppeared \/ TakeDirEvent
LoopStep == Coalesce \/ Arm \/ FanOut \/ RunDiscard \/ RunResume
StopStep == Join \/ ReturnOffLoop \/ ReturnOnLoop

Next ==
  \/ Survey
  \/ Launch
  \/ Disk
  \/ ObserverStep
  \/ LoopStep
  \/ LatchOffLoop
  \/ LatchOnLoop
  \/ StopStep
  \/ \E p \in Paths : Change(p) \/ Flush(p)

Spec == Init /\ [][Next]_vars

\* Threads run and timers come due; nobody has to change a file or call stop().
Fairness ==
  /\ WF_vars(Survey \/ Launch)
  /\ WF_vars(ObserverStep)
  /\ WF_vars(LoopStep)
  /\ WF_vars(StopStep)
  /\ \A p \in Paths : WF_vars(Flush(p))

FairSpec == Spec /\ Fairness

-----------------------------------------------------------------------------
Callbacks == Changes \cup {Discard, Resume}

TypeOK ==
  /\ exists \subseteq Dirs /\ disturbed \subseteq Dirs /\ moves \in 0..MaxMoves
  /\ phase \in Phases
  /\ scheduled \subseteq DirKind /\ watched \subseteq Dirs
  /\ calls \in [Dirs -> Nat]
  /\ raw \in Seq(RawEvents)
  /\ posting \in Changes \cup {Nothing}
  /\ ready \in Seq(Callbacks)
  /\ doing \in Changes \cup {Flushing(p) : p \in Paths} \cup {Nothing, StopCalled}
  /\ armed \subseteq Paths
  /\ pending \in [Paths -> Numbers]
  /\ stopped \in BOOLEAN
  /\ stopAt \in StopPlaces
  /\ changes \in Numbers
  /\ newest \in [Paths -> Numbers] /\ reported \in [Paths -> Numbers]
  /\ late \in Nat

\* Once the loop sees that stop() has returned, the watcher is spent: no timer is
\* armed, no change is kept and none is being handled, whichever thread stopped it
\* and whatever was under way (stop, _discard_debounce_state).
ResumedIsQuiet ==
  stopAt = "resumed" =>
    /\ armed = {}
    /\ \A p \in Paths : pending[p] = 0
    /\ doing = Nothing

\* After stop() returned on its worker thread at most one event comes out: that of the
\* flush which had already passed its check of _stopped (_flush).
LateAtMostOne == late <= 1

\* A pending change has a timer that will flush it, and a timer a change to flush,
\* except while stop() has made both moot (_coalesce, _flush).
PendingIsArmed ==
  ~stopped => \A p \in Paths : doing # Flushing(p) => (pending[p] # 0 <=> p \in armed)

DirEventsHandled == \A i \in 1..Len(raw) : raw[i] \in Changes

\* The directory events so far were handled, by an observer that still runs.
Attentive == phase = "running" /\ DirEventsHandled

\* While .factory has been watched since start(), an artefact directory is watched as
\* soon as the observer has handled the directory events so far, whenever it appeared
\* and however the platform told of it; and none is scheduled twice, whichever of
\* start(), its own event and another's event sees it first (_schedule_late,
\* _schedule_missing_artifact_dirs, _scheduled_artifact_dirs).  Left out are
\* directories that changed while start() was looking, or were removed: the set
\* remembers those.
ArtefactDirsWatched ==
  /\ Attentive /\ Factory \in watched => (exists \cap DirKind) \ disturbed \subseteq watched
  /\ \A d \in Dirs \ disturbed : calls[d] <= 1

\* The same of every directory with an artefact in it, the ledger's included
\* (watched_artifacts.py, on the ledger's parent).
EveryDirWatched ==
  Attentive /\ Factory \in watched => exists \ disturbed \subseteq watched

\* An artefact directory is watched even if nothing of the factory was there when the
\* watcher started, as on a fresh clone (the comment on late scheduling in on_any_event).
\* False: a .factory that was not there is never watched; ArtefactDirsWatched is what holds.
WatchedWhateverWasThere ==
  Attentive => (exists \cap DirKind) \ disturbed \subseteq watched

\* A change under a watch is reported, or a newer one of its path instead, once the
\* path falls silent, unless the watcher ends first (_coalesce, _flush, fan_out).
ChangesReported ==
  \A p \in Paths :
    newest[p] # reported[p] ~> newest[p] = reported[p] \/ phase # "running"

=============================================================================
