------------------------- MODULE FileWatcherProofs -------------------------
(***************************************************************************)
(* Proofs about FileWatcher, for any directories and any number of changes *)
(* and moves: its type invariant, that a stopped watcher is spent, and     *)
(* that late directories are watched and scheduled once.                   *)
(***************************************************************************)
EXTENDS FileWatcher, SequenceTheorems, TLAPS

Spent == armed = {} /\ (\A p \in Paths : pending[p] = 0) /\ doing = Nothing

\* How far stop() is shows in the latch, in the observer thread and in the loop.
StopInv ==
  /\ stopped <=> stopAt # "no"
  /\ stopAt \in {"no", "latched"} <=> phase # "joined"
  /\ phase = "joined" => posting = Nothing
  /\ doing = StopCalled => stopAt \in {"latched", "joined"}

\* The clean-up and the resumption are posted once, behind every change, and in this
\* order; nothing is armed again between the two.
QueueInv ==
  /\ stopAt # "returned" => ready \in Seq(Changes)
  /\ stopAt = "returned" =>
       \/ \E s \in Seq(Changes) : ready = s \o <<Discard, Resume>>
       \/ ready = <<Resume>> /\ Spent

\* A flush that is under way has used up its timer, and is the only one that may still
\* come out after stop() returned.
LateInv ==
  /\ late > 0 => stopAt \in {"returned", "resumed"}
  /\ \A p \in Paths : doing = Flushing(p) => p \notin armed /\ late = 0
  /\ LateAtMostOne

\* A directory event that will make the observer thread look at d is queued.
Announced(d) == \E i \in 1..Len(raw) : raw[i] \in {Appeared(d), DirEvent}

\* What start() recorded is what it will schedule, directories that moved meanwhile
\* apart; from then on a recorded directory is watched, and, while .factory is watched,
\* one that is there and not yet watched is announced.
WatchInv ==
  /\ phase = "new" => scheduled = {}
  /\ phase = "surveyed" => (exists \cap DirKind) \ disturbed = scheduled \ disturbed
  /\ phase = "running" =>
       /\ scheduled \ disturbed \subseteq watched
       /\ Factory \in watched =>
            \A d \in (exists \cap DirKind) \ disturbed : d \in watched \/ Announced(d)

\* What was scheduled on the observer is recorded, so it is not scheduled again.
OnceInv ==
  \A d \in Dirs \ disturbed :
    /\ phase \in {"new", "surveyed"} => calls[d] = 0
    /\ calls[d] <= 1
    /\ calls[d] # 0 /\ d \in DirKind => d \in scheduled

IInv ==
  /\ TypeOK
  /\ StopInv /\ QueueInv /\ LateInv
  /\ ResumedIsQuiet /\ PendingIsArmed
  /\ WatchInv /\ OnceInv

-----------------------------------------------------------------------------
\* The callbacks and what the threads hold are told apart.
LEMMA Tags ==
  /\ {Nothing, StopCalled, Discard, Resume} \cap Changes = {}
  /\ Nothing # StopCalled /\ Discard # Resume
  /\ \A p \in Paths : Flushing(p) \notin Changes \cup {Nothing, StopCalled}
  /\ \A p, q \in Paths : Flushing(p) = Flushing(q) => p = q
  /\ \A p \in Paths, n \in 1..MaxChanges : Changed(p, n) \in Changes
<1>1. \A c \in Changes : c[1] = "changed"
  BY DEF Changes, Changed
<1>2. /\ Nothing[1] = "nothing" /\ StopCalled[1] = "stop"
      /\ Discard[1] = "discard" /\ Resume[1] = "resume"
  BY DEF Nothing, StopCalled, Discard, Resume
<1>3. \A p \in Paths : Flushing(p)[1] = "flush" /\ Flushing(p)[2] = p
  BY DEF Flushing
<1>4. \A p \in Paths, n \in 1..MaxChanges : Changed(p, n) \in Changes
  BY DEF Changes
<1> QED
  BY <1>1, <1>2, <1>3, <1>4

\* The resumption, alone in the queue.
LEMMA LastCallback == Head(<<Resume>>) = Resume /\ Tail(<<Resume>>) = <<>>
  OBVIOUS

\* What is at the head of the queue once the clean-up has been posted.
LEMMA PostedQueue ==
  ASSUME NEW s \in Seq(Changes)
  PROVE  LET q == s \o <<Discard, Resume>> IN
           /\ s = <<>> => Head(q) = Discard /\ Tail(q) = <<Resume>>
           /\ s # <<>> => /\ Head(q) \in Changes
                          /\ Tail(s) \in Seq(Changes)
                          /\ Tail(q) = Tail(s) \o <<Discard, Resume>>
<1> DEFINE end == <<Discard, Resume>>
           q == s \o end
<1>1. end \in Seq({Discard, Resume}) /\ Len(end) = 2 /\ end[1] = Discard /\ end[2] = Resume
  OBVIOUS
<1>2. CASE s = <<>>
  <2>1. q = end
    BY <1>1, <1>2
  <2> QED
    BY <1>2, <2>1
<1>3. CASE s # <<>>
  <2>1. Len(s) >= 1 /\ s[1] \in Changes /\ Tail(s) \in Seq(Changes)
    BY <1>3
  <2>2. q \in Seq(Changes \cup {Discard, Resume}) /\ Len(q) = Len(s) + 2 /\ q # <<>>
    BY <1>1
  <2>3. Head(q) = s[1]
    BY <1>1, <2>1, <2>2
  <2>4. Tail(q) = Tail(s) \o end
    <3>1. Tail(q) \in Seq(Changes \cup {Discard, Resume}) /\ Len(Tail(q)) = Len(s) + 1
      BY <2>2
    <3>2. Tail(s) \o end \in Seq(Changes \cup {Discard, Resume}) /\ Len(Tail(s) \o end) = Len(s) + 1
      BY <1>1, <2>1
    <3>3. \A i \in 1..Len(s) + 1 : Tail(q)[i] = (Tail(s) \o end)[i]
      BY <1>1, <2>1, <2>2
    <3> QED
      BY <3>1, <3>2, <3>3, SeqEqual
  <2> QED
    BY <1>3, <2>1, <2>3, <2>4
<1> QED
  BY <1>2, <1>3

-----------------------------------------------------------------------------
\* The type invariant.
LEMMA TypeStep == TypeOK /\ [Next]_vars => TypeOK'
<1> SUFFICES ASSUME TypeOK, [Next]_vars PROVE TypeOK'
  OBVIOUS
<1> USE DirAssumption, ChangeAssumption, Tags
    DEF TypeOK, disk, observer, loopVars, files, Numbers, Callbacks, Phases, StopPlaces
<1>1. CASE Survey
  BY <1>1 DEF Survey
<1>2. CASE Launch
  BY <1>2 DEF Launch
<1>3. ASSUME NEW d \in Dirs, MakeDir(d) PROVE TypeOK'
  BY <1>3 DEF MakeDir, Heard, RawEvents
<1>4. ASSUME NEW d \in Dirs, RemoveDir(d) PROVE TypeOK'
  BY <1>4 DEF RemoveDir, Heard, RawEvents
<1>5. ASSUME NEW p \in Paths, Change(p) PROVE TypeOK'
  <2>1. changes' \in 1..MaxChanges /\ Changed(p, changes') \in RawEvents
    BY <1>5 DEF Change, RawEvents
  <2> QED
    BY <1>5, <2>1 DEF Change
<1>6. CASE TakeChange
  BY <1>6 DEF TakeChange, Taking
<1>7. CASE Post
  BY <1>7 DEF Post
<1>8. ASSUME NEW ds \in SUBSET DirKind, Schedule(ds), Taking, raw' = Tail(raw),
             UNCHANGED <<disk, posting, ready, loopVars, stopped, stopAt, files>>
      PROVE  TypeOK'
  <2>1. raw' \in Seq(RawEvents)
    BY <1>8 DEF Taking
  <2>2. phase' \in Phases /\ scheduled' \subseteq DirKind /\ watched' \subseteq Dirs
    BY <1>8 DEF Schedule, Dirs
  <2>3. calls' \in [Dirs -> Nat]
    BY <1>8 DEF Schedule
  <2> QED
    BY <1>8, <2>1, <2>2, <2>3
<1>9. CASE TakeAppeared
  <2>1. PICK d \in Dirs : Schedule(IF d \in DirKind THEN {d} \ scheduled ELSE Missing)
    BY <1>9 DEF TakeAppeared
  <2>2. (IF d \in DirKind THEN {d} \ scheduled ELSE Missing) \in SUBSET DirKind
    BY DEF Missing
  <2> QED
    BY <1>8, <1>9, <2>1, <2>2 DEF TakeAppeared
<1>10. CASE TakeDirEvent
  BY <1>8, <1>10 DEF TakeDirEvent, Missing
<1>11. CASE Coalesce
  BY <1>11 DEF Coalesce
<1>12. CASE Arm
  BY <1>12 DEF Arm
<1>13. ASSUME NEW p \in Paths, Flush(p) PROVE TypeOK'
  BY <1>13 DEF Flush
<1>14. CASE FanOut
  BY <1>14 DEF FanOut
<1>15. CASE LatchOffLoop \/ LatchOnLoop
  BY <1>15 DEF LatchOffLoop, LatchOnLoop, Latch
<1>16. CASE Join
  BY <1>16 DEF Join
<1>17. CASE ReturnOffLoop
  BY <1>17 DEF ReturnOffLoop
<1>18. CASE ReturnOnLoop
  BY <1>18 DEF ReturnOnLoop, Discarded
<1>19. CASE RunDiscard
  BY <1>19 DEF RunDiscard, Discarded, NextCallback
<1>20. CASE RunResume
  BY <1>20 DEF RunResume, NextCallback
<1>21. CASE UNCHANGED vars
  BY <1>21 DEF vars
<1> QED
  BY <1>1, <1>2, <1>3, <1>4, <1>5, <1>6, <1>7, <1>9, <1>10, <1>11, <1>12, <1>13, <1>14,
     <1>15, <1>16, <1>17, <1>18, <1>19, <1>20, <1>21
     DEF Next, Disk, ObserverStep, LoopStep, StopStep

\* The clean-up and the resumption are only queued between the return of stop() off the
\* loop and their own run.
LEMMA PostedOnce ==
  ASSUME TypeOK, QueueInv, ready # <<>>, Head(ready) \in {Discard, Resume}
  PROVE  stopAt = "returned"
<1>1. Head(ready) = ready[1] /\ 1 \in 1..Len(ready)
  BY DEF TypeOK
<1> QED
  BY <1>1, Tags DEF QueueInv

\* Nothing outside stop() moves the latch, and Survey and Launch precede it.
LEMMA StopInvStep == TypeOK /\ StopInv /\ QueueInv /\ [Next]_vars => StopInv'
<1> SUFFICES ASSUME TypeOK, StopInv, QueueInv, [Next]_vars PROVE StopInv'
  OBVIOUS
<1> USE Tags DEF TypeOK, StopInv, observer, loopVars, Phases, StopPlaces
<1>1. CASE Survey \/ Launch
  BY <1>1 DEF Survey, Launch
<1>2. CASE Disk
  BY <1>2 DEF Disk, MakeDir, RemoveDir
<1>3. ASSUME NEW p \in Paths, Change(p) \/ Flush(p) PROVE StopInv'
  BY <1>3 DEF Change, Flush
<1>4. CASE TakeChange
  BY <1>4 DEF TakeChange, Taking
<1>5. CASE Post
  BY <1>5 DEF Post
<1>6. CASE TakeAppeared \/ TakeDirEvent
  BY <1>6 DEF TakeAppeared, TakeDirEvent, Taking, Schedule
<1>7. CASE Coalesce \/ Arm \/ FanOut
  BY <1>7 DEF Coalesce, Arm, FanOut
<1>8. CASE RunDiscard \/ RunResume
  <2>1. stopAt = "returned"
    BY <1>8, PostedOnce DEF RunDiscard, RunResume, NextCallback
  <2> QED
    BY <1>8, <2>1 DEF RunDiscard, RunResume
<1>9. CASE LatchOffLoop \/ LatchOnLoop
  BY <1>9 DEF LatchOffLoop, LatchOnLoop, Latch
<1>10. CASE Join
  BY <1>10 DEF Join
<1>11. CASE ReturnOffLoop \/ ReturnOnLoop
  BY <1>11 DEF ReturnOffLoop, ReturnOnLoop
<1>12. CASE UNCHANGED vars
  BY <1>12 DEF vars
<1> QED
  BY <1>1, <1>2, <1>3, <1>4, <1>5, <1>6, <1>7, <1>8, <1>9, <1>10, <1>11, <1>12
     DEF Next, ObserverStep, LoopStep, StopStep

\* The queue keeps its shape: the observer posts before it is joined, so before the
\* clean-up, and the loop takes from the front.
LEMMA QueueStep ==
  TypeOK /\ StopInv /\ QueueInv /\ ResumedIsQuiet /\ [Next]_vars => QueueInv'
<1> SUFFICES ASSUME TypeOK, StopInv, QueueInv, ResumedIsQuiet, [Next]_vars
             PROVE  QueueInv'
  OBVIOUS
<1> USE Tags DEF TypeOK, StopInv, observer, loopVars, Phases, StopPlaces, Callbacks
<1>1. ASSUME UNCHANGED <<ready, stopAt>>, Spent => UNCHANGED <<armed, pending, doing>>
      PROVE  QueueInv'
  BY <1>1 DEF QueueInv, Spent
<1>2. CASE Survey \/ Launch \/ Disk \/ TakeChange \/ TakeAppeared \/ TakeDirEvent
  BY <1>1, <1>2 DEF Survey, Launch, Disk, MakeDir, RemoveDir, TakeChange, TakeAppeared,
                    TakeDirEvent
<1>3. ASSUME NEW p \in Paths, Change(p) PROVE QueueInv'
  BY <1>1, <1>3 DEF Change
<1>4. ASSUME NEW p \in Paths, Flush(p) PROVE QueueInv'
  BY <1>1, <1>4 DEF Flush, Spent
<1>5. CASE Arm \/ FanOut
  BY <1>1, <1>5 DEF Arm, FanOut, Spent
<1>6. CASE Post
  <2>1. stopAt \notin {"joined", "returned", "resumed"} /\ posting \in Changes
    BY <1>6 DEF Post
  <2>2. ready' \in Seq(Changes)
    BY <1>6, <2>1 DEF Post, QueueInv
  <2> QED
    BY <1>6, <2>1, <2>2 DEF Post, QueueInv
<1>7. CASE Coalesce
  <2>1. ready # <<>> /\ Head(ready) \in Changes /\ ready' = Tail(ready) /\ stopAt' = stopAt
    BY <1>7 DEF Coalesce
  <2>2. CASE stopAt # "returned"
    BY <2>1, <2>2 DEF QueueInv
  <2>3. CASE stopAt = "returned"
    <3>1. PICK s \in Seq(Changes) : ready = s \o <<Discard, Resume>>
      BY <2>1, <2>3, LastCallback DEF QueueInv
    <3>2. s # <<>>
      BY <2>1, <3>1, PostedQueue
    <3> QED
      BY <2>1, <2>3, <3>1, <3>2, PostedQueue DEF QueueInv
  <2> QED
    BY <2>2, <2>3
<1>8. CASE RunDiscard
  <2>1. stopAt = "returned" /\ stopAt' = stopAt /\ Head(ready) = Discard /\ ready' = Tail(ready)
    BY <1>8, PostedOnce DEF RunDiscard, NextCallback
  <2>2. PICK s \in Seq(Changes) : ready = s \o <<Discard, Resume>>
    BY <2>1, LastCallback DEF QueueInv
  <2>3. s = <<>>
    BY <2>1, <2>2, PostedQueue
  <2>4. ready' = <<Resume>>
    BY <2>1, <2>2, <2>3, PostedQueue
  <2>5. Spent'
    BY <1>8 DEF RunDiscard, NextCallback, LoopFree, Discarded, Spent
  <2> QED
    BY <2>1, <2>4, <2>5 DEF QueueInv
<1>9. CASE RunResume
  <2>1. stopAt = "returned" /\ stopAt' = "resumed" /\ Head(ready) = Resume /\ ready' = Tail(ready)
    BY <1>9, PostedOnce DEF RunResume, NextCallback
  <2>2. ready = <<Resume>>
    BY <2>1, PostedQueue DEF QueueInv
  <2> QED
    BY <2>1, <2>2, LastCallback DEF QueueInv
<1>10. CASE LatchOffLoop \/ LatchOnLoop \/ Join \/ ReturnOnLoop
  BY <1>10 DEF LatchOffLoop, LatchOnLoop, Latch, Join, ReturnOnLoop, QueueInv
<1>11. CASE ReturnOffLoop
  BY <1>11 DEF ReturnOffLoop, QueueInv
<1>12. CASE UNCHANGED vars
  BY <1>1, <1>12 DEF vars
<1> QED
  BY <1>2, <1>3, <1>4, <1>5, <1>6, <1>7, <1>8, <1>9, <1>10, <1>11, <1>12
     DEF Next, ObserverStep, LoopStep, StopStep

\* A flush begins only while the latch is down, so none begins after stop() returned.
LEMMA LateStep == TypeOK /\ StopInv /\ QueueInv /\ LateInv /\ [Next]_vars => LateInv'
<1> SUFFICES ASSUME TypeOK, StopInv, QueueInv, LateInv, [Next]_vars PROVE LateInv'
  OBVIOUS
<1> USE Tags DEF TypeOK, StopInv, LateInv, LateAtMostOne, observer, loopVars, StopPlaces
<1>1. CASE Survey \/ Launch \/ Disk
  BY <1>1 DEF Survey, Launch, Disk, MakeDir, RemoveDir
<1>2. ASSUME NEW p \in Paths, Change(p) PROVE LateInv'
  BY <1>2 DEF Change
<1>3. ASSUME NEW p \in Paths, Flush(p) PROVE LateInv'
  <2>1. doing' = Nothing \/ (stopAt = "no" /\ doing' = Flushing(p))
    BY <1>3 DEF Flush
  <2> QED
    BY <1>3, <2>1 DEF Flush
<1>4. CASE ObserverStep
  BY <1>4 DEF ObserverStep, TakeChange, Post, TakeAppeared, TakeDirEvent
<1>5. CASE Coalesce
  BY <1>5 DEF Coalesce
<1>6. CASE Arm
  BY <1>6 DEF Arm
<1>7. CASE FanOut
  BY <1>7 DEF FanOut
<1>8. CASE LatchOffLoop \/ LatchOnLoop \/ Join
  BY <1>8 DEF LatchOffLoop, LatchOnLoop, Latch, Join
<1>9. CASE ReturnOffLoop \/ ReturnOnLoop
  BY <1>9 DEF ReturnOffLoop, ReturnOnLoop, Discarded
<1>10. CASE RunDiscard \/ RunResume
  BY <1>10 DEF RunDiscard, RunResume, NextCallback, LoopFree, Discarded
<1>11. CASE UNCHANGED vars
  BY <1>11 DEF vars
<1> QED
  BY <1>1, <1>2, <1>3, <1>4, <1>5, <1>6, <1>7, <1>8, <1>9, <1>10, <1>11
     DEF Next, LoopStep, StopStep

\* Nothing is taken up again once the loop has seen stop() return.
LEMMA QuietStep ==
  TypeOK /\ StopInv /\ QueueInv /\ ResumedIsQuiet /\ [Next]_vars => ResumedIsQuiet'
<1> SUFFICES ASSUME TypeOK, StopInv, QueueInv, ResumedIsQuiet, [Next]_vars
             PROVE  ResumedIsQuiet'
  OBVIOUS
<1> USE Tags DEF TypeOK, StopInv, ResumedIsQuiet, observer, loopVars, StopPlaces
<1>1. CASE Survey \/ Launch \/ Disk
  BY <1>1 DEF Survey, Launch, Disk, MakeDir, RemoveDir
<1>2. ASSUME NEW p \in Paths, Change(p) \/ Flush(p) PROVE ResumedIsQuiet'
  BY <1>2 DEF Change, Flush
<1>3. CASE ObserverStep
  BY <1>3 DEF ObserverStep, TakeChange, Post, TakeAppeared, TakeDirEvent
<1>4. CASE Coalesce
  BY <1>4 DEF Coalesce
<1>5. CASE Arm \/ FanOut
  BY <1>5 DEF Arm, FanOut
<1>6. CASE LatchOffLoop \/ LatchOnLoop \/ Join
  BY <1>6 DEF LatchOffLoop, LatchOnLoop, Latch, Join
<1>7. CASE ReturnOffLoop \/ ReturnOnLoop
  BY <1>7 DEF ReturnOffLoop, ReturnOnLoop, Discarded
<1>8. CASE RunDiscard
  BY <1>8, PostedOnce DEF RunDiscard, NextCallback
<1>9. CASE RunResume
  <2>1. stopAt = "returned" /\ Head(ready) = Resume
    BY <1>9, PostedOnce DEF RunResume, NextCallback
  <2>2. Spent
    BY <2>1, PostedQueue DEF QueueInv
  <2> QED
    BY <1>9, <2>2 DEF RunResume, Spent
<1>10. CASE UNCHANGED vars
  BY <1>10 DEF vars
<1> QED
  BY <1>1, <1>2, <1>3, <1>4, <1>5, <1>6, <1>7, <1>8, <1>9, <1>10
     DEF Next, LoopStep, StopStep

\* Changes and timers come and go together.
LEMMA PendingStep ==
  TypeOK /\ StopInv /\ QueueInv /\ LateInv /\ PendingIsArmed /\ [Next]_vars => PendingIsArmed'
<1> SUFFICES ASSUME TypeOK, StopInv, QueueInv, LateInv, PendingIsArmed, [Next]_vars, ~stopped'
             PROVE  \A p \in Paths : doing' # Flushing(p) => (pending'[p] # 0 <=> p \in armed')
  BY DEF PendingIsArmed
<1> USE Tags DEF TypeOK, StopInv, LateInv, PendingIsArmed, observer, loopVars, StopPlaces
<1>1. CASE Survey \/ Launch \/ Disk
  BY <1>1 DEF Survey, Launch, Disk, MakeDir, RemoveDir
<1>2. ASSUME NEW q \in Paths, Change(q)
      PROVE  \A p \in Paths : doing' # Flushing(p) => (pending'[p] # 0 <=> p \in armed')
  BY <1>2 DEF Change
<1>3. ASSUME NEW q \in Paths, Flush(q)
      PROVE  \A p \in Paths : doing' # Flushing(p) => (pending'[p] # 0 <=> p \in armed')
  <2>1. ~stopped /\ doing = Nothing /\ doing' = Flushing(q)
    BY <1>3 DEF Flush, LoopFree
  <2> QED
    BY <1>3, <2>1 DEF Flush
<1>4. CASE ObserverStep
  BY <1>4 DEF ObserverStep, TakeChange, Post, TakeAppeared, TakeDirEvent
<1>5. CASE Coalesce
  <2>1. ~stopped /\ doing = Nothing /\ doing' \in Changes
    BY <1>5 DEF Coalesce, LoopFree
  <2> QED
    BY <1>5, <2>1 DEF Coalesce
<1>6. CASE Arm
  <2>1. PICK q \in Paths, n \in 1..MaxChanges :
          /\ doing = Changed(q, n)
          /\ armed' = armed \cup {q}
          /\ pending' = [pending EXCEPT ![q] = n]
          /\ stopped' = stopped
    BY <1>6 DEF Arm
  <2>2. \A p \in Paths : doing # Flushing(p)
    BY <2>1
  <2>3. \A p \in Paths : pending'[p] = IF p = q THEN n ELSE pending[p]
    BY <2>1
  <2> QED
    BY <2>1, <2>2, <2>3
<1>7. CASE FanOut
  <2>1. PICK q \in Paths :
          /\ doing = Flushing(q)
          /\ armed' = armed
          /\ pending' = [pending EXCEPT ![q] = 0]
          /\ stopped' = stopped
    BY <1>7 DEF FanOut
  <2>2. q \notin armed /\ \A p \in Paths \ {q} : doing # Flushing(p)
    BY <2>1
  <2>3. \A p \in Paths : pending'[p] = IF p = q THEN 0 ELSE pending[p]
    BY <2>1
  <2> QED
    BY <2>1, <2>2, <2>3
<1>8. CASE LatchOffLoop \/ LatchOnLoop \/ StopStep
  BY <1>8 DEF LatchOffLoop, LatchOnLoop, Latch, StopStep, Join, ReturnOffLoop, ReturnOnLoop
<1>9. CASE RunDiscard \/ RunResume
  BY <1>9, PostedOnce DEF RunDiscard, RunResume, NextCallback
<1>10. CASE UNCHANGED vars
  BY <1>10 DEF vars
<1> QED
  BY <1>1, <1>2, <1>3, <1>4, <1>5, <1>6, <1>7, <1>8, <1>9, <1>10 DEF Next, LoopStep

-----------------------------------------------------------------------------
\* The events of the watch on .factory are told apart.
LEMMA EventTags ==
  /\ \A d \in Dirs : Appeared(d) \notin Changes /\ Appeared(d) # DirEvent
  /\ \A d, e \in Dirs : Appeared(d) = Appeared(e) => d = e
  /\ DirEvent \notin Changes
<1>1. \A c \in Changes : c[1] = "changed"
  BY DEF Changes, Changed
<1>2. \A d \in Dirs : Appeared(d)[1] = "appeared" /\ Appeared(d)[2] = d
  BY DEF Appeared
<1>3. DirEvent[1] = "directory"
  BY DEF DirEvent
<1> QED
  BY <1>1, <1>2, <1>3

\* What is announced stays so while events are added ...
LEMMA AppendAnnounces ==
  ASSUME TypeOK, NEW e \in RawEvents, raw' = Append(raw, e), NEW d \in Dirs
  PROVE  /\ Announced(d) => Announced(d)'
         /\ e \in {Appeared(d), DirEvent} => Announced(d)'
<1>1. /\ Len(raw') = Len(raw) + 1 /\ raw'[Len(raw) + 1] = e
      /\ \A i \in 1..Len(raw) : raw'[i] = raw[i]
      /\ Len(raw) \in Nat
  BY DEF TypeOK
<1> QED
  BY <1>1 DEF Announced

\* ... and until the observer thread takes the event that announces it.
LEMMA TailAnnounces ==
  ASSUME TypeOK, raw # <<>>, raw' = Tail(raw), NEW d \in Dirs, Announced(d),
         Head(raw) \notin {Appeared(d), DirEvent}
  PROVE  Announced(d)'
<1>1. /\ Len(raw) \in Nat /\ Len(raw') = Len(raw) - 1 /\ raw[1] = Head(raw)
      /\ \A i \in 1..Len(raw') : raw'[i] = raw[i + 1]
  BY DEF TypeOK
<1>2. PICK i \in 1..Len(raw) : raw[i] \in {Appeared(d), DirEvent}
  BY DEF Announced
<1>3. i # 1 /\ i - 1 \in 1..Len(raw') /\ raw'[i - 1] = raw[i]
  BY <1>1, <1>2
<1> QED
  BY <1>2, <1>3 DEF Announced

\* Handling one directory event: what it announces is watched afterwards, unless the
\* directory is gone, which ends the observer thread.
LEMMA ScheduleKeeps ==
  ASSUME TypeOK, WatchInv, OnceInv, Taking, NEW ds \in SUBSET DirKind,
         ds \cap scheduled = {}, Schedule(ds), raw' = Tail(raw), UNCHANGED disk,
         \A d \in (exists \cap DirKind) \ disturbed :
           Head(raw) \in {Appeared(d), DirEvent} => d \in ds \cup scheduled
  PROVE  WatchInv' /\ OnceInv'
<1> USE DEF TypeOK, disk
<1>1. phase = "running" /\ phase' \in {"running", "dead"} /\ (phase' = "running" => ds \subseteq exists)
  BY DEF Taking, Schedule
<1>2. /\ scheduled' = scheduled \cup ds /\ watched' = watched \cup (ds \cap exists)
      /\ exists' = exists /\ disturbed' = disturbed
  BY DEF Schedule
<1>3. \A d \in Dirs : calls'[d] = IF d \in ds THEN calls[d] + 1 ELSE calls[d]
  BY DEF Schedule
<1>4. ASSUME phase' = "running" PROVE scheduled' \ disturbed' \subseteq watched'
  BY <1>1, <1>2, <1>4 DEF WatchInv
<1>5. ASSUME phase' = "running", Factory \in watched',
             NEW d \in (exists \cap DirKind) \ disturbed, d \notin watched'
      PROVE  Announced(d)'
  <2>1. d \notin ds /\ d \notin scheduled /\ Factory \in watched
    BY <1>1, <1>2, <1>5, DirAssumption DEF WatchInv
  <2>2. Announced(d) /\ Head(raw) \notin {Appeared(d), DirEvent}
    BY <1>1, <1>2, <1>5, <2>1 DEF WatchInv
  <2> QED
    BY <2>2, TailAnnounces DEF Taking, Dirs
<1>6. WatchInv'
  BY <1>1, <1>2, <1>4, <1>5 DEF WatchInv
<1>7. OnceInv'
  BY <1>1, <1>2, <1>3 DEF OnceInv, Dirs
<1> QED
  BY <1>6, <1>7

\* Every directory is recorded before, or as, it is scheduled, and announced when it
\* appears.
LEMMA WatchStep ==
  TypeOK /\ StopInv /\ WatchInv /\ OnceInv /\ [Next]_vars => WatchInv' /\ OnceInv'
<1> SUFFICES ASSUME TypeOK, StopInv, WatchInv, OnceInv, [Next]_vars PROVE WatchInv' /\ OnceInv'
  OBVIOUS
<1>1. ASSUME UNCHANGED <<disk, phase, scheduled, watched, calls, raw>>
      PROVE  WatchInv' /\ OnceInv'
  BY <1>1 DEF WatchInv, OnceInv, Announced, disk
<1>2. CASE Survey
  BY <1>2, DirAssumption DEF Survey, WatchInv, OnceInv, Announced, disk
<1>3. CASE Launch
  BY <1>3, DirAssumption DEF Launch, WatchInv, OnceInv, Announced, disk, Dirs, TypeOK
<1>4. ASSUME NEW d \in Dirs, MakeDir(d) PROVE WatchInv' /\ OnceInv'
  <2>1. /\ exists' = exists \cup {d} /\ UNCHANGED <<phase, scheduled, watched, calls>>
        /\ disturbed' = IF phase = "surveyed" THEN disturbed \cup {d} ELSE disturbed
    BY <1>4 DEF MakeDir
  <2>2. ASSUME phase = "running", Factory \in watched
        PROVE  /\ Announced(d)'
               /\ \A e \in Dirs : Announced(e) => Announced(e)'
    <3>1. PICK event \in {Appeared(d), DirEvent} : raw' = Append(raw, event)
      BY <1>4, <2>2 DEF MakeDir, Heard
    <3>2. event \in RawEvents
      BY <3>1 DEF RawEvents
    <3> QED
      BY <3>1, <3>2, AppendAnnounces
  <2>3. WatchInv'
    BY <2>1, <2>2, DirAssumption DEF WatchInv, Dirs, TypeOK
  <2>4. OnceInv'
    BY <2>1 DEF OnceInv
  <2> QED
    BY <2>3, <2>4
<1>5. ASSUME NEW d \in Dirs, RemoveDir(d) PROVE WatchInv' /\ OnceInv'
  <2>1. /\ exists' = exists \ {d} /\ watched' = watched \ {d} /\ disturbed' = disturbed \cup {d}
        /\ UNCHANGED <<phase, scheduled, calls>>
    BY <1>5 DEF RemoveDir
  <2>2. ASSUME phase = "running", Factory \in watched
        PROVE  \A e \in Dirs : Announced(e) => Announced(e)'
    <3>1. raw' = Append(raw, DirEvent) /\ DirEvent \in RawEvents
      BY <1>5, <2>2 DEF RemoveDir, Heard, RawEvents
    <3> QED
      BY <3>1, AppendAnnounces
  <2>3. WatchInv'
    BY <2>1, <2>2 DEF WatchInv, Dirs, TypeOK
  <2>4. OnceInv'
    BY <2>1 DEF OnceInv
  <2> QED
    BY <2>3, <2>4
<1>6. ASSUME NEW p \in Paths, Change(p) PROVE WatchInv' /\ OnceInv'
  <2>1. /\ UNCHANGED <<disk, phase, scheduled, watched, calls>>
        /\ raw' = Append(raw, Changed(p, changes')) /\ changes' \in 1..MaxChanges
    BY <1>6, ChangeAssumption DEF Change, TypeOK, Numbers
  <2>2. Changed(p, changes') \in RawEvents
    BY <2>1 DEF RawEvents, Changes
  <2>3. \A d \in Dirs : Announced(d) => Announced(d)'
    BY <2>1, <2>2, AppendAnnounces
  <2> QED
    BY <2>1, <2>3 DEF WatchInv, OnceInv, disk, Dirs
<1>7. CASE TakeChange
  <2>1. /\ UNCHANGED <<disk, phase, scheduled, watched, calls>> /\ raw' = Tail(raw)
        /\ raw # <<>> /\ Head(raw) \in Changes
    BY <1>7 DEF TakeChange, Taking
  <2>2. \A d \in Dirs : Announced(d) => Announced(d)'
    BY <2>1, EventTags, TailAnnounces
  <2> QED
    BY <2>1, <2>2 DEF WatchInv, OnceInv, disk, Dirs
<1>8. CASE TakeAppeared
  <2>1. PICK d \in Dirs : /\ Head(raw) = Appeared(d)
                          /\ Schedule(IF d \in DirKind THEN {d} \ scheduled ELSE Missing)
    BY <1>8 DEF TakeAppeared
  <2> DEFINE ds == IF d \in DirKind THEN {d} \ scheduled ELSE Missing
  <2>2. ds \in SUBSET DirKind /\ ds \cap scheduled = {}
    BY DEF Missing
  <2>3. \A e \in (exists \cap DirKind) \ disturbed :
          Head(raw) \in {Appeared(e), DirEvent} => e \in ds \cup scheduled
    BY <2>1, EventTags DEF Dirs
  <2>4. Taking /\ raw' = Tail(raw) /\ UNCHANGED disk /\ Schedule(ds)
    BY <1>8, <2>1 DEF TakeAppeared
  <2> HIDE DEF ds
  <2> QED
    BY <2>2, <2>3, <2>4, ScheduleKeeps
<1>9. CASE TakeDirEvent
  <2>1. Taking /\ raw' = Tail(raw) /\ UNCHANGED disk /\ Schedule(Missing)
    BY <1>9 DEF TakeDirEvent
  <2>2. Missing \in SUBSET DirKind /\ Missing \cap scheduled = {}
    BY DEF Missing
  <2>3. \A e \in (exists \cap DirKind) \ disturbed : e \in Missing \cup scheduled
    BY DEF Missing
  <2> QED
    BY <2>1, <2>2, <2>3, ScheduleKeeps
<1>10. CASE Join
  BY <1>10 DEF Join, WatchInv, OnceInv, disk
<1>11. CASE Post \/ LoopStep
  BY <1>1, <1>11 DEF Post, LoopStep, Coalesce, Arm, FanOut, RunDiscard, RunResume, observer
<1>12. ASSUME NEW p \in Paths, Flush(p) PROVE WatchInv' /\ OnceInv'
  BY <1>1, <1>12 DEF Flush, observer
<1>13. CASE LatchOffLoop \/ LatchOnLoop \/ ReturnOffLoop \/ ReturnOnLoop
  BY <1>1, <1>13 DEF LatchOffLoop, LatchOnLoop, ReturnOffLoop, ReturnOnLoop, observer
<1>14. CASE UNCHANGED vars
  BY <1>1, <1>14 DEF vars, observer
<1> QED
  BY <1>2, <1>3, <1>4, <1>5, <1>6, <1>7, <1>8, <1>9, <1>10, <1>11, <1>12, <1>13, <1>14
     DEF Next, Disk, ObserverStep, StopStep

-----------------------------------------------------------------------------
LEMMA InitInv == Init => IInv
<1> SUFFICES ASSUME Init PROVE IInv
  OBVIOUS
<1> USE DirAssumption, ChangeAssumption, Tags DEF Init
<1>1. TypeOK
  <2>1. /\ exists \subseteq Dirs /\ disturbed \subseteq Dirs /\ moves \in 0..MaxMoves
        /\ calls \in [Dirs -> Nat] /\ changes \in Numbers
        /\ pending \in [Paths -> Numbers]
        /\ newest \in [Paths -> Numbers] /\ reported \in [Paths -> Numbers]
    BY DEF Numbers
  <2>2. raw \in Seq(RawEvents) /\ ready \in Seq(Callbacks)
    OBVIOUS
  <2> QED
    BY <2>1, <2>2 DEF TypeOK, Phases, StopPlaces
<1>2. StopInv /\ QueueInv
  BY DEF StopInv, QueueInv
<1>3. LateInv /\ ResumedIsQuiet /\ PendingIsArmed
  BY DEF LateInv, LateAtMostOne, ResumedIsQuiet, PendingIsArmed
<1>4. WatchInv /\ OnceInv
  BY DEF WatchInv, OnceInv
<1> QED
  BY <1>1, <1>2, <1>3, <1>4 DEF IInv

\* The inductive invariant holds of the watcher, whatever directories it watches.
THEOREM Invariance == Spec => []IInv
<1>1. Init => IInv
  BY InitInv
<1>2. IInv /\ [Next]_vars => IInv'
  BY TypeStep, StopInvStep, QueueStep, LateStep, QuietStep, PendingStep, WatchStep
     DEF IInv
<1> QED
  BY <1>1, <1>2, PTL DEF Spec

\* The type invariant.
THEOREM TypeCorrect == Spec => []TypeOK
<1>1. IInv => TypeOK
  BY DEF IInv
<1> QED
  BY <1>1, Invariance, PTL

\* A watcher the loop has seen stopped holds no timer and no change, and handles none,
\* whichever thread ran stop().
THEOREM StoppedIsSpent == Spec => []ResumedIsQuiet
<1>1. IInv => ResumedIsQuiet
  BY DEF IInv
<1> QED
  BY <1>1, Invariance, PTL

\* At most one event comes out after stop() has returned.
THEOREM AtMostOneLate == Spec => []LateAtMostOne
<1>1. IInv => LateAtMostOne
  BY DEF IInv, LateInv
<1> QED
  BY <1>1, Invariance, PTL

\* Changes kept and timers armed are those of the same paths.
THEOREM TimersMatch == Spec => []PendingIsArmed
<1>1. IInv => PendingIsArmed
  BY DEF IInv
<1> QED
  BY <1>1, Invariance, PTL

\* While .factory has been watched since start(), an artefact directory is watched once
\* the observer thread has handled the directory events so far, however it was told of
\* it; and none is ever scheduled twice, .factory or no .factory.
THEOREM LateDirsWatched == Spec => []ArtefactDirsWatched
<1>1. ASSUME IInv, Attentive, Factory \in watched
      PROVE  (exists \cap DirKind) \ disturbed \subseteq watched
  <2>1. \A d \in Dirs : ~Announced(d)
    BY <1>1, EventTags DEF Announced, Attentive, DirEventsHandled
  <2> QED
    BY <1>1, <2>1 DEF IInv, WatchInv, Attentive, Dirs
<1>2. IInv => ArtefactDirsWatched
  BY <1>1 DEF ArtefactDirsWatched, IInv, OnceInv
<1> QED
  BY <1>2, Invariance, PTL

=============================================================================
