--------------------------- MODULE LivePageProofs ---------------------------
(***************************************************************************)
(* The event streams and the page on them, for every number of streams,    *)
(* switches and changes.                                                   *)
(***************************************************************************)
EXTENDS LivePage, WatcherSupervisorProofs

Stream == [at: StreamPlaces, gen: 0..MaxMoves,
           watcher: Watchers \cup {NoWatcher}, queued: 0..MaxQueued]
Page == [status : {"away", "connecting", "live", "disconnected"},
         source : Streams \cup {NoSource, Dialing}, redial : BOOLEAN, timer : BOOLEAN,
         load : Loads, shown : 0 .. MaxMoves + MaxWrites, seen : Targets,
         leaked : BOOLEAN]

-----------------------------------------------------------------------------
(***************************************************************************)
(* The supervisor is left as it was                                        *)
(***************************************************************************)
\* Every step is the supervisor's own or does not touch it: the streams and the
\* page observe it, and hold no lock of its.
LEMMA Observes == [Next]_vars => [SupNext]_supVars
<1> SUFFICES ASSUME [Next]_vars PROVE [SupNext]_supVars
  OBVIOUS
<1>1. CASE Supervise
  BY <1>1 DEF Supervise
<1>2. CASE Files
  BY <1>2 DEF Files, Write, Stray, Change
<1>3. CASE Store \/ Layout
  BY <1>3 DEF Store, Layout, Breaks, Refused, Redial, Visit, Close, Refresh, Reload, Read,
              Show, LoadFails, Alone
<1>4. CASE \E s \in Streams : StreamStep(s)
  BY <1>4 DEF StreamStep, Accepted, Subscribes, Signal, Ended, Connect, Subscribe, Deliver,
              TickStale
<1>5. CASE UNCHANGED vars
  BY <1>5 DEF vars
<1> QED
  BY <1>1, <1>2, <1>3, <1>4, <1>5 DEF Next

\* The supervisor under open streams and a page is the supervisor of SupSpec.
THEOREM SupervisorUndisturbed == Spec => SupSpec
<1>1. Init => SupInit
  BY DEF Init
<1> QED
  BY <1>1, Observes, PTL DEF Spec, SupSpec

\* So whatever pages come and go, two observers never overlap ...
THEOREM OneWatcherUnderPages == Spec => []OneWatcherAtMost
BY SupervisorUndisturbed, AtMostOneWatcher, PTL

\* ... none is left that nobody will stop ...
THEOREM NoOrphanUnderPages == Spec => []NoOrphan
BY SupervisorUndisturbed, NothingOrphaned, PTL

\* ... and the composition implements the promise of the supervisor.
THEOREM SingleWatcherUnderPages == Spec => ImplementsSingleWatcher
BY SupervisorUndisturbed, Refinement, PTL

-----------------------------------------------------------------------------
(***************************************************************************)
(* The streams                                                             *)
(***************************************************************************)
\* What a stream captured is never ahead of the supervisor; no stream is open
\* before the console serves; and one that compares equal is on the live watcher.
StreamInv ==
  /\ stream \in [Streams -> Stream]
  /\ \A s \in Streams : stream[s].gen <= generation
  /\ loop = "boot" => \A s \in Streams : ~Open(s)
  /\ FreshMeansLive

\* A stream that is closed and opened again, or closed, or loses no capture.
Kept(s) == \/ stream'[s] = Closed
           \/ /\ stream'[s].gen = stream[s].gen /\ stream'[s].watcher = stream[s].watcher
              /\ Open(s)' => Open(s)

LEMMA ClosedIs == Closed \in Stream /\ Closed.gen = 0 /\ Closed.at = "closed"
BY MovesAssumption, QueueAssumption DEF Closed, Stream, StreamPlaces, Watchers, NoWatcher

LEMMA StreamsKept ==
  ASSUME SupTypeOK, StreamInv, UNCHANGED supVars, stream' \in [Streams -> Stream],
         \A s \in Streams : Kept(s)
  PROVE  StreamInv'
<1>1. \A s \in Streams : stream'[s].gen <= generation' /\ (Open(s)' => Open(s))
  BY ClosedIs DEF StreamInv, Kept, Open, supVars, SupTypeOK
<1>2. FreshMeansLive'
  BY <1>1, ClosedIs DEF StreamInv, FreshMeansLive, Swapping, Kept, Open, supVars
<1> QED
  BY <1>1, <1>2 DEF StreamInv, supVars

LEMMA ConnectStep ==
  ASSUME SupTypeOK, StreamInv, NEW s \in Streams, Connect(s)
  PROVE  StreamInv'
<1> DEFINE n == [at |-> "ready", gen |-> generation, watcher |-> current, queued |-> 0]
<1>1. /\ UNCHANGED supVars /\ loop = "serving" /\ stream' = [stream EXCEPT ![s] = n]
  BY DEF Connect
<1>2. n \in Stream
  <2>1. generation \in 0 .. MaxMoves /\ 0 \in 0 .. MaxQueued
    BY MovesAssumption, QueueAssumption DEF SupTypeOK
  <2> QED
    BY <2>1 DEF Stream, StreamPlaces, SupTypeOK
<1>3. stream' \in [Streams -> Stream] /\ stream'[s] = n
      /\ \A q \in Streams \ {s} : stream'[q] = stream[q]
  BY <1>1, <1>2 DEF StreamInv
<1>4. n.gen = generation /\ n.watcher = current
  OBVIOUS
<1> HIDE DEF n
<1>5. \A q \in Streams : stream'[q].gen <= generation'
  BY <1>1, <1>3, <1>4 DEF StreamInv, supVars, SupTypeOK
<1>6. FreshMeansLive'
  BY <1>1, <1>3, <1>4 DEF StreamInv, FreshMeansLive, Swapping, Open, supVars
<1> QED
  BY <1>1, <1>3, <1>5, <1>6 DEF StreamInv, supVars

LEMMA SubscribeStep ==
  ASSUME SupTypeOK, StreamInv, NEW s \in Streams, Subscribe(s)
  PROVE  StreamInv'
<1>1. PICK at \in {"heartbeat", "listening"} : stream' = [stream EXCEPT ![s].at = at]
  BY DEF Subscribe
<1>2. stream' \in [Streams -> Stream]
  BY <1>1 DEF StreamInv, Stream, StreamPlaces
<1>3. stream[s].at = "ready" /\ UNCHANGED supVars
  BY DEF Subscribe
<1>4. \A q \in Streams : Kept(q)
  BY <1>1, <1>3 DEF StreamInv, Stream, Kept, Open
<1> QED
  BY <1>2, <1>3, <1>4, StreamsKept

LEMMA ChangeStep ==
  ASSUME SupTypeOK, StreamInv, NEW w, Change(w)
  PROVE  StreamInv'
<1>1. /\ UNCHANGED supVars /\ \A s \in Audience(w) : stream[s].queued < MaxQueued
      /\ stream' = [s \in Streams |->
           IF s \in Audience(w) THEN [stream[s] EXCEPT !.queued = @ + 1] ELSE stream[s]]
  BY DEF Change
<1>2. \A s \in Streams : stream[s] \in Stream
  BY DEF StreamInv
<1>3. \A s \in Audience(w) : [stream[s] EXCEPT !.queued = @ + 1] \in Stream
  BY <1>1, <1>2, QueueAssumption DEF Stream, Audience
<1>4. stream' \in [Streams -> Stream]
  BY <1>1, <1>2, <1>3
<1>5. \A s \in Streams : Kept(s)
  BY <1>1, <1>2 DEF Stream, Kept, Open
<1> QED
  BY <1>1, <1>4, <1>5, StreamsKept

LEMMA DeliverStep ==
  ASSUME SupTypeOK, StreamInv, NEW s \in Streams, Deliver(s)
  PROVE  StreamInv'
<1>1. /\ UNCHANGED supVars /\ stream[s].queued > 0
      /\ stream' = [stream EXCEPT ![s].queued = @ - 1]
  BY DEF Deliver
<1>2. stream[s] \in Stream
  BY DEF StreamInv
<1>3. [stream[s] EXCEPT !.queued = @ - 1] \in Stream
  BY <1>1, <1>2, QueueAssumption DEF Stream
<1>4. stream' \in [Streams -> Stream]
  BY <1>1, <1>3 DEF StreamInv
<1>5. \A q \in Streams : Kept(q)
  BY <1>1 DEF StreamInv, Stream, Kept, Open
<1> QED
  BY <1>1, <1>4, <1>5, StreamsKept

LEMMA StaleStep ==
  ASSUME SupTypeOK, StreamInv, NEW s \in Streams, TickStale(s)
  PROVE  StreamInv'
<1>1. UNCHANGED supVars /\ stream' = [stream EXCEPT ![s] = Closed]
  BY DEF TickStale
<1>2. stream' \in [Streams -> Stream] /\ \A q \in Streams : Kept(q)
  BY <1>1, ClosedIs DEF StreamInv, Kept, Open
<1> QED
  BY <1>1, <1>2, StreamsKept

\* The page lets go of its stream.
LEMMA AloneStep ==
  ASSUME SupTypeOK, StreamInv, NEW pg, Alone(pg)
  PROVE  StreamInv'
<1>1. UNCHANGED supVars /\ \A s \in Streams : stream'[s] \in {Closed, stream[s]}
  BY DEF Alone
<1>2. stream' = [s \in Streams |-> IF page.source = s /\ pg.source # s THEN Closed ELSE stream[s]]
  BY DEF Alone
<1>3. stream' \in [Streams -> Stream]
  BY <1>2, ClosedIs DEF StreamInv
<1>4. \A q \in Streams : Kept(q)
  BY <1>1 DEF Kept, Open
<1> QED
  BY <1>1, <1>3, <1>4, StreamsKept

\* The supervisor moves: a swap that changes the watcher has been announced
\* since it dropped the old one, and counts before it is over.
LEMMA SupervisedStep ==
  ASSUME IInv, IInv', StreamInv, SupNext, UNCHANGED stream
  PROVE  StreamInv'
<1> USE MovesAssumption DEF IInv, SupTypeOK, WindowInv, LockInv, Tasks, Holding, Releasing
<1>1. generation <= generation' /\ generation \in Nat /\ generation' \in Nat
  <2>1. generation \in Nat /\ generation' \in Nat
    OBVIOUS
  <2>2. generation' \in {generation, generation + 1}
    BY ONLY SupNext DEF SupNext, Start, StartFails, StopLatch, StopStep, StopLoad, StopDrop, StopJoin, Move,
         SwapStep, ReleaseStep, LoopStep, ReleaseGuard, ReleaseClaim, ReleaseLoad, ReleaseDrop,
         ReleaseJoin, Acquire, EndSkipped, Rebuild, RebuildWatcherless, RebuildAfterStop
  <2> QED
    BY <2>1, <2>2
<1>2. \A s \in Streams : stream'[s].gen <= generation'
  BY <1>1 DEF StreamInv, Stream
<1>3. loop' = "boot" => loop = "boot"
  BY DEF SupNext, Start, StartFails, StopLatch, StopStep, StopLoad, StopDrop, StopJoin, Move,
         SwapStep, ReleaseStep, LoopStep, ReleaseGuard, ReleaseClaim, ReleaseLoad, ReleaseDrop,
         ReleaseJoin, Acquire, EndSkipped, Rebuild, RebuildWatcherless, RebuildAfterStop
<1>4. ASSUME NEW s \in Streams, Open(s)', stream'[s].gen = generation', started', ~Swapping'
      PROVE  stream'[s].watcher = current'
  <2>1. Open(s) /\ stream[s].gen = generation /\ generation' = generation /\ loop # "boot"
    BY <1>1, <1>2, <1>4 DEF StreamInv, Stream, Open
  <2>2. CASE Start \/ StartFails
    BY <2>1, <2>2 DEF Start, StartFails
  <2>3. CASE StopLatch \/ StopStep
    BY <1>4, <2>3 DEF StopLatch, StopStep, StopLoad, StopDrop, StopJoin
  <2>4. CASE \E r \in Targets : Move(r)
    <3>1. PICK r \in Targets : Move(r)
      BY <2>4
    <3>2. UNCHANGED <<current, generation, started>>
      BY <3>1 DEF Move
    <3>3. ~Swapping
      BY <1>4, <3>1 DEF Move, Swapping, OrderInv, At
    <3> QED
      BY <2>1, <1>4, <3>2, <3>3 DEF StreamInv, FreshMeansLive
  <2>5. ASSUME NEW t \in Tasks, SwapStep(t) PROVE stream'[s].watcher = current'
    <3>1. CASE ReleaseGuard(t) \/ Acquire(t) \/ EndSkipped(t)
      <4>1. UNCHANGED <<current, generation, started>>
        BY <3>1 DEF ReleaseGuard, Acquire, EndSkipped
      <4>2. ~Swapping
        BY <1>4, <3>1 DEF ReleaseGuard, Acquire, EndSkipped, Swapping, Goto, At
      <4> QED
        BY <1>4, <2>1, <4>1, <4>2 DEF StreamInv, FreshMeansLive
    <3>2. CASE ReleaseClaim(t) \/ ReleaseLoad(t) \/ ReleaseDrop(t) \/ ReleaseJoin(t)
      <4>1. swap'[t].at \in {"load", "drop", "join", "rebuild"}
        BY <3>2 DEF ReleaseClaim, ReleaseLoad, ReleaseDrop, ReleaseJoin, Goto
      <4> QED
        BY <1>4, <4>1 DEF Swapping
    <3>3. CASE Rebuild(t) \/ RebuildWatcherless(t) \/ RebuildAfterStop(t)
      <4>1. generation' = generation + 1 \/ (~started /\ started' = started)
        BY <3>3 DEF Rebuild, RebuildWatcherless, RebuildAfterStop
      <4>2. CASE generation' = generation + 1
        BY ONLY <1>1, <2>1, <4>2
      <4>3. CASE ~started /\ started' = started
        BY ONLY <1>4, <4>3
      <4> QED
        BY <4>1, <4>2, <4>3
    <3> QED
      BY <2>5, <3>1, <3>2, <3>3 DEF SwapStep, ReleaseStep, LoopStep
  <2> QED
    BY <2>2, <2>3, <2>4, <2>5 DEF SupNext
<1>5. FreshMeansLive'
  BY <1>4 DEF FreshMeansLive
<1> QED
  BY <1>2, <1>3, <1>5 DEF StreamInv, Open

LEMMA StreamStepInv == IInv /\ IInv' /\ StreamInv /\ [Next]_vars => StreamInv'
<1> SUFFICES ASSUME IInv, IInv', StreamInv, [Next]_vars PROVE StreamInv'
  OBVIOUS
<1>1. SupTypeOK
  BY DEF IInv
<1>2. CASE Supervise
  BY <1>2, SupervisedStep DEF Supervise
<1>3. CASE Files
  <2>1. CASE Write
    <3>1. CASE UNCHANGED <<supVars, stream>>
      BY <3>1 DEF StreamInv, FreshMeansLive, Swapping, Open, supVars
    <3> QED
      BY <1>1, <2>1, <3>1, ChangeStep DEF Write
  <2>2. CASE Stray
    BY <1>1, <2>2, ChangeStep DEF Stray
  <2> QED
    BY <1>3, <2>1, <2>2 DEF Files
<1>4. CASE Store \/ Layout
  BY <1>1, <1>4, AloneStep DEF Store, Layout, Breaks, Refused, Redial, Visit, Close, Refresh,
     Reload, Read, Show, LoadFails
<1>5. CASE \E s \in Streams : StreamStep(s)
  BY <1>1, <1>5, ConnectStep, SubscribeStep, DeliverStep, StaleStep
     DEF StreamStep, Accepted, Subscribes, Signal, Ended
<1>6. CASE UNCHANGED vars
  BY <1>6 DEF vars, StreamInv, FreshMeansLive, Swapping, Open, supVars
<1> QED
  BY <1>2, <1>3, <1>4, <1>5, <1>6 DEF Next

LEMMA StreamsStart == Init => StreamInv
BY ClosedIs DEF Init, SupInit, StreamInit, StreamInv, FreshMeansLive, Open

\* A stream that compares equal with the supervisor's generation is on the live
\* watcher, however switches, failed builds and the shutdown interleave with the
\* moment it captured the two.
THEOREM FreshIsLive == Spec => []FreshMeansLive
<1>1. StreamInv => FreshMeansLive
  BY DEF StreamInv
<1>2. Spec => []IInv
  BY SupervisorUndisturbed, Invariance, PTL
<1> QED
  BY <1>1, <1>2, StreamsStart, StreamStepInv, PTL DEF Spec

-----------------------------------------------------------------------------
(***************************************************************************)
(* The page                                                                *)
(***************************************************************************)
\* OneEventSource, of a typed page.
Sound(pg) ==
  /\ pg \in Page
  /\ ~pg.leaked
  /\ pg.status = "live" <=> pg.source \in Streams
  /\ pg.redial => pg.source = NoSource

PageInv ==
  /\ Sound(page)
  /\ writes \in 0 .. MaxWrites
  /\ missed \in BOOLEAN

\* Version and Selected stay within the bounds of the model.
LEMMA VersionIs ==
  ASSUME SupTypeOK, writes \in 0 .. MaxWrites
  PROVE  Version \in 0 .. MaxMoves + MaxWrites /\ Selected \in Targets
<1>1. Version \in 0 .. MaxMoves + MaxWrites
  BY MovesAssumption, WritesAssumption DEF SupTypeOK, Version
<1>2. CASE moves = 0
  BY <1>1, <1>2, RootAssumption DEF Selected, Targets
<1>3. CASE moves # 0
  <2>1. moves \in Tasks
    BY <1>3, MovesAssumption DEF SupTypeOK, Tasks
  <2> QED
    BY <1>1, <1>3, <2>1 DEF Selected, SupTypeOK
<1> QED
  BY <1>2, <1>3

LEMMA LoadsAre ==
  /\ NoLoad \in Loads /\ Asked \in Loads
  /\ \A version \in 0 .. MaxMoves + MaxWrites, r \in Targets :
       [at |-> "read", version |-> version, root |-> r] \in Loads
<1>1. 0 \in 0 .. MaxMoves + MaxWrites
  BY MovesAssumption, WritesAssumption
<1>2. NoLoad \in Loads
  BY <1>1 DEF NoLoad, Loads, Targets
<1>3. Asked \in Loads
  BY <1>2 DEF Asked, Loads
<1>4. \A version \in 0 .. MaxMoves + MaxWrites, r \in Targets :
        [at |-> "read", version |-> version, root |-> r] \in Loads
  BY DEF Loads
<1> QED
  BY <1>2, <1>3, <1>4

LEMMA AwayIs == Sound(Away) /\ ~Away.redial /\ Away.source = NoSource
<1>1. 0 \in 0 .. MaxMoves + MaxWrites
  BY MovesAssumption, WritesAssumption
<1> QED
  BY <1>1, LoadsAre, SourceAssumption DEF Away, Sound, Page, Targets

\* connect() on no EventSource, with no reconnect pending, leaves exactly one.
LEMMA ConnectedIs ==
  ASSUME NEW pg \in Page, ~pg.leaked, pg.source = NoSource, ~pg.redial
  PROVE  Sound(Connected(pg))
BY SourceAssumption DEF Connected, Sound, Page

\* stop() closes whatever there is and cancels the reconnect.
LEMMA StoppedIs ==
  ASSUME NEW pg \in Page, ~pg.leaked
  PROVE  /\ Sound(Stopped(pg)) /\ Stopped(pg) \in Page
         /\ ~Stopped(pg).leaked /\ Stopped(pg).source = NoSource /\ ~Stopped(pg).redial
BY SourceAssumption DEF Stopped, Sound, Page

LEMMA FailedIs ==
  ASSUME NEW pg \in Page, ~pg.leaked
  PROVE  Sound(Failed(pg))
BY SourceAssumption DEF Failed, Sound, Page

\* A change of what the page shows or loads is none of its connection.
LEMMA ContentIs ==
  ASSUME NEW pg, Sound(pg), NEW load \in Loads, NEW shown \in 0 .. MaxMoves + MaxWrites,
         NEW seen \in Targets, NEW timer \in BOOLEAN
  PROVE  /\ Sound([pg EXCEPT !.load = load])
         /\ Sound([pg EXCEPT !.timer = timer])
         /\ Sound([pg EXCEPT !.timer = timer, !.load = load])
         /\ Sound([pg EXCEPT !.load = load, !.shown = shown, !.seen = seen])
         /\ Sound([pg EXCEPT !.shown = shown, !.seen = seen])
<1>1. Sound([pg EXCEPT !.load = load])
  BY DEF Sound, Page
<1>2. Sound([pg EXCEPT !.timer = timer])
  BY DEF Sound, Page
<1>3. Sound([pg EXCEPT !.timer = timer, !.load = load])
  BY DEF Sound, Page
<1>4. Sound([pg EXCEPT !.load = load, !.shown = shown, !.seen = seen])
  BY DEF Sound, Page
<1>5. Sound([pg EXCEPT !.shown = shown, !.seen = seen])
  BY DEF Sound, Page
<1> QED
  BY <1>1, <1>2, <1>3, <1>4, <1>5

LEMMA WitnessType == ASSUME Witness PROVE missed' \in BOOLEAN
BY DEF Witness

LEMMA PageStepInv == SupTypeOK /\ PageInv /\ [Next]_vars => PageInv'
<1> SUFFICES ASSUME SupTypeOK, PageInv, [Next]_vars PROVE PageInv'
  OBVIOUS
<1>1. Sound(page) /\ page \in Page /\ ~page.leaked /\ page.load \in Loads
  BY DEF PageInv, Sound, Page
<1>2. Version \in 0 .. MaxMoves + MaxWrites /\ Selected \in Targets /\ NoRoot \in Targets
  BY VersionIs DEF PageInv, Targets
<1>3. ASSUME UNCHANGED writes, Witness, Sound(page') PROVE PageInv'
  BY <1>3, WitnessType DEF PageInv, Sound
<1>4. ASSUME NEW pg, Sound(pg), Paged(pg) PROVE PageInv'
  BY <1>3, <1>4 DEF Paged
<1>5. ASSUME NEW pg, Sound(pg), Alone(pg) PROVE PageInv'
  BY <1>4, <1>5 DEF Alone
<1>6. CASE Supervise \/ Stray
  BY <1>1, <1>3, <1>6 DEF Supervise, Stray
<1>7. CASE Write
  <2>1. writes' \in 0 .. MaxWrites
    BY <1>7, WritesAssumption DEF Write, PageInv
  <2>2. page' = page /\ Witness
    BY <1>7 DEF Write
  <2> QED
    BY <1>1, <2>1, <2>2, WitnessType DEF PageInv
<1>8. CASE Breaks \/ Refused
  BY <1>1, <1>5, <1>8, FailedIs DEF Breaks, Refused
<1>9. CASE Redial
  <2> DEFINE pg == [page EXCEPT !.redial = FALSE]
  <2>1. pg \in Page /\ ~pg.leaked /\ pg.source = NoSource /\ ~pg.redial
    BY <1>1, <1>9 DEF Redial, Sound, Page
  <2> HIDE DEF pg
  <2>2. Sound(Connected(pg))
    BY <2>1, ConnectedIs
  <2> QED
    BY <1>5, <1>9, <2>2 DEF Redial, pg
<1>10. CASE Visit
  <2> DEFINE pg == [Away EXCEPT !.shown = Version, !.seen = Selected]
  <2>1. Sound(pg)
    BY <1>2, AwayIs, LoadsAre, ContentIs
  <2>2. pg.source = NoSource /\ ~pg.redial
    BY AwayIs DEF Sound, Page
  <2> HIDE DEF pg
  <2>3. Sound(Connected(pg))
    BY <2>1, <2>2, ConnectedIs DEF Sound
  <2> QED
    BY <1>5, <1>10, <2>3 DEF Visit, pg
<1>11. CASE Close
  BY <1>5, <1>11, AwayIs DEF Close
<1>12. CASE Refresh \/ Reload
  <2>1. Sound([page EXCEPT !.timer = FALSE, !.load = Asked])
    BY <1>1, <1>2, LoadsAre, ContentIs
  <2>2. Sound([page EXCEPT !.load = Asked])
    BY <1>1, <1>2, LoadsAre, ContentIs
  <2> QED
    BY <1>5, <1>12, <2>1, <2>2 DEF Refresh, Reload
<1>13. CASE Read
  <2> DEFINE load == [at |-> "read", version |-> Version, root |-> Selected]
  <2>1. load \in Loads
    BY <1>2, LoadsAre
  <2> HIDE DEF load
  <2>2. Sound([page EXCEPT !.load = load])
    BY <1>1, <1>2, <2>1, ContentIs
  <2> QED
    BY <1>5, <1>13, <2>2 DEF Read, load
<1>14. CASE Show
  <2>1. PICK selectedId \in {page.load.root, NoRoot} :
          LET shown == [page EXCEPT !.load = NoLoad, !.shown = page.load.version,
                                    !.seen = selectedId]
          IN Alone(IF selectedId \notin {NoRoot, page.seen} THEN Restarted(shown) ELSE shown)
    BY <1>14 DEF Show
  <2> DEFINE shown == [page EXCEPT !.load = NoLoad, !.shown = page.load.version,
                                   !.seen = selectedId]
  <2>2. page.load.version \in 0 .. MaxMoves + MaxWrites /\ selectedId \in Targets
    BY <1>1, <1>2 DEF Loads
  <2>3. Sound(shown)
    BY <1>1, <2>2, LoadsAre, ContentIs
  <2> HIDE DEF shown
  <2>4. Sound(Restarted(shown))
    BY <2>3, StoppedIs, ConnectedIs DEF Restarted, Sound
  <2>5. Alone(Restarted(shown)) \/ Alone(shown)
    BY <2>1 DEF shown
  <2> QED
    BY <1>5, <2>3, <2>4, <2>5
<1>15. CASE LoadFails
  <2>1. Sound([page EXCEPT !.load = NoLoad])
    BY <1>1, <1>2, LoadsAre, ContentIs
  <2> QED
    BY <1>5, <1>15, <2>1 DEF LoadFails
<1>16. ASSUME NEW s \in Streams, StreamStep(s) PROVE PageInv'
  <2>1. CASE Accepted(s)
    <3>1. page.source = Dialing /\ Paged([page EXCEPT !.status = "live", !.source = s])
      BY <2>1 DEF Accepted
    <3>2. Sound([page EXCEPT !.status = "live", !.source = s])
      BY <1>1, <3>1, SourceAssumption DEF Sound, Page, Dialing, NoSource
    <3> QED
      BY <1>4, <3>1, <3>2
  <2>2. CASE Subscribes(s)
    BY <1>1, <1>4, <2>2 DEF Subscribes
  <2>3. CASE Signal(s)
    <3>1. Sound([page EXCEPT !.timer = TRUE])
      BY <1>1, <1>2, ContentIs
    <3> QED
      BY <1>1, <1>4, <2>3, <3>1 DEF Signal
  <2>4. CASE Ended(s)
    <3> DEFINE pg == [page EXCEPT !.source = NoSource, !.redial = FALSE]
    <3>1. pg \in Page /\ ~pg.leaked /\ pg.source = NoSource /\ ~pg.redial
      BY <1>1 DEF Sound, Page
    <3> HIDE DEF pg
    <3>2. Sound(Connected(pg))
      BY <3>1, ConnectedIs
    <3>3. Paged(Connected(pg)) \/ Paged(page)
      BY <2>4 DEF Ended, pg
    <3> QED
      BY <1>1, <1>4, <3>2, <3>3
  <2> QED
    BY <1>16, <2>1, <2>2, <2>3, <2>4 DEF StreamStep
<1>17. CASE UNCHANGED vars
  BY <1>17 DEF vars, PageInv, Sound
<1> QED
  BY <1>6, <1>7, <1>8, <1>9, <1>10, <1>11, <1>12, <1>13, <1>14, <1>15, <1>16, <1>17
     DEF Next, Files, Store, Layout

LEMMA PageInit == Init => PageInv
<1>1. 0 \in 0 .. MaxWrites
  BY WritesAssumption
<1>2. Init => writes = 0 /\ page = Away /\ missed = FALSE
  BY DEF Init
<1> QED
  BY <1>1, <1>2, AwayIs DEF PageInv

LEMMA PageInvariance == Spec => []PageInv
<1>1. Spec => []IInv
  BY SupervisorUndisturbed, Invariance, PTL
<1>2. IInv => SupTypeOK
  BY DEF IInv
<1> QED
  BY <1>1, <1>2, PageInit, PageStepInv, PTL DEF Spec

\* The page holds at most one EventSource and never lets go of an open one, in
\* whatever order errors, stale frames, back-offs, restarts and closings come.
THEOREM NoSourceLeaks == Spec => []OneEventSource
<1>1. PageInv => OneEventSource
  BY DEF PageInv, Sound, OneEventSource
<1> QED
  BY <1>1, PageInvariance, PTL

\* The type invariant of the whole: the supervisor, its streams and the page.
THEOREM LivePageTypes == Spec => []TypeOK
<1>1. SupTypeOK /\ StreamInv /\ PageInv => TypeOK
  BY DEF StreamInv, PageInv, Sound, TypeOK, StreamTypeOK, Stream, Page
<1>2. IInv => SupTypeOK
  BY DEF IInv
<1>3. Spec => []IInv
  BY SupervisorUndisturbed, Invariance, PTL
<1>4. Spec => []StreamInv
  BY <1>3, StreamsStart, StreamStepInv, PTL DEF Spec
<1> QED
  BY <1>1, <1>2, <1>3, <1>4, PageInvariance, PTL

-----------------------------------------------------------------------------
(***************************************************************************)
(* What the page is owed                                                   *)
(***************************************************************************)
\* A page that is not behind for good shows what there is, or something is on
\* its way that will make it load: a refresh, a load that read what there is, or
\* a signal in the queue of the stream it listens to.
Signalled == page.source \in Streams /\ stream[page.source].queued > 0
NothingForgotten ==
  page.status # "away" /\ ~missed =>
    \/ Due(page)
    \/ Signalled
    \/ page.load.at = "read" /\ page.load.version = Version
    \/ page.load.at = "none" /\ page.shown = Version

\* A step that leaves the page is none that misses something of which it is not
\* told again.
LEMMA WitnessIs ==
  ASSUME Witness, page'.status # "away", ~missed', ~Due(page')
  PROVE  ~missed /\ ~Gap
BY DEF Witness

\* The page stays as it is, and what was queued for it stays queued.
LEMMA OwedStays ==
  ASSUME NothingForgotten, page.status # "away", ~missed, page' = page, Version' = Version,
         Signalled => Signalled'
  PROVE  NothingForgotten'
BY DEF NothingForgotten, Due

\* The page changes alone: its stream, when it keeps it, is as it was.
LEMMA OwedAlone ==
  ASSUME NEW pg, Alone(pg), Witness, page'.status # "away", ~missed', ~Due(page'), Signalled
  PROVE  Signalled'
<1>1. ~Gap /\ page' = pg
  BY WitnessIs DEF Alone, Paged
<1>2. page'.source = page.source
  BY <1>1 DEF Gap, Signalled
<1>3. stream'[page.source] = stream[page.source]
  BY <1>1, <1>2 DEF Alone, Signalled
<1> QED
  BY <1>2, <1>3 DEF Signalled

LEMMA AloneIs ==
  ASSUME NEW pg, Alone(pg)
  PROVE  page' = pg /\ Witness /\ Version' = Version
BY DEF Alone, Paged, Version, supVars

\* No page, no connection, no timer and no load.
Gone ==
  page.status = "away" =>
    page.source = NoSource /\ ~page.redial /\ ~page.timer /\ page.load.at = "none"

LEMMA GoneStep ==
  ASSUME PageInv, Gone, [Next]_vars
  PROVE  Gone'
<1> SUFFICES ASSUME page'.status = "away"
             PROVE  page' = Away \/ page' = page
  <2>1. Away.source = NoSource /\ ~Away.redial /\ ~Away.timer /\ Away.load.at = "none"
    BY DEF Away, NoLoad
  <2> QED
    BY <2>1 DEF Gone
<1>1. page \in Page
  BY DEF PageInv, Sound
<1>2. CASE Supervise \/ Files
  BY <1>2 DEF Supervise, Files, Write, Stray
<1>3. CASE Breaks \/ Refused \/ Redial \/ Visit
  <2>1. Failed(page).status # "away"
    BY <1>1 DEF Failed, Page
  <2>2. \A pg \in Page : Connected(pg).status # "away"
    BY DEF Connected, Page
  <2>3. [page EXCEPT !.redial = FALSE] \in Page
    BY <1>1 DEF Page
  <2>4. CASE Visit
    <3>1. \A version, root_ : Connected([Away EXCEPT !.shown = version, !.seen = root_]).status
                                = "connecting"
      BY DEF Connected, Away
    <3> QED
      BY <2>4, <3>1 DEF Visit, Alone, Paged
  <2> QED
    BY <1>3, <2>1, <2>2, <2>3, <2>4 DEF Breaks, Refused, Redial, Alone, Paged
<1>4. CASE Close
  BY <1>4 DEF Close, Alone, Paged
<1>5. CASE page.status # "away" /\ (Refresh \/ Reload \/ Read \/ LoadFails)
  BY <1>1, <1>5 DEF Refresh, Reload, Read, LoadFails, Alone, Paged, Page
<1>6. CASE page.status # "away" /\ Show
  <2>1. PICK selectedId \in {page.load.root, NoRoot} :
          LET shown == [page EXCEPT !.load = NoLoad, !.shown = page.load.version,
                                    !.seen = selectedId]
          IN Alone(IF selectedId \notin {NoRoot, page.seen} THEN Restarted(shown) ELSE shown)
    BY <1>6 DEF Show
  <2> DEFINE shown == [page EXCEPT !.load = NoLoad, !.shown = page.load.version,
                                   !.seen = selectedId]
  <2>2. shown.status = page.status /\ Restarted(shown).status = "connecting"
    BY <1>1 DEF Restarted, Connected, Stopped, Page
  <2>3. page' = shown \/ page' = Restarted(shown)
    BY <2>1 DEF Alone, Paged
  <2> QED
    BY <1>6, <2>2, <2>3
<1>7. CASE page.status = "away" /\ (Refresh \/ Reload \/ Read \/ Show \/ LoadFails)
  BY <1>7 DEF Gone, Refresh, Reload, Read, Show, LoadFails
<1>8. ASSUME NEW s \in Streams, StreamStep(s) PROVE page' = Away \/ page' = page
  <2>1. CASE Accepted(s)
    BY <1>1, <2>1 DEF Accepted, Paged, Page
  <2>2. CASE Signal(s)
    <3>1. page.source = s => page.status # "away"
      BY SourceAssumption DEF Gone
    <3> QED
      BY <1>1, <2>2, <3>1 DEF Signal, Paged, Page
  <2>3. CASE Ended(s)
    <3>1. Connected([page EXCEPT !.source = NoSource, !.redial = FALSE]).status = "connecting"
      BY <1>1 DEF Connected, Page
    <3> QED
      BY <2>3, <3>1 DEF Ended, Paged
  <2>4. CASE Subscribes(s)
    BY <2>4 DEF Subscribes, Paged
  <2> QED
    BY <1>8, <2>1, <2>2, <2>3, <2>4 DEF StreamStep
<1>9. CASE UNCHANGED vars
  BY <1>9 DEF vars
<1> QED
  BY <1>2, <1>3, <1>4, <1>5, <1>6, <1>7, <1>8, <1>9 DEF Next, Store, Layout

LEMMA OwedStep ==
  ASSUME SupTypeOK, StreamInv, PageInv, Gone, NothingForgotten, [Next]_vars
  PROVE  NothingForgotten'
<1> DEFINE Goal == \/ Signalled'
                   \/ page'.load.at = "read" /\ page'.load.version = Version'
                   \/ page'.load.at = "none" /\ page'.shown = Version'
<1> SUFFICES ASSUME page'.status # "away", ~missed', ~Due(page')
             PROVE  Goal
  BY DEF NothingForgotten
<1> HIDE DEF Goal
<1>1. page \in Page
  BY DEF PageInv, Sound
<1>2. \A s \in Streams : stream[s].queued \in Nat
  BY QueueAssumption DEF StreamInv, Stream
<1>3. moves \in Nat /\ writes \in Nat
  BY DEF SupTypeOK, PageInv
\* Nothing of the page changes but what is shown of its connection.
<1>4. ASSUME Witness, Version' = Version, Signalled => Signalled',
             page.status # "away",
             page'.load = page.load, page'.shown = page.shown, page'.timer = page.timer
      PROVE  Goal
  BY <1>4, WitnessIs DEF NothingForgotten, Due, Goal
<1>5. CASE Supervise
  <2>1. page' = page /\ stream' = stream /\ Witness
    BY <1>5 DEF Supervise
  <2>2. Version' = Version
    BY <2>1, <1>2, WitnessIs DEF Gap
  <2> QED
    BY <1>4, <2>1, <2>2 DEF Signalled
<1>6. ASSUME NEW w, Change(w), page' = page, Witness
      PROVE  Goal
  <2>1. \A s \in Streams : stream'[s].queued \in Nat /\ stream'[s].queued >= stream[s].queued
    BY <1>2, <1>6 DEF Change, StreamInv, Stream
  <2>2. Signalled => Signalled'
    BY <1>2, <1>6, <2>1 DEF Signalled
  <2>3. CASE Version' = Version
    BY <1>4, <1>6, <2>2, <2>3
  <2>4. CASE Version' # Version
    <3>1. page.source \in Streams /\ stream'[page.source].queued > stream[page.source].queued
      BY <1>6, <2>4, WitnessIs DEF Gap
    <3> QED
      BY <1>2, <1>6, <2>1, <3>1 DEF Signalled, Goal
  <2> QED
    BY <2>3, <2>4
<1>7. CASE Files
  <2>1. CASE Write /\ UNCHANGED <<supVars, stream>>
    <3>1. /\ writes' = writes + 1 /\ moves' = moves
          /\ page' = page /\ stream' = stream /\ Witness
      BY <2>1 DEF Write, supVars
    <3>2. Version' # Version
      BY <1>3, <3>1 DEF Version
    <3>3. FALSE
      BY <1>2, <3>1, <3>2, WitnessIs DEF Gap
    <3> QED
      BY <3>3
  <2>2. CASE Write /\ \E w \in Watching : Change(w)
    BY <1>6, <2>2 DEF Write
  <2>3. CASE Stray
    BY <1>6, <2>3 DEF Stray
  <2> QED
    BY <1>7, <2>1, <2>2, <2>3 DEF Files, Write
<1>8. ASSUME NEW pg, Alone(pg), page.status # "away",
             pg.load = page.load, pg.shown = page.shown, pg.timer = page.timer
      PROVE  Goal
  <2>1. page' = pg /\ Witness /\ Version' = Version
    BY <1>8, AloneIs
  <2>2. Signalled => Signalled'
    BY <1>8, <2>1, OwedAlone
  <2> QED
    BY <1>4, <1>8, <2>1, <2>2
<1>9. CASE Breaks \/ Refused \/ Redial
  <2>1. page.status # "away"
    BY <1>9, SourceAssumption DEF Breaks, Refused, Redial, Dialing, NoSource, Gone
  <2>2. /\ Failed(page).load = page.load /\ Failed(page).shown = page.shown
        /\ Failed(page).timer = page.timer
    BY <1>1 DEF Failed, Page
  <2> DEFINE pg == Connected([page EXCEPT !.redial = FALSE])
  <2>3. pg.load = page.load /\ pg.shown = page.shown /\ pg.timer = page.timer
    BY <1>1 DEF Connected, Page
  <2> QED
    BY <1>8, <1>9, <2>1, <2>2, <2>3 DEF Breaks, Refused, Redial
<1>10. CASE Visit
  <2> DEFINE pg == Connected([Away EXCEPT !.shown = Version, !.seen = Selected])
  <2>1. pg.load = NoLoad /\ pg.shown = Version
    BY DEF Connected, Away
  <2> HIDE DEF pg
  <2>2. page' = pg /\ Version' = Version
    BY <1>10, AloneIs DEF Visit, pg
  <2> QED
    BY <2>1, <2>2 DEF NoLoad, Goal
<1>11. CASE Close
  <2>1. page' = Away
    BY <1>11, AloneIs DEF Close
  <2> QED
    BY <2>1 DEF Away
<1>12. CASE Refresh \/ Reload
  <2>1. \/ page' = [page EXCEPT !.timer = FALSE, !.load = Asked]
        \/ page' = [page EXCEPT !.load = Asked]
    BY <1>12 DEF Refresh, Reload, Alone, Paged
  <2>2. page'.load = Asked
    BY <1>1, <2>1 DEF Page
  <2> QED
    BY <2>2 DEF Due, Asked, NoLoad
<1>13. CASE Read
  <2>1. page'.load = [at |-> "read", version |-> Version, root |-> Selected] /\ Version' = Version
    BY <1>1, <1>13, AloneIs DEF Read, Page
  <2> QED
    BY <2>1 DEF Goal
<1>14. CASE Show
  <2>1. PICK selectedId \in {page.load.root, NoRoot} :
          LET shown == [page EXCEPT !.load = NoLoad, !.shown = page.load.version,
                                    !.seen = selectedId]
          IN Alone(IF selectedId \notin {NoRoot, page.seen} THEN Restarted(shown) ELSE shown)
    BY <1>14 DEF Show
  <2> DEFINE shown == [page EXCEPT !.load = NoLoad, !.shown = page.load.version,
                                   !.seen = selectedId]
             pg == IF selectedId \notin {NoRoot, page.seen} THEN Restarted(shown) ELSE shown
  <2>2. /\ shown.load = NoLoad /\ shown.shown = page.load.version /\ shown.timer = page.timer
        /\ Restarted(shown).load = NoLoad /\ Restarted(shown).shown = page.load.version
        /\ Restarted(shown).timer = page.timer
    BY <1>1 DEF Restarted, Connected, Stopped, Page
  <2>3. Alone(pg) /\ (pg = shown \/ pg = Restarted(shown))
    BY <2>1
  <2> HIDE DEF pg, shown
  <2>4. /\ page' = pg /\ Witness /\ Version' = Version
        /\ page'.load = NoLoad /\ page'.shown = page.load.version /\ page'.timer = page.timer
    BY <2>2, <2>3, AloneIs
  <2>5. Signalled => Signalled'
    BY <2>3, <2>4, OwedAlone
  <2>6. page.status # "away" /\ page.load.at = "read" /\ ~page.timer /\ ~missed
    BY <1>14, <2>4, WitnessIs DEF Show, Gone, Due
  <2>7. Signalled \/ page.load.version = Version
    BY <2>6 DEF NothingForgotten, Due
  <2> QED
    BY <2>4, <2>5, <2>7 DEF NoLoad, Goal
<1>15. CASE LoadFails
  <2>1. page' = [page EXCEPT !.load = NoLoad] /\ Witness /\ Version' = Version /\ page.load.at # "none"
    BY <1>15, AloneIs DEF LoadFails
  <2>2. page'.load.at = "none" /\ page'.shown = page.shown /\ page'.timer = page.timer
    BY <1>1, <2>1 DEF Page, NoLoad
  <2>3. page'.shown = IF page.load.at = "read" THEN page.load.version ELSE Version
    BY <2>1, <2>2, WitnessIs DEF Gap
  <2>4. CASE page.load.at = "asked"
    BY <2>1, <2>2, <2>3, <2>4 DEF Goal
  <2>5. CASE page.load.at = "read"
    <3>1. page.status # "away" /\ ~page.timer /\ ~missed
      BY <2>1, <2>2, WitnessIs DEF Gone, Due
    <3>2. Signalled \/ page.load.version = Version
      BY <2>5, <3>1 DEF NothingForgotten, Due
    <3>3. Signalled => Signalled'
      BY <1>15, <2>1, OwedAlone DEF LoadFails
    <3> QED
      BY <2>1, <2>2, <2>3, <2>5, <3>2, <3>3 DEF Goal
  <2>6. page.load.at \in {"none", "asked", "read"}
    BY <1>1 DEF Page, Loads
  <2> QED
    BY <2>1, <2>4, <2>5, <2>6
<1>16. ASSUME NEW s \in Streams, StreamStep(s) PROVE Goal
  <2>1. Version' = Version /\ Witness
    BY <1>16 DEF StreamStep, Accepted, Subscribes, Signal, Ended, Connect, Subscribe, Deliver,
                 TickStale, Paged, Version, supVars
  <2>2. CASE Accepted(s)
    <3>1. page.source = Dialing /\ page' = [page EXCEPT !.status = "live", !.source = s]
      BY <2>2 DEF Accepted, Paged
    <3>2. ~Signalled /\ page.status # "away"
      BY <3>1, SourceAssumption DEF Signalled, Gone, Dialing, NoSource
    <3>3. page'.load = page.load /\ page'.shown = page.shown /\ page'.timer = page.timer
      BY <1>1, <3>1 DEF Page
    <3> QED
      BY <1>4, <2>1, <3>2, <3>3
  <2>3. CASE Subscribes(s)
    <3>1. page' = page /\ \A q \in Streams : stream'[q].queued = stream[q].queued
      BY <2>3 DEF Subscribes, Subscribe, Paged, StreamInv, Stream
    <3> QED
      BY <1>4, <2>1, <3>1 DEF Signalled
  <2>4. CASE Signal(s)
    <3>1. CASE page.source = s
      <4>1. page'.timer
        BY <1>1, <2>4, <3>1 DEF Signal, Paged, Page
      <4> QED
        BY <4>1 DEF Due
    <3>2. CASE page.source # s
      <4>1. page' = page /\ (page.source \in Streams => stream'[page.source] = stream[page.source])
        BY <2>4, <3>2 DEF Signal, Paged, Deliver, StreamInv
      <4> QED
        BY <1>4, <2>1, <4>1 DEF Signalled
    <3> QED
      BY <3>1, <3>2
  <2>5. CASE Ended(s)
    <3>1. CASE page.source = s
      <4> DEFINE pg == Connected([page EXCEPT !.source = NoSource, !.redial = FALSE])
      <4>1. pg.load = page.load /\ pg.shown = page.shown /\ pg.timer = page.timer
        BY <1>1 DEF Connected, Page
      <4>2. page' = pg /\ stream[s].queued = 0 /\ page.status # "away"
        BY <2>5, <3>1, SourceAssumption DEF Ended, Paged, TickStale, Gone
      <4> QED
        BY <1>4, <2>1, <3>1, <4>1, <4>2 DEF Signalled
    <3>2. CASE page.source # s
      <4>1. page' = page /\ (page.source \in Streams => stream'[page.source] = stream[page.source])
        BY <2>5, <3>2 DEF Ended, Paged, TickStale, StreamInv
      <4> QED
        BY <1>4, <2>1, <4>1 DEF Signalled
    <3> QED
      BY <3>1, <3>2
  <2> QED
    BY <1>16, <2>2, <2>3, <2>4, <2>5 DEF StreamStep
<1>17. CASE UNCHANGED vars
  <2>1. UNCHANGED <<page, stream, missed, Version>>
    BY <1>17 DEF vars, Version, supVars
  <2> QED
    BY <2>1 DEF NothingForgotten, Due, Signalled, Goal
<1> QED
  BY <1>5, <1>7, <1>9, <1>10, <1>11, <1>12, <1>13, <1>14, <1>15, <1>16, <1>17
     DEF Next, Store, Layout

\* The safety half of PageCatchesUp: a page that has missed nothing for good is
\* never at rest on old content.  Whatever switches, errors, refreshes under way
\* and later changes interleave, what it was told of is queued, due, read or shown.
THEOREM NothingIsForgotten == Spec => []NothingForgotten
<1>1. Init => Gone /\ NothingForgotten
  BY DEF Init, Gone, NothingForgotten, Away, NoLoad
<1>2. IInv => SupTypeOK
  BY DEF IInv
<1>3. Spec => []IInv
  BY SupervisorUndisturbed, Invariance, PTL
<1>4. Spec => []StreamInv
  BY <1>3, StreamsStart, StreamStepInv, PTL DEF Spec
<1>5. PageInv /\ Gone /\ [Next]_vars => Gone'
  BY GoneStep
<1>6. SupTypeOK /\ StreamInv /\ PageInv /\ Gone /\ NothingForgotten /\ [Next]_vars
        => NothingForgotten'
  BY OwedStep
<1> QED
  BY <1>1, <1>2, <1>3, <1>4, <1>5, <1>6, PageInvariance, PTL DEF Spec
=============================================================================
