------------------------------ MODULE LivePage ------------------------------
(***************************************************************************)
(* One browser page on top of the event streams: the live store            *)
(* (lib/stores/live.ts) that keeps one EventSource open, the coalescer     *)
(* that folds its signals into one refresh (coalesce.ts), and the layout   *)
(* that loads again and follows the selection (+layout.svelte).            *)
(*                                                                         *)
(* What the page's loads would answer is abstracted to a version: it grows *)
(* with each change of a file of the selected project and with each        *)
(* switch.  A load has the version of its first request.  The wire is part *)
(* of a stream's queue, and what is on it dies with the EventSource.       *)
(***************************************************************************)
EXTENDS LiveUpdates

CONSTANT MaxWrites  \* bound: changes of the selected project's files

ASSUME WritesAssumption == MaxWrites \in Nat

VARIABLES
  writes,   \* number of such changes so far
  page,     \* the page's own state
  missed    \* history: the page is behind, and nothing on its way will tell it

vars == <<supVars, stream, writes, page, missed>>

Version == moves + writes
Selected == IF moves = 0 THEN BootRoot ELSE swap[moves].target

NoSource == "no source"
Dialing  == "dialing"
ASSUME SourceAssumption == Streams \cap {NoSource, Dialing} = {}

NoLoad   == [at |-> "none", version |-> 0, root |-> NoRoot]
Asked    == [NoLoad EXCEPT !.at = "asked"]

\* `status' as the store has it, "away" while no page is mounted; `source', the
\* EventSource held, by its stream once accepted; `redial', the reconnect timer;
\* `timer', the coalescer's; `seen', the selected id of the last load; `leaked',
\* history: an EventSource was let go of while it was open.
Away == [status |-> "away", source |-> NoSource, redial |-> FALSE, timer |-> FALSE,
         load |-> NoLoad, shown |-> 0, seen |-> NoRoot, leaked |-> FALSE]

Init ==
  /\ SupInit /\ StreamInit
  /\ writes = 0 /\ page = Away /\ missed = FALSE

\* The live store's connect(), stop() and restart().
Connected(pg) == [pg EXCEPT !.status = "connecting", !.source = Dialing,
                            !.leaked = @ \/ pg.source # NoSource]
Stopped(pg) == [pg EXCEPT !.status = "disconnected", !.source = NoSource, !.redial = FALSE]
\* Mutant of Restarted: the pending reconnect is not cancelled.
RestartedTwice(pg) == Connected([Stopped(pg) EXCEPT !.redial = pg.redial])
Restarted(pg) == Connected(Stopped(pg))

-----------------------------------------------------------------------------
\* What the page is owed.

\* A load is still to come, and will read whatever there is.
Due(pg) == pg.timer \/ pg.load.at = "asked"

\* A step that leaves the page behind: something changes and its stream is not
\* told, an EventSource is closed on signals it has not handled, a load fails.
Gap ==
  \/ /\ Version' # Version
     /\ ~(page.source \in Streams
            /\ stream'[page.source].queued > stream[page.source].queued)
  \/ /\ page.source \in Streams /\ page'.source # page.source
     /\ stream[page.source].queued > 0
  \/ /\ page.load.at # "none" /\ page'.load.at = "none"
     /\ page'.shown # IF page.load.at = "read" THEN page.load.version ELSE Version

Witness == missed' = (page'.status # "away" /\ ~Due(page') /\ (missed \/ Gap))

-----------------------------------------------------------------------------
\* The server: a switch from whatever page, its swap, and the files.

\* Bound: the console is not shut down while the page is loading or about to.
Supervise ==
  /\ SupNext
  /\ loop = "serving" /\ loop' = "load" => page.load = NoLoad /\ ~page.timer
  /\ UNCHANGED <<stream, writes, page>>
  /\ Witness

Watching == {w \in running : rooted[w] = Selected}

\* A file of the selected project changes; a watcher of it, if there is one, tells.
Write ==
  /\ writes < MaxWrites
  /\ Selected # NoRoot
  /\ writes' = writes + 1
  /\ \/ Watching = {} /\ UNCHANGED <<supVars, stream>>
     \/ \E w \in Watching : Change(w)
  /\ UNCHANGED page
  /\ Witness

\* One of the project just left, whose watcher still runs.
Stray ==
  /\ \E w \in running \ Watching : Change(w)
  /\ UNCHANGED <<writes, page>>
  /\ Witness

-----------------------------------------------------------------------------
\* The live store.

\* After what the server does; alone, it does nothing.
Paged(pg) == page' = pg /\ UNCHANGED writes /\ Witness
Alone(pg) ==
  /\ UNCHANGED supVars
  /\ stream' = [s \in Streams |-> IF page.source = s /\ pg.source # s THEN Closed ELSE stream[s]]
  /\ Paged(pg)

\* The first load, and onMount's start().
Visit ==
  /\ page.status = "away"
  /\ Alone(Connected([Away EXCEPT !.shown = Version, !.seen = Selected]))

\* The page goes: stop(), and the coalescer is cancelled.
Close ==
  /\ page.status # "away"
  /\ Alone(Away)

\* onopen
Accepted(s) ==
  /\ page.source = Dialing
  /\ Connect(s)
  /\ Paged([page EXCEPT !.status = "live", !.source = s])

\* onerror: the source is dropped and the store's own back-off takes over.
Failed(pg) == [pg EXCEPT !.source = NoSource, !.status = "disconnected", !.redial = TRUE]
Breaks ==
  /\ page.source \in Streams
  /\ Alone(Failed(page))
Refused ==
  /\ page.source = Dialing /\ loop # "serving"
  /\ Alone(Failed(page))

\* The reconnect timer.
Redial ==
  /\ page.redial
  /\ Alone(Connected([page EXCEPT !.redial = FALSE]))

\* Mutant of Signal: the coalescer's cancel undoes the delay it was to restart.
SignalCancels(s) ==
  /\ Deliver(s)
  /\ Paged(IF page.source = s THEN [page EXCEPT !.timer = ~@] ELSE page)

\* A change frame: one more bump, which starts the coalescer's delay anew.  A
\* frame to an EventSource that was closed is not heard.
Signal(s) ==
  /\ Deliver(s)
  /\ Paged(IF page.source = s THEN [page EXCEPT !.timer = TRUE] ELSE page)

\* The stream ends, and the stale frame is answered with a connection at once;
\* what is shown is not loaded again, nor on the ready frame that follows.
Ended(s) ==
  /\ TickStale(s)
  /\ Paged(IF page.source = s
           THEN Connected([page EXCEPT !.source = NoSource, !.redial = FALSE])
           ELSE page)

Subscribes(s) == Subscribe(s) /\ Paged(page)

-----------------------------------------------------------------------------
\* The layout.

\* The coalescer's delay is over: invalidateAll.  A load under way is superseded.
Refresh ==
  /\ page.timer
  /\ Alone([page EXCEPT !.timer = FALSE, !.load = Asked])

\* The Reload button, or the page's own switch once its PUT was answered.
Reload ==
  /\ page.status # "away"
  /\ Alone([page EXCEPT !.load = Asked])

Read ==
  /\ page.load.at = "asked"
  /\ Alone([page EXCEPT !.load = [at |-> "read", version |-> Version, root |-> Selected]])

\* The load is shown, and a selection other than the last one seen restarts the
\* stream.  The registry may be unreadable, which reads as no selection.
Show ==
  /\ page.load.at = "read"
  /\ \E selectedId \in {page.load.root, NoRoot} :
       LET shown == [page EXCEPT !.load = NoLoad, !.shown = page.load.version,
                                 !.seen = selectedId]
       IN Alone(IF selectedId \notin {NoRoot, page.seen} THEN Restarted(shown) ELSE shown)

\* The error boundary is shown instead; nothing tries again.
LoadFails ==
  /\ page.load.at # "none"
  /\ Alone([page EXCEPT !.load = NoLoad])

-----------------------------------------------------------------------------
Store == Breaks \/ Refused \/ Redial
\* Bound: the layout and the files are followed while the console serves.
Layout == loop = "serving" /\ (Visit \/ Close \/ Refresh \/ Reload \/ Read \/ Show \/ LoadFails)
Files == loop = "serving" /\ (Write \/ Stray)
StreamStep(s) == Accepted(s) \/ Subscribes(s) \/ Signal(s) \/ Ended(s)

Next == Supervise \/ Files \/ Store \/ Layout \/ \E s \in Streams : StreamStep(s)

Spec == Init /\ [][Next]_vars

\* The loop runs ready tasks, timers come due (changes pause for longer than the
\* coalescer's delay from time to time), a server that serves is reached and
\* answers.  Nobody has to switch, to change a file, to stay or to reload.
Fairness ==
  /\ \A t \in Tasks : WF_vars(loop = "serving" /\ SwapStep(t) /\ Supervise)
  /\ WF_vars(\E s \in Streams : StreamStep(s))
  /\ WF_vars(Redial) /\ WF_vars(Refresh) /\ WF_vars(Read) /\ SF_vars(Show)

FairSpec == Spec /\ Fairness

(***************************************************************************)
(* Properties                                                              *)
(***************************************************************************)
Loads == [at : {"none", "asked", "read"}, version : 0 .. MaxMoves + MaxWrites, root : Targets]
\* Type invariant.
TypeOK ==
  /\ StreamTypeOK
  /\ writes \in 0 .. MaxWrites
  /\ page \in [status : {"away", "connecting", "live", "disconnected"},
               source : Streams \cup {NoSource, Dialing}, redial : BOOLEAN, timer : BOOLEAN,
               load : Loads, shown : 0 .. MaxMoves + MaxWrites, seen : Targets,
               leaked : BOOLEAN]
  /\ missed \in BOOLEAN

\* The page never lets go of an EventSource that is still open, whatever order
\* errors, stale frames, timers and restarts come in; and the pill says what the
\* connection is (live.ts: "start / stop own the EventSource lifecycle").
OneEventSource ==
  /\ ~page.leaked
  /\ page.status = "live" <=> page.source \in Streams
  /\ page.redial => page.source = NoSource

\* A page left behind by a switch does not stay there: its stream ends, and the
\* next one is on the live watcher.  It needs the outgoing watcher to fall
\* silent, since a stream that keeps receiving never looks at the generation.
LeftBehindCatchesUp ==
  \A s \in Streams :
    (page.source = s /\ stream[s].gen # generation)
      ~> \/ /\ page.source \in Streams
            /\ stream[page.source].gen = generation
            /\ stream[page.source].watcher = current
         \/ page.status = "away"
         \/ loop # "serving"

\* What the page was told of it shows, however switches, errors, refreshes under
\* way and later changes interleave: it is behind for good only by what happened
\* while no subscription of its was registered, by signals that died with a
\* connection, or by a load that failed.
PageCatchesUp ==
  (page.status # "away" /\ ~missed)
    ~> (page.shown = Version \/ missed \/ page.status = "away" \/ loop # "serving")

\* "An open page auto-refreshes ... no manual reload needed" (docs/usage.md):
\* false, a stream that ended and came back says nothing of the time between.
PageAutoRefreshes ==
  page.status # "away"
    ~> (page.shown = Version \/ page.status = "away" \/ loop # "serving")
=============================================================================
