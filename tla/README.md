# Factory Console, formally

A TLA+ development of the Factory Console (`src/server/factory_console`, with the parts
of `src/frontend` that take part in its protocols): models of its stateful core, TLC
runs that check them on small instances, and TLAPS proofs for every instance.

Paths without a prefix are under `src/server/factory_console/`.

## 1. The system

The console is one process: a FastAPI application on one uvicorn worker, hence one
asyncio event loop. Handlers run on the loop and hand blocking work to worker threads
(`anyio.to_thread.run_sync`), so a handler is a sequence of steps with other handlers
in between. Beside it are a watchdog observer thread, browsers with an event
stream each, possibly a second console process on the same registry database, and the
App Factory, an external process that moves tickets through their run states.

| component | state | operations | with whom |
|---|---|---|---|
| watcher supervisor (`services/watcher_supervisor.py`, hook in `app.py`) | live watcher, its root, a generation, `started`; the `swapping` lock | start, stop, retarget_release (thread), retarget_rebuild (loop) | called by the selection's hook and the lifespan; read by the event streams |
| live update streams (`api/v1/events.py`, `services/events_service.py`, `file_adapter/watcher.py`) | per stream: captured watcher and generation, a queue | connect, subscribe, fan-out, heartbeat, stale end | supervisor, browser `live.ts` |
| project selection (`services/project_selection.py`, `api/v1/projects.py`, `api/deps.py`) | in-memory selection, pinned root, `selection_lock` | resolve, select, add, remove | registry; calls the retarget hook |
| project registry (`store/sqlite_registry.py`) | project rows, one selected id | add, remove, get, get/set selected | SQLite, shared by processes |
| registry schema (`store/schema.py`, `location.py`) | schema version | make the directory, connect, migrate | SQLite |
| application wiring (`app.py`, `cli.py`) | the singletons | create_app, lifespan, boot | all |
| ticket writes (`api/v1/tickets_write.py`, `services/write_service.py`, `file_adapter/real_writer.py`, `write_gate.py`, `atomic_write.py`) | `write_lock`; tickets.json, content files, ROADMAP.md | create, edit, delete, dry run | run state (read), renderers |
| rendering of a write (`file_adapter/write_render.py`) | none | render_create, render_edit, render_delete | ticket writes |
| file watcher (`file_adapter/watcher_real.py`) | observer, debounce timers, `_stopped` latch | start, stop, dispatch, coalesce, flush, late scheduling | supervisor, streams |
| run-state resolution (`file_adapter/run_state.py`) | none (reads the factory's files) | probe, precedence, degradations | gate, ticket reads |
| runs, ledger and spend (`file_adapter/bounded_read.py`, `ledger.py`, `runs.py`, `domain/spend_calc.py`) | none (reads files the factory writes) | probe, bounded read, parse, aggregate | HTTP routes |
| project loading, roadmap, graph, search | none | pure reads | HTTP routes |
| browser page (`src/frontend`: `live.ts`, `coalesce.ts`, `+layout.svelte`, `+layout.ts`) | the EventSource held, two timers, the load under way, what is shown | start, stop, restart, reconnect, refresh, reload | HTTP and event streams |

What is hard in it, in one line each (the full list, with lines, is `hazards` in
`PROJECT.json`):

* a project switch stops one watcher on a thread and builds the next on the loop, while
  other switches and the shutdown overlap with it;
* a switch writes the store on a thread and the session on the loop; a removal reads,
  removes and clears in three steps, under a lock only for the last;
* a stream captures a watcher once, and must notice that it was replaced;
* a ticket write changes three files one after another, against failures and crashes,
  and is gated on a state another process owns;
* that state is read one file system call at a time from directories in which the factory
  renames markers, any of which may be unreadable;
* console processes of different builds open, migrate and use one database;
* the ledger and the artefacts of a run are read while they are written;
* the page's timers, errors, stale frames, loads and restarts come in any order.

What makes each component correct:

* supervisor: at most one observer; nothing runs after shutdown; the last switch wins;
  every switch ends;
* streams: an equal generation means the live watcher; a stale stream ends;
* selection: the store names a real row; session and store agree at rest; a read is
  served a project that was selected while it was open;
* ticket writes: a request takes effect on its own ticket, once, or not at all; index,
  documents and roadmap agree; failures leave the files behind the index and never ahead;
* file watcher: changes are reported; a stopped watcher is spent; a directory is scheduled once;
* run state: what is granted was granted by the disk; less to read never grants more;
* registry: a call takes effect in one step or not at all; a version stands for its tables;
  a newer database is not touched; every call returns;
* spend and runs: what an answer claims was true of the file at some moment of the request;
* page: one EventSource; what the page was told of, it shows.

## 2. Modules

```
SingleWatcher  <== implements ==  WatcherSupervisor  <-- WatcherSupervisorProofs
                                      ^        ^                    ^         ^
                          EXTENDS     |        |  INSTANCE Sup      |         | INSTANCE SP
            LivePage --> LiveUpdates--+        +-- Console -- EXTENDS --> Selection
               ^                                      ^             |         :
         LivePageProofs -- EXTENDS -------------------|-------------+         :
                                                ConsoleProofs                 : a call of the
                                            (Selection and Console)           : store, one step
Registry       <== implements ==  SqliteStore  <-- SqliteStoreProofs  . . . . :
AtomicTickets  <== implements ==  TicketWrite  <-- TicketWriteProofs
                                      :
                                      : a read of the run state, one step
RunState  <-- RunStateRead  <-- RunStateProofs
SpendCalc  <-- FactoryFiles  <-- FactoryReads  <-- FactoryReadsProofs
FileWatcher  <-- FileWatcherProofs
              (what SingleWatcher and WatcherSupervisor count as one watcher)
```

* **SingleWatcher** (abstract). One observer, or none, on one root: it begins, it ends,
  and the console closes. Two never overlap and nothing begins after the close.
* **WatcherSupervisor**. `current`, `root`, `generation`, `started` are the attributes of
  the class; `running` is the set of observers with a live thread. Each task of the
  retarget hook is a number in `1..MaxMoves` with a place `swap[t].at`; `swapping` is
  the `asyncio.Lock` of `_watcher_retarget_hook`, which is fair, so `Acquire` takes the
  oldest waiter. `retarget_release` runs on a worker thread, so each attribute access is
  a step (`ReleaseGuard`, `ReleaseClaim`, `ReleaseLoad`, `ReleaseDrop`, `ReleaseJoin`).
  The lifespan's `stop()` occupies the loop, so no loop step runs during it, but a
  release on a thread does; hence `StopLatch`, `StopLoad`, `StopDrop`, `StopJoin`.
  `Rebuild` is one loop step, `RebuildWatcherless` a failed or impossible build.
* **LiveUpdates** adds the event streams, as actions and no specification of its own: what
  a stream captured, where it is and how much is queued for it. Terminal and heartbeat
  frames are places, not texts.
* **LivePage** composes the streams with one browser page. `page` is the state of
  `live.ts` (`status`, the EventSource held in `source`, the back-off timer in `redial`),
  of the coalescer (`timer`), and of the layout (`load`, `shown`, `seen`). What the loads
  would answer is a version, which grows with each change of a file of the selected
  project and with each switch; a load has the version of its first request. Frames on the
  wire are counted with those in the stream's queue and die with the EventSource, and a
  dropped EventSource closes its server stream in the same step (`Alone`). The page's own
  switch is a switch followed by `Reload`, which is what the switcher does once its PUT
  was answered; any switch may also come from another tab. `missed` is a history variable:
  the page is behind, and nothing on its way will tell it (`Gap` names the causes).
* **Selection**. `rows`, `home`, `selected` are the registry; `session` is
  `_session_selection`; `lock` is `selection_lock`; `req` holds, for each request, its
  place in the handler and what it has read. Every store access is one step, as is one
  SQLite transaction, which is what the refinement of Registry by SqliteStore justifies.
  `seen` is a history variable: what was selected while a GET was open, that is every value
  of the session and, once the session named nothing, every value of the store; `raced`
  is another: a removal overlapped another request, had its second store access fail, or
  was the other console's. `OtherSelects` and `OtherRemoves` are a second console,
  `Restart` is a new process, `StoreFails` an sqlite3 error.
* **Console** composes the two as `create_app` does: applying a selection and calling the
  hook is one loop step (`Switch`).
* **AtomicTickets** (abstract). A request takes effect on `tickets.json` in one step on
  its own ticket, or changes nothing. "Already exists" and "not found" are only answered
  when true.
* **TicketWrite**. `manifest`, `json`, `md`, `roadmap` are the files; a revision stands
  for what a draft or edit carries (entry, document, roadmap label); `SectionOf` gives
  the roadmap section of a revision's milestone, 0 when it has none. `holder` and `queue`
  are `write_lock`. A request waits, is checked (`WriteService`), gated
  (`write_gate`), rendered (`write_render`, which reads the manifest again), and writes
  manifest, content and roadmap as three steps (`apply_changes`). `Fail` may strike at
  every step, `Crash` at any time. A read of the manifest, or of the document an edit
  rebuilds, that fails refuses the request; one of the roadmap does not:
  `_read_text_or_none` swallows the error, and the write goes on without its line
  (`RenderBlind`). `torn` and `astray` are history
  variables: the applies a failure cut between two files, and those together with the edits
  and deletes that could not read the roadmap. `tracked` is the factory's, which may move it
  at any time: its states are told apart by what the gates make of them only: allowed to both
  ("todo", also for unknown), to delete ("absent"), to neither ("held"). `was` is a history
  variable: the states of the ticket being written since its request took the lock. The
  gate's read is one step here; RunStateRead has it call by call.
* **FileWatcher**. Three threads. The observer thread takes `raw` events, schedules
  directories that appear late, and posts the rest to the loop; `posting` is its event
  between the check of `_stopped` and the post. The loop runs the posted callbacks
  (`ready`, in order) and due timers; `doing` is a callback between its check of
  `_stopped` and what follows, because a worker thread may latch in between. `stop()`
  latches, joins the observer, and either cleans up (on the loop) or posts the clean-up
  (off it). The order of the queue is what makes a stopped watcher spent when the
  awaiting switch resumes: every change posted by the observer is ahead of the clean-up,
  which is ahead of the resumption. `late` shows what the latch in `_flush` alone gives:
  at most one event after `stop()` returned, from a flush already past its check.
  `.factory` is one of the directories, so that it too may be missing at `start()`, which
  then places no watch on it and never will: directory events are heard only under that
  watch (`Heard`), and changes only under a watch (`Seen`).
  watchdog is external: a watch ends with its directory, scheduling a directory that is
  gone raises on the observer thread and ends it, and scheduling again is counted.
* **RunState** is the resolution as a function of the disk. A disk is what the factory
  wrote (run-state.json, two run-state directories with their state directories and
  markers) and what may be done with each node: `can` is a subset of stat, search, list,
  read, and an error is a call that `can` does not allow. There is an operator for each
  file system call, answering yes, no or error, and the resolution is built from those:
  which source is found, what run-state.json says (missing, unparseable, unreadable,
  naming the ticket under a status nobody knows), foreign state directories, the walk in
  precedence order, "absent" against "unknown" against "unreadable". `Granted` is the two
  write gates. `Degraded` orders disks by how much of them can be read.
* **RunStateRead** takes the same calls one at a time, in the two forms the code has:
  `run_state_resolver`, which settles the source once and then answers for many ids, and
  `probe_ticket_state`, which answers for one and counts markers last. Between two calls
  the factory moves a marker, removes or makes a run-state directory, rewrites
  run-state.json, or a permission goes. `truth` is a history variable: for each id, every
  answer an instant of the disk would have given since the read began; `kept` says that no
  permission went meanwhile, `stirred` whose own markers moved.
* **Registry** (abstract). Every call takes effect in one step between its start and its
  answer, and is told the truth of that step; or it is refused and changes nothing.
* **SqliteStore**. Each call opens a connection, makes the directory (`EnsureStoreDir`),
  checks the version, migrates under `BEGIN IMMEDIATE` with the check made again under the
  lock, one migration and one version at a time, and then runs its statements. `db` is
  what is committed, `work` what the open transaction sees, `writer` who holds the write
  lock. `Knows` is what each build knows: an old one meets a database a new one made.
  `Fail` is a statement that fails, with or without the rollback SQLite makes by itself;
  `TimeOut` the busy timeout; `Crash` ends all calls of a process.
* **SpendCalc** is the arithmetic: lines, the verdict on each, entries, skips and
  omissions, and the three cuts of the bill (`aggregate`). A document is a name with a
  kind, a cost, a level, the tickets it bills and its models; it is written in two parts,
  so that a reader can meet half of one. `InOrder` is a set in order, each element at its
  rank: the lines of a text, and the rows of a cut, dearest first. Sums are
  `MapThenSumSet`s over the places that are billed. Costs are integers, and may be
  negative, as the ledger's reader does not refuse that. Sums are exact: the code sums with
  `math.fsum` and rounds each row and the total once, to 8 places. `domain/spend.py:28-34`
  says that this loses no figure of a model and only the noise of a lane's, so a cost stands
  for what it rounds to; floating point, and its overflow, are left out.
* **FactoryFiles** is a file the factory creates, appends to, replaces, removes or locks
  away while `read_bounded` has it: open, stat against the cap, read one unit over the cap.
  An open descriptor keeps its node. `seen` is a history variable: the file's nodes since
  the reader first looked.
* **FactoryReads** is `GET spend`, asked up to twice, and `GET runs`, on top of them. The
  parts of two documents never make a third: a file cut in the middle of a rewrite does not
  parse. That an artefact lies inside the project is settled once for each artefact;
  a containment check that fails at one call and not at the next is left out.

`MC*` modules give TLC the instances; `map` in `PROJECT.json` names the code lines every
definition stands for. Definitions whose comment begins with "Mutant" are wrong variants
of the definition they precede. They are in no specification; they are substituted, one
at a time, to show that each property can fail.

## 3. Runs

| run | instance | shows |
|---|---|---|
| live_updates | 2 roots, 2 switches, a shutdown, 1 page on a stream with a queue of 1, 2 file changes; no watcher at boot, a factory that may fail | `OneWatcherAtMost`, `NoOrphan`, implements SingleWatcher; `FreshMeansLive`, `OneEventSource`, `LeftBehindCatchesUp`, `PageCatchesUp` |
| selection_races | 2 requests at a time, 7 in all, failures, a second console, a restart | `ServedWasSelected`, `PutAnswersItsOwn`, `MatchesUnlessRaced` |
| console | 1 row beside the pinned root, 2 requests, 4 in all, 3 switches, a watcher at boot | `WatcherFollowsSelection`, `SelectionIsReached` |
| ticket_writes | 2 writers, 2 tickets (one may be Markdown), 2 sections, dry runs, 1 fault (a failure, a crash or an unreadable roadmap), a factory that moves at any time | `FilesCoupled`, `RoadmapCoupled`, `WritesWereMutable`, implements AtomicTickets |
| ticket_tears | 2 writers of the one ticket, 2 faults, fairness | `FilesFollowManifest` over double failures; `RequestsFinish` |
| file_watcher | `.factory`, there or not, one artefact directory, 3 changes, 2 directories made or removed, stop on either thread | `ResumedIsQuiet`, `LateAtMostOne`, `ArtefactDirsWatched`, `ChangesReported` |
| run_state | 2 ids, one with a leading dot, 1 foreign state, both forms, 30 disks, 1 permission lost, 2 steps of the factory, 2 ids asked of a resolver | `QuietReadIsSnapshot`, `GrantsAreTrue`, `NeverMorePermissive` |
| sqlite_store | 2 processes, builds that know 1 and 2 of 3 migrations, 3 calls, 1 failing statement, crashes, a database of any age or none | `VersionTellsTables`, `NoRawError`, `NewerIsUntouched`, `CallsReturn`, implements Registry |
| factory_reads | a ledger of up to 3 lines that is appended to, removed or locked away, 2 artefacts that are rewritten in place or replaced, an id that is no path segment, a cap of 7 units, 4 changes, 1 failing call, 2 requests | `ClaimsAreTrue`, `QuietReadIsExact`, `ReportIsExact`, `BillNeverShrinks` |
| absent_while_listed | as run_state, no permission lost, 1 step of the factory | violation, below |
| unwatched_ledger | as file_watcher, with the ledger's directory | violation, below |
| remove_races_switch | as selection_races, with no failure and one console | violation, below |

Four properties are conjunctions of parts that answer one question each, named in the
modules. `GrantsAreTrue`: a read of which no marker moved grants only what an instant of
the disk granted, whatever permissions go (`GrantUnlessMoved`); while permissions stay, so
does a read of a ticket whose own marker did not move, whatever others did (`HeldStaysHeld`,
for deletes); and a ticket with a marker in any state but todo is granted nothing while
that marker stays, whatever else happens (`MarkerProtects`). `ClaimsAreTrue`: a missing
ledger (`NoLedgerIsTrue`), a measured bill (`BillIsOfOneState`), an unread one
(`UnreadHasACause`) and the record of an artefact (`RecordIsTrue`) each were true of one
state of the file. `ReportIsExact`: every line is accounted for, the cuts agree, and the
order of the lines does not matter. `BillNeverShrinks` speaks of entries and, where no
entry has a negative cost, of money. `ArtefactDirsWatched`: while `.factory` is under watch
the artefact directories that are there are watched, and each was scheduled once, with or
without it. `GrantsAreTrue` is silent of two things: an edit granted while other markers
move, beyond what it shares with a delete, and permissions that go in a read whose
markers move, but for a marker that stays.

Why the bounds are enough. Two switches let one overlap the other and let a page see "away
and back" (the same-root guard); console has three, the least with which one is waiting, one
is half done and one is finished, and the proofs cover any number. Two file changes put one
in a load under way and one after it. Two requests make every pair of handlers race, and 7
in all let a project be added, selected, removed and another take its place while a GET is
between its reads of the session and of the store. Two changes under the watches
let one be handled while the next re-arms its timer; two directory moves remove a directory and create it again, or make
`.factory` and the results in it. For the ticket path two writers make every pair of
operations race, two ids show damage to a neighbour, two sections show a move, and two
faults show a failure on top of a failure; an unreadable roadmap counts as one. Two steps of
the factory move a marker and move it on, or remove the source and bring it back; two ids
asked of one resolver are answered from one listing. Three calls are one that migrates, one
that waits and one of another build; the third migration is one nobody knows. Four changes
of a file are enough to write two documents in parts, and the cap of 7 lies within the
lengths the ledger takes, so that files under, at and over it occur. Numbers that grow
(`built`, `generation`, `issued`, `faults`) are bounded by `MaxMoves`, `MaxRequests`,
`MaxFaults`, `MaxRestarts`, `MaxQueued`, `MaxChanges`, `MaxWrites`, `MaxAsks`, `MaxLost`,
`MaxUnits`, `Top`. LivePage has two bounds in its guards besides: the page loads and files
change only while the console serves, and the console is not shut down while the page is
loading or about to. Runs of components that may stop (the console shut down, the last
request issued) say `CHECK_DEADLOCK FALSE`; TicketWrite never stops and is checked for
deadlock.

Symmetry is used for requests and registry ids, never in a run that checks a liveness
property. The two ways `create_app` may wire the supervisor are both run (a watcher at
boot in console, a factory only in live_updates); the proofs cover these and the console
without either.

Fairness. A loop step that is ready is run, and a worker thread returns: weak fairness of
every handler's and every swap task's steps, only while the loop serves. Timers fire, a
server that serves is reached and answers, and a call of the store is made, or its
timeout expires. One assumption is strong fairness: LivePage's `Show`, because a load
under way is superseded by the next refresh. It says that changes pause for longer than the
coalescer's delay and a load from time to time; without such a pause a page refreshes
for ever and shows nothing, by the design of the coalescer. Nothing makes a client send a
request, an operator switch, a file change, a write fail, the factory move or a process
die. `LeftBehindCatchesUp` needs that the outgoing watcher falls silent, which its
stopped observer gives: a stream that keeps receiving never looks at the generation.

### Disagreements between the code and what it says

Three are runs that end in a counterexample; `findings` quotes the lines.

* `absent_while_listed`: markers are looked for in one directory after another. One that
  the factory renames, between two looks, from a directory still to come into one already
  passed is in neither, and the ticket is "absent", which licenses a delete.
  `GrantsAreTrue` is what holds instead. It is no stronger, because another ticket's marker
  that moves and a permission that goes add up to the same: a listing that fails before
  the move and a lookup that fails after it each refuse, and the read saw neither.
* `remove_races_switch`: a removal decides "was it selected?" before it takes
  `selection_lock`. A switch to the row that runs in between leaves the session on a row
  that is gone. `MatchesUnlessRaced` is what holds instead.
* `unwatched_ledger`: a directory of kind "dir" that appears after `start()` is scheduled
  late; `.factory/metrics`, watched as the parent of the ledger, is not.

The others were established in the same way, by a definition that TLC refutes. Where the
definition is kept, it is in its module with a comment that says it is false.

* The clear of a removal does not look again at what is selected and wipes a selection
  made in between (`Selection.ClearsOnlyTheRemoved`; `api/v1/projects.py:873` against
  `:844-846`).
* The run state is read once, before the render; the factory may claim the ticket before
  the manifest is swapped, and a held ticket is then written (`TicketWrite.WritesOnlyMutable`;
  `file_adapter/real_writer.py:166` against `write_gate.py:3-4`). `WritesWereMutable` is
  what holds, with a factory that moves at any time: the state allowed the write at some
  moment since the request took the lock, whatever was true of it while the request waited.
* Where there is no `.factory` at `start()`, no watch is placed that could tell of it, so the
  results and receipts that come with it are not watched either, until the next project
  switch or restart (`FileWatcher.WatchedWhateverWasThere`; `file_adapter/watcher_real.py:403`
  against `:185-196`, where the late scheduling is said to be for a fresh clone).
  `ArtefactDirsWatched` is what holds. `ChangesReported`, and the files that change
  under LivePage, are likewise about changes under a watch.
* After a delete that failed before its roadmap write, the id created again has two lines,
  and an applied delete removes one of them (`TicketWrite.DeleteLeavesNothing`;
  `write_render.py:615` against `:766-768`). A delete that could not read the roadmap
  leaves the same, and is answered as applied (`write_render.py:634`); an edit that could
  not leaves the old line. `astray` is how `RoadmapCoupled` excludes exactly these: an id
  keeps `<<id, "delete">>` for ever, while a create or edit is put right by the next
  complete write that reads the roadmap.
* An add that another process's row refuses may be told that its own, fresh id is taken:
  the row that held the path is gone by the time it is asked for
  (`SqliteStore.ConflictIsNamed`; `store/sqlite_registry.py:331-336`).
* A build may write a database that became newer than itself between its check of the
  version and the call (`SqliteStore.WritesWhatItKnows`; `store/schema.py:189-204`
  against `:27-31`).
* An open page is behind until the next change or reload when a change falls between the end
  of one stream and the subscription of the next, since the client ignores the handshake
  on purpose (`LivePage.PageAutoRefreshes`; `live.ts:124-127` against
  `docs/usage.md:433-437`). A selection changed in another tab is such a change.
  `PageCatchesUp` is what holds instead.

## 4. Proofs

Every theorem is of a specification with its constants left open, within the named
assumptions on them; the bounds of the runs (`MaxMoves`, `MaxFaults` ...) are constants like
the others, so the theorems hold for every value of them. Each module below has one
inductive invariant, `IInv` unless named otherwise, and a lemma for each step of it: the
properties of the runs are seldom inductive by themselves.

`WatcherSupervisorProofs`, for every set of roots, wiring and number of switches, from
`RootAssumption`, `WiringAssumption` and `MovesAssumption`:

| theorem | states |
|---|---|
| TypeCorrect | `[]SupTypeOK` |
| AtMostOneWatcher | `[]OneWatcherAtMost` |
| NothingOrphaned | `[]NoOrphan` |
| LiveWatcherOnTarget | `[]WatcherOnTarget` |
| LastSelectionWins | `[]LastMoveWins` |
| Refinement | `SupSpec => ImplementsSingleWatcher` |

`IInv` adds: the lock is held exactly by the task between release and rebuild
(`LockInv`); tasks are served in the order they were made, and the generation and the
number of watchers built count at most one each (`OrderInv`, which also gives the numeric
bounds of the type invariant); `started` is the serving window (`WindowInv`); nothing
older than the newest watcher runs, and a slot emptied by a swap or the shutdown stays
empty until that swap's own rebuild (`SlotInv`, the heart of "no orphan"); past its claim
a swap's target is the supervisor's (`ClaimInv`); whatever was made before a served task
is done (`FifoInv`), so the target is that of the last one served (`LatestInv`). There is
one lemma for each conjunct, with one step for each action in it. The refinement
(`StepMaps`) maps the abstract watcher to the observers in `running` and needs `IInv` to
see that a rebuild begins when nothing runs. No run checks `WatcherOnTarget` and
`LastMoveWins` by themselves any more: the run console checks what they are for,
`WatcherFollowsSelection`.

`LivePageProofs`, for every number of streams, switches, changes and queue lengths, from
the supervisor's assumptions, `QueueAssumption`, `WritesAssumption` and `SourceAssumption`
(no stream is called as the two marks of an EventSource that has none):

| theorem | states |
|---|---|
| SupervisorUndisturbed | `Spec => SupSpec` |
| OneWatcherUnderPages, NoOrphanUnderPages, SingleWatcherUnderPages | `OneWatcherAtMost`, `NoOrphan`, `ImplementsSingleWatcher` of `Spec` |
| FreshIsLive | `[]FreshMeansLive` |
| NoSourceLeaks | `[]OneEventSource` |
| LivePageTypes | `[]TypeOK` |
| NothingIsForgotten | `[]NothingForgotten` |

Streams and page only read the supervisor, so its theorems carry over as they are.
`StreamInv` is `FreshMeansLive` and what keeps it: a stream's generation is never ahead of
the supervisor's, and none is open before the console serves; it is inductive together
with the supervisor's `IInv`, because the one step that could give a stream a watcher
that is not live, its capture, reads both in one loop step. `Sound` relates the status of
the page, its EventSource and its back-off timer. `NothingForgotten` is the safety half of
`PageCatchesUp`: a page that is behind, and has missed nothing for good, has a refresh
due, a signal in its stream's queue, or a load under way that read the newest version. It
is inductive with `PageInv`, and says that only fairness is needed to catch up; that it
does so is left to TLC.

`ConsoleProofs`, of the selection (`SelSpec`) and of the console (`Spec`), for every set of
ids and directories and any number of requests, failures, switches and restarts, from
Selection's and Console's assumptions:

| theorem | states |
|---|---|
| TypeCorrect | `SelSpec => []SelTypeOK` |
| LockHeld | `SelSpec => []LockInv` |
| OnlySelectedServed | `SelSpec => []ServedWasSelected` |
| PutsAnswerTheirOwn | `SelSpec => []PutAnswersItsOwn` |
| SessionMatches | `SelSpec => []MatchesUnlessRaced` |
| SelectionUndisturbed | `Spec => SelSpec` |
| SupervisorWired | `Spec => SP!SupSpec` |
| HookFollows | `[]FollowInv` |
| WatcherFollows | `[]WatcherFollowsSelection` |

The selection's `IInv` adds: which requests are at which places (`PlaceInv`); a registered
id has a directory (`HomeInv`); what a GET has read so far was selected while it was open,
and, once it found no session, so is what the store names (`GetInv`); while a PUT resolves
its answer the session is on its argument, because the lock is still its (`PutInv`); and,
while nothing raced, session and store agree or the one request that will bring them
together is under way (`MatchInv`, with what each removal and switch knows in `AgreeInv`).
Each action is first reduced to what it does to one request and to the rest (`Did`,
`Frame`), and each invariant is then preserved by those few forms. The console is tied to
its parts by `Wired`: a step of it is a step or a stutter of the selection, and of the
supervisor, whose proofs are used through the instance `SP`. `FollowInv` links them: the
directory the hook was last called with is that of the session's selection, and a switch
under way has read the directory its id will have for ever (`RootsKept`). With
`LastMoveWins` and `WatcherOnTarget` this gives `WatcherFollowsSelection`.

`TicketWriteProofs`, for every finite set of ids, every set of requests, revisions and
sections, and any number of failures and crashes, from `TicketAssumption`:

| theorem | states |
|---|---|
| TypeCorrect | `[]TypeOK` |
| LockHeld | `[]LockInv` |
| FilesAgree | `[]FilesCoupled` |
| RoadmapAgrees | `[]RoadmapCoupled` |
| IndexLeads | `Spec => FilesFollowManifest` |
| WrittenWereMutable | `Spec => WritesWereMutable` |
| Refinement | `Spec => ImplementsAtomicTickets` |

The files of one ticket are apart while an apply is between two of them, and for ever
after one that was cut off; `FilesCoupled` and `RoadmapCoupled` say only what they are when
nothing is. `IInv` has what they are in between: the lock is held by the one request in
the critical section (`LockInv`), and requests are answered when they are done
(`AnswerInv`), so that a plan made under the lock is of the files as they are until it is
carried out (`PlanInv`); the index and the documents of a ticket agree up to the one write
that comes next (`FilesInv`); and its roadmap lines are in one section, at most one of
them, and out of date only behind an apply that was cut off or could not read the roadmap
(`LinesInv`). `LinesInv` needs what each roadmap operator does to the lines of one id and of
the others, and these are lemmas about sequences. A ticket whose delete was torn, or blind
to the roadmap, is excluded, as in the properties. That
the set of ids is finite is needed for the initial roadmap: a section's lines are a
sequence. `WrittenWereMutable` needs no hypothesis on the factory: past its gate, the
states an edit or delete has seen in `was` include one that allowed it, and `was` is of the
ticket of the request that holds the lock (`WasInv`). The refinement maps the abstract index
to `tickets.json`, whose swap is the instant a request takes effect.

`FileWatcherProofs`, for every set of directories and number of changes and moves, from
`DirAssumption` and `ChangeAssumption`:

| theorem | states |
|---|---|
| TypeCorrect | `[]TypeOK` |
| StoppedIsSpent | `[]ResumedIsQuiet` |
| AtMostOneLate | `[]LateAtMostOne` |
| TimersMatch | `[]PendingIsArmed` |
| LateDirsWatched | `[]ArtefactDirsWatched` |

`IInv` adds where `stop()` is, as seen from each thread (`StopInv`), the shape of the loop's
queue (`QueueInv`: only changes, then the clean-up, then the resumption, and nothing armed
between the last two), and which flush may still come out (`LateInv`). `PostedQueue` is the
fact about sequences the queue steps rest on. For late directories: while `.factory` is
watched, one that is there is either watched or an event is queued that will make the
observer thread look at it, from the survey of `start()` on (`WatchInv`); and what was
scheduled is recorded, so no second event schedules it again (`OnceInv`).

`RunStateProofs`, for every set of ids and finite set of foreign state directories, from
`RunStateAssumption` and `ReadAssumption` (a state directory that is absent holds no marker,
which any disk satisfies):

| theorem | states |
|---|---|
| Monotone | `Degraded(lo, hi)` makes every answer on `lo` that on `hi` or "unreadable" |
| DiskCorrect | `[](disk \in Disk)` |
| GatesFailClosed | `Spec => NeverMorePermissive` |
| ReadsLearn | `[]ReadInv` |
| QuietReads | `[]QuietReadIsSnapshot` |
| GrantsTrue | `[]GrantsAreTrue` |
| ReadTypes | `[]TypeOK` |

The argument for the first three goes up the resolution: each call on the degraded disk
answers the same or "error" (`PresentLess`, `InsideLess`, `NodeLess`, `ListingLess`); each
part made of calls then answers the same or "unreadable" (`JsonWeaker`, `MarkerWeaker`,
`ListsWeaker`, `DirectoryWeaker`); and a source that could not be probed stops the search,
so the degraded disk never falls through to another source (`UnprobedRefuses`). The walk
in precedence order is a least position of a set; `SameLeast` is the fact that makes it
monotone. Losing any permission degrades the disk (`LoseDegrades`), which with the type of
the disk gives the action property.

For the reads, `ReaderOK` says at which call of which form a read is and `FindInv` what
the search for a source passed over. `LearnedInv` is the heart: while no marker moved,
there is one disk of the read's time, of which the disk now is a degradation, such that
everything a call was told is what that disk says, or a failure that came with a lost
permission. At the end of a walk the answer is therefore that disk's or "unreadable",
which is `GrantUnlessMoved`; with no permission lost it is that of the disk itself, which is
`QuietReadIsSnapshot`. With other markers moving there is no such disk. `ProtInv` then says
what a marker that stays guarantees at each place of the walk: the listing named its
directory, and the lookups passed so far did not look in it (`MarkerProtects`). `HeldInv`
has, for each id whose marker stayed, a disk of the read's time that agrees with it on that
id alone (`HeldStaysHeld`), as long as no permission goes. No recursion and no induction is
needed: the positions are four.

`SqliteStoreProofs`, for every set of processes, builds, calls, ids and paths, from
`StoreAssumption`:

| theorem | states |
|---|---|
| TypeCorrect | `[]TypeOK` |
| VersionIsTrue | `[]VersionTellsTables` |
| OnlyPromisedErrors | `[]NoRawError` |
| SelectionStands | `[]SelectionNamesARow` |
| NewerUntouched | `Spec => NewerIsUntouched` |
| Refinement | `Spec => ImplementsRegistry` |

`IInv` adds: the write lock is held by the connection whose transaction is open, and
what is under way differs from what is committed only by its holder's work (`LockInv`);
a connection in a migration knows which of its tables are there (`MigrationInv`); one that
selects has seen the row in its own transaction (`SelectInv`); a call has an answer
exactly when it is done (`CallInv`); and past the check no call is of a build older than
the database was when it was made (`BornInv`). There is a lemma for each action, with the
same named facts in each. The refinement maps `rows` and `selected` to the committed
database, and each commit, single statement or read to the abstract call.

`FactoryReadsProofs`, for every manifest, set of documents, cap and number of changes,
failing calls and requests, from `CalcAssumption`, `FilesAssumption` and `ReadsAssumption`:

| theorem | states |
|---|---|
| TypeCorrect | `[]TypeOK` |
| QuietExact | `[]QuietReadIsExact` |
| ClaimsTrue | `[]ClaimsAreTrue` |
| BillsOneState | `[]BilledOneState` |
| ReportExact | `[]ReportIsExact` |
| BillGrows | `[]BillNeverShrinks` |
| SameEntries | `Aggregate` of the same entries in another order is the same report |

The hard case is a file that is written while it is read in parts. Of the ledger, what has
been read is always how its text begins, because the factory only appends to it, also when
the descriptor has lost its name (`GotInv`). Of an artefact it is one text of it, cut at one
unit over the cap, or, of one rewritten in place between two reads, one unit of the old
text and the second part of a new document that was there whole (`Spliced`); such a mixture
is no document unless it is the new one (`SplicedDocument`). `BackInv` is the cause of each
outcome of `read_bounded` in one node of `seen`, `QuietInv` what each place tells of a file
that did not change. `AnswerInv` carries both to the answers, which later changes of the
file cannot take back, since `seen` only grows. `BilledOneState` says of a measured
spend that it is the whole of what `ReadLines` and `Aggregate` make of one state.

`GrowthInv` is what a client that asks twice relies on, and `GrowthInvariance` that it
holds beside `IInv`. A ledger nobody removed, replaced or left half written holds only
documents that are whole or being written (`AppendInv`). The text `g` of a second read
*goes on from* that of the first, `t`: it begins with `t`, and a document `t` ends with is
followed by a newline in `g`. The last part is what "only appended to" alone does not say,
and what the bill needs: a line a reader took for a whole entry may not grow into a longer
one that is none. It holds because the factory writes the newline of a document before
anything else, so what is pending must be in the invariant (`Grown`). `MeasuredInv` and
`BeforeInv` tie the two answers to the two texts.

The rest is about SpendCalc, and holds of any text, entries and costs. The library's
induction theorems cannot be used here, since they take an operator. Induction over a
finite set is done with sets instead: strict inclusion of finite sets is well-founded
(`FS_StrictSubsetOrderingWellFounded`), so a family of finite sets that is not empty has a
smallest member (`SmallestOf`), and so has one of counterexamples. A sum, then, is shown to
be a cardinality: of the points under the weights, less those under the negative ones
(`Total`, `SumOverIs`), and what a sum does under unions, renaming, grouping and growth
are facts about cardinalities (`TotalUnion`, `TotalRenamed`, `TotalByKey`, `TotalGrows`).
`InOrderIs` says that a set in a strict order has each element at one rank; from it come the
lines of a text (`LinesAre`), and that an order of rows is a function of the rows
(`DearestSame`). `FlattenIs` says that the elements of a flattened sequence are those of
its parts, one for one. With these: the entries read are those at `EntriesAt` (`EntriesAre`),
the bill is their sum (`BillOfText`), skips and omissions are the other lines
(`LinesAccounted`), each ticket's row is what names it (`TicketCharge`, `CutsOfText`), a
permutation of the entries gives the same buckets (`SameEntries`), and a text that goes on
has the entries it had (`BillGoesOn`).

Only model-checked:

* `ChangesReported`, `LeftBehindCatchesUp`, `PageCatchesUp`, `SelectionIsReached`,
  `RequestsFinish` and `CallsReturn`: liveness under fairness is outside the prover's reach.
  For the page, `NothingForgotten` is the invariant such a proof would start from.
* The three runs that end in a counterexample.

## 5. Not modelled

Wording, logging, HTTP parsing, the write token's comparison, the string work of path
normalisation, static files and the host check. Search, roadmap, graph and dependencies
are pure functions of files read once: no state, no step in between that a property could be
about beyond what FactoryFiles says of a file. Project loading is modelled only where a
write reads the manifest. Of the spend, dates and durations; of the runs, the routes for
one ticket and the last stop, which read the same way. Hand edits of the project's files
while the console writes, and two consoles writing one project, are outside TicketWrite:
the code relies on being the only writer. In FileWatcher a directory that is removed and
made again is excluded from `ArtefactDirsWatched`, since the code keeps it as scheduled, and
`docs/planning` is there at `start()`; `.factory/run-state`, a subtree that `start()`
schedules as it does `.factory/metrics`, is not told apart from it.
The test doubles mirror modelled code.

## 6. Plan

Done, in this order: WatcherSupervisor with SingleWatcher, LiveUpdates, Selection, Console,
TicketWrite with AtomicTickets, FileWatcher, RunState and RunStateRead, SqliteStore with
Registry, SpendCalc, FactoryFiles and FactoryReads, LivePage; and the proofs of every
safety property the passing runs check. Next:

1. A directory made again in FileWatcher, which `ArtefactDirsWatched` excludes now.
2. A second writer process in TicketWrite, and RunStateRead in place of `tracked`.
3. Proofs: that the version a page shows never goes back while it listens; what bounds the
   work of a refresh.
