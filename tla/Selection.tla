----------------------------- MODULE Selection -----------------------------
(***************************************************************************)
(* "Which project?": services/project_selection.py, the registry rows and  *)
(* the persisted selection behind it (store/sqlite_registry.py), and the   *)
(* handlers that read and move it (api/v1/projects.py, api/deps.py).       *)
(*                                                                         *)
(* Handlers run on the event loop and hand every store access to a worker  *)
(* thread, so a request is a sequence of steps between which the others    *)
(* run.  One SQLite statement, or one BEGIN IMMEDIATE transaction, is one  *)
(* step.  The console was booted on a directory (the CLI always finds one),*)
(* so the session starts on the pinned root.                               *)
(*                                                                         *)
(* A registered id is never minted twice (uuid4): a directory that is      *)
(* removed and added again gets a new one.                                 *)
(***************************************************************************)
EXTENDS Naturals

CONSTANTS
  Ids,           \* ids the registry can mint
  Paths,         \* project directories
  PinnedRoot,    \* the directory of the invocation
  NoPath,        \* None, where a directory is expected
  Session,       \* SESSION_PROJECT_ID
  NoProject,     \* None, where an id is expected
  Requests,      \* requests that can be in flight together
  Ops,           \* the operations clients issue
  MaxRequests,   \* bound: requests issued altogether
  StoreMayFail,  \* store accesses can raise sqlite3.Error
  OtherConsole,  \* a second console process uses the same store
  MaxRestarts    \* bound: times the process dies and boots again

Outcomes == {"ok", "404", "409", "503", "no_selection", "not_registered", "unavailable"}

ASSUME PathAssumption == PinnedRoot \in Paths /\ NoPath \notin Paths
ASSUME OutcomeAssumption == Outcomes \cap (Paths \cup {NoPath}) = {}
ASSUME IdAssumption == Session \notin Ids /\ NoProject \notin Ids /\ Session # NoProject
ASSUME RequestAssumption == NoProject \notin Requests
ASSUME OpsAssumption == Ops \subseteq {"put", "delete", "add", "get"}
ASSUME FlagAssumption == StoreMayFail \in BOOLEAN /\ OtherConsole \in BOOLEAN
ASSUME BoundAssumption == MaxRequests \in Nat /\ MaxRestarts \in Nat

VARIABLES
  rows,       \* ids with a row in the projects table
  home,       \* home[i]: the path of i's row, kept after the row is gone
  selected,   \* console_state.selected_project_id
  session,    \* _session_selection
  lock,       \* the request holding selection_lock, or Free
  req,        \* req[r]: operation, argument, place, and what it has read
  seen,       \* history: seen[r], what was selected while r is in flight (Witness)
  raced,      \* history: what a removal does may have been undone (Witness)
  issued,     \* requests issued
  restarts    \* restarts so far

selVars == <<rows, home, selected, session, lock, req, seen, raced, issued, restarts>>

NoId == NoProject
Free == NoProject
Selectable == Ids \cup {Session, NoProject}

\* "current", "again", "persisted": inside current_id().  "row", "probe": the
\* two reads after it.  "lock", "persist", "apply": a switch.
InSwitch == {"persist", "apply"}
InResolve == {"current", "again", "persisted", "row", "probe"}
Steps == {"idle", "done", "remove", "lock"} \cup InSwitch \cup InResolve

\* How a request was answered.
Answers == Paths \cup {NoPath} \cup Outcomes

IdleRequest == [op |-> "none", arg |-> NoProject, at |-> "idle", id |-> NoProject,
                root |-> NoPath, answer |-> NoPath]

Idle(r) == req[r].at \in {"idle", "done"}
At(r, step) == req[r].at = step

RootOf(id) == IF id = Session THEN PinnedRoot
              ELSE IF id = NoProject THEN NoPath ELSE home[id]

SelInit ==
  /\ rows = {}
  /\ home = [i \in Ids |-> NoPath]
  /\ selected = NoProject
  /\ session = Session
  /\ lock = Free
  /\ req = [r \in Requests |-> IdleRequest]
  /\ seen = [r \in Requests |-> {}]
  /\ raced = FALSE
  /\ issued = 0
  /\ restarts = 0

Goto(r, step) == req' = [req EXCEPT ![r].at = step]

Answer(r, answer) == req' = [req EXCEPT ![r].at = "done", ![r].answer = answer]

Unlock(r) == lock' = (IF lock = r THEN Free ELSE lock)

Issue(r, op, arg, step) ==
  /\ Idle(r)
  /\ op \in Ops
  /\ issued < MaxRequests
  /\ issued' = issued + 1
  /\ req' = [req EXCEPT ![r] =
       [IdleRequest EXCEPT !.op = op, !.arg = arg, !.at = step]]

\* A request answered on arrival, before anything it could change.
Refuse(r, op, answer) ==
  /\ Idle(r)
  /\ op \in Ops
  /\ issued < MaxRequests
  /\ issued' = issued + 1
  /\ req' = [req EXCEPT ![r] =
       [IdleRequest EXCEPT !.op = op, !.at = "done", !.answer = answer]]

\* A removal is under way next to a switch, or failed and may be half done.
RemovalOverlaps ==
  \E r, q \in Requests : /\ req[r].op = "delete" /\ ~Idle(r)
                         /\ req[q].op = "put" /\ ~Idle(q)
RemovalFailed == \E r \in Requests : req[r].op = "delete" /\ req[r].answer = "503"
OtherActs == req' = req /\ <<rows, selected>>' # <<rows, selected>>

\* What was selected while a request saw the ids: those the session had, and,
\* from the moment it had none, those the store had.
AlsoSeen(ids) == ids \cup {session'} \cup
                 (IF NoProject \in ids \cup {session'} THEN {selected'} ELSE {})

\* What was selected while a GET is in flight; and, in the life of one process,
\* whether a removal met a switch, failed, or another console wrote.
Witness ==
  /\ seen' = [r \in Requests |->
       IF req'[r].op # "get" THEN {}
       ELSE IF Idle(r) /\ At(r, "current")' THEN AlsoSeen({})
       ELSE IF Idle(r) THEN seen[r]
       ELSE AlsoSeen(seen[r])]
  /\ raced' = (/\ restarts' = restarts
               /\ raced \/ RemovalOverlaps' \/ RemovalFailed' \/ OtherActs)

(***************************************************************************)
(* Arriving requests                                                       *)
(***************************************************************************)
\* PUT /projects/current
Put(r, id) ==
  /\ Issue(r, "put", id, "lock")
  /\ UNCHANGED <<rows, home, selected, session, lock, restarts>>
  /\ Witness

\* DELETE /projects/{id}; the session row is refused before anything is read.
Delete(r, id) ==
  /\ Issue(r, "delete", id, "current")
  /\ UNCHANGED <<rows, home, selected, session, lock, restarts>>
  /\ Witness

DeleteSession(r) ==
  /\ Refuse(r, "delete", "409")
  /\ UNCHANGED <<rows, home, selected, session, lock, restarts>>
  /\ Witness

\* POST /projects of a directory discovery accepts: one INSERT, which the
\* UNIQUE index on the path decides.  Adding never selects.
AddNew(r, path, i) ==
  /\ home[i] = NoPath
  /\ \A j \in rows : home[j] # path
  /\ Issue(r, "add", NoProject, "done")
  /\ rows' = rows \cup {i}
  /\ home' = [home EXCEPT ![i] = path]
  /\ UNCHANGED <<selected, session, lock, restarts>>
  /\ Witness

AddDuplicate(r, path) ==
  /\ \E j \in rows : home[j] = path
  /\ Refuse(r, "add", "409")
  /\ UNCHANGED <<rows, home, selected, session, lock, restarts>>
  /\ Witness

\* Any project-scoped request: get_current_project_root.
Get(r) ==
  /\ Issue(r, "get", NoProject, "current")
  /\ UNCHANGED <<rows, home, selected, session, lock, restarts>>
  /\ Witness

(***************************************************************************)
(* Resolving the selection: get_current_project_root, _resolve_current,    *)
(* and the current_id() of a removal                                       *)
(***************************************************************************)
\* What follows once current_id() has returned id.
Resolve(r, id) ==
  IF req[r].op = "delete"
  THEN req' = [req EXCEPT ![r].id = id, ![r].at = "remove"] /\ UNCHANGED lock
  ELSE IF id \in Ids
  THEN req' = [req EXCEPT ![r].id = id, ![r].at = "row"] /\ UNCHANGED lock
  ELSE /\ req' = [req EXCEPT ![r].id = id, ![r].at = "done", ![r].answer =
                    IF id = Session THEN PinnedRoot ELSE "no_selection"]
       /\ Unlock(r)

\* current_id() tests _session_selection and then loads it again.
CheckSession(r) ==
  /\ At(r, "current")
  /\ Goto(r, IF session # NoProject THEN "again" ELSE "persisted")
  /\ UNCHANGED <<rows, home, selected, session, lock, issued, restarts>>
  /\ Witness

LoadSession(r) ==
  /\ At(r, "again")
  /\ Resolve(r, session)
  /\ UNCHANGED <<rows, home, selected, session, issued, restarts>>
  /\ Witness

\* get_selected_project(): one JOIN.
LoadPersisted(r) ==
  /\ At(r, "persisted")
  /\ Resolve(r, IF selected \in rows THEN selected ELSE NoProject)
  /\ UNCHANGED <<rows, home, selected, session, issued, restarts>>
  /\ Witness

\* get_project(id)
LoadRow(r) ==
  /\ At(r, "row")
  /\ req[r].id \in rows
  /\ req' = [req EXCEPT ![r].root = home[req[r].id], ![r].at = "probe"]
  /\ UNCHANGED <<rows, home, selected, session, lock, issued, restarts>>
  /\ Witness

\* Mutant of RowGone: a selection without a row falls back to the pinned root.
RowGoneFallsBack(r) ==
  /\ At(r, "row")
  /\ req[r].id \notin rows
  /\ Answer(r, PinnedRoot)
  /\ Unlock(r)
  /\ UNCHANGED <<rows, home, selected, session, issued, restarts>>
  /\ Witness

RowGone(r) ==
  /\ At(r, "row")
  /\ req[r].id \notin rows
  /\ Answer(r, "not_registered")
  /\ Unlock(r)
  /\ UNCHANGED <<rows, home, selected, session, issued, restarts>>
  /\ Witness

\* _probe_root: the directory is there and readable, or it is not.
Probe(r) ==
  /\ At(r, "probe")
  /\ \E answer \in {req[r].root, "unavailable"} : Answer(r, answer)
  /\ Unlock(r)
  /\ UNCHANGED <<rows, home, selected, session, issued, restarts>>
  /\ Witness

(***************************************************************************)
(* Switching and removing                                                  *)
(***************************************************************************)
\* Mutant of LockSelection: switches are not serialised.
SwitchUnlocked(r) ==
  /\ At(r, "lock")
  /\ lock' = r
  /\ Goto(r, "persist")
  /\ UNCHANGED <<rows, home, selected, session, issued, restarts>>
  /\ Witness

LockSelection(r) ==
  /\ At(r, "lock")
  /\ lock = Free
  /\ lock' = r
  /\ Goto(r, "persist")
  /\ UNCHANGED <<rows, home, selected, session, issued, restarts>>
  /\ Witness

\* The id a switch moves the selection to: a removal clears it.
Target(r) == IF req[r].op = "put" THEN req[r].arg ELSE NoProject

\* Mutant of Persist: the session's own id is written too.
PersistSession(r) ==
  /\ At(r, "persist")
  /\ Target(r) \in rows \cup {Session, NoProject}
  /\ req' = [req EXCEPT ![r].at = "apply", ![r].root = RootOf(Target(r))]
  /\ selected' = Target(r)
  /\ UNCHANGED <<rows, home, session, lock, issued, restarts>>
  /\ Witness

\* _resolve_and_persist: the session's own id is never written, an id without a
\* row is refused, and the row read in the same transaction gives the root.
Persist(r) ==
  /\ At(r, "persist")
  /\ Target(r) \in rows \cup {Session, NoProject}
  /\ req' = [req EXCEPT ![r].at = "apply", ![r].root = RootOf(Target(r))]
  /\ selected' = (IF Target(r) = Session THEN selected ELSE Target(r))
  /\ UNCHANGED <<rows, home, session, lock, issued, restarts>>
  /\ Witness

PersistRefused(r) ==
  /\ At(r, "persist")
  /\ Target(r) \in Ids \ rows
  /\ Answer(r, "404")
  /\ Unlock(r)
  /\ UNCHANGED <<rows, home, selected, session, issued, restarts>>
  /\ Witness

\* Mutant of Apply: the lock is given back before the answer is resolved.
ApplyUnlocks(r, root) ==
  /\ At(r, "apply")
  /\ root = req[r].root
  /\ session' = Target(r)
  /\ IF req[r].op = "put" THEN Goto(r, "current") ELSE Answer(r, "ok")
  /\ Unlock(r)
  /\ UNCHANGED <<rows, home, selected, issued, restarts>>
  /\ Witness

\* _apply_selected: moves the session's selection and calls the hook with root.
\* A PUT then resolves its answer under the lock; a removal is over.
Apply(r, root) ==
  /\ At(r, "apply")
  /\ root = req[r].root
  /\ session' = Target(r)
  /\ IF req[r].op = "put"
     THEN Goto(r, "current") /\ UNCHANGED lock
     ELSE Answer(r, "ok") /\ Unlock(r)
  /\ UNCHANGED <<rows, home, selected, issued, restarts>>
  /\ Witness

\* remove_project: ON DELETE SET NULL clears the persisted selection in the same
\* statement.  The session's selection is cleared in a switch of its own, if the
\* id read before was the one removed.
Remove(r) ==
  /\ At(r, "remove")
  /\ req[r].arg \in rows
  /\ rows' = rows \ {req[r].arg}
  /\ selected' = (IF selected = req[r].arg THEN NoProject ELSE selected)
  /\ IF req[r].id = req[r].arg THEN Goto(r, "lock") ELSE Answer(r, "ok")
  /\ UNCHANGED <<home, session, lock, issued, restarts>>
  /\ Witness

RemoveUnknown(r) ==
  /\ At(r, "remove")
  /\ req[r].arg \notin rows
  /\ Answer(r, "404")
  /\ UNCHANGED <<rows, home, selected, session, lock, issued, restarts>>
  /\ Witness

\* The store raises at any access: 503, nothing written, the lock given back.
StoreFails(r) ==
  /\ StoreMayFail
  /\ \/ req[r].at \in {"persisted", "row", "remove"}
     \/ At(r, "persist") /\ Target(r) # Session
  /\ Answer(r, "503")
  /\ Unlock(r)
  /\ UNCHANGED <<rows, home, selected, session, issued, restarts>>
  /\ Witness

(***************************************************************************)
(* The environment                                                         *)
(***************************************************************************)
OtherSelects ==
  /\ OtherConsole
  /\ \E i \in rows \cup {NoProject} : selected' = i
  /\ UNCHANGED <<rows, home, session, lock, req, issued, restarts>>
  /\ Witness

OtherRemoves ==
  /\ OtherConsole
  /\ \E i \in rows :
       /\ rows' = rows \ {i}
       /\ selected' = (IF selected = i THEN NoProject ELSE selected)
  /\ UNCHANGED <<home, session, lock, req, issued, restarts>>
  /\ Witness

\* The process dies at any step and boots again: only the store survives.
Restart ==
  /\ restarts < MaxRestarts
  /\ restarts' = restarts + 1
  /\ session' = Session
  /\ lock' = Free
  /\ req' = [r \in Requests |-> IdleRequest]
  /\ UNCHANGED <<rows, home, selected, issued>>
  /\ Witness

\* The steps of one request that do not call the selection hook.
QuietStep(r) ==
  \/ \E id \in Ids \cup {Session} : Put(r, id)
  \/ \E id \in Ids : Delete(r, id)
  \/ DeleteSession(r)
  \/ \E path \in Paths : AddDuplicate(r, path) \/ \E i \in Ids : AddNew(r, path, i)
  \/ Get(r)
  \/ CheckSession(r) \/ LoadSession(r) \/ LoadPersisted(r)
  \/ LoadRow(r) \/ RowGone(r) \/ Probe(r)
  \/ LockSelection(r) \/ Persist(r) \/ PersistRefused(r)
  \/ Remove(r) \/ RemoveUnknown(r) \/ StoreFails(r)

SelNext ==
  \/ \E r \in Requests :
       QuietStep(r) \/ \E root \in Paths \cup {NoPath} : Apply(r, root)
  \/ OtherSelects \/ OtherRemoves \/ Restart

SelSpec == SelInit /\ [][SelNext]_selVars

(***************************************************************************)
(* Properties                                                              *)
(***************************************************************************)
\* Type invariant.
SelTypeOK ==
  /\ rows \subseteq Ids
  /\ home \in [Ids -> Paths \cup {NoPath}]
  /\ selected \in Ids \cup {NoProject}
  /\ session \in Selectable
  /\ lock \in Requests \cup {Free}
  /\ req \in [Requests -> [op: Ops \cup {"none"}, arg: Selectable, at: Steps,
                           id: Selectable, root: Paths \cup {NoPath}, answer: Answers]]
  /\ seen \in [Requests -> SUBSET Selectable] /\ raced \in BOOLEAN
  /\ issued \in 0..MaxRequests
  /\ restarts \in 0..MaxRestarts

\* A request is served the directory of a project that was selected at some
\* moment while it was in flight: by the session, or by the store at or after a
\* moment at which the session had no selection.  Never the pinned root or
\* another project in its place (get_current_project_root: "NEVER fall back").
ServedWasSelected ==
  \A r \in Requests :
    req[r].op = "get" /\ req[r].answer \in Paths
      => \E id \in seen[r] : RootOf(id) = req[r].answer

\* The answer of a PUT describes the switch that PUT made.
PutAnswersItsOwn ==
  \A r \in Requests :
    req[r].op = "put" /\ req[r].answer \in Paths \cup {"not_registered", "unavailable"}
      => req[r].id = req[r].arg

Settled == \A r \in Requests : Idle(r)

\* When no request is in flight, the session and the store agree: the session is
\* on the pinned root, or on the project the store names as selected.  The code
\* does not keep it: remove_project looks at the selection before it takes
\* selection_lock.
SessionMatchesStore == Settled => session \in {Session, selected}

\* It does while no removal overlapped a switch or failed, and the store is this
\* console's own: through switches and removals in any order, failing switches
\* and restarts, what is served is what would be served after the next boot.
MatchesUnlessRaced == ~raced => SessionMatchesStore

\* The clear of a removal takes away the selection of the removed project only:
\* false, of a PUT that completes between the removal and its clear.
ClearsOnlyTheRemoved ==
  [][\A r \in Requests :
       At(r, "apply") /\ req[r].op = "delete" /\ session' # session
         => session = req[r].arg]_selVars
=============================================================================
