---------------------------- MODULE SqliteStore ----------------------------
(***************************************************************************)
(* The console's database: store/schema.py opens and migrates it, once for *)
(* every call, and store/sqlite_registry.py makes the call on it.  Console *)
(* processes of different builds, one perhaps just upgraded, share a file. *)
(*                                                                         *)
(* SQLite is external: a transaction begun IMMEDIATE, or a single writing  *)
(* statement, has the write lock and is all or nothing; a read sees what   *)
(* is committed, and inside a transaction what that transaction wrote.     *)
(***************************************************************************)
EXTENDS Naturals, FiniteSets

CONSTANTS
  Process,    \* console processes
  Knows,      \* Knows[p]: SCHEMA_VERSION, the migrations the build of p has
  Conn,       \* calls, each with a connection of its own
  ProcessOf,  \* the process that makes a call
  Seed,       \* ids of rows an initial database may hold
  Named,      \* the ids callers name
  Asks,       \* Asks[c]: the kinds of call c may be
  Spelling, Path, Denotes, NoPath,   \* Denotes[s]: the path s spells, or NoPath
  NoId, NoConn,
  Top,        \* bound: the newest schema version
  MaxFaults   \* bound: statements that fail

Id == Conn \cup Seed
Versions == 0 .. Top
Kinds == {"add", "remove", "select", "list", "current"}

ASSUME StoreAssumption ==
  /\ Top \in Nat /\ MaxFaults \in Nat
  /\ ProcessOf \in [Conn -> Process] /\ Knows \in [Process -> 1 .. Top]
  /\ Denotes \in [Spelling -> Path \cup {NoPath}]
  /\ NoId \notin Id /\ NoConn \notin Conn /\ NoPath \notin Path
  /\ Seed \cap Conn = {} /\ Named \subseteq Id
  /\ Asks \in [Conn -> SUBSET Kinds]

VARIABLES
  place,   \* the directory of the database: ensure_store_dir
  db,      \* what is committed
  work,    \* what the holder of the write lock sees; without one, the same
  writer,  \* the holder
  conn,    \* conn[c]: its call, where it is, the version it acts on, its error, its answer
  faults,
  born     \* history: the version of the database when the call was made

vars == <<place, db, work, writer, conn, faults, born>>

Database == [version : Versions, made : SUBSET (1 .. Top), rows : [Id -> Path \cup {NoPath}],
             selected : Id \cup {NoId}]
RowsOf(d) == {i \in Id : d.rows[i] # NoPath}
Holder(d, p) == {i \in Id : d.rows[i] = p}
Known(c) == Knows[ProcessOf[c]]

\* A connection inside a transaction, and one that waits for the write lock.
InMigration == {"recheck", "apply", "bump", "commit"}
InSelect == {"look", "update", "seal"}
Places == {"idle", "open", "check", "begin", "call", "existing", "undo", "done"}
            \cup InMigration \cup InSelect
Answer(says, id, ids) == [says |-> says, id |-> id, ids |-> ids]
NoAnswer == Answer("none", NoId, {})
Calls == [kind : Kinds, id : Id \cup {NoId}, path : Path \cup {NoPath}]
NoCall == [kind |-> "none", id |-> NoId, path |-> NoPath]
Says == {"none", "row", "rows", "removed", "missing", "duplicate", "refused"}
Errors == {"none", "too_new", "exists", "missing", "integrity", "failed", "id_taken"}
Connection == [call : Calls \cup {NoCall}, at : Places, next : 0 .. Top + 1, error : Errors,
               answer : [says : Says, id : Id \cup {NoId}, ids : SUBSET Id]]

CanonicalProjectPath(s) == Denotes[s]

Init ==
  /\ place \in {"shared", "absent", "private"}
  /\ \E v \in Versions, rows \in [Seed -> Path \cup {NoPath}] :
       /\ place = "absent" => v = 0
       /\ v = 0 => \A i \in Seed : rows[i] = NoPath
       /\ \A i, j \in Seed : rows[i] = rows[j] /\ rows[i] # NoPath => i = j
       /\ \E s \in {i \in Seed : rows[i] # NoPath} \cup {NoId} :
            db = [version |-> v, made |-> 1 .. v, selected |-> s,
                  rows |-> [i \in Id |-> IF i \in Seed THEN rows[i] ELSE NoPath]]
  /\ work = db
  /\ writer = NoConn
  /\ conn = [c \in Conn |-> [call |-> NoCall, at |-> "idle", next |-> 0, error |-> "none",
                             answer |-> NoAnswer]]
  /\ faults = 0
  /\ born = [c \in Conn |-> 0]

-----------------------------------------------------------------------------
At(c, step) == conn[c].at = step /\ UNCHANGED <<faults, born>>
Goto(c, step) == conn' = [conn EXCEPT ![c].at = step]
Advance(c, step, n) == conn' = [conn EXCEPT ![c].at = step, ![c].next = n]
Reply(c, says, id, ids) ==
  conn' = [conn EXCEPT ![c].at = "done", ![c].answer = Answer(says, id, ids)]
\* An exception inside a transaction, on its way to the handler that rolls back.
Raise(c, error) == conn' = [conn EXCEPT ![c].at = "undo", ![c].error = error]
Lock(c) == writer = NoConn /\ writer' = c /\ UNCHANGED <<db, work>>
Commit(c) == writer = c /\ writer' = NoConn /\ db' = work /\ UNCHANGED work
\* The transaction of a connection of C, if there is one, leaves no trace.
RollBack(C) == IF writer \in C THEN writer' = NoConn /\ work' = db /\ UNCHANGED db
               ELSE UNCHANGED <<db, work, writer>>
\* One writing statement by itself.
Write(d) == writer = NoConn /\ db' = d /\ work' = d /\ UNCHANGED writer
Still == UNCHANGED <<place, db, work, writer>>

\* A path is canonical before the store is touched; the others pass it an id.
Ask(c, call) ==
  /\ conn[c].at = "idle" /\ call.kind \in Asks[c]
  /\ conn' = [conn EXCEPT ![c].call = call, ![c].at = "open"]
  /\ born' = [born EXCEPT ![c] = db.version]
  /\ UNCHANGED <<place, db, work, writer, faults>>
AddProject(c, s) == /\ CanonicalProjectPath(s) # NoPath
                    /\ Ask(c, [kind |-> "add", id |-> NoId, path |-> CanonicalProjectPath(s)])
OtherCall(c, kind, i) == Ask(c, [kind |-> kind, id |-> i, path |-> NoPath])

\* ensure_store_dir: refuses a directory others share, tightens any other.
EnsureStoreDir(c) ==
  /\ At(c, "open")
  /\ IF place = "shared"
     THEN Reply(c, "refused", NoId, {}) /\ UNCHANGED place
     ELSE Goto(c, "check") /\ place' = "private"
  /\ UNCHANGED <<db, work, writer>>

\* Mutant: any version that is not older will do.
NewerWillDo(c) ==
  /\ At(c, "check") /\ Still
  /\ Goto(c, IF db.version >= Known(c) THEN "call" ELSE "begin")
\* migrate: the version read that is only a fast path.
CheckVersion(c) ==
  /\ At(c, "check") /\ Still
  /\ IF db.version > Known(c) THEN Reply(c, "refused", NoId, {})
     ELSE Goto(c, IF db.version = Known(c) THEN "call" ELSE "begin")
BeginMigration(c) ==
  /\ At(c, "begin") /\ Lock(c)
  /\ Goto(c, "recheck")
  /\ UNCHANGED place
\* The version that counts is read under the lock.
Recheck(c) ==
  /\ At(c, "recheck") /\ Still
  /\ IF work.version > Known(c) THEN Raise(c, "too_new")
     ELSE Advance(c, IF work.version = Known(c) THEN "commit" ELSE "apply", work.version + 1)
\* Its tables are created: they must not exist yet.
ApplyMigration(c) ==
  /\ At(c, "apply")
  /\ IF conn[c].next \in work.made
     THEN Raise(c, "exists") /\ UNCHANGED work
     ELSE Goto(c, "bump") /\ work' = [work EXCEPT !.made = @ \cup {conn[c].next}]
  /\ UNCHANGED <<place, db, writer>>
BumpVersion(c) ==
  /\ At(c, "bump")
  /\ work' = [work EXCEPT !.version = conn[c].next]
  /\ Advance(c, IF conn[c].next = Known(c) THEN "commit" ELSE "apply", conn[c].next + 1)
  /\ UNCHANGED <<place, db, writer>>
CommitMigration(c) ==
  /\ At(c, "commit") /\ Commit(c)
  /\ Goto(c, "call")
  /\ UNCHANGED place
\* Mutant: what a failed migration had done is committed.
UndoCommits(c) ==
  /\ At(c, "undo")
  /\ IF writer = c THEN Commit(c) ELSE UNCHANGED <<db, work, writer>>
  /\ IF conn[c].error = "missing" THEN Reply(c, "missing", conn[c].call.id, {})
     ELSE Reply(c, "refused", NoId, {})
  /\ UNCHANGED place
\* Mutant: the transaction stays open behind the answer.
UndoForgets(c) ==
  /\ At(c, "undo") /\ UNCHANGED <<db, work, writer>>
  /\ IF conn[c].error = "missing" THEN Reply(c, "missing", conn[c].call.id, {})
     ELSE Reply(c, "refused", NoId, {})
  /\ UNCHANGED place
\* The handlers of migrate and set_selected_project, and the close behind them:
\* a transaction SQLite has not ended itself is rolled back.
Undo(c) ==
  /\ At(c, "undo") /\ RollBack({c})
  /\ IF conn[c].error = "missing" THEN Reply(c, "missing", conn[c].call.id, {})
     ELSE Reply(c, "refused", NoId, {})
  /\ UNCHANGED place

-----------------------------------------------------------------------------
Calling(c, kind) == At(c, "call") /\ conn[c].call.kind = kind

\* Mutant: no UNIQUE index on the path.
InsertAnyway(c) ==
  /\ Calling(c, "add")
  /\ Write([db EXCEPT !.rows[c] = conn[c].call.path]) /\ Reply(c, "row", c, {})
  /\ UNCHANGED place
\* add_project: the UNIQUE index decides.
InsertProject(c) ==
  /\ Calling(c, "add")
  /\ IF Holder(db, conn[c].call.path) = {}
     THEN Write([db EXCEPT !.rows[c] = conn[c].call.path]) /\ Reply(c, "row", c, {})
     ELSE Write(db) /\ Goto(c, "existing")
  /\ UNCHANGED place
\* _insert_conflict: a second statement asks whose path it is; no row is taken
\* to mean that the id clashed.
InsertConflict(c) ==
  /\ At(c, "existing") /\ Still
  /\ IF Holder(db, conn[c].call.path) = {}
     THEN conn' = [conn EXCEPT ![c].at = "done", ![c].error = "id_taken",
                               ![c].answer = Answer("refused", NoId, {})]
     ELSE \E i \in Holder(db, conn[c].call.path) : Reply(c, "duplicate", i, {})
\* remove_project: ON DELETE SET NULL clears the selection in the statement.
RemoveProject(c) ==
  /\ Calling(c, "remove")
  /\ LET i == conn[c].call.id
     IN /\ Write([db EXCEPT !.rows[i] = NoPath,
                             !.selected = IF @ = i THEN NoId ELSE @])
        /\ Reply(c, IF i \in RowsOf(db) THEN "removed" ELSE "missing", i, {})
  /\ UNCHANGED place
\* list_projects; get_project and find_by_path are its projections.
ListProjects(c) == Calling(c, "list") /\ Still /\ Reply(c, "rows", NoId, RowsOf(db))
\* get_selected_project: a join, so a selection without a row is none.
GetSelected(c) ==
  /\ Calling(c, "current") /\ Still
  /\ Reply(c, "row", IF db.selected \in RowsOf(db) THEN db.selected ELSE NoId, {})

\* Mutant: BEGIN for BEGIN IMMEDIATE.
BeginDeferred(c) ==
  /\ Calling(c, "select") /\ Still
  /\ Goto(c, "look")
BeginSelect(c) ==
  /\ Calling(c, "select") /\ Lock(c)
  /\ Goto(c, "look")
  /\ UNCHANGED place
SelectRow(c) ==
  /\ At(c, "look") /\ Still
  /\ IF conn[c].call.id \in RowsOf(work) \cup {NoId} THEN Goto(c, "update")
     ELSE Raise(c, "missing")
\* Mutant: another column of the row is stored as the selection.
SelectsThePath(c) ==
  /\ At(c, "update")
  /\ Goto(c, "seal") /\ work' = [work EXCEPT !.selected = conn[c].call.path]
  /\ UNCHANGED <<place, db, writer>>
\* The foreign key is the authority underneath.
UpdateSelection(c) ==
  /\ At(c, "update")
  /\ IF conn[c].call.id \in RowsOf(work) \cup {NoId}
     THEN Goto(c, "seal") /\ work' = [work EXCEPT !.selected = conn[c].call.id]
     ELSE Raise(c, "integrity") /\ UNCHANGED work
  /\ UNCHANGED <<place, db, writer>>
CommitSelect(c) ==
  /\ At(c, "seal") /\ Commit(c)
  /\ Reply(c, "row", conn[c].call.id, {})
  /\ UNCHANGED place

-----------------------------------------------------------------------------
\* What goes wrong.

\* busy_timeout runs out while another connection has the write lock.
Waits(c) == \/ conn[c].at = "begin"
            \/ conn[c].at = "call" /\ conn[c].call.kind \in {"add", "remove", "select"}
TimeOut(c) ==
  /\ Waits(c) /\ writer # NoConn
  /\ Reply(c, "refused", NoId, {})
  /\ UNCHANGED <<place, db, work, writer, faults, born>>
\* A statement fails; `auto': SQLite has rolled the transaction back itself.
Fail(c, auto) ==
  /\ faults < MaxFaults /\ faults' = faults + 1
  /\ conn[c].at \notin {"idle", "undo", "done"}
  /\ auto => writer = c
  /\ RollBack(IF auto THEN {c} ELSE {})
  /\ IF conn[c].at \in InMigration \cup InSelect THEN Raise(c, "failed")
     ELSE Reply(c, "refused", NoId, {})
  /\ UNCHANGED <<place, born>>
\* A process dies; the next one recovers the file and finds no transaction.
Crash(p) ==
  /\ \E c \in Conn : ProcessOf[c] = p /\ conn[c].at \notin {"idle", "done"}
  /\ conn' = [c \in Conn |->
       IF ProcessOf[c] = p /\ conn[c].at \notin {"idle", "done"}
       THEN [conn[c] EXCEPT !.at = "done", !.answer = Answer("refused", NoId, {})]
       ELSE conn[c]]
  /\ RollBack({c \in Conn : ProcessOf[c] = p})
  /\ UNCHANGED <<place, faults, born>>

Step(c) ==
  \/ EnsureStoreDir(c) \/ CheckVersion(c)
  \/ BeginMigration(c) \/ Recheck(c) \/ ApplyMigration(c) \/ BumpVersion(c)
  \/ CommitMigration(c) \/ Undo(c)
  \/ InsertProject(c) \/ InsertConflict(c) \/ RemoveProject(c)
  \/ ListProjects(c) \/ GetSelected(c)
  \/ BeginSelect(c) \/ SelectRow(c) \/ UpdateSelection(c) \/ CommitSelect(c)

Next ==
  \/ \E c \in Conn : \/ \E s \in Spelling : AddProject(c, s)
                     \/ \E kind \in {"remove", "select"}, i \in Named : OtherCall(c, kind, i)
                     \/ \E kind \in {"select", "list", "current"} : OtherCall(c, kind, NoId)
                     \/ Step(c) \/ TimeOut(c)
                     \/ \E auto \in BOOLEAN : Fail(c, auto)
  \/ \E p \in Process : Crash(p)

\* A worker thread is scheduled until its call returns.
Fairness == \A c \in Conn : WF_vars(Step(c))
Spec == Init /\ [][Next]_vars
LiveSpec == Spec /\ Fairness

-----------------------------------------------------------------------------
\* Properties.

TypeOK ==
  /\ place \in {"shared", "absent", "private"}
  /\ db \in Database /\ work \in Database
  /\ writer \in Conn \cup {NoConn}
  /\ conn \in [Conn -> Connection]
  /\ faults \in 0 .. MaxFaults
  /\ born \in [Conn -> Versions]

\* A database never claims a version whose tables were not committed with it,
\* nor has tables beyond the version it claims (schema.py, migrate).
VersionTellsTables == db.made = 1 .. db.version

\* No exception a caller was not promised: a migration never meets its own
\* tables, an update of the selection never breaks the foreign key.
NoRawError == \A c \in Conn : conn[c].error \notin {"exists", "integrity"}

\* A call made when the database was already newer than its build leaves it
\* untouched, and one that waited for the lock looks again.
NewerIsUntouched ==
  [][db' # db => \E c \in Conn : conn'[c].at # conn[c].at /\ born[c] <= Known(c)]_vars

\* What a build writes, it writes into a schema it knows: false, another
\* process may migrate between the check of the version and the call.
WritesWhatItKnows ==
  [][db' # db => \E c \in Conn : conn'[c].at # conn[c].at /\ db.version <= Known(c)]_vars

\* A fresh id never clashes, so no add is told that its id is taken: false,
\* the row that refused it may be gone when it is asked for.
ConflictIsNamed == \A c \in Conn : conn[c].error # "id_taken"

\* Every call is answered: no wait for the write lock is for ever.
CallsReturn == \A c \in Conn : conn[c].at = "open" ~> conn[c].at = "done"

\* Whatever interleaves, every call takes effect at once or not at all.
Abstract == INSTANCE Registry WITH
  rows <- db.rows, selected <- db.selected,
  call <- [c \in Conn |-> conn[c].call], answer <- [c \in Conn |-> conn[c].answer]
ImplementsRegistry == Abstract!Spec
SelectionNamesARow == Abstract!SelectionNamesARow
=============================================================================
