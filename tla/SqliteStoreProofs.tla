------------------------- MODULE SqliteStoreProofs -------------------------
(***************************************************************************)
(* The store for every number of processes, builds, calls and faults.      *)
(***************************************************************************)
EXTENDS SqliteStore, TLAPS

Inside(c) == conn[c].at \in InMigration \cup InSelect

\* A connection inside a transaction has the write lock; without a transaction
\* there is nothing uncommitted.
LockInv ==
  /\ \A c \in Conn : Inside(c) => writer = c
  /\ \A c \in Conn : writer = c => Inside(c) \/ conn[c].at = "undo"
  /\ writer = NoConn => work = db

\* What is committed is whole.
Whole(d) == d.made = 1 .. d.version /\ d.selected \in RowsOf(d) \cup {NoId}

\* Where a migration is.
MigrationInv(c) ==
  conn[c].at \in InMigration =>
    /\ work.rows = db.rows /\ work.selected = db.selected
    /\ db.version <= work.version
    /\ conn[c].at = "recheck" => work = db
    /\ conn[c].at \in {"apply", "bump"} =>
         conn[c].next = work.version + 1 /\ conn[c].next <= Known(c)
    /\ conn[c].at \in {"apply", "commit"} => work.made = 1 .. work.version
    /\ conn[c].at = "bump" => work.made = 1 .. conn[c].next

\* Where a selection is: the row it found cannot go while it has the lock.
SelectInv(c) ==
  conn[c].at \in InSelect =>
    /\ conn[c].call.kind = "select"
    /\ conn[c].at \in {"look", "update"} => work = db
    /\ conn[c].at \in {"update", "seal"} => conn[c].call.id \in RowsOf(db) \cup {NoId}
    /\ conn[c].at = "seal" => work = [db EXCEPT !.selected = conn[c].call.id]

\* What a call is, and that it is answered when it is done.
CallInv(c) ==
  /\ conn[c].at = "idle" <=> conn[c].call = NoCall
  /\ conn[c].at = "done" <=> conn[c].answer # NoAnswer
  /\ conn[c].call.kind = "add" => conn[c].call.path \in Path
  /\ conn[c].call.kind = "remove" => conn[c].call.id \in Id
  /\ conn[c].at = "existing" => conn[c].call.kind = "add"
  /\ conn[c].at # "done" /\ conn[c].call.kind \in {"none", "add"} => db.rows[c] = NoPath
  /\ conn[c].at = "undo" /\ conn[c].error = "missing" =>
       /\ writer = c /\ conn[c].call.kind = "select"
       /\ conn[c].call.id \notin RowsOf(db) \cup {NoId}

\* A connection past the check of the version has a build that knew it then.
BornInv(c) ==
  /\ conn[c].at # "idle" => born[c] <= db.version
  /\ conn[c].at \notin {"idle", "open", "check", "done"} => born[c] <= Known(c)

Sound(c) == MigrationInv(c) /\ SelectInv(c) /\ CallInv(c) /\ BornInv(c)
IInv == TypeOK /\ LockInv /\ Whole(db) /\ NoRawError /\ \A c \in Conn : Sound(c)

LEMMA InitInv == Init => IInv
<1> SUFFICES ASSUME Init PROVE IInv
  OBVIOUS
<1> USE StoreAssumption DEF Id
<1>1. PICK v \in Versions, rows \in [Seed -> Path \cup {NoPath}] :
        \E s \in {i \in Seed : rows[i] # NoPath} \cup {NoId} :
          db = [version |-> v, made |-> 1 .. v, selected |-> s,
                rows |-> [i \in Id |-> IF i \in Seed THEN rows[i] ELSE NoPath]]
  BY DEF Init
<1>2. PICK s \in {i \in Seed : rows[i] # NoPath} \cup {NoId} :
        db = [version |-> v, made |-> 1 .. v, selected |-> s,
              rows |-> [i \in Id |-> IF i \in Seed THEN rows[i] ELSE NoPath]]
  BY <1>1
<1>3. db \in Database /\ Whole(db) /\ \A c \in Conn : db.rows[c] = NoPath
  BY <1>2 DEF Database, Whole, RowsOf, Versions
<1>4. TypeOK
  BY <1>3 DEF Init, TypeOK, Connection, NoAnswer, Answer, Places, Says, Errors, Versions
<1>5. LockInv /\ NoRawError /\ \A c \in Conn : MigrationInv(c) /\ SelectInv(c) /\ BornInv(c)
  BY DEF Init, LockInv, Inside, InMigration, InSelect, MigrationInv, SelectInv, BornInv, NoRawError
<1>6. \A c \in Conn : CallInv(c)
  BY <1>3 DEF Init, CallInv, NoCall, NoAnswer
<1> QED
  BY <1>3, <1>4, <1>5, <1>6 DEF IInv, Sound

\* Whatever c does, alone or with the write lock free or its own, leaves every
\* other connection sound.
LEMMA OthersSound ==
  ASSUME IInv, NEW c \in Conn, NEW d \in Conn, d # c,
         conn'[d] = conn[d], born'[d] = born[d],
         \/ UNCHANGED <<db, work, writer>>
         \/ /\ writer \in {c, NoConn}
            /\ db.version <= db'.version /\ db'.version \in Nat
            /\ db.rows[d] = NoPath => db'.rows[d] = NoPath
  PROVE  Sound(d)'
<1>1. CASE UNCHANGED <<db, work, writer>>
  BY <1>1 DEF IInv, Sound, MigrationInv, SelectInv, CallInv, BornInv, RowsOf
<1>2. CASE /\ writer \in {c, NoConn}
           /\ db.version <= db'.version /\ db'.version \in Nat
           /\ db.rows[d] = NoPath => db'.rows[d] = NoPath
  <2>1. writer # d /\ ~Inside(d)
    BY <1>2, StoreAssumption DEF IInv, LockInv
  <2>2. MigrationInv(d)' /\ SelectInv(d)'
    BY <2>1 DEF Inside, MigrationInv, SelectInv
  <2>3. CallInv(d)'
    BY <1>2, <2>1 DEF IInv, Sound, CallInv
  <2>4. BornInv(d)'
    BY <1>2 DEF IInv, TypeOK, Database, Versions, Sound, BornInv
  <2> QED
    BY <2>2, <2>3, <2>4 DEF Sound
<1> QED
  BY <1>1, <1>2


\* What a step of c does to the connections.
Only(c) == /\ conn' \in [Conn -> Connection]
           /\ conn'[c].call = conn[c].call
           /\ \A d \in Conn \ {c} : conn'[d] = conn[d]

LEMMA Goes ==
  ASSUME TypeOK, NEW c \in Conn, NEW step \in Places, Goto(c, step)
  PROVE  /\ Only(c) /\ conn'[c].at = step /\ conn'[c].next = conn[c].next
         /\ conn'[c].error = conn[c].error /\ conn'[c].answer = conn[c].answer
  BY DEF TypeOK, Goto, Only, Connection

LEMMA Advances ==
  ASSUME TypeOK, NEW c \in Conn, NEW step \in Places, NEW n \in 0 .. Top + 1,
         Advance(c, step, n)
  PROVE  /\ Only(c) /\ conn'[c].at = step /\ conn'[c].next = n
         /\ conn'[c].error = conn[c].error /\ conn'[c].answer = conn[c].answer
  BY DEF TypeOK, Advance, Only, Connection

LEMMA Replies ==
  ASSUME TypeOK, NEW c \in Conn, NEW says \in Says \ {"none"}, NEW id \in Id \cup {NoId},
         NEW ids \in SUBSET Id, Reply(c, says, id, ids)
  PROVE  /\ Only(c) /\ conn'[c].at = "done" /\ conn'[c].next = conn[c].next
         /\ conn'[c].error = conn[c].error /\ conn'[c].answer = Answer(says, id, ids)
         /\ conn'[c].answer # NoAnswer
  BY ZenonT(60) DEF TypeOK, Reply, Only, Connection, Answer, NoAnswer, Says, Places

LEMMA Raises ==
  ASSUME TypeOK, NEW c \in Conn, NEW error \in Errors, Raise(c, error)
  PROVE  /\ Only(c) /\ conn'[c].at = "undo" /\ conn'[c].next = conn[c].next
         /\ conn'[c].error = error /\ conn'[c].answer = conn[c].answer
  BY DEF TypeOK, Raise, Only, Connection, Places

LEMMA Typed ==
  ASSUME TypeOK, NEW c \in Conn
  PROVE  /\ conn[c].call.id \in Id \cup {NoId} /\ conn[c].call.path \in Path \cup {NoPath}
         /\ c \in Id /\ RowsOf(db) \in SUBSET Id /\ RowsOf(work) \in SUBSET Id
         /\ db.version \in Nat /\ work.version \in Nat /\ Known(c) \in 1 .. Top
  BY StoreAssumption DEF TypeOK, Connection, Calls, NoCall, Id, RowsOf, Database, Versions, Known

\* What the writing statements leave of a database.
LEMMA MigratedDatabase ==
  ASSUME NEW d \in Database, NEW k \in 1 .. Top
  PROVE  /\ [d EXCEPT !.made = @ \cup {k}] \in Database
         /\ [d EXCEPT !.version = k] \in Database
  BY StoreAssumption DEF Database, Versions

LEMMA AddedTo ==
  ASSUME NEW d \in Database, NEW i \in Id, NEW p \in Path, d.rows[i] = NoPath,
         NEW e, e = [d EXCEPT !.rows[i] = p]
  PROVE  /\ e \in Database /\ e.version = d.version
         /\ \A j \in Id \ {i} : e.rows[j] = d.rows[j]
         /\ Whole(d) => Whole(e)
<1>1. e \in Database /\ e.version = d.version /\ e.made = d.made /\ e.selected = d.selected
  BY DEF Database
<1>2. e.rows[i] = p /\ \A j \in Id \ {i} : e.rows[j] = d.rows[j]
  BY DEF Database
<1>3. RowsOf(d) \subseteq RowsOf(e)
  BY <1>2 DEF RowsOf
<1> QED
  BY <1>1, <1>2, <1>3 DEF Whole

Without(d, i) == [d EXCEPT !.rows[i] = NoPath, !.selected = IF @ = i THEN NoId ELSE @]
LEMMA RemovedFrom ==
  ASSUME NEW d \in Database, NEW i \in Id
  PROVE  /\ Without(d, i) \in Database /\ Without(d, i).version = d.version
         /\ \A j \in Id : d.rows[j] = NoPath => Without(d, i).rows[j] = NoPath
         /\ Whole(d) => Whole(Without(d, i))
<1> DEFINE e == Without(d, i)
<1>1. /\ e \in Database /\ e.version = d.version /\ e.made = d.made
      /\ e.selected = IF d.selected = i THEN NoId ELSE d.selected
  BY DEF Database, Without
<1>2. e.rows[i] = NoPath /\ \A j \in Id \ {i} : e.rows[j] = d.rows[j]
  BY DEF Database, Without
<1>3. RowsOf(d) \ {i} \subseteq RowsOf(e)
  BY <1>2 DEF RowsOf
<1> HIDE DEF e
<1>4. Whole(d) => Whole(e)
  BY <1>1, <1>3, StoreAssumption DEF Whole
<1> QED
  BY <1>1, <1>2, <1>4 DEF e

LEMMA SelectedIn ==
  ASSUME NEW d \in Database, NEW i \in RowsOf(d) \cup {NoId},
         NEW e, e = [d EXCEPT !.selected = i]
  PROVE  /\ e \in Database /\ e.version = d.version /\ e.rows = d.rows
         /\ Whole(d) => Whole(e)
  BY DEF Database, Whole, RowsOf

\* The three ways a step of c ends.
Went(c, from, to) ==
  /\ Only(c) /\ conn[c].at = from /\ conn'[c].at = to
  /\ conn'[c].error = conn[c].error /\ conn'[c].answer = conn[c].answer
Answered(c, from) ==
  /\ Only(c) /\ conn[c].at = from /\ conn'[c].at = "done"
  /\ conn'[c].error \in {conn[c].error, "id_taken"} /\ conn'[c].answer # NoAnswer
Raised(c, from, error) ==
  /\ Only(c) /\ conn[c].at = from /\ conn'[c].at = "undo"
  /\ conn'[c].error = error /\ conn'[c].answer = conn[c].answer
Apart == UNCHANGED <<db, work, writer>>
History == born' = born /\ faults' = faults

LEMMA EnsureStoreDirInv == ASSUME IInv, NEW c \in Conn, EnsureStoreDir(c) PROVE IInv'
<1> USE StoreAssumption DEF IInv
<1>1. /\ Apart /\ (Went(c, "open", "check") \/ Answered(c, "open"))
     /\ History
  <2>1. CASE place = "shared"
    BY ZenonT(60), <2>1, Replies DEF EnsureStoreDir, At, Says, Answered, Apart, History
  <2>2. CASE place # "shared"
    BY <2>2, Goes DEF EnsureStoreDir, At, Places, Went, Apart, History
  <2> QED
    BY <2>1, <2>2
<1>2. db' \in Database /\ work' \in Database
  BY <1>1, Typed DEF Went, Answered, Apart, Only, History, TypeOK, Database, Versions, Id,
     Connection, Sound, MigrationInv, SelectInv, InMigration, InSelect, CallInv
<1>3. TypeOK'
  BY <1>1, <1>2 DEF Went, Answered, Apart, Only, History, EnsureStoreDir, TypeOK
<1>4. LockInv'
  BY <1>1 DEF Went, Answered, Apart, Only, History, LockInv, Inside, InMigration, InSelect
<1>5. Whole(db)' /\ NoRawError'
  BY <1>1, Typed DEF Went, Answered, Apart, Only, History, TypeOK, Database, Id, InMigration,
     InSelect, Whole, NoRawError, Sound, MigrationInv, SelectInv, CallInv, RowsOf
<1>6. MigrationInv(c)'
  BY <1>1, <1>2 DEF Went, Answered, Apart, Only, History, TypeOK, Database, Versions, Connection,
     InMigration, Sound, MigrationInv, Known, LockInv, Whole
<1>7. SelectInv(c)'
  BY <1>1, <1>2 DEF Went, Answered, Apart, Only, History, TypeOK, Database, Connection, InSelect,
     Sound, SelectInv, RowsOf, LockInv
<1>8. CallInv(c)'
  BY <1>1 DEF Went, Answered, Apart, Only, Sound, CallInv
<1>9. db.version <= db'.version
  BY <1>1, <1>2, Typed DEF Went, Answered, Apart, Only, History, TypeOK, Database, Versions,
     InMigration, InSelect, Sound, MigrationInv, SelectInv
<1>10. BornInv(c)'
  BY <1>1, <1>2, <1>9 DEF Went, Answered, Apart, Only, History, TypeOK, Database, Versions, Sound,
     BornInv, Known
<1>11. ASSUME NEW d \in Conn, d # c PROVE Sound(d)'
  <2>1. conn'[d] = conn[d] /\ born'[d] = born[d]
    BY <1>1, <1>11 DEF Went, Answered, Apart, Only, History
  <2>2. db'.version \in Nat /\ (db.rows[d] = NoPath => db'.rows[d] = NoPath)
    BY <1>1, <1>2, <1>11 DEF Went, Answered, Apart, Only, History, TypeOK, Database, Versions, Id,
       Sound, MigrationInv, SelectInv, InMigration, InSelect
  <2>3. UNCHANGED <<db, work, writer>> \/ writer \in {c, NoConn}
    BY <1>1 DEF Went, Answered, Apart, Only, History, LockInv, Inside, InMigration, InSelect
  <2> QED
    BY <1>9, <1>11, <2>1, <2>2, <2>3, OthersSound
<1> QED
  BY <1>3, <1>4, <1>5, <1>6, <1>7, <1>8, <1>10, <1>11 DEF Sound

LEMMA CheckVersionInv == ASSUME IInv, NEW c \in Conn, CheckVersion(c) PROVE IInv'
<1> USE StoreAssumption DEF IInv
<1>1. /\ Apart
     /\ \/ Answered(c, "check")
        \/ db.version = Known(c) /\ Went(c, "check", "call")
        \/ db.version <= Known(c) /\ Went(c, "check", "begin")
     /\ History
  <2>1. CASE db.version > Known(c)
    BY ZenonT(60), <2>1, Replies DEF CheckVersion, At, Still, Says, Answered, Apart, History
  <2>2. CASE db.version = Known(c)
    BY <2>2, Goes DEF CheckVersion, At, Still, Places, Went, Apart, History, Known
  <2>3. CASE db.version < Known(c)
    BY <2>3, Goes DEF CheckVersion, At, Still, TypeOK, Places, Went, Apart, History, Known,
       Database, Versions
  <2> QED
    BY <2>1, <2>2, <2>3 DEF TypeOK, Known, Database, Versions
<1>2. db' \in Database /\ work' \in Database
  BY <1>1, Typed DEF Went, Answered, Apart, Only, History, TypeOK, Database, Versions, Id,
     Connection, Sound, MigrationInv, SelectInv, InMigration, InSelect, CallInv
<1>3. TypeOK'
  BY <1>1, <1>2 DEF Went, Answered, Apart, Only, History, CheckVersion, Still, TypeOK
<1>4. LockInv'
  BY <1>1 DEF Went, Answered, Apart, Only, History, LockInv, Inside, InMigration, InSelect
<1>5. Whole(db)' /\ NoRawError'
  BY <1>1, Typed DEF Went, Answered, Apart, Only, History, TypeOK, Database, Id, InMigration,
     InSelect, Whole, NoRawError, Sound, MigrationInv, SelectInv, CallInv, RowsOf
<1>6. MigrationInv(c)'
  BY <1>1, <1>2 DEF Went, Answered, Apart, Only, History, TypeOK, Database, Versions, Connection,
     InMigration, Sound, MigrationInv, Known, LockInv, Whole
<1>7. SelectInv(c)'
  BY <1>1, <1>2 DEF Went, Answered, Apart, Only, History, TypeOK, Database, Connection, InSelect,
     Sound, SelectInv, RowsOf, LockInv
<1>8. CallInv(c)'
  BY <1>1 DEF Went, Answered, Apart, Only, Sound, CallInv
<1>9. db.version <= db'.version
  BY <1>1, <1>2, Typed DEF Went, Answered, Apart, Only, History, TypeOK, Database, Versions,
     InMigration, InSelect, Sound, MigrationInv, SelectInv
<1>10. BornInv(c)'
  BY <1>1, <1>2, <1>9 DEF Went, Answered, Apart, Only, History, TypeOK, Database, Versions, Sound,
     BornInv, Known
<1>11. ASSUME NEW d \in Conn, d # c PROVE Sound(d)'
  <2>1. conn'[d] = conn[d] /\ born'[d] = born[d]
    BY <1>1, <1>11 DEF Went, Answered, Apart, Only, History
  <2>2. db'.version \in Nat /\ (db.rows[d] = NoPath => db'.rows[d] = NoPath)
    BY <1>1, <1>2, <1>11 DEF Went, Answered, Apart, Only, History, TypeOK, Database, Versions, Id,
       Sound, MigrationInv, SelectInv, InMigration, InSelect
  <2>3. UNCHANGED <<db, work, writer>> \/ writer \in {c, NoConn}
    BY <1>1 DEF Went, Answered, Apart, Only, History, LockInv, Inside, InMigration, InSelect
  <2> QED
    BY <1>9, <1>11, <2>1, <2>2, <2>3, OthersSound
<1> QED
  BY <1>3, <1>4, <1>5, <1>6, <1>7, <1>8, <1>10, <1>11 DEF Sound

LEMMA BeginMigrationInv == ASSUME IInv, NEW c \in Conn, BeginMigration(c) PROVE IInv'
<1> USE StoreAssumption DEF IInv
<1>1. /\ Lock(c) /\ Went(c, "begin", "recheck")
     /\ History
  BY Goes DEF BeginMigration, At, Places, InMigration, Went, History
<1>2. db' \in Database /\ work' \in Database
  BY <1>1, Typed DEF Went, Lock, Only, History, TypeOK, Database, Versions, Id, Connection, Sound,
     MigrationInv, SelectInv, InMigration, InSelect, CallInv
<1>3. TypeOK'
  BY <1>1, <1>2 DEF Went, Lock, Only, History, BeginMigration, TypeOK
<1>4. LockInv'
  BY <1>1 DEF Went, Lock, Only, History, LockInv, Inside, InMigration, InSelect
<1>5. Whole(db)' /\ NoRawError'
  BY <1>1, Typed DEF Went, Lock, Only, History, TypeOK, Database, Id, InMigration, InSelect,
     Whole, NoRawError, Sound, MigrationInv, SelectInv, CallInv, RowsOf
<1>6. MigrationInv(c)'
  BY <1>1, <1>2 DEF Went, Lock, Only, History, TypeOK, Database, Versions, Connection,
     InMigration, Sound, MigrationInv, Known, LockInv, Whole
<1>7. SelectInv(c)'
  BY <1>1, <1>2 DEF Went, Lock, Only, History, TypeOK, Database, Connection, InSelect, Sound,
     SelectInv, RowsOf, LockInv
<1>8. CallInv(c)'
  BY <1>1, <1>2 DEF Went, Lock, Only, History, TypeOK, Database, Connection, InMigration,
     InSelect, Sound, CallInv, SelectInv, MigrationInv, LockInv, Inside, RowsOf
<1>9. db.version <= db'.version
  BY <1>1, <1>2, Typed DEF Went, Lock, Only, History, TypeOK, Database, Versions, InMigration,
     InSelect, Sound, MigrationInv, SelectInv
<1>10. BornInv(c)'
  BY <1>1, <1>2, <1>9 DEF Went, Lock, Only, History, TypeOK, Database, Versions, Sound, BornInv,
     Known
<1>11. ASSUME NEW d \in Conn, d # c PROVE Sound(d)'
  <2>1. conn'[d] = conn[d] /\ born'[d] = born[d]
    BY <1>1, <1>11 DEF Went, Lock, Only, History
  <2>2. db'.version \in Nat /\ (db.rows[d] = NoPath => db'.rows[d] = NoPath)
    BY <1>1, <1>2, <1>11 DEF Went, Lock, Only, History, TypeOK, Database, Versions, Id, Sound,
       MigrationInv, SelectInv, InMigration, InSelect
  <2>3. UNCHANGED <<db, work, writer>> \/ writer \in {c, NoConn}
    BY <1>1 DEF Went, Lock, Only, History, LockInv, Inside, InMigration, InSelect
  <2> QED
    BY <1>9, <1>11, <2>1, <2>2, <2>3, OthersSound
<1> QED
  BY <1>3, <1>4, <1>5, <1>6, <1>7, <1>8, <1>10, <1>11 DEF Sound

LEMMA RecheckInv == ASSUME IInv, NEW c \in Conn, Recheck(c) PROVE IInv'
<1> USE StoreAssumption DEF IInv
<1>1. /\ Apart
     /\ \/ Raised(c, "recheck", "too_new")
        \/ work.version = Known(c) /\ Went(c, "recheck", "commit")
        \/ /\ work.version < Known(c) /\ Went(c, "recheck", "apply")
           /\ conn'[c].next = work.version + 1
     /\ History
  <2>1. CASE work.version > Known(c)
    BY <2>1, Raises DEF Recheck, At, Still, Errors, Raised, Apart, History
  <2>2. CASE work.version = Known(c)
    BY <2>2, Advances, Typed DEF Recheck, At, Still, Places, InMigration, Went, Apart,
       History
  <2>3. CASE work.version < Known(c)
    BY <2>3, Advances, Typed DEF Recheck, At, Still, Places, InMigration, Went, Apart,
       History
  <2> QED
    BY <2>1, <2>2, <2>3 DEF TypeOK, Known, Database, Versions
<1>2. db' \in Database /\ work' \in Database
  BY <1>1, Typed DEF Went, Raised, Apart, Only, History, TypeOK, Database, Versions, Id,
     Connection, Sound, MigrationInv, SelectInv, InMigration, InSelect, CallInv
<1>3. TypeOK'
  BY <1>1, <1>2 DEF Went, Raised, Apart, Only, History, Recheck, Still, TypeOK
<1>4. LockInv'
  BY <1>1 DEF Went, Raised, Apart, Only, History, LockInv, Inside, InMigration, InSelect
<1>5. Whole(db)' /\ NoRawError'
  BY <1>1, Typed DEF Went, Raised, Apart, Only, History, TypeOK, Database, Id, InMigration,
     InSelect, Whole, NoRawError, Sound, MigrationInv, SelectInv, CallInv, RowsOf
<1>6. MigrationInv(c)'
  BY <1>1, <1>2 DEF Went, Raised, Apart, Only, History, TypeOK, Database, Versions, Connection,
     InMigration, Sound, MigrationInv, Known, LockInv, Whole
<1>7. SelectInv(c)'
  BY <1>1, <1>2 DEF Went, Raised, Apart, Only, History, TypeOK, Database, Connection, InSelect,
     Sound, SelectInv, RowsOf, LockInv
<1>8. CallInv(c)'
  BY <1>1 DEF Went, Raised, Apart, Only, Sound, CallInv
<1>9. db.version <= db'.version
  BY <1>1, <1>2, Typed DEF Went, Raised, Apart, Only, History, TypeOK, Database, Versions,
     InMigration, InSelect, Sound, MigrationInv, SelectInv
<1>10. BornInv(c)'
  BY <1>1, <1>2, <1>9 DEF Went, Raised, Apart, Only, History, TypeOK, Database, Versions, Sound,
     BornInv, Known
<1>11. ASSUME NEW d \in Conn, d # c PROVE Sound(d)'
  <2>1. conn'[d] = conn[d] /\ born'[d] = born[d]
    BY <1>1, <1>11 DEF Went, Raised, Apart, Only, History
  <2>2. db'.version \in Nat /\ (db.rows[d] = NoPath => db'.rows[d] = NoPath)
    BY <1>1, <1>2, <1>11 DEF Went, Raised, Apart, Only, History, TypeOK, Database, Versions, Id,
       Sound, MigrationInv, SelectInv, InMigration, InSelect
  <2>3. UNCHANGED <<db, work, writer>> \/ writer \in {c, NoConn}
    BY <1>1 DEF Went, Raised, Apart, Only, History, LockInv, Inside, InMigration, InSelect
  <2> QED
    BY <1>9, <1>11, <2>1, <2>2, <2>3, OthersSound
<1> QED
  BY <1>3, <1>4, <1>5, <1>6, <1>7, <1>8, <1>10, <1>11 DEF Sound

LEMMA ApplyMigrationInv == ASSUME IInv, NEW c \in Conn, ApplyMigration(c) PROVE IInv'
<1> USE StoreAssumption DEF IInv
<1>1. /\ UNCHANGED <<db, writer>> /\ Went(c, "apply", "bump")
     /\ conn'[c].next = conn[c].next
     /\ work' = [work EXCEPT !.made = @ \cup {conn[c].next}]
     /\ History
  BY Goes, Advances, Replies, Raises, Typed DEF ApplyMigration, At, Places, InMigration,
     Went, History, Sound, MigrationInv
<1>2. db' \in Database /\ work' \in Database
  <2>1. conn[c].next \in 1 .. Top
    BY <1>1, Typed DEF Went, Sound, MigrationInv, InMigration, TypeOK, Connection
  <2> QED
    BY <1>1, <2>1, MigratedDatabase DEF TypeOK
<1>3. TypeOK'
  BY <1>1, <1>2 DEF Went, Only, History, ApplyMigration, TypeOK
<1>4. LockInv'
  BY <1>1 DEF Went, Only, History, LockInv, Inside, InMigration, InSelect
<1>5. Whole(db)' /\ NoRawError'
  BY <1>1, Typed DEF Went, Only, History, TypeOK, Database, Id, InMigration, InSelect, Whole,
     NoRawError, Sound, MigrationInv, SelectInv, CallInv, RowsOf
<1>6. MigrationInv(c)'
  BY <1>1, <1>2 DEF Went, Only, History, TypeOK, Database, Versions, Connection, InMigration,
     Sound, MigrationInv, Known, LockInv, Whole
<1>7. SelectInv(c)'
  BY <1>1, <1>2 DEF Went, Only, History, TypeOK, Database, Connection, InSelect, Sound, SelectInv,
     RowsOf, LockInv
<1>8. CallInv(c)'
  BY <1>1, <1>2 DEF Went, Only, History, TypeOK, Database, Connection, InMigration, InSelect,
     Sound, CallInv, SelectInv, MigrationInv, LockInv, Inside, RowsOf
<1>9. db.version <= db'.version
  BY <1>1, <1>2, Typed DEF Went, Only, History, TypeOK, Database, Versions, InMigration, InSelect,
     Sound, MigrationInv, SelectInv
<1>10. BornInv(c)'
  BY <1>1, <1>2, <1>9 DEF Went, Only, History, TypeOK, Database, Versions, Sound, BornInv, Known
<1>11. ASSUME NEW d \in Conn, d # c PROVE Sound(d)'
  <2>1. conn'[d] = conn[d] /\ born'[d] = born[d]
    BY <1>1, <1>11 DEF Went, Only, History
  <2>2. db'.version \in Nat /\ (db.rows[d] = NoPath => db'.rows[d] = NoPath)
    BY <1>1, <1>2, <1>11 DEF Went, Only, History, TypeOK, Database, Versions, Id, Sound,
       MigrationInv, SelectInv, InMigration, InSelect
  <2>3. UNCHANGED <<db, work, writer>> \/ writer \in {c, NoConn}
    BY <1>1 DEF Went, Only, History, LockInv, Inside, InMigration, InSelect
  <2> QED
    BY <1>9, <1>11, <2>1, <2>2, <2>3, OthersSound
<1> QED
  BY <1>3, <1>4, <1>5, <1>6, <1>7, <1>8, <1>10, <1>11 DEF Sound

LEMMA BumpVersionInv == ASSUME IInv, NEW c \in Conn, BumpVersion(c) PROVE IInv'
<1> USE StoreAssumption DEF IInv
<1>1. /\ UNCHANGED <<db, writer>> /\ work' = [work EXCEPT !.version = conn[c].next]
     /\ \/ conn[c].next = Known(c) /\ Went(c, "bump", "commit")
        \/ /\ conn[c].next < Known(c) /\ Went(c, "bump", "apply")
           /\ conn'[c].next = conn[c].next + 1
     /\ History
  <2>1. /\ conn[c].at = "bump" /\ conn[c].next <= Known(c)
        /\ conn[c].next \in 1 .. Top /\ conn[c].next + 1 \in 0 .. Top + 1
    BY SMTT(30), Typed DEF BumpVersion, At, Sound, MigrationInv, InMigration, TypeOK, Connection
  <2>2. CASE conn[c].next = Known(c)
    <3>1. Advance(c, "commit", conn[c].next + 1)
      BY <2>2 DEF BumpVersion
    <3>2. Went(c, "bump", "commit") /\ conn'[c].next = conn[c].next + 1
      BY <2>1, <3>1, Advances DEF Places, InMigration, Went
    <3> QED
      BY <2>2, <3>2 DEF BumpVersion, At, History
  <2>3. CASE conn[c].next # Known(c)
    <3>1. Advance(c, "apply", conn[c].next + 1)
      BY <2>3 DEF BumpVersion
    <3>2. Went(c, "bump", "apply") /\ conn'[c].next = conn[c].next + 1
      BY <2>1, <3>1, Advances DEF Places, InMigration, Went
    <3>3. conn[c].next < Known(c)
      BY SMTT(30), <2>1, <2>3, Typed
    <3> QED
      BY <3>2, <3>3 DEF BumpVersion, At, History
  <2> QED
    BY <2>2, <2>3
<1>2. db' \in Database /\ work' \in Database
  <2>1. conn[c].at = "bump" /\ conn[c].next \in 1 .. Top
    BY Typed DEF BumpVersion, At, Sound, MigrationInv, InMigration, TypeOK, Connection
  <2> QED
    BY <1>1, <2>1, MigratedDatabase DEF TypeOK
<1>3. TypeOK'
  BY <1>1, <1>2 DEF Went, Only, History, BumpVersion, TypeOK
<1>4. LockInv'
  BY <1>1 DEF Went, Only, History, LockInv, Inside, InMigration, InSelect
<1>5. Whole(db)' /\ NoRawError'
  BY <1>1, Typed DEF Went, Only, History, TypeOK, Database, Id, InMigration, InSelect, Whole,
     NoRawError, Sound, MigrationInv, SelectInv, CallInv, RowsOf
<1>6. MigrationInv(c)'
  BY <1>1, <1>2 DEF Went, Only, History, TypeOK, Database, Versions, Connection, InMigration,
     Sound, MigrationInv, Known, LockInv, Whole
<1>7. SelectInv(c)'
  BY <1>1, <1>2 DEF Went, Only, History, TypeOK, Database, Connection, InSelect, Sound, SelectInv,
     RowsOf, LockInv
<1>8. CallInv(c)'
  BY <1>1, <1>2 DEF Went, Only, History, TypeOK, Database, Connection, InMigration, InSelect,
     Sound, CallInv, SelectInv, MigrationInv, LockInv, Inside, RowsOf
<1>9. db.version <= db'.version
  BY <1>1, <1>2, Typed DEF Went, Only, History, TypeOK, Database, Versions, InMigration, InSelect,
     Sound, MigrationInv, SelectInv
<1>10. BornInv(c)'
  BY <1>1, <1>2, <1>9 DEF Went, Only, History, TypeOK, Database, Versions, Sound, BornInv, Known
<1>11. ASSUME NEW d \in Conn, d # c PROVE Sound(d)'
  <2>1. conn'[d] = conn[d] /\ born'[d] = born[d]
    BY <1>1, <1>11 DEF Went, Only, History
  <2>2. db'.version \in Nat /\ (db.rows[d] = NoPath => db'.rows[d] = NoPath)
    BY <1>1, <1>2, <1>11 DEF Went, Only, History, TypeOK, Database, Versions, Id, Sound,
       MigrationInv, SelectInv, InMigration, InSelect
  <2>3. UNCHANGED <<db, work, writer>> \/ writer \in {c, NoConn}
    BY <1>1 DEF Went, Only, History, LockInv, Inside, InMigration, InSelect
  <2> QED
    BY <1>9, <1>11, <2>1, <2>2, <2>3, OthersSound
<1> QED
  BY <1>3, <1>4, <1>5, <1>6, <1>7, <1>8, <1>10, <1>11 DEF Sound

LEMMA CommitMigrationInv == ASSUME IInv, NEW c \in Conn, CommitMigration(c) PROVE IInv'
<1> USE StoreAssumption DEF IInv
<1>1. /\ Commit(c) /\ Went(c, "commit", "call")
     /\ History
  BY Goes DEF CommitMigration, At, Places, Went, History
<1>2. db' \in Database /\ work' \in Database
  BY <1>1, Typed DEF Went, Commit, Only, History, TypeOK, Database, Versions, Id, Connection,
     Sound, MigrationInv, SelectInv, InMigration, InSelect, CallInv
<1>3. TypeOK'
  BY <1>1, <1>2 DEF Went, Commit, Only, History, CommitMigration, TypeOK
<1>4. LockInv'
  BY <1>1 DEF Went, Commit, Only, History, LockInv, Inside, InMigration, InSelect
<1>5. Whole(db)' /\ NoRawError'
  BY <1>1, Typed DEF Went, Commit, Only, History, TypeOK, Database, Id, InMigration, InSelect,
     Whole, NoRawError, Sound, MigrationInv, SelectInv, CallInv, RowsOf
<1>6. MigrationInv(c)'
  BY <1>1, <1>2 DEF Went, Commit, Only, History, TypeOK, Database, Versions, Connection,
     InMigration, Sound, MigrationInv, Known, LockInv, Whole
<1>7. SelectInv(c)'
  BY <1>1, <1>2 DEF Went, Commit, Only, History, TypeOK, Database, Connection, InSelect, Sound,
     SelectInv, RowsOf, LockInv
<1>8. CallInv(c)'
  BY <1>1, <1>2 DEF Went, Commit, Only, History, TypeOK, Database, Connection, InMigration,
     InSelect, Sound, CallInv, SelectInv, MigrationInv, LockInv, Inside, RowsOf
<1>9. db.version <= db'.version
  BY <1>1, <1>2, Typed DEF Went, Commit, Only, History, TypeOK, Database, Versions, InMigration,
     InSelect, Sound, MigrationInv, SelectInv
<1>10. BornInv(c)'
  BY <1>1, <1>2, <1>9 DEF Went, Commit, Only, History, TypeOK, Database, Versions, Sound, BornInv,
     Known
<1>11. ASSUME NEW d \in Conn, d # c PROVE Sound(d)'
  <2>1. conn'[d] = conn[d] /\ born'[d] = born[d]
    BY <1>1, <1>11 DEF Went, Commit, Only, History
  <2>2. db'.version \in Nat /\ (db.rows[d] = NoPath => db'.rows[d] = NoPath)
    BY <1>1, <1>2, <1>11 DEF Went, Commit, Only, History, TypeOK, Database, Versions, Id, Sound,
       MigrationInv, SelectInv, InMigration, InSelect
  <2>3. UNCHANGED <<db, work, writer>> \/ writer \in {c, NoConn}
    BY <1>1 DEF Went, Commit, Only, History, LockInv, Inside, InMigration, InSelect
  <2> QED
    BY <1>9, <1>11, <2>1, <2>2, <2>3, OthersSound
<1> QED
  BY <1>3, <1>4, <1>5, <1>6, <1>7, <1>8, <1>10, <1>11 DEF Sound

LEMMA UndoInv == ASSUME IInv, NEW c \in Conn, Undo(c) PROVE IInv'
<1> USE StoreAssumption DEF IInv
<1>1. /\ RollBack({c}) /\ Answered(c, "undo")
     /\ History
  <2>1. \E says \in {"missing", "refused"}, id \in Id \cup {NoId} : Reply(c, says, id, {})
    BY Typed DEF Undo
  <2> QED
    BY <2>1, Replies DEF Undo, At, Says, Answered, History
<1>2. db' \in Database /\ work' \in Database
  BY <1>1, Typed DEF Answered, RollBack, Only, History, TypeOK, Database, Versions, Id,
     Connection, Sound, MigrationInv, SelectInv, InMigration, InSelect, CallInv
<1>3. TypeOK'
  BY <1>1, <1>2 DEF Answered, RollBack, Only, History, Undo, TypeOK
<1>4. LockInv'
  BY <1>1 DEF Answered, RollBack, Only, History, LockInv, Inside, InMigration, InSelect
<1>5. Whole(db)' /\ NoRawError'
  BY <1>1, Typed DEF Answered, RollBack, Only, History, TypeOK, Database, Id, InMigration,
     InSelect, Whole, NoRawError, Sound, MigrationInv, SelectInv, CallInv, RowsOf
<1>6. MigrationInv(c)'
  BY <1>1, <1>2 DEF Answered, RollBack, Only, History, TypeOK, Database, Versions, Connection,
     InMigration, Sound, MigrationInv, Known, LockInv, Whole
<1>7. SelectInv(c)'
  BY <1>1, <1>2 DEF Answered, RollBack, Only, History, TypeOK, Database, Connection, InSelect,
     Sound, SelectInv, RowsOf, LockInv
<1>8. CallInv(c)'
  BY <1>1, <1>2 DEF Answered, RollBack, Only, History, TypeOK, Database, Connection, InMigration,
     InSelect, Sound, CallInv, SelectInv, MigrationInv, LockInv, Inside, RowsOf
<1>9. db.version <= db'.version
  BY <1>1, <1>2, Typed DEF Answered, RollBack, Only, History, TypeOK, Database, Versions,
     InMigration, InSelect, Sound, MigrationInv, SelectInv
<1>10. BornInv(c)'
  BY <1>1, <1>2, <1>9 DEF Answered, RollBack, Only, History, TypeOK, Database, Versions, Sound,
     BornInv, Known
<1>11. ASSUME NEW d \in Conn, d # c PROVE Sound(d)'
  <2>1. conn'[d] = conn[d] /\ born'[d] = born[d]
    BY <1>1, <1>11 DEF Answered, RollBack, Only, History
  <2>2. db'.version \in Nat /\ (db.rows[d] = NoPath => db'.rows[d] = NoPath)
    BY <1>1, <1>2, <1>11 DEF Answered, RollBack, Only, History, TypeOK, Database, Versions, Id,
       Sound, MigrationInv, SelectInv, InMigration, InSelect
  <2>3. UNCHANGED <<db, work, writer>> \/ writer \in {c, NoConn}
    BY <1>1 DEF Answered, RollBack, Only, History, LockInv, Inside, InMigration, InSelect
  <2> QED
    BY <1>9, <1>11, <2>1, <2>2, <2>3, OthersSound
<1> QED
  BY <1>3, <1>4, <1>5, <1>6, <1>7, <1>8, <1>10, <1>11 DEF Sound

LEMMA InsertProjectInv == ASSUME IInv, NEW c \in Conn, InsertProject(c) PROVE IInv'
<1> USE StoreAssumption DEF IInv
<1>1. /\ conn[c].call.kind = "add"
     /\ \/ /\ Write([db EXCEPT !.rows[c] = conn[c].call.path]) /\ Answered(c, "call")
        \/ Write(db) /\ Went(c, "call", "existing")
     /\ History
  <2>1. CASE Holder(db, conn[c].call.path) = {}
    <3>1. Reply(c, "row", c, {}) /\ Write([db EXCEPT !.rows[c] = conn[c].call.path])
      BY <2>1 DEF InsertProject
    <3> QED
      BY <3>1, Replies, Typed DEF InsertProject, Calling, At, Says, Answered, History
  <2>2. CASE Holder(db, conn[c].call.path) # {}
    BY <2>2, Goes DEF InsertProject, Calling, At, Places, Went, History
  <2> QED
    BY <2>1, <2>2
<1>2. db' \in Database /\ work' \in Database
  <2>1. c \in Id /\ conn[c].call.path \in Path /\ db.rows[c] = NoPath
    BY <1>1, Typed DEF Went, Answered, Sound, CallInv
  <2> QED
    BY <1>1, <2>1, AddedTo DEF TypeOK, Write
<1>3. TypeOK'
  BY <1>1, <1>2 DEF Went, Answered, Write, Only, History, InsertProject, TypeOK
<1>4. LockInv'
  BY <1>1 DEF Went, Answered, Write, Only, History, LockInv, Inside, InMigration, InSelect
<1>5. Whole(db)' /\ NoRawError'
  <2>1. c \in Id /\ conn[c].call.path \in Path /\ db.rows[c] = NoPath
    BY <1>1, Typed DEF Went, Answered, Sound, CallInv
  <2>2. Whole(db)'
    BY <1>1, <2>1, AddedTo DEF TypeOK, Write, Whole, RowsOf
  <2> QED
    BY <1>1, <2>2 DEF Went, Answered, Only, NoRawError
<1>6. MigrationInv(c)'
  BY <1>1, <1>2 DEF Went, Answered, Write, Only, History, TypeOK, Database, Versions, Connection,
     InMigration, Sound, MigrationInv, Known, LockInv, Whole
<1>7. SelectInv(c)'
  BY <1>1, <1>2 DEF Went, Answered, Write, Only, History, TypeOK, Database, Connection, InSelect,
     Sound, SelectInv, RowsOf, LockInv
<1>8. CallInv(c)'
  BY <1>1 DEF Went, Answered, Write, Only, Sound, CallInv
<1>9. db.version <= db'.version
  <2>1. c \in Id /\ conn[c].call.path \in Path /\ db.rows[c] = NoPath
    BY <1>1, Typed DEF Went, Answered, Sound, CallInv
  <2>2. db'.version = db.version
    BY <1>1, <2>1, AddedTo DEF TypeOK, Write
  <2> QED
    BY <2>2, Typed
<1>10. BornInv(c)'
  BY <1>1, <1>2, <1>9 DEF Went, Answered, Write, Only, History, TypeOK, Database, Versions, Sound,
     BornInv, Known
<1>11. ASSUME NEW d \in Conn, d # c PROVE Sound(d)'
  <2>1. conn'[d] = conn[d] /\ born'[d] = born[d]
    BY <1>1, <1>11 DEF Went, Answered, Write, Only, History
  <2>2. db'.version \in Nat /\ (db.rows[d] = NoPath => db'.rows[d] = NoPath)
    BY <1>1, <1>2, <1>11 DEF Went, Answered, Write, Only, History, TypeOK, Database, Versions, Id,
       Sound, MigrationInv, SelectInv, InMigration, InSelect
  <2>3. UNCHANGED <<db, work, writer>> \/ writer \in {c, NoConn}
    BY <1>1 DEF Went, Answered, Write, Only, History, LockInv, Inside, InMigration, InSelect
  <2> QED
    BY <1>9, <1>11, <2>1, <2>2, <2>3, OthersSound
<1> QED
  BY <1>3, <1>4, <1>5, <1>6, <1>7, <1>8, <1>10, <1>11 DEF Sound

LEMMA InsertConflictInv == ASSUME IInv, NEW c \in Conn, InsertConflict(c) PROVE IInv'
<1> USE StoreAssumption DEF IInv
<1>1. /\ Apart /\ Answered(c, "existing")
     /\ History
  <2>1. CASE Holder(db, conn[c].call.path) = {}
    <3>1. conn' = [conn EXCEPT ![c].at = "done", ![c].error = "id_taken",
                               ![c].answer = Answer("refused", NoId, {})]
      BY <2>1 DEF InsertConflict
    <3>2. conn[c].at = "existing" /\ Apart /\ History
      BY DEF InsertConflict, At, Still, Apart, History
    <3>3. Only(c)
      <4>1. conn \in [Conn -> Connection]
        BY DEF TypeOK
      <4>2. [conn[c] EXCEPT !.at = "done", !.error = "id_taken",
                            !.answer = Answer("refused", NoId, {})] \in Connection
        BY ZenonT(60), <4>1 DEF Connection, Answer, Places, Says, Errors
      <4>3. conn' \in [Conn -> Connection] /\ \A d \in Conn \ {c} : conn'[d] = conn[d]
        BY <3>1, <4>1, <4>2
      <4>4. conn'[c].call = conn[c].call
        BY <3>1, <4>1 DEF Connection
      <4> QED
        BY <4>3, <4>4 DEF Only
    <3>4. conn'[c].at = "done" /\ conn'[c].error = "id_taken"
      BY <3>1 DEF TypeOK, Connection
    <3>5. conn'[c].answer # NoAnswer
      BY <3>1 DEF TypeOK, Connection, Answer, NoAnswer
    <3> QED
      BY <3>2, <3>3, <3>4, <3>5 DEF Answered
  <2>2. CASE Holder(db, conn[c].call.path) # {}
    <3>1. PICK i \in Holder(db, conn[c].call.path) : Reply(c, "duplicate", i, {})
      BY <2>2 DEF InsertConflict
    <3> QED
      BY <3>1, Replies DEF InsertConflict, At, Still, Holder, Says, Answered, Apart, History
  <2> QED
    BY <2>1, <2>2
<1>2. db' \in Database /\ work' \in Database
  BY <1>1, Typed DEF Answered, Apart, Only, History, TypeOK, Database, Versions, Id, Connection,
     Sound, MigrationInv, SelectInv, InMigration, InSelect, CallInv
<1>3. TypeOK'
  BY <1>1, <1>2 DEF Answered, Apart, Only, History, InsertConflict, Still, TypeOK
<1>4. LockInv'
  BY <1>1 DEF Answered, Apart, Only, History, LockInv, Inside, InMigration, InSelect
<1>5. Whole(db)' /\ NoRawError'
  BY <1>1, Typed DEF Answered, Apart, Only, History, TypeOK, Database, Id, InMigration, InSelect,
     Whole, NoRawError, Sound, MigrationInv, SelectInv, CallInv, RowsOf
<1>6. MigrationInv(c)'
  BY <1>1, <1>2 DEF Answered, Apart, Only, History, TypeOK, Database, Versions, Connection,
     InMigration, Sound, MigrationInv, Known, LockInv, Whole
<1>7. SelectInv(c)'
  BY <1>1, <1>2 DEF Answered, Apart, Only, History, TypeOK, Database, Connection, InSelect, Sound,
     SelectInv, RowsOf, LockInv
<1>8. CallInv(c)'
  BY <1>1, <1>2 DEF Answered, Apart, Only, History, TypeOK, Database, Connection, InMigration,
     InSelect, Sound, CallInv, SelectInv, MigrationInv, LockInv, Inside, RowsOf
<1>9. db.version <= db'.version
  BY <1>1, <1>2, Typed DEF Answered, Apart, Only, History, TypeOK, Database, Versions,
     InMigration, InSelect, Sound, MigrationInv, SelectInv
<1>10. BornInv(c)'
  BY <1>1, <1>2, <1>9 DEF Answered, Apart, Only, History, TypeOK, Database, Versions, Sound,
     BornInv, Known
<1>11. ASSUME NEW d \in Conn, d # c PROVE Sound(d)'
  <2>1. conn'[d] = conn[d] /\ born'[d] = born[d]
    BY <1>1, <1>11 DEF Answered, Apart, Only, History
  <2>2. db'.version \in Nat /\ (db.rows[d] = NoPath => db'.rows[d] = NoPath)
    BY <1>1, <1>2, <1>11 DEF Answered, Apart, Only, History, TypeOK, Database, Versions, Id,
       Sound, MigrationInv, SelectInv, InMigration, InSelect
  <2>3. UNCHANGED <<db, work, writer>> \/ writer \in {c, NoConn}
    BY <1>1 DEF Answered, Apart, Only, History, LockInv, Inside, InMigration, InSelect
  <2> QED
    BY <1>9, <1>11, <2>1, <2>2, <2>3, OthersSound
<1> QED
  BY <1>3, <1>4, <1>5, <1>6, <1>7, <1>8, <1>10, <1>11 DEF Sound

LEMMA RemoveProjectInv == ASSUME IInv, NEW c \in Conn, RemoveProject(c) PROVE IInv'
<1> USE StoreAssumption DEF IInv
<1>1. /\ conn[c].call.kind = "remove" /\ Answered(c, "call")
     /\ Write(Without(db, conn[c].call.id))
     /\ History
  <2>1. \E says \in {"removed", "missing"} : Reply(c, says, conn[c].call.id, {})
    BY DEF RemoveProject
  <2> QED
    BY <2>1, Replies, Typed DEF RemoveProject, Without, Calling, At, Says, Answered, History
<1>2. db' \in Database /\ work' \in Database
  <2>1. conn[c].call.id \in Id
    BY <1>1 DEF Sound, CallInv
  <2> QED
    BY <1>1, <2>1, RemovedFrom DEF TypeOK, Write
<1>3. TypeOK'
  BY <1>1, <1>2 DEF Answered, Write, Only, History, RemoveProject, TypeOK
<1>4. LockInv'
  BY <1>1 DEF Answered, Write, Only, History, LockInv, Inside, InMigration, InSelect
<1>5. Whole(db)' /\ NoRawError'
  <2>1. conn[c].call.id \in Id
    BY <1>1 DEF Sound, CallInv
  <2>2. Whole(db')
    <3>1. db \in Database /\ Whole(db)
      BY DEF TypeOK
    <3>2. db' = Without(db, conn[c].call.id)
      BY <1>1 DEF Write
    <3> HIDE DEF IInv
    <3> QED
      BY <2>1, <3>1, <3>2, RemovedFrom
  <2>3. Whole(db)'
    BY <2>2 DEF Whole, RowsOf
  <2> QED
    BY <1>1, <2>3 DEF Answered, Only, NoRawError
<1>6. MigrationInv(c)'
  BY <1>1, <1>2 DEF Answered, Write, Only, History, TypeOK, Database, Versions, Connection,
     InMigration, Sound, MigrationInv, Known, LockInv, Whole
<1>7. SelectInv(c)'
  BY <1>1, <1>2 DEF Answered, Write, Only, History, TypeOK, Database, Connection, InSelect, Sound,
     SelectInv, RowsOf, LockInv
<1>8. CallInv(c)'
  BY <1>1, <1>2 DEF Answered, Write, Only, History, TypeOK, Database, Connection, InMigration,
     InSelect, Sound, CallInv, SelectInv, MigrationInv, LockInv, Inside, RowsOf
<1>9. db.version <= db'.version
  <2>1. conn[c].call.id \in Id /\ db' = Without(db, conn[c].call.id)
    BY <1>1 DEF Sound, CallInv, Write
  <2> QED
    BY <2>1, RemovedFrom, Typed DEF TypeOK
<1>10. BornInv(c)'
  BY <1>1, <1>2, <1>9 DEF Answered, Write, Only, History, TypeOK, Database, Versions, Sound,
     BornInv, Known
<1>11. ASSUME NEW d \in Conn, d # c PROVE Sound(d)'
  <2>1. conn'[d] = conn[d] /\ born'[d] = born[d]
    BY <1>1, <1>11 DEF Answered, Write, Only, History
  <2>2. db'.version \in Nat /\ (db.rows[d] = NoPath => db'.rows[d] = NoPath)
    <3>1. conn[c].call.id \in Id /\ db' = Without(db, conn[c].call.id)
      BY <1>1 DEF Sound, CallInv, Write
    <3>2. db'.version \in Nat
      BY <3>1, RemovedFrom, Typed DEF TypeOK
    <3>3. \A j \in Id : db.rows[j] = NoPath => db'.rows[j] = NoPath
      BY <3>1, RemovedFrom DEF TypeOK
    <3> QED
      BY <3>2, <3>3 DEF Id
  <2>3. UNCHANGED <<db, work, writer>> \/ writer \in {c, NoConn}
    BY <1>1 DEF Answered, Write, Only, History, LockInv, Inside, InMigration, InSelect
  <2> QED
    BY <1>9, <1>11, <2>1, <2>2, <2>3, OthersSound
<1> QED
  BY <1>3, <1>4, <1>5, <1>6, <1>7, <1>8, <1>10, <1>11 DEF Sound

LEMMA ListProjectsInv == ASSUME IInv, NEW c \in Conn, ListProjects(c) PROVE IInv'
<1> USE StoreAssumption DEF IInv
<1>1. /\ Apart /\ Answered(c, "call")
     /\ History
  BY Replies, Typed DEF ListProjects, At, Calling, Still, Says, Answered, Apart, History
<1>2. db' \in Database /\ work' \in Database
  BY <1>1, Typed DEF Answered, Apart, Only, History, TypeOK, Database, Versions, Id, Connection,
     Sound, MigrationInv, SelectInv, InMigration, InSelect, CallInv
<1>3. TypeOK'
  BY <1>1, <1>2 DEF Answered, Apart, Only, History, ListProjects, Still, TypeOK
<1>4. LockInv'
  BY <1>1 DEF Answered, Apart, Only, History, LockInv, Inside, InMigration, InSelect
<1>5. Whole(db)' /\ NoRawError'
  BY <1>1, Typed DEF Answered, Apart, Only, History, TypeOK, Database, Id, InMigration, InSelect,
     Whole, NoRawError, Sound, MigrationInv, SelectInv, CallInv, RowsOf
<1>6. MigrationInv(c)'
  BY <1>1, <1>2 DEF Answered, Apart, Only, History, TypeOK, Database, Versions, Connection,
     InMigration, Sound, MigrationInv, Known, LockInv, Whole
<1>7. SelectInv(c)'
  BY <1>1, <1>2 DEF Answered, Apart, Only, History, TypeOK, Database, Connection, InSelect, Sound,
     SelectInv, RowsOf, LockInv
<1>8. CallInv(c)'
  BY <1>1, <1>2 DEF Answered, Apart, Only, History, TypeOK, Database, Connection, InMigration,
     InSelect, Sound, CallInv, SelectInv, MigrationInv, LockInv, Inside, RowsOf
<1>9. db.version <= db'.version
  BY <1>1, <1>2, Typed DEF Answered, Apart, Only, History, TypeOK, Database, Versions,
     InMigration, InSelect, Sound, MigrationInv, SelectInv
<1>10. BornInv(c)'
  BY <1>1, <1>2, <1>9 DEF Answered, Apart, Only, History, TypeOK, Database, Versions, Sound,
     BornInv, Known
<1>11. ASSUME NEW d \in Conn, d # c PROVE Sound(d)'
  <2>1. conn'[d] = conn[d] /\ born'[d] = born[d]
    BY <1>1, <1>11 DEF Answered, Apart, Only, History
  <2>2. db'.version \in Nat /\ (db.rows[d] = NoPath => db'.rows[d] = NoPath)
    BY <1>1, <1>2, <1>11 DEF Answered, Apart, Only, History, TypeOK, Database, Versions, Id,
       Sound, MigrationInv, SelectInv, InMigration, InSelect
  <2>3. UNCHANGED <<db, work, writer>> \/ writer \in {c, NoConn}
    BY <1>1 DEF Answered, Apart, Only, History, LockInv, Inside, InMigration, InSelect
  <2> QED
    BY <1>9, <1>11, <2>1, <2>2, <2>3, OthersSound
<1> QED
  BY <1>3, <1>4, <1>5, <1>6, <1>7, <1>8, <1>10, <1>11 DEF Sound

LEMMA GetSelectedInv == ASSUME IInv, NEW c \in Conn, GetSelected(c) PROVE IInv'
<1> USE StoreAssumption DEF IInv
<1>1. /\ Apart /\ Answered(c, "call")
     /\ History
  <2>1. \E i \in Id \cup {NoId} : Reply(c, "row", i, {})
    BY DEF GetSelected, RowsOf
  <2> QED
    BY <2>1, Replies DEF GetSelected, Calling, At, Still, Says, Answered, Apart, History
<1>2. db' \in Database /\ work' \in Database
  BY <1>1, Typed DEF Answered, Apart, Only, History, TypeOK, Database, Versions, Id, Connection,
     Sound, MigrationInv, SelectInv, InMigration, InSelect, CallInv
<1>3. TypeOK'
  BY <1>1, <1>2 DEF Answered, Apart, Only, History, GetSelected, Still, TypeOK
<1>4. LockInv'
  BY <1>1 DEF Answered, Apart, Only, History, LockInv, Inside, InMigration, InSelect
<1>5. Whole(db)' /\ NoRawError'
  BY <1>1, Typed DEF Answered, Apart, Only, History, TypeOK, Database, Id, InMigration, InSelect,
     Whole, NoRawError, Sound, MigrationInv, SelectInv, CallInv, RowsOf
<1>6. MigrationInv(c)'
  BY <1>1, <1>2 DEF Answered, Apart, Only, History, TypeOK, Database, Versions, Connection,
     InMigration, Sound, MigrationInv, Known, LockInv, Whole
<1>7. SelectInv(c)'
  BY <1>1, <1>2 DEF Answered, Apart, Only, History, TypeOK, Database, Connection, InSelect, Sound,
     SelectInv, RowsOf, LockInv
<1>8. CallInv(c)'
  BY <1>1, <1>2 DEF Answered, Apart, Only, History, TypeOK, Database, Connection, InMigration,
     InSelect, Sound, CallInv, SelectInv, MigrationInv, LockInv, Inside, RowsOf
<1>9. db.version <= db'.version
  BY <1>1, <1>2, Typed DEF Answered, Apart, Only, History, TypeOK, Database, Versions,
     InMigration, InSelect, Sound, MigrationInv, SelectInv
<1>10. BornInv(c)'
  BY <1>1, <1>2, <1>9 DEF Answered, Apart, Only, History, TypeOK, Database, Versions, Sound,
     BornInv, Known
<1>11. ASSUME NEW d \in Conn, d # c PROVE Sound(d)'
  <2>1. conn'[d] = conn[d] /\ born'[d] = born[d]
    BY <1>1, <1>11 DEF Answered, Apart, Only, History
  <2>2. db'.version \in Nat /\ (db.rows[d] = NoPath => db'.rows[d] = NoPath)
    BY <1>1, <1>2, <1>11 DEF Answered, Apart, Only, History, TypeOK, Database, Versions, Id,
       Sound, MigrationInv, SelectInv, InMigration, InSelect
  <2>3. UNCHANGED <<db, work, writer>> \/ writer \in {c, NoConn}
    BY <1>1 DEF Answered, Apart, Only, History, LockInv, Inside, InMigration, InSelect
  <2> QED
    BY <1>9, <1>11, <2>1, <2>2, <2>3, OthersSound
<1> QED
  BY <1>3, <1>4, <1>5, <1>6, <1>7, <1>8, <1>10, <1>11 DEF Sound

LEMMA BeginSelectInv == ASSUME IInv, NEW c \in Conn, BeginSelect(c) PROVE IInv'
<1> USE StoreAssumption DEF IInv
<1>1. /\ Lock(c) /\ Went(c, "call", "look") /\ conn[c].call.kind = "select"
     /\ History
  BY Goes DEF BeginSelect, At, Calling, Places, InSelect, Went, History
<1>2. db' \in Database /\ work' \in Database
  BY <1>1, Typed DEF Went, Lock, Only, History, TypeOK, Database, Versions, Id, Connection, Sound,
     MigrationInv, SelectInv, InMigration, InSelect, CallInv
<1>3. TypeOK'
  BY <1>1, <1>2 DEF Went, Lock, Only, History, BeginSelect, TypeOK
<1>4. LockInv'
  BY <1>1 DEF Went, Lock, Only, History, LockInv, Inside, InMigration, InSelect
<1>5. Whole(db)' /\ NoRawError'
  BY <1>1, Typed DEF Went, Lock, Only, History, TypeOK, Database, Id, InMigration, InSelect,
     Whole, NoRawError, Sound, MigrationInv, SelectInv, CallInv, RowsOf
<1>6. MigrationInv(c)'
  BY <1>1, <1>2 DEF Went, Lock, Only, History, TypeOK, Database, Versions, Connection,
     InMigration, Sound, MigrationInv, Known, LockInv, Whole
<1>7. SelectInv(c)'
  BY <1>1, <1>2 DEF Went, Lock, Only, History, TypeOK, Database, Connection, InSelect, Sound,
     SelectInv, RowsOf, LockInv
<1>8. CallInv(c)'
  BY <1>1, <1>2 DEF Went, Lock, Only, History, TypeOK, Database, Connection, InMigration,
     InSelect, Sound, CallInv, SelectInv, MigrationInv, LockInv, Inside, RowsOf
<1>9. db.version <= db'.version
  BY <1>1, <1>2, Typed DEF Went, Lock, Only, History, TypeOK, Database, Versions, InMigration,
     InSelect, Sound, MigrationInv, SelectInv
<1>10. BornInv(c)'
  BY <1>1, <1>2, <1>9 DEF Went, Lock, Only, History, TypeOK, Database, Versions, Sound, BornInv,
     Known
<1>11. ASSUME NEW d \in Conn, d # c PROVE Sound(d)'
  <2>1. conn'[d] = conn[d] /\ born'[d] = born[d]
    BY <1>1, <1>11 DEF Went, Lock, Only, History
  <2>2. db'.version \in Nat /\ (db.rows[d] = NoPath => db'.rows[d] = NoPath)
    BY <1>1, <1>2, <1>11 DEF Went, Lock, Only, History, TypeOK, Database, Versions, Id, Sound,
       MigrationInv, SelectInv, InMigration, InSelect
  <2>3. UNCHANGED <<db, work, writer>> \/ writer \in {c, NoConn}
    BY <1>1 DEF Went, Lock, Only, History, LockInv, Inside, InMigration, InSelect
  <2> QED
    BY <1>9, <1>11, <2>1, <2>2, <2>3, OthersSound
<1> QED
  BY <1>3, <1>4, <1>5, <1>6, <1>7, <1>8, <1>10, <1>11 DEF Sound

LEMMA SelectRowInv == ASSUME IInv, NEW c \in Conn, SelectRow(c) PROVE IInv'
<1> USE StoreAssumption DEF IInv
<1>1. /\ Apart
     /\ \/ conn[c].call.id \in RowsOf(work) \cup {NoId} /\ Went(c, "look", "update")
        \/ conn[c].call.id \notin RowsOf(work) \cup {NoId} /\ Raised(c, "look", "missing")
     /\ History
  BY Goes, Raises DEF SelectRow, At, Still, Places, InSelect, Errors, Went, Raised, Apart,
     History
<1>2. db' \in Database /\ work' \in Database
  BY <1>1, Typed DEF Went, Raised, Apart, Only, History, TypeOK, Database, Versions, Id,
     Connection, Sound, MigrationInv, SelectInv, InMigration, InSelect, CallInv
<1>3. TypeOK'
  BY <1>1, <1>2 DEF Went, Raised, Apart, Only, History, SelectRow, Still, TypeOK
<1>4. LockInv'
  BY <1>1 DEF Went, Raised, Apart, Only, History, LockInv, Inside, InMigration, InSelect
<1>5. Whole(db)' /\ NoRawError'
  BY <1>1, Typed DEF Went, Raised, Apart, Only, History, TypeOK, Database, Id, InMigration,
     InSelect, Whole, NoRawError, Sound, MigrationInv, SelectInv, CallInv, RowsOf
<1>6. MigrationInv(c)'
  BY <1>1, <1>2 DEF Went, Raised, Apart, Only, History, TypeOK, Database, Versions, Connection,
     InMigration, Sound, MigrationInv, Known, LockInv, Whole
<1>7. SelectInv(c)'
  BY <1>1, <1>2 DEF Went, Raised, Apart, Only, History, TypeOK, Database, Connection, InSelect,
     Sound, SelectInv, RowsOf, LockInv
<1>8. CallInv(c)'
  BY <1>1 DEF Went, Raised, Apart, Only, InSelect, Sound, CallInv, SelectInv, LockInv,
     Inside
<1>9. db.version <= db'.version
  BY <1>1, <1>2, Typed DEF Went, Raised, Apart, Only, History, TypeOK, Database, Versions,
     InMigration, InSelect, Sound, MigrationInv, SelectInv
<1>10. BornInv(c)'
  BY <1>1, <1>2, <1>9 DEF Went, Raised, Apart, Only, History, TypeOK, Database, Versions, Sound,
     BornInv, Known
<1>11. ASSUME NEW d \in Conn, d # c PROVE Sound(d)'
  <2>1. conn'[d] = conn[d] /\ born'[d] = born[d]
    BY <1>1, <1>11 DEF Went, Raised, Apart, Only, History
  <2>2. db'.version \in Nat /\ (db.rows[d] = NoPath => db'.rows[d] = NoPath)
    BY <1>1, <1>2, <1>11 DEF Went, Raised, Apart, Only, History, TypeOK, Database, Versions, Id,
       Sound, MigrationInv, SelectInv, InMigration, InSelect
  <2>3. UNCHANGED <<db, work, writer>> \/ writer \in {c, NoConn}
    BY <1>1 DEF Went, Raised, Apart, Only, History, LockInv, Inside, InMigration, InSelect
  <2> QED
    BY <1>9, <1>11, <2>1, <2>2, <2>3, OthersSound
<1> QED
  BY <1>3, <1>4, <1>5, <1>6, <1>7, <1>8, <1>10, <1>11 DEF Sound

LEMMA UpdateSelectionInv == ASSUME IInv, NEW c \in Conn, UpdateSelection(c) PROVE IInv'
<1> USE StoreAssumption DEF IInv
<1>1. /\ UNCHANGED <<db, writer>> /\ Went(c, "update", "seal")
     /\ work' = [work EXCEPT !.selected = conn[c].call.id]
     /\ History
  BY Goes DEF UpdateSelection, At, Places, InSelect, Went, History, Sound, SelectInv
<1>2. db' \in Database /\ work' \in Database
  BY <1>1, Typed DEF Went, Only, History, TypeOK, Database, Versions, Id, Connection, Sound,
     MigrationInv, SelectInv, InMigration, InSelect, CallInv
<1>3. TypeOK'
  BY <1>1, <1>2 DEF Went, Only, History, UpdateSelection, TypeOK
<1>4. LockInv'
  BY <1>1 DEF Went, Only, History, LockInv, Inside, InMigration, InSelect
<1>5. Whole(db)' /\ NoRawError'
  BY <1>1, Typed DEF Went, Only, History, TypeOK, Database, Id, InMigration, InSelect, Whole,
     NoRawError, Sound, MigrationInv, SelectInv, CallInv, RowsOf
<1>6. MigrationInv(c)'
  BY <1>1, <1>2 DEF Went, Only, History, TypeOK, Database, Versions, Connection, InMigration,
     Sound, MigrationInv, Known, LockInv, Whole
<1>7. SelectInv(c)'
  BY <1>1, <1>2 DEF Went, Only, History, TypeOK, Database, Connection, InSelect, Sound, SelectInv,
     RowsOf, LockInv
<1>8. CallInv(c)'
  BY <1>1, <1>2 DEF Went, Only, History, TypeOK, Database, Connection, InMigration, InSelect,
     Sound, CallInv, SelectInv, MigrationInv, LockInv, Inside, RowsOf
<1>9. db.version <= db'.version
  BY <1>1, <1>2, Typed DEF Went, Only, History, TypeOK, Database, Versions, InMigration, InSelect,
     Sound, MigrationInv, SelectInv
<1>10. BornInv(c)'
  BY <1>1, <1>2, <1>9 DEF Went, Only, History, TypeOK, Database, Versions, Sound, BornInv, Known
<1>11. ASSUME NEW d \in Conn, d # c PROVE Sound(d)'
  <2>1. conn'[d] = conn[d] /\ born'[d] = born[d]
    BY <1>1, <1>11 DEF Went, Only, History
  <2>2. db'.version \in Nat /\ (db.rows[d] = NoPath => db'.rows[d] = NoPath)
    BY <1>1, <1>2, <1>11 DEF Went, Only, History, TypeOK, Database, Versions, Id, Sound,
       MigrationInv, SelectInv, InMigration, InSelect
  <2>3. UNCHANGED <<db, work, writer>> \/ writer \in {c, NoConn}
    BY <1>1 DEF Went, Only, History, LockInv, Inside, InMigration, InSelect
  <2> QED
    BY <1>9, <1>11, <2>1, <2>2, <2>3, OthersSound
<1> QED
  BY <1>3, <1>4, <1>5, <1>6, <1>7, <1>8, <1>10, <1>11 DEF Sound

LEMMA CommitSelectInv == ASSUME IInv, NEW c \in Conn, CommitSelect(c) PROVE IInv'
<1> USE StoreAssumption DEF IInv
<1>1. /\ Commit(c) /\ Answered(c, "seal")
     /\ History
  <2>1. Reply(c, "row", conn[c].call.id, {})
    BY DEF CommitSelect
  <2> QED
    BY <2>1, Replies, Typed DEF CommitSelect, At, Says, Answered, History
<1>2. db' \in Database /\ work' \in Database
  BY <1>1, Typed DEF Answered, Commit, Only, History, TypeOK, Database, Versions, Id, Connection,
     Sound, MigrationInv, SelectInv, InMigration, InSelect, CallInv
<1>3. TypeOK'
  BY <1>1, <1>2 DEF Answered, Commit, Only, History, CommitSelect, TypeOK
<1>4. LockInv'
  BY <1>1 DEF Answered, Commit, Only, History, LockInv, Inside, InMigration, InSelect
<1>5. Whole(db)' /\ NoRawError'
  <2>1. db' = [db EXCEPT !.selected = conn[c].call.id] /\ conn[c].call.id \in RowsOf(db) \cup {NoId}
    BY <1>1 DEF Answered, Commit, Sound, SelectInv, InSelect
  <2>2. Whole(db)'
    BY <2>1, SelectedIn DEF TypeOK, Whole, RowsOf
  <2> QED
    BY <1>1, <2>2 DEF Answered, Only, NoRawError
<1>6. MigrationInv(c)'
  BY <1>1, <1>2 DEF Answered, Commit, Only, History, TypeOK, Database, Versions, Connection,
     InMigration, Sound, MigrationInv, Known, LockInv, Whole
<1>7. SelectInv(c)'
  BY <1>1, <1>2 DEF Answered, Commit, Only, History, TypeOK, Database, Connection, InSelect,
     Sound, SelectInv, RowsOf, LockInv
<1>8. CallInv(c)'
  BY <1>1, <1>2 DEF Answered, Commit, Only, History, TypeOK, Database, Connection, InMigration,
     InSelect, Sound, CallInv, SelectInv, MigrationInv, LockInv, Inside, RowsOf
<1>9. db.version <= db'.version
  <2>1. db' = [db EXCEPT !.selected = conn[c].call.id] /\ conn[c].call.id \in RowsOf(db) \cup {NoId}
    BY <1>1 DEF Answered, Commit, Sound, SelectInv, InSelect
  <2> QED
    BY <2>1, SelectedIn, Typed DEF TypeOK
<1>10. BornInv(c)'
  BY <1>1, <1>2, <1>9 DEF Answered, Commit, Only, History, TypeOK, Database, Versions, Sound,
     BornInv, Known
<1>11. ASSUME NEW d \in Conn, d # c PROVE Sound(d)'
  <2>1. conn'[d] = conn[d] /\ born'[d] = born[d]
    BY <1>1, <1>11 DEF Answered, Commit, Only, History
  <2>2. db'.version \in Nat /\ (db.rows[d] = NoPath => db'.rows[d] = NoPath)
    <3>1. db' = [db EXCEPT !.selected = conn[c].call.id] /\ conn[c].call.id \in RowsOf(db) \cup {NoId}
      BY <1>1 DEF Answered, Commit, Sound, SelectInv, InSelect
    <3> QED
      BY <1>2, <3>1, SelectedIn DEF TypeOK, Database, Versions
  <2>3. UNCHANGED <<db, work, writer>> \/ writer \in {c, NoConn}
    BY <1>1 DEF Answered, Commit, Only, History, LockInv, Inside, InMigration, InSelect
  <2> QED
    BY <1>9, <1>11, <2>1, <2>2, <2>3, OthersSound
<1> QED
  BY <1>3, <1>4, <1>5, <1>6, <1>7, <1>8, <1>10, <1>11 DEF Sound

LEMMA AskInv == ASSUME IInv, NEW c \in Conn, NEW call \in Calls, Ask(c, call),
                       call.kind = "add" => call.path \in Path,
                       call.kind = "remove" => call.id \in Id
                PROVE  IInv'
<1> USE StoreAssumption DEF IInv
<1>1. /\ conn[c].at = "idle" /\ conn' \in [Conn -> Connection]
      /\ conn'[c].at = "open" /\ conn'[c].call = call /\ conn'[c].error = conn[c].error
      /\ conn'[c].answer = conn[c].answer
      /\ \A d \in Conn \ {c} : conn'[d] = conn[d]
  BY ZenonT(60) DEF Ask, TypeOK, Connection, Places
<1>2. born' = [born EXCEPT ![c] = db.version] /\ Apart
  BY DEF Ask, Apart
<1>3. TypeOK'
  BY <1>1, <1>2, Typed DEF Ask, Apart, TypeOK, Database
<1>4. LockInv' /\ Whole(db)' /\ NoRawError'
  BY <1>1, <1>2 DEF Apart, LockInv, Inside, InMigration, InSelect, Whole, RowsOf, NoRawError
<1>5. Sound(c)'
  <2>1. MigrationInv(c)' /\ SelectInv(c)'
    BY <1>1 DEF MigrationInv, SelectInv, InMigration, InSelect
  <2>2. CallInv(c)'
    BY <1>1, <1>2 DEF Apart, Sound, CallInv, Calls, Kinds, NoCall
  <2>3. BornInv(c)'
    BY <1>1, <1>2, Typed DEF Apart, BornInv, TypeOK
  <2> QED
    BY <2>1, <2>2, <2>3 DEF Sound
<1>6. ASSUME NEW d \in Conn, d # c PROVE Sound(d)'
  <2>1. conn'[d] = conn[d] /\ born'[d] = born[d]
    BY <1>1, <1>2, <1>6 DEF TypeOK
  <2> QED
    BY <1>2, <1>6, <2>1, OthersSound DEF Apart
<1> QED
  BY <1>3, <1>4, <1>5, <1>6

LEMMA TimeOutInv == ASSUME IInv, NEW c \in Conn, TimeOut(c) PROVE IInv'
<1> USE StoreAssumption DEF IInv
<1>1. Apart /\ History /\ Only(c) /\ conn'[c].at = "done" /\ conn'[c].answer # NoAnswer
     /\ conn'[c].error = conn[c].error /\ ~Inside(c) /\ conn[c].at # "idle" /\ conn[c].at # "undo"
  BY Replies DEF TimeOut, Waits, Inside, InMigration, InSelect, Says, Apart, History
<1>2. TypeOK'
  BY <1>1 DEF TimeOut, Apart, Only, TypeOK
<1>3. LockInv' /\ Whole(db)' /\ NoRawError'
  BY <1>1 DEF Apart, Only, LockInv, Inside, InMigration, InSelect, Whole, RowsOf, NoRawError
<1>4. Sound(c)'
  BY <1>1 DEF Apart, History, Only, Sound, MigrationInv, SelectInv, CallInv, BornInv, InMigration,
     InSelect
<1>5. ASSUME NEW d \in Conn, d # c PROVE Sound(d)'
  BY <1>1, <1>5, OthersSound DEF Apart, History, Only
<1> QED
  BY <1>2, <1>3, <1>4, <1>5

LEMMA FailInv == ASSUME IInv, NEW c \in Conn, NEW auto \in BOOLEAN, Fail(c, auto) PROVE IInv'
<1> USE StoreAssumption DEF IInv
<1>1. /\ Only(c) /\ conn[c].at # "idle" /\ born' = born
     /\ \/ /\ Inside(c) /\ conn'[c].at = "undo" /\ conn'[c].error = "failed"
           /\ conn'[c].answer = conn[c].answer
        \/ /\ ~Inside(c) /\ conn'[c].at = "done" /\ conn'[c].error = conn[c].error
           /\ conn'[c].answer # NoAnswer
     /\ conn[c].at \notin {"idle", "undo", "done"}
  BY Replies, Raises DEF Fail, Inside, Says, Errors
<1>2. /\ UNCHANGED db /\ db \in Database
     /\ \/ writer = c /\ writer' = NoConn /\ work' = db
        \/ UNCHANGED <<work, writer>>
  BY DEF Fail, RollBack, TypeOK
<1>3. TypeOK'
  BY <1>1, <1>2 DEF Fail, Only, TypeOK
<1>4. LockInv'
  BY <1>1, <1>2 DEF Only, LockInv, Inside, InMigration, InSelect
<1>5. Whole(db)' /\ NoRawError'
  BY <1>1, <1>2 DEF Only, Whole, RowsOf, NoRawError
<1>6. Sound(c)'
  BY <1>1, <1>2 DEF Only, Sound, MigrationInv, SelectInv, CallInv, BornInv, InMigration, InSelect,
     Inside
<1>7. ASSUME NEW d \in Conn, d # c PROVE Sound(d)'
  <2>1. conn'[d] = conn[d] /\ born'[d] = born[d] /\ db.version \in Nat
    BY <1>1, <1>7, Typed DEF Only
  <2> QED
    BY <1>2, <1>7, <2>1, OthersSound
<1> QED
  BY <1>3, <1>4, <1>5, <1>6, <1>7

\* A crash ends its connections together.
LEMMA CrashInv == ASSUME IInv, NEW p \in Process, Crash(p) PROVE IInv'
<1> USE StoreAssumption DEF IInv
<1> DEFINE Lost == {c \in Conn : ProcessOf[c] = p /\ conn[c].at \notin {"idle", "done"}}
<1>1. /\ \A c \in Lost : /\ conn'[c] \in Connection /\ conn'[c].at = "done"
                        /\ conn'[c].error = conn[c].error /\ conn'[c].call = conn[c].call
                        /\ conn'[c].answer # NoAnswer
      /\ \A c \in Conn \ Lost : conn'[c] = conn[c]
      /\ conn' \in [Conn -> Connection]
  <2>1. conn \in [Conn -> Connection] /\ conn' = [c \in Conn |->
          IF c \in Lost THEN [conn[c] EXCEPT !.at = "done", !.answer = Answer("refused", NoId, {})]
          ELSE conn[c]]
    BY DEF Crash, TypeOK
  <2>2. \A c \in Lost : conn'[c] = [conn[c] EXCEPT !.at = "done", !.answer = Answer("refused", NoId, {})]
    BY <2>1
  <2>3. \A c \in Conn \ Lost : conn'[c] = conn[c]
    BY <2>1
  <2>4. ASSUME NEW c \in Lost
        PROVE  /\ conn'[c] \in Connection /\ conn'[c].at = "done"
               /\ conn'[c].error = conn[c].error /\ conn'[c].call = conn[c].call
               /\ conn'[c].answer # NoAnswer
    <3>1. conn[c] \in Connection
      BY <2>1 DEF Lost
    <3>2. [conn[c] EXCEPT !.at = "done", !.answer = Answer("refused", NoId, {})] \in Connection
      BY <3>1 DEF Connection, Answer, Places, Says, Errors
    <3>3. conn'[c].answer = Answer("refused", NoId, {})
      BY <2>2, <3>1 DEF Connection
    <3>4. conn'[c].answer # NoAnswer
      BY <3>3 DEF Answer, NoAnswer
    <3> QED
      <4>1. conn'[c] \in Connection
        BY <2>2, <3>2
      <4>2. /\ conn'[c].at = "done" /\ conn'[c].error = conn[c].error
            /\ conn'[c].call = conn[c].call
        BY ZenonT(60), <2>2, <3>1 DEF Connection
      <4> QED
        BY <3>4, <4>1, <4>2
  <2> QED
    BY <2>1, <2>3, <2>4
<1>2. /\ UNCHANGED <<db, born, faults, place>> /\ db \in Database
      /\ \/ writer \in Lost /\ writer' = NoConn /\ work' = db
         \/ writer \notin Lost /\ UNCHANGED <<work, writer>>
  BY DEF Crash, RollBack, TypeOK, LockInv, Inside, InMigration, InSelect
<1> HIDE DEF Lost
<1>3. TypeOK'
  BY <1>1, <1>2 DEF TypeOK
<1>4. LockInv'
  BY <1>1, <1>2 DEF LockInv, Inside, InMigration, InSelect, Lost
<1>5. Whole(db)' /\ NoRawError'
  BY <1>1, <1>2 DEF Whole, RowsOf, NoRawError
<1>6. ASSUME NEW c \in Conn PROVE Sound(c)'
  <2>1. CASE c \in Lost
    BY <1>1, <1>2, <2>1 DEF Lost, Sound, MigrationInv, SelectInv, CallInv, BornInv, InMigration,
       InSelect
  <2>2. CASE c \notin Lost
    BY <1>1, <1>2, <2>2 DEF LockInv, Inside, Sound, MigrationInv, SelectInv, CallInv, BornInv,
       RowsOf
  <2> QED
    BY <2>1, <2>2
<1> QED
  BY <1>3, <1>4, <1>5, <1>6

LEMMA StepInv == ASSUME IInv, NEW c \in Conn, Step(c) PROVE IInv'
  BY EnsureStoreDirInv, CheckVersionInv, BeginMigrationInv, RecheckInv, ApplyMigrationInv,
     BumpVersionInv, CommitMigrationInv, UndoInv, InsertProjectInv, InsertConflictInv,
     RemoveProjectInv, ListProjectsInv, GetSelectedInv, BeginSelectInv, SelectRowInv,
     UpdateSelectionInv, CommitSelectInv DEF Step

LEMMA NextInv == IInv /\ [Next]_vars => IInv'
<1> SUFFICES ASSUME IInv, [Next]_vars PROVE IInv'
  OBVIOUS
<1>1. CASE UNCHANGED vars
  BY <1>1 DEF vars, IInv, TypeOK, LockInv, Inside, Whole, RowsOf, NoRawError, Sound, MigrationInv,
              SelectInv, CallInv, BornInv
<1>2. ASSUME NEW c \in Conn, NEW s \in Spelling, AddProject(c, s) PROVE IInv'
  <2>1. [kind |-> "add", id |-> NoId, path |-> CanonicalProjectPath(s)] \in Calls
    BY <1>2, StoreAssumption DEF AddProject, CanonicalProjectPath, Calls, Kinds
  <2> QED
    BY <1>2, <2>1, AskInv, StoreAssumption DEF AddProject, CanonicalProjectPath
<1>3. ASSUME NEW c \in Conn, NEW kind \in {"remove", "select"}, NEW i \in Named,
             OtherCall(c, kind, i) PROVE IInv'
  <2>1. [kind |-> kind, id |-> i, path |-> NoPath] \in Calls /\ i \in Id
    BY StoreAssumption DEF Calls, Kinds
  <2> QED
    BY <1>3, <2>1, AskInv DEF OtherCall
<1>4. ASSUME NEW c \in Conn, NEW kind \in {"select", "list", "current"},
             OtherCall(c, kind, NoId) PROVE IInv'
  <2>1. [kind |-> kind, id |-> NoId, path |-> NoPath] \in Calls
    BY DEF Calls, Kinds
  <2> QED
    BY <1>4, <2>1, AskInv DEF OtherCall
<1>5. ASSUME NEW c \in Conn, Step(c) PROVE IInv'
  BY <1>5, StepInv
<1>6. ASSUME NEW c \in Conn, TimeOut(c) PROVE IInv'
  BY <1>6, TimeOutInv
<1>7. ASSUME NEW c \in Conn, NEW auto \in BOOLEAN, Fail(c, auto) PROVE IInv'
  BY <1>7, FailInv
<1>8. ASSUME NEW p \in Process, Crash(p) PROVE IInv'
  BY <1>8, CrashInv
<1> QED
  BY <1>1, <1>2, <1>3, <1>4, <1>5, <1>6, <1>7, <1>8 DEF Next

LEMMA Invariance == Spec => []IInv
  BY InitInv, NextInv, PTL DEF Spec

(***************************************************************************)
(* Theorems                                                                *)
(***************************************************************************)
\* Types, with the numeric bounds of versions and migrations.
THEOREM TypeCorrect == Spec => []TypeOK
<1>1. IInv => TypeOK
  BY DEF IInv
<1> QED
  BY <1>1, Invariance, PTL

\* A committed version is that of the committed tables (migrate).
THEOREM VersionIsTrue == Spec => []VersionTellsTables
<1>1. IInv => VersionTellsTables
  BY DEF IInv, Whole, VersionTellsTables
<1> QED
  BY <1>1, Invariance, PTL

\* No migration runs twice, no selection breaks the foreign key.
THEOREM OnlyPromisedErrors == Spec => []NoRawError
<1>1. IInv => NoRawError
  BY DEF IInv
<1> QED
  BY <1>1, Invariance, PTL

\* The selection is never left on a row that is gone.
THEOREM SelectionStands == Spec => []SelectionNamesARow
<1>1. IInv => SelectionNamesARow
  BY DEF IInv, Whole, RowsOf, SelectionNamesARow, Abstract!SelectionNamesARow, Abstract!Rows
<1> QED
  BY <1>1, Invariance, PTL

\* A database newer than a build is not touched by a call that build was asked
\* when it was so.
THEOREM NewerUntouched == Spec => NewerIsUntouched
<1>1. ASSUME IInv, [Next]_vars, db' # db
      PROVE  \E c \in Conn : conn'[c].at # conn[c].at /\ born[c] <= Known(c)
  <2>1. ASSUME NEW c \in Conn, Went(c, "commit", "call") \/ Answered(c, "seal") \/ Answered(c, "call")
               \/ Went(c, "call", "existing")
        PROVE  conn'[c].at # conn[c].at /\ born[c] <= Known(c)
    BY <1>1, <2>1 DEF IInv, Sound, BornInv, Went, Answered
  <2>2. ASSUME NEW c \in Conn, Step(c)
        PROVE  \/ Went(c, "commit", "call") \/ Answered(c, "seal") \/ Answered(c, "call")
               \/ Went(c, "call", "existing")
    <3>1. CASE CommitMigration(c)
      BY <1>1, <3>1, Goes DEF CommitMigration, At, IInv, Places, Went
    <3>2. CASE CommitSelect(c)
      BY <1>1, <3>2, Replies, Typed DEF CommitSelect, At, IInv, Says, Answered
    <3>3. CASE InsertProject(c)
      <4>1. Goto(c, "existing") \/ Reply(c, "row", c, {})
        BY <3>3 DEF InsertProject
      <4> QED
        BY <1>1, <3>3, <4>1, Goes, Replies, Typed
        DEF InsertProject, Calling, At, IInv, Says, Places, Answered, Went
    <3>4. CASE RemoveProject(c)
      <4>1. \E says \in {"removed", "missing"} : Reply(c, says, conn[c].call.id, {})
        BY <3>4 DEF RemoveProject
      <4> QED
        BY <1>1, <3>4, <4>1, Replies, Typed DEF RemoveProject, Calling, At, IInv, Says, Answered
    <3> QED
      BY <1>1, <2>2, <3>1, <3>2, <3>3, <3>4 DEF Step, EnsureStoreDir, CheckVersion,
         BeginMigration, Recheck, ApplyMigration, BumpVersion, Undo, RollBack,
         InsertConflict, ListProjects, GetSelected, BeginSelect, SelectRow, UpdateSelection,
         Still, Lock
  <2>3. \E c \in Conn : Step(c)
    BY <1>1 DEF Next, vars, AddProject, OtherCall, Ask, TimeOut, Fail, Crash, RollBack
  <2> QED
    BY <2>1, <2>2, <2>3
<1> QED
  BY <1>1, Invariance, PTL DEF Spec, NewerIsUntouched

(***************************************************************************)
(* The store implements Registry                                           *)
(***************************************************************************)
\* Nothing Registry shows changes.
LEMMA Silent ==
  ASSUME NEW c \in Conn, Only(c), conn'[c].answer = conn[c].answer,
         db'.rows = db.rows, db'.selected = db.selected
  PROVE  UNCHANGED Abstract!vars
<1>1. \A d \in Conn : conn'[d].answer = conn[d].answer /\ conn'[d].call = conn[d].call
  BY DEF Only
<1> QED
  BY <1>1 DEF Abstract!vars

\* An answer shown is the answer given.
LEMMA Shown ==
  ASSUME TypeOK, NEW c \in Conn, NEW says \in Says \ {"none"}, NEW id \in Id \cup {NoId},
         NEW ids \in SUBSET Id, Reply(c, says, id, ids)
  PROVE  Abstract!Say(c, Abstract!Answer(says, id, ids))
<1>1. conn'[c].answer = Answer(says, id, ids)
  BY Replies
<1>2. \A d \in Conn : conn'[d].call = conn[d].call /\ (d # c => conn'[d].answer = conn[d].answer)
  BY Replies DEF Only
<1>3. [d \in Conn |-> conn[d].answer]' =
        [[d \in Conn |-> conn[d].answer] EXCEPT ![c] = Answer(says, id, ids)]
  BY <1>1, <1>2
<1>4. [d \in Conn |-> conn[d].call]' = [d \in Conn |-> conn[d].call]
  BY <1>2
<1> QED
  BY <1>3, <1>4 DEF Abstract!Say, Abstract!Answer, Answer

\* A call in progress is one Registry may answer.
LEMMA InProgress ==
  ASSUME IInv, NEW c \in Conn, conn[c].at \notin {"idle", "done"}
  PROVE  Abstract!Open(c)
  BY DEF IInv, Sound, CallInv, Abstract!Open, Abstract!NoCall, Abstract!NoAnswer, Abstract!Answer,
         NoCall, NoAnswer, Answer

LEMMA RefusedMaps ==
  ASSUME IInv, NEW c \in Conn, conn[c].at \notin {"idle", "done"}, Reply(c, "refused", NoId, {}),
         db' = db
  PROVE  Abstract!Next
<1>1. conn'[c].answer = Answer("refused", NoId, {})
  BY Replies DEF IInv, Says
<1>2. \A d \in Conn : conn'[d].call = conn[d].call /\ (d # c => conn'[d].answer = conn[d].answer)
  BY Replies DEF IInv, Says, Only
<1>3. Abstract!Refuse({c})
  BY <1>1, <1>2, InProgress DEF Abstract!Refuse, Abstract!Answer, Answer
<1> QED
  BY <1>3 DEF Abstract!Next

\* What the calls that have an effect become.
LEMMA InsertMaps == ASSUME IInv, NEW c \in Conn, InsertProject(c)
                    PROVE  Abstract!Next \/ UNCHANGED Abstract!vars
<1> USE DEF IInv
<1>1. CASE Holder(db, conn[c].call.path) = {}
  <2>1. Reply(c, "row", c, {}) /\ db' = [db EXCEPT !.rows[c] = conn[c].call.path]
    BY <1>1 DEF InsertProject, Write
  <2>2. Abstract!Say(c, Abstract!Answer("row", c, {}))
    BY <2>1, Shown, Typed DEF Says
  <2>3. db'.rows = [db.rows EXCEPT ![c] = conn[c].call.path] /\ db'.selected = db.selected
    BY <2>1 DEF TypeOK, Database
  <2>4. conn[c].at = "call" /\ conn[c].call.kind = "add" /\ db.rows[c] = NoPath
    BY DEF InsertProject, Calling, At, Sound, CallInv
  <2>5. Abstract!Add(c)
    BY <1>1, <2>2, <2>3, <2>4, InProgress DEF Abstract!Add, Abstract!Holder, Holder
  <2> QED
    BY <2>5 DEF Abstract!Next
<1>2. CASE Holder(db, conn[c].call.path) # {}
  <2>1. Goto(c, "existing") /\ db' = db
    BY <1>2 DEF InsertProject, Write
  <2> QED
    BY <2>1, Goes, Silent DEF Places
<1> QED
  BY <1>1, <1>2

LEMMA ConflictMaps == ASSUME IInv, NEW c \in Conn, InsertConflict(c) PROVE Abstract!Next
<1> USE DEF IInv
<1>1. /\ conn[c].at = "existing" /\ conn[c].call.kind = "add" /\ db' = db
      /\ Abstract!Open(c)
  BY InProgress DEF InsertConflict, At, Still, Sound, CallInv
<1>2. CASE Holder(db, conn[c].call.path) = {}
  <2>1. conn' = [conn EXCEPT ![c].at = "done", ![c].error = "id_taken",
                             ![c].answer = Answer("refused", NoId, {})]
    BY <1>2 DEF InsertConflict
  <2>2. conn'[c].answer = Answer("refused", NoId, {}) /\ conn'[c].call = conn[c].call
    BY <2>1 DEF TypeOK, Connection
  <2>3. \A d \in Conn : conn'[d].call = conn[d].call /\ (d # c => conn'[d].answer = conn[d].answer)
    BY <2>1, <2>2 DEF TypeOK
  <2>4. Abstract!Refuse({c})
    BY <1>1, <2>2, <2>3 DEF Abstract!Refuse, Abstract!Answer, Answer
  <2> QED
    BY <2>4 DEF Abstract!Next
<1>3. CASE Holder(db, conn[c].call.path) # {}
  <2>1. PICK i \in Holder(db, conn[c].call.path) : Reply(c, "duplicate", i, {})
    BY <1>3 DEF InsertConflict
  <2>2. Abstract!Say(c, Abstract!Answer("duplicate", i, {}))
    BY <2>1, Shown DEF Says, Holder
  <2>3. Abstract!Duplicate(c)
    BY <1>1, <2>1, <2>2 DEF Abstract!Duplicate, Abstract!Holder, Holder
  <2> QED
    BY <2>3 DEF Abstract!Next
<1> QED
  BY <1>2, <1>3

LEMMA RemoveMaps == ASSUME IInv, NEW c \in Conn, RemoveProject(c) PROVE Abstract!Next
<1> USE DEF IInv
<1>0. PICK i \in Id : i = conn[c].call.id
  BY DEF RemoveProject, Calling, At, Sound, CallInv
<1>1. conn[c].at = "call" /\ conn[c].call.kind = "remove"
  BY DEF RemoveProject, Calling, At
<1>2. /\ Reply(c, IF i \in RowsOf(db) THEN "removed" ELSE "missing", i, {})
      /\ db' = [db EXCEPT !.rows[i] = NoPath, !.selected = IF @ = i THEN NoId ELSE @]
  BY <1>0 DEF RemoveProject, Write
<1>3. Abstract!Say(c, Abstract!Answer(IF i \in RowsOf(db) THEN "removed" ELSE "missing", i, {}))
  <2>1. CASE i \in RowsOf(db)
    <3>1. Reply(c, "removed", i, {})
      BY <1>2, <2>1
    <3>2. Abstract!Say(c, Abstract!Answer("removed", i, {}))
      BY <1>0, <3>1, Shown DEF Says
    <3> QED
      BY <2>1, <3>2 DEF Abstract!Say, Abstract!Answer
  <2>2. CASE i \notin RowsOf(db)
    <3>1. Reply(c, "missing", i, {})
      BY <1>2, <2>2
    <3>2. Abstract!Say(c, Abstract!Answer("missing", i, {}))
      BY <1>0, <3>1, Shown DEF Says
    <3> QED
      BY <2>2, <3>2 DEF Abstract!Say, Abstract!Answer
  <2> QED
    BY <2>1, <2>2
<1>4. /\ db'.rows = [db.rows EXCEPT ![i] = NoPath]
      /\ db'.selected = IF db.selected = i THEN NoId ELSE db.selected
  BY <1>1, <1>2 DEF TypeOK, Database
<1>5. Abstract!Remove(c)
  <2>1. Abstract!Open(c)
    BY <1>1, InProgress
  <2>2. Abstract!Rows = RowsOf(db)
    BY DEF Abstract!Rows, RowsOf
  <2>3. [d \in Conn |-> conn[d].call][c] = conn[c].call
    OBVIOUS
  <2> QED
    BY <1>0, <1>1, <1>3, <1>4, <2>1, <2>2, <2>3 DEF Abstract!Remove, Abstract!Say, Abstract!Answer
<1> QED
  BY <1>5 DEF Abstract!Next

LEMMA ReadsMap == ASSUME IInv, NEW c \in Conn, ListProjects(c) \/ GetSelected(c) PROVE Abstract!Next
<1> USE DEF IInv
<1>1. conn[c].at = "call" /\ db' = db
  BY DEF ListProjects, GetSelected, Calling, At, Still
<1>2. CASE ListProjects(c)
  <2>0. PICK ids \in SUBSET Id : ids = RowsOf(db)
    BY Typed
  <2>1. Abstract!Say(c, Abstract!Answer("rows", NoId, ids))
    <3>1. Reply(c, "rows", NoId, ids)
      BY <1>2, <2>0 DEF ListProjects
    <3> QED
      BY <3>1, Shown DEF Says
  <2>2. Abstract!Tell(c)
    BY <1>1, <1>2, <2>0, <2>1, InProgress DEF ListProjects, Calling, Abstract!Tell, Abstract!Say,
       Abstract!Answer,
           Abstract!Rows, RowsOf
  <2> QED
    BY <2>2 DEF Abstract!Next
<1>3. CASE GetSelected(c)
  <2>0. PICK i \in Id \cup {NoId} : i = db.selected
    BY DEF TypeOK, Database
  <2>1. Reply(c, "row", i, {})
    BY <1>3, <2>0 DEF GetSelected, Whole
  <2>2. Abstract!Say(c, Abstract!Answer("row", i, {}))
    BY <2>1, Shown DEF Says
  <2>3. Abstract!Tell(c)
    BY <1>1, <1>3, <2>0, <2>2, InProgress DEF GetSelected, Calling, Abstract!Tell, Abstract!Say,
       Abstract!Answer
  <2> QED
    BY <2>3 DEF Abstract!Next
<1> QED
  BY <1>2, <1>3

LEMMA SelectMaps == ASSUME IInv, NEW c \in Conn, CommitSelect(c) PROVE Abstract!Next
<1> USE DEF IInv
<1>0. PICK i \in Id \cup {NoId} : i = conn[c].call.id
  BY Typed
<1>1. /\ conn[c].at = "seal" /\ conn[c].call.kind = "select" /\ i \in RowsOf(db) \cup {NoId}
      /\ db' = [db EXCEPT !.selected = i]
  BY <1>0 DEF CommitSelect, Commit, At, Sound, SelectInv, InSelect
<1>2. Abstract!Say(c, Abstract!Answer("row", i, {}))
  <2>1. Reply(c, "row", i, {})
    BY <1>0 DEF CommitSelect
  <2> QED
    BY <2>1, Shown DEF Says
<1>3. db'.rows = db.rows /\ db'.selected = i
  BY <1>1 DEF TypeOK, Database
<1>4. Abstract!Select(c)
  <2>1. Abstract!Open(c)
    BY <1>1, InProgress
  <2>2. [d \in Conn |-> conn[d].call][c] = conn[c].call
    OBVIOUS
  <2> QED
    BY <1>0, <1>1, <1>2, <1>3, <2>1, <2>2 DEF Abstract!Select, Abstract!Say, Abstract!Answer,
       Abstract!Rows, RowsOf
<1> QED
  BY <1>4 DEF Abstract!Next

\* A selection refused for want of its row is answered while no other call
\* can have added it: the lock is still held.
LEMMA UndoMaps == ASSUME IInv, NEW c \in Conn, Undo(c) PROVE Abstract!Next
<1> USE DEF IInv
<1>1. conn[c].at = "undo" /\ db' = db
  BY DEF Undo, At, RollBack
<1>2. CASE conn[c].error = "missing"
  <2>0. PICK i \in Id \cup {NoId} : i = conn[c].call.id
    BY Typed
  <2>1. Abstract!Say(c, Abstract!Answer("missing", i, {}))
    <3>1. Reply(c, "missing", i, {})
      BY <1>2, <2>0 DEF Undo
    <3> QED
      BY <3>1, Shown DEF Says
  <2>2. conn[c].call.kind = "select" /\ conn[c].call.id \notin RowsOf(db) \cup {NoId}
    BY <1>1, <1>2 DEF Sound, CallInv
  <2>3. Abstract!SelectMissing(c)
    <3>1. Abstract!Open(c)
      BY <1>1, InProgress
    <3>2. [d \in Conn |-> conn[d].call][c] = conn[c].call
      OBVIOUS
    <3> QED
      BY <1>1, <2>0, <2>1, <2>2, <3>1, <3>2 DEF Abstract!SelectMissing, Abstract!Say,
         Abstract!Answer, Abstract!Rows, RowsOf
  <2> QED
    BY <2>3 DEF Abstract!Next
<1>3. CASE conn[c].error # "missing"
  BY <1>1, <1>3, RefusedMaps DEF Undo
<1> QED
  BY <1>2, <1>3

\* The steps of opening and migrating show nothing, or refuse.
LEMMA OpeningMaps ==
  ASSUME IInv, NEW c \in Conn,
         \/ EnsureStoreDir(c) \/ CheckVersion(c) \/ BeginMigration(c) \/ Recheck(c)
         \/ ApplyMigration(c) \/ BumpVersion(c) \/ CommitMigration(c)
         \/ BeginSelect(c) \/ SelectRow(c) \/ UpdateSelection(c)
  PROVE  Abstract!Next \/ UNCHANGED Abstract!vars
<1> USE DEF IInv
<1>1. db'.rows = db.rows /\ db'.selected = db.selected
  BY DEF EnsureStoreDir, CheckVersion, BeginMigration, Recheck, ApplyMigration, BumpVersion,
         CommitMigration, BeginSelect, SelectRow, UpdateSelection, Still, Lock, Commit, At,
         Sound, MigrationInv, InMigration
<1>2. CASE EnsureStoreDir(c) \/ CheckVersion(c)
  <2>1. conn[c].at \in {"open", "check"} /\ db' = db
    BY <1>2 DEF EnsureStoreDir, CheckVersion, At, Still
  <2>2. Reply(c, "refused", NoId, {}) \/ \E step \in {"check", "call", "begin"} : Goto(c, step)
    BY <1>2 DEF EnsureStoreDir, CheckVersion
  <2> QED
    BY <1>1, <2>1, <2>2, RefusedMaps, Goes, Silent DEF Places
<1>3. CASE ~(EnsureStoreDir(c) \/ CheckVersion(c))
  <2>1. \/ \E step \in Places : Goto(c, step)
        \/ \E error \in Errors : Raise(c, error)
        \/ \E step \in Places, n \in 0 .. Top + 1 : Advance(c, step, n)
    <3>1. CASE BeginMigration(c) \/ CommitMigration(c) \/ BeginSelect(c)
      BY <3>1 DEF BeginMigration, CommitMigration, BeginSelect, Places, InMigration, InSelect
    <3>2. CASE Recheck(c)
      <4>1. \/ Raise(c, "too_new") \/ Advance(c, "commit", work.version + 1)
            \/ Advance(c, "apply", work.version + 1)
        BY <3>2 DEF Recheck
      <4>2. work.version + 1 \in 0 .. Top + 1
        BY StoreAssumption DEF TypeOK, Database, Versions
      <4> QED
        BY <4>1, <4>2 DEF Places, InMigration, Errors
    <3>3. CASE ApplyMigration(c) \/ SelectRow(c) \/ UpdateSelection(c)
      BY <3>3 DEF ApplyMigration, SelectRow, UpdateSelection, Places, InMigration, InSelect, Errors
    <3>4. CASE BumpVersion(c)
      <4>1. \/ Advance(c, "commit", conn[c].next + 1) \/ Advance(c, "apply", conn[c].next + 1)
        BY <3>4 DEF BumpVersion
      <4>2. conn[c].next + 1 \in 0 .. Top + 1
        <5>1. conn[c].next <= Known(c) /\ conn[c].next \in Nat /\ Known(c) \in 1 .. Top
          BY <3>4, Typed DEF BumpVersion, At, Sound, MigrationInv, InMigration, TypeOK, Connection
        <5> QED
          BY <5>1, StoreAssumption
      <4> QED
        BY <4>1, <4>2 DEF Places, InMigration
    <3> QED
      BY <1>3, <3>1, <3>2, <3>3, <3>4
  <2>2. Only(c) /\ conn'[c].answer = conn[c].answer
    BY <2>1, Goes, Raises, Advances
  <2> QED
    BY <1>1, <2>2, Silent
<1> QED
  BY <1>2, <1>3

LEMMA AskMaps ==
  ASSUME IInv, NEW c \in Conn, NEW call \in Calls, Ask(c, call) PROVE Abstract!Next
<1>1. conn[c].call = NoCall /\ db' = db
  BY DEF IInv, Sound, CallInv, Ask
<1>2. /\ conn'[c].call = call /\ conn'[c].answer = conn[c].answer
      /\ \A d \in Conn \ {c} : conn'[d] = conn[d]
  BY DEF Ask, IInv, TypeOK, Connection
<1>3. Abstract!Ask(c)
  <2>1. call \in Abstract!Calls
    BY DEF Calls, Kinds, Abstract!Calls
  <2>2. [d \in Conn |-> conn[d].call]' = [[d \in Conn |-> conn[d].call] EXCEPT ![c] = call]
    BY <1>2
  <2>3. [d \in Conn |-> conn[d].answer]' = [d \in Conn |-> conn[d].answer]
    BY <1>2
  <2> QED
    BY <1>1, <2>1, <2>2, <2>3 DEF Abstract!Ask, Abstract!NoCall, NoCall
<1> QED
  BY <1>3 DEF Abstract!Next

LEMMA FailMaps ==
  ASSUME IInv, NEW c \in Conn, NEW auto \in BOOLEAN, TimeOut(c) \/ Fail(c, auto)
  PROVE  Abstract!Next \/ UNCHANGED Abstract!vars
<1>1. conn[c].at \notin {"idle", "done"} /\ db' = db
  BY DEF TimeOut, Waits, Fail, RollBack
<1>2. Reply(c, "refused", NoId, {}) \/ Raise(c, "failed")
  BY DEF TimeOut, Fail
<1> QED
  BY <1>1, <1>2, RefusedMaps, Raises, Silent DEF IInv, Errors

LEMMA CrashMaps == ASSUME IInv, NEW p \in Process, Crash(p) PROVE Abstract!Next
<1> DEFINE Lost == {c \in Conn : ProcessOf[c] = p /\ conn[c].at \notin {"idle", "done"}}
<1>1. conn \in [Conn -> Connection] /\ db' = db
  BY DEF Crash, RollBack, IInv, TypeOK
<1>2. \A c \in Conn : conn'[c].call = conn[c].call
  BY <1>1 DEF Crash, Connection
<1>3. \A c \in Conn : conn'[c].answer = IF c \in Lost THEN Answer("refused", NoId, {})
                                        ELSE conn[c].answer
  BY <1>1 DEF Crash, Connection
<1>4. PICK C \in SUBSET Conn : C = Lost
  OBVIOUS
<1> HIDE DEF Lost
<1>5. Abstract!Refuse(C)
  BY <1>1, <1>2, <1>3, <1>4, InProgress DEF Lost, Abstract!Refuse, Abstract!Answer, Answer
<1> QED
  BY <1>5 DEF Abstract!Next

LEMMA NextMaps == IInv /\ [Next]_vars => [Abstract!Next]_(Abstract!vars)
<1> SUFFICES ASSUME IInv, [Next]_vars PROVE Abstract!Next \/ UNCHANGED Abstract!vars
  OBVIOUS
<1>1. CASE UNCHANGED vars
  BY <1>1 DEF vars, Abstract!vars
<1>2. ASSUME NEW c \in Conn, NEW s \in Spelling, AddProject(c, s) PROVE Abstract!Next
  <2>1. [kind |-> "add", id |-> NoId, path |-> CanonicalProjectPath(s)] \in Calls
    BY <1>2, StoreAssumption DEF AddProject, CanonicalProjectPath, Calls, Kinds
  <2> QED
    BY <1>2, <2>1, AskMaps DEF AddProject
<1>3. ASSUME NEW c \in Conn, NEW kind \in {"remove", "select", "list", "current"},
             NEW i \in Named \cup {NoId}, OtherCall(c, kind, i) PROVE Abstract!Next
  <2>1. [kind |-> kind, id |-> i, path |-> NoPath] \in Calls
    BY StoreAssumption DEF Calls, Kinds
  <2> QED
    BY <1>3, <2>1, AskMaps DEF OtherCall
<1>4. ASSUME NEW c \in Conn, Step(c) PROVE Abstract!Next \/ UNCHANGED Abstract!vars
  BY <1>4, InsertMaps, ConflictMaps, RemoveMaps, ReadsMap, SelectMaps, UndoMaps,
     OpeningMaps DEF Step
<1>5. ASSUME NEW c \in Conn, NEW auto \in BOOLEAN, TimeOut(c) \/ Fail(c, auto)
      PROVE  Abstract!Next \/ UNCHANGED Abstract!vars
  BY <1>5, FailMaps
<1>6. ASSUME NEW p \in Process, Crash(p) PROVE Abstract!Next
  BY <1>6, CrashMaps
<1> QED
  BY <1>1, <1>2, <1>3, <1>4, <1>5, <1>6 DEF Next

LEMMA InitMaps == Init => Abstract!Init
<1> SUFFICES ASSUME Init PROVE Abstract!Init
  OBVIOUS
<1>1. db \in Database /\ db.selected \in RowsOf(db) \cup {NoId}
  BY InitInv DEF IInv, TypeOK, Whole
<1>2. \A c \in Conn : conn[c].call = NoCall /\ conn[c].answer = NoAnswer
  BY DEF Init
<1> QED
  BY <1>1, <1>2 DEF Abstract!Init, Abstract!Rows, RowsOf, Database, Abstract!NoCall, NoCall,
                    Abstract!NoAnswer, Abstract!Answer, NoAnswer, Answer

\* Every call takes effect in one step, and its answer is true of that step.
THEOREM Refinement == Spec => ImplementsRegistry
  BY InitMaps, NextMaps, Invariance, PTL DEF Spec, ImplementsRegistry, Abstract!Spec
=============================================================================
