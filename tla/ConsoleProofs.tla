--------------------------- MODULE ConsoleProofs ---------------------------
(***************************************************************************)
(* The project selection, for every number of ids, directories, requests,  *)
(* failures and restarts, with and without a second console (the theorems  *)
(* of SelSpec); and the console, whose watcher follows its selection (the  *)
(* theorems of Spec).  The supervisor's proofs are used as they are,       *)
(* through SP, which names the same definitions as Console's own instance  *)
(* Sup.                                                                    *)
(***************************************************************************)
EXTENDS Console, TLAPS

-----------------------------------------------------------------------------
(* The selection by itself.                                                *)

Fields == [op: Ops \cup {"none"}, arg: Selectable, at: Steps,
           id: Selectable, root: Paths \cup {NoPath}, answer: Answers]

\* What a step of r makes of the requests.
Moves(r, op, arg, at, id, path, answer) ==
  /\ \A q \in Requests \ {r} : req'[q] = req[q]
  /\ req'[r].op = op
  /\ req'[r].arg = arg
  /\ req'[r].at = at
  /\ req'[r].id = id
  /\ req'[r].root = path
  /\ req'[r].answer = answer

-----------------------------------------------------------------------------
(***************************************************************************)
(* Types                                                                   *)
(***************************************************************************)
LEMMA StepsAre ==
  /\ "idle" \in Steps /\ "done" \in Steps /\ "remove" \in Steps
  /\ "lock" \in Steps /\ "persist" \in Steps /\ "apply" \in Steps /\ "current" \in Steps
  /\ "again" \in Steps /\ "persisted" \in Steps /\ "row" \in Steps /\ "probe" \in Steps
BY DEF Steps, InSwitch, InResolve

LEMMA AnswersAre ==
  /\ "ok" \in Answers /\ "404" \in Answers /\ "409" \in Answers /\ "503" \in Answers
  /\ "no_selection" \in Answers /\ "not_registered" \in Answers /\ "unavailable" \in Answers
  /\ NoPath \in Answers /\ Paths \subseteq Answers
BY DEF Answers, Outcomes

LEMMA IdleIs ==
  /\ IdleRequest \in Fields
  /\ IdleRequest.op = "none" /\ IdleRequest.arg = NoProject /\ IdleRequest.at = "idle"
  /\ IdleRequest.id = NoProject /\ IdleRequest.root = NoPath /\ IdleRequest.answer = NoPath
BY StepsAre, AnswersAre DEF IdleRequest, Fields, Selectable

LEMMA InitTypes == SelInit => SelTypeOK
<1> SUFFICES ASSUME SelInit PROVE SelTypeOK
  OBVIOUS
<1>1. req \in [Requests -> Fields]
  BY IdleIs DEF SelInit
<1>2. seen \in [Requests -> SUBSET Selectable] /\ home \in [Ids -> Paths \cup {NoPath}]
  BY DEF SelInit
<1>3. issued \in 0 .. MaxRequests /\ restarts \in 0 .. MaxRestarts
  BY BoundAssumption DEF SelInit
<1>4. /\ rows \subseteq Ids /\ selected \in Ids \cup {NoProject} /\ session \in Selectable
      /\ lock \in Requests \cup {Free} /\ raced \in BOOLEAN
  BY DEF SelInit, Selectable
<1> QED
  BY <1>1, <1>2, <1>3, <1>4 DEF SelTypeOK, Fields

\* The histories, whatever the step.
LEMMA HistoryTypes ==
  ASSUME Witness, session' \in Selectable, selected' \in Ids \cup {NoProject},
         seen \in [Requests -> SUBSET Selectable]
  PROVE  seen' \in [Requests -> SUBSET Selectable] /\ raced' \in BOOLEAN
<1>1. \A ids \in SUBSET Selectable : AlsoSeen(ids) \in SUBSET Selectable
  BY DEF AlsoSeen, Selectable
<1>2. raced' \in BOOLEAN
  BY DEF Witness
<1>3. seen' \in [Requests -> SUBSET Selectable]
  <2>1. AlsoSeen({}) \in SUBSET Selectable
    BY <1>1
  <2> QED
    BY <1>1, <2>1 DEF Witness
<1> QED
  BY <1>2, <1>3

\* A request that changes within its type leaves the type as it is.
LEMMA FieldTypes ==
  ASSUME req \in [Requests -> Fields], NEW r \in Requests, NEW f \in Fields,
         req' = [req EXCEPT ![r] = f]
  PROVE  req' \in [Requests -> Fields]
OBVIOUS

LEMMA IssueTypes ==
  ASSUME SelTypeOK, NEW r \in Requests, NEW op, NEW arg \in Selectable, NEW step \in Steps,
         Issue(r, op, arg, step)
  PROVE  /\ req' \in [Requests -> Fields] /\ issued' \in 0 .. MaxRequests
         /\ Moves(r, op, arg, step, NoProject, NoPath, NoPath)
<1> DEFINE f == [IdleRequest EXCEPT !.op = op, !.arg = arg, !.at = step]
<1>1. /\ f.op = op /\ f.arg = arg /\ f.at = step
      /\ f.id = NoProject /\ f.root = NoPath /\ f.answer = NoPath
  BY IdleIs DEF Fields
<1>2. f \in Fields
  BY IdleIs DEF Issue, Fields
<1>3. req' = [req EXCEPT ![r] = f] /\ req \in [Requests -> Fields]
  BY DEF Issue, SelTypeOK, Fields
<1>4. issued' \in 0 .. MaxRequests
  BY BoundAssumption DEF Issue, SelTypeOK
<1>5. req'[r] = f /\ \A q \in Requests \ {r} : req'[q] = req[q]
  BY <1>3
<1> QED
  BY <1>1, <1>2, <1>3, <1>4, <1>5, FieldTypes DEF Moves

LEMMA RefuseTypes ==
  ASSUME SelTypeOK, NEW r \in Requests, NEW op, NEW answer \in Answers,
         Refuse(r, op, answer)
  PROVE  /\ req' \in [Requests -> Fields] /\ issued' \in 0 .. MaxRequests
         /\ Moves(r, op, NoProject, "done", NoProject, NoPath, answer)
<1> DEFINE f == [IdleRequest EXCEPT !.op = op, !.at = "done", !.answer = answer]
<1>1. /\ f.op = op /\ f.arg = NoProject /\ f.at = "done"
      /\ f.id = NoProject /\ f.root = NoPath /\ f.answer = answer
  BY IdleIs DEF Fields
<1>2. f \in Fields
  BY IdleIs, StepsAre DEF Refuse, Fields
<1>3. req' = [req EXCEPT ![r] = f] /\ req \in [Requests -> Fields]
  BY DEF Refuse, SelTypeOK, Fields
<1>4. issued' \in 0 .. MaxRequests
  BY BoundAssumption DEF Refuse, SelTypeOK
<1>5. req'[r] = f /\ \A q \in Requests \ {r} : req'[q] = req[q]
  BY <1>3
<1> QED
  BY <1>1, <1>2, <1>3, <1>4, <1>5, FieldTypes DEF Moves

LEMMA GotoTypes ==
  ASSUME SelTypeOK, NEW r \in Requests, NEW step \in Steps, Goto(r, step)
  PROVE  /\ req' \in [Requests -> Fields]
         /\ Moves(r, req[r].op, req[r].arg, step, req[r].id, req[r].root, req[r].answer)
<1>1. req \in [Requests -> Fields]
  BY DEF SelTypeOK, Fields
<1> QED
  BY <1>1 DEF Goto, Moves, Fields

LEMMA AnswerTypes ==
  ASSUME SelTypeOK, NEW r \in Requests, NEW answer \in Answers, Answer(r, answer)
  PROVE  /\ req' \in [Requests -> Fields]
         /\ Moves(r, req[r].op, req[r].arg, "done", req[r].id, req[r].root, answer)
<1>1. req \in [Requests -> Fields]
  BY DEF SelTypeOK, Fields
<1> QED
  BY <1>1, StepsAre DEF Answer, Moves, Fields

LEMMA UnlockTypes ==
  ASSUME SelTypeOK, NEW r \in Requests, Unlock(r)
  PROVE  lock' \in Requests \cup {Free}
BY DEF Unlock, SelTypeOK, Free

\* current_id() returned: a removal goes on with the id, a resolution goes on to
\* the row or is over.
Resolved(r, id) ==
  \/ /\ req[r].op = "delete" /\ lock' = lock
     /\ Moves(r, req[r].op, req[r].arg, "remove", id, req[r].root, req[r].answer)
  \/ /\ req[r].op # "delete" /\ id \in Ids /\ lock' = lock
     /\ Moves(r, req[r].op, req[r].arg, "row", id, req[r].root, req[r].answer)
  \/ /\ req[r].op # "delete" /\ id = Session /\ Unlock(r)
     /\ Moves(r, req[r].op, req[r].arg, "done", id, req[r].root, PinnedRoot)
  \/ /\ req[r].op # "delete" /\ id = NoProject /\ Unlock(r)
     /\ Moves(r, req[r].op, req[r].arg, "done", id, req[r].root, "no_selection")

LEMMA ResolveTypes ==
  ASSUME SelTypeOK, NEW r \in Requests, NEW id \in Selectable, Resolve(r, id)
  PROVE  /\ req' \in [Requests -> Fields] /\ lock' \in Requests \cup {Free}
         /\ Resolved(r, id)
<1>1. req \in [Requests -> Fields] /\ lock \in Requests \cup {Free}
  BY DEF SelTypeOK, Fields
<1>2. CASE req[r].op = "delete"
  <2>1. req' = [req EXCEPT ![r].id = id, ![r].at = "remove"] /\ lock' = lock
    BY <1>2 DEF Resolve
  <2>2. req' \in [Requests -> Fields]
    BY ZenonT(60), <1>1, <2>1, StepsAre DEF Fields
  <2>3. Moves(r, req[r].op, req[r].arg, "remove", id, req[r].root, req[r].answer)
    BY <1>1, <2>1 DEF Moves, Fields
  <2> QED
    BY <1>1, <1>2, <2>1, <2>2, <2>3 DEF Resolved
<1>3. CASE req[r].op # "delete" /\ id \in Ids
  <2>1. req' = [req EXCEPT ![r].id = id, ![r].at = "row"] /\ lock' = lock
    BY <1>3 DEF Resolve
  <2>2. req' \in [Requests -> Fields]
    BY <1>1, <2>1, StepsAre DEF Fields
  <2>3. Moves(r, req[r].op, req[r].arg, "row", id, req[r].root, req[r].answer)
    BY <1>1, <2>1 DEF Moves, Fields
  <2> QED
    BY <1>1, <1>3, <2>1, <2>2, <2>3 DEF Resolved
<1>4. CASE req[r].op # "delete" /\ id \notin Ids
  <2> DEFINE answer == IF id = Session THEN PinnedRoot ELSE "no_selection"
  <2>1. req' = [req EXCEPT ![r].id = id, ![r].at = "done", ![r].answer = answer] /\ Unlock(r)
    BY <1>4 DEF Resolve
  <2>2. answer \in Answers
    BY AnswersAre, PathAssumption
  <2> HIDE DEF answer
  <2>3. req' \in [Requests -> Fields]
    BY ZenonT(60), <1>1, <2>1, <2>2, StepsAre DEF Fields
  <2>4. Moves(r, req[r].op, req[r].arg, "done", id, req[r].root, answer)
    BY <1>1, <2>1 DEF Moves, Fields
  <2>5. \/ id = Session /\ answer = PinnedRoot
        \/ id = NoProject /\ answer = "no_selection"
    BY <1>4, IdAssumption DEF answer, Selectable
  <2> QED
    BY <1>4, <2>1, <2>3, <2>4, <2>5, UnlockTypes DEF Resolved
<1> QED
  BY <1>2, <1>3, <1>4

-----------------------------------------------------------------------------
(***************************************************************************)
(* The steps                                                               *)
(***************************************************************************)
Same(r, at) == Moves(r, req[r].op, req[r].arg, at, req[r].id, req[r].root, req[r].answer)
Ends(r, answer) == Moves(r, req[r].op, req[r].arg, "done", req[r].id, req[r].root, answer)

\* A step of r that leaves the store, the session and the process alone.
Calm == UNCHANGED <<rows, home, selected, session, restarts>>

\* What each step of one request does, in terms of Moves.
Arrival(r) ==
  /\ Calm /\ lock' = lock /\ Idle(r)
  /\ \/ \E id \in Ids \cup {Session} : Moves(r, "put", id, "lock", NoProject, NoPath, NoPath)
     \/ \E id \in Ids : Moves(r, "delete", id, "current", NoProject, NoPath, NoPath)
     \/ Moves(r, "delete", NoProject, "done", NoProject, NoPath, "409")
     \/ Moves(r, "add", NoProject, "done", NoProject, NoPath, "409")
     \/ Moves(r, "get", NoProject, "current", NoProject, NoPath, NoPath)
Added(r) ==
  /\ \E i \in Ids, path \in Paths :
       /\ home[i] = NoPath /\ home' = [home EXCEPT ![i] = path] /\ rows' = rows \cup {i}
  /\ UNCHANGED <<selected, session, lock, restarts>> /\ Idle(r)
  /\ Moves(r, "add", NoProject, "done", NoProject, NoPath, NoPath)

LEMMA ArrivalStep ==
  ASSUME SelTypeOK, NEW r \in Requests,
         \/ \E id \in Ids \cup {Session} : Put(r, id)
         \/ \E id \in Ids : Delete(r, id)
         \/ DeleteSession(r)
         \/ \E path \in Paths : AddDuplicate(r, path)
         \/ Get(r)
  PROVE  SelTypeOK' /\ Arrival(r) /\ Witness
<1>1. /\ req' \in [Requests -> Fields] /\ issued' \in 0 .. MaxRequests
      /\ Calm /\ lock' = lock /\ Idle(r) /\ Witness
      /\ \/ \E id \in Ids \cup {Session} : Moves(r, "put", id, "lock", NoProject, NoPath, NoPath)
         \/ \E id \in Ids : Moves(r, "delete", id, "current", NoProject, NoPath, NoPath)
         \/ Moves(r, "delete", NoProject, "done", NoProject, NoPath, "409")
         \/ Moves(r, "add", NoProject, "done", NoProject, NoPath, "409")
         \/ Moves(r, "get", NoProject, "current", NoProject, NoPath, NoPath)
  <2>1. CASE \E id \in Ids \cup {Session} : Put(r, id)
    <3>1. PICK id \in Ids \cup {Session} : Put(r, id)
      BY <2>1
    <3>2. id \in Selectable /\ Issue(r, "put", id, "lock") /\ Calm /\ lock' = lock /\ Witness
      BY <3>1 DEF Put, Selectable, Calm
    <3> QED
      BY <3>2, IssueTypes, StepsAre DEF Issue
  <2>2. CASE \E id \in Ids : Delete(r, id)
    <3>1. PICK id \in Ids : Delete(r, id)
      BY <2>2
    <3>2. id \in Selectable /\ Issue(r, "delete", id, "current") /\ Calm /\ lock' = lock /\ Witness
      BY <3>1 DEF Delete, Selectable, Calm
    <3> QED
      BY <3>2, IssueTypes, StepsAre DEF Issue
  <2>3. CASE DeleteSession(r)
    <3>1. Refuse(r, "delete", "409") /\ Calm /\ lock' = lock /\ Witness
      BY <2>3 DEF DeleteSession, Calm
    <3> QED
      BY <3>1, RefuseTypes, AnswersAre DEF Refuse
  <2>4. CASE \E path \in Paths : AddDuplicate(r, path)
    <3>1. Refuse(r, "add", "409") /\ Calm /\ lock' = lock /\ Witness
      BY <2>4 DEF AddDuplicate, Calm
    <3> QED
      BY <3>1, RefuseTypes, AnswersAre DEF Refuse
  <2>5. CASE Get(r)
    <3>1. /\ NoProject \in Selectable /\ Issue(r, "get", NoProject, "current")
          /\ Calm /\ lock' = lock /\ Witness
      BY <2>5 DEF Get, Selectable, Calm
    <3> QED
      BY <3>1, IssueTypes, StepsAre DEF Issue
  <2> QED
    BY <2>1, <2>2, <2>3, <2>4, <2>5
<1>2. seen' \in [Requests -> SUBSET Selectable] /\ raced' \in BOOLEAN
  BY <1>1, HistoryTypes DEF SelTypeOK, Calm
<1> QED
  BY <1>1, <1>2 DEF SelTypeOK, Arrival, Calm, Fields

LEMMA AddStep ==
  ASSUME SelTypeOK, NEW r \in Requests, NEW path \in Paths, NEW i \in Ids, AddNew(r, path, i)
  PROVE  SelTypeOK' /\ Added(r) /\ Witness
<1>1. /\ NoProject \in Selectable /\ Issue(r, "add", NoProject, "done") /\ Idle(r)
      /\ home[i] = NoPath /\ home' = [home EXCEPT ![i] = path] /\ rows' = rows \cup {i}
      /\ UNCHANGED <<selected, session, lock, restarts>> /\ Witness
  BY DEF AddNew, Issue, Selectable
<1>2. /\ req' \in [Requests -> Fields] /\ issued' \in 0 .. MaxRequests
      /\ Moves(r, "add", NoProject, "done", NoProject, NoPath, NoPath)
  BY <1>1, IssueTypes, StepsAre
<1>3. seen' \in [Requests -> SUBSET Selectable] /\ raced' \in BOOLEAN
  BY <1>1, HistoryTypes DEF SelTypeOK
<1>4. home' \in [Ids -> Paths \cup {NoPath}] /\ rows' \subseteq Ids
  BY <1>1 DEF SelTypeOK
<1> QED
  BY <1>1, <1>2, <1>3, <1>4 DEF SelTypeOK, Added, Fields

\* What the steps leave alone, typed again.
LEMMA CalmTypes ==
  ASSUME SelTypeOK, Calm, Witness, issued' = issued,
         req' \in [Requests -> Fields], lock' \in Requests \cup {Free}
  PROVE  SelTypeOK'
<1>1. seen' \in [Requests -> SUBSET Selectable] /\ raced' \in BOOLEAN
  BY HistoryTypes DEF SelTypeOK, Calm
<1> QED
  BY <1>1 DEF SelTypeOK, Calm, Fields

LEMMA RequestTypes ==
  ASSUME SelTypeOK, NEW r \in Requests
  PROVE  /\ req[r] \in Fields /\ req \in [Requests -> Fields]
         /\ req[r].op \in Ops \cup {"none"} /\ req[r].arg \in Selectable /\ req[r].at \in Steps
         /\ req[r].id \in Selectable /\ req[r].root \in Paths \cup {NoPath}
         /\ req[r].answer \in Answers
BY DEF SelTypeOK, Fields

LEMMA CheckSessionStep ==
  ASSUME SelTypeOK, NEW r \in Requests, CheckSession(r)
  PROVE  /\ SelTypeOK' /\ Witness /\ Calm /\ lock' = lock /\ At(r, "current")
         /\ Same(r, IF session # NoProject THEN "again" ELSE "persisted")
<1>1. /\ Goto(r, IF session # NoProject THEN "again" ELSE "persisted")
      /\ Calm /\ lock' = lock /\ issued' = issued /\ Witness /\ At(r, "current")
  BY DEF CheckSession, Calm
<1>2. /\ req' \in [Requests -> Fields]
      /\ Same(r, IF session # NoProject THEN "again" ELSE "persisted")
  BY <1>1, GotoTypes, StepsAre DEF Same
<1> QED
  BY <1>1, <1>2, CalmTypes DEF SelTypeOK

LEMMA LoadSessionStep ==
  ASSUME SelTypeOK, NEW r \in Requests, LoadSession(r)
  PROVE  SelTypeOK' /\ Witness /\ Calm /\ At(r, "again") /\ Resolved(r, session)
<1>1. Resolve(r, session) /\ Calm /\ issued' = issued /\ Witness /\ At(r, "again")
  BY DEF LoadSession, Calm
<1>2. req' \in [Requests -> Fields] /\ lock' \in Requests \cup {Free} /\ Resolved(r, session)
  BY <1>1, ResolveTypes DEF SelTypeOK
<1> QED
  BY <1>1, <1>2, CalmTypes

Persisted == IF selected \in rows THEN selected ELSE NoProject

LEMMA LoadPersistedStep ==
  ASSUME SelTypeOK, NEW r \in Requests, LoadPersisted(r)
  PROVE  SelTypeOK' /\ Witness /\ Calm /\ At(r, "persisted") /\ Resolved(r, Persisted)
<1>1. Resolve(r, Persisted) /\ Calm /\ issued' = issued /\ Witness /\ At(r, "persisted")
  BY DEF LoadPersisted, Calm, Persisted
<1>2. Persisted \in Selectable
  BY DEF Persisted, Selectable, SelTypeOK
<1>3. req' \in [Requests -> Fields] /\ lock' \in Requests \cup {Free} /\ Resolved(r, Persisted)
  BY <1>1, <1>2, ResolveTypes
<1> QED
  BY <1>1, <1>3, CalmTypes

LEMMA LoadRowStep ==
  ASSUME SelTypeOK, NEW r \in Requests, LoadRow(r)
  PROVE  /\ SelTypeOK' /\ Witness /\ Calm /\ lock' = lock /\ At(r, "row") /\ req[r].id \in rows
         /\ Moves(r, req[r].op, req[r].arg, "probe", req[r].id, home[req[r].id], req[r].answer)
<1>1. /\ req' = [req EXCEPT ![r].root = home[req[r].id], ![r].at = "probe"]
      /\ Calm /\ lock' = lock /\ issued' = issued /\ Witness /\ At(r, "row") /\ req[r].id \in rows
  BY DEF LoadRow, Calm
<1>2. home[req[r].id] \in Paths \cup {NoPath}
  BY <1>1 DEF SelTypeOK
<1>3. req' \in [Requests -> Fields]
  BY <1>1, <1>2, RequestTypes, StepsAre DEF Fields
<1>4. Moves(r, req[r].op, req[r].arg, "probe", req[r].id, home[req[r].id], req[r].answer)
  BY <1>1, RequestTypes DEF Moves, Fields
<1> QED
  BY <1>1, <1>3, <1>4, CalmTypes DEF SelTypeOK

\* A step that ends the request with an answer.
LEMMA EndTypes ==
  ASSUME SelTypeOK, NEW r \in Requests, NEW answer \in Answers,
         Calm, Witness, issued' = issued, Answer(r, answer), Unlock(r)
  PROVE  SelTypeOK' /\ Ends(r, answer) /\ Unlock(r)
<1>1. req' \in [Requests -> Fields] /\ Ends(r, answer)
  BY AnswerTypes DEF Ends
<1> QED
  BY <1>1, UnlockTypes, CalmTypes

LEMMA RowGoneStep ==
  ASSUME SelTypeOK, NEW r \in Requests, RowGone(r)
  PROVE  /\ SelTypeOK' /\ Witness /\ Calm /\ Unlock(r) /\ At(r, "row")
         /\ Ends(r, "not_registered")
BY EndTypes, AnswersAre DEF RowGone, Calm

LEMMA ProbeStep ==
  ASSUME SelTypeOK, NEW r \in Requests, Probe(r)
  PROVE  /\ SelTypeOK' /\ Witness /\ Calm /\ Unlock(r) /\ At(r, "probe")
         /\ Ends(r, req[r].root) \/ Ends(r, "unavailable")
<1>1. PICK answer \in {req[r].root, "unavailable"} : Answer(r, answer)
  BY DEF Probe
<1>2. Calm /\ Unlock(r) /\ issued' = issued /\ Witness /\ At(r, "probe")
  BY DEF Probe, Calm
<1>3. answer \in Answers
  BY <1>1, RequestTypes, AnswersAre
<1> QED
  BY <1>1, <1>2, <1>3, EndTypes

LEMMA LockStep ==
  ASSUME SelTypeOK, NEW r \in Requests, LockSelection(r)
  PROVE  /\ SelTypeOK' /\ Witness /\ Calm /\ At(r, "lock") /\ lock = Free /\ lock' = r
         /\ Same(r, "persist")
<1>1. /\ Goto(r, "persist") /\ Calm /\ lock = Free /\ lock' = r
      /\ issued' = issued /\ Witness /\ At(r, "lock")
  BY DEF LockSelection, Calm
<1>2. req' \in [Requests -> Fields] /\ Same(r, "persist")
  BY <1>1, GotoTypes, StepsAre DEF Same
<1> QED
  BY <1>1, <1>2, CalmTypes

LEMMA RefusedStep ==
  ASSUME SelTypeOK, NEW r \in Requests, PersistRefused(r)
  PROVE  /\ SelTypeOK' /\ Witness /\ Calm /\ Unlock(r) /\ At(r, "persist") /\ Target(r) \in Ids
         /\ Ends(r, "404")
BY EndTypes, AnswersAre DEF PersistRefused, Calm

LEMMA UnknownStep ==
  ASSUME SelTypeOK, NEW r \in Requests, RemoveUnknown(r)
  PROVE  /\ SelTypeOK' /\ Witness /\ Calm /\ lock' = lock /\ At(r, "remove") /\ Ends(r, "404")
<1>1. /\ Answer(r, "404") /\ Calm /\ lock' = lock /\ issued' = issued /\ Witness
      /\ At(r, "remove")
  BY DEF RemoveUnknown, Calm
<1>2. req' \in [Requests -> Fields] /\ Ends(r, "404")
  BY <1>1, AnswerTypes, AnswersAre DEF Ends
<1> QED
  BY <1>1, <1>2, CalmTypes DEF SelTypeOK

LEMMA FailsStep ==
  ASSUME SelTypeOK, NEW r \in Requests, StoreFails(r)
  PROVE  /\ SelTypeOK' /\ Witness /\ Calm /\ Unlock(r) /\ Ends(r, "503")
         /\ req[r].at \in {"persisted", "row", "remove", "persist"}
BY EndTypes, AnswersAre DEF StoreFails, Calm, At

LEMMA TargetTypes ==
  ASSUME SelTypeOK, NEW r \in Requests
  PROVE  Target(r) \in Selectable /\ RootOf(Target(r)) \in Paths \cup {NoPath}
<1>1. Target(r) \in Selectable
  BY RequestTypes DEF Target, Selectable
<1> QED
  BY <1>1, PathAssumption DEF RootOf, Selectable, SelTypeOK

LEMMA PersistStep ==
  ASSUME SelTypeOK, NEW r \in Requests, Persist(r)
  PROVE  /\ SelTypeOK' /\ Witness /\ UNCHANGED <<rows, home, session, lock, restarts>>
         /\ At(r, "persist") /\ Target(r) \in rows \cup {Session, NoProject}
         /\ selected' = (IF Target(r) = Session THEN selected ELSE Target(r))
         /\ Moves(r, req[r].op, req[r].arg, "apply", req[r].id, RootOf(Target(r)), req[r].answer)
<1>1. /\ req' = [req EXCEPT ![r].at = "apply", ![r].root = RootOf(Target(r))]
      /\ UNCHANGED <<rows, home, session, lock, issued, restarts>> /\ Witness
      /\ At(r, "persist") /\ Target(r) \in rows \cup {Session, NoProject}
      /\ selected' = (IF Target(r) = Session THEN selected ELSE Target(r))
  BY DEF Persist
<1>2. req' \in [Requests -> Fields]
  BY <1>1, TargetTypes, RequestTypes, StepsAre DEF Fields
<1>3. Moves(r, req[r].op, req[r].arg, "apply", req[r].id, RootOf(Target(r)), req[r].answer)
  BY <1>1, RequestTypes DEF Moves, Fields
<1>4. selected' \in Ids \cup {NoProject}
  BY <1>1 DEF SelTypeOK
<1>5. seen' \in [Requests -> SUBSET Selectable] /\ raced' \in BOOLEAN
  BY <1>1, <1>4, HistoryTypes DEF SelTypeOK
<1> QED
  BY <1>1, <1>2, <1>3, <1>4, <1>5 DEF SelTypeOK, Fields

LEMMA ApplyStep ==
  ASSUME SelTypeOK, NEW r \in Requests, NEW path, Apply(r, path)
  PROVE  /\ SelTypeOK' /\ Witness /\ UNCHANGED <<rows, home, selected, restarts>>
         /\ At(r, "apply") /\ session' = Target(r)
         /\ \/ req[r].op = "put" /\ Same(r, "current") /\ lock' = lock
            \/ req[r].op # "put" /\ Ends(r, "ok") /\ Unlock(r)
<1>1. /\ UNCHANGED <<rows, home, selected, issued, restarts>> /\ Witness
      /\ At(r, "apply") /\ session' = Target(r)
      /\ \/ req[r].op = "put" /\ Goto(r, "current") /\ lock' = lock
         \/ req[r].op # "put" /\ Answer(r, "ok") /\ Unlock(r)
  BY DEF Apply
<1>2. /\ req' \in [Requests -> Fields] /\ lock' \in Requests \cup {Free}
      /\ \/ req[r].op = "put" /\ Same(r, "current") /\ lock' = lock
         \/ req[r].op # "put" /\ Ends(r, "ok") /\ Unlock(r)
  BY <1>1, GotoTypes, AnswerTypes, UnlockTypes, StepsAre, AnswersAre DEF SelTypeOK, Same, Ends
<1>3. session' \in Selectable
  BY <1>1, TargetTypes
<1>4. seen' \in [Requests -> SUBSET Selectable] /\ raced' \in BOOLEAN
  BY <1>1, <1>3, HistoryTypes DEF SelTypeOK
<1> QED
  BY <1>1, <1>2, <1>3, <1>4 DEF SelTypeOK, Fields

LEMMA RemoveStep ==
  ASSUME SelTypeOK, NEW r \in Requests, Remove(r)
  PROVE  /\ SelTypeOK' /\ Witness /\ UNCHANGED <<home, session, lock, restarts>>
         /\ At(r, "remove") /\ rows' = rows \ {req[r].arg}
         /\ selected' = (IF selected = req[r].arg THEN NoProject ELSE selected)
         /\ \/ req[r].id = req[r].arg /\ Same(r, "lock")
            \/ req[r].id # req[r].arg /\ Ends(r, "ok")
<1>1. /\ UNCHANGED <<home, session, lock, issued, restarts>> /\ Witness
      /\ At(r, "remove") /\ rows' = rows \ {req[r].arg}
      /\ selected' = (IF selected = req[r].arg THEN NoProject ELSE selected)
      /\ \/ req[r].id = req[r].arg /\ Goto(r, "lock")
         \/ req[r].id # req[r].arg /\ Answer(r, "ok")
  BY DEF Remove
<1>2. /\ req' \in [Requests -> Fields]
      /\ \/ req[r].id = req[r].arg /\ Same(r, "lock")
         \/ req[r].id # req[r].arg /\ Ends(r, "ok")
  BY <1>1, GotoTypes, AnswerTypes, StepsAre, AnswersAre DEF Same, Ends
<1>3. selected' \in Ids \cup {NoProject} /\ rows' \subseteq Ids
  BY <1>1 DEF SelTypeOK
<1>4. seen' \in [Requests -> SUBSET Selectable] /\ raced' \in BOOLEAN
  BY <1>1, <1>3, HistoryTypes DEF SelTypeOK
<1> QED
  BY <1>1, <1>2, <1>3, <1>4 DEF SelTypeOK, Fields

\* Another console's transactions: rows only go, and the requests do not move.
Foreign ==
  /\ rows' \subseteq rows
  /\ UNCHANGED <<home, session, lock, req, restarts>>

LEMMA ForeignStep ==
  ASSUME SelTypeOK, OtherSelects \/ OtherRemoves
  PROVE  SelTypeOK' /\ Witness /\ Foreign
<1>1. /\ rows' \subseteq rows /\ UNCHANGED <<home, session, lock, req, issued, restarts>>
      /\ Witness /\ selected' \in Ids \cup {NoProject}
  BY DEF OtherSelects, OtherRemoves, SelTypeOK
<1>2. seen' \in [Requests -> SUBSET Selectable] /\ raced' \in BOOLEAN
  BY <1>1, HistoryTypes DEF SelTypeOK
<1> QED
  BY <1>1, <1>2 DEF SelTypeOK, Foreign

\* The process boots: no request is in flight, and the store is as it was.
Booted ==
  /\ session' = Session /\ lock' = Free /\ restarts' # restarts
  /\ \A r \in Requests : req'[r] = IdleRequest
  /\ UNCHANGED <<rows, home, selected>>

LEMMA BootStep ==
  ASSUME SelTypeOK, Restart
  PROVE  SelTypeOK' /\ Witness /\ Booted
<1>1. /\ req' = [r \in Requests |-> IdleRequest] /\ session' = Session /\ lock' = Free
      /\ UNCHANGED <<rows, home, selected, issued>> /\ Witness
      /\ restarts < MaxRestarts /\ restarts' = restarts + 1
  BY DEF Restart
<1>2. restarts' \in 0 .. MaxRestarts /\ restarts' # restarts
  BY <1>1, BoundAssumption DEF SelTypeOK
<1>3. req' \in [Requests -> Fields] /\ session' \in Selectable
  BY <1>1, IdleIs DEF Selectable
<1>4. seen' \in [Requests -> SUBSET Selectable] /\ raced' \in BOOLEAN
  BY <1>1, <1>3, HistoryTypes DEF SelTypeOK
<1> QED
  BY <1>1, <1>2, <1>3, <1>4 DEF SelTypeOK, Booted, Fields

LEMMA TypeStep == SelTypeOK /\ [SelNext]_selVars => SelTypeOK'
<1> SUFFICES ASSUME SelTypeOK, [SelNext]_selVars PROVE SelTypeOK'
  OBVIOUS
<1>1. ASSUME NEW r \in Requests, QuietStep(r) PROVE SelTypeOK'
  BY <1>1, ArrivalStep, AddStep, CheckSessionStep, LoadSessionStep, LoadPersistedStep,
     LoadRowStep, RowGoneStep, ProbeStep, LockStep, PersistStep, RefusedStep, RemoveStep,
     UnknownStep, FailsStep DEF QuietStep
<1>2. ASSUME NEW r \in Requests, NEW path, Apply(r, path) PROVE SelTypeOK'
  BY <1>2, ApplyStep
<1>3. CASE OtherSelects \/ OtherRemoves
  BY <1>3, ForeignStep
<1>4. CASE Restart
  BY <1>4, BootStep
<1>5. CASE UNCHANGED selVars
  BY <1>5 DEF selVars, SelTypeOK
<1> QED
  BY <1>1, <1>2, <1>3, <1>4, <1>5 DEF SelNext

\* The type invariant, for every instance.
THEOREM TypeCorrect == SelSpec => []SelTypeOK
<1> QED
  BY InitTypes, TypeStep, PTL DEF SelSpec

-----------------------------------------------------------------------------
(***************************************************************************)
(* The inductive invariant                                                 *)
(***************************************************************************)
\* Where a request of each kind can be.
PlaceInv(r) ==
  /\ (req[r].op = "none") = At(r, "idle")
  /\ req[r].op = "add" => At(r, "done")
  /\ req[r].op = "get" => req[r].at \in InResolve \cup {"done"}
  /\ req[r].op = "put" => /\ req[r].at \in {"lock", "done"} \cup InSwitch \cup InResolve
                          /\ req[r].arg \in Ids \cup {Session}
  /\ req[r].op = "delete" =>
       /\ req[r].at \in {"current", "again", "persisted", "remove", "lock", "done"} \cup InSwitch
       /\ ~Idle(r) => req[r].arg \in Ids
  /\ ~Idle(r) => req[r].answer = NoPath

\* selection_lock is held by the one request that moves the selection, and by a
\* PUT until it has its answer.
Holds(r) == req[r].at \in InSwitch \/ (req[r].op = "put" /\ req[r].at \in InResolve)
LockInv == \A r \in Requests : lock = r <=> Holds(r)

\* A registered id has a directory.
HomeInv == \A i \in rows : home[i] \in Paths

\* What a GET has read was selected while it was in flight.
GetInv(r) ==
  req[r].op = "get" =>
    /\ ~Idle(r) => session \in seen[r] /\ (NoProject \in seen[r] => selected \in seen[r])
    /\ At(r, "persisted") => NoProject \in seen[r]
    /\ At(r, "row") => req[r].id \in seen[r] \cap Ids
    /\ At(r, "probe") => /\ req[r].id \in seen[r] \cap Ids
                         /\ req[r].root = home[req[r].id] /\ req[r].root \in Paths
    /\ req[r].answer \in Paths => \E id \in seen[r] : RootOf(id) = req[r].answer

\* While a PUT resolves its answer, the session is on its argument.
PutInv(r) ==
  req[r].op = "put" =>
    /\ ~At(r, "persisted")
    /\ req[r].at \in {"current", "again"} => session = req[r].arg
    /\ req[r].at \in {"row", "probe"} => req[r].id = req[r].arg
    /\ req[r].answer \in Paths \cup {"not_registered", "unavailable"} => req[r].id = req[r].arg

\* The request that will bring the session to what the store has.
Mends(r) ==
  \/ req[r].op = "put" /\ At(r, "apply")
  \/ req[r].op = "delete" /\ req[r].at \in {"lock", "persist", "apply"}

\* Where a removal or a switch is, and what it knows of the selection then.
AgreeInv(r) ==
  /\ req[r].op = "put" /\ At(r, "apply") => req[r].arg \in {Session, selected}
  /\ req[r].op = "delete" /\ At(r, "apply") => selected = NoProject
  /\ req[r].op = "delete" /\ At(r, "persisted") => session = NoProject
  /\ req[r].op = "delete" /\ At(r, "remove") /\ session \in Ids => req[r].id = session

MatchInv ==
  /\ ~RemovalOverlaps /\ ~RemovalFailed
  /\ session \in {Session, selected} \/ \E r \in Requests : Mends(r)
  /\ \A r \in Requests : AgreeInv(r)

IInv ==
  /\ SelTypeOK /\ LockInv /\ HomeInv
  /\ \A r \in Requests : PlaceInv(r) /\ GetInv(r) /\ PutInv(r)
  /\ ~raced => MatchInv

-----------------------------------------------------------------------------
Step(r) == QuietStep(r) \/ \E path \in Paths \cup {NoPath} : Apply(r, path)

\* The directory of an id never changes.
HomeStays == \A i \in Ids : home[i] \in Paths => home'[i] = home[i]

\* What every step of a request leaves alone.
Frame(r) ==
  /\ \A q \in Requests \ {r} : req'[q] = req[q]
  /\ HomeStays /\ restarts' = restarts

LEMMA FrameOfMoves ==
  ASSUME NEW r \in Requests, UNCHANGED <<home, restarts>>,
         NEW op, NEW arg, NEW at, NEW id, NEW path, NEW answer,
         Moves(r, op, arg, at, id, path, answer)
  PROVE  Frame(r)
BY DEF Moves, Frame, HomeStays

LEMMA OneMoves ==
  ASSUME SelTypeOK, NEW r \in Requests, Step(r)
  PROVE  SelTypeOK' /\ Witness /\ Frame(r)
<1>1. CASE \/ \E id \in Ids \cup {Session} : Put(r, id)
           \/ \E id \in Ids : Delete(r, id)
           \/ DeleteSession(r)
           \/ \E path \in Paths : AddDuplicate(r, path)
           \/ Get(r)
  BY <1>1, ArrivalStep, FrameOfMoves DEF Arrival, Calm
<1>2. CASE \E path \in Paths, i \in Ids : AddNew(r, path, i)
  <2>1. SelTypeOK' /\ Witness /\ Added(r)
    BY <1>2, AddStep
  <2>2. Frame(r)
    BY <2>1, PathAssumption DEF Added, Frame, HomeStays, Moves, SelTypeOK
  <2> QED
    BY <2>1, <2>2
<1>3. CASE CheckSession(r) \/ LockSelection(r)
  BY <1>3, CheckSessionStep, LockStep, FrameOfMoves DEF Calm, Same
<1>4. CASE LoadSession(r) \/ LoadPersisted(r)
  BY <1>4, LoadSessionStep, LoadPersistedStep, FrameOfMoves DEF Calm, Resolved
<1>5. CASE LoadRow(r)
  BY <1>5, LoadRowStep, FrameOfMoves DEF Calm
<1>6. CASE RowGone(r) \/ Probe(r) \/ PersistRefused(r) \/ RemoveUnknown(r) \/ StoreFails(r)
  BY <1>6, RowGoneStep, ProbeStep, RefusedStep, UnknownStep, FailsStep, FrameOfMoves
     DEF Calm, Ends
<1>7. CASE Persist(r)
  BY <1>7, PersistStep, FrameOfMoves
<1>8. CASE Remove(r)
  BY <1>8, RemoveStep, FrameOfMoves DEF Same, Ends
<1>9. CASE \E path \in Paths \cup {NoPath} : Apply(r, path)
  BY <1>9, ApplyStep, FrameOfMoves DEF Same, Ends
<1> QED
  BY <1>1, <1>2, <1>3, <1>4, <1>5, <1>6, <1>7, <1>8, <1>9 DEF Step, QuietStep

\* The steps of a request, in the terms of the lemmas above.
Did(r) ==
  \/ Arrival(r)
  \/ Added(r)
  \/ At(r, "current") /\ Calm /\ lock' = lock
       /\ Same(r, IF session # NoProject THEN "again" ELSE "persisted")
  \/ At(r, "again") /\ Calm /\ Resolved(r, session)
  \/ At(r, "persisted") /\ Calm /\ Resolved(r, Persisted)
  \/ /\ At(r, "row") /\ Calm /\ lock' = lock /\ req[r].id \in rows
     /\ Moves(r, req[r].op, req[r].arg, "probe", req[r].id, home[req[r].id], req[r].answer)
  \/ At(r, "row") /\ Calm /\ Unlock(r) /\ Ends(r, "not_registered")
  \/ At(r, "probe") /\ Calm /\ Unlock(r) /\ Ends(r, req[r].root)
  \/ At(r, "probe") /\ Calm /\ Unlock(r) /\ Ends(r, "unavailable")
  \/ At(r, "lock") /\ Calm /\ lock = Free /\ lock' = r /\ Same(r, "persist")
  \/ /\ At(r, "persist") /\ Target(r) \in rows \cup {Session, NoProject}
     /\ UNCHANGED <<rows, home, session, lock, restarts>>
     /\ selected' = (IF Target(r) = Session THEN selected ELSE Target(r))
     /\ Moves(r, req[r].op, req[r].arg, "apply", req[r].id, RootOf(Target(r)), req[r].answer)
  \/ At(r, "persist") /\ Calm /\ Unlock(r) /\ Target(r) \in Ids /\ Ends(r, "404")
  \/ /\ At(r, "apply") /\ UNCHANGED <<rows, home, selected, restarts>> /\ session' = Target(r)
     /\ \/ req[r].op = "put" /\ Same(r, "current") /\ lock' = lock
        \/ req[r].op # "put" /\ Ends(r, "ok") /\ Unlock(r)
  \/ /\ At(r, "remove") /\ UNCHANGED <<home, session, lock, restarts>>
     /\ rows' = rows \ {req[r].arg}
     /\ selected' = (IF selected = req[r].arg THEN NoProject ELSE selected)
     /\ \/ req[r].id = req[r].arg /\ Same(r, "lock")
        \/ req[r].id # req[r].arg /\ Ends(r, "ok")
  \/ At(r, "remove") /\ Calm /\ lock' = lock /\ Ends(r, "404")
  \/ /\ req[r].at \in {"persisted", "row", "remove", "persist"}
     /\ Calm /\ Unlock(r) /\ Ends(r, "503")

LEMMA StepsDo ==
  ASSUME SelTypeOK, NEW r \in Requests, Step(r)
  PROVE  Did(r)
<1>1. CASE \/ \E id \in Ids \cup {Session} : Put(r, id)
           \/ \E id \in Ids : Delete(r, id)
           \/ DeleteSession(r)
           \/ \E path \in Paths : AddDuplicate(r, path)
           \/ Get(r)
  BY <1>1, ArrivalStep DEF Did
<1>2. CASE \E path \in Paths, i \in Ids : AddNew(r, path, i)
  BY <1>2, AddStep DEF Did
<1>3. CASE CheckSession(r) \/ LoadSession(r) \/ LoadPersisted(r) \/ LoadRow(r)
  BY <1>3, CheckSessionStep, LoadSessionStep, LoadPersistedStep, LoadRowStep DEF Did
<1>4. CASE RowGone(r) \/ Probe(r) \/ PersistRefused(r) \/ RemoveUnknown(r) \/ StoreFails(r)
  BY <1>4, RowGoneStep, ProbeStep, RefusedStep, UnknownStep, FailsStep DEF Did
<1>5. CASE LockSelection(r) \/ Persist(r) \/ Remove(r)
  BY <1>5, LockStep, PersistStep, RemoveStep DEF Did
<1>6. CASE \E path \in Paths \cup {NoPath} : Apply(r, path)
  BY <1>6, ApplyStep DEF Did
<1> QED
  BY <1>1, <1>2, <1>3, <1>4, <1>5, <1>6 DEF Step, QuietStep

LEMMA PlaceStep ==
  ASSUME SelTypeOK, NEW r \in Requests, Did(r), PlaceInv(r)
  PROVE  PlaceInv(r)'
<1>1. req[r].at \in Steps
  BY RequestTypes
<1>2. CASE Arrival(r)
  BY <1>2, OpsAssumption DEF Arrival, Moves, PlaceInv, At, Idle, InResolve, InSwitch
<1>3. CASE Added(r)
  BY <1>3 DEF Added, Moves, PlaceInv, At, Idle
<1>4. CASE ~Arrival(r) /\ ~Added(r)
  BY <1>1, <1>4, PathAssumption, IdAssumption
     DEF Did, Same, Ends, Resolved, Moves, PlaceInv, At, Idle, InResolve, InSwitch, Target
<1> QED
  BY <1>2, <1>3, <1>4

LEMMA LockStays ==
  ASSUME SelTypeOK, LockInv, NEW r \in Requests, Did(r), Frame(r),
         \A q \in Requests : PlaceInv(q)
  PROVE  LockInv'
<1>1. PlaceInv(r) /\ PlaceInv(r)'
  BY PlaceStep
<1>2. \A q \in Requests \ {r} : Holds(q)' <=> Holds(q)
  BY DEF Frame, Holds
<1>3. /\ \A q \in Requests : lock = q <=> Holds(q)
      /\ \A q \in Requests : q # Free
  BY RequestAssumption DEF LockInv, Free
<1>4. CASE lock' = lock /\ (Holds(r)' <=> Holds(r))
  BY <1>2, <1>3, <1>4 DEF LockInv
<1>5. CASE Unlock(r) /\ ~Holds(r)'
  BY <1>2, <1>3, <1>5 DEF LockInv, Unlock
<1>6. CASE lock = Free /\ lock' = r /\ Holds(r)'
  BY <1>2, <1>3, <1>6 DEF LockInv
<1>7. \/ lock' = lock /\ (Holds(r)' <=> Holds(r))
      \/ Unlock(r) /\ ~Holds(r)'
      \/ lock = Free /\ lock' = r /\ Holds(r)'
  <2>1. CASE Arrival(r)
    BY <1>1, <2>1 DEF Arrival, Moves, PlaceInv, At, Idle, InResolve, InSwitch, Holds
  <2>2. CASE Added(r)
    BY <1>1, <2>2 DEF Added, Moves, PlaceInv, At, Idle, InResolve, InSwitch, Holds
  <2>3. CASE ~Arrival(r) /\ ~Added(r)
    BY <1>1, <2>3
       DEF Did, Same, Ends, Resolved, Moves, PlaceInv, At, Idle, InResolve, InSwitch, Holds
  <2> QED
    BY <2>1, <2>2, <2>3
<1> QED
  BY <1>4, <1>5, <1>6, <1>7

LEMMA HomesStay ==
  ASSUME SelTypeOK, HomeInv, NEW r \in Requests, Did(r)
  PROVE  HomeInv'
<1>1. CASE Added(r)
  BY <1>1 DEF Added, HomeInv, SelTypeOK
<1>2. CASE ~Added(r)
  BY <1>2 DEF Did, Arrival, Calm, HomeInv
<1> QED
  BY <1>1, <1>2

-----------------------------------------------------------------------------
(***************************************************************************)
(* What a GET is served                                                    *)
(***************************************************************************)
LEMMA SeenNow ==
  ASSUME Witness, NEW q \in Requests, req'[q].op = "get",
         ~Idle(q) \/ req'[q].at = "current"
  PROVE  session' \in seen'[q] /\ (NoProject \in seen'[q] => selected' \in seen'[q])
<1>1. \A ids : /\ session' \in AlsoSeen(ids)
               /\ NoProject \in AlsoSeen(ids) => selected' \in AlsoSeen(ids)
  BY DEF AlsoSeen
<1>2. seen'[q] = AlsoSeen({}) \/ seen'[q] = AlsoSeen(seen[q])
  BY DEF Witness, At
<1> QED
  BY <1>1, <1>2

LEMMA SeenGrows ==
  ASSUME Witness, NEW q \in Requests, req'[q].op = "get",
         ~Idle(q) \/ req'[q].at # "current"
  PROVE  seen[q] \subseteq seen'[q]
<1>1. seen'[q] = seen[q] \/ seen'[q] = AlsoSeen(seen[q])
  BY DEF Witness, At
<1> QED
  BY <1>1 DEF AlsoSeen

LEMMA RootsStay ==
  ASSUME SelTypeOK, HomeStays
  PROVE  \A id \in Selectable : RootOf(id) \in Paths => RootOf(id)' = RootOf(id)
BY PathAssumption, IdAssumption DEF RootOf, HomeStays, SelTypeOK, Selectable

LEMMA GetFrame ==
  ASSUME SelTypeOK, Witness, HomeStays, NEW q \in Requests, GetInv(q), req'[q] = req[q]
  PROVE  GetInv(q)'
<1> SUFFICES ASSUME req[q].op = "get" PROVE GetInv(q)'
  BY DEF GetInv
<1>1. seen[q] \subseteq seen'[q]
  <2>1. ~Idle(q) \/ req'[q].at # "current"
    BY DEF Idle
  <2> QED
    BY <2>1, SeenGrows
<1>2. ~Idle(q)' => session' \in seen'[q] /\ (NoProject \in seen'[q] => selected' \in seen'[q])
  BY SeenNow DEF Idle
<1>3. At(q, "persisted")' => NoProject \in seen'[q]
  BY <1>1 DEF GetInv, At
<1>4. At(q, "row")' => req'[q].id \in seen'[q] \cap Ids
  BY <1>1 DEF GetInv, At
<1>5. At(q, "probe")' => /\ req'[q].id \in seen'[q] \cap Ids
                         /\ req'[q].root = home'[req'[q].id] /\ req'[q].root \in Paths
  BY <1>1 DEF GetInv, At, HomeStays
<1>6. req'[q].answer \in Paths => \E id \in seen'[q] : RootOf(id)' = req'[q].answer
  <2> SUFFICES ASSUME req[q].answer \in Paths
               PROVE  \E id \in seen'[q] : RootOf(id)' = req'[q].answer
    OBVIOUS
  <2>1. seen[q] \subseteq Selectable
    BY DEF SelTypeOK
  <2> QED
    BY <1>1, <2>1, RootsStay DEF GetInv
<1> QED
  BY <1>2, <1>3, <1>4, <1>5, <1>6 DEF GetInv

LEMMA GetStep ==
  ASSUME SelTypeOK, Witness, HomeStays, HomeInv,
         NEW r \in Requests, Did(r), PlaceInv(r), GetInv(r)
  PROVE  GetInv(r)'
<1> SUFFICES ASSUME req'[r].op = "get" PROVE GetInv(r)'
  BY DEF GetInv
<1>1. ~Idle(r)' => session' \in seen'[r] /\ (NoProject \in seen'[r] => selected' \in seen'[r])
  <2>1. ~Idle(r)' => ~Idle(r) \/ req'[r].at = "current"
    BY DEF Did, Arrival, Added, Idle, At, Moves
  <2> QED
    BY <2>1, SeenNow
<1>2. CASE Arrival(r)
  <2>1. req'[r].at = "current" /\ req'[r].answer = NoPath
    BY <1>2 DEF Arrival, Moves
  <2> QED
    BY <1>1, <2>1, PathAssumption DEF GetInv, At
<1>3. CASE ~Arrival(r)
  <2>1. req[r].op = "get" /\ ~Idle(r) /\ req[r].at \in InResolve /\ req[r].answer = NoPath
    <3>1. ~Added(r)
      BY DEF Added, Moves
    <3>2. req[r].op = "get" /\ ~Idle(r)
      BY <1>3, <3>1 DEF Did, Same, Ends, Resolved, Moves, At, Idle
    <3> QED
      BY <3>2 DEF PlaceInv, Idle
  <2>2. seen[r] \subseteq seen'[r] /\ session \in seen[r] /\ seen[r] \subseteq Selectable
    BY <2>1, SeenGrows DEF GetInv, SelTypeOK
  <2>3. NoProject \in seen[r] => selected \in seen[r]
    BY <2>1 DEF GetInv
  <2>4. CASE At(r, "current")
    <3>1. Same(r, IF session # NoProject THEN "again" ELSE "persisted")
      BY <1>3, <2>1, <2>4 DEF Did, At, Added, Idle
    <3>2. req'[r].answer = NoPath /\ req'[r].at \in {"again", "persisted"}
          /\ (req'[r].at = "persisted" => session = NoProject)
      BY <2>1, <3>1 DEF Same, Moves
    <3> QED
      BY <1>1, <2>2, <3>2, PathAssumption DEF GetInv, At
  <2>5. CASE \/ At(r, "again")
             \/ At(r, "persisted") /\ Resolved(r, Persisted)
    <3>1. PICK id \in seen[r] : Resolved(r, id)
      <4>1. CASE At(r, "again")
        BY <1>3, <2>1, <2>2, <4>1 DEF Did, At, Added, Idle
      <4>2. CASE At(r, "persisted") /\ Resolved(r, Persisted)
        BY <2>1, <2>3, <4>2 DEF GetInv, Persisted
      <4> QED
        BY <2>5, <4>1, <4>2
    <3>2. CASE /\ id \in Ids
               /\ Moves(r, req[r].op, req[r].arg, "row", id, req[r].root, req[r].answer)
      BY <1>1, <2>1, <2>2, <3>2, PathAssumption DEF Moves, GetInv, At
    <3>3. CASE id = Session /\ Moves(r, req[r].op, req[r].arg, "done", id, req[r].root, PinnedRoot)
      <4>1. \E i \in seen'[r] : RootOf(i)' = PinnedRoot
        BY <2>2, <3>3 DEF RootOf
      <4> QED
        BY <1>1, <3>3, <4>1 DEF Moves, GetInv, At
    <3>4. CASE Moves(r, req[r].op, req[r].arg, "done", id, req[r].root, "no_selection")
      BY <1>1, <3>4, OutcomeAssumption DEF Moves, GetInv, At, Outcomes
    <3> QED
      BY <2>1, <3>1, <3>2, <3>3, <3>4 DEF Resolved
  <2>6. CASE \E a \in Outcomes : Ends(r, a)
    BY <1>1, <2>6, OutcomeAssumption DEF Ends, Moves, GetInv, At
  <2>7. CASE /\ At(r, "row") /\ req[r].id \in rows
             /\ Moves(r, req[r].op, req[r].arg, "probe", req[r].id, home[req[r].id], req[r].answer)
    <3>1. /\ req[r].id \in seen[r] \cap Ids /\ home[req[r].id] \in Paths
          /\ home'[req[r].id] = home[req[r].id]
      BY <2>1, <2>7 DEF GetInv, HomeInv, HomeStays
    <3>2. req'[r].at = "probe" /\ req'[r].id = req[r].id /\ req'[r].root = home[req[r].id]
          /\ req'[r].answer = NoPath
      BY <2>1, <2>7 DEF Moves
    <3> QED
      BY <1>1, <2>2, <3>1, <3>2, PathAssumption DEF GetInv, At
  <2>8. CASE At(r, "probe") /\ Ends(r, req[r].root)
    <3>1. /\ req[r].id \in seen[r] \cap Ids /\ req[r].root = home[req[r].id]
          /\ req[r].root \in Paths
      BY <2>1, <2>8 DEF GetInv
    <3>2. RootOf(req[r].id) = req[r].root
      BY <3>1, IdAssumption DEF RootOf
    <3>3. \E id \in seen'[r] : RootOf(id)' = req[r].root
      BY <2>2, <3>1, <3>2, RootsStay
    <3>4. req'[r].at = "done" /\ req'[r].answer = req[r].root
      BY <2>8 DEF Ends, Moves
    <3> QED
      BY <1>1, <3>3, <3>4 DEF GetInv, At
  <2>9. \/ At(r, "current")
        \/ At(r, "again")
        \/ At(r, "persisted") /\ Resolved(r, Persisted)
        \/ \E a \in Outcomes : Ends(r, a)
        \/ /\ At(r, "row") /\ req[r].id \in rows
           /\ Moves(r, req[r].op, req[r].arg, "probe", req[r].id, home[req[r].id], req[r].answer)
        \/ At(r, "probe") /\ Ends(r, req[r].root)
    <3>1. req[r].at \notin {"lock", "persist", "apply", "remove"}
      BY <2>1 DEF InResolve
    <3> QED
      BY <1>3, <2>1, <3>1 DEF Did, At, Outcomes, Added
  <2> QED
    BY <2>4, <2>5, <2>6, <2>7, <2>8, <2>9
<1> QED
  BY <1>2, <1>3

-----------------------------------------------------------------------------
(***************************************************************************)
(* What a PUT is answered                                                  *)
(***************************************************************************)
LEMMA PutFrame ==
  ASSUME LockInv, NEW q \in Requests, PutInv(q), req'[q] = req[q],
         \/ session' = session
         \/ \E r \in Requests \ {q} : At(r, "apply")
  PROVE  PutInv(q)'
<1>1. req[q].op = "put" /\ req[q].at \in {"current", "again"} => session' = session
  BY DEF LockInv, Holds, At, InSwitch, InResolve
<1> QED
  BY <1>1 DEF PutInv, At

LEMMA PutStep ==
  ASSUME SelTypeOK, NEW r \in Requests, Did(r), PlaceInv(r), PutInv(r)
  PROVE  PutInv(r)'
<1> SUFFICES ASSUME req'[r].op = "put" PROVE PutInv(r)'
  BY DEF PutInv
<1>1. NoPath \notin Paths \cup {"not_registered", "unavailable"}
  BY PathAssumption, OutcomeAssumption DEF Outcomes
<1>2. \A a \in Outcomes \ {"not_registered", "unavailable"} :
        a \notin Paths \cup {"not_registered", "unavailable"}
  BY OutcomeAssumption
<1>3. CASE Arrival(r)
  BY <1>1, <1>3 DEF Arrival, Moves, PutInv, At
<1>4. CASE ~Arrival(r)
  <2>1. /\ req[r].op = "put" /\ req[r].arg \in Ids \cup {Session} /\ ~Idle(r) /\ ~Added(r)
        /\ req[r].answer = NoPath
    <3>1. ~Added(r)
      BY DEF Added, Moves
    <3>2. req[r].op = "put" /\ ~Idle(r)
      BY <1>4, <3>1 DEF Did, Same, Ends, Resolved, Moves, At, Idle
    <3> QED
      BY <3>1, <3>2 DEF PlaceInv
  <2>2. CASE At(r, "current")
    <3>1. session # NoProject
      BY <2>1, <2>2, IdAssumption DEF PutInv, At
    <3>2. Calm /\ Same(r, "again")
      BY <1>4, <2>1, <2>2, <3>1 DEF Did, At
    <3> QED
      BY <1>1, <2>1, <2>2, <3>2 DEF Calm, Same, Moves, PutInv, At
  <2>3. CASE At(r, "again")
    <3>1. Resolved(r, req[r].arg)
      BY <1>4, <2>1, <2>3 DEF Did, At, PutInv
    <3> QED
      BY <1>1, <2>1, <3>1 DEF Resolved, Moves, PutInv, At
  <2>4. CASE At(r, "row") \/ At(r, "probe")
    <3>1. req[r].id = req[r].arg
      BY <2>1, <2>4 DEF PutInv, At
    <3>2. req'[r].id = req[r].id /\ req'[r].arg = req[r].arg
          /\ req'[r].at \in {"probe", "done"}
      BY <1>4, <2>1, <2>4 DEF Did, At, Same, Ends, Moves
    <3> QED
      BY <3>1, <3>2 DEF PutInv, At
  <2>5. CASE At(r, "lock") \/ At(r, "persist")
    <3>1. /\ req'[r].at \in {"persist", "apply"} /\ req'[r].answer = NoPath
          \/ \E a \in {"404", "503"} : Ends(r, a)
      BY <1>4, <2>1, <2>5 DEF Did, At, Same, Moves
    <3>2. CASE \E a \in {"404", "503"} : Ends(r, a)
      BY <1>2, <3>2 DEF Ends, Moves, PutInv, At, Outcomes
    <3>3. CASE req'[r].at \in {"persist", "apply"} /\ req'[r].answer = NoPath
      BY <1>1, <3>3 DEF PutInv, At
    <3> QED
      BY <3>1, <3>2, <3>3
  <2>6. CASE At(r, "apply")
    <3>1. session' = req[r].arg /\ Same(r, "current")
      BY <1>4, <2>1, <2>6 DEF Did, At, Target
    <3> QED
      BY <1>1, <2>1, <3>1 DEF Same, Moves, PutInv, At
  <2>7. req[r].at \in {"lock", "persist", "apply", "current", "again", "row", "probe"}
    BY <2>1 DEF PlaceInv, PutInv, Idle, At, InSwitch, InResolve
  <2> QED
    BY <2>2, <2>3, <2>4, <2>5, <2>6, <2>7 DEF At
<1> QED
  BY <1>3, <1>4

-----------------------------------------------------------------------------
(***************************************************************************)
(* The session and the store                                               *)
(***************************************************************************)
LEMMA StillCalm ==
  ASSUME Witness, restarts' = restarts, raced \in BOOLEAN, ~raced'
  PROVE  ~raced /\ ~RemovalOverlaps' /\ ~RemovalFailed' /\ ~OtherActs
BY DEF Witness

LEMMA AgreeFrame ==
  ASSUME SelTypeOK, LockInv, MatchInv, NEW r \in Requests, Did(r),
         NEW q \in Requests \ {r}, req'[q] = req[q], PlaceInv(r)
  PROVE  AgreeInv(q)'
<1>1. AgreeInv(q)
  BY DEF MatchInv
<1>2. CASE UNCHANGED <<session, selected>>
  BY <1>1, <1>2 DEF AgreeInv, At
<1>3. CASE At(r, "persist") /\ session' = session
  <2>1. ~At(q, "apply")
    BY <1>3 DEF LockInv, Holds, At, InSwitch
  <2> QED
    BY <1>1, <1>3, <2>1 DEF AgreeInv, At
<1>4. CASE At(r, "apply") /\ selected' = selected /\ session' = Target(r)
  <2>1. CASE req[r].op = "put"
    <3>1. ~(req[q].op = "delete" /\ ~Idle(q))
      BY <1>4, <2>1 DEF MatchInv, RemovalOverlaps, Idle, At
    <3> QED
      BY <1>1, <1>4, <3>1 DEF AgreeInv, At, Idle
  <2>2. CASE req[r].op # "put"
    BY <1>1, <1>4, <2>2, IdAssumption DEF AgreeInv, At, Target
  <2> QED
    BY <2>1, <2>2
<1>5. CASE At(r, "remove") /\ session' = session /\ selected' \in {selected, NoProject}
  <2>1. req[r].op = "delete"
    BY <1>5, OpsAssumption, RequestTypes DEF PlaceInv, At, InSwitch, InResolve
  <2>2. ~(req[q].op = "put" /\ ~Idle(q))
    BY <1>5, <2>1 DEF MatchInv, RemovalOverlaps, Idle, At
  <2> QED
    BY <1>1, <1>5, <2>2 DEF AgreeInv, At, Idle
<1> QED
  BY <1>2, <1>3, <1>4, <1>5 DEF Did, Arrival, Added, Calm

LEMMA AgreeStep ==
  ASSUME SelTypeOK, LockInv, MatchInv, NEW r \in Requests, Did(r), PlaceInv(r), PlaceInv(r)'
  PROVE  AgreeInv(r)'
<1>1. AgreeInv(r)
  BY DEF MatchInv
<1>2. CASE req'[r].at \in {"done", "current", "again", "row", "probe", "lock", "persist"}
  BY <1>2 DEF AgreeInv, At
<1>3. CASE req'[r].at = "persisted"
  <2>1. At(r, "current") /\ Calm /\ session = NoProject
    BY <1>3 DEF Did, At, Arrival, Added, Resolved, Same, Ends, Moves
  <2> QED
    BY <1>3, <2>1 DEF AgreeInv, At, Calm
<1>4. CASE req'[r].at = "remove"
  <2>1. \/ At(r, "again") /\ Calm /\ req'[r].id = session
        \/ At(r, "persisted") /\ Calm /\ req'[r].op = req[r].op /\ req[r].op = "delete"
    BY <1>4 DEF Did, At, Arrival, Added, Resolved, Same, Ends, Moves
  <2> QED
    BY <1>1, <1>4, <2>1, IdAssumption DEF AgreeInv, At, Calm
<1>5. CASE req'[r].at = "apply"
  <2>1. /\ At(r, "persist") /\ req'[r].op = req[r].op /\ req'[r].arg = req[r].arg
        /\ selected' = (IF Target(r) = Session THEN selected ELSE Target(r))
    BY <1>5 DEF Did, At, Arrival, Added, Resolved, Same, Ends, Moves
  <2> QED
    BY <1>5, <2>1, IdAssumption DEF AgreeInv, At, Target
<1>6. req'[r].at \in {"done", "current", "again", "row", "probe", "lock", "persist",
                      "persisted", "remove", "apply"}
  BY DEF Did, At, Arrival, Added, Resolved, Same, Ends, Moves
<1> QED
  BY <1>2, <1>3, <1>4, <1>5, <1>6

LEMMA MatchStep ==
  ASSUME SelTypeOK, LockInv, MatchInv, Witness, ~raced',
         NEW r \in Requests, Did(r), Frame(r), PlaceInv(r), PlaceInv(r)'
  PROVE  MatchInv'
<1> DEFINE Agree == \/ session \in {Session, selected}
                    \/ \E q \in Requests : Mends(q)
<1>1. ~RemovalOverlaps' /\ ~RemovalFailed'
  BY StillCalm DEF Frame, SelTypeOK
<1>2. \A q \in Requests : AgreeInv(q)'
  BY AgreeFrame, AgreeStep DEF Frame
<1>3. \A q \in Requests \ {r} : Mends(q) => Mends(q)'
  BY DEF Frame, Mends, At
<1>4. Agree'
  <2>1. CASE UNCHANGED <<session, selected>> /\ (Mends(r) => Mends(r)')
    BY <1>3, <2>1 DEF MatchInv
  <2>2. CASE Mends(r)'
    BY <2>2
  <2>3. CASE At(r, "apply") /\ selected' = selected /\ session' = Target(r)
    <3>1. req[r].op \in {"put", "delete"}
      BY <2>3, OpsAssumption, RequestTypes DEF PlaceInv, At, InSwitch, InResolve
    <3>2. session' \in {Session, selected'}
      BY <2>3, <3>1 DEF MatchInv, AgreeInv, Target
    <3> QED
      BY <3>2
  <2>4. CASE /\ At(r, "remove") /\ session' = session /\ req[r].id # req[r].arg
             /\ selected' = (IF selected = req[r].arg THEN NoProject ELSE selected)
    <3>1. req[r].op = "delete" /\ req[r].arg \in Ids /\ ~Mends(r)
      BY <2>4, OpsAssumption, RequestTypes
         DEF PlaceInv, At, Idle, Mends, InSwitch, InResolve
    <3>2. session # req[r].arg
      BY <2>4, <3>1 DEF MatchInv, AgreeInv
    <3>3. session \in {Session, selected} => session' \in {Session, selected'}
      BY <2>4, <3>2
    <3> QED
      BY <1>3, <3>1, <3>3 DEF MatchInv
  <2>5. \/ UNCHANGED <<session, selected>> /\ (Mends(r) => Mends(r)')
        \/ Mends(r)'
        \/ At(r, "apply") /\ selected' = selected /\ session' = Target(r)
        \/ /\ At(r, "remove") /\ session' = session /\ req[r].id # req[r].arg
           /\ selected' = (IF selected = req[r].arg THEN NoProject ELSE selected)
    <3>1. CASE Idle(r) \/ req[r].at \in InResolve
      BY <3>1 DEF Did, Arrival, Added, Calm, Idle, At, Mends, InResolve
    <3>2. CASE At(r, "lock")
      <4>1. UNCHANGED <<session, selected>> /\ Same(r, "persist")
        BY <3>2 DEF Did, Arrival, Added, Calm, Idle, At
      <4> QED
        BY <3>2, <4>1 DEF Same, Moves, Mends, At
    <3>3. CASE At(r, "persist")
      <4>1. req[r].op \in {"put", "delete"}
        BY <3>3, OpsAssumption, RequestTypes DEF PlaceInv, At, InSwitch, InResolve
      <4>2. \/ req'[r].op = req[r].op /\ req'[r].at = "apply"
            \/ UNCHANGED <<session, selected>> /\ Target(r) \in Ids
            \/ UNCHANGED <<session, selected>> /\ Ends(r, "503")
        BY <3>3 DEF Did, Arrival, Added, Calm, Idle, At, Moves
      <4>3. CASE req'[r].op = req[r].op /\ req'[r].at = "apply"
        BY <4>1, <4>3 DEF Mends, At
      <4>4. CASE UNCHANGED <<session, selected>> /\ Target(r) \in Ids
        BY <3>3, <4>1, <4>4, IdAssumption DEF Mends, At, Target
      <4>5. CASE UNCHANGED <<session, selected>> /\ Ends(r, "503")
        <5>1. req[r].op # "delete"
          BY <1>1, <4>5 DEF RemovalFailed, Ends, Moves
        <5> QED
          BY <3>3, <4>5, <5>1 DEF Mends, At
      <4> QED
        BY <4>2, <4>3, <4>4, <4>5
    <3>4. CASE At(r, "apply")
      BY <3>4 DEF Did, Arrival, Added, Idle, At
    <3>5. CASE At(r, "remove")
      <4>1. req[r].op = "delete" /\ ~Mends(r)
        BY <3>5, OpsAssumption, RequestTypes DEF PlaceInv, At, Mends, InSwitch, InResolve
      <4>2. \/ UNCHANGED <<session, selected>>
            \/ /\ session' = session /\ req[r].id # req[r].arg
               /\ selected' = (IF selected = req[r].arg THEN NoProject ELSE selected)
            \/ Same(r, "lock")
        BY <3>5 DEF Did, Arrival, Added, Calm, Idle, At
      <4>3. Same(r, "lock") => Mends(r)'
        BY <4>1 DEF Same, Moves, Mends, At
      <4> QED
        BY <3>5, <4>1, <4>2, <4>3
    <3>6. req[r].at \in {"idle", "done", "lock", "persist", "apply", "remove"} \cup InResolve
      BY RequestTypes DEF Steps, InSwitch
    <3> QED
      BY <3>1, <3>2, <3>3, <3>4, <3>5, <3>6 DEF Idle, At
  <2> QED
    BY <2>1, <2>2, <2>3, <2>4, <2>5
<1> QED
  BY <1>1, <1>2, <1>4 DEF MatchInv

-----------------------------------------------------------------------------
LEMMA InitInv == SelInit => IInv
<1> SUFFICES ASSUME SelInit PROVE IInv
  OBVIOUS
<1>1. \A r \in Requests : req[r] = IdleRequest
  BY DEF SelInit
<1>2. \A r \in Requests : PlaceInv(r) /\ GetInv(r) /\ PutInv(r) /\ AgreeInv(r)
  BY <1>1, IdleIs DEF PlaceInv, GetInv, PutInv, AgreeInv, At, Idle
<1>3. LockInv /\ HomeInv
  BY <1>1, IdleIs, RequestAssumption
     DEF SelInit, LockInv, HomeInv, Holds, InSwitch, InResolve, Free
<1>4. MatchInv
  BY <1>1, <1>2, IdleIs DEF SelInit, MatchInv, RemovalOverlaps, RemovalFailed
<1> QED
  BY <1>2, <1>3, <1>4, InitTypes DEF IInv

LEMMA StepInv ==
  ASSUME IInv, NEW r \in Requests, Step(r)
  PROVE  IInv'
<1>1. SelTypeOK /\ SelTypeOK' /\ Witness /\ Frame(r) /\ Did(r)
  BY OneMoves, StepsDo DEF IInv
<1>2. \A q \in Requests : PlaceInv(q)'
  <2>1. PlaceInv(r)'
    BY <1>1, PlaceStep DEF IInv
  <2>2. \A q \in Requests \ {r} : PlaceInv(q)'
    BY <1>1 DEF IInv, Frame, PlaceInv, At, Idle
  <2> QED
    BY <2>1, <2>2
<1>3. LockInv' /\ HomeInv'
  BY <1>1, LockStays, HomesStay DEF IInv
<1>4. \A q \in Requests : GetInv(q)'
  <2>1. GetInv(r)'
    BY <1>1, GetStep DEF IInv, Frame
  <2>2. \A q \in Requests \ {r} : GetInv(q)'
    BY <1>1, GetFrame DEF IInv, Frame
  <2> QED
    BY <2>1, <2>2
<1>5. \A q \in Requests : PutInv(q)'
  <2>1. PutInv(r)'
    BY <1>1, PutStep DEF IInv
  <2>2. session' = session \/ At(r, "apply")
    BY <1>1 DEF Did, Arrival, Added, Calm
  <2>3. \A q \in Requests \ {r} : PutInv(q)'
    BY <1>1, <2>2, PutFrame DEF IInv, Frame
  <2> QED
    BY <2>1, <2>3
<1>6. ~raced' => MatchInv'
  BY <1>1, <1>2, StillCalm, MatchStep DEF IInv, Frame, SelTypeOK
<1> QED
  BY <1>1, <1>2, <1>3, <1>4, <1>5, <1>6 DEF IInv

LEMMA ForeignInv ==
  ASSUME IInv, OtherSelects \/ OtherRemoves
  PROVE  IInv'
<1>1. SelTypeOK /\ SelTypeOK' /\ Witness /\ Foreign
  BY ForeignStep DEF IInv
<1>2. \A q \in Requests : PlaceInv(q)' /\ PutInv(q)'
  BY <1>1 DEF IInv, Foreign, PlaceInv, PutInv, At, Idle
<1>3. LockInv' /\ HomeInv'
  BY <1>1 DEF IInv, Foreign, LockInv, HomeInv, Holds
<1>4. \A q \in Requests : GetInv(q)'
  BY <1>1, GetFrame DEF IInv, Foreign, HomeStays
<1>5. ASSUME ~raced' PROVE MatchInv'
  <2>1. ~raced /\ ~OtherActs
    BY <1>1, <1>5, StillCalm DEF Foreign, SelTypeOK
  <2>2. UNCHANGED <<session, selected, req>> /\ MatchInv
    BY <1>1, <2>1 DEF IInv, Foreign, OtherActs
  <2> QED
    BY <2>2 DEF MatchInv, RemovalOverlaps, RemovalFailed, AgreeInv, Mends, At, Idle
<1> QED
  BY <1>1, <1>2, <1>3, <1>4, <1>5 DEF IInv

LEMMA BootInv ==
  ASSUME IInv, Restart
  PROVE  IInv'
<1>1. SelTypeOK' /\ Booted
  BY BootStep DEF IInv
<1>2. \A r \in Requests : (PlaceInv(r) /\ GetInv(r) /\ PutInv(r) /\ AgreeInv(r))'
  BY <1>1, IdleIs DEF Booted, PlaceInv, GetInv, PutInv, AgreeInv, At, Idle
<1>3. LockInv' /\ HomeInv'
  BY <1>1, IdleIs, RequestAssumption
     DEF IInv, Booted, LockInv, HomeInv, Holds, InSwitch, InResolve, Free
<1>4. MatchInv'
  BY <1>1, <1>2, IdleIs DEF Booted, MatchInv, RemovalOverlaps, RemovalFailed
<1> QED
  BY <1>1, <1>2, <1>3, <1>4 DEF IInv

LEMMA NextInv == IInv /\ [SelNext]_selVars => IInv'
<1> SUFFICES ASSUME IInv, [SelNext]_selVars PROVE IInv'
  OBVIOUS
<1>1. CASE UNCHANGED selVars
  BY <1>1 DEF selVars, IInv, SelTypeOK, LockInv, HomeInv, Holds, PlaceInv, GetInv, PutInv,
     MatchInv, AgreeInv, Mends, RemovalOverlaps, RemovalFailed, RootOf, At, Idle
<1>2. CASE SelNext
  BY <1>2, StepInv, ForeignInv, BootInv DEF SelNext, Step
<1> QED
  BY <1>1, <1>2

\* The inductive invariant.
THEOREM Invariance == SelSpec => []IInv
<1> QED
  BY InitInv, NextInv, PTL DEF SelSpec

\* A request is served the directory of a project that was selected while it
\* was in flight, whatever switches, removals, additions, failing stores, other
\* consoles and restarts do between the reads of get_current_project_root.
THEOREM OnlySelectedServed == SelSpec => []ServedWasSelected
<1>1. IInv => ServedWasSelected
  BY DEF IInv, GetInv, ServedWasSelected
<1> QED
  BY <1>1, Invariance, PTL

\* The answer of a PUT describes the switch that PUT made, because the switch
\* and the resolution of the answer are one critical section of selection_lock.
THEOREM PutsAnswerTheirOwn == SelSpec => []PutAnswersItsOwn
<1>1. IInv => PutAnswersItsOwn
  BY DEF IInv, PutInv, PutAnswersItsOwn
<1> QED
  BY <1>1, Invariance, PTL

\* What is served is what would be served after the next boot, whenever no
\* request is in flight and no removal raced a switch, failed or came from
\* another console.
THEOREM SessionMatches == SelSpec => []MatchesUnlessRaced
<1>1. IInv => MatchesUnlessRaced
  <2> SUFFICES ASSUME IInv, ~raced, Settled PROVE session \in {Session, selected}
    BY DEF MatchesUnlessRaced, SessionMatchesStore
  <2>1. \A r \in Requests : ~Mends(r)
    BY DEF Settled, Mends, Idle, At
  <2> QED
    BY <2>1 DEF IInv, MatchInv
<1> QED
  BY <1>1, Invariance, PTL

\* selection_lock is held by exactly the request in its critical section, so two
\* switches are never under way together and an error path never keeps the lock.
THEOREM LockHeld == SelSpec => []LockInv
<1>1. IInv => LockInv
  BY DEF IInv
<1> QED
  BY <1>1, Invariance, PTL

-----------------------------------------------------------------------------
(* The console: the selection and the supervisor, wired.                   *)

SP == INSTANCE WatcherSupervisorProofs
        WITH Roots <- Paths, NoRoot <- NoPath, BootRoot <- PinnedRoot,
             HasInitial <- TRUE, HasFactory <- TRUE

LEMMA SameInit == Sup!SupInit => SP!SupInit
BY DEF Sup!SupInit, SP!SupInit, Sup!Watchers, SP!Watchers, Sup!Tasks, SP!Tasks,
       Sup!NoWatcher, SP!NoWatcher, Sup!NoTask, SP!NoTask

LEMMA SameMove ==
  ASSUME NEW path, Sup!Move(path)
  PROVE  SP!Move(path)
BY DEF Sup!Move, SP!Move

LEMMA SameSwap ==
  ASSUME NEW t, Sup!SwapStep(t)
  PROVE  SP!SwapStep(t)
<1> USE DEF Sup!LoopFree, SP!LoopFree, Sup!At, SP!At, Sup!Goto, SP!Goto,
            Sup!NoTask, SP!NoTask, Sup!NoWatcher, SP!NoWatcher
<1>1. CASE Sup!ReleaseStep(t)
  BY <1>1 DEF Sup!ReleaseStep, SP!SwapStep, SP!ReleaseStep,
     Sup!ReleaseGuard, Sup!ReleaseClaim, Sup!ReleaseLoad, Sup!ReleaseDrop, Sup!ReleaseJoin,
     SP!ReleaseGuard, SP!ReleaseClaim, SP!ReleaseLoad, SP!ReleaseDrop, SP!ReleaseJoin
<1>2. CASE Sup!LoopStep(t)
  BY <1>2 DEF Sup!LoopStep, SP!SwapStep, SP!LoopStep,
     Sup!Acquire, Sup!EndSkipped, Sup!Rebuild, Sup!RebuildWatcherless, Sup!RebuildAfterStop,
     SP!Acquire, SP!EndSkipped, SP!Rebuild, SP!RebuildWatcherless, SP!RebuildAfterStop
<1> QED
  BY <1>1, <1>2 DEF Sup!SwapStep

LEMMA SameNext == Sup!SupNext => SP!SupNext
<1> SUFFICES ASSUME Sup!SupNext PROVE SP!SupNext
  OBVIOUS
<1> USE DEF Sup!NoWatcher, SP!NoWatcher
<1>1. CASE Sup!Start \/ Sup!StartFails
  BY <1>1 DEF Sup!Start, Sup!StartFails, SP!Start, SP!StartFails, SP!SupNext
<1>2. CASE Sup!StopLatch \/ Sup!StopStep
  BY <1>2 DEF Sup!StopLatch, Sup!StopStep, Sup!StopLoad, Sup!StopDrop, Sup!StopJoin,
     SP!StopLatch, SP!StopStep, SP!StopLoad, SP!StopDrop, SP!StopJoin, SP!SupNext
<1>3. CASE \E path \in Sup!Targets : Sup!Move(path)
  BY <1>3, SameMove DEF Sup!Targets, SP!Targets, SP!SupNext
<1>4. CASE \E t \in Sup!Tasks : Sup!SwapStep(t)
  BY <1>4, SameSwap DEF Sup!Tasks, SP!Tasks, SP!SupNext
<1> QED
  BY <1>1, <1>2, <1>3, <1>4 DEF Sup!SupNext

\* A handler and a switch are steps of the selection, and only a switch calls
\* the hook.
LEMMA Wired == [Next]_vars => [SelNext]_selVars /\ [SP!SupNext]_(SP!supVars)
<1> SUFFICES ASSUME [Next]_vars PROVE [SelNext]_selVars /\ [SP!SupNext]_(SP!supVars)
  OBVIOUS
<1>1. CASE \E r \in Requests : Handler(r)
  BY <1>1 DEF Handler, SelNext, supVars, SP!supVars
<1>2. CASE \E r \in Requests, path \in Paths \cup {NoPath} : Switch(r, path)
  <2>1. PICK r \in Requests, path \in Paths \cup {NoPath} : Apply(r, path) /\ Sup!Move(path)
    BY <1>2 DEF Switch
  <2>2. SelNext
    BY <2>1 DEF SelNext
  <2>3. SP!SupNext
    BY <2>1, SameMove DEF SP!SupNext, SP!Targets
  <2> QED
    BY <2>2, <2>3
<1>3. CASE Supervise
  BY <1>3, SameNext DEF Supervise
<1>4. CASE UNCHANGED vars
  BY <1>4 DEF vars, supVars, SP!supVars
<1> QED
  BY <1>1, <1>2, <1>3, <1>4 DEF Next

\* The selection of a console with a supervisor is the selection of SelSpec: the
\* hook adds nothing to what a switch does to it, so its theorems carry over.
THEOREM SelectionUndisturbed == Spec => SelSpec
<1>1. Init => SelInit
  BY DEF Init
<1>2. [Next]_vars => [SelNext]_selVars
  BY Wired
<1> QED
  BY <1>1, <1>2, PTL DEF Spec, SelSpec

\* The supervisor under the console's handlers is the supervisor of SupSpec, so
\* its safety theorems hold of the console.
THEOREM SupervisorWired == Spec => SP!SupSpec
<1>1. Init => SP!SupInit
  BY SameInit DEF Init
<1>2. [Next]_vars => [SP!SupNext]_(SP!supVars)
  BY Wired
<1> QED
  BY <1>1, <1>2, PTL DEF Spec, SP!SupSpec

-----------------------------------------------------------------------------
(***************************************************************************)
(* The last swap asked for the directory of the selection                  *)
(***************************************************************************)
\* The directory the supervisor was last asked for.
Chosen == IF moves = 0 THEN PinnedRoot ELSE swap[moves].target

\* An id that can be or become the session's selection has a directory.  That
\* directory never changes, so the root a switch read is still its root when
\* the switch is applied.
HasHome(id) == id \in Ids => home[id] \in Paths

FollowInv ==
  /\ HasHome(session)
  /\ \A r \in Requests :
       At(r, "apply") => HasHome(Target(r)) /\ req[r].root = RootOf(Target(r))
  /\ loop = "boot" => session = Session
  /\ loop = "serving" => RootOf(session) = Chosen

LEMMA RootsKept ==
  ASSUME SelTypeOK, HomeStays, NEW id \in Selectable, HasHome(id)
  PROVE  HasHome(id)' /\ RootOf(id)' = RootOf(id)
BY PathAssumption DEF HasHome, HomeStays, RootOf, SelTypeOK, Selectable

\* A request that does not switch leaves the session alone ...
LEMMA QuietKeeps ==
  ASSUME NEW r \in Requests, QuietStep(r)
  PROVE  session' = session /\ ~At(r, "apply")
BY DEF QuietStep, Put, Delete, DeleteSession, AddDuplicate, AddNew, Get, Issue, Refuse, Idle,
       CheckSession, LoadSession, LoadPersisted, LoadRow, RowGone, Probe, LockSelection,
       Persist, PersistRefused, Remove, RemoveUnknown, StoreFails, At

\* ... and is ready to apply a switch only once it has read the root.
LEMMA HandlerStep ==
  ASSUME IInv, SP!SupTypeOK, FollowInv, NEW r \in Requests, Handler(r)
  PROVE  FollowInv'
<1>1. /\ loop = "serving" /\ QuietStep(r) /\ session' = session /\ ~At(r, "apply")
      /\ UNCHANGED <<moves, swap, loop>>
  BY QuietKeeps DEF Handler, supVars
<1>2. SelTypeOK /\ SelTypeOK' /\ Frame(r) /\ Did(r)
  BY <1>1, OneMoves, StepsDo DEF IInv, Step
<1>3. session \in Selectable /\ \A q \in Requests : Target(q) \in Selectable
  BY <1>2, TargetTypes DEF SelTypeOK
<1>4. HasHome(session)' /\ RootOf(session)' = RootOf(session)
  BY <1>1, <1>2, <1>3, RootsKept DEF FollowInv, Frame, HasHome, RootOf
<1>5. ASSUME NEW q \in Requests \ {r}, At(q, "apply")'
      PROVE  HasHome(Target(q))' /\ (req[q].root = RootOf(Target(q)))'
  <2>1. req'[q] = req[q]
    BY <1>2 DEF Frame
  <2>2. HasHome(Target(q)) /\ req[q].root = RootOf(Target(q))
    BY <1>5, <2>1 DEF FollowInv, At
  <2>3. Target(q)' = Target(q)
    BY <2>1 DEF Target
  <2> QED
    BY <1>2, <1>3, <2>1, <2>2, <2>3, RootsKept DEF Frame, HasHome, RootOf
<1>6. ASSUME At(r, "apply")'
      PROVE  HasHome(Target(r))' /\ (req[r].root = RootOf(Target(r)))'
  <2>1. /\ Target(r) \in rows \cup {Session, NoProject} /\ home' = home
        /\ Moves(r, req[r].op, req[r].arg, "apply", req[r].id, RootOf(Target(r)), req[r].answer)
    BY <1>1, <1>2, <1>6
       DEF Did, Arrival, Added, Same, Ends, Resolved, Moves, At, Calm
  <2>2. Target(r)' = Target(r) /\ req'[r].root = RootOf(Target(r))
    BY <2>1 DEF Moves, Target
  <2> QED
    BY <2>1, <2>2, IdAssumption DEF IInv, HomeInv, HasHome, RootOf
<1> QED
  BY <1>1, <1>4, <1>5, <1>6 DEF FollowInv, Chosen

\* A switch moves the session and asks for its root in the same step.
LEMMA SwitchStep ==
  ASSUME IInv, SP!SupTypeOK, FollowInv, NEW r \in Requests,
         NEW path \in Paths \cup {NoPath}, Switch(r, path)
  PROVE  FollowInv'
<1>1. Apply(r, path) /\ Sup!Move(path)
  BY DEF Switch
<1>2. SelTypeOK /\ SelTypeOK' /\ Frame(r)
  BY <1>1, OneMoves DEF IInv, Step
<1>3. /\ At(r, "apply") /\ path = req[r].root /\ session' = Target(r) /\ home' = home
      /\ ~At(r, "apply")'
  BY <1>1, <1>2 DEF Apply, Goto, Answer, At, SelTypeOK
<1>4. loop = "serving" /\ loop' = loop /\ Chosen' = path
  BY <1>1, MovesAssumption DEF Sup!Move, SP!SupTypeOK, SP!Tasks, Chosen
<1>5. HasHome(Target(r)) /\ path = RootOf(Target(r))
  BY <1>3 DEF FollowInv
<1>6. HasHome(session)' /\ RootOf(session)' = path
  BY <1>3, <1>5 DEF HasHome, RootOf
<1>7. ASSUME NEW q \in Requests, At(q, "apply")'
      PROVE  HasHome(Target(q))' /\ (req[q].root = RootOf(Target(q)))'
  <2>1. q # r /\ req'[q] = req[q]
    BY <1>2, <1>3, <1>7 DEF Frame
  <2> QED
    BY <1>3, <1>7, <2>1 DEF FollowInv, At, Target, HasHome, RootOf
<1> QED
  BY <1>4, <1>6, <1>7 DEF FollowInv

\* The supervisor opens the serving window on the pinned root, and its own steps
\* never change what a swap is for.
LEMMA SuperviseStep ==
  ASSUME SP!SupTypeOK, SP!WindowInv, FollowInv, Supervise
  PROVE  FollowInv'
<1>1. SP!SupNext /\ moves' = moves /\ UNCHANGED selVars
  BY SameNext DEF Supervise
<1>2. \A t \in SP!Tasks : swap'[t].target = swap[t].target
  <2>1. CASE \E u \in SP!Tasks : SP!SwapStep(u)
    <3>1. PICK u \in SP!Tasks : SP!SwapStep(u)
      BY <2>1
    <3>2. \/ swap' = swap
          \/ \E at : swap' = [swap EXCEPT ![u].at = at]
          \/ swap' = [swap EXCEPT ![u].at = "drop", ![u].held = current]
      BY <3>1 DEF SP!SwapStep, SP!ReleaseStep, SP!LoopStep, SP!Goto,
         SP!ReleaseGuard, SP!ReleaseClaim, SP!ReleaseLoad, SP!ReleaseDrop, SP!ReleaseJoin,
         SP!Acquire, SP!EndSkipped, SP!Rebuild, SP!RebuildWatcherless, SP!RebuildAfterStop
    <3> QED
      BY <3>2 DEF SP!SupTypeOK
  <2>2. CASE swap' = swap
    BY <2>2
  <2>3. \A path : ~SP!Move(path)
    BY <1>1 DEF SP!Move, SP!SupTypeOK
  <2>4. (\E u \in SP!Tasks : SP!SwapStep(u)) \/ swap' = swap
    BY <1>1, <2>3 DEF SP!SupNext, SP!Start, SP!StartFails, SP!StopLatch, SP!StopStep,
       SP!StopLoad, SP!StopDrop, SP!StopJoin
  <2> QED
    BY <2>1, <2>2, <2>4
<1>3. /\ loop' = "boot" => loop = "boot"
      /\ loop' = "serving" => loop \in {"boot", "serving"}
  BY <1>1 DEF SP!SupNext, SP!Start, SP!StartFails, SP!StopLatch, SP!StopStep, SP!StopLoad,
     SP!StopDrop, SP!StopJoin, SP!Move, SP!SwapStep, SP!ReleaseStep, SP!LoopStep,
     SP!ReleaseGuard, SP!ReleaseClaim, SP!ReleaseLoad, SP!ReleaseDrop, SP!ReleaseJoin,
     SP!Acquire, SP!EndSkipped, SP!Rebuild, SP!RebuildWatcherless, SP!RebuildAfterStop
<1>4. Chosen' = Chosen
  BY <1>1, <1>2, MovesAssumption DEF Chosen, SP!SupTypeOK, SP!Tasks
<1>5. loop = "boot" => RootOf(session) = Chosen
  BY DEF SP!WindowInv, FollowInv, RootOf, Chosen
<1> QED
  BY <1>1, <1>3, <1>4, <1>5 DEF FollowInv, selVars, HasHome, RootOf, At, Target

LEMMA FollowStep ==
  ASSUME IInv, SP!IInv, FollowInv, [Next]_vars
  PROVE  FollowInv'
<1> USE DEF SP!IInv
<1>1. CASE \E r \in Requests : Handler(r)
  BY <1>1, HandlerStep
<1>2. CASE \E r \in Requests, path \in Paths \cup {NoPath} : Switch(r, path)
  BY <1>2, SwitchStep
<1>3. CASE Supervise
  BY <1>3, SuperviseStep
<1>4. CASE UNCHANGED vars
  BY <1>4 DEF vars, selVars, supVars, FollowInv, HasHome, RootOf, At, Target, Chosen
<1> QED
  BY <1>1, <1>2, <1>3, <1>4 DEF Next

\* Whatever requests are in flight, the directory the hook was last called with
\* is that of the session's selection.
THEOREM HookFollows == Spec => []FollowInv
<1>1. Init => FollowInv
  BY IdleIs, IdAssumption
     DEF Init, SelInit, Sup!SupInit, FollowInv, HasHome, RootOf, At, Chosen
<1>2. Spec => []IInv
  BY SelectionUndisturbed, Invariance, PTL
<1>3. Spec => []SP!IInv
  <2>1. SP!SupSpec => []SP!IInv
    BY SP!Invariance, PathAssumption, MovesAssumption
  <2> QED
    BY <2>1, SupervisorWired, PTL
<1>4. IInv /\ SP!IInv /\ FollowInv /\ [Next]_vars => FollowInv'
  BY FollowStep
<1> QED
  BY <1>1, <1>2, <1>3, <1>4, PTL DEF Spec

\* Once the requests and the swaps have come to rest, the supervisor targets the
\* directory of the session's selection and a live watcher observes it: the page
\* and its live updates are about one project, however many switches overlapped
\* and however the loop and the worker interleaved.
THEOREM WatcherFollows == Spec => []WatcherFollowsSelection
<1>1. FollowInv /\ SP!WindowInv /\ SP!LastMoveWins /\ SP!WatcherOnTarget
        => WatcherFollowsSelection
  BY DEF FollowInv, Chosen, WatcherFollowsSelection, Sup!Quiet, Sup!Tasks, Sup!NoWatcher,
     SP!WindowInv, SP!LastMoveWins, SP!WatcherOnTarget, SP!Quiet, SP!Tasks, SP!NoWatcher,
     SP!Claimed
<1>2. Spec => [](SP!WindowInv /\ SP!WatcherOnTarget)
  <2>1. SP!IInv => SP!WindowInv /\ SP!WatcherOnTarget
    BY DEF SP!IInv
  <2>2. SP!SupSpec => []SP!IInv
    BY SP!Invariance, PathAssumption, MovesAssumption
  <2> QED
    BY <2>1, <2>2, SupervisorWired, PTL
<1>3. SP!SupSpec => []SP!LastMoveWins
  BY SP!LastSelectionWins, PathAssumption, MovesAssumption
<1> QED
  BY <1>1, <1>2, <1>3, SupervisorWired, HookFollows, PTL
=============================================================================
