------------------------------ MODULE Registry ------------------------------
(***************************************************************************)
(* What the project registry promises: a call takes effect in one step     *)
(* between its start and its answer, on the whole registry, and its answer *)
(* is the truth at that step; or it changes nothing and is refused.        *)
(***************************************************************************)
CONSTANTS
  Conn,     \* calls of the registry
  Id,       \* ids of rows; an added row gets a fresh id, named like its call
  Path,     \* canonical paths
  NoPath,   \* of an id without a row
  NoId      \* None

VARIABLES
  rows,      \* id -> the path of its row
  selected,  \* console_state.selected_project_id
  call,      \* what each connection was asked
  answer     \* what it answered

vars == <<rows, selected, call, answer>>

Calls == [kind : {"add", "remove", "select", "list", "current"}, id : Id \cup {NoId},
          path : Path \cup {NoPath}]
NoCall == [kind |-> "none", id |-> NoId, path |-> NoPath]
Answer(says, id, ids) == [says |-> says, id |-> id, ids |-> ids]
NoAnswer == Answer("none", NoId, {})

Rows == {i \in Id : rows[i] # NoPath}
Holder(p) == {i \in Id : rows[i] = p}

Open(c) == call[c] # NoCall /\ answer[c] = NoAnswer
Say(c, a) == answer' = [answer EXCEPT ![c] = a] /\ UNCHANGED call

Init ==
  /\ rows \in [Id -> Path \cup {NoPath}]
  /\ selected \in Rows \cup {NoId}
  /\ call = [c \in Conn |-> NoCall]
  /\ answer = [c \in Conn |-> NoAnswer]

Ask(c) ==
  /\ call[c] = NoCall
  /\ \E r \in Calls : call' = [call EXCEPT ![c] = r]
  /\ UNCHANGED <<rows, selected, answer>>
Add(c) ==
  /\ Open(c) /\ call[c].kind = "add"
  /\ Holder(call[c].path) = {} /\ rows[c] = NoPath
  /\ rows' = [rows EXCEPT ![c] = call[c].path]
  /\ Say(c, Answer("row", c, {}))
  /\ UNCHANGED selected
Duplicate(c) ==
  /\ Open(c) /\ call[c].kind = "add"
  /\ \E i \in Holder(call[c].path) : Say(c, Answer("duplicate", i, {}))
  /\ UNCHANGED <<rows, selected>>
\* The selection of a removed row is cleared with it.
Remove(c) ==
  /\ Open(c) /\ call[c].kind = "remove"
  /\ LET i == call[c].id
     IN /\ rows' = [rows EXCEPT ![i] = NoPath]
        /\ selected' = IF selected = i THEN NoId ELSE selected
        /\ Say(c, Answer(IF i \in Rows THEN "removed" ELSE "missing", i, {}))
Select(c) ==
  /\ Open(c) /\ call[c].kind = "select" /\ call[c].id \in Rows \cup {NoId}
  /\ selected' = call[c].id
  /\ Say(c, Answer("row", call[c].id, {}))
  /\ UNCHANGED rows
SelectMissing(c) ==
  /\ Open(c) /\ call[c].kind = "select" /\ call[c].id \notin Rows \cup {NoId}
  /\ Say(c, Answer("missing", call[c].id, {}))
  /\ UNCHANGED <<rows, selected>>
Tell(c) ==
  /\ Open(c)
  /\ \/ call[c].kind = "list" /\ Say(c, Answer("rows", NoId, Rows))
     \/ call[c].kind = "current" /\ Say(c, Answer("row", selected, {}))
  /\ UNCHANGED <<rows, selected>>
Refuse(C) ==
  /\ \A c \in C : Open(c)
  /\ answer' = [c \in Conn |-> IF c \in C THEN Answer("refused", NoId, {}) ELSE answer[c]]
  /\ UNCHANGED <<rows, selected, call>>

Next == \/ \E c \in Conn : \/ Ask(c) \/ Add(c) \/ Duplicate(c) \/ Remove(c)
                           \/ Select(c) \/ SelectMissing(c) \/ Tell(c)
        \/ \E C \in SUBSET Conn : Refuse(C)

Spec == Init /\ [][Next]_vars

\* The selection names a row or nothing.
SelectionNamesARow == selected \in Rows \cup {NoId}
=============================================================================
