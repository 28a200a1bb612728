---------------------------- MODULE FactoryFiles ----------------------------
(***************************************************************************)
(* Files of .factory, which the factory creates, writes in parts, rewrites *)
(* and removes while the console reads one of them with read_bounded: one  *)
(* descriptor is opened, and every gate is applied to that.                *)
(*                                                                         *)
(* The factory is external: it is modelled by what the readers are written *)
(* against, a file that may be gone, grow or be another one by the next    *)
(* call.  Where a file resolves, inside the project or not, stays as it is *)
(* during a read.                                                          *)
(***************************************************************************)
EXTENDS SpendCalc

CONSTANTS
  FirstNodes,  \* FirstNodes[f]: the nodes f may be at first
  AppendOnly,  \* files the factory only ever appends to: the ledger
  Writes,      \* Writes[f]: documents the factory writes to f
  MaxBytes,    \* the cap of a file, in units of text
  MaxUnits,    \* bound: units the factory writes to a file
  MaxMoves,    \* bound: what happens to the files during a request
  MaxFaults    \* bound: calls that fail

VARIABLES
  disk,     \* file -> its node
  pending,  \* file -> what the factory has yet to write of a document
  handle,   \* read_bounded, for one file at a time
  seen,     \* history: the nodes of that file since its reader first looked
  torn,     \* history: a document was abandoned, or a file left its name
  moves, faults

files == <<disk, pending, handle, seen, torn, moves, faults>>

\* outside: .factory leads out of the project.  locked: its directory cannot be
\* searched.  denied: it cannot be opened.
Node == [kind : {"absent", "file", "other"}, text : Seq(Units), outside : BOOLEAN,
         locked : BOOLEAN, denied : BOOLEAN]
Outcomes == {"none", "ok", "not_found", "unreadable", "too_large"}
Empty == [kind |-> "absent", text |-> <<>>, outside |-> FALSE, locked |-> FALSE, denied |-> FALSE]
NoFile == <<"none", "none">>
NoHandle == [at |-> "idle", file |-> NoFile, orphan |-> FALSE, held |-> Empty,
             got |-> <<>>, outcome |-> "none"]

ASSUME FilesAssumption ==
  /\ MaxBytes \in Nat /\ MaxUnits \in Nat /\ MaxMoves \in Nat /\ MaxFaults \in Nat
  /\ \A f \in DOMAIN FirstNodes : FirstNodes[f] \subseteq Node

-----------------------------------------------------------------------------
\* read_bounded.

World == UNCHANGED <<disk, pending, torn, moves, faults>>
\* What the descriptor is of: the node of that name, or one that has left it.
Held == IF handle.orphan THEN handle.held ELSE disk[handle.file]
Text == Held.text
Back(outcome) == handle' = [handle EXCEPT !.at = "back", !.outcome = outcome]

\* A reader looks at f for the first time; the history starts.
Look(f) == seen' = {disk[f]} /\ handle' = [NoHandle EXCEPT !.file = f]
Call == handle' = [handle EXCEPT !.at = "open"]

OpenFile ==
  /\ handle.at = "open"
  /\ LET n == disk[handle.file]
     IN IF n.locked THEN Back("unreadable")
        ELSE IF n.kind = "absent" THEN Back("not_found")
        ELSE IF n.denied THEN Back("unreadable")
        ELSE handle' = [handle EXCEPT !.at = "stat"]
  /\ World /\ UNCHANGED seen
\* Mutant: a file of exactly the cap is over it.
CapIsOver ==
  /\ handle.at = "stat"
  /\ IF Held.kind # "file" THEN Back("unreadable")
     ELSE IF Len(Text) >= MaxBytes THEN Back("too_large")
     ELSE handle' = [handle EXCEPT !.at = "read"]
  /\ World /\ UNCHANGED seen
\* Asked of the opened file: a directory or a FIFO opens too.
StatFile ==
  /\ handle.at = "stat"
  /\ IF Held.kind # "file" THEN Back("unreadable")
     ELSE IF Len(Text) > MaxBytes THEN Back("too_large")
     ELSE handle' = [handle EXCEPT !.at = "read"]
  /\ World /\ UNCHANGED seen
\* Mutant: the size was checked, so the read has no bound.
ReadAll ==
  /\ handle.at = "read"
  /\ LET more == SubSeq(Text, Len(handle.got) + 1, Len(Text))
     IN IF more = <<>> THEN Back("ok") ELSE handle' = [handle EXCEPT !.got = @ \o more]
  /\ World /\ UNCHANGED seen
\* read(max_bytes + 1): what is there, again until there is no more; the one
\* over the cap tells a file that grew past it.
ReadFile ==
  /\ handle.at = "read"
  /\ LET more == SubSeq(Text, Len(handle.got) + 1, Min({Len(Text), MaxBytes + 1}))
     IN IF more = <<>>
        THEN Back(IF Len(handle.got) > MaxBytes THEN "too_large" ELSE "ok")
        ELSE handle' = [handle EXCEPT !.got = @ \o more]
  /\ World /\ UNCHANGED seen
FailCall ==
  /\ handle.at \in {"open", "stat", "read"} /\ faults < MaxFaults /\ faults' = faults + 1
  /\ Back("unreadable")
  /\ UNCHANGED <<disk, pending, seen, torn, moves>>
ReadBounded == OpenFile \/ StatFile \/ ReadFile \/ FailCall

-----------------------------------------------------------------------------
\* The factory, and whoever changes permissions.

Open(f) == handle.file = f /\ handle.at \in {"stat", "read"} /\ ~handle.orphan
\* f becomes n and the factory has `rest' of a document yet to write.  A
\* descriptor that was open keeps the file that left the name.
Become(f, n, rest, leaves) ==
  /\ moves < MaxMoves /\ moves' = moves + 1
  /\ n # disk[f]
  /\ disk' = [disk EXCEPT ![f] = n]
  /\ pending' = [pending EXCEPT ![f] = rest]
  /\ handle' = IF leaves /\ Open(f)
               THEN [handle EXCEPT !.orphan = TRUE, !.held = disk[f]] ELSE handle
  /\ seen' = IF handle.file = f THEN seen \cup {n} ELSE seen
  /\ torn' = (torn \/ leaves)
  /\ UNCHANGED faults

Fits(n) == n.kind = "file" /\ Len(n.text) < MaxUnits
Create(f) ==
  disk[f].kind = "absent" /\ Become(f, [disk[f] EXCEPT !.kind = "file"], <<>>, FALSE)
\* A document is begun: after what is there, or in its place.
BeginDocument(f, d) ==
  /\ Fits(disk[f]) /\ d \in Writes[f] /\ pending[f] = <<>>
  /\ Become(f, [disk[f] EXCEPT !.text = Append(IF f \in AppendOnly THEN @ ELSE <<>>, Part(d, 1))],
            IF f \in AppendOnly THEN <<Part(d, 2), NL>> ELSE <<Part(d, 2)>>, FALSE)
Continue(f) ==
  /\ Fits(disk[f]) /\ pending[f] # <<>>
  /\ Become(f, [disk[f] EXCEPT !.text = Append(@, Head(pending[f]))], Tail(pending[f]), FALSE)
\* The factory dies in the middle of a document.
Abandon(f) ==
  /\ pending[f] # <<>> /\ moves < MaxMoves /\ moves' = moves + 1
  /\ pending' = [pending EXCEPT ![f] = <<>>]
  /\ torn' = TRUE
  /\ UNCHANGED <<disk, handle, seen, faults>>
Unlink(f) ==
  /\ disk[f].kind # "absent"
  /\ Become(f, [disk[f] EXCEPT !.kind = "absent", !.text = <<>>, !.denied = FALSE], <<>>, TRUE)
\* Another node takes the name: a directory, or a whole new file.
Obstruct(f) ==
  /\ disk[f].kind = "file"
  /\ Become(f, [disk[f] EXCEPT !.kind = "other", !.text = <<>>], <<>>, TRUE)
Replace(f, d) ==
  /\ disk[f].kind = "file" /\ d \in Writes[f] /\ f \notin AppendOnly
  /\ Become(f, [disk[f] EXCEPT !.text = Written(d)], <<>>, TRUE)
Relock(f) == Become(f, [disk[f] EXCEPT !.locked = ~@], pending[f], FALSE)
Deny(f) == disk[f].kind # "absent" /\ Become(f, [disk[f] EXCEPT !.denied = ~@], pending[f], FALSE)

FactoryActs(f) ==
  \/ Create(f) \/ Continue(f) \/ Abandon(f) \/ Unlink(f) \/ Obstruct(f) \/ Relock(f) \/ Deny(f)
  \/ \E d \in Doc : BeginDocument(f, d) \/ Replace(f, d)
=============================================================================
