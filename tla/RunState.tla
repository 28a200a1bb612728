------------------------------ MODULE RunState ------------------------------
(***************************************************************************)
(* What a run-state source says of a ticket.                               *)
(*                                                                         *)
(* The factory keeps its run state in one of three places; the console     *)
(* reads it and may edit or delete a ticket only as the answer allows.     *)
(* This module is the answer as a function of the disk: one operator per   *)
(* file system call, each yes, no or error, and the resolution composed of *)
(* them.  RunStateRead takes the same calls one at a time.                 *)
(*                                                                         *)
(* What a process may do with a node is the set `can': losing an element   *)
(* (a chmod, a symlink loop, an I/O error) is losing information.          *)
(***************************************************************************)
EXTENDS Naturals, FiniteSets, Sequences, FiniteSetsExt

CONSTANTS
  Id,       \* ticket ids, each a path-safe segment
  Hidden,   \* the ids with a leading dot, which no listing counts
  Foreign   \* state directories this console has no name for

MARKER_PRECEDENCE == <<"merged", "ready", "in-flight", "todo">>
Known == {"merged", "ready", "in-flight", "todo"}
\* FACTORY_STATUS_ALIASES: the factory's names are the console's.
Status == {"todo", "in_progress", "ready", "in_part", "in_submilestone", "merged",
           "flagged", "failed", "needs_human"}

ASSUME RunStateAssumption ==
  /\ Hidden \subseteq Id
  /\ IsFiniteSet(Foreign)
  /\ Foreign \cap Known = {}

States == Known \cup Foreign
Answers == Status \cup Known \cup {"unknown", "absent", "unreadable"}
Said == Status \cup {"unclassifiable", "unlisted"}
Said0 == [i \in Id |-> "unlisted"]

\* RUN_STATE_SOURCE_LOCATIONS, in precedence order; a node of the wrong kind
\* is, to every probe, a node that is not there.
JSON == 1                       \* .factory/run-state.json
DIRECTORIES == {2, 3}           \* .factory/run-state, docs/planning/.run-state
NoSource == 0
ParentOf(n) == IF n = 3 THEN "docs/planning" ELSE ".factory"

StateDir == [there : BOOLEAN, can : SUBSET {"stat", "search", "list"}, holds : SUBSET Id]
Directory == [there : BOOLEAN, can : SUBSET {"search", "list"}, states : [States -> StateDir]]
JsonFile == [there : BOOLEAN, can : SUBSET {"read"}, valid : BOOLEAN, says : [Id -> Said]]
\* open: the parent directories that can be searched.
Disk == [open : SUBSET {".factory", "docs/planning"}, json : JsonFile,
         dirs : [DIRECTORIES -> Directory]]

-----------------------------------------------------------------------------
\* The write gates.

MUTABLE_STATES == {"todo", "unknown"}
DELETABLE_STATES == MUTABLE_STATES \cup {"absent"}
Granted(state) == (IF state \in MUTABLE_STATES THEN {"edit"} ELSE {})
                    \cup (IF state \in DELETABLE_STATES THEN {"delete"} ELSE {})

-----------------------------------------------------------------------------
\* The file system calls.

There(d, n) == IF n = JSON THEN d.json.there ELSE d.dirs[n].there
Open(d, n) == ParentOf(n) \in d.open
Tell(fact) == IF fact THEN "yes" ELSE "no"

\* is_regular_file and _is_directory of a location.
IsPresent(d, n) == IF Open(d, n) THEN Tell(There(d, n)) ELSE "error"

\* One path inside the run-state directory n can be looked up.
Inside(d, n) == IF ~Open(d, n) THEN "error"
                ELSE IF ~d.dirs[n].there THEN "no"
                ELSE IF "search" \in d.dirs[n].can THEN "yes" ELSE "error"
\* _node_exists of the marker of i in state s.
NodeExists(d, n, s, i) ==
  LET node == d.dirs[n].states[s]
  IN IF Inside(d, n) # "yes" THEN Inside(d, n)
     ELSE IF ~node.there THEN "no"
     ELSE IF {"stat", "search"} \subseteq node.can THEN Tell(i \in node.holds) ELSE "error"
\* Does a listing of state s show a name shaped like a ticket?
ListsTicket(d, n, s) ==
  LET node == d.dirs[n].states[s]
  IN IF Inside(d, n) # "yes" THEN Inside(d, n)
     ELSE IF ~node.there THEN "no"
     ELSE IF {"stat", "list"} \subseteq node.can THEN Tell(node.holds \ Hidden # {}) ELSE "error"
\* The listing of the run-state directory itself; it needs no search of it.
Undiscoverable(d, n) == ~Open(d, n) \/ (d.dirs[n].there /\ "list" \notin d.dirs[n].can)
\* Mutant: an entry whose stat fails is dropped instead of recorded.
OnlyIdentified(d, n) ==
  IF Undiscoverable(d, n) \/ ~d.dirs[n].there THEN {}
  ELSE {s \in Foreign : d.dirs[n].states[s].there /\ "stat" \in d.dirs[n].states[s].can}
UnrecognisedNames(d, n) ==
  IF Undiscoverable(d, n) \/ ~d.dirs[n].there THEN {}
  ELSE {s \in Foreign : d.dirs[n].states[s].there}
\* read_text and json.loads: what JsonRunState keeps.
ReadJson(d) ==
  LET lost == ~Open(d, JSON) \/ (d.json.there /\ d.json.can = {})
      good == ~lost /\ d.json.there /\ d.json.valid
  IN [unreadable |-> lost, readable |-> good,
      says |-> IF good THEN d.json.says ELSE Said0]

-----------------------------------------------------------------------------
\* The resolution, on a disk that holds still.

FindSource(d) ==
  LET found == {n \in 1..3 : IsPresent(d, n) # "no"}
  IN IF found = {} THEN NoSource ELSE Min(found)

ResolveJson(parsed, i) ==
  IF parsed.unreadable THEN "unreadable"
  ELSE IF parsed.says[i] \in Status THEN parsed.says[i]
  ELSE IF ~parsed.readable \/ (\A j \in Id : parsed.says[j] = "unlisted") THEN "unknown"
  ELSE IF parsed.says[i] = "unclassifiable" THEN "unreadable"
  ELSE "absent"

\* A state this console cannot rank names i, or cannot be ruled out to.
ForeignMayName(d, n, names, i) == \E s \in names : NodeExists(d, n, s, i) # "no"

\* Mutant: the walk goes on past a state it could not read.
MarkerPastErrors(d, n, i) ==
  LET hits == {k \in 1..4 : NodeExists(d, n, MARKER_PRECEDENCE[k], i) = "yes"}
  IN IF hits = {} THEN "none" ELSE MARKER_PRECEDENCE[Min(hits)]
\* _marker_state: highest precedence first, stopping at a hit or an error.
MarkerState(d, n, i) ==
  LET stops == {k \in 1..4 : NodeExists(d, n, MARKER_PRECEDENCE[k], i) # "no"}
  IN IF stops = {} THEN "none"
     ELSE LET s == MARKER_PRECEDENCE[Min(stops)]
          IN IF NodeExists(d, n, s, i) = "yes" THEN s ELSE "unreadable"

ListsAnyTicket(d, n, names) ==
  IF Undiscoverable(d, n) THEN "unclear"
  ELSE IF \E s \in Known \cup names : ListsTicket(d, n, s) = "yes" THEN "yes"
  ELSE IF \E s \in Known \cup names : ListsTicket(d, n, s) = "error" THEN "unclear"
  ELSE "no"

\* The last word on an id no marker names.
Unmarked(lists) == IF lists = "yes" THEN "absent"
                   ELSE IF lists = "unclear" THEN "unreadable" ELSE "unknown"

ResolveDirectory(d, n, i) ==
  LET names == UnrecognisedNames(d, n)
  IN IF IsPresent(d, n) = "no" THEN "unknown"
     ELSE IF Inside(d, n) = "error" THEN "unreadable"
     ELSE IF Undiscoverable(d, n) THEN "unreadable"
     ELSE IF ForeignMayName(d, n, names, i) THEN "unreadable"
     ELSE IF MarkerState(d, n, i) # "none" THEN MarkerState(d, n, i)
     ELSE Unmarked(ListsAnyTicket(d, n, names))

ResolveFrom(d, n, i) ==
  IF n = NoSource THEN "unknown"
  ELSE IF n = JSON THEN ResolveJson(ReadJson(d), i)
  ELSE ResolveDirectory(d, n, i)
Resolve(d, i) == ResolveFrom(d, FindSource(d), i)

-----------------------------------------------------------------------------
\* Losing information: the same disk, less of which can be looked at.

LessStateDir(lo, hi) == lo.there = hi.there /\ lo.holds = hi.holds /\ lo.can \subseteq hi.can
LessDirectory(lo, hi) ==
  /\ lo.there = hi.there
  /\ lo.can \subseteq hi.can
  /\ \A s \in States : LessStateDir(lo.states[s], hi.states[s])
LessJson(lo, hi) == /\ lo.there = hi.there /\ lo.valid = hi.valid /\ lo.says = hi.says
                    /\ lo.can \subseteq hi.can
Degraded(lo, hi) ==
  /\ lo.open \subseteq hi.open
  /\ LessJson(lo.json, hi.json)
  /\ \A n \in DIRECTORIES : LessDirectory(lo.dirs[n], hi.dirs[n])
=============================================================================
