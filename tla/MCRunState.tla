----------------------------- MODULE MCRunState -----------------------------
(***************************************************************************)
(* Model checking of RunStateRead: the disks it starts from.               *)
(***************************************************************************)
EXTENDS RunStateRead

All == {"stat", "search", "list"}
NoDir == [there |-> FALSE, can |-> {}, states |->
            [s \in States |-> [there |-> FALSE, can |-> {}, holds |-> {}]]]
\* The state directories in `made', all readable; `put' is where markers are.
Dir(made, put) ==
  [there |-> TRUE, can |-> {"search", "list"},
   states |-> [s \in States |->
     [there |-> s \in made, can |-> IF s \in made THEN All ELSE {},
      holds |-> {i \in Id : s \in put[i]}]]]
\* One marker, none, or a stale one below the real one; the factory's moves
\* and a directory it has not made yet give the rest.
Marks == {m \in SUBSET States : Cardinality(m) <= 1} \cup {{"todo", "merged"}}
Directories ==
  {Dir(States, [i \in Id |-> IF i \in Hidden THEN {} ELSE m]) : m \in Marks}
    \cup {Dir({"todo"}, [i \in Id |-> IF i \in Hidden THEN {"todo"} ELSE m]) : m \in {{}, {"todo"}}}

NoJson == [there |-> FALSE, can |-> {}, valid |-> FALSE, says |-> Said0]
Json(valid, says) == [there |-> TRUE, can |-> {"read"}, valid |-> valid, says |-> says]
Files == {Json(FALSE, Said0)}
           \cup {Json(TRUE, says) : says \in [Id -> {"todo", "merged", "unclassifiable", "unlisted"}]}

OpenDisk(json, first, second) ==
  [open |-> {".factory", "docs/planning"}, json |-> json,
   dirs |-> [n \in DIRECTORIES |-> IF n = 2 THEN first ELSE second]]
Other == Dir(Known, [i \in Id |-> {"merged"}])
\* A state directory that cannot be listed before the read begins.
Dimmed == [Dir(States, [i \in Id |-> IF i \in Hidden THEN {} ELSE {"todo"}])
             EXCEPT !.states["todo"].can = @ \ {"list"}]
MCDisks == {OpenDisk(NoJson, d, NoDir) : d \in Directories}
             \cup {OpenDisk(NoJson, Dimmed, NoDir)}
             \cup {OpenDisk(f, NoDir, NoDir) : f \in Files}
             \cup {OpenDisk(Json(FALSE, Said0), Other, NoDir)}
             \cup {OpenDisk(NoJson, NoDir, d) : d \in {NoDir, Other}}
=============================================================================
