---------------------------- MODULE RunStateRead ----------------------------
(***************************************************************************)
(* Reading the run state one file system call at a time, while the factory *)
(* moves its markers and a mount or a chmod takes permissions away.        *)
(*                                                                         *)
(* A reader is the resolver of run_state_resolver, which may answer for    *)
(* several ids from one construction, or probe_ticket_state, which answers *)
(* for one and counts markers last.  The factory renames markers: an id    *)
(* with stale markers (the initial disk may hold some) is never moved.     *)
(***************************************************************************)
EXTENDS RunState, SequencesExt

CONSTANTS
  Disks,     \* the disks a behaviour may start from
  Forms,     \* the forms of reader
  MaxLost,   \* bound: permissions lost
  MaxMoves,  \* bound: steps of the factory
  MaxAsks    \* bound: ids asked of one resolver

ASSUME ReadAssumption ==
  /\ Disks \subseteq Disk
  \* a state directory that is not there holds no marker
  /\ \A d \in Disks, n \in DIRECTORIES, s \in States :
       LET node == d.dirs[n].states[s] IN node.there \/ node.holds = {}
  /\ Forms \subseteq {"resolver", "single"}
  /\ MaxLost \in Nat /\ MaxMoves \in Nat /\ MaxAsks \in Nat \ {0}

VARIABLES
  disk,    \* what the factory wrote, and what of it can be read
  reader,  \* the read in progress
  truth,   \* id -> what the source found would have answered at some moment since
  lost, moves

vars == <<disk, reader, truth, lost, moves>>

\* What each form of reader does, in order; the resolver's steps before
\* "foreign" settle the source for every id it will be asked.
Steps == [resolver |-> <<"find", "present", "canary", "discover", "scan", "foreign", "walk",
                         "recheck", "unmarked", "json">>,
          single |-> <<"find", "discover", "foreign", "walk", "recheck", "scan", "unmarked">>]
PerId == 6
JsonStep == 10

Unread == [unreadable |-> FALSE, readable |-> FALSE, says |-> Said0]
Idle == [form |-> "resolver", at |-> 0, k |-> 1, id |-> CHOOSE i \in Id : TRUE,
         source |-> NoSource, json |-> Unread, blind |-> FALSE, names |-> {},
         lists |-> "no", answer |-> "none", asks |-> 0, kept |-> TRUE, stirred |-> {}]

Init ==
  /\ disk \in Disks
  /\ reader = Idle
  /\ truth = [i \in Id |-> {}]
  /\ lost = 0
  /\ moves = 0

-----------------------------------------------------------------------------
\* The reader.

Told == reader.answer # "none"
Reading == reader.at > 0 /\ ~Told
At(step) == /\ Reading /\ Steps[reader.form][reader.at] = step
            /\ UNCHANGED <<disk, lost, moves>>
Proceed(r) == reader' = [r EXCEPT !.at = @ + 1, !.k = 1] /\ UNCHANGED truth
Next1(r) == reader' = [r EXCEPT !.k = @ + 1] /\ UNCHANGED truth
Reply(a) == reader' = [reader EXCEPT !.answer = a] /\ UNCHANGED truth

Start(form, i) ==
  /\ reader = Idle
  /\ reader' = [Idle EXCEPT !.form = form, !.at = 1, !.id = i, !.asks = 1]
  /\ UNCHANGED <<disk, truth, lost, moves>>

\* find_run_state_source: the first location present, or that cannot be probed.
\* find_run_state_dir, before probe_ticket_state, has no use for a JSON source.
FindLocation ==
  /\ At("find")
  /\ LET n == reader.k
         found == [reader EXCEPT !.source = n, !.k = 1,
                                 !.at = IF n = JSON THEN JsonStep ELSE 2]
     IN IF IsPresent(disk, n) = "no"
        THEN IF n < 3 THEN Next1(reader) ELSE Reply("unknown")
        ELSE IF n = JSON /\ reader.form = "single" THEN Reply("unknown")
        ELSE /\ reader' = found
             /\ truth' = [i \in Id |-> {ResolveFrom(disk, n, i)}]
\* A JSON source is read once, whole, whatever is asked of it.
ReadSource ==
  /\ At("json")
  /\ LET parsed == ReadJson(disk)
     IN reader' = [reader EXCEPT !.json = parsed, !.answer = ResolveJson(parsed, reader.id)]
  /\ UNCHANGED truth

CheckPresent ==
  /\ At("present")
  /\ LET p == IsPresent(disk, reader.source)
     IN IF p = "yes" THEN Proceed(reader)
        ELSE Reply(IF p = "error" THEN "unreadable" ELSE "unknown")
Canary ==
  /\ At("canary")
  /\ IF Inside(disk, reader.source) = "error" THEN Reply("unreadable") ELSE Proceed(reader)
Discover ==
  /\ At("discover")
  /\ Proceed([reader EXCEPT !.blind = Undiscoverable(disk, reader.source),
                            !.names = UnrecognisedNames(disk, reader.source)])
\* _directory_lists_any_ticket: one listing after another, to the first ticket.
Scan ==
  /\ At("scan")
  /\ LET order == MARKER_PRECEDENCE \o SetToSeq(reader.names)
         told == ListsTicket(disk, reader.source, order[reader.k])
         seen == [reader EXCEPT !.lists = IF told = "error" THEN "unclear" ELSE @]
     IN IF reader.blind THEN Proceed([reader EXCEPT !.lists = "unclear"])
        ELSE IF told = "yes" THEN Proceed([reader EXCEPT !.lists = "yes"])
        ELSE IF reader.k < Len(order) THEN Next1(seen) ELSE Proceed(seen)
Foreigners ==
  /\ At("foreign")
  /\ IF reader.blind \/ ForeignMayName(disk, reader.source, reader.names, reader.id)
     THEN Reply("unreadable") ELSE Proceed(reader)
\* Mutant: a marker that cannot be looked up is not there.
WalkPastErrors ==
  /\ At("walk")
  /\ LET s == MARKER_PRECEDENCE[reader.k]
     IN IF NodeExists(disk, reader.source, s, reader.id) = "yes" THEN Reply(s)
        ELSE IF reader.k < 4 THEN Next1(reader) ELSE Proceed(reader)
\* _marker_state, one stat after another.
Walk ==
  /\ At("walk")
  /\ LET s == MARKER_PRECEDENCE[reader.k]
         told == NodeExists(disk, reader.source, s, reader.id)
     IN IF told = "yes" THEN Reply(s)
        ELSE IF told = "error" THEN Reply("unreadable")
        ELSE IF reader.k < 4 THEN Next1(reader) ELSE Proceed(reader)
Recheck ==
  /\ At("recheck")
  /\ LET p == IsPresent(disk, reader.source)
     IN IF p = "yes" THEN Proceed(reader)
        ELSE Reply(IF p = "error" THEN "unreadable" ELSE "unknown")
Conclude == At("unmarked") /\ Reply(Unmarked(reader.lists))

\* The next id of a projection: what was settled for the source stays settled.
MayAsk == Told /\ reader.form = "resolver" /\ reader.at >= PerId /\ reader.asks < MaxAsks
AskAgain(i) ==
  /\ MayAsk
  /\ LET asked == [reader EXCEPT !.id = i, !.asks = @ + 1]
     IN reader' = IF reader.source = JSON
                  THEN [asked EXCEPT !.answer = ResolveJson(reader.json, i)]
                  ELSE [asked EXCEPT !.at = PerId, !.k = 1, !.answer = "none"]
  /\ UNCHANGED <<disk, truth, lost, moves>>

Reader == \/ \E form \in Forms, i \in Id : Start(form, i)
          \/ FindLocation \/ ReadSource \/ CheckPresent \/ Canary \/ Discover \/ Scan
          \/ Foreigners \/ Walk \/ Recheck \/ Conclude
          \/ \E i \in Id : AskAgain(i)

-----------------------------------------------------------------------------
\* The disk changes under it.

\* `kept': no permission went during the read.  `stirred': the ids whose own
\* standing the factory touched during it.
Disturb(d, kept, ids) ==
  /\ Told => MayAsk   \* bound: the behaviour ends with the last answer
  /\ disk' = d
  /\ reader' = IF reader = Idle THEN reader
               ELSE [reader EXCEPT !.kept = @ /\ kept, !.stirred = @ \cup ids]
  /\ truth' = IF reader.source = NoSource THEN truth
              ELSE [i \in Id |-> truth[i] \cup {ResolveFrom(d, reader.source, i)}]

\* A permission is lost; nothing the factory wrote changes.
Lose(d) == lost < MaxLost /\ Disturb(d, FALSE, {}) /\ lost' = lost + 1 /\ UNCHANGED moves
CloseParent(p) == p \in disk.open /\ Lose([disk EXCEPT !.open = @ \ {p}])
HideJson == disk.json.there /\ disk.json.can # {} /\ Lose([disk EXCEPT !.json.can = {}])
RestrictDirectory(n, c) ==
  disk.dirs[n].there /\ c \in disk.dirs[n].can /\ Lose([disk EXCEPT !.dirs[n].can = @ \ {c}])
RestrictState(n, s, c) ==
  /\ disk.dirs[n].there /\ disk.dirs[n].states[s].there
  /\ c \in disk.dirs[n].states[s].can
  /\ Lose([disk EXCEPT !.dirs[n].states[s].can = @ \ {c}])

\* A step of the factory.
Work(d, ids) == moves < MaxMoves /\ Disturb(d, TRUE, ids) /\ moves' = moves + 1 /\ UNCHANGED lost
MarkedIn(n, i) == {s \in States : i \in disk.dirs[n].states[s].holds}
Move(n, i, s, t) ==
  /\ disk.dirs[n].there /\ MarkedIn(n, i) = {s} /\ t # s
  /\ LET states == disk.dirs[n].states
         to == [there |-> TRUE, holds |-> states[t].holds \cup {i},
                can |-> IF states[t].there THEN states[t].can ELSE {"stat", "search", "list"}]
     IN Work([disk EXCEPT !.dirs[n].states =
                [states EXCEPT ![s].holds = @ \ {i}, ![t] = to]], {i})
Vanish(n) == disk.dirs[n].there /\ Work([disk EXCEPT !.dirs[n].there = FALSE], Id)
Return(n) == /\ ~disk.dirs[n].there /\ n = reader.source
             /\ Work([disk EXCEPT !.dirs[n].there = TRUE], Id)
Report(i, said) == /\ disk.json.there /\ disk.json.valid /\ disk.json.says[i] # said
                   /\ Work([disk EXCEPT !.json.says[i] = said], {i})

LosePermission ==
  \/ \E p \in disk.open : CloseParent(p)
  \/ HideJson
  \/ \E n \in DIRECTORIES, c \in {"search", "list"} : RestrictDirectory(n, c)
  \/ \E n \in DIRECTORIES, s \in States, c \in {"search", "list"} : RestrictState(n, s, c)
  \/ \E n \in DIRECTORIES, s \in Foreign : RestrictState(n, s, "stat")
Factory == \/ \E n \in DIRECTORIES, i \in Id, s, t \in States : Move(n, i, s, t)
           \/ \E n \in DIRECTORIES : Vanish(n) \/ Return(n)
           \/ \E i \in Id, said \in {"todo", "merged", "unlisted"} : Report(i, said)

Next == Reader \/ LosePermission \/ Factory
Spec == Init /\ [][Next]_vars
-----------------------------------------------------------------------------
\* Properties.

TypeOK ==
  /\ disk \in Disk
  /\ reader.at \in 0 .. Len(Steps[reader.form])
  /\ reader.answer \in Answers \cup {"none"}
  /\ reader.names \subseteq Foreign
  /\ truth \in [Id -> SUBSET Answers]
  /\ lost \in 0 .. MaxLost
  /\ moves \in 0 .. MaxMoves

\* Monotonicity: whatever permission is taken from the disk, no ticket gains
\* a write that was refused before ("no filesystem state so degraded that it
\* grants access a better-understood state would refuse", run_state.py).
NeverMorePermissive ==
  [][lost' # lost =>
       \A i \in Id : Granted(Resolve(disk', i)) \subseteq Granted(Resolve(disk, i))]_vars

\* Nothing happened to the disk during the read.
Calm == reader.kept /\ reader.stirred = {}
\* Both forms, call by call, answer what the resolution says of a disk that
\* held still; the whole-manifest resolver and probe_ticket_state agree.
QuietReadIsSnapshot ==
  Told /\ Calm /\ (reader.form = "single" => FindSource(disk) # JSON)
    => reader.answer = Resolve(disk, reader.id)

Grants(a) == Told /\ reader.source # NoSource /\ a \in Granted(reader.answer)
Granting(a) == \E t \in truth[reader.id] : a \in Granted(t)

\* A write granted was granted by the disk at one moment of the read: what the
\* claim `absent' makes, "the source lists others and provably not you"
\* (run_state.py).  False: a marker moved from a directory not yet listed to one
\* already listed is in neither listing.
GrantWasTrue == \A a \in {"edit", "delete"} : Grants(a) => Granting(a)
\* Permissions that go while the calls are made, one before and one after, add
\* up to no grant.
GrantUnlessMoved == reader.stirred = {} => GrantWasTrue
\* While permissions stay, a ticket whose own marker stays in place is not
\* deleted on an answer no moment of the disk gave, whatever happens to the other
\* markers meanwhile.  (A marker that moves and a permission that goes add up to
\* one: a listing that failed before the move and a lookup that fails after it
\* refuse, and the read saw neither.)
Unstirred == reader.id \notin reader.stirred
HeldStaysHeld == reader.kept /\ Unstirred /\ Grants("delete") => Granting("delete")
\* Whatever permissions go and whatever the other markers do, a ticket that has
\* a marker in any state but todo, one this console cannot name included, is
\* neither edited nor deleted while that marker stays.
MarkerProtects ==
  Unstirred /\ Grants("delete") /\ reader.source \in DIRECTORIES
    => MarkedIn(reader.source, reader.id) \subseteq {"todo"}
\* As much of GrantWasTrue as the calls of a read keep, one read answering many
\* ids included.
GrantsAreTrue == GrantUnlessMoved /\ HeldStaysHeld /\ MarkerProtects
=============================================================================
