--------------------------- MODULE RunStateProofs ---------------------------
(***************************************************************************)
(* The run-state resolution, for every set of ids, of unknown states and   *)
(* of foreign state directories, and for every disk.                       *)
(*                                                                         *)
(* First the resolution as a function: what can be read of a disk only     *)
(* ever turns an answer into "unreadable", which both write gates refuse.  *)
(* Then the reads, call by call, while the factory moves: where a read is  *)
(* (ReaderOK, FindInv), what each of its calls was told of one disk of its *)
(* time (LearnedInv), which makes an undisturbed read exact; and what a    *)
(* disturbed one can still grant (ProtInv, HeldInv).                       *)
(***************************************************************************)
EXTENDS RunStateRead, FiniteSetTheorems, SequenceTheorems, TLAPS

\* A call on less of the same disk fails or says the same.
Less(a, b) == a = "error" \/ a = b
\* An answer from less of the same disk refuses or is the same.
Weaker(a, b) == a = "unreadable" \/ a = b

-----------------------------------------------------------------------------
\* The least of a set of positions, of the four states or the three locations.

LEMMA LeastExists ==
  ASSUME NEW S \in SUBSET (1 .. 4), S # {}
  PROVE  \E k \in S : \A j \in S : k =< j
<1>1. CASE 1 \in S
  BY <1>1
<1>2. CASE 1 \notin S /\ 2 \in S
  BY <1>2
<1>3. CASE 1 \notin S /\ 2 \notin S /\ 3 \in S
  BY <1>3
<1>4. CASE 1 \notin S /\ 2 \notin S /\ 3 \notin S
  <2>1. 1 .. 4 = {1, 2, 3, 4}
    OBVIOUS
  <2>2. S = {4}
    BY <1>4, <2>1
  <2> QED BY <2>2
<1> QED BY <1>1, <1>2, <1>3, <1>4

LEMMA MinOfPositions ==
  ASSUME NEW S \in SUBSET (1 .. 4), S # {}
  PROVE  /\ Min(S) \in S
         /\ \A k \in S : Min(S) =< k
BY LeastExists DEF Min

\* A first stop of fewer stops that both have is the first of both.
LEMMA SameLeast ==
  ASSUME NEW S \in SUBSET (1 .. 4), NEW T \in SUBSET S, S # {}, Min(S) \in T
  PROVE  T # {} /\ Min(T) = Min(S)
<1>1. Min(S) \in S /\ \A k \in S : Min(S) =< k
  BY MinOfPositions
<1> T \in SUBSET (1 .. 4) /\ T # {}
  OBVIOUS
<1>2. Min(T) \in T /\ \A k \in T : Min(T) =< k
  BY MinOfPositions
<1>3. Min(S) =< Min(T) /\ Min(T) =< Min(S)
  BY <1>1, <1>2
<1>4. Min(S) \in 1 .. 4 /\ Min(T) \in 1 .. 4
  BY <1>1, <1>2
<1> HIDE DEF Min
<1> QED BY <1>3, <1>4

-----------------------------------------------------------------------------
\* The calls.

LEMMA PresentLess ==
  ASSUME NEW lo, NEW hi, Degraded(lo, hi), NEW n \in 1 .. 3
  PROVE  Less(IsPresent(lo, n), IsPresent(hi, n))
<1>1. There(lo, n) = There(hi, n)
  BY DEF Degraded, LessJson, LessDirectory, There, JSON, DIRECTORIES
<1>2. Open(lo, n) => Open(hi, n)
  BY DEF Degraded, Open
<1> QED BY <1>1, <1>2 DEF IsPresent, Less

LEMMA InsideLess ==
  ASSUME NEW lo, NEW hi, Degraded(lo, hi), NEW n \in DIRECTORIES
  PROVE  Less(Inside(lo, n), Inside(hi, n))
BY DEF Degraded, LessDirectory, Open, Inside, Less

LEMMA NodeLess ==
  ASSUME NEW lo, NEW hi, Degraded(lo, hi), NEW n \in DIRECTORIES, NEW s \in States, NEW i
  PROVE  /\ Less(NodeExists(lo, n, s, i), NodeExists(hi, n, s, i))
         /\ Less(ListsTicket(lo, n, s), ListsTicket(hi, n, s))
<1>1. Less(Inside(lo, n), Inside(hi, n))
  BY InsideLess
<1>2. LessStateDir(lo.dirs[n].states[s], hi.dirs[n].states[s])
  BY DEF Degraded, LessDirectory
<1> QED BY <1>1, <1>2 DEF LessStateDir, NodeExists, ListsTicket, Less

LEMMA ListingLess ==
  ASSUME NEW lo, NEW hi, Degraded(lo, hi), NEW n \in DIRECTORIES, ~Undiscoverable(lo, n)
  PROVE  /\ ~Undiscoverable(hi, n)
         /\ UnrecognisedNames(lo, n) = UnrecognisedNames(hi, n)
<1>1. ~Undiscoverable(hi, n)
  BY DEF Degraded, LessDirectory, Undiscoverable, Open
<1>2. /\ lo.dirs[n].there = hi.dirs[n].there
      /\ \A s \in Foreign : lo.dirs[n].states[s].there = hi.dirs[n].states[s].there
  BY DEF Degraded, LessDirectory, LessStateDir, States
<1> QED BY <1>1, <1>2 DEF UnrecognisedNames

-----------------------------------------------------------------------------
\* The parts of the resolution.

LEMMA JsonWeaker ==
  ASSUME NEW lo, NEW hi, Degraded(lo, hi), NEW i \in Id
  PROVE  Weaker(ResolveJson(ReadJson(lo), i), ResolveJson(ReadJson(hi), i))
<1>1. ReadJson(lo).unreadable => ResolveJson(ReadJson(lo), i) = "unreadable"
  BY DEF ResolveJson
<1>2. ~ReadJson(lo).unreadable => ReadJson(lo) = ReadJson(hi)
  BY DEF Degraded, LessJson, ReadJson, Open
<1> QED BY <1>1, <1>2 DEF Weaker

LEMMA MarkerWeaker ==
  ASSUME NEW lo, NEW hi, Degraded(lo, hi), NEW n \in DIRECTORIES, NEW i \in Id
  PROVE  Weaker(MarkerState(lo, n, i), MarkerState(hi, n, i))
<1> DEFINE Says(d, k) == NodeExists(d, n, MARKER_PRECEDENCE[k], i)
           Stops(d) == {k \in 1 .. 4 : Says(d, k) # "no"}
<1>1. \A k \in 1 .. 4 : MARKER_PRECEDENCE[k] \in States
  BY DEF MARKER_PRECEDENCE, States, Known
<1>2. \A k \in 1 .. 4 : Less(Says(lo, k), Says(hi, k))
  BY <1>1, NodeLess
<1>3. Stops(hi) \subseteq Stops(lo)
  BY <1>2 DEF Less
<1>4. CASE Stops(lo) = {}
  <2>1. Stops(hi) = {}
    BY <1>3, <1>4
  <2> QED BY <1>4, <2>1 DEF MarkerState, Weaker
<1>5. CASE Stops(lo) # {}
  <2> DEFINE k == Min(Stops(lo))
  <2>1. k \in Stops(lo)
    <3>1. Stops(lo) \in SUBSET (1 .. 4)
      OBVIOUS
    <3> HIDE DEF Stops
    <3> QED BY <3>1, <1>5, MinOfPositions
  <2>2. CASE Says(lo, k) = "yes"
    <3>1. Says(hi, k) = "yes"
      BY <1>2, <2>1, <2>2 DEF Less
    <3>2. k \in Stops(hi)
      BY <2>1, <3>1
    <3>3. Stops(hi) # {} /\ Min(Stops(hi)) = k
      <4>1. Stops(lo) \in SUBSET (1 .. 4)
        OBVIOUS
      <4> HIDE DEF Stops
      <4> QED BY <4>1, <1>3, <1>5, <3>2, SameLeast
    <3>4. MarkerState(lo, n, i) = MARKER_PRECEDENCE[k]
      BY <1>5, <2>2 DEF MarkerState
    <3>5. MarkerState(hi, n, i) = MARKER_PRECEDENCE[k]
      BY <3>1, <3>3 DEF MarkerState
    <3> QED BY <3>4, <3>5 DEF Weaker
  <2>3. CASE Says(lo, k) # "yes"
    BY <1>5, <2>3 DEF MarkerState, Weaker
  <2> QED BY <2>2, <2>3
<1> QED BY <1>4, <1>5

LEMMA ListsWeaker ==
  ASSUME NEW lo, NEW hi, Degraded(lo, hi), NEW n \in DIRECTORIES, ~Undiscoverable(lo, n)
  PROVE  LET names == UnrecognisedNames(lo, n)
         IN Weaker(Unmarked(ListsAnyTicket(lo, n, names)), Unmarked(ListsAnyTicket(hi, n, names)))
<1> DEFINE names == UnrecognisedNames(lo, n)
<1>1. ~Undiscoverable(hi, n)
  BY ListingLess
<1>2. Known \cup names \subseteq States
  BY DEF UnrecognisedNames, States
<1>3. \A s \in Known \cup names : Less(ListsTicket(lo, n, s), ListsTicket(hi, n, s))
  BY <1>2, NodeLess
<1>4. CASE \E s \in Known \cup names : ListsTicket(lo, n, s) = "yes"
  BY <1>1, <1>3, <1>4 DEF ListsAnyTicket, Unmarked, Weaker, Less
<1>5. CASE /\ \A s \in Known \cup names : ListsTicket(lo, n, s) # "yes"
           /\ \E s \in Known \cup names : ListsTicket(lo, n, s) = "error"
  <2>1. ListsAnyTicket(lo, n, names) = "unclear"
    BY <1>5 DEF ListsAnyTicket
  <2> QED BY <2>1 DEF Unmarked, Weaker
<1>6. CASE \A s \in Known \cup names : ListsTicket(lo, n, s) \notin {"yes", "error"}
  <2>1. ListsAnyTicket(lo, n, names) = "no"
    BY <1>6 DEF ListsAnyTicket
  <2>2. ListsAnyTicket(hi, n, names) = "no"
    BY <1>1, <1>3, <1>6 DEF ListsAnyTicket, Less
  <2> QED BY <2>1, <2>2 DEF Weaker
<1> QED BY <1>4, <1>5, <1>6

LEMMA DirectoryWeaker ==
  ASSUME NEW lo, NEW hi, Degraded(lo, hi), NEW n \in DIRECTORIES, NEW i \in Id
  PROVE  Weaker(ResolveDirectory(lo, n, i), ResolveDirectory(hi, n, i))
<1> DEFINE names == UnrecognisedNames(lo, n)
<1>1. SUFFICES ASSUME ResolveDirectory(lo, n, i) # "unreadable"
               PROVE  ResolveDirectory(lo, n, i) = ResolveDirectory(hi, n, i)
  BY DEF Weaker
<1>2. Less(IsPresent(lo, n), IsPresent(hi, n)) /\ Less(Inside(lo, n), Inside(hi, n))
  BY PresentLess, InsideLess DEF DIRECTORIES
<1>3. CASE IsPresent(lo, n) = "no"
  BY <1>2, <1>3 DEF ResolveDirectory, Less
<1>4. CASE IsPresent(lo, n) # "no"
  <2>1. Inside(lo, n) # "error" /\ ~Undiscoverable(lo, n) /\ ~ForeignMayName(lo, n, names, i)
    BY <1>1, <1>4 DEF ResolveDirectory
  <2>2. Inside(hi, n) # "error" /\ ~Undiscoverable(hi, n) /\ UnrecognisedNames(hi, n) = names
    BY <1>2, <2>1, ListingLess DEF Less
  <2>3. IsPresent(hi, n) # "no"
    <3>1. Open(lo, n)
      BY <2>1 DEF Inside
    <3>2. Open(hi, n)
      BY <3>1 DEF Degraded, Open
    <3>3. There(lo, n)
      BY <1>4, <3>1 DEF IsPresent, Tell
    <3>4. There(hi, n)
      BY <3>3 DEF Degraded, LessJson, LessDirectory, There
    <3> QED BY <3>2, <3>4 DEF IsPresent, Tell
  <2>4. ~ForeignMayName(hi, n, names, i)
    <3>1. names \subseteq States
      BY DEF UnrecognisedNames, States
    <3>2. \A s \in names : Less(NodeExists(lo, n, s, i), NodeExists(hi, n, s, i))
      BY <3>1, NodeLess
    <3> QED BY <2>1, <3>2 DEF ForeignMayName, Less
  <2>5. Weaker(MarkerState(lo, n, i), MarkerState(hi, n, i))
    BY MarkerWeaker
  <2>6. Weaker(Unmarked(ListsAnyTicket(lo, n, names)), Unmarked(ListsAnyTicket(hi, n, names)))
    BY <2>1, ListsWeaker
  <2>7. ResolveDirectory(lo, n, i) = IF MarkerState(lo, n, i) # "none" THEN MarkerState(lo, n, i)
                                     ELSE Unmarked(ListsAnyTicket(lo, n, names))
    BY <1>4, <2>1 DEF ResolveDirectory
  <2>8. ResolveDirectory(hi, n, i) = IF MarkerState(hi, n, i) # "none" THEN MarkerState(hi, n, i)
                                     ELSE Unmarked(ListsAnyTicket(hi, n, names))
    BY <2>2, <2>3, <2>4 DEF ResolveDirectory
  <2> HIDE DEF names
  <2> QED BY <1>1, <2>5, <2>6, <2>7, <2>8 DEF Weaker
<1> QED BY <1>3, <1>4

LEMMA SourceWeaker ==
  ASSUME NEW lo, NEW hi, Degraded(lo, hi), NEW n \in 0 .. 3, NEW i \in Id
  PROVE  Weaker(ResolveFrom(lo, n, i), ResolveFrom(hi, n, i))
<1>1. n = NoSource \/ n = JSON \/ n \in DIRECTORIES
  BY DEF NoSource, JSON, DIRECTORIES
<1> QED BY <1>1, JsonWeaker, DirectoryWeaker DEF ResolveFrom, Weaker, NoSource, JSON, DIRECTORIES

\* A source that could not be probed refuses every id.
LEMMA UnprobedRefuses ==
  ASSUME NEW d, NEW n \in 1 .. 3, NEW i \in Id, IsPresent(d, n) = "error"
  PROVE  ResolveFrom(d, n, i) = "unreadable"
<1>1. ~Open(d, n)
  BY DEF IsPresent, Tell
<1>2. CASE n = JSON
  <2>1. ReadJson(d).unreadable
    BY <1>1, <1>2 DEF ReadJson
  <2> QED BY <1>2, <2>1 DEF ResolveFrom, ResolveJson, NoSource, JSON
<1>3. CASE n # JSON
  <2>1. Inside(d, n) = "error"
    BY <1>1 DEF Inside
  <2> QED BY <1>3, <2>1 DEF ResolveFrom, ResolveDirectory, NoSource, JSON
<1> QED BY <1>2, <1>3

\* Monotonicity: on any disk of which less can be read, discovery and reading
\* together give a ticket the answer they gave or "unreadable".
THEOREM Monotone ==
  ASSUME NEW lo, NEW hi, Degraded(lo, hi), NEW i \in Id
  PROVE  Weaker(Resolve(lo, i), Resolve(hi, i))
<1> DEFINE Found(d) == {n \in 1 .. 3 : IsPresent(d, n) # "no"}
<1>1. \A n \in 1 .. 3 : Less(IsPresent(lo, n), IsPresent(hi, n))
  BY PresentLess
<1>2. Found(hi) \subseteq Found(lo)
  BY <1>1 DEF Less
<1>3. CASE Found(lo) = {}
  <2>1. Found(hi) = {}
    BY <1>2, <1>3
  <2> QED BY <1>3, <2>1 DEF Resolve, FindSource, ResolveFrom, Weaker
<1>4. CASE Found(lo) # {}
  <2> DEFINE n == Min(Found(lo))
  <2>1. n \in Found(lo)
    <3>1. Found(lo) \in SUBSET (1 .. 4)
      OBVIOUS
    <3> HIDE DEF Found
    <3> QED BY <3>1, <1>4, MinOfPositions
  <2>2. Resolve(lo, i) = ResolveFrom(lo, n, i)
    BY <1>4 DEF Resolve, FindSource
  <2>3. CASE IsPresent(lo, n) = "error"
    BY <2>1, <2>2, <2>3, UnprobedRefuses DEF Weaker
  <2>4. CASE IsPresent(lo, n) # "error"
    <3>1. n \in Found(hi)
      BY <1>1, <2>1, <2>4 DEF Less
    <3>2. Found(hi) # {} /\ Min(Found(hi)) = n
      <4>1. Found(lo) \in SUBSET (1 .. 4)
        OBVIOUS
      <4> HIDE DEF Found
      <4> QED BY <4>1, <1>2, <1>4, <3>1, SameLeast
    <3>3. Resolve(hi, i) = ResolveFrom(hi, n, i)
      BY <3>2 DEF Resolve, FindSource
    <3> HIDE DEF n
    <3> QED BY <2>1, <2>2, <3>3, SourceWeaker
  <2> QED BY <2>3, <2>4
<1> QED BY <1>3, <1>4

-----------------------------------------------------------------------------
\* The steps that take a permission away degrade the disk, and the factory's
\* leave it a disk.

DiskOK == disk \in Disk

\* The disk with another run-state directory n, or another state directory.
LEMMA WithDirectory ==
  ASSUME NEW d \in Disk, NEW n \in DIRECTORIES, NEW x \in Directory,
         NEW e, e = [d EXCEPT !.dirs[n] = x]
  PROVE  /\ e \in Disk
         /\ LessDirectory(x, d.dirs[n]) => Degraded(e, d)
<1>1. e \in Disk
  BY DEF Disk
<1>2. ASSUME LessDirectory(x, d.dirs[n])  PROVE Degraded(e, d)
  <2>1. \A m \in DIRECTORIES : e.dirs[m] = IF m = n THEN x ELSE d.dirs[m]
    BY DEF Disk
  <2>2. \A m \in DIRECTORIES : LessDirectory(e.dirs[m], d.dirs[m])
    BY <1>2, <2>1 DEF LessDirectory, LessStateDir
  <2> QED BY <2>2 DEF Degraded, Disk, LessJson, JsonFile
<1> QED BY <1>1, <1>2

LEMMA LoseDegrades ==
  ASSUME DiskOK, LosePermission
  PROVE  disk' \in Disk /\ Degraded(disk', disk)
<1> USE DEF DiskOK
<1>1. ASSUME NEW p \in disk.open, CloseParent(p)  PROVE disk' \in Disk /\ Degraded(disk', disk)
  <2>1. disk' = [disk EXCEPT !.open = @ \ {p}]
    BY <1>1 DEF CloseParent, Lose, Disturb
  <2> QED BY <2>1 DEF Disk, Degraded, LessJson, LessDirectory, LessStateDir
<1>2. ASSUME HideJson  PROVE disk' \in Disk /\ Degraded(disk', disk)
  <2>1. disk' = [disk EXCEPT !.json.can = {}]
    BY <1>2 DEF HideJson, Lose, Disturb
  <2> QED BY <2>1 DEF Disk, JsonFile, Degraded, LessJson, LessDirectory, LessStateDir
<1>3. ASSUME NEW n \in DIRECTORIES, NEW c \in {"search", "list"}, RestrictDirectory(n, c)
      PROVE  disk' \in Disk /\ Degraded(disk', disk)
  <2> DEFINE x == [disk.dirs[n] EXCEPT !.can = @ \ {c}]
  <2>1. disk' = [disk EXCEPT !.dirs[n] = x]
    BY <1>3 DEF RestrictDirectory, Lose, Disturb
  <2>2. disk.dirs[n] \in Directory
    BY DEF Disk
  <2>3. x \in Directory /\ LessDirectory(x, disk.dirs[n])
    BY <2>2 DEF Directory, LessDirectory, LessStateDir
  <2> HIDE DEF x
  <2> QED BY <2>1, <2>3, WithDirectory
<1>4. ASSUME NEW n \in DIRECTORIES, NEW s \in States, NEW c, RestrictState(n, s, c)
      PROVE  disk' \in Disk /\ Degraded(disk', disk)
  <2> DEFINE y == [disk.dirs[n].states[s] EXCEPT !.can = @ \ {c}]
             x == [disk.dirs[n] EXCEPT !.states[s] = y]
  <2>1. disk' = [disk EXCEPT !.dirs[n] = x]
    BY <1>4 DEF RestrictState, Lose, Disturb
  <2>2. disk.dirs[n] \in Directory /\ disk.dirs[n].states[s] \in StateDir
    BY DEF Disk, Directory
  <2>3. y \in StateDir /\ LessStateDir(y, disk.dirs[n].states[s])
    BY <2>2 DEF StateDir, LessStateDir
  <2> HIDE DEF y
  <2>4. x \in Directory /\ LessDirectory(x, disk.dirs[n])
    BY <2>2, <2>3 DEF Directory, LessDirectory, LessStateDir
  <2> HIDE DEF x
  <2> QED BY <2>1, <2>4, WithDirectory
<1> QED BY <1>1, <1>2, <1>3, <1>4 DEF LosePermission, States

LEMMA FactoryKeepsDisk ==
  ASSUME DiskOK, Factory
  PROVE  disk' \in Disk
<1> USE DEF DiskOK
<1>1. ASSUME NEW n \in DIRECTORIES, NEW i \in Id, NEW s \in States, NEW t \in States,
             Move(n, i, s, t)
      PROVE  disk' \in Disk
  <2> DEFINE states == disk.dirs[n].states
             to == [there |-> TRUE, holds |-> states[t].holds \cup {i},
                    can |-> IF states[t].there THEN states[t].can
                            ELSE {"stat", "search", "list"}]
             moved == [states EXCEPT ![s].holds = @ \ {i}, ![t] = to]
             x == [disk.dirs[n] EXCEPT !.states = moved]
  <2>1. disk.dirs[n] \in Directory /\ states \in [States -> StateDir]
    BY DEF Disk, Directory
  <2>2. to \in StateDir
    BY <2>1 DEF StateDir
  <2>3. x \in Directory
    <3>1. moved \in [States -> StateDir]
      BY <2>1, <2>2 DEF StateDir
    <3> QED BY <2>1, <3>1 DEF Directory
  <2>4. disk' = [disk EXCEPT !.dirs[n] = x]
    BY <1>1 DEF Move, Work, Disturb
  <2> HIDE DEF x
  <2> QED BY <2>3, <2>4, WithDirectory
<1>2. ASSUME NEW n \in DIRECTORIES, Vanish(n) \/ Return(n)  PROVE disk' \in Disk
  <2>1. PICK b \in BOOLEAN : disk' = [disk EXCEPT !.dirs[n] = [disk.dirs[n] EXCEPT !.there = b]]
    BY <1>2 DEF Vanish, Return, Work, Disturb
  <2>2. [disk.dirs[n] EXCEPT !.there = b] \in Directory
    BY DEF Disk, Directory
  <2> QED BY <2>1, <2>2, WithDirectory
<1>3. ASSUME NEW i \in Id, NEW said \in {"todo", "merged", "unlisted"}, Report(i, said)
      PROVE  disk' \in Disk
  <2>1. disk' = [disk EXCEPT !.json = [disk.json EXCEPT !.says = [disk.json.says EXCEPT ![i] = said]]]
    BY <1>3 DEF Report, Work, Disturb
  <2> QED BY <2>1 DEF Disk, JsonFile, Said, Status
<1> QED BY <1>1, <1>2, <1>3 DEF Factory

LEMMA ReaderOnlyReads ==
  ASSUME Reader
  PROVE  UNCHANGED <<disk, lost>>
BY DEF Reader, Start, FindLocation, ReadSource, CheckPresent, Canary, Discover, Scan, Foreigners,
       Walk, Recheck, Conclude, AskAgain, At

LEMMA FactoryLosesNothing ==
  ASSUME Factory
  PROVE  lost' = lost
<1>1. \A d, ids : Work(d, ids) => lost' = lost
  BY DEF Work
<1> HIDE DEF Work
<1>2. \A n, i, s, t : Move(n, i, s, t) => lost' = lost
  BY <1>1 DEF Move
<1>3. \A n : Vanish(n) \/ Return(n) => lost' = lost
  BY <1>1 DEF Vanish, Return
<1>4. \A i, said : Report(i, said) => lost' = lost
  BY <1>1 DEF Report
<1> QED BY <1>2, <1>3, <1>4 DEF Factory

\* Whatever the factory and the permissions do, the disk stays one the resolution
\* is about: every location keeps its nodes.
THEOREM DiskCorrect == Spec => []DiskOK
<1>1. Init => DiskOK
  BY ReadAssumption DEF Init, DiskOK
<1>2. DiskOK /\ [Next]_vars => DiskOK'
  <2> SUFFICES ASSUME DiskOK, [Next]_vars  PROVE disk' \in Disk
    BY DEF DiskOK
  <2>1. CASE Reader
    BY <2>1, ReaderOnlyReads DEF DiskOK
  <2>2. CASE LosePermission
    BY <2>2, LoseDegrades
  <2>3. CASE Factory
    BY <2>3, FactoryKeepsDisk
  <2>4. CASE UNCHANGED vars
    BY <2>4 DEF vars, DiskOK
  <2> QED BY <2>1, <2>2, <2>3, <2>4 DEF Next
<1> QED BY <1>1, <1>2, PTL DEF Spec

\* A permission taken from the disk never adds a write to what a ticket is
\* granted: the write gates fail closed (run_state.py, write_gate.py).
THEOREM GatesFailClosed == Spec => NeverMorePermissive
<1> DEFINE Step == lost' # lost =>
             \A i \in Id : Granted(Resolve(disk', i)) \subseteq Granted(Resolve(disk, i))
<1>1. DiskOK /\ [Next]_vars => [Step]_vars
  <2> SUFFICES ASSUME DiskOK, [Next]_vars, lost' # lost, NEW i \in Id
               PROVE  Granted(Resolve(disk', i)) \subseteq Granted(Resolve(disk, i))
    OBVIOUS
  <2>1. LosePermission
    BY ReaderOnlyReads, FactoryLosesNothing DEF Next, vars
  <2>2. Degraded(disk', disk)
    BY <2>1, LoseDegrades
  <2>3. Weaker(Resolve(disk', i), Resolve(disk, i))
    BY <2>2, Monotone
  <2> QED BY <2>3 DEF Weaker, Granted, MUTABLE_STATES, DELETABLE_STATES
<1> QED BY <1>1, DiskCorrect, PTL DEF Spec, NeverMorePermissive

-----------------------------------------------------------------------------
(***************************************************************************)
(* The reader                                                              *)
(***************************************************************************)
\* The order in which the state directories are listed.
Order(names) == MARKER_PRECEDENCE \o SetToSeq(names)

\* Every known state and every name discovered is listed, and nothing else.
LEMMA OrderIs ==
  ASSUME NEW names \in SUBSET Foreign
  PROVE  /\ Len(Order(names)) \in Nat /\ Len(Order(names)) >= 4
         /\ \A k \in 1 .. Len(Order(names)) : Order(names)[k] \in Known \cup names
         /\ \A s \in Known \cup names : \E k \in 1 .. Len(Order(names)) : Order(names)[k] = s
<1> DEFINE c == Cardinality(names)
           t == SetToSeq(names)
<1>1. IsFiniteSet(names) /\ c \in Nat /\ ExistsBijection(1 .. c, names)
  BY RunStateAssumption, FS_Subset, FS_CardinalityType
<1>2. t \in [1 .. c -> names] /\ IsInjective(t)
  <2>1. \E f \in [1 .. c -> names] : IsInjective(f)
    BY <1>1 DEF ExistsBijection, Bijection, Injection
  <2> QED
    BY <2>1 DEF SetToSeq
<1>3. t \in Surjection(1 .. c, names)
  <2>1. t \in Injection(1 .. c, names)
    BY <1>2 DEF Injection
  <2>2. IsFiniteSet(1 .. c) /\ Cardinality(1 .. c) = Cardinality(names)
    BY <1>1, FS_Interval
  <2> HIDE DEF c, t
  <2> QED
    BY <1>1, <2>1, <2>2, FS_Injection
<1>4. t \in Seq(names) /\ Len(t) = c
  BY <1>1, <1>2
<1>5. \A s \in names : \E k \in 1 .. c : t[k] = s
  BY <1>3 DEF Surjection
<1>11. Order(names) = MARKER_PRECEDENCE \o t
  BY DEF Order
<1> HIDE DEF c, t
<1>6. /\ MARKER_PRECEDENCE \in Seq(Known) /\ Len(MARKER_PRECEDENCE) = 4
      /\ \A k \in 1 .. 4 : MARKER_PRECEDENCE[k] \in Known
  BY DEF MARKER_PRECEDENCE, Known
<1>7. \A s \in Known : \E k \in 1 .. 4 : MARKER_PRECEDENCE[k] = s
  BY DEF MARKER_PRECEDENCE, Known
<1>8. /\ Len(Order(names)) = 4 + c
      /\ \A k \in 1 .. 4 + c : Order(names)[k] = IF k <= 4 THEN MARKER_PRECEDENCE[k] ELSE t[k - 4]
  <2>1. MARKER_PRECEDENCE \in Seq(Known \cup names) /\ t \in Seq(Known \cup names)
    BY <1>4, <1>6
  <2>2. /\ Len(MARKER_PRECEDENCE \o t) = Len(MARKER_PRECEDENCE) + Len(t)
        /\ \A k \in 1 .. Len(MARKER_PRECEDENCE) + Len(t) :
             (MARKER_PRECEDENCE \o t)[k] = IF k <= Len(MARKER_PRECEDENCE)
                                           THEN MARKER_PRECEDENCE[k] ELSE t[k - Len(MARKER_PRECEDENCE)]
    BY <2>1, ConcatProperties
  <2> QED
    BY <1>1, <1>4, <1>6, <1>11, <2>2
<1>9. ASSUME NEW k \in 1 .. Len(Order(names))  PROVE Order(names)[k] \in Known \cup names
  <2>1. CASE k <= 4
    BY <2>1, <1>1, <1>6, <1>8
  <2>2. CASE k > 4
    <3>1. k - 4 \in 1 .. c
      BY <2>2, <1>1, <1>8
    <3> QED
      BY <2>2, <3>1, <1>1, <1>4, <1>8
  <2> QED
    BY <1>1, <2>1, <2>2
<1>10. ASSUME NEW s \in Known \cup names
       PROVE  \E k \in 1 .. Len(Order(names)) : Order(names)[k] = s
  <2>1. CASE s \in Known
    <3>1. PICK k \in 1 .. 4 : MARKER_PRECEDENCE[k] = s
      BY <2>1, <1>7
    <3> QED
      BY <3>1, <1>1, <1>8
  <2>2. CASE s \in names
    <3>1. PICK k \in 1 .. c : t[k] = s
      BY <2>2, <1>5
    <3>2. k + 4 \in 1 .. 4 + c /\ k + 4 > 4 /\ (k + 4) - 4 = k
      BY <1>1, <3>1
    <3> QED
      BY <3>1, <3>2, <1>8
  <2> QED
    BY <2>1, <2>2
<1> QED
  BY <1>1, <1>8, <1>9, <1>10

\* Where the calls of each form are.
LEMMA StepTable ==
  /\ Len(Steps["resolver"]) = 10 /\ Len(Steps["single"]) = 7
  /\ Steps["resolver"][1] = "find" /\ Steps["resolver"][2] = "present"
  /\ Steps["resolver"][3] = "canary" /\ Steps["resolver"][4] = "discover"
  /\ Steps["resolver"][5] = "scan" /\ Steps["resolver"][6] = "foreign"
  /\ Steps["resolver"][7] = "walk" /\ Steps["resolver"][8] = "recheck"
  /\ Steps["resolver"][9] = "unmarked" /\ Steps["resolver"][10] = "json"
  /\ Steps["single"][1] = "find" /\ Steps["single"][2] = "discover"
  /\ Steps["single"][3] = "foreign" /\ Steps["single"][4] = "walk"
  /\ Steps["single"][5] = "recheck" /\ Steps["single"][6] = "scan"
  /\ Steps["single"][7] = "unmarked"
BY DEF Steps

Parsed == [unreadable : BOOLEAN, readable : BOOLEAN, says : [Id -> Said]]
ReaderRec ==
  [form : {"resolver", "single"}, at : 0 .. 10, k : Nat, id : Id \cup {Idle.id}, source : 0 .. 3,
   json : Parsed, blind : BOOLEAN, names : SUBSET Foreign, lists : {"yes", "no", "unclear"},
   answer : Answers \cup {"none"}, asks : Nat, kept : BOOLEAN, stirred : SUBSET Id]

AtScan == reader.at = (IF reader.form = "resolver" THEN 5 ELSE 6)
AtWalk == reader.at = (IF reader.form = "resolver" THEN 7 ELSE 4)
\* What a reader of a directory has behind it.
Discovered == reader.at # JsonStep /\ reader.at > (IF reader.form = "resolver" THEN 4 ELSE 2)
Scanned == reader.at # JsonStep /\ reader.at > (IF reader.form = "resolver" THEN 5 ELSE 6)
Cleared == reader.at # JsonStep /\ reader.at > (IF reader.form = "resolver" THEN 6 ELSE 3)
Walked == reader.at # JsonStep /\ reader.at > (IF reader.form = "resolver" THEN 7 ELSE 4)

\* The reader's types, and where it can be.
ReaderOK ==
  /\ reader \in ReaderRec
  /\ reader.form = "single" => reader.at <= 7
  /\ reader.at > 0 => reader.id \in Id
  /\ reader.at = 0 <=> reader = Idle
  /\ reader.at = 1 /\ ~Told => reader.k \in 1 .. 3
  /\ AtWalk /\ ~Told => reader.k \in 1 .. 4
  /\ AtScan /\ ~Told => reader.k \in 1 .. Len(Order(reader.names))
  /\ reader.at <= 1 => reader.source = NoSource
  /\ reader.at > 1 => reader.source \in 1 .. 3 /\ (reader.source = JSON <=> reader.at = JsonStep)

\* What a step of the reader does to it, field by field.
Rest(r) ==
  /\ reader'.form = r.form /\ reader'.id = r.id /\ reader'.source = r.source
  /\ reader'.json = r.json /\ reader'.blind = r.blind /\ reader'.names = r.names
  /\ reader'.lists = r.lists /\ reader'.asks = r.asks
  /\ reader'.kept = r.kept /\ reader'.stirred = r.stirred
Held == UNCHANGED <<disk, truth>>
Replied(a) ==
  /\ Held /\ reader' \in ReaderRec /\ Rest(reader)
  /\ reader'.at = reader.at /\ reader'.k = reader.k /\ reader'.answer = a /\ a \in Answers
Proceeded(r) ==
  /\ Held /\ reader' \in ReaderRec /\ Rest(r)
  /\ reader'.at = reader.at + 1 /\ reader'.k = 1 /\ reader'.answer = "none"
Nexted(r) ==
  /\ Held /\ reader' \in ReaderRec /\ Rest(r)
  /\ reader'.at = reader.at /\ reader'.k = reader.k + 1 /\ reader'.answer = "none"

LEMMA AnswersAre ==
  /\ Known \subseteq Answers /\ Status \subseteq Answers
  /\ {"unknown", "absent", "unreadable"} \subseteq Answers /\ "none" \notin Answers
BY DEF Answers, Known, Status

LEMMA MarkersAre == \A k \in 1 .. 4 : MARKER_PRECEDENCE[k] \in Known
BY DEF MARKER_PRECEDENCE, Known

LEMMA ReplyDoes ==
  ASSUME ReaderOK, NEW a \in Answers, Reply(a), disk' = disk
  PROVE  Replied(a)
<1>1. reader \in ReaderRec /\ reader' = [reader EXCEPT !.answer = a] /\ truth' = truth
  BY DEF ReaderOK, Reply
<1> QED
  BY <1>1 DEF Replied, Rest, Held, ReaderRec

LEMMA ProceedDoes ==
  ASSUME NEW r \in ReaderRec, r.at = reader.at, r.at < 10, r.answer = "none",
         Proceed(r), disk' = disk
  PROVE  Proceeded(r)
<1>1. reader' = [r EXCEPT !.at = r.at + 1, !.k = 1] /\ truth' = truth
  BY DEF Proceed
<1>2. r.at + 1 \in 0 .. 10
  BY DEF ReaderRec
<1> QED
  BY <1>1, <1>2 DEF Proceeded, Rest, Held, ReaderRec

LEMMA NextDoes ==
  ASSUME NEW r \in ReaderRec, r.at = reader.at, r.k = reader.k, r.answer = "none",
         Next1(r), disk' = disk
  PROVE  Nexted(r)
<1>1. reader' = [r EXCEPT !.k = r.k + 1] /\ truth' = truth
  BY DEF Next1
<1>2. r.k + 1 \in Nat
  BY DEF ReaderRec
<1> QED
  BY <1>1, <1>2 DEF Nexted, Rest, Held, ReaderRec

\* Where the reader is when it makes each call.
LEMMA AtIs ==
  ASSUME ReaderOK, NEW step, At(step)
  PROVE  /\ reader.at > 0 /\ reader.answer = "none" /\ disk' = disk
         /\ reader \in ReaderRec /\ reader.id \in Id
         /\ step = "find" => reader.at = 1 /\ reader.k \in 1 .. 3
         /\ step = "present" => reader.at = 2 /\ reader.form = "resolver"
         /\ step = "canary" => reader.at = 3 /\ reader.form = "resolver"
         /\ step = "discover" => reader.at = IF reader.form = "resolver" THEN 4 ELSE 2
         /\ step = "scan" => AtScan /\ reader.k \in 1 .. Len(Order(reader.names))
         /\ step = "foreign" => reader.at = IF reader.form = "resolver" THEN 6 ELSE 3
         /\ step = "walk" => AtWalk /\ reader.k \in 1 .. 4
         /\ step = "recheck" => reader.at = IF reader.form = "resolver" THEN 8 ELSE 5
         /\ step = "unmarked" => reader.at = IF reader.form = "resolver" THEN 9 ELSE 7
         /\ step = "json" => reader.at = 10 /\ reader.form = "resolver"
<1>1. /\ reader.at > 0 /\ reader.answer = "none" /\ disk' = disk /\ reader \in ReaderRec
      /\ reader.id \in Id /\ ~Told
      /\ step = Steps[reader.form][reader.at]
  BY DEF At, Reading, Told, ReaderOK
<1>2. CASE reader.form = "resolver"
  <2>1. reader.at \in 1 .. 10
    BY <1>1 DEF ReaderRec
  <2> QED
    BY <1>1, <1>2, <2>1, StepTable DEF AtScan, AtWalk, ReaderOK
<1>3. CASE reader.form = "single"
  <2>1. reader.at \in 1 .. 7
    BY <1>1, <1>3 DEF ReaderRec, ReaderOK
  <2> QED
    BY <1>1, <1>3, <2>1, StepTable DEF AtScan, AtWalk, ReaderOK
<1> QED
  BY <1>1, <1>2, <1>3 DEF ReaderRec

\* A directory is a source of the calls between the search and the JSON file.
LEMMA SourceIs ==
  ASSUME ReaderOK, reader.at > 1, reader.at # JsonStep
  PROVE  reader.source \in DIRECTORIES
BY DEF ReaderOK, DIRECTORIES, JSON

\* FindLocation: on to the next location, none found, or found.
Found(n) ==
  /\ reader' \in ReaderRec /\ disk' = disk
  /\ reader'.source = n /\ reader'.k = 1 /\ reader'.answer = "none"
  /\ reader'.at = IF n = JSON THEN JsonStep ELSE 2
  /\ reader'.form = reader.form /\ reader'.id = reader.id
  /\ reader'.kept = reader.kept /\ reader'.stirred = reader.stirred
  /\ reader'.lists = reader.lists
  /\ truth' = [i \in Id |-> {ResolveFrom(disk, n, i)}]

LEMMA FindDoes ==
  ASSUME ReaderOK, FindLocation
  PROVE  /\ reader.at = 1 /\ reader.k \in 1 .. 3
         /\ \/ IsPresent(disk, reader.k) = "no" /\ reader.k < 3 /\ Nexted(reader)
            \/ IsPresent(disk, reader.k) = "no" /\ reader.k = 3 /\ Replied("unknown")
            \/ /\ IsPresent(disk, reader.k) # "no" /\ reader.k = JSON /\ reader.form = "single"
               /\ Replied("unknown")
            \/ /\ IsPresent(disk, reader.k) # "no" /\ Found(reader.k)
               /\ reader.k = JSON => reader.form = "resolver"
<1>1. /\ At("find") /\ reader.at = 1 /\ reader.k \in 1 .. 3 /\ reader.answer = "none"
      /\ disk' = disk /\ reader \in ReaderRec /\ "unknown" \in Answers
  BY AtIs, AnswersAre DEF FindLocation
<1>2. CASE IsPresent(disk, reader.k) = "no" /\ reader.k < 3
  <2>1. Next1(reader)
    BY <1>2 DEF FindLocation
  <2> QED
    BY <1>1, <1>2, <2>1, NextDoes
<1>3. CASE IsPresent(disk, reader.k) = "no" /\ ~(reader.k < 3)
  <2>1. Reply("unknown") /\ reader.k = 3
    BY <1>1, <1>3 DEF FindLocation
  <2> QED
    BY <1>1, <1>3, <2>1, ReplyDoes
<1>4. CASE IsPresent(disk, reader.k) # "no" /\ reader.k = JSON /\ reader.form = "single"
  <2>1. Reply("unknown")
    BY <1>4 DEF FindLocation
  <2> QED
    BY <1>1, <1>4, <2>1, ReplyDoes
<1>5. CASE IsPresent(disk, reader.k) # "no" /\ ~(reader.k = JSON /\ reader.form = "single")
  <2>1. /\ reader' = [reader EXCEPT !.source = reader.k, !.k = 1,
                                    !.at = IF reader.k = JSON THEN JsonStep ELSE 2]
        /\ truth' = [i \in Id |-> {ResolveFrom(disk, reader.k, i)}]
    BY <1>5 DEF FindLocation
  <2>2. Found(reader.k)
    <3> DEFINE a == IF reader.k = JSON THEN JsonStep ELSE 2
    <3>1. a \in 0 .. 10 /\ reader.k \in 0 .. 3 /\ 1 \in Nat
      BY <1>1 DEF JsonStep
    <3>2. reader' = [reader EXCEPT !.source = reader.k, !.k = 1, !.at = a]
      BY <2>1
    <3> HIDE DEF a
    <3>3. /\ reader' \in ReaderRec /\ reader'.source = reader.k /\ reader'.k = 1
          /\ reader'.answer = "none" /\ reader'.at = a
          /\ reader'.form = reader.form /\ reader'.id = reader.id
          /\ reader'.kept = reader.kept /\ reader'.stirred = reader.stirred
          /\ reader'.lists = reader.lists
      BY <1>1, <3>1, <3>2 DEF ReaderRec
    <3> QED
      BY <1>1, <2>1, <3>3 DEF Found, a
  <2>3. reader.form \in {"resolver", "single"}
    BY <1>1 DEF ReaderRec
  <2> QED
    BY <1>1, <1>5, <2>2, <2>3
<1> QED
  BY <1>2, <1>3, <1>4, <1>5

LEMMA JsonType ==
  ASSUME NEW d \in Disk
  PROVE  ReadJson(d) \in Parsed
<1>1. d.json \in JsonFile
  BY DEF Disk
<1>2. Said0 \in [Id -> Said]
  BY DEF Said0, Said
<1> QED
  BY <1>1, <1>2 DEF ReadJson, Parsed, JsonFile, Open

LEMMA JsonAnswers ==
  ASSUME NEW parsed \in Parsed, NEW i \in Id
  PROVE  ResolveJson(parsed, i) \in Answers
BY AnswersAre DEF ResolveJson

LEMMA ReadDoes ==
  ASSUME ReaderOK, DiskOK, ReadSource
  PROVE  /\ reader.at = JsonStep /\ reader.form = "resolver" /\ Held /\ reader' \in ReaderRec
         /\ reader'.form = reader.form /\ reader'.id = reader.id /\ reader'.source = reader.source
         /\ reader'.kept = reader.kept /\ reader'.stirred = reader.stirred
         /\ reader'.at = reader.at /\ reader'.json = ReadJson(disk)
         /\ reader'.answer = ResolveJson(ReadJson(disk), reader.id)
         /\ reader'.lists = reader.lists
         /\ reader'.answer \in Answers
<1>1. /\ At("json") /\ reader.at = 10 /\ reader.form = "resolver" /\ disk' = disk
      /\ reader \in ReaderRec /\ reader.id \in Id
  BY AtIs DEF ReadSource
<1>2. ReadJson(disk) \in Parsed /\ ResolveJson(ReadJson(disk), reader.id) \in Answers
  BY <1>1, JsonType, JsonAnswers DEF DiskOK
<1> DEFINE p == ReadJson(disk)
<1>3. reader' = [reader EXCEPT !.json = p, !.answer = ResolveJson(p, reader.id)] /\ truth' = truth
  BY DEF ReadSource
<1> HIDE DEF p
<1>4. p \in Parsed /\ ResolveJson(p, reader.id) \in Answers
  BY <1>2 DEF p
<1>5. /\ Held /\ reader' \in ReaderRec
      /\ reader'.form = reader.form /\ reader'.id = reader.id /\ reader'.source = reader.source
      /\ reader'.kept = reader.kept /\ reader'.stirred = reader.stirred
      /\ reader'.at = reader.at /\ reader'.json = p
      /\ reader'.answer = ResolveJson(p, reader.id)
      /\ reader'.lists = reader.lists
  BY <1>1, <1>3, <1>4 DEF Held, ReaderRec
<1> QED
  BY <1>1, <1>4, <1>5 DEF p, JsonStep

\* CheckPresent and Recheck.
LEMMA PresentDoes ==
  ASSUME ReaderOK, CheckPresent \/ Recheck
  PROVE  /\ \/ reader.at = 2 /\ reader.form = "resolver"
            \/ reader.at = IF reader.form = "resolver" THEN 8 ELSE 5
         /\ \/ IsPresent(disk, reader.source) = "yes" /\ Proceeded(reader)
            \/ /\ IsPresent(disk, reader.source) = "error" /\ Replied("unreadable")
            \/ /\ IsPresent(disk, reader.source) = "no" /\ Replied("unknown")
<1>1. /\ reader.answer = "none" /\ disk' = disk /\ reader \in ReaderRec /\ reader.at < 10
      /\ \/ reader.at = 2 /\ reader.form = "resolver"
         \/ reader.at = IF reader.form = "resolver" THEN 8 ELSE 5
  BY AtIs DEF CheckPresent, Recheck
<1>2. IF IsPresent(disk, reader.source) = "yes" THEN Proceed(reader)
      ELSE Reply(IF IsPresent(disk, reader.source) = "error" THEN "unreadable" ELSE "unknown")
  BY DEF CheckPresent, Recheck
<1>3. IsPresent(disk, reader.source) \in {"yes", "no", "error"}
  BY DEF IsPresent, Tell
<1> QED
  BY <1>1, <1>2, <1>3, ProceedDoes, ReplyDoes, AnswersAre

LEMMA CanaryDoes ==
  ASSUME ReaderOK, Canary
  PROVE  /\ reader.at = 3 /\ reader.form = "resolver"
         /\ \/ Inside(disk, reader.source) = "error" /\ Replied("unreadable")
            \/ Inside(disk, reader.source) # "error" /\ Proceeded(reader)
<1>1. /\ reader.at = 3 /\ reader.form = "resolver"
      /\ reader.answer = "none" /\ disk' = disk /\ reader \in ReaderRec
  BY AtIs DEF Canary
<1>2. IF Inside(disk, reader.source) = "error" THEN Reply("unreadable") ELSE Proceed(reader)
  BY DEF Canary
<1> QED
  BY <1>1, <1>2, ProceedDoes, ReplyDoes, AnswersAre

LEMMA DiscoverDoes ==
  ASSUME ReaderOK, Discover
  PROVE  /\ reader.at = IF reader.form = "resolver" THEN 4 ELSE 2
         /\ Held /\ reader' \in ReaderRec
         /\ reader'.form = reader.form /\ reader'.id = reader.id /\ reader'.source = reader.source
         /\ reader'.kept = reader.kept /\ reader'.stirred = reader.stirred
         /\ reader'.lists = reader.lists
         /\ reader'.at = reader.at + 1 /\ reader'.k = 1 /\ reader'.answer = "none"
         /\ reader'.blind = Undiscoverable(disk, reader.source)
         /\ reader'.names = UnrecognisedNames(disk, reader.source)
<1> DEFINE b == Undiscoverable(disk, reader.source)
           ns == UnrecognisedNames(disk, reader.source)
<1>1. /\ reader.at = IF reader.form = "resolver" THEN 4 ELSE 2
      /\ reader.answer = "none" /\ disk' = disk /\ reader \in ReaderRec
  BY AtIs DEF Discover
<1>2. b \in BOOLEAN /\ ns \in SUBSET Foreign
  BY DEF Undiscoverable, UnrecognisedNames, Open
<1>3. Proceed([reader EXCEPT !.blind = b, !.names = ns])
  BY DEF Discover
<1> HIDE DEF b, ns
<1> DEFINE r == [reader EXCEPT !.blind = b, !.names = ns]
<1>5. /\ r \in ReaderRec /\ r.at = reader.at /\ r.answer = "none" /\ r.form = reader.form
      /\ r.id = reader.id /\ r.source = reader.source /\ r.kept = reader.kept
      /\ r.stirred = reader.stirred /\ r.lists = reader.lists /\ r.blind = b /\ r.names = ns
  BY <1>1, <1>2 DEF ReaderRec
<1>6. Proceed(r) /\ r.at < 10
  BY <1>1, <1>3, <1>5
<1> HIDE DEF r
<1>7. Proceeded(r)
  BY <1>1, <1>5, <1>6, ProceedDoes
<1> QED
  BY <1>1, <1>5, <1>7 DEF Proceeded, Rest, b, ns

LEMMA ForeignersDo ==
  ASSUME ReaderOK, Foreigners
  PROVE  /\ reader.at = IF reader.form = "resolver" THEN 6 ELSE 3
         /\ \/ /\ reader.blind \/ ForeignMayName(disk, reader.source, reader.names, reader.id)
               /\ Replied("unreadable")
            \/ /\ ~reader.blind /\ ~ForeignMayName(disk, reader.source, reader.names, reader.id)
               /\ Proceeded(reader)
<1>1. /\ reader.at = IF reader.form = "resolver" THEN 6 ELSE 3
      /\ reader.answer = "none" /\ disk' = disk /\ reader \in ReaderRec
  BY AtIs DEF Foreigners
<1>2. IF reader.blind \/ ForeignMayName(disk, reader.source, reader.names, reader.id)
      THEN Reply("unreadable") ELSE Proceed(reader)
  BY DEF Foreigners
<1> QED
  BY <1>1, <1>2, ProceedDoes, ReplyDoes, AnswersAre

LEMMA NodeIs ==
  ASSUME NEW d, NEW n, NEW s, NEW i
  PROVE  /\ Inside(d, n) \in {"yes", "no", "error"}
         /\ NodeExists(d, n, s, i) \in {"yes", "no", "error"}
         /\ ListsTicket(d, n, s) \in {"yes", "no", "error"}
BY DEF Inside, NodeExists, ListsTicket, Tell

LEMMA WalkDoes ==
  ASSUME ReaderOK, Walk
  PROVE  /\ AtWalk /\ reader.k \in 1 .. 4
         /\ LET s == MARKER_PRECEDENCE[reader.k]
                told == NodeExists(disk, reader.source, s, reader.id)
            IN \/ told = "yes" /\ Replied(s)
               \/ told = "error" /\ Replied("unreadable")
               \/ told = "no" /\ reader.k < 4 /\ Nexted(reader)
               \/ told = "no" /\ reader.k = 4 /\ Proceeded(reader)
<1> DEFINE s == MARKER_PRECEDENCE[reader.k]
           told == NodeExists(disk, reader.source, s, reader.id)
<1>1. /\ AtWalk /\ reader.k \in 1 .. 4
      /\ reader.answer = "none" /\ disk' = disk /\ reader \in ReaderRec
  BY AtIs DEF Walk
<1>2. told \in {"yes", "no", "error"} /\ s \in Answers
  BY <1>1, NodeIs, MarkersAre, AnswersAre
<1>3. IF told = "yes" THEN Reply(s)
      ELSE IF told = "error" THEN Reply("unreadable")
      ELSE IF reader.k < 4 THEN Next1(reader) ELSE Proceed(reader)
  BY DEF Walk
<1> HIDE DEF s, told
<1>4. \/ told = "yes" /\ Replied(s)
      \/ told = "error" /\ Replied("unreadable")
      \/ told = "no" /\ reader.k < 4 /\ Nexted(reader)
      \/ told = "no" /\ reader.k = 4 /\ Proceeded(reader)
  BY <1>1, <1>2, <1>3, NextDoes, ProceedDoes, ReplyDoes, AnswersAre DEF AtWalk
<1> QED
  BY <1>1, <1>4 DEF s, told

\* A listing adds what it says to what the listings before it said.
Listing(v) ==
  /\ Held /\ reader' \in ReaderRec /\ reader'.answer = "none"
  /\ reader'.form = reader.form /\ reader'.id = reader.id /\ reader'.source = reader.source
  /\ reader'.blind = reader.blind /\ reader'.names = reader.names
  /\ reader'.kept = reader.kept /\ reader'.stirred = reader.stirred
  /\ reader'.lists = v

LEMMA ScanDoes ==
  ASSUME ReaderOK, Scan
  PROVE  /\ AtScan /\ reader.k \in 1 .. Len(Order(reader.names))
         /\ LET told == ListsTicket(disk, reader.source, Order(reader.names)[reader.k])
                v == IF told = "error" THEN "unclear" ELSE reader.lists
                On == reader'.at = reader.at + 1
            IN \/ reader.blind /\ Listing("unclear") /\ On
               \/ ~reader.blind /\ told = "yes" /\ Listing("yes") /\ On
               \/ /\ ~reader.blind /\ told # "yes" /\ reader.k < Len(Order(reader.names))
                  /\ Listing(v) /\ reader'.at = reader.at /\ reader'.k = reader.k + 1
               \/ /\ ~reader.blind /\ told # "yes" /\ reader.k = Len(Order(reader.names))
                  /\ Listing(v) /\ On
<1> DEFINE order == Order(reader.names)
           told == ListsTicket(disk, reader.source, order[reader.k])
           v == IF told = "error" THEN "unclear" ELSE reader.lists
<1>1. /\ AtScan /\ reader.k \in 1 .. Len(order)
      /\ reader.answer = "none" /\ disk' = disk /\ reader \in ReaderRec
  BY AtIs DEF Scan
<1>2. v \in {"yes", "no", "unclear"}
  BY <1>1 DEF ReaderRec
<1>3. IF reader.blind THEN Proceed([reader EXCEPT !.lists = "unclear"])
      ELSE IF told = "yes" THEN Proceed([reader EXCEPT !.lists = "yes"])
      ELSE IF reader.k < Len(order) THEN Next1([reader EXCEPT !.lists = v])
      ELSE Proceed([reader EXCEPT !.lists = v])
  BY <1>1 DEF Scan, Order, ReaderRec
<1>4. reader.at < 10
  BY <1>1 DEF AtScan
<1> HIDE DEF order, told, v
<1>5. ASSUME NEW w \in {"yes", "no", "unclear"}
      PROVE  /\ Proceed([reader EXCEPT !.lists = w]) => Listing(w) /\ reader'.at = reader.at + 1
             /\ Next1([reader EXCEPT !.lists = w]) =>
                  Listing(w) /\ reader'.at = reader.at /\ reader'.k = reader.k + 1
  <2> DEFINE r == [reader EXCEPT !.lists = w]
  <2>1. /\ r \in ReaderRec /\ r.at = reader.at /\ r.k = reader.k /\ r.answer = "none"
        /\ r.form = reader.form /\ r.id = reader.id /\ r.source = reader.source
        /\ r.blind = reader.blind /\ r.names = reader.names /\ r.lists = w
        /\ r.kept = reader.kept /\ r.stirred = reader.stirred
    BY <1>1 DEF ReaderRec
  <2> HIDE DEF r
  <2>2. (Proceed(r) => Proceeded(r)) /\ (Next1(r) => Nexted(r))
    BY <1>1, <1>4, <2>1, ProceedDoes, NextDoes
  <2>3. /\ Proceeded(r) => Listing(w) /\ reader'.at = reader.at + 1
        /\ Nexted(r) => Listing(w) /\ reader'.at = reader.at /\ reader'.k = reader.k + 1
    BY <2>1 DEF Proceeded, Nexted, Rest, Listing
  <2> QED
    BY <2>2, <2>3 DEF r
<1>6. reader.k < Len(order) \/ reader.k = Len(order)
  BY <1>1, OrderIs DEF order, ReaderRec
<1>7. \/ reader.blind /\ Listing("unclear") /\ reader'.at = reader.at + 1
      \/ ~reader.blind /\ told = "yes" /\ Listing("yes") /\ reader'.at = reader.at + 1
      \/ /\ ~reader.blind /\ told # "yes" /\ reader.k < Len(order)
         /\ Listing(v) /\ reader'.at = reader.at /\ reader'.k = reader.k + 1
      \/ /\ ~reader.blind /\ told # "yes" /\ reader.k = Len(order)
         /\ Listing(v) /\ reader'.at = reader.at + 1
  BY <1>2, <1>3, <1>5, <1>6
<1> QED
  BY <1>1, <1>7 DEF order, told, v

LEMMA ConcludeDoes ==
  ASSUME ReaderOK, Conclude
  PROVE  /\ reader.at = IF reader.form = "resolver" THEN 9 ELSE 7
         /\ Replied(Unmarked(reader.lists))
<1>1. /\ reader.at = IF reader.form = "resolver" THEN 9 ELSE 7
      /\ disk' = disk /\ Reply(Unmarked(reader.lists))
  BY AtIs DEF Conclude
<1>2. Unmarked(reader.lists) \in Answers
  BY AnswersAre DEF Unmarked
<1> QED
  BY <1>1, <1>2, ReplyDoes

LEMMA IdleIs ==
  /\ Idle \in ReaderRec /\ Idle.at = 0 /\ Idle.answer = "none" /\ Idle.source = NoSource
  /\ Idle.kept = TRUE /\ Idle.stirred = {} /\ Idle.form = "resolver" /\ Idle.k = 1
  /\ Idle.lists = "no"
<1>1. Unread \in Parsed
  BY DEF Unread, Parsed, Said0, Said
<1> QED
  BY <1>1, AnswersAre DEF Idle, ReaderRec, NoSource

LEMMA StartDoes ==
  ASSUME ReaderOK, NEW form \in Forms, NEW i \in Id, Start(form, i)
  PROVE  /\ reader = Idle /\ Held /\ reader' \in ReaderRec
         /\ reader'.at = 1 /\ reader'.k = 1 /\ reader'.id = i /\ reader'.answer = "none"
         /\ reader'.source = NoSource /\ reader'.kept = TRUE /\ reader'.stirred = {}
         /\ reader'.lists = "no"
<1>1. /\ reader = Idle /\ Held
      /\ reader' = [Idle EXCEPT !.form = form, !.at = 1, !.id = i, !.asks = 1]
  BY DEF Start, Held
<1>2. form \in {"resolver", "single"}
  BY ReadAssumption
<1>3. ASSUME NEW r \in ReaderRec, reader' = [r EXCEPT !.form = form, !.at = 1, !.id = i, !.asks = 1]
      PROVE  /\ reader' \in ReaderRec /\ reader'.at = 1 /\ reader'.k = r.k /\ reader'.id = i
             /\ reader'.answer = r.answer /\ reader'.source = r.source
             /\ reader'.kept = r.kept /\ reader'.stirred = r.stirred /\ reader'.lists = r.lists
  <2>1. 1 \in 0 .. 10 /\ 1 \in Nat /\ i \in Id \cup {Idle.id}
    OBVIOUS
  <2> QED
    BY <1>2, <1>3, <2>1 DEF ReaderRec
<1> QED
  BY <1>1, <1>3, IdleIs

LEMMA AskDoes ==
  ASSUME ReaderOK, NEW i \in Id, AskAgain(i)
  PROVE  /\ Told /\ reader.form = "resolver" /\ reader.at >= PerId
         /\ Held /\ reader' \in ReaderRec /\ reader'.id = i
         /\ reader'.form = reader.form /\ reader'.source = reader.source
         /\ reader'.json = reader.json /\ reader'.blind = reader.blind
         /\ reader'.names = reader.names /\ reader'.lists = reader.lists
         /\ reader'.kept = reader.kept /\ reader'.stirred = reader.stirred
         /\ \/ /\ reader.source = JSON /\ reader'.at = reader.at
               /\ reader'.answer = ResolveJson(reader.json, i)
            \/ /\ reader.source # JSON /\ reader'.at = PerId /\ reader'.k = 1
               /\ reader'.answer = "none"
<1>1. Told /\ reader.form = "resolver" /\ reader.at >= PerId /\ Held /\ reader \in ReaderRec
  BY DEF AskAgain, MayAsk, Held, ReaderOK
<1> DEFINE n == reader.asks + 1
           asked == [reader EXCEPT !.id = i, !.asks = n]
<1>7. n \in Nat /\ i \in Id \cup {Idle.id}
  BY <1>1 DEF ReaderRec
<1> HIDE DEF n
<1>2. /\ asked \in ReaderRec /\ asked.id = i /\ asked.form = reader.form
      /\ asked.source = reader.source /\ asked.json = reader.json
      /\ asked.blind = reader.blind /\ asked.names = reader.names
      /\ asked.lists = reader.lists /\ asked.at = reader.at
      /\ asked.kept = reader.kept /\ asked.stirred = reader.stirred
  BY <1>1, <1>7 DEF ReaderRec
<1>3. reader' = IF reader.source = JSON
                THEN [asked EXCEPT !.answer = ResolveJson(reader.json, i)]
                ELSE [asked EXCEPT !.at = PerId, !.k = 1, !.answer = "none"]
  BY <1>2 DEF AskAgain, n
<1>4. ResolveJson(reader.json, i) \in Answers
  BY <1>1, JsonAnswers DEF ReaderRec
<1> HIDE DEF asked
<1>5. CASE reader.source = JSON
  <2> DEFINE a == ResolveJson(reader.json, i)
  <2>1. reader' = [asked EXCEPT !.answer = a] /\ a \in Answers
    BY <1>3, <1>4, <1>5
  <2> HIDE DEF a
  <2>2. /\ reader' \in ReaderRec /\ reader'.id = asked.id /\ reader'.form = asked.form
        /\ reader'.source = asked.source /\ reader'.json = asked.json
        /\ reader'.blind = asked.blind /\ reader'.names = asked.names
        /\ reader'.lists = asked.lists /\ reader'.at = asked.at /\ reader'.answer = a
        /\ reader'.kept = asked.kept /\ reader'.stirred = asked.stirred
    BY <1>2, <2>1 DEF ReaderRec
  <2> QED
    BY <1>1, <1>2, <1>5, <2>2 DEF a
<1>6. CASE reader.source # JSON
  <2>1. reader' = [asked EXCEPT !.at = PerId, !.k = 1, !.answer = "none"]
    BY <1>3, <1>6
  <2>2. /\ reader' \in ReaderRec /\ reader'.id = asked.id /\ reader'.form = asked.form
        /\ reader'.source = asked.source /\ reader'.json = asked.json
        /\ reader'.blind = asked.blind /\ reader'.names = asked.names
        /\ reader'.lists = asked.lists /\ reader'.at = PerId /\ reader'.k = 1
        /\ reader'.answer = "none"
        /\ reader'.kept = asked.kept /\ reader'.stirred = asked.stirred
    <3>1. PerId \in 0 .. 10 /\ 1 \in Nat /\ "none" \in Answers \cup {"none"}
      BY DEF PerId
    <3> QED
      BY <1>2, <2>1, <3>1 DEF ReaderRec
  <2> QED
    BY <1>1, <1>2, <1>6, <2>2
<1> QED
  BY <1>5, <1>6

\* A change of the disk leaves the reader where it is; its histories move.
LEMMA DisturbDoes ==
  ASSUME ReaderOK, NEW d, NEW kept \in BOOLEAN, NEW ids \in SUBSET Id, Disturb(d, kept, ids)
  PROVE  /\ disk' = d
         /\ reader = Idle => reader' = reader
         /\ reader # Idle =>
              /\ reader' \in ReaderRec
              /\ reader'.kept = (reader.kept /\ kept)
              /\ reader'.stirred = reader.stirred \cup ids
         /\ reader'.form = reader.form /\ reader'.id = reader.id
         /\ reader'.source = reader.source /\ reader'.json = reader.json
         /\ reader'.blind = reader.blind /\ reader'.names = reader.names
         /\ reader'.lists = reader.lists /\ reader'.at = reader.at /\ reader'.k = reader.k
         /\ reader'.answer = reader.answer
         /\ truth' = IF reader.source = NoSource THEN truth
                     ELSE [i \in Id |-> truth[i] \cup {ResolveFrom(d, reader.source, i)}]
<1>1. /\ disk' = d /\ reader \in ReaderRec
      /\ truth' = IF reader.source = NoSource THEN truth
                  ELSE [i \in Id |-> truth[i] \cup {ResolveFrom(d, reader.source, i)}]
      /\ reader' = IF reader = Idle THEN reader
                   ELSE [reader EXCEPT !.kept = reader.kept /\ kept,
                                       !.stirred = reader.stirred \cup ids]
  BY DEF Disturb, ReaderOK
<1>2. CASE reader = Idle
  BY <1>1, <1>2
<1>3. CASE reader # Idle
  <2> DEFINE b == reader.kept /\ kept
             s == reader.stirred \cup ids
  <2>1. b \in BOOLEAN /\ s \in SUBSET Id
    BY <1>1 DEF ReaderRec
  <2>2. reader' = [reader EXCEPT !.kept = b, !.stirred = s]
    BY <1>1, <1>3
  <2> HIDE DEF b, s
  <2>3. /\ reader' \in ReaderRec /\ reader'.kept = b /\ reader'.stirred = s
        /\ reader'.form = reader.form /\ reader'.id = reader.id
        /\ reader'.source = reader.source /\ reader'.json = reader.json
        /\ reader'.blind = reader.blind /\ reader'.names = reader.names
        /\ reader'.lists = reader.lists /\ reader'.at = reader.at /\ reader'.k = reader.k
        /\ reader'.answer = reader.answer
    BY <1>1, <2>1, <2>2 DEF ReaderRec
  <2> QED
    BY <1>1, <1>3, <2>3 DEF b, s
<1> QED
  BY <1>2, <1>3

\* Every change of the disk is a disturbance, and what it is to the histories.
LEMMA ChangesDisturb ==
  /\ LosePermission => Disturb(disk', FALSE, {})
  /\ Factory =>
       \/ \E i \in Id : Disturb(disk', TRUE, {i})
       \/ Disturb(disk', TRUE, Id)
<1>1. \A d : Lose(d) => Disturb(disk', FALSE, {})
  BY DEF Lose, Disturb
<1>2. \A d, ids : Work(d, ids) => Disturb(disk', TRUE, ids)
  BY DEF Work, Disturb
<1> HIDE DEF Lose, Work
<1>3. LosePermission => Disturb(disk', FALSE, {})
  <2> SUFFICES ASSUME LosePermission  PROVE \E d : Lose(d)
    BY <1>1
  <2> QED
    BY DEF LosePermission, CloseParent, HideJson, RestrictDirectory, RestrictState
<1>4. ASSUME NEW n, NEW i \in Id, NEW s, NEW t, Move(n, i, s, t)
      PROVE  \E j \in Id : Disturb(disk', TRUE, {j})
  BY <1>2, <1>4 DEF Move
<1>5. ASSUME NEW n, Vanish(n) \/ Return(n)  PROVE Disturb(disk', TRUE, Id)
  BY <1>2, <1>5 DEF Vanish, Return
<1>6. ASSUME NEW i \in Id, NEW said, Report(i, said)
      PROVE  \E j \in Id : Disturb(disk', TRUE, {j})
  BY <1>2, <1>6 DEF Report
<1> QED
  BY <1>3, <1>4, <1>5, <1>6 DEF Factory

\* What ReaderOK comes to for a reader that is on its way.
LEMMA Placed ==
  ASSUME reader' \in ReaderRec, reader'.at \in 2 .. 10, reader'.id \in Id,
         reader'.form = "single" => reader'.at <= 7,
         reader'.source \in 1 .. 3, reader'.source = JSON <=> reader'.at = JsonStep,
         \/ reader'.answer # "none"
         \/ ~AtWalk' /\ ~AtScan'
         \/ ~AtScan' /\ reader'.k \in 1 .. 4
         \/ ~AtWalk' /\ reader'.k \in 1 .. Len(Order(reader'.names))
         \/ reader'.k = 1
  PROVE  ReaderOK'
<1>1. Len(Order(reader'.names)) \in Nat /\ Len(Order(reader'.names)) >= 4
  BY OrderIs DEF ReaderRec
<1>2. AtWalk' /\ ~Told' => reader'.k \in 1 .. 4
  BY <1>1 DEF Told
<1>3. AtScan' /\ ~Told' => reader'.k \in 1 .. Len(Order(reader'.names))
  BY <1>1 DEF Told
<1>4. reader' # Idle
  BY IdleIs
<1> QED
  BY <1>2, <1>3, <1>4 DEF ReaderOK

LEMMA ReaderStays ==
  ASSUME ReaderOK, DiskOK, Reader
  PROVE  ReaderOK'
<1> USE DEF JsonStep
<1>0. /\ reader \in ReaderRec /\ JSON = 1 /\ NoSource = 0
      /\ Idle.at = 0 /\ "none" \notin Answers
  BY IdleIs, AnswersAre DEF ReaderOK, JSON, NoSource
<1>1. ASSUME NEW form \in Forms, NEW i \in Id, Start(form, i)  PROVE ReaderOK'
  <2>1. /\ reader' \in ReaderRec /\ reader'.at = 1 /\ reader'.k = 1 /\ reader'.id = i
        /\ reader'.source = NoSource
    BY <1>1, StartDoes
  <2> QED
    BY <2>1, <1>0 DEF ReaderOK, AtScan, AtWalk
<1>2. CASE FindLocation
  <2>1. CASE Nexted(reader) /\ reader.at = 1 /\ reader.k \in 1 .. 2
    BY <2>1, <1>0 DEF ReaderOK, Nexted, Rest, AtScan, AtWalk
  <2>2. CASE Replied("unknown") /\ reader.at = 1
    BY <2>2, <1>0 DEF ReaderOK, Replied, Rest, AtScan, AtWalk, Told
  <2>3. CASE /\ reader.at = 1 /\ reader.k \in 1 .. 3 /\ Found(reader.k)
             /\ reader.k = JSON => reader.form = "resolver"
    BY <2>3, <1>0 DEF ReaderOK, Found, AtScan, AtWalk
  <2> QED
    BY <1>2, <2>1, <2>2, <2>3, FindDoes
<1>3. CASE ReadSource
  <2>1. /\ reader.at = 10 /\ reader' \in ReaderRec /\ reader'.form = reader.form
        /\ reader'.id = reader.id /\ reader'.source = reader.source /\ reader'.at = reader.at
    BY <1>3, ReadDoes
  <2> QED
    BY <2>1, <1>0 DEF ReaderOK, AtScan, AtWalk
<1>4. ASSUME NEW a, Replied(a), reader.at > 0  PROVE ReaderOK'
  BY <1>4, <1>0 DEF ReaderOK, Replied, Rest, AtScan, AtWalk, Told
\* A call that is over, and the next of its reader.
<1>5. ASSUME Proceeded(reader), reader.at \in 2 .. 9, reader.form = "single" => reader.at < 7,
             reader.form = "resolver" => reader.at < 9
      PROVE  ReaderOK'
  <2>2. /\ reader' \in ReaderRec /\ reader'.at = reader.at + 1 /\ reader'.k = 1
        /\ reader'.form = reader.form /\ reader'.id = reader.id /\ reader'.source = reader.source
    BY <1>5 DEF Proceeded, Rest
  <2>3. /\ reader.form = "single" => reader.at + 1 <= 7
        /\ reader.at \in 2 .. 8
    BY <1>5, <1>0 DEF ReaderRec
  <2> QED
    BY <1>0, <2>2, <2>3, Placed DEF ReaderOK
<1>6. CASE CheckPresent \/ Recheck
  <2>1. \/ Replied("unreadable") \/ Replied("unknown")
        \/ Proceeded(reader)
    BY <1>6, PresentDoes
  <2>2. reader.at \in 2 .. 8 /\ (reader.form = "single" => reader.at = 5)
    BY <1>6, <1>0, PresentDoes DEF ReaderRec
  <2> QED
    BY <2>1, <2>2, <1>4, <1>5
<1>7. CASE Canary \/ Foreigners
  <2>1. Replied("unreadable") \/ Proceeded(reader)
    BY <1>7, CanaryDoes, ForeignersDo
  <2>2. reader.at \in 3 .. 6 /\ (reader.form = "single" => reader.at = 3)
    BY <1>7, <1>0, CanaryDoes, ForeignersDo DEF ReaderRec
  <2> QED
    BY <2>1, <2>2, <1>4, <1>5
<1>8. CASE Discover
  <2>1. /\ reader.at = IF reader.form = "resolver" THEN 4 ELSE 2
        /\ reader' \in ReaderRec /\ reader'.form = reader.form /\ reader'.id = reader.id
        /\ reader'.source = reader.source /\ reader'.at = reader.at + 1 /\ reader'.k = 1
    BY <1>8, DiscoverDoes
  <2>2. Len(Order(reader'.names)) >= 4 /\ Len(Order(reader'.names)) \in Nat
    BY <2>1, OrderIs DEF ReaderRec
  <2> QED
    BY <2>1, <2>2, <1>0 DEF ReaderOK, AtScan, AtWalk
<1>9. CASE Walk
  <2>1. AtWalk /\ reader.k \in 1 .. 4 /\ reader.at \in {4, 7}
    BY <1>9, WalkDoes DEF AtWalk
  <2>2. CASE Nexted(reader) /\ reader.k < 4
    BY <2>1, <2>2, <1>0 DEF ReaderOK, Nexted, Rest, AtScan, AtWalk
  <2>3. (\E a : Replied(a)) \/ (Nexted(reader) /\ reader.k < 4) \/ Proceeded(reader)
    BY <1>9, WalkDoes
  <2>4. reader.at > 0 /\ reader.at \in 2 .. 9 /\ (reader.form = "single" => reader.at = 4)
        /\ (reader.form = "resolver" => reader.at = 7)
    BY <2>1 DEF AtWalk
  <2> QED
    BY <2>2, <2>3, <2>4, <1>4, <1>5
<1>10. CASE Scan
  <2> DEFINE n == Len(Order(reader.names))
  <2>1. /\ reader.at = (IF reader.form = "resolver" THEN 5 ELSE 6) /\ reader.k \in 1 .. n
        /\ reader' \in ReaderRec /\ reader'.form = reader.form /\ reader'.id = reader.id
        /\ reader'.source = reader.source /\ reader'.names = reader.names
        /\ \/ reader'.at = reader.at + 1
           \/ reader'.at = reader.at /\ reader'.k = reader.k + 1 /\ reader.k < n
    BY <1>10, ScanDoes DEF Listing, AtScan
  <2>2. n \in Nat
    BY <1>0, OrderIs DEF ReaderRec
  <2>3. Len(Order(reader'.names)) = n
    BY <2>1
  <2>4. reader.form \in {"resolver", "single"}
    BY <1>0 DEF ReaderRec
  <2> HIDE DEF n
  <2>7. /\ reader.at \in {5, 6} /\ reader.id \in Id /\ reader.source \in 2 .. 3
        /\ reader'.at = 6 => reader'.form = "resolver" \/ reader.at = reader'.at
        /\ reader'.at = 7 => reader'.form = "single"
    BY <2>1, <2>4, <1>0 DEF ReaderOK
  <2>5. CASE reader'.at = reader.at + 1
    <3>1. ~AtScan' /\ ~AtWalk' /\ reader'.at \in 6 .. 7
      BY <2>4, <2>5, <2>7, <2>1 DEF AtScan, AtWalk
    <3> QED
      BY <2>1, <2>5, <2>7, <3>1, <1>0, Placed
  <2>6. CASE reader'.at = reader.at /\ reader'.k = reader.k + 1 /\ reader.k < n
    <3>1. reader'.k \in 1 .. n
      BY <2>1, <2>2, <2>6
    <3>2. ~AtWalk' /\ reader'.at \in 5 .. 6
      BY <2>4, <2>6, <2>7, <2>1 DEF AtWalk
    <3>3. reader'.k \in 1 .. Len(Order(reader'.names))
      BY <2>3, <3>1
    <3>4. /\ reader' \in ReaderRec /\ reader'.form = reader.form /\ reader'.id \in Id
          /\ reader'.source \in 2 .. 3
      BY <2>1, <2>7, <3>2
    <3> QED
      BY <3>2, <3>3, <3>4, <1>0, Placed
  <2> QED
    BY <2>1, <2>5, <2>6
<1>11. CASE Conclude
  <2>1. Replied(Unmarked(reader.lists)) /\ reader.at \in {7, 9}
    BY <1>11, ConcludeDoes
  <2> QED
    BY <2>1, <1>4
<1>12. ASSUME NEW i \in Id, AskAgain(i)  PROVE ReaderOK'
  <2>1. /\ reader.form = "resolver" /\ reader.at >= 6 /\ reader' \in ReaderRec /\ reader'.id = i
        /\ reader'.form = reader.form /\ reader'.source = reader.source
        /\ \/ reader.source = JSON /\ reader'.at = reader.at
           \/ reader.source # JSON /\ reader'.at = 6
    BY <1>12, AskDoes DEF PerId
  <2>2. reader'.at \in {6, 10} /\ ~AtWalk' /\ ~AtScan'
        /\ (reader.source = JSON <=> reader.at = 10) /\ reader.source \in 1 .. 3
    BY <2>1, <1>0 DEF ReaderOK, AtScan, AtWalk, ReaderRec
  <2> QED
    BY <2>1, <2>2, <1>0, Placed
<1> QED
  BY <1>1, <1>2, <1>3, <1>6, <1>7, <1>8, <1>9, <1>10, <1>11, <1>12 DEF Reader

LEMMA DisturbStays ==
  ASSUME ReaderOK, NEW d, NEW kept \in BOOLEAN, NEW ids \in SUBSET Id, Disturb(d, kept, ids)
  PROVE  ReaderOK'
<1>1. CASE reader = Idle
  <2>1. reader' = reader
    BY <1>1, DisturbDoes
  <2> QED
    BY <2>1 DEF ReaderOK, AtScan, AtWalk, Told
<1>2. CASE reader # Idle
  <2>1. /\ reader' \in ReaderRec
        /\ reader'.form = reader.form /\ reader'.id = reader.id
        /\ reader'.source = reader.source /\ reader'.names = reader.names
        /\ reader'.at = reader.at /\ reader'.k = reader.k /\ reader'.answer = reader.answer
    BY <1>2, DisturbDoes
  <2>2. reader.at # 0 /\ Idle.at = 0
    BY <1>2, IdleIs DEF ReaderOK
  <2> QED
    BY <2>1, <2>2 DEF ReaderOK, AtScan, AtWalk, Told
<1> QED
  BY <1>1, <1>2

LEMMA ReaderStep == ReaderOK /\ DiskOK /\ [Next]_vars => ReaderOK'
<1> SUFFICES ASSUME ReaderOK, DiskOK, [Next]_vars  PROVE ReaderOK'
  OBVIOUS
<1>1. CASE Reader
  BY <1>1, ReaderStays
<1>2. CASE LosePermission
  BY <1>2, ChangesDisturb, DisturbStays
<1>3. CASE Factory
  BY <1>3, ChangesDisturb, DisturbStays
<1>4. CASE UNCHANGED vars
  BY <1>4 DEF vars, ReaderOK, AtScan, AtWalk, Told
<1> QED
  BY <1>1, <1>2, <1>3, <1>4 DEF Next

-----------------------------------------------------------------------------
\* What the resolution says of a directory, from the first call that decides it.

LEMMA RefusedIs ==
  ASSUME NEW d, NEW n \in DIRECTORIES, NEW i, IsPresent(d, n) # "no",
         \/ IsPresent(d, n) = "error" \/ Inside(d, n) = "error" \/ Undiscoverable(d, n)
         \/ ForeignMayName(d, n, UnrecognisedNames(d, n), i)
  PROVE  ResolveFrom(d, n, i) = "unreadable"
<1>1. ResolveFrom(d, n, i) = ResolveDirectory(d, n, i)
  BY DEF ResolveFrom, DIRECTORIES, NoSource, JSON
<1>2. IsPresent(d, n) = "error" => Inside(d, n) = "error"
  BY DEF IsPresent, Inside, Tell
<1> QED
  BY <1>1, <1>2 DEF ResolveDirectory

\* The first state that does not say "no".
LEMMA StopIs ==
  ASSUME NEW d, NEW n, NEW i, NEW k \in 1 .. 4,
         \A j \in 1 .. k - 1 : NodeExists(d, n, MARKER_PRECEDENCE[j], i) = "no",
         NodeExists(d, n, MARKER_PRECEDENCE[k], i) # "no"
  PROVE  MarkerState(d, n, i) = IF NodeExists(d, n, MARKER_PRECEDENCE[k], i) = "yes"
                                THEN MARKER_PRECEDENCE[k] ELSE "unreadable"
<1> DEFINE Says(j) == NodeExists(d, n, MARKER_PRECEDENCE[j], i)
           stops == {j \in 1 .. 4 : Says(j) # "no"}
<1>1. k \in stops /\ \A j \in stops : k =< j
  OBVIOUS
<1>2. Min(stops) = k
  <2>1. stops \in SUBSET (1 .. 4) /\ stops # {}
    BY <1>1
  <2>2. Min(stops) \in stops /\ \A j \in stops : Min(stops) =< j
    BY <2>1, MinOfPositions
  <2>3. Min(stops) \in 1 .. 4 /\ Min(stops) =< k /\ k =< Min(stops)
    BY <1>1, <2>2
  <2> HIDE DEF stops, Min
  <2> QED
    BY <2>3
<1> QED
  BY <1>1, <1>2 DEF MarkerState

LEMMA MarkedIs ==
  ASSUME NEW d, NEW n \in DIRECTORIES, NEW i, NEW k \in 1 .. 4,
         IsPresent(d, n) # "no", ~Undiscoverable(d, n),
         ~ForeignMayName(d, n, UnrecognisedNames(d, n), i),
         \A j \in 1 .. k - 1 : NodeExists(d, n, MARKER_PRECEDENCE[j], i) = "no",
         NodeExists(d, n, MARKER_PRECEDENCE[k], i) # "no"
  PROVE  ResolveFrom(d, n, i) = IF NodeExists(d, n, MARKER_PRECEDENCE[k], i) = "yes"
                                THEN MARKER_PRECEDENCE[k] ELSE "unreadable"
<1>1. ResolveFrom(d, n, i) = ResolveDirectory(d, n, i)
  BY DEF ResolveFrom, DIRECTORIES, NoSource, JSON
<1>2. MarkerState(d, n, i) = IF NodeExists(d, n, MARKER_PRECEDENCE[k], i) = "yes"
                             THEN MARKER_PRECEDENCE[k] ELSE "unreadable"
  BY StopIs
<1>3. MARKER_PRECEDENCE[k] # "none"
  BY MarkersAre DEF Known
<1>4. Inside(d, n) = "error" => NodeExists(d, n, MARKER_PRECEDENCE[k], i) # "yes"
  BY DEF NodeExists
<1> QED
  BY <1>1, <1>2, <1>3, <1>4 DEF ResolveDirectory

LEMMA UnmarkedIs ==
  ASSUME NEW d, NEW n \in DIRECTORIES, NEW i,
         IsPresent(d, n) # "no", ~Undiscoverable(d, n),
         ~ForeignMayName(d, n, UnrecognisedNames(d, n), i),
         \A j \in 1 .. 4 : NodeExists(d, n, MARKER_PRECEDENCE[j], i) = "no"
  PROVE  ResolveFrom(d, n, i) = Unmarked(ListsAnyTicket(d, n, UnrecognisedNames(d, n)))
<1>1. ResolveFrom(d, n, i) = ResolveDirectory(d, n, i)
  BY DEF ResolveFrom, DIRECTORIES, NoSource, JSON
<1>2. MarkerState(d, n, i) = "none"
  <2> DEFINE stops == {j \in 1 .. 4 : NodeExists(d, n, MARKER_PRECEDENCE[j], i) # "no"}
  <2>1. stops = {}
    OBVIOUS
  <2>2. MarkerState(d, n, i) = IF stops = {} THEN "none"
                               ELSE LET s == MARKER_PRECEDENCE[Min(stops)]
                                    IN IF NodeExists(d, n, s, i) = "yes" THEN s ELSE "unreadable"
    BY DEF MarkerState
  <2> QED
    BY <2>1, <2>2
<1>3. Inside(d, n) # "error"
  <2>1. NodeExists(d, n, MARKER_PRECEDENCE[1], i) = "no"
    OBVIOUS
  <2> QED
    BY <2>1 DEF NodeExists
<1> QED
  BY <1>1, <1>2, <1>3 DEF ResolveDirectory

\* Listing in order comes to the same as asking all of them.
LEMMA ListsIs ==
  ASSUME NEW d, NEW n, NEW names \in SUBSET Foreign, ~Undiscoverable(d, n)
  PROVE  LET Lists(k) == ListsTicket(d, n, Order(names)[k])
             all == 1 .. Len(Order(names))
         IN /\ (\E k \in all : Lists(k) = "yes") => ListsAnyTicket(d, n, names) = "yes"
            /\ (\A k \in all : Lists(k) = "no") => ListsAnyTicket(d, n, names) = "no"
            /\ (\A k \in all : Lists(k) # "yes") /\ (\E k \in all : Lists(k) = "error")
                 => ListsAnyTicket(d, n, names) = "unclear"
<1> DEFINE Lists(k) == ListsTicket(d, n, Order(names)[k])
           all == 1 .. Len(Order(names))
<1>1. \A k \in all : Order(names)[k] \in Known \cup names
  BY OrderIs
<1>2. \A s \in Known \cup names : \E k \in all : Order(names)[k] = s
  BY OrderIs
<1>3. ASSUME NEW v
      PROVE  (\E s \in Known \cup names : ListsTicket(d, n, s) = v) <=> (\E k \in all : Lists(k) = v)
  BY <1>1, <1>2
<1>4. ListsAnyTicket(d, n, names) =
        IF \E s \in Known \cup names : ListsTicket(d, n, s) = "yes" THEN "yes"
        ELSE IF \E s \in Known \cup names : ListsTicket(d, n, s) = "error" THEN "unclear"
        ELSE "no"
  BY DEF ListsAnyTicket
<1>5. ListsAnyTicket(d, n, names) =
        IF \E k \in all : Lists(k) = "yes" THEN "yes"
        ELSE IF \E k \in all : Lists(k) = "error" THEN "unclear"
        ELSE "no"
  BY <1>3, <1>4
<1> HIDE DEF Lists, all
<1>6. /\ (\E k \in all : Lists(k) = "yes") => ListsAnyTicket(d, n, names) = "yes"
      /\ (\A k \in all : Lists(k) = "no") => ListsAnyTicket(d, n, names) = "no"
      /\ (\A k \in all : Lists(k) # "yes") /\ (\E k \in all : Lists(k) = "error")
           => ListsAnyTicket(d, n, names) = "unclear"
  BY <1>5
<1> QED
  BY <1>6 DEF Lists, all

-----------------------------------------------------------------------------
\* What a read has learned, against the disk d on which it found its source.

\* What it was told is what d says, or a failure that came with a lost permission.
Same(told, says, failed) == told = says \/ (told = failed /\ ~reader.kept)

Beneath(d) ==
  /\ Degraded(disk, d)
  /\ reader.kept => d = disk
  /\ \A i \in Id : ResolveFrom(d, reader.source, i) \in truth[i]

LearnedSource(d) ==
  /\ IsPresent(d, reader.source) # "no"
  /\ reader.kept => FindSource(d) = reader.source
LearnedJson(d) ==
  reader.at = JsonStep /\ Told =>
    reader.json = ReadJson(d) \/ (reader.json.unreadable /\ ~reader.kept)
LearnedNames(d) ==
  Discovered => IF reader.blind THEN reader.kept => Undiscoverable(d, reader.source)
                ELSE /\ ~Undiscoverable(d, reader.source)
                     /\ reader.names = UnrecognisedNames(d, reader.source)
LearnedLists(d) ==
  LET Lists(j) == ListsTicket(d, reader.source, Order(reader.names)[j])
      listed == 1 .. reader.k - 1
  IN /\ ~Scanned /\ ~AtScan => reader.lists = "no"
     /\ AtScan =>
          /\ reader.lists \in {"no", "unclear"}
          /\ reader.lists = "no" => \A j \in listed : Lists(j) = "no"
          /\ reader.kept => \A j \in listed : Lists(j) # "yes"
          /\ reader.kept /\ reader.lists = "unclear" => \E j \in listed : Lists(j) = "error"
     /\ Scanned => Same(reader.lists, ListsAnyTicket(d, reader.source, reader.names), "unclear")
LearnedForeign(d) ==
  Cleared => ~reader.blind /\ ~ForeignMayName(d, reader.source, reader.names, reader.id)
LearnedMarkers(d) ==
  LET Node(j) == NodeExists(d, reader.source, MARKER_PRECEDENCE[j], reader.id)
  IN /\ AtWalk => \A j \in 1 .. reader.k - 1 : Node(j) = "no"
     /\ Walked => \A j \in 1 .. 4 : Node(j) = "no"
LearnedAnswer(d) ==
  Told => Same(reader.answer, ResolveFrom(d, reader.source, reader.id), "unreadable")

Learned(d) ==
  /\ LearnedSource(d) /\ LearnedJson(d) /\ LearnedNames(d) /\ LearnedLists(d)
  /\ LearnedForeign(d) /\ LearnedMarkers(d) /\ LearnedAnswer(d)


LEMMA CallsTell ==
  ASSUME ReaderOK, reader.source # NoSource, NEW d, Beneath(d)
  PROVE  /\ reader.source \in 1 .. 3
         /\ Same(IsPresent(disk, reader.source), IsPresent(d, reader.source), "error")
         /\ Same(Inside(disk, reader.source), Inside(d, reader.source), "error")
              \/ reader.source = JSON
         /\ reader.source # JSON =>
              /\ \A s \in States :
                   /\ \A i : Same(NodeExists(disk, reader.source, s, i),
                                  NodeExists(d, reader.source, s, i), "error")
                   /\ Same(ListsTicket(disk, reader.source, s),
                           ListsTicket(d, reader.source, s), "error")
              /\ IF Undiscoverable(disk, reader.source)
                 THEN reader.kept => Undiscoverable(d, reader.source)
                 ELSE /\ ~Undiscoverable(d, reader.source)
                      /\ UnrecognisedNames(disk, reader.source) = UnrecognisedNames(d, reader.source)
<1>1. reader.source \in 1 .. 3 /\ (reader.source # JSON => reader.source \in DIRECTORIES)
  BY DEF ReaderOK, ReaderRec, NoSource, JSON, DIRECTORIES
<1>2. Degraded(disk, d) /\ (reader.kept => d = disk)
  BY DEF Beneath
<1>3. ASSUME NEW a, NEW b, Less(a, b), reader.kept => a = b
      PROVE  Same(a, b, "error")
  BY <1>3 DEF Less, Same
<1>4. Same(IsPresent(disk, reader.source), IsPresent(d, reader.source), "error")
  BY <1>1, <1>2, <1>3, PresentLess
<1>5. CASE reader.source = JSON
  BY <1>1, <1>4, <1>5
<1>6. CASE reader.source \in DIRECTORIES
  <2>1. Same(Inside(disk, reader.source), Inside(d, reader.source), "error")
    BY <1>2, <1>3, <1>6, InsideLess
  <2>2. ASSUME NEW s \in States
        PROVE  /\ \A i : Same(NodeExists(disk, reader.source, s, i),
                              NodeExists(d, reader.source, s, i), "error")
               /\ Same(ListsTicket(disk, reader.source, s),
                       ListsTicket(d, reader.source, s), "error")
    BY <1>2, <1>3, <1>6, NodeLess
  <2>3. IF Undiscoverable(disk, reader.source)
        THEN reader.kept => Undiscoverable(d, reader.source)
        ELSE /\ ~Undiscoverable(d, reader.source)
             /\ UnrecognisedNames(disk, reader.source) = UnrecognisedNames(d, reader.source)
    BY <1>2, <1>6, ListingLess
  <2> QED
    BY <1>1, <1>4, <2>1, <2>2, <2>3
<1> QED
  BY <1>1, <1>5, <1>6

\* An answer ends the calls and leaves what was learned.
LEMMA LearnedReply ==
  ASSUME ReaderOK, NEW d, Learned(d), NEW a, Replied(a), reader.at > 1, reader.at # JsonStep,
         Same(a, ResolveFrom(d, reader.source, reader.id), "unreadable")
  PROVE  Learned(d)'
<1>1. /\ reader'.form = reader.form /\ reader'.id = reader.id /\ reader'.source = reader.source
      /\ reader'.blind = reader.blind /\ reader'.names = reader.names
      /\ reader'.lists = reader.lists /\ reader'.kept = reader.kept
      /\ reader'.at = reader.at /\ reader'.k = reader.k /\ reader'.answer = a
  BY DEF Replied, Rest
<1>2. LearnedSource(d)' /\ LearnedJson(d)' /\ LearnedNames(d)' /\ LearnedForeign(d)'
  BY <1>1 DEF Learned, LearnedSource, LearnedJson, LearnedNames, LearnedForeign,
     Discovered, Cleared
<1>3. LearnedLists(d)'
  BY <1>1 DEF Learned, LearnedLists, AtScan, Scanned, Same
<1>4. LearnedMarkers(d)'
  BY <1>1 DEF Learned, LearnedMarkers, AtWalk, Walked
<1>5. LearnedAnswer(d)'
  BY <1>1 DEF LearnedAnswer, Same
<1> QED
  BY <1>2, <1>3, <1>4, <1>5 DEF Learned

\* A call that let the reader go on, and what it added.
LEMMA LearnedProceed ==
  ASSUME ReaderOK, NEW d, Learned(d), Proceeded(reader), reader.at > 1, reader.at # JsonStep,
         reader.at # (IF reader.form = "resolver" THEN 4 ELSE 2), ~AtScan,
         reader.at < (IF reader.form = "resolver" THEN 9 ELSE 7),
         reader.at = (IF reader.form = "resolver" THEN 6 ELSE 3) =>
           ~reader.blind /\ ~ForeignMayName(d, reader.source, reader.names, reader.id),
         AtWalk => \A j \in 1 .. 4 :
           NodeExists(d, reader.source, MARKER_PRECEDENCE[j], reader.id) = "no"
  PROVE  Learned(d)'
<1>1. /\ reader'.form = reader.form /\ reader'.id = reader.id /\ reader'.source = reader.source
      /\ reader'.blind = reader.blind /\ reader'.names = reader.names
      /\ reader'.lists = reader.lists /\ reader'.kept = reader.kept
      /\ reader'.at = reader.at + 1 /\ reader'.k = 1 /\ reader'.answer = "none"
      /\ reader.at \in 2 .. 8 /\ reader.form \in {"resolver", "single"}
  BY DEF Proceeded, Rest, ReaderOK, ReaderRec
<1>2. /\ reader.at # 10 /\ reader'.at # 10
      /\ Discovered' <=> Discovered
      /\ Scanned' <=> Scanned
      /\ AtScan' => ~Scanned /\ ~AtScan
      /\ Cleared' => Cleared \/ reader.at = (IF reader.form = "resolver" THEN 6 ELSE 3)
      /\ Walked' => Walked \/ AtWalk
      /\ ~AtWalk' \/ ~AtWalk
  BY <1>1 DEF Discovered, Scanned, Cleared, Walked, AtScan, AtWalk, JsonStep
<1>3. LearnedSource(d)' /\ LearnedJson(d)' /\ LearnedAnswer(d)'
  BY <1>1 DEF Learned, LearnedSource, LearnedJson, LearnedAnswer, Told
<1>4. LearnedNames(d)'
  BY <1>1, <1>2 DEF Learned, LearnedNames
<1>5. LearnedForeign(d)'
  BY <1>1, <1>2 DEF Learned, LearnedForeign
<1>6. LearnedLists(d)'
  <2>1. ~(Scanned \/ AtScan) => reader.lists = "no"
    BY DEF Learned, LearnedLists
  <2>2. Scanned => Same(reader.lists, ListsAnyTicket(d, reader.source, reader.names), "unclear")
    BY DEF Learned, LearnedLists
  <2>3. 1 .. reader'.k - 1 = {}
    BY <1>1
  <2> QED
    BY <1>1, <1>2, <2>1, <2>2, <2>3 DEF LearnedLists, Same
<1>7. LearnedMarkers(d)'
  <2>1. Walked => \A j \in 1 .. 4 :
                    NodeExists(d, reader.source, MARKER_PRECEDENCE[j], reader.id) = "no"
    BY DEF Learned, LearnedMarkers
  <2>2. 1 .. reader'.k - 1 = {}
    BY <1>1
  <2> QED
    BY <1>1, <1>2, <2>1, <2>2 DEF LearnedMarkers
<1> QED
  BY <1>3, <1>4, <1>5, <1>6, <1>7 DEF Learned

\* The calls of the reader against the disk d: each learns what d says.
LEMMA LearnedPresent ==
  ASSUME ReaderOK, reader.source # NoSource, NEW d, Beneath(d), Learned(d), CheckPresent \/ Recheck
  PROVE  Learned(d)'
<1> DEFINE n == reader.source
<1>1. n \in DIRECTORIES /\ n \in 1 .. 3 /\ n # JSON /\ reader.at > 1 /\ reader.at # JsonStep
  BY PresentDoes, SourceIs DEF JsonStep, ReaderOK
<1>2. IsPresent(d, n) # "no" /\ Same(IsPresent(disk, n), IsPresent(d, n), "error")
  BY CallsTell DEF Learned, LearnedSource
<1>3. CASE IsPresent(disk, n) = "yes" /\ Proceeded(reader)
  <2>1. /\ reader.at # (IF reader.form = "resolver" THEN 4 ELSE 2) /\ ~AtScan /\ ~AtWalk
        /\ reader.at < (IF reader.form = "resolver" THEN 9 ELSE 7)
        /\ reader.at # (IF reader.form = "resolver" THEN 6 ELSE 3)
    BY PresentDoes DEF AtScan, AtWalk
  <2> QED
    BY <1>1, <1>3, <2>1, LearnedProceed
<1>4. CASE IsPresent(disk, n) = "error" /\ Replied("unreadable")
  <2>1. reader.kept => ResolveFrom(d, n, reader.id) = "unreadable"
    BY <1>1, <1>2, <1>4, RefusedIs DEF Same
  <2>2. Same("unreadable", ResolveFrom(d, n, reader.id), "unreadable")
    BY <2>1 DEF Same
  <2> QED
    BY <1>1, <1>4, <2>2, LearnedReply
<1>5. IsPresent(disk, n) # "no"
  BY <1>2 DEF Same
<1> QED
  BY <1>3, <1>4, <1>5, PresentDoes

LEMMA LearnedCanary ==
  ASSUME ReaderOK, reader.source # NoSource, NEW d, Beneath(d), Learned(d), Canary
  PROVE  Learned(d)'
<1> DEFINE n == reader.source
<1>1. n \in DIRECTORIES /\ n # JSON /\ reader.at = 3 /\ reader.form = "resolver"
  BY CanaryDoes, SourceIs DEF JsonStep, ReaderOK, JSON
<1>2. IsPresent(d, n) # "no" /\ Same(Inside(disk, n), Inside(d, n), "error")
  BY <1>1, CallsTell DEF Learned, LearnedSource
<1>3. CASE Proceeded(reader)
  BY <1>1, <1>3, LearnedProceed DEF AtScan, AtWalk, JsonStep
<1>4. CASE Inside(disk, n) = "error" /\ Replied("unreadable")
  <2>1. reader.kept => ResolveFrom(d, n, reader.id) = "unreadable"
    BY <1>1, <1>2, <1>4, RefusedIs DEF Same
  <2>2. Same("unreadable", ResolveFrom(d, n, reader.id), "unreadable")
    BY <2>1 DEF Same
  <2> QED
    BY <1>1, <1>4, <2>2, LearnedReply DEF JsonStep
<1> QED
  BY <1>3, <1>4, CanaryDoes

LEMMA LearnedForeigners ==
  ASSUME ReaderOK, reader.source # NoSource, NEW d, Beneath(d), Learned(d), Foreigners
  PROVE  Learned(d)'
<1> DEFINE n == reader.source
<1>1. /\ n \in DIRECTORIES /\ n # JSON
      /\ reader.at = (IF reader.form = "resolver" THEN 6 ELSE 3) /\ reader.names \subseteq Foreign
  BY ForeignersDo, SourceIs DEF JsonStep, ReaderOK, JSON, ReaderRec
<1>2. IsPresent(d, n) # "no" /\ Discovered
  BY <1>1 DEF Learned, LearnedSource, Discovered, JsonStep
<1>3. \A s \in reader.names :
        Same(NodeExists(disk, n, s, reader.id), NodeExists(d, n, s, reader.id), "error")
  BY <1>1, CallsTell DEF States
<1>4. CASE /\ ~reader.blind /\ ~ForeignMayName(disk, n, reader.names, reader.id)
           /\ Proceeded(reader)
  <2>1. ~ForeignMayName(d, n, reader.names, reader.id)
    BY <1>3, <1>4 DEF ForeignMayName, Same
  <2>2. /\ reader.at > 1 /\ reader.at # JsonStep /\ ~AtScan /\ ~AtWalk
        /\ reader.at # (IF reader.form = "resolver" THEN 4 ELSE 2)
        /\ reader.at < (IF reader.form = "resolver" THEN 9 ELSE 7)
    BY <1>1 DEF AtScan, AtWalk, JsonStep
  <2> QED
    BY <1>4, <2>1, <2>2, LearnedProceed
<1>5. CASE /\ reader.blind \/ ForeignMayName(disk, n, reader.names, reader.id)
           /\ Replied("unreadable")
  <2>1. ASSUME reader.kept  PROVE ResolveFrom(d, n, reader.id) = "unreadable"
    <3>1. CASE reader.blind
      BY <1>1, <1>2, <2>1, <3>1, RefusedIs DEF Learned, LearnedNames
    <3>2. CASE ~reader.blind
      <4>1. reader.names = UnrecognisedNames(d, n)
        BY <1>2, <3>2 DEF Learned, LearnedNames
      <4>2. ForeignMayName(d, n, reader.names, reader.id)
        BY <1>3, <1>5, <2>1, <3>2 DEF ForeignMayName, Same
      <4> QED
        BY <1>1, <1>2, <4>1, <4>2, RefusedIs
    <3> QED
      BY <3>1, <3>2
  <2>2. Same("unreadable", ResolveFrom(d, n, reader.id), "unreadable")
    BY <2>1 DEF Same
  <2>3. reader.at > 1 /\ reader.at # JsonStep
    BY <1>1 DEF JsonStep
  <2> QED
    BY <1>5, <2>2, <2>3, LearnedReply
<1> QED
  BY <1>4, <1>5, ForeignersDo

LEMMA LearnedDiscover ==
  ASSUME ReaderOK, reader.source # NoSource, NEW d, Beneath(d), Learned(d), Discover
  PROVE  Learned(d)'
<1> DEFINE n == reader.source
<1>1. /\ reader.at = (IF reader.form = "resolver" THEN 4 ELSE 2)
      /\ reader'.form = reader.form /\ reader'.id = reader.id /\ reader'.source = n
      /\ reader'.kept = reader.kept /\ reader'.lists = reader.lists
      /\ reader'.at = reader.at + 1 /\ reader'.k = 1 /\ reader'.answer = "none"
      /\ reader'.blind = Undiscoverable(disk, n) /\ reader'.names = UnrecognisedNames(disk, n)
  BY DiscoverDoes
<1>2. n # JSON /\ reader.at # JsonStep
  BY <1>1 DEF ReaderOK, JsonStep
<1>3. /\ ~Scanned /\ ~AtScan /\ ~Scanned' /\ ~Cleared' /\ ~Walked' /\ ~AtWalk' /\ reader'.at # JsonStep
  BY <1>1 DEF Scanned, AtScan, Cleared, Walked, AtWalk, JsonStep
<1>4. LearnedSource(d)' /\ LearnedJson(d)' /\ LearnedAnswer(d)'
  BY <1>1, <1>3 DEF Learned, LearnedSource, LearnedJson, LearnedAnswer, Told
<1>5. LearnedNames(d)'
  <2>1. IF Undiscoverable(disk, n) THEN reader.kept => Undiscoverable(d, n)
        ELSE ~Undiscoverable(d, n) /\ UnrecognisedNames(disk, n) = UnrecognisedNames(d, n)
    BY <1>2, CallsTell
  <2> QED
    BY <1>1, <2>1 DEF LearnedNames
<1>6. LearnedLists(d)'
  <2>1. reader'.lists = "no" /\ 1 .. reader'.k - 1 = {}
    BY <1>1, <1>3 DEF Learned, LearnedLists
  <2> QED
    BY <1>3, <2>1 DEF LearnedLists
<1>7. LearnedForeign(d)' /\ LearnedMarkers(d)'
  BY <1>3 DEF LearnedForeign, LearnedMarkers
<1> QED
  BY <1>4, <1>5, <1>6, <1>7 DEF Learned

LEMMA LearnedWalk ==
  ASSUME ReaderOK, reader.source # NoSource, NEW d, Beneath(d), Learned(d), Walk
  PROVE  Learned(d)'
<1> DEFINE n == reader.source
           Node(e, j) == NodeExists(e, n, MARKER_PRECEDENCE[j], reader.id)
<1>1. AtWalk /\ reader.k \in 1 .. 4 /\ reader.at > 1 /\ reader.at # JsonStep
  BY WalkDoes DEF AtWalk, JsonStep
<1>2. n \in DIRECTORIES /\ n # JSON
  BY <1>1, SourceIs DEF ReaderOK, JSON
<1>3. Cleared /\ Discovered
  BY <1>1 DEF AtWalk, Cleared, Discovered, JsonStep
<1>4. /\ IsPresent(d, n) # "no" /\ ~Undiscoverable(d, n)
      /\ ~ForeignMayName(d, n, UnrecognisedNames(d, n), reader.id)
  BY <1>3 DEF Learned, LearnedSource, LearnedNames, LearnedForeign
<1>5. \A j \in 1 .. reader.k - 1 : Node(d, j) = "no"
  BY <1>1 DEF Learned, LearnedMarkers
<1>6. MARKER_PRECEDENCE[reader.k] \in States
  BY <1>1, MarkersAre DEF States
<1>7. Same(Node(disk, reader.k), Node(d, reader.k), "error")
  BY <1>2, <1>6, CallsTell
<1> HIDE DEF Node
<1>8. CASE Node(disk, reader.k) = "yes" /\ Replied(MARKER_PRECEDENCE[reader.k])
  <2>1. ResolveFrom(d, n, reader.id) = MARKER_PRECEDENCE[reader.k]
    BY <1>1, <1>2, <1>4, <1>5, <1>7, <1>8, MarkedIs DEF Node, Same
  <2> QED
    BY <1>1, <1>8, <2>1, LearnedReply DEF Same
<1>9. CASE Node(disk, reader.k) = "error" /\ Replied("unreadable")
  <2>1. reader.kept => ResolveFrom(d, n, reader.id) = "unreadable"
    BY <1>1, <1>2, <1>4, <1>5, <1>7, <1>9, MarkedIs DEF Node, Same
  <2>2. Same("unreadable", ResolveFrom(d, n, reader.id), "unreadable")
    BY <2>1 DEF Same
  <2> QED
    BY <1>1, <1>9, <2>2, LearnedReply
<1>10. ASSUME Node(disk, reader.k) = "no"
       PROVE  \A j \in 1 .. reader.k : Node(d, j) = "no"
  <2>1. Node(d, reader.k) = "no"
    BY <1>7, <1>10 DEF Same
  <2> QED
    BY <1>1, <1>5, <2>1
<1>11. CASE Node(disk, reader.k) = "no" /\ reader.k = 4 /\ Proceeded(reader)
  <2>1. \A j \in 1 .. 4 : Node(d, j) = "no"
    BY <1>10, <1>11
  <2>2. /\ reader.at # (IF reader.form = "resolver" THEN 4 ELSE 2) /\ ~AtScan
        /\ reader.at < (IF reader.form = "resolver" THEN 9 ELSE 7)
        /\ reader.at # (IF reader.form = "resolver" THEN 6 ELSE 3)
    BY <1>1 DEF AtScan, AtWalk
  <2> QED
    BY <1>1, <1>11, <2>1, <2>2, LearnedProceed DEF Node
<1>12. CASE Node(disk, reader.k) = "no" /\ reader.k < 4 /\ Nexted(reader)
  <2>1. /\ reader'.form = reader.form /\ reader'.id = reader.id /\ reader'.source = n
        /\ reader'.blind = reader.blind /\ reader'.names = reader.names
        /\ reader'.lists = reader.lists /\ reader'.kept = reader.kept
        /\ reader'.at = reader.at /\ reader'.k = reader.k + 1 /\ reader'.answer = "none"
    BY <1>12 DEF Nexted, Rest
  <2>2. ~AtScan /\ ~AtScan' /\ (Scanned' <=> Scanned) /\ ~Walked'
        /\ (Discovered' <=> Discovered) /\ (Cleared' <=> Cleared)
    BY <1>1, <2>1 DEF AtScan, AtWalk, Scanned, Walked, Discovered, Cleared
  <2>3. /\ LearnedSource(d)' /\ LearnedJson(d)' /\ LearnedAnswer(d)'
        /\ LearnedNames(d)' /\ LearnedForeign(d)'
    BY <2>1, <2>2 DEF Learned, LearnedSource, LearnedJson, LearnedNames, LearnedForeign,
       LearnedAnswer, Told
  <2>4. LearnedLists(d)'
    BY <2>1, <2>2 DEF Learned, LearnedLists, Same
  <2>5. LearnedMarkers(d)'
    <3>1. 1 .. reader'.k - 1 = 1 .. reader.k
      BY <1>1, <2>1
    <3> QED
      BY <1>10, <1>12, <2>1, <2>2, <3>1 DEF LearnedMarkers, Node
  <2> QED
    BY <2>3, <2>4, <2>5 DEF Learned
<1> QED
  BY <1>8, <1>9, <1>11, <1>12, WalkDoes DEF Node

LEMMA LearnedConclude ==
  ASSUME ReaderOK, reader.source # NoSource, NEW d, Beneath(d), Learned(d), Conclude
  PROVE  Learned(d)'
<1> DEFINE n == reader.source
           all == ListsAnyTicket(d, n, reader.names)
<1>1. /\ reader.at = (IF reader.form = "resolver" THEN 9 ELSE 7)
      /\ Replied(Unmarked(reader.lists))
  BY ConcludeDoes
<1>2. /\ n \in DIRECTORIES /\ reader.at > 1 /\ reader.at # JsonStep
      /\ Discovered /\ Scanned /\ Cleared /\ Walked
  BY <1>1, SourceIs DEF Discovered, Scanned, Cleared, Walked, JsonStep
<1>3. /\ IsPresent(d, n) # "no" /\ ~Undiscoverable(d, n)
      /\ reader.names = UnrecognisedNames(d, n)
      /\ ~ForeignMayName(d, n, UnrecognisedNames(d, n), reader.id)
      /\ \A j \in 1 .. 4 : NodeExists(d, n, MARKER_PRECEDENCE[j], reader.id) = "no"
      /\ Same(reader.lists, all, "unclear")
  BY <1>2 DEF Learned, LearnedSource, LearnedNames, LearnedForeign, LearnedMarkers, LearnedLists
<1>4. ResolveFrom(d, n, reader.id) = Unmarked(all)
  BY <1>2, <1>3, UnmarkedIs
<1> HIDE DEF all
<1>5. Same(Unmarked(reader.lists), ResolveFrom(d, n, reader.id), "unreadable")
  BY <1>3, <1>4 DEF Same, Unmarked
<1> QED
  BY <1>1, <1>2, <1>5, LearnedReply

LEMMA LearnedScan ==
  ASSUME ReaderOK, reader.source # NoSource, NEW d, Beneath(d), Learned(d), Scan
  PROVE  Learned(d)'
<1> DEFINE n == reader.source
           order == Order(reader.names)
           Lists(e, j) == ListsTicket(e, n, order[j])
           v == IF Lists(disk, reader.k) = "error" THEN "unclear" ELSE reader.lists
<1>1. AtScan /\ reader.k \in 1 .. Len(order) /\ reader.at \in {5, 6}
      /\ reader.names \in SUBSET Foreign /\ reader.form \in {"resolver", "single"}
  BY ScanDoes DEF AtScan, ReaderOK, ReaderRec
<1>2. Len(order) \in Nat /\ \A j \in 1 .. Len(order) : order[j] \in States
  BY <1>1, OrderIs DEF States
<1>3. n # JSON /\ Discovered
  BY <1>1 DEF ReaderOK, JsonStep, AtScan, Discovered
<1>4. Same(Lists(disk, reader.k), Lists(d, reader.k), "error")
  BY <1>1, <1>2, <1>3, CallsTell
<1>5. /\ reader.lists \in {"no", "unclear"}
      /\ reader.lists = "no" => \A j \in 1 .. reader.k - 1 : Lists(d, j) = "no"
      /\ reader.kept => \A j \in 1 .. reader.k - 1 : Lists(d, j) # "yes"
      /\ reader.kept /\ reader.lists = "unclear" =>
           \E j \in 1 .. reader.k - 1 : Lists(d, j) = "error"
  BY <1>1 DEF Learned, LearnedLists
<1>6. ASSUME NEW w, Listing(w), reader'.at \in {reader.at, reader.at + 1}
      PROVE  /\ reader'.k \in Nat
             /\ LearnedSource(d)' /\ LearnedJson(d)' /\ LearnedAnswer(d)' /\ LearnedNames(d)'
             /\ LearnedForeign(d)' /\ LearnedMarkers(d)'
             /\ reader'.at = reader.at => AtScan' /\ ~Scanned'
             /\ reader'.at = reader.at + 1 => ~AtScan' /\ Scanned'
  <2>1. /\ reader'.form = reader.form /\ reader'.id = reader.id /\ reader'.source = n
        /\ reader'.blind = reader.blind /\ reader'.names = reader.names
        /\ reader'.kept = reader.kept /\ reader'.lists = w /\ reader'.answer = "none"
        /\ reader'.k \in Nat
    BY <1>6 DEF Listing, ReaderRec
  <2>2. /\ reader'.at # JsonStep /\ Discovered' /\ (Cleared' <=> Cleared)
        /\ (Walked' <=> Walked) /\ ~AtWalk'
        /\ reader'.at = reader.at => AtScan' /\ ~Scanned'
        /\ reader'.at = reader.at + 1 => ~AtScan' /\ Scanned'
    BY <1>1, <1>6, <2>1 DEF AtScan, AtWalk, Scanned, Walked, Discovered, Cleared, JsonStep
  <2>3. LearnedSource(d)' /\ LearnedJson(d)' /\ LearnedAnswer(d)'
    BY <2>1, <2>2 DEF Learned, LearnedSource, LearnedJson, LearnedAnswer, Told
  <2>4. LearnedNames(d)' /\ LearnedForeign(d)'
    BY <1>3, <2>1, <2>2 DEF Learned, LearnedNames, LearnedForeign
  <2>5. LearnedMarkers(d)'
    BY <2>1, <2>2 DEF Learned, LearnedMarkers
  <2> QED
    BY <2>1, <2>2, <2>3, <2>4, <2>5
\* The last listing: what it concludes is what all of them say.
<1>7. ASSUME NEW w, Listing(w), reader'.at = reader.at + 1,
             Same(w, ListsAnyTicket(d, n, reader.names), "unclear")
      PROVE  Learned(d)'
  <2>1. LearnedLists(d)'
    <3>1. /\ reader'.lists = w /\ reader'.source = n /\ reader'.names = reader.names
          /\ reader'.kept = reader.kept
      BY <1>7 DEF Listing
    <3> QED
      BY <1>6, <1>7, <3>1 DEF LearnedLists, Same
  <2> QED
    BY <1>6, <1>7, <2>1 DEF Learned
<1>8. ~reader.blind => ~Undiscoverable(d, n)
  BY <1>3 DEF Learned, LearnedNames
<1>9. CASE reader.blind /\ Listing("unclear") /\ reader'.at = reader.at + 1
  <2>1. reader.kept => Undiscoverable(d, n)
    BY <1>3, <1>9 DEF Learned, LearnedNames
  <2>2. Same("unclear", ListsAnyTicket(d, n, reader.names), "unclear")
    BY <2>1 DEF Same, ListsAnyTicket
  <2> QED
    BY <1>7, <1>9, <2>2
<1>10. CASE /\ ~reader.blind /\ Lists(disk, reader.k) = "yes" /\ Listing("yes")
            /\ reader'.at = reader.at + 1
  <2>1. Lists(d, reader.k) = "yes"
    BY <1>4, <1>10 DEF Same
  <2>2. ListsAnyTicket(d, n, reader.names) = "yes"
    BY <1>1, <1>8, <1>10, <2>1, ListsIs
  <2> QED
    BY <1>7, <1>10, <2>2 DEF Same
\* What the listing adds to what the listings before it said.
<1>11. ASSUME ~reader.blind, Lists(disk, reader.k) # "yes"
       PROVE  /\ v \in {"no", "unclear"}
              /\ v = "no" => \A j \in 1 .. reader.k : Lists(d, j) = "no"
              /\ reader.kept => \A j \in 1 .. reader.k : Lists(d, j) # "yes"
              /\ reader.kept /\ v = "unclear" => \E j \in 1 .. reader.k : Lists(d, j) = "error"
  <2>1. Lists(disk, reader.k) \in {"no", "error"}
    BY <1>11, NodeIs
  <2>2. \A j \in 1 .. reader.k : j = reader.k \/ j \in 1 .. reader.k - 1
    BY <1>1, <1>2
  <2>3. \A j \in 1 .. reader.k - 1 : j \in 1 .. reader.k
    BY <1>1, <1>2
  <2>5. reader.k \in 1 .. reader.k
    BY <1>1, <1>2
  <2> HIDE DEF Lists, order
  <2>6. v \in {"no", "unclear"}
    BY <1>5
  <2>7. v = "no" => \A j \in 1 .. reader.k : Lists(d, j) = "no"
    BY <1>4, <1>5, <2>1, <2>2 DEF Same
  <2>8. reader.kept => \A j \in 1 .. reader.k : Lists(d, j) # "yes"
    BY <1>4, <1>5, <1>11, <2>2 DEF Same
  <2>9. reader.kept /\ v = "unclear" => \E j \in 1 .. reader.k : Lists(d, j) = "error"
    BY <1>4, <1>5, <2>3, <2>5 DEF Same
  <2> QED
    BY <2>6, <2>7, <2>8, <2>9
<1> HIDE DEF v
<1>12. CASE /\ ~reader.blind /\ Lists(disk, reader.k) # "yes" /\ reader.k < Len(order)
            /\ Listing(v) /\ reader'.at = reader.at /\ reader'.k = reader.k + 1
  <2>1. /\ reader'.lists = v /\ reader'.source = n /\ reader'.names = reader.names
        /\ reader'.kept = reader.kept
    BY <1>12 DEF Listing
  <2>2. 1 .. reader'.k - 1 = 1 .. reader.k
    BY <1>1, <1>2, <1>12
  <2>3. AtScan' /\ ~Scanned'
    BY <1>6, <1>12
  <2>4. LearnedLists(d)'
    BY <1>11, <1>12, <2>1, <2>2, <2>3 DEF LearnedLists
  <2> QED
    BY <1>6, <1>12, <2>4 DEF Learned
<1>13. CASE /\ ~reader.blind /\ Lists(disk, reader.k) # "yes" /\ reader.k = Len(order)
            /\ Listing(v) /\ reader'.at = reader.at + 1
  <2>1. Same(v, ListsAnyTicket(d, n, reader.names), "unclear")
    <3>1. v = "no" => ListsAnyTicket(d, n, reader.names) = "no"
      BY <1>1, <1>8, <1>11, <1>13, ListsIs
    <3>2. reader.kept /\ v = "unclear" => ListsAnyTicket(d, n, reader.names) = "unclear"
      BY <1>1, <1>8, <1>11, <1>13, ListsIs
    <3> QED
      BY <1>11, <1>13, <3>1, <3>2 DEF Same
  <2> QED
    BY <1>7, <1>13, <2>1
<1> QED
  BY <1>9, <1>10, <1>12, <1>13, ScanDoes DEF v

\* run-state.json is read once, whole; every answer from it is what d says.
LEMMA JsonTells ==
  ASSUME NEW d, Degraded(disk, d), reader.kept => d = disk
  PROVE  ReadJson(disk) = ReadJson(d) \/ (ReadJson(disk).unreadable /\ ~reader.kept)
<1>1. ~ReadJson(disk).unreadable => ReadJson(disk) = ReadJson(d)
  BY DEF Degraded, LessJson, ReadJson, Open
<1> QED
  BY <1>1

LEMMA JsonSays ==
  ASSUME NEW d, NEW parsed, parsed = ReadJson(d) \/ (parsed.unreadable /\ ~reader.kept), NEW i
  PROVE  Same(ResolveJson(parsed, i), ResolveFrom(d, JSON, i), "unreadable")
<1>1. ResolveFrom(d, JSON, i) = ResolveJson(ReadJson(d), i)
  BY DEF ResolveFrom, JSON, NoSource
<1>2. parsed.unreadable => ResolveJson(parsed, i) = "unreadable"
  BY DEF ResolveJson
<1> QED
  BY <1>1, <1>2 DEF Same

LEMMA LearnedRead ==
  ASSUME ReaderOK, DiskOK, reader.source # NoSource, NEW d, Beneath(d), Learned(d), ReadSource
  PROVE  Learned(d)'
<1>1. /\ reader.at = 10 /\ reader'.at = 10 /\ reader'.source = reader.source
      /\ reader'.id = reader.id /\ reader'.kept = reader.kept /\ reader'.lists = reader.lists
      /\ reader'.form = reader.form /\ reader.form = "resolver"
      /\ reader'.json = ReadJson(disk) /\ reader'.answer = ResolveJson(ReadJson(disk), reader.id)
  BY ReadDoes DEF JsonStep
<1>2. reader.source = JSON
  BY <1>1 DEF ReaderOK, JsonStep
<1>3. /\ ~Discovered' /\ ~Scanned' /\ ~AtScan' /\ ~Cleared' /\ ~AtWalk' /\ ~Walked'
      /\ ~Scanned /\ ~AtScan
  BY <1>1 DEF Discovered, Scanned, AtScan, Cleared, AtWalk, Walked, JsonStep
<1>4. ReadJson(disk) = ReadJson(d) \/ (ReadJson(disk).unreadable /\ ~reader.kept)
  BY JsonTells DEF Beneath
<1>5. Same(ResolveJson(ReadJson(disk), reader.id), ResolveFrom(d, JSON, reader.id), "unreadable")
  BY <1>4, JsonSays
<1>6. LearnedSource(d)' /\ LearnedJson(d)'
  BY <1>1, <1>4 DEF Learned, LearnedSource, LearnedJson
<1>7. LearnedAnswer(d)'
  BY <1>1, <1>2, <1>5 DEF LearnedAnswer, Same
<1>8. LearnedNames(d)' /\ LearnedLists(d)' /\ LearnedForeign(d)' /\ LearnedMarkers(d)'
  BY <1>1, <1>3 DEF Learned, LearnedNames, LearnedLists, LearnedForeign, LearnedMarkers
<1> QED
  BY <1>6, <1>7, <1>8 DEF Learned

LEMMA LearnedAsk ==
  ASSUME ReaderOK, reader.source # NoSource, NEW d, Learned(d), NEW i \in Id, AskAgain(i)
  PROVE  Learned(d)'
<1>1. /\ Told /\ reader.form = "resolver" /\ reader.at >= 6 /\ reader.at \in 0 .. 10
      /\ reader'.id = i /\ reader'.form = reader.form /\ reader'.source = reader.source
      /\ reader'.json = reader.json /\ reader'.blind = reader.blind
      /\ reader'.names = reader.names /\ reader'.lists = reader.lists
      /\ reader'.kept = reader.kept
  BY AskDoes DEF PerId, ReaderOK, ReaderRec
<1>2. LearnedSource(d)'
  BY <1>1 DEF Learned, LearnedSource
<1>3. CASE /\ reader.source = JSON /\ reader'.at = reader.at
           /\ reader'.answer = ResolveJson(reader.json, i)
  <2>1. reader.at = 10
    BY <1>1, <1>3 DEF ReaderOK, JsonStep
  <2>2. /\ ~Discovered' /\ ~Scanned' /\ ~AtScan' /\ ~Cleared' /\ ~AtWalk' /\ ~Walked'
        /\ ~Scanned /\ ~AtScan
    BY <1>1, <1>3, <2>1 DEF Discovered, Scanned, AtScan, Cleared, AtWalk, Walked, JsonStep
  <2>3. reader.json = ReadJson(d) \/ (reader.json.unreadable /\ ~reader.kept)
    BY <1>1, <2>1 DEF Learned, LearnedJson, JsonStep
  <2>4. Same(ResolveJson(reader.json, i), ResolveFrom(d, JSON, i), "unreadable")
    BY <2>3, JsonSays
  <2>5. LearnedJson(d)' /\ LearnedAnswer(d)'
    BY <1>1, <1>3, <2>3, <2>4 DEF LearnedJson, LearnedAnswer, Same
  <2>6. LearnedNames(d)' /\ LearnedLists(d)' /\ LearnedForeign(d)' /\ LearnedMarkers(d)'
    BY <1>1, <2>2 DEF Learned, LearnedNames, LearnedLists, LearnedForeign, LearnedMarkers
  <2> QED
    BY <1>2, <2>5, <2>6 DEF Learned
<1>4. CASE /\ reader.source # JSON /\ reader'.at = PerId /\ reader'.k = 1
           /\ reader'.answer = "none"
  <2>1. reader.at # 10
    BY <1>1, <1>4 DEF ReaderOK, JsonStep
  <2>2. /\ Discovered /\ Scanned /\ Discovered' /\ Scanned' /\ ~AtScan' /\ ~Cleared'
        /\ ~AtWalk' /\ ~Walked' /\ reader'.at # JsonStep
    BY <1>1, <1>4, <2>1
       DEF Discovered, Scanned, AtScan, Cleared, AtWalk, Walked, JsonStep, PerId
  <2>3. LearnedJson(d)' /\ LearnedAnswer(d)' /\ LearnedForeign(d)' /\ LearnedMarkers(d)'
    BY <1>4, <2>2 DEF LearnedJson, LearnedAnswer, LearnedForeign, LearnedMarkers, Told
  <2>4. LearnedNames(d)'
    BY <1>1, <2>2 DEF Learned, LearnedNames
  <2>5. LearnedLists(d)'
    BY <1>1, <2>2 DEF Learned, LearnedLists, Same
  <2> QED
    BY <1>2, <2>3, <2>4, <2>5 DEF Learned
<1> QED
  BY <1>3, <1>4, AskDoes

LEMMA DegradedChain ==
  ASSUME NEW lo, NEW mid, NEW hi, Degraded(lo, mid), Degraded(mid, hi)
  PROVE  Degraded(lo, hi)
<1>1. \A n \in DIRECTORIES, s \in States :
        LessStateDir(lo.dirs[n].states[s], hi.dirs[n].states[s])
  BY DEF Degraded, LessDirectory, LessStateDir
<1>2. \A n \in DIRECTORIES : LessDirectory(lo.dirs[n], hi.dirs[n])
  BY <1>1 DEF Degraded, LessDirectory
<1> QED
  BY <1>2 DEF Degraded, LessJson

\* A permission that goes takes nothing back.
LEMMA LearnedLose ==
  ASSUME ReaderOK, DiskOK, reader.source # NoSource, NEW d, Beneath(d), Learned(d), LosePermission
  PROVE  Beneath(d)' /\ Learned(d)'
<1>1. Disturb(disk', FALSE, {}) /\ Degraded(disk', disk)
  BY ChangesDisturb, LoseDegrades
<1>2. reader # Idle
  BY IdleIs
<1>3. /\ reader'.kept = FALSE
      /\ reader'.form = reader.form /\ reader'.id = reader.id
      /\ reader'.source = reader.source /\ reader'.json = reader.json
      /\ reader'.blind = reader.blind /\ reader'.names = reader.names
      /\ reader'.lists = reader.lists /\ reader'.at = reader.at /\ reader'.k = reader.k
      /\ reader'.answer = reader.answer
      /\ truth' = [i \in Id |-> truth[i] \cup {ResolveFrom(disk', reader.source, i)}]
  BY <1>1, <1>2, DisturbDoes
<1>4. Beneath(d)'
  <2>1. Degraded(disk', d)
    BY <1>1, DegradedChain DEF Beneath
  <2> QED
    BY <1>3, <2>1 DEF Beneath
<1>5. /\ (Discovered' <=> Discovered) /\ (Scanned' <=> Scanned) /\ (AtScan' <=> AtScan)
      /\ (Cleared' <=> Cleared) /\ (AtWalk' <=> AtWalk) /\ (Walked' <=> Walked)
      /\ (Told' <=> Told)
  BY <1>3 DEF Discovered, Scanned, AtScan, Cleared, AtWalk, Walked, Told
<1>6. ASSUME NEW told, NEW says, NEW failed, Same(told, says, failed)
      PROVE  told = says \/ (told = failed /\ ~reader'.kept)
  BY <1>3, <1>6 DEF Same
<1>7. LearnedSource(d)' /\ LearnedJson(d)' /\ LearnedNames(d)' /\ LearnedForeign(d)'
  BY <1>3, <1>5 DEF Learned, LearnedSource, LearnedJson, LearnedNames, LearnedForeign
<1>8. LearnedLists(d)'
  BY <1>3, <1>5, <1>6 DEF Learned, LearnedLists, Same
<1>9. LearnedMarkers(d)' /\ LearnedAnswer(d)'
  BY <1>3, <1>5, <1>6 DEF Learned, LearnedMarkers, LearnedAnswer, Same
<1> QED
  BY <1>4, <1>7, <1>8, <1>9 DEF Learned

\* While the disk holds still the search has passed over what is not there.
FindInv ==
  /\ reader.at =< 1 => reader.lists = "no"
  /\ Calm /\ reader.at = 1 =>
       IF Told THEN /\ reader.answer = "unknown"
                    /\ \/ FindSource(disk) = NoSource
                       \/ FindSource(disk) = JSON /\ reader.form = "single"
       ELSE \A j \in 1 .. reader.k - 1 : IsPresent(disk, j) = "no"
LearnedInv ==
  reader.stirred = {} /\ reader.source # NoSource => \E d : Beneath(d) /\ Learned(d)

LEMMA SourceFound ==
  ASSUME NEW d, NEW k \in 1 .. 3, \A j \in 1 .. k - 1 : IsPresent(d, j) = "no"
  PROVE  /\ IsPresent(d, k) # "no" => FindSource(d) = k
         /\ IsPresent(d, k) = "no" /\ k = 3 => FindSource(d) = NoSource
<1> DEFINE found == {n \in 1 .. 3 : IsPresent(d, n) # "no"}
<1>1. FindSource(d) = IF found = {} THEN NoSource ELSE Min(found)
  BY DEF FindSource
<1>2. ASSUME IsPresent(d, k) # "no"  PROVE Min(found) = k /\ found # {}
  <2>1. k \in found /\ \A j \in found : k =< j
    BY <1>2
  <2>2. found \in SUBSET (1 .. 4) /\ found # {}
    BY <2>1
  <2>3. Min(found) \in found /\ \A j \in found : Min(found) =< j
    BY <2>2, MinOfPositions
  <2>4. Min(found) \in 1 .. 3 /\ Min(found) =< k /\ k =< Min(found)
    BY <2>1, <2>3
  <2> HIDE DEF found, Min
  <2> QED
    BY <2>2, <2>4
<1>3. IsPresent(d, k) = "no" /\ k = 3 => found = {}
  OBVIOUS
<1> QED
  BY <1>1, <1>2, <1>3

LEMMA FindFinds ==
  ASSUME ReaderOK, FindInv, FindLocation
  PROVE  FindInv'
<1>1. reader.at = 1 /\ reader.k \in 1 .. 3 /\ reader.answer = "none" /\ disk' = disk
  BY FindDoes, AtIs DEF FindLocation
<1>2. reader.lists = "no" /\ (Calm => \A j \in 1 .. reader.k - 1 : IsPresent(disk, j) = "no")
  BY <1>1 DEF FindInv, Told
<1>3. CASE IsPresent(disk, reader.k) = "no" /\ reader.k < 3 /\ Nexted(reader)
  <2>1. \A j \in 1 .. (reader.k + 1) - 1 : j = reader.k \/ j \in 1 .. reader.k - 1
    BY <1>1
  <2> QED
    BY <1>1, <1>2, <1>3, <2>1 DEF FindInv, Nexted, Rest, Told, Calm
<1>4. CASE IsPresent(disk, reader.k) = "no" /\ reader.k = 3 /\ Replied("unknown")
  <2>1. Calm => FindSource(disk) = NoSource
    BY <1>1, <1>2, <1>4, SourceFound
  <2> QED
    BY <1>1, <1>2, <1>4, <2>1 DEF FindInv, Replied, Rest, Told, Calm
<1>5. CASE /\ IsPresent(disk, reader.k) # "no" /\ reader.k = JSON /\ reader.form = "single"
           /\ Replied("unknown")
  <2>1. Calm => FindSource(disk) = JSON
    BY <1>1, <1>2, <1>5, SourceFound
  <2> QED
    BY <1>1, <1>2, <1>5, <2>1 DEF FindInv, Replied, Rest, Told, Calm
<1>6. CASE Found(reader.k)
  BY <1>1, <1>2, <1>6 DEF FindInv, Found, JsonStep
<1> QED
  BY <1>3, <1>4, <1>5, <1>6, FindDoes

LEMMA FindStep ==
  ASSUME ReaderOK, DiskOK, FindInv, [Next]_vars
  PROVE  FindInv'
<1>1. CASE Reader
  <2>1. ASSUME NEW form \in Forms, NEW i \in Id, Start(form, i)  PROVE FindInv'
    <3>1. reader'.at = 1 /\ reader'.k = 1 /\ reader'.answer = "none" /\ reader'.lists = "no"
      BY <2>1, StartDoes
    <3> QED
      BY <3>1 DEF FindInv, Told
  <2>2. CASE FindLocation
    BY <2>2, FindFinds
  <2>3. ASSUME reader'.at > 1, reader'.at \in Nat  PROVE FindInv'
    BY <2>3 DEF FindInv
  <2>4. ASSUME reader.at > 1, reader'.at \in {reader.at, reader.at + 1}  PROVE FindInv'
    BY <2>3, <2>4 DEF ReaderOK, ReaderRec
  <2>5. CASE ReadSource
    BY <2>4, <2>5, ReadDoes DEF JsonStep
  <2>6. ASSUME NEW a, Replied(a), reader.at > 1  PROVE FindInv'
    BY <2>4, <2>6 DEF Replied
  <2>7. ASSUME Proceeded(reader) \/ Nexted(reader), reader.at > 1  PROVE FindInv'
    BY <2>4, <2>7 DEF Proceeded, Nexted
  <2>8. CASE CheckPresent \/ Recheck
    <3>1. reader.at > 1
      BY <2>8, PresentDoes
    <3> QED
      BY <2>6, <2>7, <2>8, <3>1, PresentDoes
  <2>9. CASE Canary
    BY <2>6, <2>7, <2>9, CanaryDoes
  <2>10. CASE Discover
    <3>1. reader.at > 1 /\ reader'.at = reader.at + 1
      BY <2>10, DiscoverDoes
    <3> QED
      BY <2>4, <3>1
  <2>11. CASE Scan
    <3>1. reader.at > 1 /\ reader'.at \in {reader.at, reader.at + 1}
      BY <2>11, ScanDoes DEF AtScan
    <3> QED
      BY <2>4, <3>1
  <2>12. CASE Foreigners
    <3>1. reader.at > 1
      BY <2>12, ForeignersDo
    <3> QED
      BY <2>6, <2>7, <2>12, <3>1, ForeignersDo
  <2>13. CASE Walk
    <3>1. reader.at > 1
      BY <2>13, WalkDoes DEF AtWalk
    <3> QED
      BY <2>6, <2>7, <2>13, <3>1, WalkDoes
  <2>14. CASE Conclude
    <3>1. reader.at > 1
      BY <2>14, ConcludeDoes
    <3> QED
      BY <2>6, <2>14, <3>1, ConcludeDoes
  <2>15. ASSUME NEW i \in Id, AskAgain(i)  PROVE FindInv'
    <3>1. reader.at >= 6 /\ reader'.at \in {reader.at, 6} /\ reader.at \in 0 .. 10
      BY <2>15, AskDoes DEF PerId, ReaderOK, ReaderRec
    <3> QED
      BY <2>3, <3>1
  <2> QED
    BY <1>1, <2>1, <2>2, <2>5, <2>8, <2>9, <2>10, <2>11, <2>12, <2>13, <2>14, <2>15 DEF Reader
<1>2. ASSUME NEW kept \in BOOLEAN, NEW ids \in SUBSET Id, Disturb(disk', kept, ids),
             reader.at = 1 => ~kept \/ ids # {}
      PROVE  FindInv'
  <2>1. /\ reader'.at = reader.at /\ reader'.lists = reader.lists
        /\ reader # Idle => reader'.kept = (reader.kept /\ kept)
                            /\ reader'.stirred = reader.stirred \cup ids
    BY <1>2, DisturbDoes
  <2>2. reader.at = 1 => reader # Idle
    BY IdleIs
  <2>3. reader.at = 1 => ~Calm'
    BY <1>2, <2>1, <2>2 DEF Calm
  <2> QED
    BY <2>1, <2>3 DEF FindInv
<1>3. CASE LosePermission
  BY <1>2, <1>3, ChangesDisturb
<1>4. CASE Factory
  <2>1. reader.at = 1 => Id # {}
    BY DEF ReaderOK
  <2> QED
    BY <1>2, <1>4, <2>1, ChangesDisturb
<1>5. CASE UNCHANGED vars
  BY <1>5 DEF vars, FindInv, Calm, Told
<1> QED
  BY <1>1, <1>3, <1>4, <1>5 DEF Next

\* What is learned begins with the disk on which the source was found.
LEMMA LearnedFind ==
  ASSUME ReaderOK, FindInv, FindLocation
  PROVE  LearnedInv'
<1>1. PICK d : d = disk
  OBVIOUS
<1>2. SUFFICES ASSUME reader'.stirred = {}, reader'.source # NoSource
               PROVE  Beneath(d)' /\ Learned(d)'
  BY DEF LearnedInv
<1>3. /\ reader.at = 1 /\ reader.k \in 1 .. 3 /\ reader.answer = "none" /\ reader.source = NoSource
      /\ reader.form \in {"resolver", "single"}
  BY FindDoes, AtIs DEF FindLocation, ReaderOK, ReaderRec
<1>4. Found(reader.k) /\ IsPresent(disk, reader.k) # "no"
  BY <1>2, <1>3, FindDoes DEF Nexted, Replied, Rest
<1> DEFINE n == reader.k
<1>5. /\ disk' = d /\ reader'.source = n /\ reader'.answer = "none"
      /\ reader'.at = (IF n = JSON THEN 10 ELSE 2) /\ reader'.form = reader.form
      /\ reader'.kept = reader.kept /\ reader'.stirred = reader.stirred
      /\ reader'.lists = reader.lists
      /\ truth' = [i \in Id |-> {ResolveFrom(d, n, i)}]
  BY <1>1, <1>4 DEF Found, JsonStep
<1>6. Beneath(d)'
  <2>1. Degraded(d, d)
    BY DEF Degraded, LessJson, LessDirectory, LessStateDir
  <2> QED
    BY <1>5, <2>1 DEF Beneath
<1>7. LearnedSource(d)'
  <2>1. reader.kept => FindSource(d) = n
    BY <1>1, <1>2, <1>3, <1>4, <1>5, SourceFound DEF FindInv, Calm, Told
  <2> QED
    BY <1>1, <1>4, <1>5, <2>1 DEF LearnedSource
<1>8. /\ ~Discovered' /\ ~Scanned' /\ ~AtScan' /\ ~Cleared' /\ ~AtWalk' /\ ~Walked' /\ ~Told'
  BY <1>3, <1>5 DEF Discovered, Scanned, AtScan, Cleared, AtWalk, Walked, JsonStep, Told
<1>9. reader'.lists = "no"
  BY <1>3, <1>5 DEF FindInv
<1> QED
  BY <1>6, <1>7, <1>8, <1>9 DEF Learned, LearnedJson, LearnedNames, LearnedLists,
     LearnedForeign, LearnedMarkers, LearnedAnswer

\* A call changes neither the disk nor what happened to it.
LEMMA CallKeeps ==
  ASSUME ReaderOK, DiskOK,
         \/ ReadSource \/ CheckPresent \/ Canary \/ Discover \/ Scan \/ Foreigners \/ Walk
         \/ Recheck \/ Conclude \/ \E i \in Id : AskAgain(i)
  PROVE  /\ Held /\ reader'.source = reader.source /\ reader'.kept = reader.kept
         /\ reader'.stirred = reader.stirred
<1> DEFINE Keeps == /\ Held /\ reader'.source = reader.source /\ reader'.kept = reader.kept
                    /\ reader'.stirred = reader.stirred
<1>1. \A a : Replied(a) => Keeps
  BY DEF Replied, Rest
<1>2. Proceeded(reader) \/ Nexted(reader) => Keeps
  BY DEF Proceeded, Nexted, Rest
<1>3. \A v : Listing(v) => Keeps
  BY DEF Listing
<1>4. Discover \/ ReadSource \/ (\E i \in Id : AskAgain(i)) => Keeps
  BY DiscoverDoes, ReadDoes, AskDoes
<1> HIDE DEF Keeps
<1>5. CheckPresent \/ Recheck \/ Canary \/ Foreigners => Keeps
  BY <1>1, <1>2, PresentDoes, CanaryDoes, ForeignersDo
<1>6. Walk => Keeps
  BY <1>1, <1>2, WalkDoes
<1>7. Scan => Keeps
  BY <1>3, ScanDoes
<1>8. Conclude => Keeps
  BY <1>1, ConcludeDoes
<1>9. Keeps
  BY <1>4, <1>5, <1>6, <1>7, <1>8
<1> QED
  BY <1>9 DEF Keeps

LEMMA LearnedStep ==
  ASSUME ReaderOK, DiskOK, FindInv, LearnedInv, [Next]_vars
  PROVE  LearnedInv'
<1> DEFINE Call == \/ ReadSource \/ CheckPresent \/ Canary \/ Discover \/ Scan \/ Foreigners
                   \/ Walk \/ Recheck \/ Conclude \/ \E i \in Id : AskAgain(i)
<1>1. ASSUME NEW form \in Forms, NEW i \in Id, Start(form, i)  PROVE LearnedInv'
  BY <1>1, StartDoes DEF LearnedInv
<1>2. CASE FindLocation
  BY <1>2, LearnedFind
<1>3. CASE Call
  <2>1. /\ Held /\ reader'.source = reader.source /\ reader'.kept = reader.kept
        /\ reader'.stirred = reader.stirred
    BY <1>3, CallKeeps
  <2> SUFFICES ASSUME reader.stirred = {}, reader.source # NoSource
               PROVE  \E d : Beneath(d)' /\ Learned(d)'
    BY <2>1 DEF LearnedInv
  <2>2. PICK d : Beneath(d) /\ Learned(d)
    BY DEF LearnedInv
  <2>3. Beneath(d)'
    BY <2>1, <2>2 DEF Beneath, Held
  <2>4. Learned(d)'
    BY <1>3, <2>2, LearnedRead, LearnedPresent, LearnedCanary, LearnedDiscover, LearnedScan,
       LearnedForeigners, LearnedWalk, LearnedConclude, LearnedAsk
  <2> QED
    BY <2>3, <2>4
<1>4. CASE LosePermission
  <2>1. /\ reader'.source = reader.source
        /\ reader # Idle => reader'.stirred = reader.stirred
    <3>1. Disturb(disk', FALSE, {})
      BY <1>4, ChangesDisturb
    <3>2. /\ reader'.source = reader.source
          /\ reader # Idle => reader'.stirred = reader.stirred \cup {}
      BY <3>1, DisturbDoes
    <3> QED
      BY <3>2
  <2> SUFFICES ASSUME reader'.stirred = {}, reader.source # NoSource
               PROVE  \E d : Beneath(d)' /\ Learned(d)'
    BY <2>1 DEF LearnedInv
  <2>2. reader # Idle
    BY IdleIs
  <2>3. PICK d : Beneath(d) /\ Learned(d)
    BY <2>1, <2>2 DEF LearnedInv
  <2> QED
    BY <1>4, <2>3, LearnedLose
<1>5. CASE Factory
  <2>1. PICK ids \in SUBSET Id : Disturb(disk', TRUE, ids) /\ (ids # {} \/ Id = {})
    BY <1>5, ChangesDisturb
  <2>2. /\ reader'.source = reader.source
        /\ reader # Idle => reader'.stirred = reader.stirred \cup ids
    BY <2>1, DisturbDoes
  <2>3. reader.source # NoSource => reader # Idle /\ Id # {}
    BY IdleIs DEF ReaderOK, ReaderRec
  <2> QED
    BY <2>1, <2>2, <2>3 DEF LearnedInv
<1>6. CASE UNCHANGED vars
  <2>1. reader' = reader /\ disk' = disk /\ truth' = truth
    BY <1>6 DEF vars
  <2> SUFFICES ASSUME reader.stirred = {}, reader.source # NoSource
               PROVE  \E d : Beneath(d)' /\ Learned(d)'
    BY <2>1 DEF LearnedInv
  <2>2. PICK d : Beneath(d) /\ Learned(d)
    BY DEF LearnedInv
  <2>3. Beneath(d)' /\ Learned(d)'
    BY <2>1, <2>2 DEF Beneath, Learned, LearnedSource, LearnedJson, LearnedNames, LearnedLists,
       LearnedForeign, LearnedMarkers, LearnedAnswer, Same, Told, AtScan, AtWalk, Discovered,
       Scanned, Cleared, Walked
  <2> QED
    BY <2>3
<1> QED
  BY <1>1, <1>2, <1>3, <1>4, <1>5, <1>6 DEF Next, Reader

-----------------------------------------------------------------------------
ReadInv == ReaderOK /\ FindInv /\ LearnedInv

\* Where a read is, and how what it was told stands to one disk of its time.
THEOREM ReadsLearn == Spec => []ReadInv
<1>1. Init => ReadInv
  BY IdleIs DEF Init, ReadInv, ReaderOK, FindInv, LearnedInv, AtScan, AtWalk, Told
<1>2. ReadInv /\ DiskOK /\ [Next]_vars => ReadInv'
  BY ReaderStep, FindStep, LearnedStep DEF ReadInv
<1> QED
  BY <1>1, <1>2, DiskCorrect, PTL DEF Spec

\* A read of a disk that holds still answers, call by call, what the resolution
\* says of that disk, for the first id asked and for every later one.
THEOREM QuietReads == Spec => []QuietReadIsSnapshot
<1>1. ReadInv => QuietReadIsSnapshot
  <2> SUFFICES ASSUME ReadInv, Told, Calm, reader.form = "single" => FindSource(disk) # JSON
               PROVE  reader.answer = Resolve(disk, reader.id)
    BY DEF QuietReadIsSnapshot
  <2>1. CASE reader.source = NoSource
    <3>1. reader.at = 1
      BY <2>1, IdleIs DEF ReadInv, ReaderOK, ReaderRec, NoSource, Told
    <3>2. reader.answer = "unknown" /\ FindSource(disk) = NoSource
      BY <3>1 DEF ReadInv, FindInv
    <3> QED
      BY <3>2 DEF Resolve, ResolveFrom
  <2>2. CASE reader.source # NoSource
    <3>1. PICK d : Beneath(d) /\ Learned(d)
      BY <2>2 DEF ReadInv, LearnedInv, Calm
    <3>2. d = disk /\ FindSource(disk) = reader.source
      BY <3>1 DEF Beneath, Learned, LearnedSource, Calm
    <3>3. reader.answer = ResolveFrom(disk, reader.source, reader.id)
      BY <3>1, <3>2 DEF Learned, LearnedAnswer, Same, Calm
    <3> QED
      BY <3>2, <3>3 DEF Resolve
  <2> QED
    BY <2>1, <2>2
<1> QED
  BY <1>1, ReadsLearn, PTL

\* On a disk that only loses permissions a read grants nothing the disk did not
\* grant when the source was found.
LEMMA UnmovedGrants == ReadInv => GrantUnlessMoved
<1> SUFFICES ASSUME ReadInv, reader.stirred = {}, NEW a \in {"edit", "delete"}, Grants(a)
             PROVE  Granting(a)
  BY DEF GrantUnlessMoved, GrantWasTrue
<1>1. Told /\ reader.source # NoSource /\ a \in Granted(reader.answer)
  BY DEF Grants
<1>2. PICK d : Beneath(d) /\ Learned(d)
  BY <1>1 DEF ReadInv, LearnedInv
<1>3. Same(reader.answer, ResolveFrom(d, reader.source, reader.id), "unreadable")
  BY <1>1, <1>2 DEF Learned, LearnedAnswer
<1>4. reader.answer = ResolveFrom(d, reader.source, reader.id)
  BY <1>1, <1>3 DEF Same, Granted, MUTABLE_STATES, DELETABLE_STATES
<1>5. reader.id \in Id
  BY <1>1 DEF ReadInv, ReaderOK, ReaderRec, NoSource
<1> QED
  BY <1>1, <1>2, <1>4, <1>5 DEF Beneath, Granting

-----------------------------------------------------------------------------
\* What a change of the disk leaves alone.

Node(d, n, s) == d.dirs[n].states[s]
AllCan == {"stat", "search", "list"}

\* A state directory that is not there holds nothing.
AbsentEmpty == \A n \in DIRECTORIES, s \in States :
                 Node(disk, n, s).there \/ Node(disk, n, s).holds = {}

\* What is written of i in directory n; nothing becomes readable.
Untouched(d, e, n, i) ==
  /\ e.open \subseteq d.open /\ e.dirs[n].there = d.dirs[n].there
  /\ \A s \in States : i \in Node(e, n, s).holds <=> i \in Node(d, n, s).holds
\* What can be read of directory n; a new state directory is readable.
Steady(d, e, n) ==
  /\ e.open = d.open /\ e.dirs[n].there = d.dirs[n].there /\ e.dirs[n].can = d.dirs[n].can
  /\ \A s \in States :
       IF Node(d, n, s).there THEN Node(e, n, s).there /\ Node(e, n, s).can = Node(d, n, s).can
       ELSE Node(e, n, s).there => Node(e, n, s).can = AllCan

LEMMA LoseLeaves ==
  ASSUME DiskOK, AbsentEmpty, LosePermission
  PROVE  /\ AbsentEmpty'
         /\ \A n \in DIRECTORIES, i \in Id : Untouched(disk, disk', n, i)
<1>1. Degraded(disk', disk)
  BY LoseDegrades
<1>2. \A n \in DIRECTORIES, s \in States :
        /\ Node(disk', n, s).there = Node(disk, n, s).there
        /\ Node(disk', n, s).holds = Node(disk, n, s).holds
  BY <1>1 DEF Degraded, LessDirectory, LessStateDir, Node
<1>3. AbsentEmpty'
  BY <1>2 DEF AbsentEmpty, Node
<1> QED
  BY <1>1, <1>2, <1>3 DEF Degraded, LessDirectory, Untouched

\* A move of one id's marker is a change to that id alone.
LEMMA MoveLeaves ==
  ASSUME DiskOK, AbsentEmpty, NEW m \in DIRECTORIES, NEW j \in Id, NEW s \in States,
         NEW t \in States, Move(m, j, s, t)
  PROVE  /\ AbsentEmpty'
         /\ \A n \in DIRECTORIES : Steady(disk, disk', n)
         /\ \A n \in DIRECTORIES, i \in Id \ {j} : Untouched(disk, disk', n, i)
<1> DEFINE states == disk.dirs[m].states
           to == [there |-> TRUE, holds |-> states[t].holds \cup {j},
                  can |-> IF states[t].there THEN states[t].can ELSE {"stat", "search", "list"}]
           moved == [states EXCEPT ![s].holds = @ \ {j}, ![t] = to]
           x == [disk.dirs[m] EXCEPT !.states = moved]
<1>1. disk.dirs[m] \in Directory /\ states \in [States -> StateDir] /\ disk \in Disk
  BY DEF DiskOK, Disk, Directory
<1>2. disk' = [disk EXCEPT !.dirs[m] = x] /\ t # s
  BY DEF Move, Work, Disturb
<1>3. /\ disk'.open = disk.open
      /\ \A n \in DIRECTORIES : /\ disk'.dirs[n].there = disk.dirs[n].there
                                /\ disk'.dirs[n].can = disk.dirs[n].can
      /\ \A n \in DIRECTORIES : n # m => disk'.dirs[n] = disk.dirs[n]
      /\ disk'.dirs[m].states = moved
  BY <1>1, <1>2 DEF Disk, Directory
<1>4. /\ \A r \in States : r # s /\ r # t => Node(disk', m, r) = Node(disk, m, r)
      /\ Node(disk', m, s).there = Node(disk, m, s).there
      /\ Node(disk', m, s).can = Node(disk, m, s).can
      /\ Node(disk', m, s).holds = Node(disk, m, s).holds \ {j}
      /\ Node(disk', m, t).there = TRUE
      /\ Node(disk', m, t).holds = Node(disk, m, t).holds \cup {j}
      /\ Node(disk', m, t).can = IF Node(disk, m, t).there THEN Node(disk, m, t).can ELSE AllCan
  <2>1. states[s] \in StateDir /\ states[t] \in StateDir
    BY <1>1
  <2>2. \A r \in States : moved[r] = IF r = t THEN to
                                     ELSE IF r = s THEN [states[s] EXCEPT !.holds = @ \ {j}]
                                     ELSE states[r]
    BY <1>1, <1>2
  <2>3. \A r \in States : Node(disk', m, r) = moved[r] /\ Node(disk, m, r) = states[r]
    BY <1>3 DEF Node
  <2>6. t # s
    BY <1>2
  <2> HIDE DEF moved, to
  <2>4. Node(disk', m, t) = to /\ Node(disk', m, s) = [states[s] EXCEPT !.holds = @ \ {j}]
    <3> HIDE DEF states
    <3> QED
      BY <2>2, <2>3, <2>6
  <2>5. \A r \in States : r # s /\ r # t => Node(disk', m, r) = Node(disk, m, r)
    BY <2>2, <2>3
  <2> USE DEF to
  <2> QED
    BY <2>1, <2>3, <2>4, <2>5 DEF AllCan, StateDir
<1>5. \A n \in DIRECTORIES, r \in States : n # m => Node(disk', n, r) = Node(disk, n, r)
  BY <1>3 DEF Node
<1>6. AbsentEmpty'
  <2>1. \A n \in DIRECTORIES, r \in States : Node(disk', n, r).there \/ Node(disk', n, r).holds = {}
    BY <1>4, <1>5 DEF AbsentEmpty
  <2> QED
    BY <2>1 DEF AbsentEmpty, Node
<1>7. \A n \in DIRECTORIES : Steady(disk, disk', n)
  BY <1>3, <1>4, <1>5 DEF Steady
<1>8. \A n \in DIRECTORIES, i \in Id \ {j} : Untouched(disk, disk', n, i)
  BY <1>3, <1>4, <1>5 DEF Untouched
<1> QED
  BY <1>6, <1>7, <1>8

LEMMA FactoryLeaves ==
  ASSUME DiskOK, AbsentEmpty, Factory
  PROVE  /\ AbsentEmpty'
         /\ \E ids \in SUBSET Id :
              /\ Disturb(disk', TRUE, ids)
              /\ \/ ids = Id
                 \/ /\ \A n \in DIRECTORIES : Steady(disk, disk', n)
                    /\ \A n \in DIRECTORIES, i \in Id \ ids : Untouched(disk, disk', n, i)
<1> DEFINE Leaves == /\ AbsentEmpty'
                     /\ \E ids \in SUBSET Id :
                          /\ Disturb(disk', TRUE, ids)
                          /\ \/ ids = Id
                             \/ /\ \A n \in DIRECTORIES : Steady(disk, disk', n)
                                /\ \A n \in DIRECTORIES, i \in Id \ ids :
                                     Untouched(disk, disk', n, i)
<1>0. \A d, ids : Work(d, ids) => Disturb(disk', TRUE, ids)
  BY DEF Work, Disturb
<1>1. ASSUME NEW n \in DIRECTORIES, NEW i \in Id, NEW s \in States, NEW t \in States,
             Move(n, i, s, t)
      PROVE  Leaves
  <2>1. Disturb(disk', TRUE, {i}) /\ {i} \in SUBSET Id
    <3> HIDE DEF Leaves
    <3> QED
      BY <1>0, <1>1 DEF Move
  <2> QED
    BY <1>1, <2>1, MoveLeaves
<1>2. ASSUME NEW n \in DIRECTORIES, Vanish(n) \/ Return(n)  PROVE Leaves
  <2>1. Disturb(disk', TRUE, Id)
    BY <1>0, <1>2 DEF Vanish, Return
  <2>2. PICK b \in BOOLEAN : disk' = [disk EXCEPT !.dirs[n] = [disk.dirs[n] EXCEPT !.there = b]]
    BY <1>2 DEF Vanish, Return, Work, Disturb
  <2>3. \A m \in DIRECTORIES, s \in States : Node(disk', m, s) = Node(disk, m, s)
    BY <2>2 DEF Node, DiskOK, Disk, Directory
  <2>4. AbsentEmpty'
    BY <2>3 DEF AbsentEmpty, Node
  <2> QED
    BY <2>1, <2>4
<1>3. ASSUME NEW i \in Id, NEW said, Report(i, said)  PROVE Leaves
  <2>1. Disturb(disk', TRUE, {i}) /\ {i} \in SUBSET Id
    BY <1>0, <1>3 DEF Report
  <2>2. disk'.dirs = disk.dirs /\ disk'.open = disk.open
    BY <1>3 DEF Report, Work, Disturb, DiskOK, Disk
  <2>3. AbsentEmpty'
    BY <2>2 DEF AbsentEmpty, Node
  <2>4. \A n \in DIRECTORIES : Steady(disk, disk', n) /\ \A j \in Id : Untouched(disk, disk', n, j)
    BY <2>2 DEF Steady, Untouched, Node
  <2> QED
    BY <2>1, <2>3, <2>4
<1> QED
  BY <1>1, <1>2, <1>3 DEF Factory

\* The reader during a change: its calls stand still, its histories move on.
SameCalls ==
  /\ reader'.form = reader.form /\ reader'.id = reader.id /\ reader'.source = reader.source
  /\ reader'.json = reader.json /\ reader'.blind = reader.blind /\ reader'.names = reader.names
  /\ reader'.lists = reader.lists /\ reader'.at = reader.at /\ reader'.k = reader.k
  /\ reader'.answer = reader.answer

LEMMA ChangeLeaves ==
  ASSUME ReaderOK, DiskOK, AbsentEmpty, LosePermission \/ Factory, reader # Idle
  PROVE  /\ AbsentEmpty' /\ SameCalls
         /\ reader.stirred \subseteq reader'.stirred /\ (reader'.kept => reader.kept)
         /\ \A n \in DIRECTORIES, i \in Id \ reader'.stirred : Untouched(disk, disk', n, i)
         /\ reader'.kept /\ reader'.stirred # Id =>
              \A n \in DIRECTORIES : Steady(disk, disk', n)
         /\ reader.source # NoSource =>
              truth' = [i \in Id |-> truth[i] \cup {ResolveFrom(disk', reader.source, i)}]
<1>0. reader.stirred \in SUBSET Id
  BY DEF ReaderOK, ReaderRec
<1>1. ASSUME NEW kept \in BOOLEAN, NEW ids \in SUBSET Id, Disturb(disk', kept, ids)
      PROVE  /\ SameCalls /\ reader'.kept = (reader.kept /\ kept)
             /\ reader'.stirred = reader.stirred \cup ids
             /\ reader.source # NoSource =>
                  truth' = [i \in Id |-> truth[i] \cup {ResolveFrom(disk', reader.source, i)}]
  BY <1>1, DisturbDoes DEF SameCalls
<1>2. CASE LosePermission
  <2>1. Disturb(disk', FALSE, {})
    BY <1>2, ChangesDisturb
  <2>2. /\ SameCalls /\ reader'.kept = (reader.kept /\ FALSE)
        /\ reader'.stirred = reader.stirred \cup {}
        /\ reader.source # NoSource =>
             truth' = [i \in Id |-> truth[i] \cup {ResolveFrom(disk', reader.source, i)}]
    BY <1>1, <2>1
  <2> QED
    BY <1>2, <2>2, LoseLeaves
<1>3. CASE Factory
  <2>1. PICK ids \in SUBSET Id :
          /\ Disturb(disk', TRUE, ids)
          /\ \/ ids = Id
             \/ /\ \A n \in DIRECTORIES : Steady(disk, disk', n)
                /\ \A n \in DIRECTORIES, i \in Id \ ids : Untouched(disk, disk', n, i)
    BY <1>3, FactoryLeaves
  <2>2. /\ SameCalls /\ reader'.kept = (reader.kept /\ TRUE)
        /\ reader'.stirred = reader.stirred \cup ids
        /\ reader.source # NoSource =>
             truth' = [i \in Id |-> truth[i] \cup {ResolveFrom(disk', reader.source, i)}]
    BY <1>1, <2>1
  <2>3. AbsentEmpty'
    BY <1>3, FactoryLeaves
  <2> QED
    BY <1>0, <2>1, <2>2, <2>3
<1> QED
  BY <1>2, <1>3

-----------------------------------------------------------------------------
\* What the source found says now is among the answers it gave.

TruthNow == reader.source # NoSource =>
              \A i \in Id : ResolveFrom(disk, reader.source, i) \in truth[i]
JsonHeld == reader.at = JsonStep /\ Told =>
              /\ reader.answer = ResolveJson(reader.json, reader.id)
              /\ \A i \in Id : ResolveJson(reader.json, i) \in truth[i]

Calls == \/ ReadSource \/ CheckPresent \/ Canary \/ Discover \/ Scan \/ Foreigners
         \/ Walk \/ Recheck \/ Conclude \/ \E i \in Id : AskAgain(i)

LEMMA TruthStep ==
  ASSUME ReaderOK, DiskOK, AbsentEmpty, TruthNow, JsonHeld, [Next]_vars
  PROVE  TruthNow' /\ JsonHeld'
<1>0. ReaderOK' /\ reader.at # 0 => reader # Idle
  BY ReaderStep, IdleIs
<1>1. ASSUME NEW form \in Forms, NEW i \in Id, Start(form, i)  PROVE TruthNow' /\ JsonHeld'
  BY <1>1, StartDoes DEF TruthNow, JsonHeld, Told
<1>2. CASE FindLocation
  <2>0. reader.at = 1 /\ reader.source = NoSource
    BY <1>2, FindDoes DEF ReaderOK
  <2>1. CASE Nexted(reader) \/ Replied("unknown")
    BY <2>0, <2>1 DEF Nexted, Replied, Rest, TruthNow, JsonHeld, JsonStep
  <2>2. CASE Found(reader.k)
    BY <2>2 DEF Found, TruthNow, JsonHeld, Told
  <2> QED
    BY <1>2, <2>1, <2>2, FindDoes
<1>3. CASE Calls
  <2>1. Held /\ reader'.source = reader.source
    BY <1>3, CallKeeps DEF Calls
  <2>2. TruthNow'
    BY <2>1 DEF TruthNow, Held
  <2>3. CASE ReadSource
    <3>1. /\ reader.at = JsonStep /\ reader'.json = ReadJson(disk) /\ reader'.id = reader.id
          /\ reader'.answer = ResolveJson(ReadJson(disk), reader.id)
      BY <2>3, ReadDoes
    <3>2. reader.source = JSON /\ JSON # NoSource
      BY <3>1 DEF ReaderOK, JsonStep, JSON, NoSource
    <3>3. \A i \in Id : ResolveFrom(disk, JSON, i) = ResolveJson(ReadJson(disk), i)
      BY <3>2 DEF ResolveFrom
    <3> QED
      BY <2>1, <2>2, <3>1, <3>2, <3>3 DEF TruthNow, JsonHeld, Held
  <2>4. ASSUME NEW i \in Id, AskAgain(i)  PROVE JsonHeld'
    <3>1. /\ Told /\ reader'.json = reader.json
          /\ \/ reader'.answer = "none"
             \/ /\ reader'.at = reader.at /\ reader'.id = i
                /\ reader'.answer = ResolveJson(reader.json, i)
      BY <2>4, AskDoes
    <3> QED
      BY <2>1, <3>1 DEF JsonHeld, Told, Held
  <2>5. CASE CheckPresent \/ Canary \/ Discover \/ Scan \/ Foreigners \/ Walk \/ Recheck \/ Conclude
    <3>1. reader.at \in 2 .. 9
      BY <2>5, PresentDoes, CanaryDoes, DiscoverDoes, ScanDoes, ForeignersDo, WalkDoes,
         ConcludeDoes DEF AtScan, AtWalk
    <3>2. reader'.at # JsonStep
      <4>1. reader.source # JSON /\ reader'.source # JSON
        BY <2>1, <3>1 DEF ReaderOK, JsonStep
      <4> QED
        BY <1>0, <4>1, ReaderStep DEF ReaderOK, JsonStep
    <3> QED
      BY <2>2, <3>2 DEF JsonHeld
  <2> QED
    BY <1>3, <2>2, <2>3, <2>4, <2>5 DEF Calls
<1>4. CASE LosePermission \/ Factory
  <2>1. CASE reader.source = NoSource
    <3>1. reader.at # JsonStep
      BY <2>1 DEF ReaderOK, JsonStep, JSON, NoSource
    <3>2. reader'.at = reader.at /\ reader'.source = reader.source
      BY <1>4, ChangesDisturb, DisturbDoes
    <3> QED
      BY <2>1, <3>1, <3>2 DEF TruthNow, JsonHeld
  <2>2. CASE reader.source # NoSource
    <3>1. SameCalls /\
          truth' = [i \in Id |-> truth[i] \cup {ResolveFrom(disk', reader.source, i)}]
      BY <1>4, <2>2, IdleIs, ChangeLeaves
    <3> QED
      BY <2>2, <3>1 DEF SameCalls, TruthNow, JsonHeld, Told
  <2> QED
    BY <2>1, <2>2
<1>5. CASE UNCHANGED vars
  BY <1>5 DEF vars, TruthNow, JsonHeld, Told
<1> QED
  BY <1>1, <1>2, <1>3, <1>4, <1>5 DEF Next, Reader, Calls

-----------------------------------------------------------------------------
\* A marker that stays in place protects its ticket, whatever else happens.

Lookable(d, n, s) == Node(d, n, s).there => {"stat", "search"} \subseteq Node(d, n, s).can
HeldIn(s) == reader.id \in Node(disk, reader.source, s).holds
\* The positions of the walk that said no.
Passed == {j \in 1 .. 4 : Walked \/ (AtWalk /\ j < reader.k)}

KeptPresent == reader.stirred # Id => There(disk, reader.source) \/ ~Open(disk, reader.source)
KeptNamed ==
  Discovered /\ ~reader.blind =>
    \A i \in Id \ reader.stirred, s \in Foreign :
      i \in Node(disk, reader.source, s).holds => s \in reader.names
KeptForeign == Cleared /\ Unstirred => ~reader.blind /\ \A s \in reader.names : ~HeldIn(s)
KeptMarkers == Unstirred => \A j \in Passed : ~HeldIn(MARKER_PRECEDENCE[j])
ProtInv ==
  reader.source \in DIRECTORIES =>
    KeptPresent /\ KeptNamed /\ KeptForeign /\ KeptMarkers /\ MarkerProtects

LEMMA NoIs ==
  ASSUME AbsentEmpty, NEW n \in DIRECTORIES, NEW s \in States, NEW i,
         There(disk, n) \/ ~Open(disk, n), NodeExists(disk, n, s, i) = "no"
  PROVE  /\ i \notin Node(disk, n, s).holds /\ Lookable(disk, n, s)
         /\ Open(disk, n) /\ There(disk, n) /\ Inside(disk, n) = "yes"
         /\ "search" \in disk.dirs[n].can
<1>1. Inside(disk, n) = "yes" /\ Open(disk, n) /\ There(disk, n) /\ "search" \in disk.dirs[n].can
  BY DEF NodeExists, Inside, There, DIRECTORIES, JSON
<1>2. CASE ~Node(disk, n, s).there
  BY <1>1, <1>2 DEF AbsentEmpty, Lookable
<1>3. CASE Node(disk, n, s).there
  BY <1>1, <1>3 DEF NodeExists, Node, Lookable, Tell
<1> QED
  BY <1>1, <1>2, <1>3

\* The markers that were ruled out leave todo.
LEMMA OnlyTodo ==
  ASSUME ReaderOK, reader.source \in DIRECTORIES, KeptNamed, KeptForeign, Discovered, Cleared,
         Unstirred, \A j \in 1 .. 3 : ~HeldIn(MARKER_PRECEDENCE[j])
  PROVE  MarkedIn(reader.source, reader.id) \subseteq {"todo"}
<1>1. reader.id \in Id \ reader.stirred
  BY DEF ReaderOK, ReaderRec, Unstirred, NoSource, DIRECTORIES
<1>2. \A s \in Foreign : ~HeldIn(s)
  BY <1>1 DEF KeptNamed, KeptForeign, HeldIn
<1>3. \A s \in Known : HeldIn(s) => s = "todo"
  BY DEF Known, MARKER_PRECEDENCE
<1> QED
  BY <1>2, <1>3 DEF MarkedIn, States, HeldIn, Node

\* What the calls of a read keep, step by step; the disk is held.
LEMMA ProtReply ==
  ASSUME ReaderOK, ProtInv, reader.source \in DIRECTORIES, NEW a, Replied(a),
         Unstirred /\ "delete" \in Granted(a) =>
           MarkedIn(reader.source, reader.id) \subseteq {"todo"}
  PROVE  ProtInv'
<1>1. /\ disk' = disk
      /\ reader'.form = reader.form /\ reader'.id = reader.id /\ reader'.source = reader.source
      /\ reader'.blind = reader.blind /\ reader'.names = reader.names
      /\ reader'.stirred = reader.stirred
      /\ reader'.at = reader.at /\ reader'.k = reader.k /\ reader'.answer = a
  BY DEF Replied, Rest, Held
<1>2. KeptPresent' /\ KeptNamed'
  BY <1>1 DEF ProtInv, KeptPresent, KeptNamed, Discovered
<1>3. KeptForeign' /\ KeptMarkers'
  BY <1>1 DEF ProtInv, KeptForeign, KeptMarkers, Unstirred, Cleared, Passed, AtWalk, Walked, HeldIn
<1>4. MarkerProtects'
  BY <1>1 DEF MarkerProtects, Unstirred, Grants, MarkedIn
<1> QED
  BY <1>2, <1>3, <1>4 DEF ProtInv

LEMMA ProtNext ==
  ASSUME ReaderOK, ProtInv, reader.source \in DIRECTORIES, disk' = disk, reader'.answer = "none",
         reader'.form = reader.form, reader'.id = reader.id, reader'.source = reader.source,
         reader'.blind = reader.blind, reader'.names = reader.names,
         reader'.stirred = reader.stirred,
         Discovered' => Discovered,
         Cleared' /\ Unstirred /\ ~Cleared =>
           ~reader.blind /\ \A s \in reader.names : ~HeldIn(s),
         Unstirred => \A j \in Passed' : j \in Passed \/ ~HeldIn(MARKER_PRECEDENCE[j])
  PROVE  ProtInv'
<1>1. KeptPresent' /\ KeptNamed' /\ MarkerProtects'
  BY DEF ProtInv, KeptPresent, KeptNamed, MarkerProtects, Grants, Told
<1>2. KeptForeign'
  BY DEF ProtInv, KeptForeign, Unstirred, HeldIn
<1>3. KeptMarkers'
  BY DEF ProtInv, KeptMarkers, Unstirred, HeldIn
<1> QED
  BY <1>1, <1>2, <1>3 DEF ProtInv

LEMMA ProtFind ==
  ASSUME ReaderOK, FindLocation
  PROVE  ProtInv'
<1>1. CASE Nexted(reader) \/ (\E a : Replied(a))
  <2>1. reader'.source = NoSource
    BY <1>1, FindDoes DEF ReaderOK, Nexted, Replied, Rest
  <2> QED
    BY <2>1 DEF ProtInv, NoSource, DIRECTORIES
<1>2. CASE IsPresent(disk, reader.k) # "no" /\ Found(reader.k)
  <2> SUFFICES ASSUME reader'.source \in DIRECTORIES  PROVE ProtInv'
    BY DEF ProtInv
  <2>1. /\ disk' = disk /\ reader'.source = reader.k /\ reader'.at = 2 /\ reader'.answer = "none"
        /\ reader'.form \in {"resolver", "single"}
    BY <1>2 DEF Found, DIRECTORIES, JSON, ReaderRec
  <2>2. ~Discovered' /\ ~Cleared' /\ Passed' = {}
    BY <2>1 DEF Discovered, Cleared, Passed, AtWalk, Walked
  <2>3. KeptPresent'
    BY <1>2, <2>1 DEF KeptPresent, IsPresent, Tell
  <2>4. KeptNamed' /\ KeptForeign' /\ KeptMarkers' /\ MarkerProtects'
    BY <2>1, <2>2 DEF KeptNamed, KeptForeign, KeptMarkers, MarkerProtects, Grants, Told
  <2> QED
    BY <2>3, <2>4 DEF ProtInv
<1> QED
  BY <1>1, <1>2, FindDoes

LEMMA ProtCalls ==
  ASSUME ReaderOK, DiskOK, AbsentEmpty, ProtInv, Calls
  PROVE  ProtInv'
<1> DEFINE n == reader.source
           first == IF reader.form = "resolver" THEN 4 ELSE 2
<1>0. reader'.source = n /\ reader'.stirred = reader.stirred /\ disk' = disk
  BY CallKeeps DEF Calls, Held
<1> SUFFICES ASSUME n \in DIRECTORIES  PROVE ProtInv'
  BY <1>0 DEF ProtInv
<1>1. /\ reader.form \in {"resolver", "single"} /\ reader.id \in Id /\ reader.at \in 2 .. 9
      /\ n # JSON /\ n # NoSource
  BY DEF ReaderOK, ReaderRec, NoSource, DIRECTORIES, JSON, JsonStep
<1>2. Unstirred => reader.stirred # Id /\ (There(disk, n) \/ ~Open(disk, n))
  BY <1>1 DEF Unstirred, ProtInv, KeptPresent
\* On to the next call, with nothing new ruled out.
<1>3. ASSUME Proceeded(reader), ~AtWalk, reader.at # first, reader.at # 9,
             reader.form = "single" => reader.at # 7,
             reader.at = (IF reader.form = "resolver" THEN 6 ELSE 3) /\ Unstirred =>
               ~reader.blind /\ \A s \in reader.names : ~HeldIn(s)
      PROVE  ProtInv'
  <2>1. /\ reader'.answer = "none" /\ reader'.at = reader.at + 1 /\ reader'.k = 1
        /\ reader'.form = reader.form /\ reader'.id = reader.id /\ reader'.blind = reader.blind
        /\ reader'.names = reader.names
    BY <1>3 DEF Proceeded, Rest
  <2>2. /\ Discovered' => Discovered
        /\ Cleared' => Cleared \/ reader.at = (IF reader.form = "resolver" THEN 6 ELSE 3)
        /\ Passed' \subseteq Passed
    BY <1>1, <1>3, <2>1 DEF Discovered, Cleared, Passed, Walked, AtWalk, JsonStep
  <2> QED
    BY <1>0, <1>3, <2>1, <2>2, ProtNext
<1>4. CASE CheckPresent \/ Recheck
  <2>1. CASE Proceeded(reader)
    BY <1>1, <1>3, <1>4, <2>1, PresentDoes DEF AtWalk
  <2>2. CASE IsPresent(disk, n) = "error" /\ Replied("unreadable")
    BY <2>2, ProtReply DEF Granted, MUTABLE_STATES, DELETABLE_STATES
  <2>3. CASE IsPresent(disk, n) = "no" /\ Replied("unknown")
    <3>1. ~Unstirred
      BY <1>2, <2>3 DEF IsPresent, Tell
    <3> QED
      BY <2>3, <3>1, ProtReply
  <2> QED
    BY <1>4, <2>1, <2>2, <2>3, PresentDoes
<1>5. CASE Canary
  <2>1. CASE Proceeded(reader)
    BY <1>1, <1>3, <1>5, <2>1, CanaryDoes DEF AtWalk
  <2>2. CASE Replied("unreadable")
    BY <2>2, ProtReply DEF Granted, MUTABLE_STATES, DELETABLE_STATES
  <2> QED
    BY <1>5, <2>1, <2>2, CanaryDoes
<1>6. CASE Discover
  <2>1. /\ reader.at = first
        /\ reader'.form = reader.form /\ reader'.id = reader.id
        /\ reader'.at = reader.at + 1 /\ reader'.k = 1 /\ reader'.answer = "none"
        /\ reader'.blind = Undiscoverable(disk, n)
        /\ reader'.names = UnrecognisedNames(disk, n)
    BY <1>6, DiscoverDoes
  <2>2. ~Cleared' /\ Passed' = {} /\ ~Told'
    BY <1>1, <2>1 DEF Cleared, Passed, AtWalk, Walked, Told
  <2>3. KeptPresent'
    BY <1>0 DEF ProtInv, KeptPresent
  <2>4. KeptNamed'
    <3> SUFFICES ASSUME ~Undiscoverable(disk, n), NEW i \in Id \ reader.stirred, NEW s \in Foreign,
                        i \in Node(disk, n, s).holds
                 PROVE  s \in UnrecognisedNames(disk, n)
      BY <1>0, <2>1 DEF KeptNamed
    <3>1. disk.dirs[n].there
      <4>1. There(disk, n) \/ ~Open(disk, n)
        BY DEF ProtInv, KeptPresent
      <4> QED
        BY <1>1, <4>1 DEF There, Undiscoverable
    <3>2. Node(disk, n, s).there
      BY DEF AbsentEmpty, States
    <3> QED
      BY <3>1, <3>2 DEF UnrecognisedNames, Node
  <2> QED
    BY <2>2, <2>3, <2>4 DEF ProtInv, KeptForeign, KeptMarkers, MarkerProtects, Grants
<1>7. CASE Foreigners
  <2>1. reader.at = IF reader.form = "resolver" THEN 6 ELSE 3
    BY <1>7, ForeignersDo
  <2>2. CASE Replied("unreadable")
    BY <2>2, ProtReply DEF Granted, MUTABLE_STATES, DELETABLE_STATES
  <2>3. CASE /\ ~reader.blind /\ ~ForeignMayName(disk, n, reader.names, reader.id)
             /\ Proceeded(reader)
    <3>1. ASSUME Unstirred, NEW s \in reader.names  PROVE ~HeldIn(s)
      <4>1. NodeExists(disk, n, s, reader.id) = "no" /\ s \in States
        BY <2>3 DEF ForeignMayName, ReaderOK, ReaderRec, States
      <4> QED
        BY <1>2, <3>1, <4>1, NoIs DEF HeldIn
    <3> QED
      BY <1>1, <1>3, <2>1, <2>3, <3>1 DEF AtWalk
  <2> QED
    BY <1>7, <2>2, <2>3, ForeignersDo
<1>8. CASE Walk
  <2> DEFINE told == NodeExists(disk, n, MARKER_PRECEDENCE[reader.k], reader.id)
  <2>1. AtWalk /\ reader.k \in 1 .. 4 /\ Discovered /\ Cleared
    BY <1>1, <1>8, WalkDoes DEF AtWalk, Discovered, Cleared, JsonStep
  <2>2. Passed = 1 .. reader.k - 1
    BY <1>1, <2>1 DEF Passed, AtWalk, Walked, JsonStep
  <2>3. MARKER_PRECEDENCE[reader.k] \in Known /\ MARKER_PRECEDENCE[reader.k] \in States
    BY <2>1, MarkersAre DEF States
  <2>4. CASE Replied(MARKER_PRECEDENCE[reader.k])
    <3>1. MARKER_PRECEDENCE[reader.k] \in DELETABLE_STATES => reader.k = 4
      BY <2>1 DEF MARKER_PRECEDENCE, DELETABLE_STATES, MUTABLE_STATES
    <3>2. Unstirred /\ reader.k = 4 => MarkedIn(n, reader.id) \subseteq {"todo"}
      <4>1. Unstirred /\ reader.k = 4 => \A j \in 1 .. 3 : ~HeldIn(MARKER_PRECEDENCE[j])
        BY <2>2 DEF ProtInv, KeptMarkers
      <4> QED
        BY <2>1, <4>1, OnlyTodo DEF ProtInv
    <3>3. "delete" \in Granted(MARKER_PRECEDENCE[reader.k]) =>
            MARKER_PRECEDENCE[reader.k] \in DELETABLE_STATES
      BY DEF Granted
    <3> QED
      BY <2>4, <3>1, <3>2, <3>3, ProtReply
  <2>5. CASE Replied("unreadable")
    BY <2>5, ProtReply DEF Granted, MUTABLE_STATES, DELETABLE_STATES
  <2>6. CASE told = "no" /\ ((reader.k < 4 /\ Nexted(reader)) \/ (reader.k = 4 /\ Proceeded(reader)))
    <3>1. Unstirred => ~HeldIn(MARKER_PRECEDENCE[reader.k])
      BY <1>2, <2>3, <2>6, NoIs DEF HeldIn
    <3>2. /\ reader'.answer = "none" /\ reader'.form = reader.form /\ reader'.id = reader.id
          /\ reader'.blind = reader.blind /\ reader'.names = reader.names
          /\ \/ reader'.at = reader.at /\ reader'.k = reader.k + 1
             \/ reader'.at = reader.at + 1 /\ reader.k = 4
      BY <2>6 DEF Nexted, Proceeded, Rest
    <3>3. \A j \in Passed' : j \in Passed \/ j = reader.k
      BY <1>1, <2>1, <2>2, <3>2 DEF Passed, AtWalk, Walked, JsonStep
    <3> QED
      BY <1>0, <2>1, <3>1, <3>2, <3>3, ProtNext
  <2>7. \/ Replied(MARKER_PRECEDENCE[reader.k]) \/ Replied("unreadable")
        \/ told = "no" /\ reader.k < 4 /\ Nexted(reader)
        \/ told = "no" /\ reader.k = 4 /\ Proceeded(reader)
    BY <1>8, WalkDoes
  <2> QED
    BY <2>4, <2>5, <2>6, <2>7
<1>9. CASE Scan
  <2>1. /\ AtScan /\ reader'.answer = "none" /\ reader'.form = reader.form
        /\ reader'.id = reader.id /\ reader'.blind = reader.blind /\ reader'.names = reader.names
        /\ reader'.at \in {reader.at, reader.at + 1}
    BY <1>9, ScanDoes DEF Listing
  <2>2. (Discovered' => Discovered) /\ (Cleared' => Cleared) /\ Passed' \subseteq Passed
    BY <1>1, <2>1 DEF Discovered, Cleared, Passed, Walked, AtWalk, AtScan, JsonStep
  <2> QED
    BY <1>0, <2>1, <2>2, ProtNext
<1>10. CASE Conclude
  <2>1. Discovered /\ Cleared /\ Walked
    BY <1>1, <1>10, ConcludeDoes DEF Discovered, Cleared, Walked, JsonStep
  <2>2. Unstirred => \A j \in 1 .. 3 : ~HeldIn(MARKER_PRECEDENCE[j])
    BY <2>1 DEF ProtInv, KeptMarkers, Passed
  <2> QED
    BY <1>10, <2>1, <2>2, ConcludeDoes, OnlyTodo, ProtReply DEF ProtInv
<1>11. ASSUME NEW i \in Id, AskAgain(i)  PROVE ProtInv'
  <2>1. /\ reader.form = "resolver" /\ reader'.form = reader.form /\ reader.at >= 6
        /\ reader'.blind = reader.blind /\ reader'.names = reader.names
        /\ reader'.at = 6 /\ reader'.k = 1 /\ reader'.answer = "none"
    BY <1>1, <1>11, AskDoes DEF PerId
  <2>2. ~Cleared' /\ Passed' = {} /\ ~Told' /\ Discovered
    BY <1>1, <2>1 DEF Cleared, Passed, AtWalk, Walked, Told, Discovered, JsonStep
  <2>3. KeptPresent' /\ KeptNamed'
    BY <1>0, <2>1, <2>2 DEF ProtInv, KeptPresent, KeptNamed
  <2> QED
    BY <2>2, <2>3 DEF ProtInv, KeptForeign, KeptMarkers, MarkerProtects, Grants
<1>12. ~ReadSource
  BY <1>1, ReadDoes DEF JsonStep
<1> QED
  BY <1>4, <1>5, <1>6, <1>7, <1>8, <1>9, <1>10, <1>11, <1>12 DEF Calls

LEMMA ProtChange ==
  ASSUME ReaderOK, DiskOK, AbsentEmpty, ProtInv, LosePermission \/ Factory
  PROVE  ProtInv'
<1> DEFINE n == reader.source
<1>1. reader'.source = n
  BY ChangesDisturb, DisturbDoes
<1> SUFFICES ASSUME n \in DIRECTORIES  PROVE ProtInv'
  BY <1>1 DEF ProtInv
<1>2. /\ SameCalls /\ reader.stirred \subseteq reader'.stirred /\ reader'.stirred \in SUBSET Id
      /\ \A i \in Id \ reader'.stirred : Untouched(disk, disk', n, i)
  <2>1. reader # Idle
    BY IdleIs DEF NoSource, DIRECTORIES
  <2> QED
    BY <2>1, ChangeLeaves, ReaderStep DEF Next, ReaderOK, ReaderRec
<1>3. /\ reader'.form = reader.form /\ reader'.id = reader.id /\ reader'.blind = reader.blind
      /\ reader'.names = reader.names /\ reader'.at = reader.at /\ reader'.k = reader.k
      /\ reader'.answer = reader.answer /\ reader.id \in Id /\ reader.names \in SUBSET Foreign
  BY <1>2 DEF SameCalls, ReaderOK, ReaderRec, NoSource, DIRECTORIES
<1>4. ASSUME reader'.stirred # Id
      PROVE  /\ reader.stirred # Id
             /\ There(disk', n) = There(disk, n) /\ (Open(disk', n) => Open(disk, n))
  <2>1. PICK i \in Id \ reader'.stirred : Untouched(disk, disk', n, i)
    BY <1>2, <1>4
  <2> QED
    BY <1>2, <2>1 DEF Untouched, There, Open, JSON, DIRECTORIES
<1>5. ASSUME Unstirred'
      PROVE  /\ Unstirred
             /\ \A s \in States : HeldIn(s)' <=> HeldIn(s)
  BY <1>1, <1>2, <1>3, <1>5 DEF Unstirred, Untouched, HeldIn, Node
<1>6. KeptPresent'
  BY <1>1, <1>4 DEF ProtInv, KeptPresent
<1>7. KeptNamed'
  <2>1. Discovered' <=> Discovered
    BY <1>3 DEF Discovered
  <2>2. \A i \in Id \ reader'.stirred, s \in Foreign :
          /\ i \in Id \ reader.stirred
          /\ i \in Node(disk', n, s).holds => i \in Node(disk, n, s).holds
    BY <1>2 DEF Untouched, States
  <2> QED
    BY <1>1, <1>3, <2>1, <2>2 DEF ProtInv, KeptNamed, Node
<1>8. KeptForeign' /\ KeptMarkers'
  <2>1. /\ Cleared' <=> Cleared
        /\ Passed' = Passed /\ Passed \in SUBSET (1 .. 4)
    BY <1>3 DEF Cleared, Passed, AtWalk, Walked
  <2>2. \A j \in 1 .. 4 : MARKER_PRECEDENCE[j] \in States
    BY MarkersAre DEF States
  <2> QED
    BY <1>3, <1>5, <2>1, <2>2 DEF ProtInv, KeptForeign, KeptMarkers, States
<1>9. MarkerProtects'
  <2> SUFFICES ASSUME Unstirred', Grants("delete")'
               PROVE  MarkedIn(n, reader.id)' \subseteq {"todo"}
    BY <1>1 DEF MarkerProtects
  <2>1. Grants("delete")
    BY <1>1, <1>3 DEF Grants, Told
  <2>2. MarkedIn(n, reader.id) \subseteq {"todo"}
    BY <1>5, <2>1 DEF ProtInv, MarkerProtects
  <2>3. MarkedIn(n, reader.id)' = {s \in States : HeldIn(s)'}
    BY <1>1 DEF MarkedIn, HeldIn, Node
  <2>4. MarkedIn(n, reader.id) = {s \in States : HeldIn(s)}
    BY DEF MarkedIn, HeldIn, Node
  <2> QED
    BY <1>5, <2>2, <2>3, <2>4
<1> QED
  BY <1>6, <1>7, <1>8, <1>9 DEF ProtInv

LEMMA ProtStep ==
  ASSUME ReaderOK, DiskOK, AbsentEmpty, ProtInv, [Next]_vars
  PROVE  ProtInv'
<1>1. ASSUME NEW form \in Forms, NEW i \in Id, Start(form, i)  PROVE ProtInv'
  <2>1. reader'.source = NoSource
    BY <1>1, StartDoes
  <2> QED
    BY <2>1 DEF ProtInv, NoSource, DIRECTORIES
<1>2. CASE UNCHANGED vars
  <2>1. disk' = disk /\ reader' = reader
    BY <1>2 DEF vars
  <2>2. (KeptPresent' <=> KeptPresent) /\ (KeptNamed' <=> KeptNamed)
    BY <2>1 DEF KeptPresent, KeptNamed, Discovered, Node
  <2>3. (KeptForeign' <=> KeptForeign) /\ (KeptMarkers' <=> KeptMarkers)
    BY <2>1 DEF KeptForeign, KeptMarkers, Cleared, Passed, AtWalk, Walked, HeldIn, Unstirred, Node
  <2>4. MarkerProtects' <=> MarkerProtects
    BY <2>1 DEF MarkerProtects, Unstirred, Grants, Told, MarkedIn
  <2> QED
    BY <2>1, <2>2, <2>3, <2>4 DEF ProtInv
<1>3. CASE FindLocation
  BY <1>3, ProtFind
<1>4. CASE Calls
  BY <1>4, ProtCalls
<1>5. CASE LosePermission \/ Factory
  BY <1>5, ProtChange
<1> QED
  BY <1>1, <1>2, <1>3, <1>4, <1>5 DEF Next, Reader, Calls

LEMMA AbsentStep ==
  ASSUME DiskOK, AbsentEmpty, [Next]_vars
  PROVE  AbsentEmpty'
<1>1. CASE Reader \/ UNCHANGED vars
  <2>1. disk' = disk
    BY <1>1, ReaderOnlyReads DEF vars
  <2> QED
    BY <2>1 DEF AbsentEmpty, Node
<1> QED
  BY <1>1, LoseLeaves, FactoryLeaves DEF Next

-----------------------------------------------------------------------------
\* While permissions stay, what a read saw of a ticket that stays put was so at
\* one moment.

Listable(d, n, s) == Node(d, n, s).there => {"stat", "list"} \subseteq Node(d, n, s).can

FoundOpen ==
  Discovered /\ ~reader.blind /\ reader.stirred # Id =>
    /\ Open(disk, reader.source) /\ There(disk, reader.source)
    /\ "list" \in disk.dirs[reader.source].can
    /\ \A s \in Foreign \ reader.names :
         Node(disk, reader.source, s).there => Node(disk, reader.source, s).can = AllCan
ClearedOpen == Cleared /\ Unstirred => \A s \in reader.names : Lookable(disk, reader.source, s)
PassedOpen ==
  Unstirred => \A j \in Passed : /\ "search" \in disk.dirs[reader.source].can
                                 /\ Lookable(disk, reader.source, MARKER_PRECEDENCE[j])
ScannedOpen ==
  reader.stirred # Id /\ reader.lists = "no" =>
    /\ AtScan /\ ~Told =>
         \A j \in 1 .. reader.k - 1 : Listable(disk, reader.source, Order(reader.names)[j])
    /\ Scanned => ~reader.blind
                  /\ \A s \in Known \cup reader.names : Listable(disk, reader.source, s)
\* The disk that showed the scan a ticket.
ListedBefore ==
  Scanned /\ reader.lists = "yes" /\ reader.stirred # Id =>
    \E d : /\ ListsAnyTicket(d, reader.source, UnrecognisedNames(d, reader.source)) = "yes"
           /\ Steady(d, disk, reader.source)
           /\ \A i \in Id \ reader.stirred : Untouched(d, disk, reader.source, i)
           /\ \A i \in Id : ResolveFrom(d, reader.source, i) \in truth[i]
HeldInv ==
  /\ ~Scanned => reader.lists # "yes"
  /\ HeldStaysHeld
  /\ reader.source \in DIRECTORIES /\ reader.kept =>
       FoundOpen /\ ClearedOpen /\ PassedOpen /\ ScannedOpen /\ ListedBefore

LEMMA SteadyChain ==
  ASSUME NEW d, NEW e, NEW f, NEW n
  PROVE  /\ Steady(d, e, n) /\ Steady(e, f, n) => Steady(d, f, n)
         /\ \A i : Untouched(d, e, n, i) /\ Untouched(e, f, n, i) => Untouched(d, f, n, i)
         /\ Steady(d, d, n) /\ \A i : Untouched(d, d, n, i)
<1>1. Steady(d, e, n) /\ Steady(e, f, n) => Steady(d, f, n)
  BY DEF Steady
<1>2. \A i : Untouched(d, e, n, i) /\ Untouched(e, f, n, i) => Untouched(d, f, n, i)
  BY DEF Untouched
<1>3. Steady(d, d, n) /\ \A i : Untouched(d, d, n, i)
  BY DEF Steady, Untouched
<1> QED
  BY <1>1, <1>2, <1>3

\* What the calls of a read ruled out, they rule out on every disk since which
\* no permission went and the ticket asked about stayed put.
LEMMA SeenSince ==
  ASSUME ReaderOK, AbsentEmpty, ProtInv, HeldInv, reader.source \in DIRECTORIES, reader.kept,
         Unstirred, Discovered, Cleared, Passed # {},
         NEW d, Steady(d, disk, reader.source), Untouched(d, disk, reader.source, reader.id)
  PROVE  /\ Inside(d, reader.source) = "yes" /\ IsPresent(d, reader.source) = "yes"
         /\ ~Undiscoverable(d, reader.source)
         /\ ~ForeignMayName(d, reader.source, UnrecognisedNames(d, reader.source), reader.id)
         /\ \A j \in Passed :
              NodeExists(d, reader.source, MARKER_PRECEDENCE[j], reader.id) = "no"
<1> DEFINE n == reader.source
<1>1. /\ reader.id \in Id \ reader.stirred /\ ~reader.blind /\ n # JSON
      /\ reader.names \in SUBSET Foreign
  BY DEF ReaderOK, ReaderRec, Unstirred, NoSource, DIRECTORIES, ProtInv, KeptForeign, JSON
<1>2. /\ Open(disk, n) /\ disk.dirs[n].there /\ {"list", "search"} \subseteq disk.dirs[n].can
  <2>1. /\ Open(disk, n) /\ There(disk, n) /\ "list" \in disk.dirs[n].can
    BY <1>1 DEF HeldInv, FoundOpen
  <2>2. "search" \in disk.dirs[n].can
    BY DEF HeldInv, PassedOpen
  <2> QED
    BY <1>1, <2>1, <2>2 DEF There
<1>3. Open(d, n) /\ d.dirs[n].there /\ {"list", "search"} \subseteq d.dirs[n].can
  BY <1>2 DEF Steady, Open
<1>4. ASSUME NEW s \in States, ~HeldIn(s), Lookable(disk, n, s)
      PROVE  NodeExists(d, n, s, reader.id) = "no"
  <2>1. Node(d, n, s).there =>
          /\ {"stat", "search"} \subseteq Node(d, n, s).can
          /\ reader.id \notin Node(d, n, s).holds
    BY <1>4 DEF Steady, Untouched, Lookable, HeldIn
  <2> QED
    BY <1>3, <2>1 DEF NodeExists, Inside, Node, Tell
<1>5. ASSUME NEW s \in Foreign  PROVE NodeExists(d, n, s, reader.id) = "no"
  <2>1. ~HeldIn(s)
    BY <1>1 DEF ProtInv, KeptForeign, KeptNamed, HeldIn
  <2>2. Lookable(disk, n, s)
    <3>1. CASE s \in reader.names
      BY <3>1 DEF HeldInv, ClearedOpen
    <3>2. CASE s \notin reader.names
      BY <1>1, <3>2 DEF HeldInv, FoundOpen, Lookable, AllCan
    <3> QED
      BY <3>1, <3>2
  <2> QED
    BY <1>4, <2>1, <2>2 DEF States
<1>6. ASSUME NEW j \in Passed
      PROVE  NodeExists(d, n, MARKER_PRECEDENCE[j], reader.id) = "no"
  <2>1. ~HeldIn(MARKER_PRECEDENCE[j]) /\ Lookable(disk, n, MARKER_PRECEDENCE[j])
    BY DEF ProtInv, KeptMarkers, HeldInv, PassedOpen
  <2>2. MARKER_PRECEDENCE[j] \in States
    BY MarkersAre DEF Passed, States
  <2> QED
    BY <1>4, <2>1, <2>2
<1>7. ~ForeignMayName(d, n, UnrecognisedNames(d, n), reader.id)
  BY <1>5 DEF ForeignMayName, UnrecognisedNames
<1>8. Inside(d, n) = "yes" /\ IsPresent(d, n) = "yes" /\ ~Undiscoverable(d, n)
  BY <1>1, <1>3 DEF Inside, IsPresent, There, Tell, Undiscoverable
<1> QED
  BY <1>6, <1>7, <1>8

LEMMA HeldReply ==
  ASSUME ReaderOK, HeldInv, reader.source \in DIRECTORIES, NEW a, Replied(a),
         reader.kept /\ Unstirred /\ "delete" \in Granted(a) => Granting("delete")
  PROVE  HeldInv'
<1>1. /\ disk' = disk /\ truth' = truth
      /\ reader'.form = reader.form /\ reader'.id = reader.id /\ reader'.source = reader.source
      /\ reader'.blind = reader.blind /\ reader'.names = reader.names
      /\ reader'.lists = reader.lists /\ reader'.kept = reader.kept
      /\ reader'.stirred = reader.stirred
      /\ reader'.at = reader.at /\ reader'.k = reader.k /\ reader'.answer = a
  BY DEF Replied, Rest, Held
<1>2. /\ Discovered' <=> Discovered
      /\ Scanned' <=> Scanned
      /\ AtScan' <=> AtScan
      /\ Cleared' <=> Cleared
      /\ Unstirred' <=> Unstirred
      /\ Passed' = Passed
  BY <1>1 DEF Discovered, Scanned, AtScan, Cleared, Passed, AtWalk, Walked, Unstirred
<1>3. HeldStaysHeld'
  BY <1>1, <1>2 DEF HeldStaysHeld, Grants, Granting, Told
<1>4. (FoundOpen' <=> FoundOpen) /\ (ClearedOpen' <=> ClearedOpen) /\ (PassedOpen' <=> PassedOpen)
  BY <1>1, <1>2 DEF FoundOpen, ClearedOpen, PassedOpen, Node, Lookable
<1>5. (ScannedOpen => ScannedOpen') /\ (ListedBefore' <=> ListedBefore)
  <2>1. Told'
    BY AnswersAre DEF Replied, Told
  <2> QED
    BY <1>1, <1>2, <2>1 DEF ScannedOpen, ListedBefore, Node, Listable
<1> QED
  BY <1>1, <1>2, <1>3, <1>4, <1>5 DEF HeldInv

LEMMA HeldNext ==
  ASSUME ReaderOK, HeldInv, reader.source \in DIRECTORIES, Held, reader'.answer = "none",
         reader'.form = reader.form, reader'.id = reader.id, reader'.source = reader.source,
         reader'.blind = reader.blind, reader'.names = reader.names,
         reader'.lists = reader.lists, reader'.kept = reader.kept,
         reader'.stirred = reader.stirred,
         Discovered' => Discovered, Scanned' <=> Scanned, AtScan' => reader'.k = 1,
         Cleared' /\ Unstirred /\ ~Cleared =>
           \A s \in reader.names : Lookable(disk, reader.source, s),
         Unstirred => \A j \in Passed' :
           \/ j \in Passed
           \/ /\ "search" \in disk.dirs[reader.source].can
              /\ Lookable(disk, reader.source, MARKER_PRECEDENCE[j])
  PROVE  HeldInv'
<1>0. disk' = disk /\ truth' = truth /\ (Unstirred' <=> Unstirred)
  BY DEF Held, Unstirred
<1> SUFFICES ASSUME reader.kept
             PROVE  FoundOpen' /\ ClearedOpen' /\ PassedOpen' /\ ScannedOpen' /\ ListedBefore'
  BY DEF HeldInv, HeldStaysHeld, Grants, Told
<1>1. FoundOpen'
  BY <1>0 DEF HeldInv, FoundOpen, Node
<1>2. ClearedOpen'
  BY <1>0 DEF HeldInv, ClearedOpen, Lookable, Node
<1>3. PassedOpen'
  BY <1>0 DEF HeldInv, PassedOpen, Lookable, Node
<1>4. ScannedOpen'
  <2>1. AtScan' => 1 .. reader'.k - 1 = {}
    OBVIOUS
  <2>2. Scanned' /\ reader.stirred # Id /\ reader.lists = "no" =>
          ~reader.blind /\ \A s \in Known \cup reader.names : Listable(disk, reader.source, s)
    BY DEF HeldInv, ScannedOpen
  <2> QED
    BY <1>0, <2>1, <2>2 DEF ScannedOpen, Listable, Node
<1>5. ListedBefore'
  BY <1>0 DEF HeldInv, ListedBefore
<1> QED
  BY <1>1, <1>2, <1>3, <1>4, <1>5

LEMMA HeldFind ==
  ASSUME ReaderOK, HeldInv, FindLocation
  PROVE  HeldInv'
<1>0. reader.at = 1 /\ reader.source = NoSource /\ reader.form \in {"resolver", "single"}
  BY FindDoes DEF ReaderOK, ReaderRec
<1>1. reader.lists # "yes"
  BY <1>0 DEF HeldInv, Scanned
<1>2. CASE Nexted(reader) \/ (\E a : Replied(a))
  <2>1. reader'.source = NoSource /\ reader'.lists = reader.lists
    BY <1>0, <1>2 DEF Nexted, Replied, Rest
  <2> QED
    BY <1>1, <2>1 DEF HeldInv, HeldStaysHeld, Grants, NoSource, DIRECTORIES
<1>3. CASE Found(reader.k)
  <2>1. /\ reader'.answer = "none" /\ reader'.lists = reader.lists /\ reader'.form = reader.form
        /\ \/ reader'.at = 2
           \/ reader'.at = 10 /\ reader'.source = JSON
    BY <1>3 DEF Found, JsonStep
  <2>2. CASE reader'.at = 2
    <3>1. ~Discovered' /\ ~Cleared' /\ Passed' = {} /\ ~AtScan' /\ ~Scanned' /\ ~Told'
      BY <1>0, <2>1, <2>2 DEF Discovered, Cleared, Passed, AtWalk, Walked, AtScan, Scanned, Told
    <3>2. FoundOpen' /\ ClearedOpen' /\ PassedOpen' /\ ScannedOpen' /\ ListedBefore'
      BY <3>1 DEF FoundOpen, ClearedOpen, PassedOpen, ScannedOpen, ListedBefore
    <3> QED
      BY <1>1, <2>1, <3>1, <3>2 DEF HeldInv, HeldStaysHeld, Grants
  <2>3. CASE reader'.at = 10 /\ reader'.source = JSON
    BY <1>1, <2>1, <2>3 DEF HeldInv, HeldStaysHeld, Grants, Told, JSON, DIRECTORIES
  <2> QED
    BY <2>1, <2>2, <2>3
<1> QED
  BY <1>2, <1>3, FindDoes

\* The listing of state s, when it says whether a ticket is there.
LEMMA ListsNoIs ==
  ASSUME NEW n \in DIRECTORIES, NEW s, There(disk, n), ListsTicket(disk, n, s) = "no"
  PROVE  Listable(disk, n, s)
BY DEF ListsTicket, Inside, There, JSON, DIRECTORIES, Listable, Node

LEMMA HeldScan ==
  ASSUME ReaderOK, DiskOK, AbsentEmpty, TruthNow, HeldInv, Scan, reader.source \in DIRECTORIES
  PROVE  HeldInv'
<1> DEFINE n == reader.source
           order == Order(reader.names)
           told == ListsTicket(disk, n, order[reader.k])
           v == IF told = "error" THEN "unclear" ELSE reader.lists
           On == reader'.at = reader.at + 1
<1>1. /\ AtScan /\ reader.k \in 1 .. Len(order) /\ ~Scanned /\ Discovered /\ ~AtWalk
      /\ reader.form \in {"resolver", "single"} /\ reader.names \in SUBSET Foreign
      /\ reader.lists \in {"yes", "no", "unclear"}
  BY ScanDoes DEF AtScan, Scanned, Discovered, AtWalk, JsonStep, ReaderOK, ReaderRec
<1>2. reader.lists # "yes"
  BY <1>1 DEF HeldInv
<1>3. /\ Len(order) \in Nat /\ \A j \in 1 .. Len(order) : order[j] \in Known \cup reader.names
      /\ \A s \in Known \cup reader.names : \E j \in 1 .. Len(order) : order[j] = s
  BY <1>1, OrderIs
<1>4. ASSUME NEW w, Listing(w), On \/ reader'.at = reader.at
      PROVE  /\ disk' = disk /\ truth' = truth /\ reader'.source = n /\ reader'.blind = reader.blind
             /\ reader'.names = reader.names /\ reader'.stirred = reader.stirred
             /\ reader'.kept = reader.kept /\ reader'.lists = w /\ HeldStaysHeld'
             /\ reader.kept => FoundOpen' /\ ClearedOpen' /\ PassedOpen'
             /\ (Scanned' <=> On) /\ (AtScan' <=> ~On)
  <2>1. /\ disk' = disk /\ truth' = truth /\ reader'.source = n /\ reader'.blind = reader.blind
        /\ reader'.names = reader.names /\ reader'.stirred = reader.stirred
        /\ reader'.kept = reader.kept /\ reader'.lists = w /\ reader'.answer = "none"
        /\ reader'.form = reader.form /\ reader'.id = reader.id
    BY <1>4 DEF Listing, Held
  <2>2. /\ Discovered' /\ (Cleared' <=> Cleared) /\ (Scanned' <=> On) /\ (AtScan' <=> ~On)
        /\ Passed' = Passed /\ (Unstirred' <=> Unstirred)
    BY <1>1, <1>4, <2>1 DEF Discovered, Cleared, Scanned, AtScan, Passed, AtWalk, Walked,
       JsonStep, Unstirred
  <2>3. reader.kept => FoundOpen' /\ ClearedOpen' /\ PassedOpen'
    BY <1>1, <2>1, <2>2 DEF HeldInv, FoundOpen, ClearedOpen, PassedOpen, Node, Lookable
  <2>4. HeldStaysHeld'
    BY <2>1 DEF HeldStaysHeld, Grants, Told
  <2> QED
    BY <2>1, <2>2, <2>3, <2>4
<1>5. ASSUME ~reader.blind, reader.stirred # Id, reader.kept
      PROVE  Open(disk, n) /\ There(disk, n) /\ disk.dirs[n].there /\ ~Undiscoverable(disk, n)
  BY <1>1, <1>5 DEF HeldInv, FoundOpen, There, Undiscoverable, JSON, DIRECTORIES
<1>6. CASE reader.blind /\ Listing("unclear") /\ On
  <2>1. /\ HeldStaysHeld' /\ Scanned' /\ ~AtScan' /\ reader'.lists = "unclear"
        /\ reader'.kept => FoundOpen' /\ ClearedOpen' /\ PassedOpen'
    <3>1. (Scanned' <=> On) /\ (AtScan' <=> ~On)
      BY <1>4, <1>6
    <3> QED
      BY <1>4, <1>6, <3>1
  <2>2. ScannedOpen' /\ ListedBefore'
    BY <2>1 DEF ScannedOpen, ListedBefore
  <2> QED
    BY <2>1, <2>2 DEF HeldInv
<1>7. CASE ~reader.blind /\ told = "yes" /\ Listing("yes") /\ On
  <2>1. ASSUME reader.kept, reader.stirred # Id
        PROVE  ListsAnyTicket(disk, n, UnrecognisedNames(disk, n)) = "yes"
    <3>1. order[reader.k] \in Known \cup reader.names
      BY <1>1, <1>3
    <3>2. disk.dirs[n].states[order[reader.k]].there
      BY <1>7 DEF ListsTicket
    <3>3. order[reader.k] \in Known \cup UnrecognisedNames(disk, n)
      BY <1>1, <1>5, <1>7, <2>1, <3>1, <3>2 DEF UnrecognisedNames
    <3> HIDE DEF order
    <3> QED
      BY <1>5, <1>7, <2>1, <3>3 DEF ListsAnyTicket
  <2>2. reader.kept => ListedBefore'
    <3> SUFFICES ASSUME reader.kept, reader.stirred # Id
                 PROVE  \E d : /\ ListsAnyTicket(d, n, UnrecognisedNames(d, n)) = "yes"
                               /\ Steady(d, disk, n)
                               /\ \A i \in Id \ reader.stirred : Untouched(d, disk, n, i)
                               /\ \A i \in Id : ResolveFrom(d, n, i) \in truth[i]
      BY <1>4, <1>7 DEF ListedBefore
    <3>1. \A i \in Id : ResolveFrom(disk, n, i) \in truth[i]
      BY DEF TruthNow, NoSource, DIRECTORIES
    <3> QED
      BY <2>1, <3>1, SteadyChain
  <2>3. ScannedOpen'
    BY <1>4, <1>7 DEF ScannedOpen
  <2> QED
    BY <1>4, <1>7, <2>2, <2>3 DEF HeldInv
<1>8. ASSUME ~reader.blind, told # "yes", reader.stirred # Id, reader.kept, v = "no"
      PROVE  \A j \in 1 .. reader.k : Listable(disk, n, order[j])
  <2>1. reader.lists = "no" /\ told = "no"
    <3>1. told \in {"yes", "no", "error"}
      BY NodeIs
    <3> HIDE DEF told
    <3> QED
      BY <1>8, <3>1
  <2>2. \A j \in 1 .. reader.k - 1 : Listable(disk, n, order[j])
    BY <1>1, <1>8, <2>1, AtIs DEF HeldInv, ScannedOpen, Scan, Told
  <2>3. Listable(disk, n, order[reader.k])
    BY <1>5, <1>8, <2>1, ListsNoIs
  <2>4. \A j \in 1 .. reader.k : j = reader.k \/ j \in 1 .. reader.k - 1
    BY <1>1, <1>3
  <2> HIDE DEF order
  <2> QED
    BY <2>2, <2>3, <2>4
<1> HIDE DEF v
<1>9. v # "yes"
  BY <1>2 DEF v
<1>10. CASE /\ ~reader.blind /\ told # "yes" /\ reader.k < Len(order)
            /\ Listing(v) /\ reader'.at = reader.at /\ reader'.k = reader.k + 1
  <2>1. ~On
    BY <1>1, <1>10 DEF AtScan
  <2>2. AtScan' /\ ~Scanned'
    BY <1>4, <1>10, <2>1
  <2>3. 1 .. reader'.k - 1 = 1 .. reader.k
    BY <1>1, <1>3, <1>10
  <2>4. reader.kept => ScannedOpen' /\ ListedBefore'
    BY <1>4, <1>8, <1>10, <2>2, <2>3 DEF ScannedOpen, ListedBefore, Listable, Node
  <2> QED
    BY <1>4, <1>9, <1>10, <2>4 DEF HeldInv
<1>11. CASE ~reader.blind /\ told # "yes" /\ reader.k = Len(order) /\ Listing(v) /\ On
  <2>1. Scanned' /\ ~AtScan'
    BY <1>4, <1>11
  <2>2. reader.kept /\ reader.stirred # Id /\ v = "no" =>
          \A s \in Known \cup reader.names : Listable(disk, n, s)
    BY <1>3, <1>8, <1>11
  <2>3. reader.kept => ScannedOpen' /\ ListedBefore'
    BY <1>4, <1>9, <1>11, <2>1, <2>2 DEF ScannedOpen, ListedBefore, Listable, Node
  <2> QED
    BY <1>4, <1>9, <1>11, <2>3 DEF HeldInv
<1>12. \/ reader.blind /\ Listing("unclear") /\ On
       \/ ~reader.blind /\ told = "yes" /\ Listing("yes") /\ On
       \/ /\ ~reader.blind /\ told # "yes" /\ reader.k < Len(order)
          /\ Listing(v) /\ reader'.at = reader.at /\ reader'.k = reader.k + 1
       \/ ~reader.blind /\ told # "yes" /\ reader.k = Len(order) /\ Listing(v) /\ On
  BY ScanDoes DEF v
<1> QED
  BY <1>6, <1>7, <1>10, <1>11, <1>12

\* The answers a read concludes with, on a ticket that stays put.
LEMMA HeldTodo ==
  ASSUME ReaderOK, AbsentEmpty, TruthNow, ProtInv, HeldInv, reader.source \in DIRECTORIES,
         reader.kept, Unstirred, Discovered, Cleared, Passed = 1 .. 3,
         NodeExists(disk, reader.source, "todo", reader.id) = "yes"
  PROVE  Granting("delete")
<1> DEFINE n == reader.source
<1>1. reader.id \in Id /\ 1 \in Passed
  BY DEF ReaderOK, ReaderRec, NoSource, DIRECTORIES
<1>2. PICK d : d = disk
  OBVIOUS
<1>3. Steady(d, disk, n) /\ Untouched(d, disk, n, reader.id)
  BY <1>2, SteadyChain
<1>4. /\ IsPresent(d, n) = "yes" /\ ~Undiscoverable(d, n)
      /\ ~ForeignMayName(d, n, UnrecognisedNames(d, n), reader.id)
      /\ \A j \in 1 .. 3 : NodeExists(d, n, MARKER_PRECEDENCE[j], reader.id) = "no"
  BY <1>1, <1>3, SeenSince
<1>5. MARKER_PRECEDENCE[4] = "todo"
  BY DEF MARKER_PRECEDENCE
<1>6. ResolveFrom(d, n, reader.id) = "todo"
  <2>1. /\ NodeExists(d, n, MARKER_PRECEDENCE[4], reader.id) = "yes"
        /\ 4 \in 1 .. 4 /\ 1 .. (4 - 1) = 1 .. 3
    BY <1>2, <1>5
  <2> QED
    BY <1>4, <1>5, <2>1, MarkedIs
<1>7. "todo" \in truth[reader.id]
  BY <1>1, <1>2, <1>6 DEF TruthNow, NoSource, DIRECTORIES
<1> QED
  BY <1>7 DEF Granting, Granted, DELETABLE_STATES, MUTABLE_STATES

LEMMA HeldUnmarked ==
  ASSUME ReaderOK, AbsentEmpty, TruthNow, ProtInv, HeldInv, reader.source \in DIRECTORIES,
         reader.kept, Unstirred, Discovered, Cleared, Scanned, Passed = 1 .. 4,
         reader.lists # "unclear"
  PROVE  Granting("delete")
<1> DEFINE n == reader.source
<1>1. /\ reader.id \in Id /\ 1 \in Passed /\ reader.stirred # Id /\ reader.id \in Id \ reader.stirred
      /\ reader.lists \in {"yes", "no"} /\ reader.names \in SUBSET Foreign
  BY DEF ReaderOK, ReaderRec, NoSource, DIRECTORIES, Unstirred
\* A disk since which the ticket stayed put, and what its listings said.
<1>2. ASSUME NEW d, Steady(d, disk, n), Untouched(d, disk, n, reader.id),
             ListsAnyTicket(d, n, UnrecognisedNames(d, n)) \in {"yes", "no"},
             ResolveFrom(d, n, reader.id) \in truth[reader.id]
      PROVE  Granting("delete")
  <2>1. /\ IsPresent(d, n) = "yes" /\ ~Undiscoverable(d, n)
        /\ ~ForeignMayName(d, n, UnrecognisedNames(d, n), reader.id)
        /\ \A j \in 1 .. 4 : NodeExists(d, n, MARKER_PRECEDENCE[j], reader.id) = "no"
    BY <1>1, <1>2, SeenSince
  <2>2. ResolveFrom(d, n, reader.id) = Unmarked(ListsAnyTicket(d, n, UnrecognisedNames(d, n)))
    BY <2>1, UnmarkedIs
  <2>3. ResolveFrom(d, n, reader.id) \in {"absent", "unknown"}
    BY <1>2, <2>2 DEF Unmarked
  <2> QED
    BY <1>2, <2>3 DEF Granting, Granted, DELETABLE_STATES, MUTABLE_STATES
<1>3. CASE reader.lists = "yes"
  <2>1. PICK d : /\ ListsAnyTicket(d, n, UnrecognisedNames(d, n)) = "yes"
                 /\ Steady(d, disk, n)
                 /\ \A i \in Id \ reader.stirred : Untouched(d, disk, n, i)
                 /\ \A i \in Id : ResolveFrom(d, n, i) \in truth[i]
    BY <1>1, <1>3 DEF HeldInv, ListedBefore
  <2> QED
    BY <1>1, <1>2, <2>1
<1>4. CASE reader.lists = "no"
  <2>1. PICK d : d = disk
    OBVIOUS
  <2>2. Steady(d, disk, n) /\ Untouched(d, disk, n, reader.id)
    BY <2>1, SteadyChain
  <2>3. ResolveFrom(d, n, reader.id) \in truth[reader.id]
    BY <1>1, <2>1 DEF TruthNow, NoSource, DIRECTORIES
  <2>4. Inside(d, n) = "yes" /\ ~Undiscoverable(d, n)
    BY <1>1, <2>2, SeenSince
  <2>5. \A s \in Known \cup Foreign : Listable(d, n, s)
    <3>1. /\ \A s \in Known \cup reader.names : Listable(disk, n, s)
          /\ \A s \in Foreign \ reader.names :
               Node(disk, n, s).there => Node(disk, n, s).can = AllCan
      BY <1>1, <1>4 DEF HeldInv, ScannedOpen, FoundOpen
    <3> QED
      BY <2>1, <3>1 DEF Listable, AllCan
  <2>6. \A s \in Known \cup UnrecognisedNames(d, n) : ListsTicket(d, n, s) # "error"
    BY <2>4, <2>5 DEF ListsTicket, Listable, Node, Tell, UnrecognisedNames
  <2>7. ListsAnyTicket(d, n, UnrecognisedNames(d, n)) \in {"yes", "no"}
    BY <2>4, <2>6 DEF ListsAnyTicket
  <2> QED
    BY <1>2, <2>2, <2>3, <2>7
<1> QED
  BY <1>1, <1>3, <1>4

LEMMA HeldCalls ==
  ASSUME ReaderOK, DiskOK, AbsentEmpty, TruthNow, ProtInv, HeldInv, Calls,
         reader.source \in DIRECTORIES
  PROVE  HeldInv'
<1> DEFINE n == reader.source
           first == IF reader.form = "resolver" THEN 4 ELSE 2
<1>0. /\ reader'.source = n /\ reader'.stirred = reader.stirred /\ reader'.kept = reader.kept
      /\ Held /\ disk' = disk /\ truth' = truth
  BY CallKeeps DEF Calls, Held
<1>1. /\ reader.form \in {"resolver", "single"} /\ reader.id \in Id /\ reader.at \in 2 .. 9
      /\ n # JSON /\ n # NoSource
  BY DEF ReaderOK, ReaderRec, NoSource, DIRECTORIES, JSON, JsonStep
<1>2. Unstirred => reader.stirred # Id /\ (There(disk, n) \/ ~Open(disk, n))
  BY <1>1 DEF Unstirred, ProtInv, KeptPresent
<1>3. ASSUME Proceeded(reader), ~AtWalk, ~AtScan, reader.at # first, reader.at # 9,
             reader.form = "single" => reader.at # 7,
             reader.at = (IF reader.form = "resolver" THEN 6 ELSE 3) /\ Unstirred =>
               \A s \in reader.names : Lookable(disk, n, s)
      PROVE  HeldInv'
  <2>1. /\ reader'.answer = "none" /\ reader'.at = reader.at + 1 /\ reader'.k = 1
        /\ reader'.form = reader.form /\ reader'.id = reader.id /\ reader'.blind = reader.blind
        /\ reader'.names = reader.names /\ reader'.lists = reader.lists
    BY <1>3 DEF Proceeded, Rest
  <2>2. /\ Discovered' => Discovered
        /\ Scanned' <=> Scanned
        /\ Cleared' => Cleared \/ reader.at = (IF reader.form = "resolver" THEN 6 ELSE 3)
        /\ Passed' \subseteq Passed
    BY <1>1, <1>3, <2>1 DEF Discovered, Scanned, Cleared, Passed, Walked, AtWalk, AtScan, JsonStep
  <2> QED
    BY <1>0, <1>3, <2>1, <2>2, HeldNext
<1>4. CASE CheckPresent \/ Recheck
  <2>1. CASE Proceeded(reader)
    BY <1>1, <1>3, <1>4, <2>1, PresentDoes DEF AtWalk, AtScan
  <2>2. CASE IsPresent(disk, n) = "error" /\ Replied("unreadable")
    BY <2>2, HeldReply DEF Granted, MUTABLE_STATES, DELETABLE_STATES
  <2>3. CASE IsPresent(disk, n) = "no" /\ Replied("unknown")
    <3>1. ~Unstirred
      BY <1>2, <2>3 DEF IsPresent, Tell
    <3> QED
      BY <2>3, <3>1, HeldReply
  <2> QED
    BY <1>4, <2>1, <2>2, <2>3, PresentDoes
<1>5. CASE Canary
  <2>1. CASE Proceeded(reader)
    BY <1>1, <1>3, <1>5, <2>1, CanaryDoes DEF AtWalk, AtScan
  <2>2. CASE Replied("unreadable")
    BY <2>2, HeldReply DEF Granted, MUTABLE_STATES, DELETABLE_STATES
  <2> QED
    BY <1>5, <2>1, <2>2, CanaryDoes
<1>6. CASE Discover
  <2>1. /\ reader.at = first
        /\ reader'.form = reader.form /\ reader'.lists = reader.lists
        /\ reader'.at = reader.at + 1 /\ reader'.k = 1 /\ reader'.answer = "none"
        /\ reader'.blind = Undiscoverable(disk, n)
        /\ reader'.names = UnrecognisedNames(disk, n)
    BY <1>6, DiscoverDoes
  <2>2. ~Cleared' /\ Passed' = {} /\ ~Told' /\ ~Scanned' /\ ~Scanned /\ 1 .. reader'.k - 1 = {}
    BY <1>1, <2>1 DEF Cleared, Passed, AtWalk, Walked, Told, Scanned
  <2>3. FoundOpen'
    <3> SUFFICES ASSUME ~Undiscoverable(disk, n), reader.stirred # Id
                 PROVE  /\ Open(disk, n) /\ There(disk, n) /\ "list" \in disk.dirs[n].can
                        /\ \A s \in Foreign \ UnrecognisedNames(disk, n) : ~Node(disk, n, s).there
      BY <1>0, <2>1 DEF FoundOpen, Node
    <3>1. Open(disk, n) /\ There(disk, n) /\ disk.dirs[n].there
      BY <1>1 DEF ProtInv, KeptPresent, Undiscoverable, There
    <3> QED
      BY <3>1 DEF Undiscoverable, UnrecognisedNames, Node
  <2>4. ClearedOpen' /\ PassedOpen' /\ ScannedOpen' /\ ListedBefore' /\ HeldStaysHeld'
    BY <2>2 DEF ClearedOpen, PassedOpen, ScannedOpen, ListedBefore, HeldStaysHeld, Grants
  <2> QED
    BY <2>1, <2>2, <2>3, <2>4 DEF HeldInv
<1>7. CASE Foreigners
  <2>1. reader.at = IF reader.form = "resolver" THEN 6 ELSE 3
    BY <1>7, ForeignersDo
  <2>2. CASE Replied("unreadable")
    BY <2>2, HeldReply DEF Granted, MUTABLE_STATES, DELETABLE_STATES
  <2>3. CASE /\ ~reader.blind /\ ~ForeignMayName(disk, n, reader.names, reader.id)
             /\ Proceeded(reader)
    <3>1. ASSUME Unstirred, NEW s \in reader.names  PROVE Lookable(disk, n, s)
      <4>1. NodeExists(disk, n, s, reader.id) = "no" /\ s \in States
        BY <2>3 DEF ForeignMayName, ReaderOK, ReaderRec, States
      <4> QED
        BY <1>2, <3>1, <4>1, NoIs
    <3> QED
      BY <1>1, <1>3, <2>1, <2>3, <3>1 DEF AtWalk, AtScan
  <2> QED
    BY <1>7, <2>2, <2>3, ForeignersDo
<1>8. CASE Walk
  <2> DEFINE told == NodeExists(disk, n, MARKER_PRECEDENCE[reader.k], reader.id)
  <2>1. AtWalk /\ reader.k \in 1 .. 4 /\ Discovered /\ Cleared
    BY <1>1, <1>8, WalkDoes DEF AtWalk, Discovered, Cleared, JsonStep
  <2>2. Passed = 1 .. reader.k - 1
    BY <1>1, <2>1 DEF Passed, AtWalk, Walked, JsonStep
  <2>3. MARKER_PRECEDENCE[reader.k] \in Known /\ MARKER_PRECEDENCE[reader.k] \in States
    BY <2>1, MarkersAre DEF States
  <2>4. CASE told = "yes" /\ Replied(MARKER_PRECEDENCE[reader.k])
    <3>1. "delete" \in Granted(MARKER_PRECEDENCE[reader.k]) =>
            reader.k = 4 /\ MARKER_PRECEDENCE[reader.k] = "todo"
      BY <2>1 DEF MARKER_PRECEDENCE, DELETABLE_STATES, MUTABLE_STATES, Granted
    <3>2. ASSUME reader.kept, Unstirred, reader.k = 4, MARKER_PRECEDENCE[reader.k] = "todo"
          PROVE  Granting("delete")
      <4>1. Passed = 1 .. 3
        BY <2>2, <3>2
      <4> QED
        BY <2>1, <2>4, <3>2, <4>1, HeldTodo
    <3> QED
      BY <2>4, <3>1, <3>2, HeldReply
  <2>5. CASE Replied("unreadable")
    BY <2>5, HeldReply DEF Granted, MUTABLE_STATES, DELETABLE_STATES
  <2>6. CASE told = "no" /\ ((reader.k < 4 /\ Nexted(reader)) \/ (reader.k = 4 /\ Proceeded(reader)))
    <3>1. Unstirred => /\ "search" \in disk.dirs[n].can
                       /\ Lookable(disk, n, MARKER_PRECEDENCE[reader.k])
      BY <1>2, <2>3, <2>6, NoIs
    <3>2. /\ reader'.answer = "none" /\ reader'.form = reader.form /\ reader'.id = reader.id
          /\ reader'.blind = reader.blind /\ reader'.names = reader.names
          /\ reader'.lists = reader.lists
          /\ \/ reader'.at = reader.at /\ reader'.k = reader.k + 1
             \/ reader'.at = reader.at + 1 /\ reader.k = 4
      BY <2>6 DEF Nexted, Proceeded, Rest
    <3>3. /\ \A j \in Passed' : j \in Passed \/ j = reader.k
          /\ ~AtScan' /\ (Scanned' <=> Scanned)
      BY <1>1, <2>1, <2>2, <3>2 DEF Passed, AtWalk, AtScan, Scanned, Walked, JsonStep
    <3> QED
      BY <1>0, <2>1, <3>1, <3>2, <3>3, HeldNext
  <2>7. \/ told = "yes" /\ Replied(MARKER_PRECEDENCE[reader.k])
        \/ Replied("unreadable")
        \/ told = "no" /\ reader.k < 4 /\ Nexted(reader)
        \/ told = "no" /\ reader.k = 4 /\ Proceeded(reader)
    BY <1>8, WalkDoes
  <2> QED
    BY <2>4, <2>5, <2>6, <2>7
<1>9. CASE Scan
  BY <1>9, HeldScan
<1>10. CASE Conclude
  <2>1. Discovered /\ Cleared /\ Scanned /\ Walked
    BY <1>1, <1>10, ConcludeDoes DEF Discovered, Cleared, Scanned, Walked, JsonStep
  <2>2. Passed = 1 .. 4
    BY <2>1 DEF Passed
  <2>3. "delete" \in Granted(Unmarked(reader.lists)) => reader.lists # "unclear"
    BY DEF Granted, Unmarked, DELETABLE_STATES, MUTABLE_STATES
  <2>4. reader.kept /\ Unstirred /\ reader.lists # "unclear" => Granting("delete")
    BY <2>1, <2>2, HeldUnmarked
  <2>5. Replied(Unmarked(reader.lists))
    BY <1>10, ConcludeDoes
  <2> QED
    BY <2>3, <2>4, <2>5, HeldReply
<1>11. ASSUME NEW i \in Id, AskAgain(i)  PROVE HeldInv'
  <2>1. /\ reader.form = "resolver" /\ reader'.form = reader.form /\ reader.at >= 6
        /\ reader'.blind = reader.blind /\ reader'.names = reader.names
        /\ reader'.lists = reader.lists
        /\ reader'.at = 6 /\ reader'.k = 1 /\ reader'.answer = "none"
    BY <1>1, <1>11, AskDoes DEF PerId
  <2>2. /\ ~Cleared' /\ Passed' = {} /\ ~Told' /\ Discovered /\ Scanned /\ Scanned' /\ ~AtScan'
    BY <1>1, <2>1 DEF Cleared, Passed, AtWalk, Walked, Told, Discovered, Scanned, AtScan, JsonStep
  <2>3. reader.kept => FoundOpen' /\ ScannedOpen' /\ ListedBefore'
    BY <1>0, <2>1, <2>2 DEF HeldInv, FoundOpen, ScannedOpen, ListedBefore, Node, Listable
  <2>4. ClearedOpen' /\ PassedOpen' /\ HeldStaysHeld'
    BY <2>2 DEF ClearedOpen, PassedOpen, HeldStaysHeld, Grants
  <2> QED
    BY <1>0, <2>2, <2>3, <2>4 DEF HeldInv
<1>12. ~ReadSource
  BY <1>1, ReadDoes DEF JsonStep
<1> QED
  BY <1>4, <1>5, <1>6, <1>7, <1>8, <1>9, <1>10, <1>11, <1>12 DEF Calls

LEMMA HeldChange ==
  ASSUME ReaderOK, DiskOK, AbsentEmpty, HeldInv, LosePermission \/ Factory
  PROVE  HeldInv'
<1> DEFINE n == reader.source
<1>1. SameCalls
  BY ChangesDisturb, DisturbDoes DEF SameCalls
<1>2. ~Scanned' => reader'.lists # "yes"
  BY <1>1 DEF SameCalls, HeldInv, Scanned
<1>3. CASE n = NoSource
  BY <1>1, <1>2, <1>3 DEF SameCalls, HeldInv, HeldStaysHeld, Grants, NoSource, DIRECTORIES
<1>4. CASE n # NoSource
  <2>1. /\ reader.stirred \subseteq reader'.stirred /\ (reader'.kept => reader.kept)
        /\ \A m \in DIRECTORIES, i \in Id \ reader'.stirred : Untouched(disk, disk', m, i)
        /\ reader'.kept /\ reader'.stirred # Id =>
             \A m \in DIRECTORIES : Steady(disk, disk', m)
        /\ truth' = [i \in Id |-> truth[i] \cup {ResolveFrom(disk', n, i)}]
    <3>1. reader # Idle
      BY <1>4, IdleIs
    <3> QED
      BY <1>4, <3>1, ChangeLeaves
  <2>2. /\ reader'.form = reader.form /\ reader'.id = reader.id /\ reader'.source = n
        /\ reader'.blind = reader.blind /\ reader'.names = reader.names
        /\ reader'.lists = reader.lists /\ reader'.at = reader.at /\ reader'.k = reader.k
        /\ reader'.answer = reader.answer
        /\ reader.id \in Id /\ reader.names \in SUBSET Foreign
    BY <1>1, <1>4 DEF SameCalls, ReaderOK, ReaderRec, NoSource
  <2>3. /\ Discovered' <=> Discovered
        /\ Scanned' <=> Scanned
        /\ AtScan' <=> AtScan
        /\ Cleared' <=> Cleared
        /\ Passed' = Passed
        /\ Unstirred' => Unstirred
    BY <2>1, <2>2 DEF Discovered, Scanned, AtScan, Cleared, Passed, AtWalk, Walked, Unstirred
  <2>4. HeldStaysHeld'
    <3> SUFFICES ASSUME reader'.kept, Unstirred', Grants("delete")'  PROVE Granting("delete")'
      BY DEF HeldStaysHeld
    <3>1. Granting("delete")
      BY <2>1, <2>2, <2>3 DEF HeldInv, HeldStaysHeld, Grants, Told
    <3>2. truth[reader.id] \subseteq truth'[reader.id]
      BY <2>1, <2>2
    <3> QED
      BY <2>2, <3>1, <3>2 DEF Granting
  <2>5. ASSUME n \in DIRECTORIES, reader'.kept
        PROVE  FoundOpen' /\ ClearedOpen' /\ PassedOpen' /\ ScannedOpen' /\ ListedBefore'
    <3>1. CASE reader'.stirred = Id
      <4>1. ~Unstirred'
        BY <2>2, <3>1 DEF Unstirred
      <4> QED
        BY <3>1, <4>1 DEF FoundOpen, ClearedOpen, PassedOpen, ScannedOpen, ListedBefore
    <3>2. CASE reader'.stirred # Id
      <4>1. Steady(disk, disk', n) /\ reader.kept /\ reader.stirred # Id
        <5>1. Steady(disk, disk', n) /\ reader.kept
          BY <2>1, <2>5, <3>2
        <5>2. reader'.stirred \in SUBSET Id
          BY ReaderStep DEF Next, ReaderOK, ReaderRec
        <5> QED
          BY <2>1, <3>2, <5>1, <5>2
      <4>2. /\ Open(disk', n) <=> Open(disk, n)
            /\ There(disk', n) <=> There(disk, n)
            /\ disk'.dirs[n].can = disk.dirs[n].can
        BY <2>5, <4>1 DEF Steady, Open, There, JSON, DIRECTORIES
      <4>3. \A s \in States :
              /\ Lookable(disk, n, s) => Lookable(disk', n, s)
              /\ Listable(disk, n, s) => Listable(disk', n, s)
              /\ (Node(disk, n, s).there => Node(disk, n, s).can = AllCan) =>
                   (Node(disk', n, s).there => Node(disk', n, s).can = AllCan)
        BY <4>1 DEF Steady, Lookable, Listable, AllCan
      <4>4. FoundOpen'
        <5>1. FoundOpen /\ \A s \in Foreign : s \in States
          BY <2>5, <4>1 DEF HeldInv, States
        <5> QED
          BY <2>2, <2>3, <4>1, <4>2, <4>3, <5>1 DEF FoundOpen, Node
      <4>5. ClearedOpen'
        <5>1. ClearedOpen /\ \A s \in reader.names : s \in States
          BY <2>2, <2>5, <4>1 DEF HeldInv, States
        <5> QED
          BY <2>2, <2>3, <4>3, <5>1 DEF ClearedOpen, Lookable, Node
      <4>6. PassedOpen'
        <5>1. PassedOpen /\ \A j \in Passed : MARKER_PRECEDENCE[j] \in States
          BY <2>5, <4>1, MarkersAre DEF HeldInv, States, Passed
        <5> QED
          BY <2>2, <2>3, <4>2, <4>3, <5>1 DEF PassedOpen, Lookable, Node
      <4>7. ScannedOpen'
        <5>1. ScannedOpen
          BY <2>5, <4>1 DEF HeldInv
        <5>2. \A s \in Known \cup reader.names : s \in States
          BY <2>2 DEF States
        <5>3. AtScan /\ ~Told => \A j \in 1 .. reader.k - 1 : Order(reader.names)[j] \in States
          <6>1. /\ Len(Order(reader.names)) \in Nat
                /\ \A j \in 1 .. Len(Order(reader.names)) : Order(reader.names)[j] \in States
            BY <2>2, OrderIs DEF States
          <6> QED
            BY <6>1 DEF ReaderOK
        <5>4. Told' <=> Told
          BY <2>2 DEF Told
        <5> QED
          BY <2>2, <2>3, <4>1, <4>3, <5>1, <5>2, <5>3, <5>4 DEF ScannedOpen, Listable, Node
      <4>8. ListedBefore'
        <5> SUFFICES ASSUME Scanned, reader.lists = "yes"
                     PROVE  \E d : /\ ListsAnyTicket(d, n, UnrecognisedNames(d, n)) = "yes"
                                   /\ Steady(d, disk', n)
                                   /\ \A i \in Id \ reader'.stirred : Untouched(d, disk', n, i)
                                   /\ \A i \in Id : ResolveFrom(d, n, i) \in truth'[i]
          BY <2>2, <2>3 DEF ListedBefore
        <5>1. PICK d : /\ ListsAnyTicket(d, n, UnrecognisedNames(d, n)) = "yes"
                       /\ Steady(d, disk, n)
                       /\ \A i \in Id \ reader.stirred : Untouched(d, disk, n, i)
                       /\ \A i \in Id : ResolveFrom(d, n, i) \in truth[i]
          BY <2>5, <4>1 DEF HeldInv, ListedBefore
        <5>2. Steady(d, disk', n)
          BY <4>1, <5>1, SteadyChain
        <5>3. \A i \in Id \ reader'.stirred : Untouched(d, disk', n, i)
          BY <2>1, <2>5, <5>1, SteadyChain
        <5>4. \A i \in Id : ResolveFrom(d, n, i) \in truth'[i]
          BY <2>1, <5>1
        <5> QED
          BY <5>1, <5>2, <5>3, <5>4
      <4> QED
        BY <4>4, <4>5, <4>6, <4>7, <4>8
    <3> QED
      BY <3>1, <3>2
  <2> QED
    BY <1>2, <2>2, <2>4, <2>5 DEF HeldInv
<1> QED
  BY <1>3, <1>4

LEMMA HeldStep ==
  ASSUME ReaderOK, DiskOK, AbsentEmpty, TruthNow, JsonHeld, ProtInv, HeldInv, [Next]_vars
  PROVE  HeldInv'
<1>1. ASSUME NEW form \in Forms, NEW i \in Id, Start(form, i)  PROVE HeldInv'
  <2>1. reader'.source = NoSource /\ reader'.lists = "no"
    BY <1>1, StartDoes
  <2> QED
    BY <2>1 DEF HeldInv, HeldStaysHeld, Grants, NoSource, DIRECTORIES
<1>2. CASE FindLocation
  BY <1>2, HeldFind
<1>3. CASE Calls /\ reader.source \in DIRECTORIES
  BY <1>3, HeldCalls
\* A JSON source is told once, whole, and every answer from it was true then.
<1>4. CASE Calls /\ reader.source \notin DIRECTORIES
  <2>1. reader'.source = reader.source
    BY <1>4, CallKeeps DEF Calls
  <2>2. reader.at > 1 => reader.source = JSON /\ reader.at = JsonStep
    BY <1>4 DEF ReaderOK, JSON, DIRECTORIES
  <2>3. reader.at >= 2
    <3>1. (\E i \in Id : AskAgain(i)) => reader.at >= 2
      BY AskDoes DEF PerId, ReaderOK, ReaderRec
    <3>2. ReadSource => reader.at >= 2
      BY ReadDoes DEF JsonStep
    <3>3. CheckPresent \/ Recheck \/ Canary \/ Discover \/ Foreigners => reader.at >= 2
      BY PresentDoes, CanaryDoes, DiscoverDoes, ForeignersDo
    <3>4. Walk \/ Scan \/ Conclude => reader.at >= 2
      BY WalkDoes, ScanDoes, ConcludeDoes DEF AtWalk, AtScan
    <3> QED
      BY <1>4, <3>1, <3>2, <3>3, <3>4 DEF Calls
  <2>4. /\ reader.at = JsonStep /\ reader.source = JSON
        /\ reader'.at = JsonStep /\ reader'.source = JSON /\ reader'.id \in Id
    <3>1. ReaderOK'
      BY ReaderStep
    <3>2. reader.at = JsonStep /\ reader.source = JSON /\ reader'.source = JSON
      BY <2>1, <2>2, <2>3 DEF ReaderOK, ReaderRec
    <3>3. reader'.at \in 0 .. 10 /\ reader'.at > 1
      BY <3>1, <3>2 DEF ReaderOK, ReaderRec, JSON, NoSource
    <3> QED
      BY <3>1, <3>2, <3>3 DEF ReaderOK
  <2>5. reader'.lists = reader.lists
    <3>1. CASE ReadSource
      BY <3>1, ReadDoes
    <3>2. CASE \E i \in Id : AskAgain(i)
      BY <3>2, AskDoes
    <3>3. ~(CheckPresent \/ Recheck \/ Canary \/ Discover \/ Foreigners)
      BY <2>4, PresentDoes, CanaryDoes, DiscoverDoes, ForeignersDo DEF JsonStep
    <3>4. ~(Walk \/ Scan \/ Conclude)
      BY <2>4, WalkDoes, ScanDoes, ConcludeDoes DEF AtWalk, AtScan, JsonStep
    <3> QED
      BY <1>4, <3>1, <3>2, <3>3, <3>4 DEF Calls
  <2>6. JsonHeld'
    BY TruthStep
  <2>7. HeldStaysHeld'
    BY <2>4, <2>6 DEF JsonHeld, HeldStaysHeld, Grants, Granting
  <2>8. reader.lists # "yes"
    BY <2>4 DEF HeldInv, Scanned
  <2> QED
    BY <2>4, <2>5, <2>7, <2>8 DEF HeldInv, JSON, DIRECTORIES
<1>5. CASE LosePermission \/ Factory
  BY <1>5, HeldChange
<1>6. CASE UNCHANGED vars
  <2>1. disk' = disk /\ reader' = reader /\ truth' = truth
    BY <1>6 DEF vars
  <2>2. /\ Discovered' <=> Discovered
        /\ Scanned' <=> Scanned
        /\ AtScan' <=> AtScan
        /\ Cleared' <=> Cleared
        /\ Unstirred' <=> Unstirred
        /\ Told' <=> Told
        /\ Passed' = Passed
    BY <2>1 DEF Discovered, Scanned, AtScan, Cleared, Passed, AtWalk, Walked, Unstirred, Told
  <2>3. HeldStaysHeld' <=> HeldStaysHeld
    BY <2>1, <2>2 DEF HeldStaysHeld, Grants, Granting
  <2>4. (FoundOpen' <=> FoundOpen) /\ (ClearedOpen' <=> ClearedOpen) /\ (PassedOpen' <=> PassedOpen)
    BY <2>1, <2>2 DEF FoundOpen, ClearedOpen, PassedOpen, Node, Lookable
  <2>5. (ScannedOpen' <=> ScannedOpen) /\ (ListedBefore' <=> ListedBefore)
    BY <2>1, <2>2 DEF ScannedOpen, ListedBefore, Node, Listable
  <2> QED
    BY <2>1, <2>2, <2>3, <2>4, <2>5 DEF HeldInv
<1> QED
  BY <1>1, <1>2, <1>3, <1>4, <1>5, <1>6 DEF Next, Reader, Calls

-----------------------------------------------------------------------------
GrantInv == AbsentEmpty /\ TruthNow /\ JsonHeld /\ ProtInv /\ HeldInv

\* What a read grants.  If no marker moved, nothing that the disk did not grant at
\* one moment of it, whatever permissions went.  If no permission went, no delete of
\* a ticket whose own marker stays that the disk did not grant, whatever the other
\* markers did.  And whatever went or moved, nothing to a ticket with a marker in any
\* state but todo that stays.  Of an edit while other markers move, and of markers
\* and permissions that move together, it says only the last of the three.
THEOREM GrantsTrue == Spec => []GrantsAreTrue
<1>1. Init => GrantInv
  <2> SUFFICES ASSUME Init  PROVE GrantInv
    OBVIOUS
  <2>1. AbsentEmpty
    BY ReadAssumption DEF Init, AbsentEmpty, Node
  <2>2. reader.source = NoSource /\ reader.at = 0 /\ reader.lists = "no" /\ reader.answer = "none"
    BY IdleIs DEF Init
  <2>3. TruthNow /\ JsonHeld
    BY <2>2 DEF TruthNow, JsonHeld, Told
  <2>4. reader.source \notin DIRECTORIES /\ ~Told
    BY <2>2 DEF NoSource, DIRECTORIES, Told
  <2>5. ProtInv
    BY <2>4 DEF ProtInv
  <2>6. HeldStaysHeld
    BY <2>4 DEF HeldStaysHeld, Grants
  <2>7. HeldInv
    BY <2>2, <2>4, <2>6 DEF HeldInv
  <2> QED
    BY <2>1, <2>3, <2>5, <2>7 DEF GrantInv
<1>2. GrantInv /\ ReadInv /\ DiskOK /\ [Next]_vars => GrantInv'
  BY AbsentStep, TruthStep, ProtStep, HeldStep DEF GrantInv, ReadInv
<1>3. GrantInv /\ ReadInv => GrantsAreTrue
  <2>1. ProtInv => MarkerProtects
    BY DEF ProtInv, MarkerProtects
  <2> QED
    BY <2>1, UnmovedGrants DEF GrantInv, HeldInv, GrantsAreTrue
<1> QED
  BY <1>1, <1>2, <1>3, DiskCorrect, ReadsLearn, PTL DEF Spec

-----------------------------------------------------------------------------
LEMMA ResolveAnswers ==
  ASSUME NEW d \in Disk, NEW n \in 1 .. 3, NEW i \in Id
  PROVE  ResolveFrom(d, n, i) \in Answers
<1>1. CASE n = JSON
  <2>1. ResolveFrom(d, n, i) = ResolveJson(ReadJson(d), i)
    BY <1>1 DEF ResolveFrom, JSON, NoSource
  <2> QED
    BY <2>1, JsonType, JsonAnswers
<1>2. CASE n # JSON
  <2>1. ResolveFrom(d, n, i) = ResolveDirectory(d, n, i)
    BY <1>2 DEF ResolveFrom, NoSource
  <2>2. MarkerState(d, n, i) \in Known \cup {"none", "unreadable"}
    <3> DEFINE stops == {k \in 1 .. 4 : NodeExists(d, n, MARKER_PRECEDENCE[k], i) # "no"}
    <3>1. CASE stops = {}
      BY <3>1 DEF MarkerState
    <3>2. CASE stops # {}
      <4>1. stops \in SUBSET (1 .. 4) /\ Min(stops) \in stops
        BY <3>2, MinOfPositions
      <4>2. MARKER_PRECEDENCE[Min(stops)] \in Known
        BY <4>1, MarkersAre
      <4> HIDE DEF Min
      <4> QED
        BY <3>2, <4>2 DEF MarkerState
    <3> QED
      BY <3>1, <3>2
  <2>3. \A v : Unmarked(v) \in Answers
    BY AnswersAre DEF Unmarked
  <2> QED
    BY <2>1, <2>2, <2>3, AnswersAre DEF ResolveDirectory
<1> QED
  BY <1>1, <1>2

TruthOK == truth \in [Id -> SUBSET Answers]
BoundsOK == lost \in 0 .. MaxLost /\ moves \in 0 .. MaxMoves

LEMMA TruthTyped ==
  ASSUME ReaderOK, DiskOK, TruthOK, [Next]_vars
  PROVE  TruthOK'
<1>1. ASSUME NEW form \in Forms, NEW i \in Id, Start(form, i)  PROVE TruthOK'
  BY <1>1, StartDoes DEF TruthOK, Held
<1>2. CASE FindLocation
  <2>1. CASE Found(reader.k)
    <3>1. \A i \in Id : ResolveFrom(disk, reader.k, i) \in Answers
      BY <1>2, FindDoes, ResolveAnswers DEF DiskOK
    <3> QED
      BY <2>1, <3>1 DEF Found, TruthOK
  <2>2. CASE Nexted(reader) \/ \E a : Replied(a)
    BY <2>2 DEF Nexted, Replied, Held, TruthOK
  <2> QED
    BY <1>2, <2>1, <2>2, FindDoes
<1>3. CASE Calls
  <2>1. truth' = truth
    BY <1>3, CallKeeps DEF Calls, Held
  <2> QED
    BY <2>1 DEF TruthOK
<1>4. CASE LosePermission \/ Factory
  <2>1. disk' \in Disk
    BY <1>4, LoseDegrades, FactoryKeepsDisk
  <2>2. truth' = IF reader.source = NoSource THEN truth
                 ELSE [i \in Id |-> truth[i] \cup {ResolveFrom(disk', reader.source, i)}]
    BY <1>4, ChangesDisturb, DisturbDoes
  <2>3. reader.source # NoSource => reader.source \in 1 .. 3
    BY DEF ReaderOK, ReaderRec, NoSource
  <2>4. reader.source # NoSource =>
          \A i \in Id : ResolveFrom(disk', reader.source, i) \in Answers
    BY <2>1, <2>3, ResolveAnswers
  <2> QED
    BY <2>2, <2>4 DEF TruthOK
<1>5. CASE UNCHANGED vars
  BY <1>5 DEF vars, TruthOK
<1> QED
  BY <1>1, <1>2, <1>3, <1>4, <1>5 DEF Next, Reader, Calls

LEMMA BoundsStep ==
  ASSUME BoundsOK, [Next]_vars
  PROVE  BoundsOK'
<1>1. /\ MaxLost \in Nat /\ MaxMoves \in Nat
      /\ lost \in Nat /\ moves \in Nat /\ lost <= MaxLost /\ moves <= MaxMoves
  BY ReadAssumption DEF BoundsOK
<1>2. CASE Reader
  BY <1>2 DEF Reader, Start, FindLocation, ReadSource, CheckPresent, Canary, Discover, Scan,
     Foreigners, Walk, Recheck, Conclude, AskAgain, At, BoundsOK
<1>3. CASE LosePermission
  <2>1. \A d : Lose(d) => lost < MaxLost /\ lost' = lost + 1 /\ moves' = moves
    BY DEF Lose
  <2>2. \E d : Lose(d)
    <3> HIDE DEF Lose
    <3> QED
      BY <1>3 DEF LosePermission, CloseParent, HideJson, RestrictDirectory, RestrictState
  <2> QED
    BY <1>1, <2>1, <2>2 DEF BoundsOK
<1>4. CASE Factory
  <2>1. \A d, ids : Work(d, ids) => moves < MaxMoves /\ moves' = moves + 1 /\ lost' = lost
    BY DEF Work
  <2>2. \E d, ids : Work(d, ids)
    <3> HIDE DEF Work
    <3>1. \A n, i, s, t : Move(n, i, s, t) => \E d, ids : Work(d, ids)
      BY DEF Move
    <3>2. \A n : Vanish(n) \/ Return(n) => \E d, ids : Work(d, ids)
      BY DEF Vanish, Return
    <3>3. \A i, said : Report(i, said) => \E d, ids : Work(d, ids)
      BY DEF Report
    <3> QED
      BY <1>4, <3>1, <3>2, <3>3 DEF Factory
  <2> QED
    BY <1>1, <2>1, <2>2 DEF BoundsOK
<1>5. CASE UNCHANGED vars
  BY <1>5 DEF vars, BoundsOK
<1> QED
  BY <1>2, <1>3, <1>4, <1>5 DEF Next

\* Every answer, and every answer the source could have given, is a state the
\* write gates know; the read is at a call of its form; the bounds hold.
THEOREM ReadTypes == Spec => []TypeOK
<1>1. Init => TruthOK /\ BoundsOK
  BY ReadAssumption DEF Init, TruthOK, BoundsOK
<1>2. ReadInv /\ DiskOK /\ TruthOK /\ BoundsOK /\ [Next]_vars => TruthOK' /\ BoundsOK'
  BY TruthTyped, BoundsStep DEF ReadInv
<1>3. ReadInv /\ DiskOK /\ TruthOK /\ BoundsOK => TypeOK
  <2> SUFFICES ASSUME ReadInv  PROVE DiskOK /\ TruthOK /\ BoundsOK => TypeOK
    OBVIOUS
  <2>1. /\ reader.at \in 0 .. 10 /\ reader.form \in {"resolver", "single"}
        /\ reader.form = "single" => reader.at <= 7
        /\ reader.answer \in Answers \cup {"none"} /\ reader.names \subseteq Foreign
    BY DEF ReadInv, ReaderOK, ReaderRec
  <2>2. reader.at \in 0 .. Len(Steps[reader.form])
    <3>1. Len(Steps["resolver"]) = 10 /\ Len(Steps["single"]) = 7
      BY StepTable
    <3>2. CASE reader.form = "resolver"
      BY <2>1, <3>1, <3>2
    <3>3. CASE reader.form = "single"
      <4>1. Len(Steps[reader.form]) = 7
        BY <3>1, <3>3
      <4>2. reader.at \in 0 .. 7
        BY <2>1, <3>3
      <4> QED
        BY <4>1, <4>2
    <3> QED
      BY <2>1, <3>2, <3>3
  <2> QED
    BY <2>1, <2>2 DEF DiskOK, TruthOK, BoundsOK, TypeOK
<1> QED
  BY <1>1, <1>2, <1>3, DiskCorrect, ReadsLearn, PTL DEF Spec
=============================================================================
