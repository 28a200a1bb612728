---------------------------- MODULE TicketWrite ----------------------------
(***************************************************************************)
(* The write path of the console: POST, PUT and DELETE of a ticket, each a *)
(* read-modify-write of three coupled files (tickets.json, the ticket's    *)
(* content file, ROADMAP.md) under one asyncio lock, gated by the run      *)
(* state the factory keeps, which moves its tickets all the while, against *)
(* a roadmap that cannot be read, failing writes and a crash of the        *)
(* process between two files.                                              *)
(*                                                                         *)
(* A revision stands for everything a draft or an edit carries: the        *)
(* manifest entry, the content document and the roadmap label built from   *)
(* it.  A ticket whose entry is Legacy has a Markdown content file.        *)
(***************************************************************************)
EXTENDS Naturals, Sequences, SequencesExt, FiniteSets

CONSTANTS
  Id, Revision,   \* ticket ids, and what a request may write into one
  NoEntry,        \* in no manifest, in no file
  Legacy,         \* the revision of a ticket still stored as Markdown
  Sections,       \* the "## " sections of the roadmap: 1 .. n
  SectionOf,      \* revision -> the section its milestone names, or 0
  Requests,       \* requests open at once
  Nobody,         \* no request
  Jobs,           \* what requests ask: [op, id, rev, dry]
  Listed,         \* manifests the console may start from
  MaxFaults       \* bound: failing reads and writes and crashes, together

ASSUME TicketAssumption ==
  /\ IsFiniteSet(Id)
  /\ NoEntry \notin Revision \cup {Legacy}
  /\ Legacy \notin Revision
  /\ Sections \subseteq Nat \ {0}
  /\ SectionOf \in [Revision \cup {Legacy} -> Sections \cup {0}]
  /\ Nobody \notin Requests
  /\ Jobs # {}
  /\ Jobs \subseteq [op : {"create", "edit", "delete"}, id : Id, rev : Revision, dry : BOOLEAN]
  /\ Listed \subseteq [Id -> Revision \cup {Legacy, NoEntry}]
  /\ MaxFaults \in Nat

VARIABLES
  manifest,   \* tickets.json: id -> revision, Legacy or NoEntry
  json,       \* <id>.json content files: id -> revision or NoEntry
  md,         \* the ids that have a Markdown content file
  roadmap,    \* section -> its list items, [id, rev] each, in order
  tracked,    \* the run state the factory gives each id
  pc,         \* where each request is
  job,        \* what each request asks
  answer,     \* what it is answered
  plan,       \* the manifest and roadmap texts its render computed
  holder,     \* who holds write_lock
  queue,      \* the waiters of write_lock, in order (asyncio.Lock is fair)
  torn,       \* <<id, op>>: an apply of op on id stopped between two files
  astray,     \* <<id, op>>: ... or left out the roadmap change it had to make
  was,        \* history: the run states of the holder's ticket since it holds the lock
  faults      \* failing reads and writes and crashes so far

disk == <<manifest, json, md, roadmap>>
tears == <<torn, astray>>
vars == <<disk, tracked, pc, job, answer, plan, holder, queue, tears, was, faults>>

\* The states the gates allow, and a stand-in for all that both refuse.
MUTABLE_STATES == {"todo"}
DELETABLE_STATES == MUTABLE_STATES \cup {"absent"}
RunState == DELETABLE_STATES \cup {"held"}
Allowed(op) == IF op = "edit" THEN MUTABLE_STATES ELSE DELETABLE_STATES

Line == [id : Id, rev : Revision \cup {Legacy}]
Stages == {"idle", "waiting", "check", "gate", "render", "manifest", "content",
           "roadmap", "reread", "done"}
Answers == {"none", "applied", "previewed", "exists", "missing", "declined", "late_error"}
Unchanged == <<>>  \* a roadmap text no change is planned for
NoPlan == [manifest |-> <<>>, roadmap |-> Unchanged, legacy |-> FALSE, blind |-> FALSE]

-----------------------------------------------------------------------------
\* The roadmap, line by line.

Places(road, i) == {p \in UNION {{s} \X DOMAIN road[s] : s \in Sections} :
                      road[p[1]][p[2]].id = i}
First(road, i) == CHOOSE p \in Places(road, i) :
                    \A q \in Places(road, i) :
                      p[1] < q[1] \/ (p[1] = q[1] /\ p[2] <= q[2])
Without(road, p) == [road EXCEPT ![p[1]] = RemoveAt(@, p[2])]
RoadmapCreate(road, i, rev) ==
  IF SectionOf[rev] = 0 THEN road
  ELSE [road EXCEPT ![SectionOf[rev]] = Append(@, [id |-> i, rev |-> rev])]
\* Mutant: a move to another section forgets the line in the old one.
RoadmapEditCopies(road, i, rev) ==
  IF Places(road, i) = {} THEN road
  ELSE LET p == First(road, i)
       IN IF SectionOf[rev] \in {0, p[1]}
          THEN [road EXCEPT ![p[1]][p[2]] = [id |-> i, rev |-> rev]]
          ELSE RoadmapCreate(road, i, rev)
RoadmapEdit(road, i, rev) ==
  IF Places(road, i) = {} THEN road
  ELSE LET p == First(road, i)
       IN IF SectionOf[rev] \in {0, p[1]}
          THEN [road EXCEPT ![p[1]][p[2]] = [id |-> i, rev |-> rev]]
          ELSE RoadmapCreate(Without(road, p), i, rev)
RoadmapDelete(road, i) ==
  IF Places(road, i) = {} THEN road ELSE Without(road, First(road, i))

-----------------------------------------------------------------------------
\* A project planned by the console: each listed ticket has its file and its line.
Init ==
  /\ manifest \in Listed
  /\ json = [i \in Id |-> IF manifest[i] = Legacy THEN NoEntry ELSE manifest[i]]
  /\ md = {i \in Id : manifest[i] = Legacy}
  /\ roadmap = [s \in Sections |->
                  SetToSeq({l \in Line : l.rev = manifest[l.id] /\ SectionOf[l.rev] = s})]
  /\ tracked \in [Id -> RunState]
  /\ pc = [r \in Requests |-> "idle"]
  /\ job \in [Requests -> Jobs]
  /\ answer = [r \in Requests |-> "none"]
  /\ plan = [r \in Requests |-> NoPlan]
  /\ holder = Nobody
  /\ queue = <<>>
  /\ torn = {}
  /\ astray = {}
  /\ was = {}
  /\ faults = 0

Entry(r) == manifest[job[r].id]
At(r, stage) == pc[r] = stage /\ UNCHANGED <<tracked, job, faults>>
Goto(r, stage) == pc' = [pc EXCEPT ![r] = stage]
\* The handler's return or raise: the lock is released on every path.
Finish(r, a) == /\ Goto(r, "done")
                /\ answer' = [answer EXCEPT ![r] = a]
                /\ plan' = [plan EXCEPT ![r] = NoPlan]
                /\ holder' = Nobody
                /\ was' = {}

Arrive(r, j) ==
  /\ pc[r] = "idle"
  /\ job' = [job EXCEPT ![r] = j]
  /\ queue' = Append(queue, r)
  /\ Goto(r, "waiting")
  /\ UNCHANGED <<disk, tracked, answer, plan, holder, tears, was, faults>>

\* Mutant: a handler that skips _load_and_write, so writes overlap.
AcquireUnlocked(r) ==
  /\ At(r, "waiting")
  /\ queue # <<>> /\ Head(queue) = r
  /\ holder' = r
  /\ queue' = Tail(queue)
  /\ was' = {tracked[job[r].id]}
  /\ Goto(r, "check")
  /\ UNCHANGED <<disk, answer, plan, tears>>

Acquire(r) ==
  /\ At(r, "waiting")
  /\ holder = Nobody /\ queue # <<>> /\ Head(queue) = r
  /\ holder' = r
  /\ queue' = Tail(queue)
  /\ was' = {tracked[job[r].id]}
  /\ Goto(r, "check")
  /\ UNCHANGED <<disk, answer, plan, tears>>

\* WriteService: existence first, on a dry run too; a dry run is not gated.
Check(r) ==
  /\ At(r, "check")
  /\ \/ /\ job[r].op = "create" /\ Entry(r) # NoEntry
        /\ Finish(r, "exists")
     \/ /\ job[r].op # "create" /\ Entry(r) = NoEntry
        /\ Finish(r, "missing")
     \/ /\ (job[r].op = "create") = (Entry(r) = NoEntry)
        /\ Goto(r, IF job[r].op = "create" \/ job[r].dry THEN "render" ELSE "gate")
        /\ UNCHANGED <<answer, plan, holder, was>>
  /\ UNCHANGED <<disk, queue, tears>>

\* Mutant: the edit is gated on delete's allowlist.
GateShared(r) ==
  /\ At(r, "gate")
  /\ IF tracked[job[r].id] \in DELETABLE_STATES
     THEN Goto(r, "render") /\ UNCHANGED <<answer, plan, holder, was>>
     ELSE Finish(r, "declined")
  /\ UNCHANGED <<disk, queue, tears>>
\* Mutant: the refusal escapes a bare acquire(), and the lock stays held.
GateKeepsLock(r) ==
  /\ At(r, "gate")
  /\ IF tracked[job[r].id] \in Allowed(job[r].op)
     THEN Goto(r, "render") /\ UNCHANGED answer
     ELSE Goto(r, "done") /\ answer' = [answer EXCEPT ![r] = "declined"]
  /\ UNCHANGED <<disk, plan, holder, queue, tears, was>>

Gate(r) ==
  /\ At(r, "gate")
  /\ IF tracked[job[r].id] \in Allowed(job[r].op)
     THEN Goto(r, "render") /\ UNCHANGED <<answer, plan, holder, was>>
     ELSE Finish(r, "declined")
  /\ UNCHANGED <<disk, queue, tears>>

RoadmapAfter(j) == CASE j.op = "create" -> RoadmapCreate(roadmap, j.id, j.rev)
                     [] j.op = "edit" -> RoadmapEdit(roadmap, j.id, j.rev)
                     [] j.op = "delete" -> RoadmapDelete(roadmap, j.id)
\* Mutant: the edit is not merged into its manifest entry.
PlannedUnmerged(j) ==
  [manifest |-> [manifest EXCEPT ![j.id] = CASE j.op = "delete" -> NoEntry
                                             [] j.op = "edit" -> @
                                             [] j.op = "create" -> j.rev],
   roadmap |-> IF RoadmapAfter(j) = roadmap THEN Unchanged ELSE RoadmapAfter(j),
   legacy |-> manifest[j.id] = Legacy, blind |-> FALSE]
\* What the three renders compute from the files as they read them, and whether the entry
\* declares a Markdown content path.
Planned(j) ==
  [manifest |-> [manifest EXCEPT ![j.id] = IF j.op = "delete" THEN NoEntry ELSE j.rev],
   roadmap |-> IF RoadmapAfter(j) = roadmap THEN Unchanged ELSE RoadmapAfter(j),
   legacy |-> manifest[j.id] = Legacy, blind |-> FALSE]

\* Mutant: a preview falls through to the apply, which has no plan.
RenderDryWrites(r) ==
  /\ At(r, "render")
  /\ IF job[r].dry
     THEN Goto(r, "manifest") /\ UNCHANGED <<answer, plan, holder, was>>
     ELSE /\ plan' = [plan EXCEPT ![r] = Planned(job[r])]
          /\ Goto(r, "manifest")
          /\ UNCHANGED <<answer, holder, was>>
  /\ UNCHANGED <<disk, queue, tears>>

\* The render reads the manifest again, so it may refuse what Check let pass; an edit of
\* a Markdown ticket is refused; a preview ends here.
Render(r) ==
  /\ At(r, "render")
  /\ \/ /\ job[r].op = "create" /\ Entry(r) # NoEntry
        /\ Finish(r, "exists")
     \/ /\ job[r].op # "create" /\ Entry(r) = NoEntry
        /\ Finish(r, "missing")
     \/ /\ job[r].op = "edit" /\ Entry(r) = Legacy
        /\ Finish(r, "declined")
     \/ /\ (job[r].op = "create") = (Entry(r) = NoEntry)
        /\ ~(job[r].op = "edit" /\ Entry(r) = Legacy)
        /\ IF job[r].dry
           THEN Finish(r, "previewed")
           ELSE /\ plan' = [plan EXCEPT ![r] = Planned(job[r])]
                /\ Goto(r, "manifest")
                /\ UNCHANGED <<answer, holder, was>>
  /\ UNCHANGED <<disk, queue, tears>>

\* _roadmap_change swallows a roadmap that cannot be read: the change it calls for is left
\* out of the change set, and the apply goes on without it.
RenderBlind(r) ==
  /\ faults < MaxFaults
  /\ pc[r] = "render"
  /\ ~job[r].dry
  /\ (job[r].op = "create") = (Entry(r) = NoEntry)
  /\ ~(job[r].op = "edit" /\ Entry(r) = Legacy)
  /\ Planned(job[r]).roadmap # Unchanged
  /\ plan' = [plan EXCEPT ![r] = [Planned(job[r]) EXCEPT !.roadmap = Unchanged,
                                                        !.blind = TRUE]]
  /\ Goto(r, "manifest")
  /\ faults' = faults + 1
  /\ UNCHANGED <<disk, tracked, job, answer, holder, queue, tears, was>>

\* The last file of a change set is in place: an earlier tear of this ticket that left its
\* manifest entry behind is repaired by it, but for the roadmap if that was left out.  A
\* ticket created without its line simply has none.
Whole(r) ==
  LET repaired == {job[r].id} \X {"create", "edit"}
  IN /\ Goto(r, "reread")
     /\ torn' = torn \ repaired
     /\ astray' = IF ~plan[r].blind THEN astray \ repaired
                  ELSE IF job[r].op = "create" THEN astray
                  ELSE astray \cup {<<job[r].id, job[r].op>>}

WriteManifest(r) ==
  /\ At(r, "manifest")
  /\ manifest' = plan[r].manifest
  /\ Goto(r, "content")
  /\ UNCHANGED <<json, md, roadmap, answer, plan, holder, queue, tears, was>>

\* Mutant: the content path is derived from the id, not read from the entry.
WriteContentGuessed(r) ==
  /\ At(r, "content")
  /\ json' = [json EXCEPT ![job[r].id] = IF job[r].op = "delete" THEN NoEntry ELSE job[r].rev]
  /\ IF plan[r].roadmap = Unchanged
     THEN Whole(r)
     ELSE Goto(r, "roadmap") /\ UNCHANGED tears
  /\ UNCHANGED <<manifest, md, roadmap, answer, plan, holder, queue, was>>

\* The content path is the one the entry declared when the change set was rendered.
WriteContent(r) ==
  /\ At(r, "content")
  /\ LET i == job[r].id
     IN IF plan[r].legacy
        THEN md' = md \ {i} /\ UNCHANGED json
        ELSE /\ json' = [json EXCEPT ![i] = IF job[r].op = "delete" THEN NoEntry
                                            ELSE job[r].rev]
             /\ UNCHANGED md
  /\ IF plan[r].roadmap = Unchanged
     THEN Whole(r)
     ELSE Goto(r, "roadmap") /\ UNCHANGED tears
  /\ UNCHANGED <<manifest, roadmap, answer, plan, holder, queue, was>>

WriteRoadmap(r) ==
  /\ At(r, "roadmap")
  /\ roadmap' = plan[r].roadmap
  /\ Whole(r)
  /\ UNCHANGED <<manifest, json, md, answer, plan, holder, queue, was>>

Reread(r) ==
  /\ At(r, "reread")
  /\ Finish(r, "applied")
  /\ UNCHANGED <<disk, queue, tears>>

\* Between two files of a change set.
Halfway == {r \in Requests : pc[r] \in {"content", "roadmap"}}
Tears(rs) == {<<job[r].id, job[r].op>> : r \in rs \cap Halfway}

\* Any read or write of the critical section may raise: a 500, and the lock is released.
Fail(r) ==
  /\ faults < MaxFaults
  /\ pc[r] \notin {"idle", "waiting", "done"}
  /\ Finish(r, IF pc[r] \in {"content", "roadmap", "reread"} THEN "late_error" ELSE "declined")
  /\ torn' = torn \cup Tears({r})
  /\ astray' = astray \cup Tears({r})
  /\ faults' = faults + 1
  /\ UNCHANGED <<disk, tracked, job, queue>>

Respond(r) ==
  /\ At(r, "done")
  /\ Goto(r, "idle")
  /\ answer' = [answer EXCEPT ![r] = "none"]
  /\ UNCHANGED <<disk, plan, holder, queue, tears, was>>

\* The process dies and is started again.
Crash ==
  /\ faults < MaxFaults
  /\ pc' = [r \in Requests |-> "idle"]
  /\ answer' = [r \in Requests |-> "none"]
  /\ plan' = [r \in Requests |-> NoPlan]
  /\ holder' = Nobody
  /\ queue' = <<>>
  /\ torn' = torn \cup Tears(Requests)
  /\ astray' = astray \cup Tears(Requests)
  /\ was' = {}
  /\ faults' = faults + 1
  /\ UNCHANGED <<disk, tracked, job>>

\* The factory, another process, seeds, claims, finishes or drops a ticket: at any time,
\* whoever holds the lock.
FactoryMoves ==
  /\ \E i \in Id, s \in RunState :
       /\ s # tracked[i]
       /\ tracked' = [tracked EXCEPT ![i] = s]
       /\ was' = IF holder # Nobody /\ job[holder].id = i THEN was \cup {s} ELSE was
  /\ UNCHANGED <<disk, pc, job, answer, plan, holder, queue, tears, faults>>

Handle(r) == \/ Acquire(r) \/ Check(r) \/ Gate(r) \/ Render(r) \/ WriteManifest(r)
             \/ WriteContent(r) \/ WriteRoadmap(r) \/ Reread(r) \/ Respond(r)

Next == \/ \E r \in Requests : \/ \E j \in Jobs : Arrive(r, j)
                               \/ Handle(r)
                               \/ RenderBlind(r)
                               \/ Fail(r)
        \/ Crash
        \/ FactoryMoves

Spec == Init /\ [][Next]_vars
\* A coroutine that can run is run by the event loop; requests need not arrive, writes need
\* not fail.
FairSpec == Spec /\ \A r \in Requests : WF_vars(Handle(r))

-----------------------------------------------------------------------------
Entries == Revision \cup {Legacy, NoEntry}
Roads == [Sections -> Seq(Line)]

\* Every variable holds what its description says.
TypeOK ==
  /\ manifest \in [Id -> Entries]
  /\ json \in [Id -> Revision \cup {NoEntry}]
  /\ md \subseteq Id
  /\ roadmap \in Roads
  /\ tracked \in [Id -> RunState]
  /\ pc \in [Requests -> Stages]
  /\ job \in [Requests -> Jobs]
  /\ answer \in [Requests -> Answers]
  /\ plan \in [Requests -> {NoPlan} \cup [manifest : [Id -> Entries], roadmap : Roads \cup {Unchanged},
                                          legacy : BOOLEAN, blind : BOOLEAN]]
  /\ holder \in Requests \cup {Nobody}
  /\ queue \in Seq(Requests)
  /\ torn \subseteq Id \X {"create", "edit", "delete"}
  /\ astray \subseteq Id \X {"create", "edit", "delete"}
  /\ was \subseteq RunState
  /\ faults \in 0 .. MaxFaults

Written(i) == \E r \in Halfway : job[r].id = i
Cut(i) == \E op \in {"create", "edit", "delete"} : <<i, op>> \in torn
Astray(i) == \E op \in {"create", "edit", "delete"} : <<i, op>> \in astray

\* A ticket that no apply is halfway through, and no failure left halfway through, has the
\* content file its manifest entry describes and no other: writers that overlap never leave
\* the index and the documents apart.
FilesCoupled ==
  \A i \in Id : ~Written(i) /\ ~Cut(i) =>
    /\ json[i] = IF manifest[i] = Legacy THEN NoEntry ELSE manifest[i]
    /\ i \in md <=> manifest[i] = Legacy

\* A ticket has at most one line in the roadmap, with its present title, under the section
\* of its milestone where there is one, and what is not a ticket has none: save a ticket
\* that an apply is halfway through, that a failure left halfway through, or whose edit or
\* delete could not read the roadmap, until a later apply has put it right.
RoadmapCoupled ==
  \A i \in Id : ~Written(i) /\ ~Astray(i) =>
    \A p \in Places(roadmap, i) :
      /\ Places(roadmap, i) = {p}
      /\ roadmap[p[1]][p[2]].rev = manifest[i]
      /\ SectionOf[manifest[i]] \in {0, p[1]}

\* The apply order: a content file or a roadmap line changes only to what the manifest
\* already says, however the steps of requests, failures and crashes interleave.  So a
\* failure leaves the files behind the index, and never ahead of it.
FilesFollowManifest ==
  [][\A i \in Id :
       /\ json'[i] # json[i] => json'[i] = manifest[i]
       /\ \A s \in Sections : \A l \in ToSet(roadmap'[s]) \ ToSet(roadmap[s]) :
            l.id = i => l.rev = manifest[i]]_vars

\* An edit or a delete lands only on a ticket whose run state allowed it at some instant
\* since its request took the lock, whatever the factory does meanwhile: the gate is not
\* passed on what was true before another writer's turn (assert_mutable, assert_deletable).
WritesWereMutable ==
  [][\A i \in Id : manifest'[i] # manifest[i] /\ manifest[i] # NoEntry =>
       was \cap Allowed(IF manifest'[i] = NoEntry THEN "delete" ELSE "edit") # {}]_vars

\* "The core v2 safety invariant" (write_gate.py): an edit lands, and a delete, only while
\* the run state of its ticket allows it.  False: the factory may claim the ticket after
\* the gate and before the swap; WritesWereMutable is what holds.
WritesOnlyMutable ==
  [][\A i \in Id : manifest'[i] # manifest[i] /\ manifest[i] # NoEntry =>
       tracked[i] \in Allowed(IF manifest'[i] = NoEntry THEN "delete" ELSE "edit")]_vars

\* render_delete "removes that item line": once a delete is answered as applied, nothing of
\* the ticket is left.
DeleteLeavesNothing ==
  [][\A r \in Requests :
       job[r].op = "delete" /\ answer[r] = "none" /\ answer'[r] = "applied" =>
         Places(roadmap, job[r].id) = {}]_vars

\* Every request is answered: no path keeps the lock, no waiter is overtaken for ever.
RequestsFinish == \A r \in Requests : pc[r] = "waiting" ~> pc[r] = "idle"

-----------------------------------------------------------------------------
Fate == [r \in Requests |->
           CASE pc[r] = "idle" -> "idle"
             [] pc[r] \in {"waiting", "check", "gate", "render", "manifest"} -> "asked"
             [] pc[r] \in {"content", "roadmap", "reread"} -> "took"
             [] OTHER -> IF answer[r] \in {"applied", "late_error"} THEN "took"
                         ELSE IF answer[r] = "previewed" THEN "declined" ELSE answer[r]]
Atomic == INSTANCE AtomicTickets WITH tickets <- manifest, fate <- Fate
\* The write path implements AtomicTickets: as far as tickets.json goes, every request takes
\* effect at one point of its life, all of it or nothing.
ImplementsAtomicTickets == Atomic!Spec
=============================================================================
