---------------------------- MODULE LiveUpdates ----------------------------
(***************************************************************************)
(* The event streams of GET /api/v1/events on top of the supervisor.       *)
(*                                                                         *)
(* A stream captures the generation and the live watcher once, when it is  *)
(* opened (api/v1/events.py), and is told apart from a current one by the  *)
(* generation alone (services/events_service.py).  It looks at the         *)
(* generation only when a heartbeat interval passes without an event.      *)
(*                                                                         *)
(* The two reads at connect are one step: the loop thread makes both       *)
(* without an await, and only the loop moves the generation.               *)
(***************************************************************************)
EXTENDS WatcherSupervisor

CONSTANTS
  Streams,      \* connections the browsers can hold
  MaxQueued     \* bound: undelivered events of one stream

ASSUME QueueAssumption == MaxQueued \in Nat \ {0}

VARIABLE stream  \* stream[s]: where it is, what it captured, its queue's length

\* "ready": the handshake frame is out and nothing is subscribed yet.
StreamPlaces == {"closed", "ready", "listening", "heartbeat"}

Open(s) == stream[s].at \in {"ready", "listening", "heartbeat"}

Closed == [at |-> "closed", gen |-> 0, watcher |-> NoWatcher, queued |-> 0]

StreamInit == stream = [s \in Streams |-> Closed]

\* events(): the route handler.
Connect(s) ==
  /\ loop = "serving"
  /\ ~Open(s)
  /\ stream' = [stream EXCEPT ![s] =
       [at |-> "ready", gen |-> generation, watcher |-> current, queued |-> 0]]
  /\ UNCHANGED supVars

\* The queue is registered only when the subscription is first awaited.
Subscribe(s) ==
  /\ LoopFree
  /\ stream[s].at = "ready"
  /\ stream' = [stream EXCEPT ![s].at =
       IF stream[s].watcher = NoWatcher THEN "heartbeat" ELSE "listening"]
  /\ UNCHANGED supVars

\* The queues registered on watcher w.
Audience(w) == {s \in Streams : stream[s].at = "listening" /\ stream[s].watcher = w}

\* _SubscriberHub.fan_out: a change in watcher w's directory goes to every queue.
Change(w) ==
  /\ LoopFree
  /\ w \in running
  /\ \A s \in Audience(w) : stream[s].queued < MaxQueued
  /\ stream' = [s \in Streams |->
       IF s \in Audience(w) THEN [stream[s] EXCEPT !.queued = @ + 1] ELSE stream[s]]
  /\ UNCHANGED supVars

Deliver(s) ==
  /\ LoopFree
  /\ stream[s].queued > 0
  /\ stream' = [stream EXCEPT ![s].queued = @ - 1]
  /\ UNCHANGED supVars

\* Mutant of TickStale: only the heartbeat-only stream checks its generation.
TickStaleIdle(s) ==
  /\ LoopFree
  /\ stream[s].at = "heartbeat"
  /\ stream[s].gen # generation
  /\ stream' = [stream EXCEPT ![s] = Closed]
  /\ UNCHANGED supVars

\* A heartbeat interval passed without an event and the generation has moved:
\* the stale frame, and the stream ends.
TickStale(s) ==
  /\ LoopFree
  /\ stream[s].at \in {"listening", "heartbeat"}
  /\ stream[s].queued = 0
  /\ stream[s].gen # generation
  /\ stream' = [stream EXCEPT ![s] = Closed]
  /\ UNCHANGED supVars

(***************************************************************************)
(* Properties                                                              *)
(***************************************************************************)
\* Type invariant.
StreamTypeOK ==
  /\ SupTypeOK
  /\ stream \in [Streams -> [at: StreamPlaces, gen: 0..MaxMoves,
                             watcher: Watchers \cup {NoWatcher}, queued: 0..MaxQueued]]

\* A swap has dropped, or is about to drop, the watcher the generation stands for.
Swapping ==
  \E t \in Tasks : swap[t].at \in {"load", "drop", "join", "rebuild"}

\* A stream that compares equal really is on the live watcher: one integer
\* stands for the identity of the watcher (WatcherSupervisor.generation).
\* Otherwise it would heartbeat on a stopped watcher and never notice.
FreshMeansLive ==
  \A s \in Streams :
    Open(s) /\ stream[s].gen = generation /\ started /\ ~Swapping
      => stream[s].watcher = current

=============================================================================
