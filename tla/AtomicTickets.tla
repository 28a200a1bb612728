--------------------------- MODULE AtomicTickets ---------------------------
(***************************************************************************)
(* What the ticket write endpoints promise of tickets.json: every request  *)
(* either takes effect in one indivisible step, on its own ticket only, or *)
(* changes nothing; "already exists" and "not found" are answered only of  *)
(* a moment at which they were true.  TicketWrite implements it.           *)
(***************************************************************************)

CONSTANTS Requests,  \* the write requests a console can have open at once
          Jobs,      \* what a request may ask: [op, id, rev, dry]
          NoEntry    \* the ticket is not in tickets.json

VARIABLES tickets,   \* ticket id -> the revision tickets.json holds, or NoEntry
          job,       \* what each request asks
          fate       \* what has become of each request

avars == <<tickets, job, fate>>

\* Whatever tickets.json holds when the console is started.
Init == /\ job \in [Requests -> Jobs]
        /\ fate = [r \in Requests |-> "idle"]

Ask(r, j) ==
  /\ fate[r] = "idle"
  /\ fate' = [fate EXCEPT ![r] = "asked"]
  /\ job' = [job EXCEPT ![r] = j]
  /\ UNCHANGED tickets

\* Whether the job may take effect on the tickets as they are, and what it makes of them.
Applies(j) == ~j.dry /\ (j.op = "create") = (tickets[j.id] = NoEntry)
Outcome(j) == [tickets EXCEPT ![j.id] = IF j.op = "delete" THEN NoEntry ELSE j.rev]

Take(r) ==
  /\ fate[r] = "asked"
  /\ Applies(job[r])
  /\ tickets' = Outcome(job[r])
  /\ fate' = [fate EXCEPT ![r] = "took"]
  /\ UNCHANGED job

Refuse(r) ==
  /\ fate[r] = "asked"
  /\ \/ /\ job[r].op = "create" /\ tickets[job[r].id] # NoEntry
        /\ fate' = [fate EXCEPT ![r] = "exists"]
     \/ /\ job[r].op # "create" /\ tickets[job[r].id] = NoEntry
        /\ fate' = [fate EXCEPT ![r] = "missing"]
     \/ fate' = [fate EXCEPT ![r] = "declined"]
  /\ UNCHANGED <<tickets, job>>

Answered(r) ==
  /\ fate[r] \notin {"idle", "asked"}
  /\ fate' = [fate EXCEPT ![r] = "idle"]
  /\ UNCHANGED <<tickets, job>>

\* A restart loses every open request; what took effect stays.
Lose == fate' = [r \in Requests |-> "idle"] /\ UNCHANGED <<tickets, job>>

Next == \/ \E r \in Requests : \/ \E j \in Jobs : Ask(r, j)
                               \/ Take(r)
                               \/ Refuse(r)
                               \/ Answered(r)
        \/ Lose

Spec == Init /\ [][Next]_avars
=============================================================================
