--------------------------- MODULE MCTicketWrite ---------------------------
EXTENDS TicketWrite, TLC

CONSTANTS t1, t2, a, b

MCSections == {1, 2}
MCSectionOf == (a :> 1) @@ (b :> 2) @@ (Legacy :> 1)
Job(op, i, rev) == [op |-> op, id |-> i, rev |-> rev, dry |-> FALSE]
\* Two writers of one ticket, and one of its neighbour.
MCJobs == {Job("create", t1, a), Job("edit", t1, b), Job("delete", t1, a),
           Job("create", t2, b),
           [Job("edit", t1, b) EXCEPT !.dry = TRUE]}
\* A Markdown ticket beside a free id, and a ticket with its line beside another.
MCListed == {(t1 :> Legacy) @@ (t2 :> NoEntry), (t1 :> a) @@ (t2 :> b)}
\* Two writers of one ticket, alone in its project, for the liveness run.
MCFewJobs == {Job("create", t1, a), Job("edit", t1, b), Job("delete", t1, a)}
MCFewListed == {t1 :> Legacy}
Symmetry == Permutations(Requests)
=============================================================================
