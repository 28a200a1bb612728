---------------------------- MODULE FactoryReads ----------------------------
(***************************************************************************)
(* GET /api/v1/spend and GET /api/v1/runs, over files of .factory that are *)
(* written while they are read.                                            *)
(*                                                                         *)
(* The two requests share no state, so a behaviour follows one of them: a  *)
(* client that asks for the spend, up to MaxAsks times, or for the runs.   *)
(* Every request has the root of one project and runs in a worker thread   *)
(* of its own.                                                             *)
(***************************************************************************)
EXTENDS FactoryFiles

CONSTANTS
  Manifest,  \* ticket ids in the order of the manifest, for the runs
  Unsafe,    \* those that are not one path-safe segment: "." and ".."
  MaxAsks    \* bound: requests for the spend

VARIABLES
  request,   \* [asks, at, k, answers]: k, the target it is at; answers, of each target
  before     \* history: the answers to the request before

vars == <<files, request, before>>

LEDGER == <<"factory", "ledger">>
Sources == <<"result", "receipt">>
\* One record per manifest ticket, both sources of it.
Targets == [n \in 1 .. 2 * Len(Manifest) |->
             <<Manifest[(n + 1) \div 2], Sources[2 - (n % 2)]>>]
Asked == IF request.asks = "spend" THEN {LEDGER} ELSE Range(Targets)
Files == {LEDGER} \cup Range(Targets)

ASSUME ReadsAssumption ==
  /\ Manifest \in Seq(STRING) /\ Unsafe \subseteq STRING /\ MaxAsks \in Nat \ {0}
  /\ DOMAIN FirstNodes = Files /\ DOMAIN Writes = Files /\ AppendOnly = {LEDGER}

Init ==
  /\ \E asks \in {"spend", "runs"} :
       request = [asks |-> asks, at |-> IF asks = "runs" /\ Manifest = <<>> THEN "done" ELSE "look",
                  k |-> 1, answers |-> <<>>]
  /\ disk \in [Files -> Node \cap (UNION Range(FirstNodes) \cup {Empty})]
  /\ \A f \in Files : disk[f] \in (IF f \in Asked THEN FirstNodes[f] ELSE {Empty})
  /\ pending = [f \in Files |-> <<>>]
  /\ handle = NoHandle /\ seen = {}
  /\ torn = (disk[LEDGER].text # <<>> /\ ~Terminated(disk[LEDGER].text))
  /\ before = <<>> /\ moves = 0 /\ faults = 0

-----------------------------------------------------------------------------
\* get_spend.

Answer(a) == request' = [request EXCEPT !.at = "done", !.answers = <<a>>]
Spent(found, read, result) ==
  [found |-> found, read |-> read, report |-> Aggregate(result.entries),
   skipped |-> result.skipped, omitted |-> result.omitted]
NoLedger == Spent(FALSE, FALSE, [entries |-> <<>>, skipped |-> <<>>, omitted |-> 0])
Unread(reason) == Spent(TRUE, FALSE, WholeFileSkip(reason))
Billed(result) == Spent(TRUE, WasRead(result), result)

\* Mutant: a probe that fails has found no ledger.
FailIsAbsent == NoLedger
\* find_ledger_path raised: the bill is unknown.
CouldNotLook == Unread("unreadable")

\* is_regular_file of find_ledger_path: the first look of this request.
Probe ==
  /\ request.asks = "spend" /\ request.at = "look"
  /\ Look(LEDGER)
  /\ IF disk[LEDGER].locked THEN Answer(CouldNotLook)
     ELSE IF disk[LEDGER].kind # "file" THEN Answer(NoLedger)
     ELSE request' = [request EXCEPT !.at = "contain"]
  /\ World /\ UNCHANGED before
\* The stat fails for a reason that is not absence.
FailProbe ==
  /\ request.asks = "spend" /\ request.at = "look"
  /\ Look(LEDGER) /\ Answer(CouldNotLook)
  /\ faults < MaxFaults /\ faults' = faults + 1
  /\ UNCHANGED <<disk, pending, torn, moves, before>>
\* LedgerNotContained is an OSError too.
Contain ==
  /\ request.asks = "spend" /\ request.at = "contain"
  /\ IF disk[LEDGER].outside
     THEN Answer(CouldNotLook) /\ UNCHANGED handle
     ELSE request' = [request EXCEPT !.at = "reading"] /\ Call
  /\ World /\ UNCHANGED <<seen, before>>
\* read_ledger of what read_bounded returned, and its aggregate.
Bill ==
  /\ request.asks = "spend" /\ request.at = "reading" /\ handle.at = "back"
  /\ Answer(CASE handle.outcome \in {"not_found", "unreadable"} -> Billed(WholeFileSkip("unreadable"))
              [] handle.outcome = "too_large" -> Billed(WholeFileSkip("file_too_large"))
              [] handle.outcome = "ok" -> Billed(ReadLines(handle.got)))
  /\ UNCHANGED <<files, before>>
\* The client asks again.
AskAgain ==
  /\ request.asks = "spend" /\ request.at = "done" /\ request.k < MaxAsks
  /\ before' = request.answers
  /\ request' = [request EXCEPT !.at = "look", !.k = @ + 1, !.answers = <<>>]
  /\ UNCHANGED files

-----------------------------------------------------------------------------
\* list_runs.

Record(a) ==
  request' = [request EXCEPT !.at = IF request.k < Len(Targets) THEN "look" ELSE "done",
                             !.k = @ + 1, !.answers = Append(@, a)]
\* RealRunArtifactReader's answer to PathTraversal.
Refused == Artifact("unreadable", {})
\* The gates of _safe_artifact_path; no file is looked at for an unsafe id.
Gate ==
  /\ request.asks = "runs" /\ request.at = "look"
  /\ LET f == Targets[request.k]
     IN IF f[1] \in Unsafe
        THEN Record(Refused) /\ seen' = {} /\ handle' = NoHandle
        ELSE IF disk[f].outside THEN Record(Artifact("unreadable", {})) /\ Look(f)
        ELSE /\ request' = [request EXCEPT !.at = "reading"]
             /\ handle' = [NoHandle EXCEPT !.at = "open", !.file = f]
             /\ seen' = {disk[f]}
  /\ World /\ UNCHANGED before
\* _read_json_artifact of what read_bounded returned.
Collect ==
  /\ request.asks = "runs" /\ request.at = "reading" /\ handle.at = "back"
  /\ Record(CASE handle.outcome = "not_found" -> Artifact("absent", {})
              [] handle.outcome \in {"unreadable", "too_large"} -> Artifact(handle.outcome, {})
              [] handle.outcome = "ok" -> ParseArtifact(handle.got))
  /\ UNCHANGED <<files, before>>

-----------------------------------------------------------------------------
Reads == ReadBounded /\ UNCHANGED <<request, before>>
Over == request.at = "done" /\ (request.asks = "runs" \/ request.k = MaxAsks)
\* Followed on the file the reader is at: what happens to another one before a
\* reader looks at it is another first node.
Factory(f) ==
  /\ f = handle.file /\ request.at # "look" /\ ~Over
  /\ FactoryActs(f) /\ UNCHANGED <<request, before>>
Next ==
  \/ Probe \/ FailProbe \/ Contain \/ Bill \/ AskAgain \/ Gate \/ Collect \/ Reads
  \/ \E f \in Files : Factory(f)
Spec == Init /\ [][Next]_vars

-----------------------------------------------------------------------------
\* Properties.

Reasons == {"none", "absent", "unreadable", "too_large", "unparseable"}
Answered == request.at = "done" /\ request.asks = "spend"
Spend == request.answers[1]
Measured == Answered /\ Spend.found /\ Spend.read
\* The record the last step of list_runs made, while its file's history stands.
Recorded == request.asks = "runs" /\ request.at \in {"look", "done"} /\ request.answers # <<>>
LastRecord == Last(request.answers)

\* Types; read_bounded never holds more than one unit over the cap
\* (bounded_read.py: read(max_bytes + 1)).
TypeOK ==
  /\ disk \in [Files -> Node] /\ handle.outcome \in Outcomes
  /\ handle.at \in {"idle", "open", "stat", "read", "back"}
  /\ handle.got \in Seq(Units) /\ Len(handle.got) <= MaxBytes + 1
  /\ request.at \in {"look", "contain", "reading", "done"}
  /\ request.asks = "runs" => \A k \in DOMAIN request.answers : request.answers[k].reason \in Reasons
  /\ moves \in 0 .. MaxMoves /\ faults \in 0 .. MaxFaults

\* The complete entries of a text, without its lines: both parts of a
\* document that has a line to itself.
EntriesAt(t) ==
  {i \in 1 .. Len(t) - 1 : \E d \in Doc :
     /\ Kind[d] = "entry" /\ SubSeq(t, i, i + 1) = Written(d)
     /\ i = 1 \/ t[i - 1] = NL
     /\ i + 1 = Len(t) \/ t[i + 2] = NL}
BillOf(t) == MapThenSumSet(LAMBDA i : Cost[t[i].doc], EntriesAt(t))

NoLedgerIsTrue == Answered /\ ~Spend.found => \E n \in seen : n.kind # "file" /\ ~n.locked
BillIsOfOneState ==
  Measured =>
    \E n \in seen : /\ n.kind = "file" /\ Len(n.text) <= MaxBytes
                   /\ Spend.report.cost = BillOf(n.text)
                   /\ Spend.report.entries = Cardinality(EntriesAt(n.text))
UnreadHasACause ==
  Answered /\ Spend.found /\ ~Spend.read =>
    IF Spend.skipped[1].reason = "file_too_large"
    THEN \E n \in seen : n.kind = "file" /\ Len(n.text) > MaxBytes
    ELSE faults > 0 \/ \E n \in seen : n.locked \/ n.denied \/ n.outside \/ n.kind # "file"
RecordIsTrue ==
  Recorded =>
    CASE LastRecord.reason = "absent" -> \E n \in seen : n.kind = "absent"
      [] LastRecord.reason = "too_large" -> \E n \in seen : Len(n.text) > MaxBytes
      [] LastRecord.reason = "none" ->
           \E n \in seen, d \in Doc : OneDocument(n.text, d) /\ LastRecord.data = Shown[d]
      [] OTHER -> TRUE

\* What an answer says was true of the file at some moment since the request
\* first looked at it, whatever the factory did in between: "no ledger" and
\* "absent" are never said of a file that was there all along, a measured bill
\* is the whole bill of one state of the file, and "unreadable" has a cause.
ClaimsAreTrue == NoLedgerIsTrue /\ BillIsOfOneState /\ UnreadHasACause /\ RecordIsTrue

\* What a file that nobody touches is answered with.
QuietSpend(n) ==
  IF n.locked THEN [found |-> TRUE, read |-> FALSE]
  ELSE IF n.kind # "file" THEN [found |-> FALSE, read |-> FALSE]
  ELSE [found |-> TRUE, read |-> ~n.outside /\ ~n.denied /\ Len(n.text) <= MaxBytes]
QuietReason(n) ==
  IF n.outside \/ n.locked THEN "unreadable"
  ELSE IF n.kind = "absent" THEN "absent"
  ELSE IF n.denied \/ n.kind # "file" THEN "unreadable"
  ELSE IF Len(n.text) > MaxBytes THEN "too_large"
  ELSE IF \E d \in Doc : OneDocument(n.text, d) /\ Kind[d] \in {"entry", "object"}
       THEN "none" ELSE "unparseable"

\* A file that stood still while it was read, with no call failing, is
\* answered for exactly: no gate refuses what it should read, a file of
\* exactly the cap included, and none reads what it should refuse.
QuietReadIsExact ==
  \A n \in seen : seen = {n} /\ faults = 0 =>
    /\ Answered => Spend.found = QuietSpend(n).found /\ Spend.read = QuietSpend(n).read
    /\ Recorded => LastRecord.reason = QuietReason(n)

\* Every line of what was read is an entry, a skip or counted as omitted, and
\* only an unterminated last line is called partial (read_ledger's promise that
\* the number of unreadable lines stays exact past the cap of details).
EveryLineAccounted ==
  Measured =>
    LET t == handle.got
        lines == Cardinality(Newlines(t)) + IF t = <<>> \/ Terminated(t) THEN 0 ELSE 1
    IN /\ Spend.report.entries + Len(Spend.skipped) + Spend.omitted = lines
       /\ Len(Spend.skipped) <= MAX_SKIPPED_LINES
       /\ \A k \in DOMAIN Spend.skipped :
            /\ k > 1 => Spend.skipped[k].lineNo > Spend.skipped[k - 1].lineNo
            /\ Spend.skipped[k].reason = "partial_line" =>
                 Spend.skipped[k].lineNo = lines /\ ~Terminated(t)

\* The three cuts are of one bill: levels add up to the total, a ticket is
\* charged the full cost of each entry that names it and once per entry, and
\* the models of its row are rows of the model cut.
CutsAgree ==
  Measured =>
    LET report == Spend.report
        at == EntriesAt(handle.got)
        Naming(id) == {i \in at : id \in Range(Ids[handle.got[i].doc])}
    IN /\ SumOf(report.byLevel) = report.cost
       /\ \A k \in DOMAIN report.byTicket :
            LET row == report.byTicket[k].row
            IN /\ row.entries = Cardinality(Naming(row.key))
               /\ row.cost = MapThenSumSet(LAMBDA i : Cost[handle.got[i].doc], Naming(row.key))
               /\ \A m \in report.byTicket[k].models :
                    \E j \in DOMAIN report.byModel : report.byModel[j].key = m

\* The report is a function of the set of records: the same entries in any
\* other order of the file serialise identically (_dearest_first).
OrderDoesNotMatter ==
  Measured =>
    LET entries == ReadLines(handle.got).entries
    IN \A p \in Bijection(DOMAIN entries, DOMAIN entries) :
         Aggregate([k \in DOMAIN entries |-> entries[p[k]]]) = Spend.report

\* The report accounts for all that was read, its cuts agree, and the order of
\* the lines does not matter.
ReportIsExact == EveryLineAccounted /\ CutsAgree /\ OrderDoesNotMatter

\* While the ledger is only appended to, and no document is left half written,
\* a client that asks again never sees less: no line a reader caught in the
\* middle of an append takes back what was billed before.  (Nothing refuses a
\* negative cost, which would take some back by itself.)
BillNeverShrinks ==
  Measured /\ before # <<>> /\ before[1].read /\ ~torn =>
    /\ (\A d \in Doc : Kind[d] = "entry" => Cost[d] >= 0) =>
         Spend.report.cost >= before[1].report.cost
    /\ Spend.report.entries >= before[1].report.entries
=============================================================================
