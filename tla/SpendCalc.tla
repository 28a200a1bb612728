----------------------------- MODULE SpendCalc -----------------------------
(***************************************************************************)
(* What a text of the factory says: read_ledger's lines, the bill that     *)
(* spend_calc.aggregate makes of them, and the one JSON object of an       *)
(* artefact.                                                               *)
(*                                                                         *)
(* The factory writes a document in two parts and, in the ledger, a        *)
(* newline; a text is a sequence of those.  A document is known by its two *)
(* parts next to each other: parts of two documents never make a third.    *)
(* Names and money are numbers, so that both have an order; money is in    *)
(* units of COST_DECIMAL_PLACES, which rounding leaves as they are, and,   *)
(* as the ledger's reader does not refuse it, may be negative.             *)
(***************************************************************************)
EXTENDS Integers, Sequences, FiniteSets, FiniteSetsExt, SequencesExt

CONSTANTS
  Doc,       \* documents
  Kind,      \* Kind[d]: "entry" (validates as LedgerEntry), "object", "array", "junk"
  Cost,      \* cost_usd of an entry
  Level,     \* its level
  Ids,       \* its ids, a sequence that may repeat one
  Model,     \* its scalar model, or NoModel
  NoModel,
  ByModel,   \* its by_model, a sequence of [key, cost]
  Shown,     \* fields of an object the endpoint discloses
  MAX_SKIPPED_LINES

Part(d, n) == [doc |-> d, part |-> n]
NL == [doc |-> "newline", part |-> 0]
Written(d) == <<Part(d, 1), Part(d, 2)>>
Units == [doc : Doc, part : {1, 2}] \cup {NL}

ASSUME CalcAssumption ==
  /\ Kind \in [Doc -> {"entry", "object", "array", "junk"}]
  /\ MAX_SKIPPED_LINES \in Nat /\ "newline" \notin Doc
  /\ Shown \in [Doc -> SUBSET {"pr_url", "status"}]
  /\ Cost \in [Doc -> Int] /\ Level \in [Doc -> Nat] /\ Ids \in [Doc -> Seq(Nat)]
  /\ Model \in [Doc -> Nat \cup {NoModel}]
  /\ ByModel \in [Doc -> Seq([key : Nat, cost : Int])]

-----------------------------------------------------------------------------
\* read_ledger: line by line.

\* S in the order `precedes', a set of pairs: each element at its rank.
InOrder(S, precedes) ==
  [n \in 1 .. Cardinality(S) |->
    CHOOSE x \in S : Cardinality({y \in S : <<y, x>> \in precedes}) = n - 1]
Ascending(S) == InOrder(S, {p \in S \X S : p[1] < p[2]})
\* text.split("\n") without the empty element a final newline leaves.
Newlines(t) == {i \in 1 .. Len(t) : t[i] = NL}
Starts(t) == ({1} \cup {i + 1 : i \in Newlines(t)}) \ {Len(t) + 1}
Lines(t) ==
  LET start == Ascending(Starts(t))
      End(s) == Min({i - 1 : i \in {j \in Newlines(t) : j >= s}} \cup {Len(t)})
  IN [n \in 1 .. Len(start) |-> SubSeq(t, start[n], End(start[n]))]
Terminated(t) == t # <<>> /\ t[Len(t)] = NL

\* Why a line fails; `tail': the last one, not terminated.
Verdict(line, tail) ==
  IF \E d \in Doc : line = Written(d) /\ Kind[d] = "entry" THEN "entry"
  ELSE IF tail THEN "partial_line"
  ELSE IF \E d \in Doc : line = Written(d) /\ Kind[d] # "junk" THEN "invalid_entry"
  ELSE "not_json"
\* Mutant: a failing line costs the file.
OneBadLineCostsTheFile(t) ==
  LET lines == Lines(t)
      Says(n) == Verdict(lines[n], n = Len(lines) /\ ~Terminated(t))
      bad == Ascending({n \in DOMAIN lines : Says(n) # "entry"})
  IN [entries |-> IF bad = <<>> THEN [n \in DOMAIN lines |-> lines[n][1].doc] ELSE <<>>,
      skipped |-> [k \in DOMAIN bad |-> [lineNo |-> bad[k], reason |-> Says(bad[k])]],
      omitted |-> 0]
\* A failing line costs itself; past MAX_SKIPPED_LINES it is only counted.
ReadLines(t) ==
  LET lines == Lines(t)
      Says(n) == Verdict(lines[n], n = Len(lines) /\ ~Terminated(t))
      good == Ascending({n \in DOMAIN lines : Says(n) = "entry"})
      bad == Ascending({n \in DOMAIN lines : Says(n) # "entry"})
      kept == Min({Len(bad), MAX_SKIPPED_LINES})
  IN [entries |-> [k \in DOMAIN good |-> lines[good[k]][1].doc],
      skipped |-> [k \in 1 .. kept |-> [lineNo |-> bad[k], reason |-> Says(bad[k])]],
      omitted |-> Len(bad) - kept]
\* _whole_file_skip: line 0 names no line.
WholeFileSkip(reason) ==
  [entries |-> <<>>, skipped |-> <<[lineNo |-> 0, reason |-> reason]>>, omitted |-> 0]
WHOLE_FILE_REASONS == {"file_too_large", "unreadable"}
WasRead(result) == \A k \in DOMAIN result.skipped : result.skipped[k].reason \notin WHOLE_FILE_REASONS

-----------------------------------------------------------------------------
\* aggregate: three cuts of one bill.

\* Mutant: a ticket named twice by a lane is charged twice.
ChargedPerMention(d) == [k \in DOMAIN Ids[d] |-> [key |-> Ids[d][k], cost |-> Cost[d]]]
\* The full cost to each distinct id.
TicketParts(d) ==
  LET ids == SetToSeq(Range(Ids[d])) IN [k \in DOMAIN ids |-> [key |-> ids[k], cost |-> Cost[d]]]
\* by_model where there is one, else the scalar model, else none.
ModelContributions(d) ==
  IF ByModel[d] # <<>> THEN ByModel[d]
  ELSE IF Model[d] # NoModel THEN <<[key |-> Model[d], cost |-> Cost[d]]>> ELSE <<>>
ModelsOf(d) == {ModelContributions(d)[k].key : k \in DOMAIN ModelContributions(d)}

SumOver(parts, at) == MapThenSumSet(LAMBDA i : parts[i].cost, at)
SumOf(parts) == SumOver(parts, DOMAIN parts)
\* Every contribution folds into the bucket of its key; a dictionary keeps
\* the order in which its keys came.
Buckets(parts) ==
  [k \in {parts[i].key : i \in DOMAIN parts} |->
    LET mine == {i \in DOMAIN parts : parts[i].key = k}
    IN [cost |-> SumOver(parts, mine),
        entries |-> Cardinality(mine), came |-> Min(mine)]]
Dearer(b, j, k) ==
  \/ b[j].cost > b[k].cost
  \/ b[j].cost = b[k].cost /\ j < k
DearestFirst(b) ==
  LET of == DOMAIN b
      keys == InOrder(of, {p \in of \X of : Dearer(b, p[1], p[2])})
  IN [n \in DOMAIN keys |->
       [key |-> keys[n], cost |-> b[keys[n]].cost, entries |-> b[keys[n]].entries]]

Aggregate(entries) ==
  LET of == DOMAIN entries
      tickets == DearestFirst(Buckets(FlattenSeq([i \in of |-> TicketParts(entries[i])])))
      Models(t) == UNION {ModelsOf(entries[i]) : i \in {j \in of : t \in Range(Ids[entries[j]])}}
      models == DearestFirst(Buckets(FlattenSeq([i \in of |-> ModelContributions(entries[i])])))
      levels == [i \in of |-> [key |-> Level[entries[i]], cost |-> Cost[entries[i]]]]
  IN [cost |-> SumOf(levels), entries |-> Len(entries),
      byTicket |-> [n \in DOMAIN tickets |->
                     [row |-> tickets[n], models |-> Models(tickets[n].key)]],
      byModel |-> [n \in DOMAIN models |-> [key |-> models[n].key, cost |-> models[n].cost]],
      byLevel |-> DearestFirst(Buckets(levels))]

-----------------------------------------------------------------------------
\* _read_json_artifact: a text is one JSON object or nothing.
Artifact(reason, data) == [reason |-> reason, data |-> data]
\* Blank lines around a document are JSON's own white space.
OneDocument(t, d) ==
  \E i \in 1 .. Len(t) - 1 : /\ t[i] = Part(d, 1) /\ t[i + 1] = Part(d, 2)
                            /\ \A j \in (1 .. Len(t)) \ {i, i + 1} : t[j] = NL
ParseArtifact(t) ==
  LET objects == {d \in Doc : OneDocument(t, d) /\ Kind[d] \in {"entry", "object"}}
  IN IF objects = {} THEN Artifact("unparseable", {})
     ELSE Artifact("none", Shown[CHOOSE d \in objects : TRUE])
=============================================================================
