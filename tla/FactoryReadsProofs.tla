------------------------- MODULE FactoryReadsProofs -------------------------
(***************************************************************************)
(* Proofs about FactoryReads, for any documents, caps and number of        *)
(* requests: what read_bounded returns is one state of the file, or a      *)
(* failure with a cause, however the factory writes meanwhile; what the    *)
(* two requests say of it is true; and what the bill of any text amounts   *)
(* to, whatever its lines, costs, ids and models.                          *)
(*                                                                         *)
(*   1. the read: types, what was got of a file, what it is answered with  *)
(*   2. the growing ledger: what one answer read and the next goes on from *)
(*   3. induction, sums and ranks                                          *)
(*   4. read_ledger's lines, spend_calc's cuts and their order             *)
(*   5. the theorems                                                       *)
(***************************************************************************)
EXTENDS FactoryReads, SequenceTheorems, FunctionTheorems, FiniteSetTheorems, TLAPS

HandlePlaces == {"idle", "open", "stat", "read", "back"}
Handles == [at : HandlePlaces, file : Files \cup {NoFile}, orphan : BOOLEAN, held : Node,
            got : Seq(Units), outcome : Outcomes]
Bytes == MaxBytes + 1

\* The types, in the form the proofs use.
Types ==
  /\ disk \in [Files -> Node] /\ pending \in [Files -> Seq(Units)]
  /\ handle \in Handles
  /\ moves \in 0 .. MaxMoves /\ faults \in 0 .. MaxFaults

\* Where the request is, and of which file the handle is.
RequestInv ==
  /\ request = [asks |-> request.asks, at |-> request.at, k |-> request.k,
                answers |-> request.answers]
  /\ request.asks \in {"spend", "runs"} /\ request.at \in {"look", "contain", "reading", "done"}
  /\ request.k \in Nat \ {0}
  /\ request.at = "reading" => handle.at # "idle"
  /\ handle.at \in {"open", "stat", "read"} => request.at = "reading"
  /\ handle.at # "idle" => handle.file \in Files
  /\ handle.at \in {"idle", "open"} => ~handle.orphan
  /\ request.asks = "spend" /\ request.at # "look" => handle.file = LEDGER
  /\ request.at = "contain" => request.asks = "spend" /\ handle.at = "idle"
  /\ request.asks = "runs" /\ request.at \in {"look", "reading"} => request.k \in DOMAIN Targets
  /\ request.asks = "runs" /\ request.at = "reading" => handle.file = Targets[request.k]

Several == \E a, b \in seen : a # b

\* The history has the node of the file now, and the one an open descriptor kept.
SeenInv ==
  /\ seen \subseteq Node
  /\ handle.file \in Files => disk[handle.file] \in seen
  /\ handle.orphan => handle.held \in seen /\ Several

\* What was opened is there, and what is being read is a file.
HeldInv ==
  /\ handle.at \in {"stat", "read"} => Held.kind # "absent"
  /\ handle.at = "read" => Held.kind = "file"

\* An artefact is only ever half written as the first part of a document.
HalfWritten(f) ==
  \E d \in Doc : pending[f] = <<Part(d, 2)>> /\ disk[f].text = <<Part(d, 1)>>
ArtefactInv == \A f \in Files \ {LEDGER} : pending[f] = <<>> \/ HalfWritten(f)

Begins(g, t) == Len(g) <= Len(t) /\ \A i \in 1 .. Len(g) : g[i] = t[i]
\* How far a read gets: the end, or one unit over the cap.
Reach(t) == Min({Len(t), Bytes})
Cut(t) == SubSeq(t, 1, Reach(t))
Short(t) == t = <<>> \/ \E d \in Doc : t = <<Part(d, 1)>> \/ t = Written(d)
FromOne(g) == \E n \in seen : n.kind = "file" /\ g = Cut(n.text)
\* The first part as it was, the second of a document written since.
Spliced(g) ==
  \E d \in Doc, u \in Units, n \in seen :
    g = <<u, Part(d, 2)>> /\ n.kind = "file" /\ n.text = Written(d)

\* What has been read of the ledger is how its text begins.  What has been read of an
\* artefact is one text, or a part of one and the rest of a document written since.
GotInv ==
  /\ Len(handle.got) <= Bytes
  /\ handle.at \in {"idle", "open", "stat"} => handle.got = <<>>
  /\ handle.at = "read" /\ handle.file = LEDGER => Begins(handle.got, Text)
  /\ handle.at = "read" /\ handle.file # LEDGER =>
       \/ handle.got = <<>>
       \/ handle.got = Cut(Text)
       \/ Several /\ Short(Text) /\ (FromOne(handle.got) \/ Spliced(handle.got))

\* What read_bounded returns has its cause in one state of the file.
BackInv ==
  handle.at = "back" =>
    CASE handle.outcome = "none" -> FALSE
      [] handle.outcome = "not_found" -> \E n \in seen : n.kind = "absent"
      [] handle.outcome = "too_large" -> \E n \in seen : n.kind = "file" /\ Len(n.text) > MaxBytes
      [] handle.outcome = "unreadable" ->
           faults > 0 \/ \E n \in seen : n.locked \/ n.denied \/ n.kind # "file"
      [] handle.outcome = "ok" ->
           \/ \E n \in seen : n.kind = "file" /\ n.text = handle.got /\ Len(n.text) <= MaxBytes
           \/ handle.file # LEDGER /\ Several /\ Spliced(handle.got)

\* Nothing happened to the file, and no call failed.
Quiet == ~Several /\ faults = 0
\* What read_bounded makes of a node that stands still.
QuietOutcome(n) ==
  IF n.locked THEN "unreadable"
  ELSE IF n.kind = "absent" THEN "not_found"
  ELSE IF n.denied \/ n.kind # "file" THEN "unreadable"
  ELSE IF Len(n.text) > MaxBytes THEN "too_large" ELSE "ok"

\* How far a read of such a node gets tells what the node is.
QuietInv ==
  Quiet => \A n \in seen :
    /\ handle.at \in {"stat", "read"} => ~n.locked /\ ~n.denied /\ n.kind # "absent"
    /\ handle.at = "read" => n.kind = "file" /\ Len(n.text) <= MaxBytes
    /\ handle.at = "back" => handle.outcome = QuietOutcome(n)
    /\ request.at \in {"contain", "reading"} /\ request.asks = "spend" => n.kind = "file" /\ ~n.locked
    /\ request.at = "reading" => ~n.outside

ReadInv ==
  /\ Types /\ RequestInv /\ SeenInv /\ HeldInv /\ ArtefactInv /\ GotInv /\ BackInv /\ QuietInv

-----------------------------------------------------------------------------
(* Facts about texts.                                                      *)

LEMMA UnitTypes ==
  /\ \A d \in Doc, n \in {1, 2} : Part(d, n) \in Units
  /\ NL \in Units
  /\ \A d \in Doc : Written(d) \in Seq(Units)
BY DEF Part, NL, Units, Written

LEMMA PartTags ==
  /\ \A d, e : Part(d, 1) # Part(e, 2) /\ (Part(d, 1) = Part(e, 1) => d = e)
  /\ \A d, e : Part(d, 2) = Part(e, 2) => d = e
  /\ \A d : Part(d, 1) # NL /\ Part(d, 2) # NL
<1>1. \A d, n : Part(d, n).doc = d /\ Part(d, n).part = n
  BY DEF Part
<1>2. NL.part = 0
  BY DEF NL
<1> QED
  BY <1>1, <1>2

LEMMA MinIs ==
  ASSUME NEW a \in Nat, NEW b \in Nat
  PROVE  /\ Min({a, b}) \in Nat
         /\ Min({a, b}) = a \/ Min({a, b}) = b
         /\ Min({a, b}) <= a /\ Min({a, b}) <= b
<1>1. \E x \in {a, b} : \A y \in {a, b} : x <= y
  <2>1. CASE a <= b
    BY <2>1
  <2>2. CASE b <= a
    BY <2>2
  <2> QED
    BY <2>1, <2>2
<1> QED
  BY <1>1 DEF Min

\* One read call: what there is beyond what was read, within the cap.
More(g, t) == SubSeq(t, Len(g) + 1, Reach(t))

LEMMA ReachIs ==
  ASSUME NEW t \in Seq(Units)
  PROVE  /\ Reach(t) \in Nat /\ Reach(t) <= Len(t) /\ Reach(t) <= Bytes
         /\ Reach(t) = Len(t) \/ Reach(t) = Bytes
         /\ Bytes = MaxBytes + 1 /\ MaxBytes \in Nat
<1>1. Len(t) \in Nat /\ Bytes \in Nat /\ Bytes = MaxBytes + 1 /\ MaxBytes \in Nat
  BY FilesAssumption DEF Bytes
<1> QED
  BY <1>1, MinIs DEF Reach

LEMMA MoreIs ==
  ASSUME NEW g \in Seq(Units), NEW t \in Seq(Units)
  PROVE  /\ More(g, t) \in Seq(Units) /\ g \o More(g, t) \in Seq(Units)
         /\ More(g, t) = <<>> <=> Reach(t) <= Len(g)
         /\ Reach(t) > Len(g) =>
              /\ Len(g \o More(g, t)) = Reach(t)
              /\ \A i \in 1 .. Len(g) : (g \o More(g, t))[i] = g[i]
              /\ \A i \in Len(g) + 1 .. Reach(t) : (g \o More(g, t))[i] = t[i]
<1> DEFINE m == Reach(t)
<1>1. Len(t) \in Nat /\ Len(g) \in Nat /\ m \in Nat /\ m <= Len(t)
  BY ReachIs
<1> HIDE DEF m
<1>3. CASE m <= Len(g)
  <2>1. SubSeq(t, Len(g) + 1, m) = <<>>
    BY <1>1, <1>3
  <2>2. More(g, t) = <<>>
    BY <2>1 DEF More, m
  <2> QED
    BY <1>1, <1>3, <2>2 DEF m
<1>4. CASE m > Len(g)
  <2> DEFINE r == SubSeq(t, Len(g) + 1, m)
  <2>1. r \in Seq(Units) /\ Len(r) = m - Len(g) /\ \A i \in 1 .. m - Len(g) : r[i] = t[Len(g) + i]
    BY <1>1, <1>4
  <2>2. More(g, t) = r
    BY DEF More, m
  <2> HIDE DEF r
  <2>3. /\ g \o r \in Seq(Units) /\ Len(g \o r) = m
        /\ \A i \in 1 .. Len(g) : (g \o r)[i] = g[i]
        /\ \A i \in Len(g) + 1 .. m : (g \o r)[i] = r[i - Len(g)]
    BY <1>1, <1>4, <2>1
  <2>4. \A i \in Len(g) + 1 .. m : r[i - Len(g)] = t[i]
    <3>1. SUFFICES ASSUME NEW i \in Len(g) + 1 .. m PROVE r[i - Len(g)] = t[i]
      OBVIOUS
    <3>2. i - Len(g) \in 1 .. m - Len(g) /\ Len(g) + (i - Len(g)) = i
      BY <1>1
    <3> QED
      BY <2>1, <3>2
  <2>5. r # <<>>
    BY <1>1, <1>4, <2>1
  <2> QED
    BY <1>1, <1>4, <2>1, <2>2, <2>3, <2>4, <2>5 DEF m
<1> QED
  BY <1>1, <1>3, <1>4

LEMMA CutIs ==
  ASSUME NEW t \in Seq(Units)
  PROVE  /\ Cut(t) \in Seq(Units) /\ Len(Cut(t)) = Reach(t)
         /\ Reach(t) <= MaxBytes \/ Len(t) <= MaxBytes => Cut(t) = t
         /\ <<>> \o More(<<>>, t) = Cut(t)
<1>1. /\ Len(t) \in Nat /\ Reach(t) \in Nat /\ Reach(t) <= Len(t)
      /\ Reach(t) = Len(t) \/ Reach(t) = MaxBytes + 1
      /\ MaxBytes \in Nat
  BY ReachIs
<1>2. /\ Cut(t) \in Seq(Units) /\ Len(Cut(t)) = Reach(t)
      /\ \A i \in 1 .. Reach(t) : Cut(t)[i] = t[i]
  BY <1>1 DEF Cut
<1>3. Reach(t) = Len(t) => Cut(t) = t
  BY <1>2, SeqEqual
<1>4. Reach(t) <= MaxBytes \/ Len(t) <= MaxBytes => Reach(t) = Len(t)
  BY <1>1, ReachIs
<1>5. Len(<<>>) + 1 = 1
  OBVIOUS
<1>6. More(<<>>, t) = Cut(t)
  BY <1>5 DEF More, Cut
<1> QED
  BY <1>2, <1>3, <1>4, <1>6

-----------------------------------------------------------------------------
(* The files.                                                              *)

LEMMA TargetsAre ==
  /\ Len(Targets) \in Nat /\ DOMAIN Targets = 1 .. Len(Targets)
  /\ Manifest = <<>> <=> Len(Targets) = 0
  /\ \A k \in DOMAIN Targets : Targets[k] \in Files /\ Targets[k] # LEDGER
  /\ LEDGER \in Files /\ NoFile \notin Files
<1>1. Manifest \in Seq(STRING)
  BY ReadsAssumption
<1>2. Len(Targets) = 2 * Len(Manifest) /\ DOMAIN Targets = 1 .. 2 * Len(Manifest)
  BY <1>1 DEF Targets
<1>3. \A k \in DOMAIN Targets : Targets[k] \in Files
  BY DEF Files, Range
<1>4. \A k \in DOMAIN Targets : Targets[k][2] \in {"result", "receipt"}
  <2>1. SUFFICES ASSUME NEW k \in 1 .. 2 * Len(Manifest)
                 PROVE  Targets[k][2] \in {"result", "receipt"}
    BY <1>2
  <2>2. Targets[k][2] = Sources[2 - (k % 2)]
    BY <1>1, <2>1 DEF Targets
  <2>3. 2 - (k % 2) \in {1, 2}
    BY <1>1, <2>1
  <2> QED
    BY <2>2, <2>3 DEF Sources
<1>5. LEDGER[2] = "ledger" /\ NoFile[2] = "none"
  BY DEF LEDGER, NoFile
<1>6. \A f \in Files : f = LEDGER \/ \E k \in DOMAIN Targets : f = Targets[k]
  BY DEF Files, Range
<1> QED
  BY <1>1, <1>2, <1>3, <1>4, <1>5, <1>6 DEF Files

\* A node with something of it changed is a node.
LEMMA NodeWithKind ==
  ASSUME NEW o \in Node, NEW k \in {"absent", "file", "other"}
  PROVE  [o EXCEPT !.kind = k] \in Node
BY DEF Node

LEMMA NodeWithText ==
  ASSUME NEW o \in Node, NEW t \in Seq(Units)
  PROVE  /\ [o EXCEPT !.text = t] \in Node
         /\ [o EXCEPT !.text = t].kind = o.kind
         /\ [o EXCEPT !.text = t].text = t
BY DEF Node

LEMMA NotBoolean == ASSUME NEW b PROVE (~b) \in BOOLEAN
OBVIOUS

LEMMA NodeFlipped ==
  ASSUME NEW o \in Node
  PROVE  /\ [o EXCEPT !.locked = ~@] \in Node
         /\ [o EXCEPT !.locked = ~@].kind = o.kind
         /\ [o EXCEPT !.locked = ~@].text = o.text
         /\ [o EXCEPT !.denied = ~@] \in Node
         /\ [o EXCEPT !.denied = ~@].kind = o.kind
         /\ [o EXCEPT !.denied = ~@].text = o.text
<1>1. (~o.locked) \in BOOLEAN /\ (~o.denied) \in BOOLEAN
  BY NotBoolean
<1>2. \A b \in BOOLEAN : /\ [o EXCEPT !.locked = b] \in Node
                         /\ [o EXCEPT !.locked = b].kind = o.kind
                         /\ [o EXCEPT !.locked = b].text = o.text
                         /\ [o EXCEPT !.denied = b] \in Node
                         /\ [o EXCEPT !.denied = b].kind = o.kind
                         /\ [o EXCEPT !.denied = b].text = o.text
  BY DEF Node
<1> QED
  BY <1>1, <1>2

LEMMA NodeGone ==
  ASSUME NEW o \in Node, NEW k \in {"absent", "file", "other"}, NEW b \in BOOLEAN
  PROVE  /\ [o EXCEPT !.kind = k, !.text = <<>>] \in Node
         /\ [o EXCEPT !.kind = k, !.text = <<>>, !.denied = b] \in Node
<1>1. <<>> \in Seq(Units)
  OBVIOUS
<1> QED
  BY <1>1 DEF Node

LEMMA AppendShort ==
  ASSUME NEW u \in Units, NEW v \in Units
  PROVE  Append(<<>>, u) = <<u>> /\ Append(<<u>>, v) = <<u, v>>
<1>1. Append(<<>>, u) \in Seq(Units) /\ Len(Append(<<>>, u)) = 1 /\ Append(<<>>, u)[1] = u
  OBVIOUS
<1>2. /\ Append(<<u>>, v) \in Seq(Units) /\ Len(Append(<<u>>, v)) = 2
      /\ Append(<<u>>, v)[1] = u /\ Append(<<u>>, v)[2] = v
  OBVIOUS
<1>3. <<u>> \in Seq(Units) /\ Len(<<u>>) = 1 /\ <<u>>[1] = u
  OBVIOUS
<1>4. <<u, v>> \in Seq(Units) /\ Len(<<u, v>>) = 2 /\ <<u, v>>[1] = u /\ <<u, v>>[2] = v
  OBVIOUS
<1>5. 1 .. 1 = {1} /\ 1 .. 2 = {1, 2}
  OBVIOUS
<1> QED
  BY <1>1, <1>2, <1>3, <1>4, <1>5, SeqEqual

\* How a node of f may have changed under an open descriptor.
Keeps(f, o, n) ==
  o.kind # "absent" =>
    /\ n.kind = o.kind
    /\ f = LEDGER => Begins(o.text, n.text)
    /\ f # LEDGER => n.text = o.text \/ Short(n.text)

\* Whatever the factory does to the file the reader is at, the file is another node
\* with another rest to write; if it keeps its name, it only grew or, an artefact, was
\* begun again.
LEMMA FactoryMoves ==
  ASSUME Types, ArtefactInv, NEW f \in Files, FactoryActs(f)
  PROVE  \/ /\ UNCHANGED <<disk, handle, seen, faults>> /\ moves' \in 0 .. MaxMoves
            /\ pending' = [pending EXCEPT ![f] = <<>>]
         \/ \E n \in Node, rest \in Seq(Units), leaves \in BOOLEAN :
              /\ Become(f, n, rest, leaves)
              /\ ~leaves => Keeps(f, disk[f], n)
              /\ f # LEDGER =>
                   rest = <<>> \/ \E d \in Doc : rest = <<Part(d, 2)>> /\ n.text = <<Part(d, 1)>>
<1> DEFINE o == disk[f]
<1>1. /\ o \in Node /\ pending[f] \in Seq(Units)
      /\ o.kind \in {"absent", "file", "other"} /\ o.text \in Seq(Units)
  BY DEF Types, Node
<1>2. f # LEDGER => pending[f] = <<>> \/ HalfWritten(f)
  BY DEF ArtefactInv
<1>3. \A t \in Seq(Units) : Begins(t, t)
  BY DEF Begins
<1>4. \A t \in Seq(Units), u \in Units : Append(t, u) \in Seq(Units) /\ Begins(t, Append(t, u))
  BY DEF Begins
<1>5. <<>> \in Seq(Units) /\ TRUE \in BOOLEAN /\ FALSE \in BOOLEAN
  OBVIOUS
<1> HIDE DEF o
<1>6. CASE Create(f)
  <2> DEFINE n == [o EXCEPT !.kind = "file"]
  <2>1. o.kind = "absent" /\ Become(f, n, <<>>, FALSE)
    BY <1>6 DEF Create, o
  <2>2. Keeps(f, disk[f], n)
    BY <2>1 DEF Keeps, o
  <2>3. n \in Node
    BY <1>1, NodeWithKind
  <2> HIDE DEF n
  <2> QED
    BY <1>5, <2>1, <2>2, <2>3
<1>7. ASSUME NEW d \in Doc, BeginDocument(f, d)
      PROVE  \E n \in Node, rest \in Seq(Units) :
               /\ Become(f, n, rest, FALSE) /\ Keeps(f, disk[f], n)
               /\ f # LEDGER =>
                    rest = <<>> \/ \E e \in Doc : rest = <<Part(e, 2)>> /\ n.text = <<Part(e, 1)>>
  <2> DEFINE t == Append(IF f \in AppendOnly THEN o.text ELSE <<>>, Part(d, 1))
             n == [o EXCEPT !.text = t]
             rest == IF f \in AppendOnly THEN <<Part(d, 2), NL>> ELSE <<Part(d, 2)>>
  <2>1. Become(f, n, rest, FALSE)
    BY <1>7 DEF BeginDocument, o
  <2>2. f \in AppendOnly <=> f = LEDGER
    BY ReadsAssumption
  <2>3. rest \in Seq(Units) /\ Part(d, 1) \in Units
    BY UnitTypes
  <2>4. t \in Seq(Units) /\ (f = LEDGER => Begins(o.text, t))
    BY <1>1, <1>4, <1>5, <2>2, <2>3
  <2>5. f # LEDGER => t = <<Part(d, 1)>> /\ rest = <<Part(d, 2)>>
    BY <2>2, <2>3, AppendShort
  <2> HIDE DEF t, rest
  <2>6. n \in Node /\ n.kind = o.kind /\ n.text = t
    BY <1>1, <2>4, NodeWithText
  <2> HIDE DEF n
  <2>7. Keeps(f, disk[f], n)
    BY <2>4, <2>5, <2>6 DEF Keeps, Short, o
  <2> QED
    BY <2>1, <2>3, <2>5, <2>6, <2>7
<1>8. CASE Continue(f)
  <2> DEFINE t == Append(o.text, Head(pending[f]))
             n == [o EXCEPT !.text = t]
             rest == Tail(pending[f])
  <2>1. Become(f, n, rest, FALSE) /\ pending[f] # <<>>
    BY <1>8 DEF Continue, o
  <2>2. Head(pending[f]) \in Units /\ rest \in Seq(Units)
    BY <1>1, <2>1
  <2>3. t \in Seq(Units) /\ Begins(o.text, t)
    BY <1>1, <1>4, <2>2
  <2>4. ASSUME f # LEDGER PROVE rest = <<>> /\ Short(t)
    <3>1. PICK d \in Doc : pending[f] = <<Part(d, 2)>> /\ o.text = <<Part(d, 1)>>
      BY <1>2, <2>1, <2>4 DEF HalfWritten, o
    <3>2. Head(pending[f]) = Part(d, 2) /\ Tail(pending[f]) = <<>>
      BY <3>1
    <3>3. t = Written(d)
      BY <3>1, <3>2, UnitTypes, AppendShort DEF Written
    <3> QED
      BY <3>2, <3>3 DEF Short
  <2> HIDE DEF t, rest
  <2>5. n \in Node /\ n.kind = o.kind /\ n.text = t
    BY <1>1, <2>3, NodeWithText
  <2> HIDE DEF n
  <2>6. Keeps(f, disk[f], n)
    BY <2>3, <2>4, <2>5 DEF Keeps, o
  <2> QED
    BY <1>5, <2>1, <2>2, <2>4, <2>5, <2>6
<1>9. CASE Abandon(f)
  BY <1>9, FilesAssumption DEF Abandon, Types
<1>10. CASE Unlink(f)
  <2> DEFINE n == [o EXCEPT !.kind = "absent", !.text = <<>>, !.denied = FALSE]
  <2>1. n \in Node /\ Become(f, n, <<>>, TRUE)
    BY <1>1, <1>5, <1>10, NodeGone DEF Unlink, o
  <2> QED
    BY <1>5, <2>1
<1>11. CASE Obstruct(f)
  <2> DEFINE n == [o EXCEPT !.kind = "other", !.text = <<>>]
  <2>1. n \in Node /\ Become(f, n, <<>>, TRUE)
    BY <1>1, <1>5, <1>11, NodeGone DEF Obstruct, o
  <2> QED
    BY <1>5, <2>1
<1>12. ASSUME NEW d \in Doc, Replace(f, d)
       PROVE  \E n \in Node : Become(f, n, <<>>, TRUE)
  BY <1>1, <1>12, UnitTypes, NodeWithText DEF Replace, o
<1>13. ASSUME NEW n \in Node, Become(f, n, pending[f], FALSE), n.kind = o.kind, n.text = o.text
       PROVE  \E rest \in Seq(Units) :
                /\ Become(f, n, rest, FALSE) /\ Keeps(f, disk[f], n)
                /\ f # LEDGER =>
                     rest = <<>> \/ \E d \in Doc : rest = <<Part(d, 2)>> /\ n.text = <<Part(d, 1)>>
  <2>1. Keeps(f, disk[f], n)
    BY <1>1, <1>3, <1>13 DEF Keeps, o
  <2>2. f # LEDGER => pending[f] = <<>> \/ \E d \in Doc : pending[f] = <<Part(d, 2)>> /\ n.text = <<Part(d, 1)>>
    BY <1>2, <1>13 DEF HalfWritten, o
  <2> QED
    BY <1>1, <1>13, <2>1, <2>2
<1>14. CASE Relock(f)
  <2> DEFINE n == [o EXCEPT !.locked = ~@]
  <2>1. n \in Node /\ n.kind = o.kind /\ n.text = o.text
    BY <1>1, NodeFlipped
  <2>2. Become(f, n, pending[f], FALSE)
    BY <1>14 DEF Relock, o
  <2> HIDE DEF n
  <2> QED
    BY <1>5, <1>13, <2>1, <2>2
<1>15. CASE Deny(f)
  <2> DEFINE n == [o EXCEPT !.denied = ~@]
  <2>1. n \in Node /\ n.kind = o.kind /\ n.text = o.text
    BY <1>1, NodeFlipped
  <2>2. Become(f, n, pending[f], FALSE)
    BY <1>15 DEF Deny, o
  <2> HIDE DEF n
  <2> QED
    BY <1>5, <1>13, <2>1, <2>2
<1> QED
  BY <1>5, <1>6, <1>7, <1>8, <1>9, <1>10, <1>11, <1>12, <1>14, <1>15 DEF FactoryActs

-----------------------------------------------------------------------------
(* read_bounded, call by call.                                             *)

LEMMA BackIs ==
  ASSUME handle \in Handles, NEW outcome \in Outcomes, Back(outcome)
  PROVE  /\ handle' \in Handles /\ handle'.at = "back" /\ handle'.outcome = outcome
         /\ handle'.file = handle.file /\ handle'.orphan = handle.orphan
         /\ handle'.held = handle.held /\ handle'.got = handle.got
BY DEF Handles, HandlePlaces, Back

LEMMA PlaceIs ==
  ASSUME handle \in Handles, NEW place \in HandlePlaces, handle' = [handle EXCEPT !.at = place]
  PROVE  /\ handle' \in Handles /\ handle'.at = place /\ handle'.outcome = handle.outcome
         /\ handle'.file = handle.file /\ handle'.orphan = handle.orphan
         /\ handle'.held = handle.held /\ handle'.got = handle.got
BY DEF Handles, HandlePlaces

LEMMA GotIs ==
  ASSUME handle \in Handles, NEW g \in Seq(Units), handle' = [handle EXCEPT !.got = g]
  PROVE  /\ handle' \in Handles /\ handle'.at = handle.at /\ handle'.outcome = handle.outcome
         /\ handle'.file = handle.file /\ handle'.orphan = handle.orphan
         /\ handle'.held = handle.held /\ handle'.got = g
BY DEF Handles, HandlePlaces

LEMMA OrphanIs ==
  ASSUME handle \in Handles, NEW n \in Node,
         handle' = [handle EXCEPT !.orphan = TRUE, !.held = n]
  PROVE  /\ handle' \in Handles /\ handle'.at = handle.at /\ handle'.outcome = handle.outcome
         /\ handle'.file = handle.file /\ handle'.orphan
         /\ handle'.held = n /\ handle'.got = handle.got
BY DEF Handles, HandlePlaces

LEMMA FreshIs ==
  ASSUME NEW f \in Files \cup {NoFile},
         handle' = [NoHandle EXCEPT !.file = f] \/ handle' = [NoHandle EXCEPT !.at = "open", !.file = f]
  PROVE  /\ handle' \in Handles /\ handle'.at \in {"idle", "open"} /\ handle'.file = f
         /\ ~handle'.orphan /\ handle'.got = <<>>
         /\ handle' = [NoHandle EXCEPT !.file = f] => handle'.at = "idle"
         /\ handle' = [NoHandle EXCEPT !.at = "open", !.file = f] => handle'.at = "open"
<1>1. Empty \in Node /\ <<>> \in Seq(Units)
  BY DEF Empty, Node
<1>2. CASE handle' = [NoHandle EXCEPT !.file = f]
  BY <1>1, <1>2 DEF Handles, HandlePlaces, NoHandle, Outcomes
<1>3. CASE handle' = [NoHandle EXCEPT !.at = "open", !.file = f]
  BY <1>1, <1>3 DEF Handles, HandlePlaces, NoHandle, Outcomes
<1> QED
  BY <1>2, <1>3

\* What a descriptor is of was the file at some moment of the read.
LEMMA HeldSeen ==
  ASSUME Types, RequestInv, SeenInv, handle.at # "idle"
  PROVE  Held \in seen /\ Held \in Node /\ Text = Held.text /\ Text \in Seq(Units)
<1>1. Held \in seen
  BY DEF Held, SeenInv, RequestInv
<1>2. Held \in Node
  BY <1>1 DEF SeenInv
<1> QED
  BY <1>1, <1>2 DEF Text, Node

LEMMA OpenStep == ReadInv /\ OpenFile /\ UNCHANGED <<request, before>> => ReadInv'
<1> SUFFICES ASSUME ReadInv, OpenFile, UNCHANGED <<request, before>> PROVE ReadInv'
  OBVIOUS
<1> USE DEF ReadInv
<1>1. /\ disk' = disk /\ pending' = pending /\ moves' = moves /\ faults' = faults /\ seen' = seen
      /\ request' = request /\ handle.at = "open"
  BY DEF OpenFile, World
<1>2. handle.file \in Files /\ ~handle.orphan /\ handle.got = <<>> /\ request.at = "reading"
  BY <1>1 DEF RequestInv, GotInv
<1> DEFINE n == disk[handle.file]
<1>3. n \in seen /\ n \in Node
  BY <1>2 DEF SeenInv
<1>4. \/ n.locked /\ Back("unreadable")
      \/ ~n.locked /\ n.kind = "absent" /\ Back("not_found")
      \/ ~n.locked /\ n.kind # "absent" /\ n.denied /\ Back("unreadable")
      \/ /\ ~n.locked /\ n.kind # "absent" /\ ~n.denied
         /\ handle' = [handle EXCEPT !.at = "stat"]
  BY DEF OpenFile
<1> HIDE DEF n
<1>5. /\ handle' \in Handles
      /\ handle'.file = handle.file /\ ~handle'.orphan /\ handle'.got = <<>>
      /\ \/ handle'.at = "back" /\ handle'.outcome = "unreadable" /\ (n.locked \/ n.denied)
         \/ handle'.at = "back" /\ handle'.outcome = "not_found" /\ n.kind = "absent"
         \/ handle'.at = "stat"
      /\ handle'.at = "back" => handle'.outcome = QuietOutcome(n)
      /\ handle'.at = "stat" => ~n.locked /\ n.kind # "absent" /\ ~n.denied
  <2>1. handle \in Handles /\ {"unreadable", "not_found"} \subseteq Outcomes /\ "stat" \in HandlePlaces
    BY DEF Types, Outcomes, HandlePlaces
  <2> QED
    BY <1>2, <1>4, <2>1, BackIs, PlaceIs DEF QuietOutcome
<1>6. Types' /\ RequestInv' /\ SeenInv' /\ ArtefactInv'
  BY <1>1, <1>2, <1>5 DEF Types, RequestInv, SeenInv, ArtefactInv, HalfWritten, Several
<1>7. HeldInv'
  BY <1>1, <1>2, <1>5 DEF HeldInv, Held, n
<1>8. GotInv'
  BY <1>1, <1>5, FilesAssumption DEF GotInv, Bytes
<1>9. BackInv'
  BY <1>1, <1>3, <1>5 DEF BackInv
<1>10. QuietInv'
  <2>1. ASSUME Quiet' PROVE Quiet /\ seen = {n}
    BY <1>1, <1>3, <2>1 DEF Quiet, Several
  <2> QED
    BY <1>1, <1>2, <1>5, <2>1 DEF QuietInv, QuietOutcome
<1> QED
  BY <1>6, <1>7, <1>8, <1>9, <1>10

LEMMA StatStep == ReadInv /\ StatFile /\ UNCHANGED <<request, before>> => ReadInv'
<1> SUFFICES ASSUME ReadInv, StatFile, UNCHANGED <<request, before>> PROVE ReadInv'
  OBVIOUS
<1> USE DEF ReadInv
<1>1. /\ disk' = disk /\ pending' = pending /\ moves' = moves /\ faults' = faults /\ seen' = seen
      /\ request' = request /\ handle.at = "stat"
  BY DEF StatFile, World
<1>2. handle.file \in Files /\ handle.got = <<>> /\ request.at = "reading"
  BY <1>1 DEF RequestInv, GotInv
<1> DEFINE n == Held
<1>3. n \in seen /\ n \in Node /\ n.kind # "absent" /\ Text = n.text
  BY <1>1, HeldSeen DEF HeldInv
<1>4. \/ n.kind # "file" /\ Back("unreadable")
      \/ n.kind = "file" /\ Len(n.text) > MaxBytes /\ Back("too_large")
      \/ n.kind = "file" /\ ~(Len(n.text) > MaxBytes) /\ handle' = [handle EXCEPT !.at = "read"]
  BY <1>3 DEF StatFile
<1>5. /\ handle' \in Handles
      /\ handle'.file = handle.file /\ handle'.orphan = handle.orphan /\ handle'.held = handle.held
      /\ handle'.got = <<>>
      /\ \/ handle'.at = "back" /\ handle'.outcome = "unreadable" /\ n.kind # "file"
         \/ handle'.at = "back" /\ handle'.outcome = "too_large" /\ n.kind = "file" /\ Len(n.text) > MaxBytes
         \/ handle'.at = "read" /\ n.kind = "file" /\ ~(Len(n.text) > MaxBytes)
  <2>1. handle \in Handles /\ {"unreadable", "too_large"} \subseteq Outcomes /\ "read" \in HandlePlaces
    BY DEF Types, Outcomes, HandlePlaces
  <2> QED
    BY <1>2, <1>4, <2>1, BackIs, PlaceIs
<1>6. n' = n
  BY <1>1, <1>5 DEF Held
<1> HIDE DEF n
<1>7. Types' /\ RequestInv' /\ SeenInv' /\ ArtefactInv'
  BY <1>1, <1>2, <1>5 DEF Types, RequestInv, SeenInv, ArtefactInv, HalfWritten, Several
<1>8. HeldInv'
  BY <1>3, <1>5, <1>6 DEF HeldInv, n
<1>9. GotInv'
  <2>1. 0 <= Bytes /\ Len(Text') \in Nat
    BY <1>3, <1>6, FilesAssumption DEF Bytes, Text, n, Node
  <2> QED
    BY <1>5, <2>1 DEF GotInv, Begins
<1>10. BackInv'
  BY <1>1, <1>3, <1>5 DEF BackInv
<1>11. QuietInv'
  <2>1. ASSUME Quiet' PROVE Quiet /\ seen = {n}
    BY <1>1, <1>3, <2>1 DEF Quiet, Several
  <2>2. Len(n.text) \in Nat /\ MaxBytes \in Nat
    BY <1>3, FilesAssumption DEF Node
  <2>3. ASSUME Quiet' PROVE ~n.locked /\ ~n.denied /\ n.kind # "absent"
    BY <1>1, <2>1, <2>3 DEF QuietInv
  <2> QED
    BY <1>1, <1>2, <1>5, <2>1, <2>2, <2>3 DEF QuietInv, QuietOutcome
<1> QED
  BY <1>7, <1>8, <1>9, <1>10, <1>11

LEMMA FailStep == ReadInv /\ FailCall /\ UNCHANGED <<request, before>> => ReadInv'
<1> SUFFICES ASSUME ReadInv, FailCall, UNCHANGED <<request, before>> PROVE ReadInv'
  OBVIOUS
<1> USE DEF ReadInv
<1>1. /\ disk' = disk /\ pending' = pending /\ moves' = moves /\ seen' = seen /\ request' = request
      /\ handle.at \in {"open", "stat", "read"} /\ Back("unreadable")
      /\ faults' = faults + 1 /\ faults < MaxFaults
  BY DEF FailCall
<1>2. /\ handle' \in Handles
      /\ handle'.file = handle.file /\ handle'.orphan = handle.orphan /\ handle'.held = handle.held
      /\ handle'.got = handle.got /\ handle'.at = "back" /\ handle'.outcome = "unreadable"
  BY <1>1, BackIs DEF Types, Outcomes
<1>3. faults' \in 0 .. MaxFaults /\ faults' > 0
  BY <1>1, FilesAssumption DEF Types
<1>4. Types' /\ RequestInv' /\ SeenInv' /\ ArtefactInv'
  BY <1>1, <1>2, <1>3 DEF Types, RequestInv, SeenInv, ArtefactInv, HalfWritten, Several
<1>5. HeldInv' /\ GotInv' /\ BackInv'
  BY <1>2, <1>3 DEF HeldInv, GotInv, BackInv
<1>6. QuietInv'
  BY <1>3 DEF QuietInv, Quiet
<1> QED
  BY <1>4, <1>5, <1>6

\* What was read of an artefact, as one text or as the parts of two.
Got(g) ==
  \/ g = <<>>
  \/ g = Cut(Text)
  \/ Several /\ Short(Text) /\ (FromOne(g) \/ Spliced(g))

\* A read of an artefact that finds more reads all of one text, or the second part of a
\* document that was begun since.
LEMMA ArtefactGrows ==
  ASSUME Text \in Seq(Units), handle.got \in Seq(Units), Got(handle.got),
         More(handle.got, Text) # <<>>
  PROVE  LET g == handle.got \o More(handle.got, Text)
         IN g = Cut(Text) \/ (Several /\ Short(Text) /\ \E d \in Doc, u \in Units :
                                g = <<u, Part(d, 2)>> /\ Text = Written(d))
<1> DEFINE h == handle.got
           g == h \o More(h, Text)
<1> HIDE DEF g
<1>a. Reach(Text) \in Nat /\ Len(h) \in Nat /\ Reach(Text) <= Len(Text) /\ Len(Text) \in Nat
  BY ReachIs
<1>b. ~(Reach(Text) <= Len(h))
  BY MoreIs
<1>c. Reach(Text) > Len(h)
  BY <1>a, <1>b
<1>1. /\ g \in Seq(Units) /\ Len(g) = Reach(Text)
      /\ \A i \in 1 .. Len(h) : g[i] = h[i]
      /\ \A i \in Len(h) + 1 .. Reach(Text) : g[i] = Text[i]
  BY <1>c, MoreIs DEF g
<1>2. CASE h = <<>>
  <2>1. <<>> \o More(<<>>, Text) = Cut(Text)
    BY CutIs
  <2>2. g = <<>> \o More(<<>>, Text)
    BY <1>2 DEF g
  <2> QED
    BY <2>1, <2>2 DEF g
<1>3. CASE h = Cut(Text)
  <2>1. Len(h) = Reach(Text)
    BY <1>3, CutIs
  <2> QED
    BY <1>a, <1>c, <2>1
<1>4. CASE h # <<>> /\ Several /\ Short(Text)
  <2>1. Len(h) >= 1
    BY <1>a, <1>4
  <2>2. Len(Text) >= 2
    BY <1>a, <1>c, <2>1
  <2>3. PICK d \in Doc : Text = Written(d)
    <3>1. Text # <<>>
      BY <2>2
    <3>2. ASSUME NEW d \in Doc, Text = <<Part(d, 1)>> PROVE FALSE
      BY <2>2, <3>2
    <3> QED
      BY <1>4, <3>1, <3>2 DEF Short
  <2>4. Len(Text) = 2 /\ Text[2] = Part(d, 2)
    BY <2>3 DEF Written
  <2>5. Len(h) = 1 /\ Reach(Text) = 2
    <3>1. Len(Text) = 2
      BY <2>4
    <3>2. \A a, b, c \in Nat : a >= 1 /\ b > a /\ b <= c /\ c = 2 => a = 1 /\ b = 2
      OBVIOUS
    <3> QED
      BY <1>a, <1>c, <2>1, <3>1, <3>2, Zenon
  <2>6. g[1] \in Units /\ g[2] = Part(d, 2) /\ Len(g) = 2
    BY <1>1, <2>4, <2>5
  <2>7. g = <<g[1], Part(d, 2)>>
    BY <1>1, <2>6
  <2> QED
    BY <1>4, <2>3, <2>6, <2>7 DEF g
<1> QED
  BY <1>2, <1>3, <1>4 DEF Got, g

LEMMA ReadStep == ReadInv /\ ReadFile /\ UNCHANGED <<request, before>> => ReadInv'
<1> SUFFICES ASSUME ReadInv, ReadFile, UNCHANGED <<request, before>> PROVE ReadInv'
  OBVIOUS
<1> USE DEF ReadInv
<1>1. /\ disk' = disk /\ pending' = pending /\ moves' = moves /\ faults' = faults /\ seen' = seen
      /\ request' = request /\ handle.at = "read"
  BY DEF ReadFile, World
<1> DEFINE n == Held
           g == handle.got
           more == More(g, Text)
<1>2. handle.file \in Files /\ request.at = "reading" /\ handle \in Handles /\ g \in Seq(Units)
  BY <1>1 DEF RequestInv, Types, Handles
<1>3. n \in seen /\ n \in Node /\ n.kind = "file" /\ Text = n.text /\ Text \in Seq(Units)
  BY <1>1, HeldSeen DEF HeldInv
<1>4. \/ more = <<>> /\ Back(IF Len(g) > MaxBytes THEN "too_large" ELSE "ok")
      \/ more # <<>> /\ handle' = [handle EXCEPT !.got = g \o more]
  BY DEF ReadFile, More, Reach, Bytes
<1>5. g \o more \in Seq(Units)
  BY <1>2, <1>3, MoreIs
<1>6. /\ handle' \in Handles
      /\ handle'.file = handle.file /\ handle'.orphan = handle.orphan /\ handle'.held = handle.held
      /\ \/ /\ more = <<>> /\ handle'.got = g /\ handle'.at = "back"
            /\ handle'.outcome = IF Len(g) > MaxBytes THEN "too_large" ELSE "ok"
         \/ more # <<>> /\ handle'.got = g \o more /\ handle'.at = "read"
  <2>1. {"too_large", "ok"} \subseteq Outcomes
    BY DEF Outcomes
  <2> QED
    BY <1>1, <1>2, <1>4, <1>5, <2>1, BackIs, GotIs
<1>7. n' = n
  BY <1>1, <1>6 DEF Held
<1>8. /\ Reach(Text) \in Nat /\ Len(g) \in Nat /\ Reach(Text) <= Len(Text) /\ Reach(Text) <= Bytes
      /\ Reach(Text) = Len(Text) \/ Reach(Text) = Bytes
      /\ Bytes = MaxBytes + 1 /\ MaxBytes \in Nat /\ Len(Text) \in Nat
  BY <1>2, <1>3, ReachIs
<1>9. /\ more = <<>> <=> Reach(Text) <= Len(g)
      /\ Reach(Text) > Len(g) =>
           /\ Len(g \o more) = Reach(Text)
           /\ \A i \in 1 .. Len(g) : (g \o more)[i] = g[i]
           /\ \A i \in Len(g) + 1 .. Reach(Text) : (g \o more)[i] = Text[i]
  BY <1>2, <1>3, MoreIs
<1>10. /\ handle.file = LEDGER => Begins(g, Text)
       /\ handle.file # LEDGER => Got(g)
       /\ Len(g) <= Bytes
  BY <1>1 DEF GotInv, Got
<1>11. handle.file # LEDGER /\ more # <<>> =>
         g \o more = Cut(Text) \/ (Several /\ Short(Text) /\ \E d \in Doc, u \in Units :
                                     g \o more = <<u, Part(d, 2)>> /\ Text = Written(d))
  BY <1>2, <1>3, <1>10, ArtefactGrows
<1> HIDE DEF n, g, more
<1>12. Types' /\ RequestInv' /\ SeenInv' /\ ArtefactInv'
  BY <1>1, <1>2, <1>6 DEF Types, RequestInv, SeenInv, ArtefactInv, HalfWritten, Several
<1>13. HeldInv'
  BY <1>3, <1>6, <1>7 DEF HeldInv, n
<1>14. Text' = Text
  BY <1>7 DEF Text, n
<1>15. Len(handle'.got) <= Bytes
  BY <1>6, <1>8, <1>9, <1>10
<1>16. ASSUME handle'.at = "read" PROVE handle'.got = g \o more /\ more # <<>> /\ Reach(Text) > Len(g)
  BY <1>6, <1>8, <1>9, <1>16
<1>17. ASSUME handle'.at = "read", handle.file = LEDGER PROVE Begins(handle'.got, Text)
  <2>1. Len(g \o more) = Reach(Text) /\ \A i \in 1 .. Len(g) : g[i] = Text[i]
    BY <1>9, <1>10, <1>16, <1>17 DEF Begins
  <2>2. \A i \in 1 .. Reach(Text) : (g \o more)[i] = Text[i]
    BY <1>8, <1>9, <1>16, <1>17, <2>1
  <2> QED
    BY <1>8, <1>16, <1>17, <2>1, <2>2 DEF Begins
<1>18. ASSUME handle'.at = "read", handle.file # LEDGER
       PROVE  \/ handle'.got = Cut(Text)
              \/ Several /\ Short(Text) /\ Spliced(handle'.got)
  BY <1>3, <1>11, <1>16, <1>18 DEF Spliced
<1>19. GotInv'
  <2>1. Several' = Several /\ Short(Text)' = Short(Text) /\ Cut(Text)' = Cut(Text)
    BY <1>1, <1>14 DEF Several, Short, Cut, Reach
  <2>2. Spliced(handle'.got) => Spliced(handle.got)'
    BY <1>1 DEF Spliced
  <2>3. Begins(handle'.got, Text) => Begins(handle.got, Text)'
    BY <1>14 DEF Begins
  <2>4. handle'.at \in {"read", "back"}
    BY <1>6
  <2> QED
    BY <1>6, <1>15, <1>17, <1>18, <2>1, <2>2, <2>3, <2>4 DEF GotInv
<1>20. ASSUME handle'.at = "back", handle'.outcome = "too_large"
       PROVE  \E m \in seen : m.kind = "file" /\ Len(m.text) > MaxBytes
  <2>1. Len(g) > MaxBytes
    BY <1>6, <1>20
  <2>2. CASE handle.file = LEDGER
    BY <1>3, <1>8, <1>10, <2>1, <2>2 DEF Begins
  <2>3. CASE g = Cut(Text)
    BY <1>3, <1>8, <2>1, <2>3, CutIs
  <2>4. CASE FromOne(g)
    <3>1. PICK m \in seen : m.kind = "file" /\ g = Cut(m.text)
      BY <2>4 DEF FromOne
    <3>2. m.text \in Seq(Units)
      BY DEF SeenInv, Node
    <3>3. Len(g) = Reach(m.text) /\ Reach(m.text) \in Nat /\ Reach(m.text) <= Len(m.text)
          /\ Len(m.text) \in Nat
      BY <3>1, <3>2, CutIs, ReachIs
    <3> QED
      BY <1>8, <2>1, <3>1, <3>3
  <2>5. CASE Spliced(g)
    <3>1. PICK d \in Doc, u \in Units, m \in seen :
            g = <<u, Part(d, 2)>> /\ m.kind = "file" /\ m.text = Written(d)
      BY <2>5 DEF Spliced
    <3>2. Len(g) = 2 /\ Len(m.text) = 2
      BY <3>1 DEF Written
    <3> QED
      BY <2>1, <3>1, <3>2
  <2>6. g # <<>>
    BY <1>8, <2>1
  <2> QED
    BY <1>10, <2>2, <2>3, <2>4, <2>5, <2>6 DEF Got
<1>21. ASSUME handle'.at = "back", handle'.outcome = "ok"
       PROVE  \/ \E m \in seen : m.kind = "file" /\ m.text = g /\ Len(m.text) <= MaxBytes
              \/ handle.file # LEDGER /\ Several /\ Spliced(g)
  <2>1. ~(Len(g) > MaxBytes) /\ more = <<>> /\ Reach(Text) <= Len(g)
    BY <1>6, <1>9, <1>21
  <2>2. Reach(Text) <= MaxBytes /\ Reach(Text) = Len(Text)
    BY <1>8, <2>1
  <2>3. Cut(Text) = Text
    BY <1>3, <2>2, CutIs
  <2>4. CASE handle.file = LEDGER
    <3>1. Len(g) = Len(Text) /\ \A i \in 1 .. Len(g) : g[i] = Text[i]
      BY <1>8, <1>10, <2>1, <2>2, <2>4 DEF Begins
    <3>2. g = Text
      BY <1>2, <1>3, <3>1, SeqEqual DEF g
    <3> QED
      BY <1>3, <2>2, <3>2
  <2>5. CASE g = <<>>
    <3>1. Len(g) = 0
      BY <2>5
    <3>2. Len(Text) = 0
      BY <1>8, <2>1, <2>2, <3>1
    <3>3. Text = g
      BY <1>3, <2>5, <3>2
    <3> QED
      BY <1>3, <2>2, <3>3
  <2>6. CASE g = Cut(Text)
    BY <1>3, <2>2, <2>3, <2>6
  <2>7. CASE FromOne(g)
    <3>1. PICK m \in seen : m.kind = "file" /\ g = Cut(m.text)
      BY <2>7 DEF FromOne
    <3>2. m.text \in Seq(Units)
      BY DEF SeenInv, Node
    <3>3. /\ Len(g) = Reach(m.text) /\ Reach(m.text) \in Nat
          /\ Reach(m.text) = Len(m.text) \/ Reach(m.text) = Bytes
      BY <3>1, <3>2, CutIs, ReachIs
    <3>4. Reach(m.text) <= MaxBytes /\ Len(m.text) <= MaxBytes
      BY <1>8, <2>1, <3>3
    <3> QED
      BY <3>1, <3>2, <3>4, CutIs
  <2>8. CASE Several /\ Spliced(g) /\ handle.file # LEDGER
    BY <2>8
  <2> QED
    BY <1>10, <2>4, <2>5, <2>6, <2>7, <2>8 DEF Got
<1>22. BackInv'
  <2>1. ASSUME handle'.at = "back" PROVE handle'.got = g /\ handle'.outcome \in {"too_large", "ok"}
    BY <1>6, <2>1
  <2>2. Several' = Several /\ (Spliced(g) => (handle'.got = g => Spliced(handle.got)'))
    BY <1>1 DEF Several, Spliced
  <2> QED
    BY <1>1, <1>6, <1>20, <1>21, <2>1, <2>2 DEF BackInv
<1>23. QuietInv'
  <2>1. ASSUME Quiet' PROVE Quiet /\ seen = {n}
    BY <1>1, <1>3, <2>1 DEF Quiet, Several
  <2>2. ASSUME Quiet' PROVE ~n.locked /\ ~n.denied /\ n.kind = "file" /\ Len(n.text) <= MaxBytes /\ ~n.outside
    BY <1>1, <1>2, <2>1, <2>2 DEF QuietInv
  <2>3. ASSUME Quiet', handle'.at = "back" PROVE handle'.outcome = "ok"
    BY <1>3, <1>8, <1>20, <1>6, <2>1, <2>2, <2>3
  <2> QED
    BY <1>1, <1>2, <1>3, <1>6, <1>8, <2>1, <2>2, <2>3 DEF QuietInv, QuietOutcome
<1> QED
  BY <1>12, <1>13, <1>19, <1>22, <1>23

-----------------------------------------------------------------------------
(* The factory moves under the reader.                                     *)

LEMMA BeginsOn ==
  ASSUME NEW g \in Seq(Units), NEW s \in Seq(Units), NEW t \in Seq(Units),
         Begins(g, s), Begins(s, t)
  PROVE  Begins(g, t)
<1>1. Len(g) \in Nat /\ Len(s) \in Nat /\ Len(t) \in Nat /\ Len(g) <= Len(s) /\ Len(s) <= Len(t)
  BY DEF Begins
<1>2. \A i \in 1 .. Len(g) : g[i] = t[i]
  BY <1>1 DEF Begins
<1> QED
  BY <1>1, <1>2 DEF Begins

LEMMA FactoryStep ==
  ReadInv /\ (\E f \in Files : Factory(f)) =>
    /\ ReadInv' /\ seen \subseteq seen' /\ UNCHANGED <<request, before, faults>>
    /\ Several' \/ seen' = seen
<1> SUFFICES ASSUME ReadInv, NEW f \in Files, Factory(f)
             PROVE  /\ ReadInv' /\ seen \subseteq seen' /\ UNCHANGED <<request, before, faults>>
                    /\ Several' \/ seen' = seen
  OBVIOUS
<1> USE DEF ReadInv
<1>1. f = handle.file /\ FactoryActs(f) /\ request' = request /\ before' = before
  BY DEF Factory
<1>2. CASE /\ UNCHANGED <<disk, handle, seen, faults>> /\ moves' \in 0 .. MaxMoves
           /\ pending' = [pending EXCEPT ![f] = <<>>]
  <2>1. Types'
    BY <1>2 DEF Types
  <2>2. ArtefactInv'
    BY <1>2 DEF ArtefactInv, HalfWritten, Types
  <2>3. RequestInv' /\ SeenInv' /\ HeldInv' /\ BackInv' /\ QuietInv'
    BY <1>1, <1>2 DEF RequestInv, SeenInv, Several, HeldInv, Held, BackInv, QuietInv, Quiet,
       QuietOutcome, Spliced
  <2>4. GotInv'
    BY <1>2 DEF GotInv, Text, Held, Begins, Cut, Reach, Short, Several, FromOne, Spliced
  <2> QED
    BY <1>1, <1>2, <2>1, <2>2, <2>3, <2>4
<1>3. ASSUME NEW n \in Node, NEW rest \in Seq(Units), NEW leaves \in BOOLEAN,
             Become(f, n, rest, leaves), ~leaves => Keeps(f, disk[f], n),
             f # LEDGER =>
               rest = <<>> \/ \E d \in Doc : rest = <<Part(d, 2)>> /\ n.text = <<Part(d, 1)>>
      PROVE  ReadInv' /\ seen \subseteq seen' /\ faults' = faults /\ Several'
  <2> DEFINE o == disk[f]
  <2>1. /\ n # o /\ disk' = [disk EXCEPT ![f] = n] /\ pending' = [pending EXCEPT ![f] = rest]
        /\ seen' = seen \cup {n} /\ faults' = faults
        /\ moves < MaxMoves /\ moves' = moves + 1
    BY <1>1, <1>3 DEF Become
  <2>2. o \in seen /\ o \in Node /\ n.text \in Seq(Units) /\ o.text \in Seq(Units)
    BY <1>1 DEF SeenInv, Types, Node
  <2>3. disk'[f] = n /\ pending'[f] = rest /\ \A e \in Files \ {f} : disk'[e] = disk[e] /\ pending'[e] = pending[e]
    BY <2>1 DEF Types
  <2>4. Several' /\ seen \subseteq seen'
    BY <2>1, <2>2 DEF Several
  <2>5. \/ /\ leaves /\ Open(f) /\ handle' = [handle EXCEPT !.orphan = TRUE, !.held = o]
        \/ handle' = handle /\ (handle.at \in {"stat", "read"} => handle.orphan \/ ~leaves)
    BY <1>1, <1>3 DEF Become, Open
  <2>6. /\ handle' \in Handles /\ handle'.at = handle.at /\ handle'.outcome = handle.outcome
        /\ handle'.file = handle.file /\ handle'.got = handle.got
        /\ \/ handle'.orphan /\ handle'.held = o /\ ~handle.orphan /\ handle.at \in {"stat", "read"}
           \/ /\ handle'.orphan = handle.orphan /\ handle'.held = handle.held
              /\ handle.at \in {"stat", "read"} => handle.orphan \/ ~leaves
    <3>1. handle \in Handles
      BY DEF Types
    <3> QED
      BY <2>2, <2>5, <3>1, OrphanIs DEF Open
  <2> HIDE DEF o
  <2>7. Types'
    <3>1. disk' \in [Files -> Node] /\ pending' \in [Files -> Seq(Units)]
      BY <2>1 DEF Types
    <3>2. moves' \in 0 .. MaxMoves /\ faults' \in 0 .. MaxFaults
      BY <2>1, FilesAssumption DEF Types
    <3> QED
      BY <2>6, <3>1, <3>2 DEF Types
  <2>8. RequestInv'
    BY <1>1, <2>6 DEF RequestInv
  <2>9. SeenInv'
    <3>1. handle'.orphan => handle'.held \in seen'
      BY <2>2, <2>4, <2>6 DEF SeenInv, o
    <3>2. seen' \subseteq Node
      BY <2>1 DEF SeenInv
    <3> QED
      BY <1>1, <2>1, <2>3, <2>4, <2>6, <3>1, <3>2 DEF SeenInv
  <2>10. ArtefactInv'
    <3>1. \A e \in Files \ {LEDGER} : e # f => (pending'[e] = <<>> \/ HalfWritten(e)')
      BY <2>3 DEF ArtefactInv, HalfWritten
    <3>2. f # LEDGER => pending'[f] = <<>> \/ HalfWritten(f)'
      BY <1>3, <2>3 DEF HalfWritten
    <3> QED
      BY <3>1, <3>2 DEF ArtefactInv
  \* What the descriptor is of stays, or is the same file, changed in place.
  <2>11. ASSUME handle.at \in {"stat", "read"}
         PROVE  \/ Held' = Held
                \/ Held = o /\ Held' = n /\ Keeps(f, o, n)
    <3>1. CASE handle'.orphan /\ handle'.held = o /\ ~handle.orphan
      BY <1>1, <3>1 DEF Held, o
    <3>2. CASE handle'.orphan = handle.orphan /\ handle'.held = handle.held /\ handle.orphan
      BY <3>2 DEF Held
    <3>3. CASE handle'.orphan = handle.orphan /\ ~handle.orphan /\ ~leaves
      BY <1>1, <1>3, <2>3, <2>6, <3>3 DEF Held, o
    <3> QED
      BY <2>6, <2>11, <3>1, <3>2, <3>3
  <2>12. HeldInv'
    BY <2>6, <2>11 DEF HeldInv, Keeps
  <2>13. GotInv'
    <3>1. CASE handle.at # "read"
      BY <2>6, <3>1 DEF GotInv
    <3>2. CASE handle.at = "read"
      <4>1. Held.kind = "file" /\ Held \in seen /\ Held \in Node /\ Text = Held.text /\ Text' = Held'.text
        BY <3>2, HeldSeen DEF HeldInv, Text
      <4>3. CASE f = LEDGER
        <5>1. Begins(handle.got, Text)
          BY <1>1, <3>2, <4>3 DEF GotInv
        <5>2. handle.got \in Seq(Units)
          BY DEF Types, Handles
        <5>3. Text' = Text \/ (Text = o.text /\ Text' = n.text /\ Begins(o.text, n.text))
          BY <2>11, <3>2, <4>1, <4>3 DEF Keeps
        <5>4. Begins(handle.got, Text')
          BY <2>2, <5>1, <5>2, <5>3, BeginsOn
        <5>5. Begins(handle.got, Text)'
          BY <2>6, <5>4 DEF Begins
        <5> QED
          BY <1>1, <2>6, <3>2, <4>3, <5>5 DEF GotInv
      <4>4. CASE f # LEDGER
        <5>1. Text' = Text \/ Short(Text)'
          BY <2>11, <3>2, <4>1, <4>4 DEF Keeps, Short
        <5>2. Short(Text) /\ Text' = Text => Short(Text)'
          BY DEF Short
        <5>3. Text' = Text => Cut(Text)' = Cut(Text)
          BY DEF Cut, Reach
        <5>4. handle.got = Cut(Text) => FromOne(handle.got)
          BY <4>1 DEF FromOne
        <5>5. \/ handle.got = <<>>
              \/ handle.got = Cut(Text)
              \/ Several /\ Short(Text) /\ (FromOne(handle.got) \/ Spliced(handle.got))
          BY <1>1, <3>2, <4>4 DEF GotInv
        <5>6. /\ FromOne(handle.got) => FromOne(handle.got)'
              /\ Spliced(handle.got) => Spliced(handle.got)'
          BY <2>4, <2>6 DEF FromOne, Spliced
        <5>7. \/ handle'.got = <<>>
              \/ handle'.got = Cut(Text)'
              \/ Several' /\ Short(Text)' /\ (FromOne(handle.got)' \/ Spliced(handle.got)')
          BY <2>4, <2>6, <5>1, <5>2, <5>3, <5>4, <5>5, <5>6
        <5> QED
          BY <1>1, <2>6, <3>2, <4>4, <5>7 DEF GotInv
      <4> QED
        BY <4>3, <4>4
    <3> QED
      BY <3>1, <3>2
  <2>14. BackInv'
    <3>1. Spliced(handle.got) => Spliced(handle.got)'
      BY <2>4, <2>6 DEF Spliced
    <3>2. handle.outcome \in {"none", "ok", "not_found", "unreadable", "too_large"}
      BY DEF Types, Handles, Outcomes
    <3>3. SUFFICES ASSUME handle'.at = "back" PROVE BackInv'
      BY DEF BackInv
    <3>4. CASE handle.outcome = "none"
      BY <2>6, <3>3, <3>4 DEF BackInv
    <3>5. CASE handle.outcome = "not_found"
      BY <2>4, <2>6, <3>3, <3>5 DEF BackInv
    <3>6. CASE handle.outcome = "too_large"
      BY <2>4, <2>6, <3>3, <3>6 DEF BackInv
    <3>7. CASE handle.outcome = "unreadable"
      BY <2>1, <2>4, <2>6, <3>3, <3>7 DEF BackInv
    <3>8. CASE handle.outcome = "ok"
      BY <2>4, <2>6, <3>1, <3>3, <3>8 DEF BackInv
    <3> QED
      BY <3>2, <3>4, <3>5, <3>6, <3>7, <3>8
  <2>15. QuietInv'
    BY <2>4 DEF QuietInv, Quiet
  <2> QED
    BY <2>1, <2>4, <2>7, <2>8, <2>9, <2>10, <2>12, <2>13, <2>14, <2>15
<1> QED
  BY <1>1, <1>2, <1>3, FactoryMoves

-----------------------------------------------------------------------------
(* What the requests make of it.                                           *)

Artifacts == [reason : Reasons, data : SUBSET {"pr_url", "status"}]

\* A measured bill is the bill of one state of the file, whole and under the cap.
BilledOneState ==
  Measured =>
    \E n \in seen : /\ n.kind = "file" /\ Len(n.text) <= MaxBytes
                   /\ Spend = Billed(ReadLines(n.text))

QuietAnswers ==
  Quiet => \A n \in seen :
    /\ Answered => Spend.found = QuietSpend(n).found /\ Spend.read = QuietSpend(n).read
    /\ Recorded => LastRecord.reason = QuietReason(n)

AnswerInv ==
  /\ request.asks = "runs" => request.answers \in Seq(Artifacts)
  /\ NoLedgerIsTrue /\ UnreadHasACause /\ RecordIsTrue /\ BilledOneState /\ QuietAnswers

IInv == ReadInv /\ AnswerInv

\* What was read line by line was read.
LEMMA LinesWereRead ==
  ASSUME NEW t
  PROVE  WasRead(ReadLines(t))
<1>1. \A line, tail : Verdict(line, tail) \notin WHOLE_FILE_REASONS
  BY DEF Verdict, WHOLE_FILE_REASONS
<1>2. \A k \in DOMAIN ReadLines(t).skipped : \E line, tail : ReadLines(t).skipped[k].reason = Verdict(line, tail)
  BY DEF ReadLines
<1> QED
  BY <1>1, <1>2 DEF WasRead

LEMMA WholeFileUnread ==
  ASSUME NEW reason \in WHOLE_FILE_REASONS
  PROVE  /\ Billed(WholeFileSkip(reason)) = Unread(reason)
         /\ Unread(reason).found = TRUE /\ Unread(reason).read = FALSE
         /\ Unread(reason).skipped[1].reason = reason
<1>1. WholeFileSkip(reason).skipped = <<[lineNo |-> 0, reason |-> reason]>>
  BY DEF WholeFileSkip
<1>2. 1 \in DOMAIN WholeFileSkip(reason).skipped /\ WholeFileSkip(reason).skipped[1].reason = reason
  BY <1>1
<1>3. WasRead(WholeFileSkip(reason)) = FALSE
  BY <1>2 DEF WasRead
<1>4. Billed(WholeFileSkip(reason)) = Unread(reason)
  BY <1>3 DEF Billed, Unread
<1>5. Unread(reason).found = TRUE /\ Unread(reason).read = FALSE
  BY DEF Unread, Spent
<1>6. Unread(reason).skipped = WholeFileSkip(reason).skipped
  BY DEF Unread, Spent
<1> QED
  BY <1>2, <1>4, <1>5, <1>6

\* An answer to the spend, with its claims.
LEMMA AnswerIs ==
  ASSUME RequestInv, request.asks = "spend", NEW a, Answer(a)
  PROVE  /\ request'.asks = "spend" /\ request'.at = "done" /\ request'.k = request.k
         /\ request'.answers = <<a>> /\ Spend' = a /\ Answered' /\ ~Recorded'
         /\ request' = [asks |-> request'.asks, at |-> request'.at, k |-> request'.k,
                        answers |-> request'.answers]
<1>1. /\ request'.asks = "spend" /\ request'.at = "done" /\ request'.k = request.k
      /\ request'.answers = <<a>>
      /\ request' = [asks |-> request'.asks, at |-> request'.at, k |-> request'.k,
                     answers |-> request'.answers]
  BY DEF RequestInv, Answer
<1> QED
  BY <1>1 DEF Spend, Answered, Recorded

\* An artefact's text that is one JSON object gives one document's fields.
LEMMA ParseIs ==
  ASSUME NEW t
  PROVE  \/ /\ ParseArtifact(t) = Artifact("unparseable", {})
            /\ ~\E d \in Doc : OneDocument(t, d) /\ Kind[d] \in {"entry", "object"}
         \/ \E d \in Doc : /\ ParseArtifact(t) = Artifact("none", Shown[d])
                           /\ OneDocument(t, d) /\ Kind[d] \in {"entry", "object"}
BY DEF ParseArtifact

\* Of two documents in parts only the one that was written since can be read whole.
LEMMA SplicedDocument ==
  ASSUME NEW d \in Doc, NEW u \in Units, NEW e \in Doc, OneDocument(<<u, Part(d, 2)>>, e)
  PROVE  e = d /\ OneDocument(Written(d), d)
<1> DEFINE g == <<u, Part(d, 2)>>
<1>1. Len(g) = 2 /\ g[1] = u /\ g[2] = Part(d, 2)
  OBVIOUS
<1>2. PICK i \in 1 .. Len(g) - 1 : g[i] = Part(e, 1) /\ g[i + 1] = Part(e, 2)
  BY DEF OneDocument
<1>3. i = 1
  BY <1>1, <1>2
<1>4. d = e
  BY <1>1, <1>2, <1>3, PartTags
<1>5. Len(Written(d)) = 2 /\ Written(d)[1] = Part(d, 1) /\ Written(d)[2] = Part(d, 2)
  BY DEF Written
<1>6. 1 \in 1 .. 2 - 1 /\ (1 .. 2) \ {1, 1 + 1} = {}
  OBVIOUS
<1> QED
  BY <1>4, <1>5, <1>6 DEF OneDocument

-----------------------------------------------------------------------------
\* The reader looks at a file for the first time: the history is that node.
LEMMA LookIs ==
  ASSUME Types, ArtefactInv, NEW f \in Files,
         handle' = [NoHandle EXCEPT !.file = f] \/ handle' = [NoHandle EXCEPT !.at = "open", !.file = f],
         seen' = {disk[f]},
         disk' = disk, pending' = pending, moves' = moves, faults' \in 0 .. MaxFaults
  PROVE  /\ Types' /\ SeenInv' /\ HeldInv' /\ ArtefactInv' /\ GotInv' /\ BackInv'
         /\ handle'.file = f /\ ~handle'.orphan /\ ~Several' /\ disk[f] \in Node
         /\ handle' = [NoHandle EXCEPT !.file = f] => handle'.at = "idle"
         /\ handle' = [NoHandle EXCEPT !.at = "open", !.file = f] => handle'.at = "open"
<1>1. /\ handle' \in Handles /\ handle'.at \in {"idle", "open"} /\ handle'.file = f
      /\ ~handle'.orphan /\ handle'.got = <<>>
      /\ handle' = [NoHandle EXCEPT !.file = f] => handle'.at = "idle"
      /\ handle' = [NoHandle EXCEPT !.at = "open", !.file = f] => handle'.at = "open"
  BY FreshIs
<1>2. disk[f] \in Node
  BY DEF Types
<1>3. Types'
  BY <1>1 DEF Types
<1>4. SeenInv'
  BY <1>1, <1>2 DEF SeenInv
<1>5. HeldInv' /\ BackInv'
  BY <1>1 DEF HeldInv, BackInv
<1>6. ArtefactInv'
  BY DEF ArtefactInv, HalfWritten
<1>7. GotInv'
  BY <1>1, FilesAssumption DEF GotInv, Bytes
<1>8. ~Several'
  BY DEF Several
<1> QED
  BY <1>1, <1>2, <1>3, <1>4, <1>5, <1>6, <1>7, <1>8

\* What a quiet look at the ledger answers, before it is opened.
LEMMA ProbeStep == IInv /\ (Probe \/ FailProbe) => IInv'
<1> SUFFICES ASSUME IInv, Probe \/ FailProbe PROVE IInv'
  OBVIOUS
<1> USE DEF IInv, ReadInv
<1> DEFINE n == disk[LEDGER]
<1>1. /\ request.asks = "spend" /\ request.at = "look" /\ Look(LEDGER)
      /\ disk' = disk /\ pending' = pending /\ moves' = moves
      /\ LEDGER \in Files
  BY TargetsAre DEF Probe, FailProbe, World
<1>2. handle' = [NoHandle EXCEPT !.file = LEDGER] /\ seen' = {n}
  BY <1>1 DEF Look
<1>3. \/ faults' = faults /\ n.locked /\ Answer(CouldNotLook)
      \/ faults' = faults /\ ~n.locked /\ n.kind # "file" /\ Answer(NoLedger)
      \/ /\ faults' = faults /\ ~n.locked /\ n.kind = "file"
         /\ request' = [request EXCEPT !.at = "contain"]
      \/ faults < MaxFaults /\ faults' = faults + 1 /\ Answer(CouldNotLook)
  BY DEF Probe, FailProbe, World
<1>4. faults \in 0 .. MaxFaults /\ faults' \in 0 .. MaxFaults /\ (faults' = faults \/ faults' > 0)
  BY <1>3, FilesAssumption DEF Types
<1>5. /\ Types' /\ SeenInv' /\ HeldInv' /\ ArtefactInv' /\ GotInv' /\ BackInv'
      /\ handle'.at = "idle" /\ handle'.file = LEDGER /\ ~handle'.orphan /\ ~Several'
      /\ n \in Node
  BY <1>1, <1>2, <1>4, LookIs
<1> HIDE DEF n
<1>6. ASSUME Answer(CouldNotLook), n.locked \/ faults' > 0 PROVE IInv'
  <2>1. /\ Answered' /\ Spend' = CouldNotLook /\ ~Recorded' /\ request'.asks = "spend"
        /\ request'.at = "done" /\ request'.k = request.k
        /\ request' = [asks |-> request'.asks, at |-> request'.at, k |-> request'.k,
                       answers |-> request'.answers]
    BY <1>1, <1>6, AnswerIs
  <2>2. /\ CouldNotLook.found = TRUE /\ CouldNotLook.read = FALSE
        /\ CouldNotLook.skipped[1].reason = "unreadable"
    BY WholeFileUnread DEF CouldNotLook, WHOLE_FILE_REASONS
  <2>3. RequestInv'
    BY <1>5, <2>1 DEF RequestInv
  <2>4. QuietInv'
    BY <1>5, <2>1 DEF QuietInv
  <2>5. NoLedgerIsTrue' /\ BilledOneState' /\ RecordIsTrue'
    BY <2>1, <2>2 DEF NoLedgerIsTrue, BilledOneState, Measured, RecordIsTrue
  <2>6. UnreadHasACause'
    BY <1>2, <1>6, <2>1, <2>2 DEF UnreadHasACause
  <2>7. QuietAnswers'
    <3>1. ASSUME Quiet' PROVE n.locked
      BY <1>6, <3>1 DEF Quiet
    <3>2. n.locked => QuietSpend(n).found = TRUE /\ QuietSpend(n).read = FALSE
      BY DEF QuietSpend
    <3> QED
      BY <1>2, <2>1, <2>2, <3>1, <3>2 DEF QuietAnswers
  <2> QED
    BY <1>5, <2>1, <2>3, <2>4, <2>5, <2>6, <2>7 DEF AnswerInv
<1>7. ASSUME Answer(NoLedger), ~n.locked, n.kind # "file" PROVE IInv'
  <2>1. /\ Answered' /\ Spend' = NoLedger /\ ~Recorded' /\ request'.asks = "spend"
        /\ request'.at = "done" /\ request'.k = request.k
        /\ request' = [asks |-> request'.asks, at |-> request'.at, k |-> request'.k,
                       answers |-> request'.answers]
    BY <1>1, <1>7, AnswerIs
  <2>2. NoLedger.found = FALSE /\ NoLedger.read = FALSE
    BY DEF NoLedger, Spent
  <2>3. RequestInv'
    BY <1>5, <2>1 DEF RequestInv
  <2>4. QuietInv'
    BY <1>5, <2>1 DEF QuietInv
  <2>5. BilledOneState' /\ RecordIsTrue' /\ UnreadHasACause'
    BY <2>1, <2>2 DEF BilledOneState, Measured, RecordIsTrue, UnreadHasACause
  <2>6. NoLedgerIsTrue'
    BY <1>2, <1>7 DEF NoLedgerIsTrue
  <2>7. QuietAnswers'
    <3>1. QuietSpend(n).found = FALSE /\ QuietSpend(n).read = FALSE
      BY <1>7 DEF QuietSpend
    <3> QED
      BY <1>2, <2>1, <2>2, <3>1 DEF QuietAnswers
  <2> QED
    BY <1>5, <2>1, <2>3, <2>4, <2>5, <2>6, <2>7 DEF AnswerInv
<1>8. ASSUME ~n.locked, n.kind = "file", request' = [request EXCEPT !.at = "contain"] PROVE IInv'
  <2>1. /\ request'.asks = "spend" /\ request'.at = "contain" /\ request'.k = request.k
        /\ request' = [asks |-> request'.asks, at |-> request'.at, k |-> request'.k,
                       answers |-> request'.answers]
    BY <1>1, <1>8 DEF RequestInv
  <2>2. RequestInv'
    BY <1>5, <2>1 DEF RequestInv
  <2>3. QuietInv'
    BY <1>2, <1>5, <1>8, <2>1 DEF QuietInv
  <2>4. ~Answered' /\ ~Recorded'
    BY <2>1 DEF Answered, Recorded
  <2>5. AnswerInv'
    BY <2>1, <2>4 DEF AnswerInv, NoLedgerIsTrue, UnreadHasACause, RecordIsTrue, BilledOneState,
       Measured, QuietAnswers
  <2> QED
    BY <1>5, <2>2, <2>3, <2>5
<1> QED
  BY <1>3, <1>4, <1>6, <1>7, <1>8

\* The containment check, between the probe and the open.
LEMMA ContainStep == IInv /\ Contain => IInv'
<1> SUFFICES ASSUME IInv, Contain PROVE IInv'
  OBVIOUS
<1> USE DEF IInv, ReadInv
<1> DEFINE n == disk[LEDGER]
<1>1. /\ request.asks = "spend" /\ request.at = "contain" /\ seen' = seen
      /\ disk' = disk /\ pending' = pending /\ moves' = moves /\ faults' = faults
      /\ LEDGER \in Files
      /\ \/ n.outside /\ Answer(CouldNotLook) /\ handle' = handle
         \/ ~n.outside /\ request' = [request EXCEPT !.at = "reading"] /\ Call
  BY TargetsAre DEF Contain, World
<1>2. handle.at = "idle" /\ handle.file = LEDGER /\ ~handle.orphan /\ handle.got = <<>>
  BY <1>1 DEF RequestInv, GotInv
<1>3. n \in seen /\ n \in Node
  BY <1>1, <1>2 DEF SeenInv
<1>4. ASSUME Quiet PROVE seen = {n} /\ n.kind = "file" /\ ~n.locked
  BY <1>1, <1>3, <1>4 DEF Quiet, Several, QuietInv
<1>5. Several' = Several /\ Quiet' = Quiet /\ ArtefactInv'
  BY <1>1 DEF Several, Quiet, ArtefactInv, HalfWritten
<1> HIDE DEF n
<1>6. CASE n.outside /\ Answer(CouldNotLook) /\ handle' = handle
  <2>1. /\ Answered' /\ Spend' = CouldNotLook /\ ~Recorded' /\ request'.asks = "spend"
        /\ request'.at = "done" /\ request'.k = request.k
        /\ request' = [asks |-> request'.asks, at |-> request'.at, k |-> request'.k,
                       answers |-> request'.answers]
    BY <1>1, <1>6, AnswerIs
  <2>2. /\ CouldNotLook.found = TRUE /\ CouldNotLook.read = FALSE
        /\ CouldNotLook.skipped[1].reason = "unreadable"
    BY WholeFileUnread DEF CouldNotLook, WHOLE_FILE_REASONS
  <2>3. Types' /\ SeenInv' /\ HeldInv' /\ GotInv' /\ BackInv'
    BY <1>1, <1>2, <1>5, <1>6 DEF Types, SeenInv, HeldInv, GotInv, BackInv
  <2>4. RequestInv' /\ QuietInv'
    BY <1>2, <1>6, <2>1 DEF RequestInv, QuietInv
  <2>5. NoLedgerIsTrue' /\ BilledOneState' /\ RecordIsTrue'
    BY <2>1, <2>2 DEF NoLedgerIsTrue, BilledOneState, Measured, RecordIsTrue
  <2>6. UnreadHasACause'
    BY <1>1, <1>3, <1>6, <2>1, <2>2 DEF UnreadHasACause
  <2>7. QuietAnswers'
    <3>1. Quiet => QuietSpend(n).found = TRUE /\ QuietSpend(n).read = FALSE
      BY <1>4, <1>6 DEF QuietSpend
    <3> QED
      BY <1>1, <1>4, <1>5, <2>1, <2>2, <3>1 DEF QuietAnswers
  <2> QED
    BY <1>5, <2>1, <2>3, <2>4, <2>5, <2>6, <2>7 DEF AnswerInv
<1>7. CASE ~n.outside /\ request' = [request EXCEPT !.at = "reading"] /\ Call
  <2>1. /\ request'.asks = "spend" /\ request'.at = "reading" /\ request'.k = request.k
        /\ request' = [asks |-> request'.asks, at |-> request'.at, k |-> request'.k,
                       answers |-> request'.answers]
    BY <1>1, <1>7 DEF RequestInv
  <2>2. /\ handle' \in Handles /\ handle'.at = "open" /\ handle'.file = LEDGER
        /\ ~handle'.orphan /\ handle'.got = <<>>
    BY <1>2, <1>7, PlaceIs DEF Types, Call, HandlePlaces
  <2>3. Types' /\ SeenInv' /\ HeldInv' /\ BackInv'
    BY <1>1, <1>2, <2>2 DEF Types, SeenInv, HeldInv, BackInv
  <2>4. GotInv'
    BY <2>2, FilesAssumption DEF GotInv, Bytes
  <2>5. RequestInv'
    BY <1>1, <2>1, <2>2 DEF RequestInv
  <2>6. QuietInv'
    BY <1>1, <1>4, <1>5, <1>7, <2>1, <2>2 DEF QuietInv
  <2>7. ~Answered' /\ ~Recorded'
    BY <2>1 DEF Answered, Recorded
  <2>8. AnswerInv'
    BY <2>1, <2>7 DEF AnswerInv, NoLedgerIsTrue, UnreadHasACause, RecordIsTrue, BilledOneState,
       Measured, QuietAnswers
  <2> QED
    BY <1>5, <2>3, <2>4, <2>5, <2>6, <2>8
<1> QED
  BY <1>1, <1>6, <1>7

\* A whole file that was not read, for what read_bounded returned.
LEMMA BillStep == IInv /\ Bill => IInv'
<1> SUFFICES ASSUME IInv, Bill PROVE IInv'
  OBVIOUS
<1> USE DEF IInv, ReadInv
<1>1. /\ request.asks = "spend" /\ request.at = "reading" /\ handle.at = "back"
      /\ disk' = disk /\ pending' = pending /\ handle' = handle /\ seen' = seen
      /\ moves' = moves /\ faults' = faults
  BY DEF Bill, files
<1>2. handle.outcome \in {"none", "ok", "not_found", "unreadable", "too_large"}
  BY DEF Types, Handles, Outcomes
<1>3. handle.outcome # "none" /\ handle.file = LEDGER
  BY <1>1 DEF BackInv, RequestInv
<1>4. \/ handle.outcome \in {"not_found", "unreadable"} /\ Answer(Billed(WholeFileSkip("unreadable")))
      \/ handle.outcome = "too_large" /\ Answer(Billed(WholeFileSkip("file_too_large")))
      \/ handle.outcome = "ok" /\ Answer(Billed(ReadLines(handle.got)))
  BY <1>2, <1>3 DEF Bill
<1>5. ASSUME NEW a, Answer(a)
      PROVE  /\ Answered' /\ Spend' = a /\ ~Recorded' /\ request'.asks = "spend"
             /\ ReadInv'
  <2>1. /\ Answered' /\ Spend' = a /\ ~Recorded' /\ request'.asks = "spend"
        /\ request'.at = "done" /\ request'.k = request.k
        /\ request' = [asks |-> request'.asks, at |-> request'.at, k |-> request'.k,
                       answers |-> request'.answers]
    BY <1>1, <1>5, AnswerIs
  <2>2. Types' /\ SeenInv' /\ HeldInv' /\ ArtefactInv' /\ GotInv' /\ BackInv'
    BY <1>1 DEF Types, SeenInv, Several, HeldInv, ArtefactInv, HalfWritten, GotInv, BackInv, Spliced
  <2>3. RequestInv'
    BY <1>1, <1>3, <2>1 DEF RequestInv
  <2>4. QuietInv'
    BY <1>1, <2>1 DEF QuietInv, Quiet, Several
  <2> QED
    BY <2>1, <2>2, <2>3, <2>4
<1>6. \A n \in seen : Quiet => n.kind = "file" /\ ~n.locked /\ ~n.outside /\ handle.outcome = QuietOutcome(n)
  BY <1>1 DEF QuietInv
<1>7. Quiet' = Quiet
  BY <1>1 DEF Quiet, Several
<1>8. ASSUME NEW reason \in WHOLE_FILE_REASONS, Answer(Billed(WholeFileSkip(reason))),
             handle.outcome # "ok", handle.outcome = "too_large" <=> reason = "file_too_large"
      PROVE  IInv'
  <2> DEFINE a == Billed(WholeFileSkip(reason))
  <2>1. a.found = TRUE /\ a.read = FALSE /\ a.skipped[1].reason = reason
    BY WholeFileUnread
  <2>2. /\ Answered' /\ Spend' = a /\ ~Recorded' /\ request'.asks = "spend" /\ ReadInv'
    BY <1>5, <1>8
  <2> HIDE DEF a
  <2>3. NoLedgerIsTrue' /\ BilledOneState' /\ RecordIsTrue'
    BY <2>1, <2>2 DEF NoLedgerIsTrue, BilledOneState, Measured, RecordIsTrue
  <2>4. IF reason = "file_too_large" THEN \E n \in seen : n.kind = "file" /\ Len(n.text) > MaxBytes
        ELSE faults > 0 \/ \E n \in seen : n.locked \/ n.denied \/ n.outside \/ n.kind # "file"
    BY <1>1, <1>2, <1>3, <1>8 DEF BackInv
  <2>5. UnreadHasACause'
    BY <1>1, <2>1, <2>2, <2>4 DEF UnreadHasACause
  <2>6. \A n \in seen : Quiet => QuietSpend(n).found = TRUE /\ QuietSpend(n).read = FALSE
    <3>1. ASSUME NEW n \in seen, Quiet PROVE n.denied \/ ~(Len(n.text) <= MaxBytes)
      <4>1. n.text \in Seq(Units) /\ MaxBytes \in Nat
        BY FilesAssumption DEF SeenInv, Node
      <4> QED
        BY <1>6, <1>8, <3>1, <4>1 DEF QuietOutcome
    <3> QED
      BY <1>6, <3>1 DEF QuietSpend
  <2>7. QuietAnswers'
    BY <1>1, <1>7, <2>1, <2>2, <2>6 DEF QuietAnswers
  <2> QED
    BY <2>2, <2>3, <2>5, <2>7 DEF AnswerInv
<1>9. ASSUME handle.outcome = "ok", Answer(Billed(ReadLines(handle.got))) PROVE IInv'
  <2> DEFINE a == Billed(ReadLines(handle.got))
  <2>1. a.found = TRUE /\ a.read = TRUE
    BY LinesWereRead DEF Billed, Spent
  <2>2. /\ Answered' /\ Spend' = a /\ ~Recorded' /\ request'.asks = "spend" /\ ReadInv'
    BY <1>5, <1>9
  <2>3. \E n \in seen : n.kind = "file" /\ Len(n.text) <= MaxBytes /\ a = Billed(ReadLines(n.text))
    BY <1>1, <1>3, <1>9 DEF BackInv
  <2> HIDE DEF a
  <2>4. NoLedgerIsTrue' /\ UnreadHasACause' /\ RecordIsTrue'
    BY <2>1, <2>2 DEF NoLedgerIsTrue, UnreadHasACause, RecordIsTrue
  <2>5. BilledOneState'
    BY <1>1, <2>2, <2>3 DEF BilledOneState
  <2>6. \A n \in seen : Quiet => QuietSpend(n).found = TRUE /\ QuietSpend(n).read = TRUE
    <3>1. ASSUME NEW n \in seen, Quiet PROVE ~n.denied /\ Len(n.text) <= MaxBytes
      <4>1. n.text \in Seq(Units) /\ MaxBytes \in Nat
        BY FilesAssumption DEF SeenInv, Node
      <4> QED
        BY <1>6, <1>9, <3>1, <4>1 DEF QuietOutcome
    <3> QED
      BY <1>6, <3>1 DEF QuietSpend
  <2>7. QuietAnswers'
    BY <1>1, <1>7, <2>1, <2>2, <2>6 DEF QuietAnswers
  <2> QED
    BY <2>2, <2>4, <2>5, <2>7 DEF AnswerInv
<1>10. ASSUME handle.outcome \in {"not_found", "unreadable"}, Answer(Billed(WholeFileSkip("unreadable")))
       PROVE  IInv'
  <2>1. "unreadable" \in WHOLE_FILE_REASONS /\ "unreadable" # "file_too_large"
    BY DEF WHOLE_FILE_REASONS
  <2>2. handle.outcome # "ok" /\ handle.outcome # "too_large"
    BY <1>10
  <2> QED
    BY <1>8, <1>10, <2>1, <2>2
<1>11. ASSUME handle.outcome = "too_large", Answer(Billed(WholeFileSkip("file_too_large")))
       PROVE  IInv'
  <2>1. "file_too_large" \in WHOLE_FILE_REASONS
    BY DEF WHOLE_FILE_REASONS
  <2>2. handle.outcome # "ok"
    BY <1>11
  <2> QED
    BY <1>8, <1>11, <2>1, <2>2
<1> QED
  BY <1>4, <1>9, <1>10, <1>11

LEMMA AskStep == IInv /\ AskAgain => IInv'
<1> SUFFICES ASSUME IInv, AskAgain PROVE IInv'
  OBVIOUS
<1> USE DEF IInv, ReadInv
<1>1. /\ request.asks = "spend" /\ request.at = "done"
      /\ request' = [request EXCEPT !.at = "look", !.k = @ + 1, !.answers = <<>>]
      /\ disk' = disk /\ pending' = pending /\ handle' = handle /\ seen' = seen
      /\ moves' = moves /\ faults' = faults
  BY DEF AskAgain, files
<1>2. /\ request'.asks = "spend" /\ request'.at = "look" /\ request'.k = request.k + 1
      /\ request' = [asks |-> request'.asks, at |-> request'.at, k |-> request'.k,
                     answers |-> request'.answers]
  BY <1>1 DEF RequestInv
<1>3. Types' /\ SeenInv' /\ HeldInv' /\ ArtefactInv' /\ GotInv' /\ BackInv'
  BY <1>1 DEF Types, SeenInv, Several, HeldInv, Held, Text, ArtefactInv, HalfWritten, GotInv,
     FromOne, BackInv, Spliced
<1>4. RequestInv'
  BY <1>1, <1>2 DEF RequestInv
<1>5. QuietInv'
  BY <1>1, <1>2 DEF QuietInv, Quiet, Several
<1>6. AnswerInv'
  BY <1>2 DEF AnswerInv, NoLedgerIsTrue, UnreadHasACause, RecordIsTrue, BilledOneState,
     Measured, QuietAnswers, Answered, Recorded
<1> QED
  BY <1>3, <1>4, <1>5, <1>6

\* One more record of the runs, and the next target.
LEMMA RecordIs ==
  ASSUME RequestInv, request.asks = "runs", request.at \in {"look", "reading"},
         request.answers \in Seq(Artifacts), NEW a \in Artifacts, Record(a)
  PROVE  /\ request'.asks = "runs" /\ request'.at \in {"look", "done"}
         /\ request'.k \in Nat \ {0} /\ request'.answers \in Seq(Artifacts)
         /\ request'.at = "look" => request'.k \in DOMAIN Targets
         /\ request' = [asks |-> request'.asks, at |-> request'.at, k |-> request'.k,
                        answers |-> request'.answers]
         /\ Recorded' /\ LastRecord' = a /\ ~Answered'
<1>1. /\ request.k \in Nat \ {0} /\ request.k \in DOMAIN Targets
      /\ Len(Targets) \in Nat /\ DOMAIN Targets = 1 .. Len(Targets)
  BY TargetsAre DEF RequestInv
<1>2. /\ request'.asks = "runs"
      /\ request'.at = IF request.k < Len(Targets) THEN "look" ELSE "done"
      /\ request'.k = request.k + 1 /\ request'.answers = Append(request.answers, a)
      /\ request' = [asks |-> request'.asks, at |-> request'.at, k |-> request'.k,
                     answers |-> request'.answers]
  BY DEF RequestInv, Record
<1> DEFINE s == Append(request.answers, a)
<1>3. s \in Seq(Artifacts) /\ s # <<>> /\ s[Len(s)] = a
  OBVIOUS
<1>4. Last(s) = a
  BY <1>3 DEF Last
<1> HIDE DEF s
<1>5. request'.answers = s
  BY <1>2 DEF s
<1>6. Recorded' /\ LastRecord' = a /\ ~Answered'
  BY <1>2, <1>3, <1>4, <1>5 DEF Recorded, LastRecord, Answered
<1> QED
  BY <1>1, <1>2, <1>3, <1>5, <1>6

LEMMA ArtifactTypes ==
  /\ \A reason \in Reasons : Artifact(reason, {}) \in Artifacts /\ Artifact(reason, {}).reason = reason
  /\ \A d \in Doc : /\ Artifact("none", Shown[d]) \in Artifacts
                    /\ Artifact("none", Shown[d]).reason = "none"
                    /\ Artifact("none", Shown[d]).data = Shown[d]
BY CalcAssumption DEF Artifact, Artifacts, Reasons

LEMMA EmptyHandle == NoHandle \in Handles /\ Empty \in Node
<1>1. Empty \in Node /\ <<>> \in Seq(Units)
  BY DEF Empty, Node
<1> QED
  BY <1>1 DEF Handles, HandlePlaces, NoHandle, Outcomes

\* The gates before an artefact is opened.
LEMMA GateStep == IInv /\ Gate => IInv'
<1> SUFFICES ASSUME IInv, Gate PROVE IInv'
  OBVIOUS
<1> USE DEF IInv, ReadInv
<1> DEFINE f == Targets[request.k]
           n == disk[f]
           u == Artifact("unreadable", {})
<1>1. /\ request.asks = "runs" /\ request.at = "look" /\ f \in Files /\ f # LEDGER
      /\ disk' = disk /\ pending' = pending /\ moves' = moves /\ faults' = faults
      /\ request.answers \in Seq(Artifacts)
  BY TargetsAre DEF Gate, World, RequestInv, AnswerInv
<1>2. \/ Record(u) /\ seen' = {} /\ handle' = NoHandle
      \/ n.outside /\ Record(u) /\ seen' = {n} /\ handle' = [NoHandle EXCEPT !.file = f]
      \/ /\ ~n.outside /\ request' = [request EXCEPT !.at = "reading"]
         /\ handle' = [NoHandle EXCEPT !.at = "open", !.file = f] /\ seen' = {n}
  BY DEF Gate, Refused, Look
<1>3. u \in Artifacts /\ u.reason = "unreadable"
  BY ArtifactTypes DEF Reasons
<1>4. faults' \in 0 .. MaxFaults
  BY <1>1 DEF Types
<1> HIDE DEF f, u
<1>5. ASSUME Record(u)
      PROVE  /\ request'.asks = "runs" /\ request'.at \in {"look", "done"}
             /\ request'.k \in Nat \ {0} /\ request'.answers \in Seq(Artifacts)
             /\ request'.at = "look" => request'.k \in DOMAIN Targets
             /\ request' = [asks |-> request'.asks, at |-> request'.at, k |-> request'.k,
                            answers |-> request'.answers]
             /\ Recorded' /\ LastRecord' = u /\ ~Answered' /\ RecordIsTrue'
             /\ NoLedgerIsTrue' /\ UnreadHasACause' /\ BilledOneState'
  <2>1. /\ request'.asks = "runs" /\ request'.at \in {"look", "done"}
        /\ request'.k \in Nat \ {0} /\ request'.answers \in Seq(Artifacts)
        /\ request'.at = "look" => request'.k \in DOMAIN Targets
        /\ request' = [asks |-> request'.asks, at |-> request'.at, k |-> request'.k,
                       answers |-> request'.answers]
        /\ Recorded' /\ LastRecord' = u /\ ~Answered'
    BY <1>1, <1>3, <1>5, RecordIs
  <2>2. RecordIsTrue'
    BY <1>3, <2>1 DEF RecordIsTrue
  <2>3. NoLedgerIsTrue' /\ UnreadHasACause' /\ BilledOneState'
    BY <2>1 DEF NoLedgerIsTrue, UnreadHasACause, BilledOneState, Measured
  <2> QED
    BY <2>1, <2>2, <2>3
<1>6. ASSUME Record(u), seen' = {}, handle' = NoHandle PROVE IInv'
  <2>1. /\ handle'.at = "idle" /\ handle'.file = NoFile /\ ~handle'.orphan /\ handle'.got = <<>>
        /\ handle' \in Handles /\ NoFile \notin Files
    BY <1>6, TargetsAre, EmptyHandle DEF NoHandle
  <2>2. Types'
    BY <1>1, <2>1 DEF Types
  <2>3. SeenInv' /\ HeldInv' /\ BackInv'
    BY <1>6, <2>1 DEF SeenInv, HeldInv, BackInv
  <2>4. GotInv'
    BY <2>1, FilesAssumption DEF GotInv, Bytes
  <2>5. ArtefactInv'
    BY <1>1 DEF ArtefactInv, HalfWritten
  <2>6. RequestInv'
    BY <1>5, <1>6, <2>1 DEF RequestInv
  <2>7. QuietInv' /\ QuietAnswers'
    BY <1>6 DEF QuietInv, QuietAnswers
  <2> QED
    BY <1>5, <1>6, <2>2, <2>3, <2>4, <2>5, <2>6, <2>7 DEF AnswerInv
<1>7. ASSUME n.outside, Record(u), seen' = {n}, handle' = [NoHandle EXCEPT !.file = f] PROVE IInv'
  <2>1. /\ Types' /\ SeenInv' /\ HeldInv' /\ ArtefactInv' /\ GotInv' /\ BackInv'
        /\ handle'.at = "idle" /\ ~handle'.orphan
    BY <1>1, <1>4, <1>7, LookIs
  <2>2. RequestInv'
    BY <1>5, <1>7, <2>1 DEF RequestInv
  <2>3. QuietInv'
    BY <1>5, <1>7, <2>1 DEF QuietInv
  <2>4. QuietReason(n) = "unreadable"
    BY <1>7 DEF QuietReason
  <2> HIDE DEF n
  <2>5. QuietAnswers'
    BY <1>3, <1>5, <1>7, <2>4 DEF QuietAnswers
  <2> QED
    BY <1>5, <1>7, <2>1, <2>2, <2>3, <2>5 DEF AnswerInv
<1>8. ASSUME ~n.outside, request' = [request EXCEPT !.at = "reading"],
             handle' = [NoHandle EXCEPT !.at = "open", !.file = f], seen' = {n}
      PROVE  IInv'
  <2>1. /\ Types' /\ SeenInv' /\ HeldInv' /\ ArtefactInv' /\ GotInv' /\ BackInv'
        /\ handle'.at = "open" /\ ~handle'.orphan /\ handle'.file = f
    BY <1>1, <1>4, <1>8, LookIs
  <2>2. /\ request'.asks = "runs" /\ request'.at = "reading" /\ request'.k = request.k
        /\ request'.answers = request.answers
        /\ request' = [asks |-> request'.asks, at |-> request'.at, k |-> request'.k,
                       answers |-> request'.answers]
    BY <1>1, <1>8 DEF RequestInv
  <2>3. RequestInv'
    BY <1>1, <2>1, <2>2 DEF RequestInv, f
  <2>4. QuietInv'
    BY <1>8, <2>1, <2>2 DEF QuietInv
  <2>5. ~Answered' /\ ~Recorded'
    BY <2>2 DEF Answered, Recorded
  <2>6. AnswerInv'
    BY <1>1, <2>2, <2>5 DEF AnswerInv, NoLedgerIsTrue, UnreadHasACause, RecordIsTrue, BilledOneState,
       Measured, QuietAnswers
  <2> QED
    BY <2>1, <2>3, <2>4, <2>6
<1> QED
  BY <1>2, <1>6, <1>7, <1>8

\* What _read_json_artifact makes of what read_bounded returned.
LEMMA CollectStep == IInv /\ Collect => IInv'
<1> SUFFICES ASSUME IInv, Collect PROVE IInv'
  OBVIOUS
<1> USE DEF IInv, ReadInv
<1>1. /\ request.asks = "runs" /\ request.at = "reading" /\ handle.at = "back"
      /\ disk' = disk /\ pending' = pending /\ handle' = handle /\ seen' = seen
      /\ moves' = moves /\ faults' = faults
      /\ request.answers \in Seq(Artifacts)
  BY DEF Collect, files, AnswerInv
<1>2. /\ handle.outcome \in {"none", "ok", "not_found", "unreadable", "too_large"}
      /\ handle.outcome # "none" /\ handle.file # LEDGER
  BY <1>1, TargetsAre DEF Types, Handles, Outcomes, BackInv, RequestInv
<1>3. Quiet' = Quiet
  BY <1>1 DEF Quiet, Several
<1>4. \A n \in seen : Quiet => ~n.outside /\ handle.outcome = QuietOutcome(n)
  BY <1>1 DEF QuietInv
\* What is recorded, its truth and its exactness of a file that stood still, give the invariant.
<1>5. ASSUME NEW a \in Artifacts, Record(a),
             a.reason = "absent" => \E n \in seen : n.kind = "absent",
             a.reason = "too_large" => \E n \in seen : Len(n.text) > MaxBytes,
             a.reason = "none" => \E n \in seen, d \in Doc : OneDocument(n.text, d) /\ a.data = Shown[d],
             \A n \in seen : Quiet => a.reason = QuietReason(n)
      PROVE  IInv'
  <2>1. /\ request'.asks = "runs" /\ request'.at \in {"look", "done"}
        /\ request'.k \in Nat \ {0} /\ request'.answers \in Seq(Artifacts)
        /\ request'.at = "look" => request'.k \in DOMAIN Targets
        /\ request' = [asks |-> request'.asks, at |-> request'.at, k |-> request'.k,
                       answers |-> request'.answers]
        /\ Recorded' /\ LastRecord' = a /\ ~Answered'
    BY <1>1, <1>5, RecordIs
  <2>2. Types' /\ SeenInv' /\ HeldInv' /\ ArtefactInv' /\ GotInv' /\ BackInv'
    BY <1>1 DEF Types, SeenInv, Several, HeldInv, ArtefactInv, HalfWritten, GotInv, BackInv, Spliced
  <2>3. RequestInv'
    BY <1>1, <2>1 DEF RequestInv
  <2>4. QuietInv'
    BY <1>1, <2>1 DEF QuietInv, Quiet, Several
  <2>5. NoLedgerIsTrue' /\ UnreadHasACause' /\ BilledOneState'
    BY <2>1 DEF NoLedgerIsTrue, UnreadHasACause, BilledOneState, Measured
  <2>6. RecordIsTrue'
    BY <1>1, <1>5, <2>1 DEF RecordIsTrue
  <2>7. QuietAnswers'
    BY <1>1, <1>3, <1>5, <2>1 DEF QuietAnswers
  <2> QED
    BY <2>1, <2>2, <2>3, <2>4, <2>5, <2>6, <2>7 DEF AnswerInv
<1>6. CASE handle.outcome = "not_found"
  <2>1. Record(Artifact("absent", {}))
    BY <1>6 DEF Collect
  <2>2. \E n \in seen : n.kind = "absent"
    BY <1>1, <1>6 DEF BackInv
  <2>3. \A n \in seen : Quiet => QuietReason(n) = "absent"
    BY <1>4, <1>6 DEF QuietOutcome, QuietReason
  <2>4. Artifact("absent", {}) \in Artifacts /\ Artifact("absent", {}).reason = "absent"
    BY ArtifactTypes DEF Reasons
  <2> QED
    BY <1>5, <2>1, <2>2, <2>3, <2>4
<1>7. CASE handle.outcome = "unreadable"
  <2>1. Record(Artifact("unreadable", {}))
    BY <1>7 DEF Collect
  <2>2. \A n \in seen : Quiet => QuietReason(n) = "unreadable"
    BY <1>4, <1>7 DEF QuietOutcome, QuietReason
  <2>3. Artifact("unreadable", {}) \in Artifacts /\ Artifact("unreadable", {}).reason = "unreadable"
    BY ArtifactTypes DEF Reasons
  <2> QED
    BY <1>5, <2>1, <2>2, <2>3
<1>8. CASE handle.outcome = "too_large"
  <2>1. Record(Artifact("too_large", {}))
    BY <1>8 DEF Collect
  <2>2. \E n \in seen : Len(n.text) > MaxBytes
    BY <1>1, <1>8 DEF BackInv
  <2>3. \A n \in seen : Quiet => QuietReason(n) = "too_large"
    BY <1>4, <1>8 DEF QuietOutcome, QuietReason
  <2>4. Artifact("too_large", {}) \in Artifacts /\ Artifact("too_large", {}).reason = "too_large"
    BY ArtifactTypes DEF Reasons
  <2> QED
    BY <1>5, <2>1, <2>2, <2>3, <2>4
<1>9. CASE handle.outcome = "ok"
  <2> DEFINE t == handle.got
  <2>1. Record(ParseArtifact(t))
    BY <1>9 DEF Collect
  <2>2. \/ \E n \in seen : n.kind = "file" /\ n.text = t /\ Len(n.text) <= MaxBytes
        \/ Several /\ Spliced(t)
    BY <1>1, <1>9 DEF BackInv
  <2>3. \A n \in seen : Quiet => n.text = t
    BY <2>2 DEF Quiet, Several
  <2>4. \A d \in Doc : OneDocument(t, d) => \E n \in seen : OneDocument(n.text, d)
    <3>1. SUFFICES ASSUME NEW d \in Doc, OneDocument(t, d) PROVE \E n \in seen : OneDocument(n.text, d)
      OBVIOUS
    <3>2. CASE \E n \in seen : n.text = t
      BY <3>1, <3>2
    <3>3. CASE Spliced(t)
      <4>1. PICK e \in Doc, u \in Units, n \in seen : t = <<u, Part(e, 2)>> /\ n.text = Written(e)
        BY <3>3 DEF Spliced
      <4>2. OneDocument(<<u, Part(e, 2)>>, d)
        BY <3>1, <4>1
      <4>3. d = e /\ OneDocument(Written(e), e)
        BY <4>2, SplicedDocument
      <4> QED
        BY <4>1, <4>3
    <3> QED
      BY <2>2, <3>2, <3>3
  <2> HIDE DEF t
  <2>5. \A n \in seen : Quiet =>
          QuietReason(n) = IF \E d \in Doc : OneDocument(t, d) /\ Kind[d] \in {"entry", "object"}
                           THEN "none" ELSE "unparseable"
    <3>1. \A n \in seen : Quiet => /\ ~n.outside /\ ~n.locked /\ n.kind # "absent" /\ ~n.denied
                                   /\ n.kind = "file" /\ ~(Len(n.text) > MaxBytes)
      BY <1>4, <1>9 DEF QuietOutcome
    <3> QED
      BY <2>3, <3>1 DEF QuietReason
  <2>6. CASE /\ ParseArtifact(t) = Artifact("unparseable", {})
             /\ ~\E d \in Doc : OneDocument(t, d) /\ Kind[d] \in {"entry", "object"}
    <3>1. /\ Artifact("unparseable", {}) \in Artifacts
          /\ Artifact("unparseable", {}).reason = "unparseable"
      BY ArtifactTypes DEF Reasons
    <3> QED
      BY <1>5, <2>1, <2>5, <2>6, <3>1
  <2>7. ASSUME NEW d \in Doc, ParseArtifact(t) = Artifact("none", Shown[d]),
               OneDocument(t, d), Kind[d] \in {"entry", "object"}
        PROVE  IInv'
    <3> DEFINE a == Artifact("none", Shown[d])
    <3>1. a \in Artifacts /\ a.reason = "none" /\ a.data = Shown[d]
      BY ArtifactTypes
    <3>2. Record(a)
      BY <2>1, <2>7
    <3> HIDE DEF a
    <3>3. \E n \in seen, e \in Doc : OneDocument(n.text, e) /\ a.data = Shown[e]
      BY <2>4, <2>7, <3>1
    <3>4. \A n \in seen : Quiet => QuietReason(n) = "none"
      BY <2>5, <2>7
    <3> QED
      BY <1>5, <3>1, <3>2, <3>3, <3>4
  <2> QED
    BY <2>6, <2>7, ParseIs
<1> QED
  BY <1>2, <1>6, <1>7, <1>8, <1>9

-----------------------------------------------------------------------------
(* Every step.                                                             *)

\* Every call of read_bounded, while nothing is answered.
LEMMA ReadsStep == IInv /\ Reads => IInv'
<1> SUFFICES ASSUME IInv, Reads PROVE IInv'
  OBVIOUS
<1>1. ReadBounded /\ request' = request /\ before' = before
  BY DEF Reads
<1>2. ReadInv'
  BY <1>1, OpenStep, StatStep, ReadStep, FailStep DEF IInv, ReadBounded
<1>3. handle.at \in {"open", "stat", "read"}
  BY <1>1 DEF ReadBounded, OpenFile, StatFile, ReadFile, FailCall
<1>4. request'.at = "reading" /\ (request'.asks = "runs" => request'.answers \in Seq(Artifacts))
  BY <1>1, <1>3 DEF IInv, ReadInv, RequestInv, AnswerInv
<1>5. ~Answered' /\ ~Recorded'
  BY <1>4 DEF Answered, Recorded
<1>6. AnswerInv'
  BY <1>4, <1>5 DEF AnswerInv, NoLedgerIsTrue, UnreadHasACause, RecordIsTrue, BilledOneState,
     Measured, QuietAnswers
<1> QED
  BY <1>2, <1>6 DEF IInv

\* What was said of one state of the file stays said of it, whatever the file becomes.
LEMMA FactoryKeepsAnswers ==
  ASSUME AnswerInv, seen \subseteq seen', request' = request, faults' = faults,
         Several' \/ seen' = seen
  PROVE  AnswerInv'
<1>1. /\ Answered' = Answered /\ Spend' = Spend /\ Recorded' = Recorded
      /\ LastRecord' = LastRecord /\ Measured' = Measured
  BY DEF Answered, Spend, Recorded, LastRecord, Measured
<1>2. NoLedgerIsTrue' /\ UnreadHasACause' /\ BilledOneState'
  BY <1>1 DEF AnswerInv, NoLedgerIsTrue, UnreadHasACause, BilledOneState
<1>3. RecordIsTrue'
  BY <1>1 DEF AnswerInv, RecordIsTrue
<1>4. QuietAnswers'
  <2>1. CASE Several'
    BY <2>1 DEF QuietAnswers, Quiet
  <2>2. CASE seen' = seen
    BY <1>1, <2>2 DEF AnswerInv, QuietAnswers, Quiet, Several
  <2> QED
    BY <2>1, <2>2
<1> QED
  BY <1>2, <1>3, <1>4 DEF AnswerInv

LEMMA InitInv == Init => IInv
<1> SUFFICES ASSUME Init PROVE IInv
  OBVIOUS
<1>1. /\ request.asks \in {"spend", "runs"} /\ request.at \in {"look", "done"}
      /\ request.at = (IF request.asks = "runs" /\ Manifest = <<>> THEN "done" ELSE "look")
      /\ request.k = 1 /\ request.answers = <<>>
      /\ request = [asks |-> request.asks, at |-> request.at, k |-> request.k,
                    answers |-> request.answers]
      /\ disk \in [Files -> Node] /\ pending = [f \in Files |-> <<>>]
      /\ handle = NoHandle /\ seen = {} /\ moves = 0 /\ faults = 0
  BY DEF Init
<1>2. handle \in Handles /\ handle.at = "idle" /\ handle.file = NoFile /\ ~handle.orphan
      /\ handle.got = <<>>
  BY <1>1, EmptyHandle DEF NoHandle
<1>3. Types
  BY <1>1, <1>2, FilesAssumption DEF Types
<1>4. request.asks = "runs" /\ request.at = "look" => 1 \in DOMAIN Targets
  BY <1>1, TargetsAre
<1>5. RequestInv
  BY <1>1, <1>2, <1>4, TargetsAre DEF RequestInv
<1>6. SeenInv /\ HeldInv /\ BackInv /\ QuietInv /\ QuietAnswers
  BY <1>1, <1>2, TargetsAre DEF SeenInv, HeldInv, BackInv, QuietInv, QuietAnswers
<1>7. ArtefactInv
  BY <1>1 DEF ArtefactInv
<1>8. GotInv
  BY <1>2, FilesAssumption DEF GotInv, Bytes
<1>9. ~Answered /\ ~Recorded
  <2>1. request.asks = "runs" \/ request.at = "look"
    BY <1>1
  <2> QED
    BY <1>1, <2>1 DEF Answered, Recorded
<1>10. AnswerInv
  BY <1>1, <1>6, <1>9 DEF AnswerInv, NoLedgerIsTrue, UnreadHasACause, RecordIsTrue, BilledOneState,
     Measured
<1> QED
  BY <1>3, <1>5, <1>6, <1>7, <1>8, <1>10 DEF IInv, ReadInv

LEMMA NextInv == IInv /\ [Next]_vars => IInv'
<1> SUFFICES ASSUME IInv, [Next]_vars PROVE IInv'
  OBVIOUS
<1>1. CASE Probe \/ FailProbe
  BY <1>1, ProbeStep
<1>2. CASE Contain
  BY <1>2, ContainStep
<1>3. CASE Bill
  BY <1>3, BillStep
<1>4. CASE AskAgain
  BY <1>4, AskStep
<1>5. CASE Gate
  BY <1>5, GateStep
<1>6. CASE Collect
  BY <1>6, CollectStep
<1>7. CASE Reads
  BY <1>7, ReadsStep
<1>8. ASSUME NEW f \in Files, Factory(f) PROVE IInv'
  BY <1>8, FactoryStep, FactoryKeepsAnswers DEF IInv
<1>9. CASE UNCHANGED vars
  <2>1. /\ disk' = disk /\ pending' = pending /\ handle' = handle /\ seen' = seen
        /\ moves' = moves /\ faults' = faults /\ request' = request
    BY <1>9 DEF vars, files
  <2>2. Several' = Several /\ Quiet' = Quiet /\ Held' = Held /\ Text' = Text
    BY <2>1 DEF Several, Quiet, Held, Text
  <2>3. Types' /\ RequestInv' /\ SeenInv' /\ HeldInv' /\ ArtefactInv'
    BY <2>1, <2>2 DEF IInv, ReadInv, Types, RequestInv, SeenInv, HeldInv, ArtefactInv, HalfWritten
  <2>4. GotInv'
    BY <2>1, <2>2 DEF IInv, ReadInv, GotInv, FromOne, Spliced
  <2>5. BackInv' /\ QuietInv'
    BY <2>1, <2>2 DEF IInv, ReadInv, BackInv, Spliced, QuietInv
  <2>6. AnswerInv'
    BY <2>1, <2>2, FactoryKeepsAnswers DEF IInv
  <2> QED
    BY <2>3, <2>4, <2>5, <2>6 DEF IInv, ReadInv
<1> QED
  BY <1>1, <1>2, <1>3, <1>4, <1>5, <1>6, <1>7, <1>8, <1>9 DEF Next

-----------------------------------------------------------------------------
(* The ledger grows.                                                       *)

\* g goes on where t ended: a document that t ends with is ended by a newline.
GoesOn(t, g) ==
  /\ Begins(t, g)
  /\ t # <<>> /\ t[Len(t)].part = 2 /\ Len(g) > Len(t) => g[Len(t) + 1] = NL

\* What the factory has yet to write ends what is there.
Unfinished(text, rest) ==
  \/ rest = <<>> /\ (text = <<>> \/ Terminated(text))
  \/ rest = <<NL>>
  \/ \E d \in Doc : rest = <<Part(d, 2), NL>> /\ text # <<>> /\ text[Len(text)].part = 1
\* t is how the text begins, and if a document ends t, a newline is next or yet to come.
Grown(t, text, rest) ==
  /\ GoesOn(t, text)
  /\ t # <<>> /\ t[Len(t)].part = 2 /\ Len(text) = Len(t) => rest = <<NL>>
GrownFrom(t) == Grown(t, disk[LEDGER].text, pending[LEDGER])

\* While nothing was torn, a document in the ledger is whole or being written.
AppendInv ==
  /\ handle.orphan => torn
  /\ ~torn => /\ disk[LEDGER].kind = "absent" => pending[LEDGER] = <<>>
              /\ Unfinished(disk[LEDGER].text, pending[LEDGER])

\* read_bounded has returned the ledger.
WholeRead == handle.at = "back" /\ handle.outcome = "ok" /\ handle.file = LEDGER
MeasuredInv ==
  Answered /\ Spend.read => WholeRead /\ Spend = Billed(ReadLines(handle.got))

ReadBefore == before # <<>> /\ before[1].read
\* The answer before is the bill of t.
BilledBefore(t) ==
  /\ before[1] = Billed(ReadLines(t)) /\ GrownFrom(t)
  /\ WholeRead => GoesOn(t, handle.got)

\* The ledger goes on from what was read of it, by this request and by the one before.
BeforeInv ==
  /\ ~torn /\ WholeRead => GrownFrom(handle.got)
  /\ ~torn /\ ReadBefore => \E t \in Seq(Units) : BilledBefore(t)

GrowthInv == AppendInv /\ MeasuredInv /\ BeforeInv

LEMMA LedgerTypes ==
  ASSUME Types
  PROVE  /\ LEDGER \in Files /\ disk[LEDGER] \in Node /\ disk[LEDGER].text \in Seq(Units)
         /\ pending[LEDGER] \in Seq(Units) /\ handle.got \in Seq(Units)
BY TargetsAre DEF Types, Handles, Node

LEMMA GoesOnItself ==
  ASSUME NEW t \in Seq(Units)
  PROVE  GoesOn(t, t)
BY DEF GoesOn, Begins

\* A step that leaves the ledger and what was read of it.
LEMMA LedgerStays ==
  ASSUME GrowthInv, disk'[LEDGER] = disk[LEDGER], pending'[LEDGER] = pending[LEDGER],
         ~torn' => ~torn, before' = before, handle'.orphan => torn',
         WholeRead' => WholeRead /\ handle'.got = handle.got, MeasuredInv'
  PROVE  GrowthInv'
<1>1. AppendInv'
  BY DEF GrowthInv, AppendInv
<1>2. \A t : GrownFrom(t)' <=> GrownFrom(t)
  BY DEF GrownFrom
<1>3. ~torn' /\ WholeRead' => GrownFrom(handle.got)'
  <2>1. ASSUME ~torn', WholeRead' PROVE GrownFrom(handle'.got)
    BY <2>1 DEF GrowthInv, BeforeInv
  <2>2. GrownFrom(handle'.got) => GrownFrom(handle.got)'
    BY DEF GrownFrom
  <2> QED
    BY <2>1, <2>2
<1>4. ASSUME ~torn', ReadBefore'
      PROVE  \E t \in Seq(Units) : BilledBefore(t)'
  <2>1. PICK t \in Seq(Units) : BilledBefore(t)
    <3>1. ~torn /\ ReadBefore
      BY <1>4 DEF ReadBefore
    <3>2. BeforeInv
      BY DEF GrowthInv
    <3> QED
      BY <3>1, <3>2 DEF BeforeInv
  <2>2. BilledBefore(t)'
    BY <1>2, <2>1 DEF BilledBefore
  <2> QED
    BY <2>2
<1>5. BeforeInv'
  BY <1>3, <1>4 DEF BeforeInv
<1> QED
  BY <1>1, <1>5 DEF GrowthInv

\* The first look and the containment check.
LEMMA LookGrows == ReadInv /\ GrowthInv /\ (Probe \/ FailProbe \/ Contain) => GrowthInv'
<1> SUFFICES ASSUME ReadInv, GrowthInv, Probe \/ FailProbe \/ Contain PROVE GrowthInv'
  OBVIOUS
<1>1. /\ disk' = disk /\ pending' = pending /\ torn' = torn /\ before' = before
      /\ request.asks = "spend"
  BY DEF Probe, FailProbe, Contain, World
<1>2. ~handle'.orphan /\ handle'.at \in {"idle", "open"}
  <2>1. CASE Look(LEDGER)
    BY <2>1 DEF Look, NoHandle
  <2>2. CASE Contain
    <3>1. handle.at = "idle" /\ ~handle.orphan /\ handle \in Handles
      BY <2>2 DEF Contain, ReadInv, RequestInv, Types
    <3>2. handle' = handle \/ handle' = [handle EXCEPT !.at = "open"]
      BY <2>2 DEF Contain, Call
    <3> QED
      BY <3>1, <3>2, PlaceIs DEF HandlePlaces
  <2> QED
    BY <2>1, <2>2 DEF Probe, FailProbe
<1>3. MeasuredInv'
  <2>1. CASE Answer(CouldNotLook)
    <3>1. Spend' = CouldNotLook
      BY <1>1, <2>1, AnswerIs DEF ReadInv
    <3>2. CouldNotLook.read = FALSE
      BY WholeFileUnread DEF CouldNotLook, WHOLE_FILE_REASONS
    <3> QED
      BY <3>1, <3>2 DEF MeasuredInv
  <2>2. CASE Answer(NoLedger)
    <3>1. Spend' = NoLedger
      BY <1>1, <2>2, AnswerIs DEF ReadInv
    <3>2. NoLedger.read = FALSE
      BY DEF NoLedger, Spent
    <3> QED
      BY <3>1, <3>2 DEF MeasuredInv
  <2>3. CASE request' = [request EXCEPT !.at = "contain"] \/ request' = [request EXCEPT !.at = "reading"]
    <3>1. request'.at # "done"
      BY <2>3 DEF ReadInv, RequestInv
    <3> QED
      BY <3>1 DEF MeasuredInv, Answered
  <2> QED
    BY <2>1, <2>2, <2>3 DEF Probe, FailProbe, Contain
<1> QED
  BY <1>1, <1>2, <1>3, LedgerStays DEF WholeRead

\* The calls of read_bounded.
LEMMA ReadsGrow == ReadInv /\ GrowthInv /\ Reads => GrowthInv'
<1> SUFFICES ASSUME ReadInv, GrowthInv, Reads PROVE GrowthInv'
  OBVIOUS
<1>1. /\ ReadBounded /\ request' = request /\ before' = before
      /\ disk' = disk /\ pending' = pending /\ torn' = torn
      /\ handle.at \in {"open", "stat", "read"} /\ handle \in Handles
  BY DEF Reads, ReadBounded, OpenFile, StatFile, ReadFile, FailCall, World, ReadInv, Types
<1>2. request'.at # "done"
  BY <1>1 DEF ReadInv, RequestInv
<1>3. MeasuredInv'
  BY <1>2 DEF MeasuredInv, Answered
<1>4. \/ \E outcome \in {"unreadable", "not_found", "too_large"} : Back(outcome)
      \/ \E place \in {"stat", "read"} : handle' = [handle EXCEPT !.at = place]
      \/ ReadFile
  BY <1>1 DEF ReadBounded, OpenFile, StatFile, FailCall
<1>5. ASSUME NEW outcome \in {"unreadable", "not_found", "too_large"}, Back(outcome) PROVE GrowthInv'
  <2>1. handle'.orphan = handle.orphan /\ handle'.outcome # "ok"
    BY <1>1, <1>5, BackIs DEF Outcomes
  <2>2. handle'.orphan => torn'
    BY <1>1, <2>1 DEF GrowthInv, AppendInv
  <2> QED
    BY <1>1, <1>3, <2>1, <2>2, LedgerStays DEF WholeRead
<1>6. ASSUME NEW place \in {"stat", "read"}, handle' = [handle EXCEPT !.at = place] PROVE GrowthInv'
  <2>1. handle'.orphan = handle.orphan /\ handle'.at # "back"
    BY <1>1, <1>6, PlaceIs DEF HandlePlaces
  <2>2. handle'.orphan => torn'
    BY <1>1, <2>1 DEF GrowthInv, AppendInv
  <2> QED
    BY <1>1, <1>3, <2>1, <2>2, LedgerStays DEF WholeRead
<1>7. CASE ReadFile
  <2> DEFINE g == handle.got
             more == More(g, Text)
  <2>1. handle.at = "read"
    BY <1>7 DEF ReadFile
  <2>2. g \in Seq(Units) /\ Text \in Seq(Units)
    BY <1>1, <2>1, HeldSeen DEF ReadInv, Handles
  <2>3. \/ more = <<>> /\ Back(IF Len(g) > MaxBytes THEN "too_large" ELSE "ok")
        \/ more # <<>> /\ handle' = [handle EXCEPT !.got = g \o more]
    BY <1>7 DEF ReadFile, More, Reach, Bytes
  <2>4. CASE more # <<>> /\ handle' = [handle EXCEPT !.got = g \o more]
    <3>1. g \o more \in Seq(Units)
      BY <2>2, MoreIs
    <3>2. handle'.orphan = handle.orphan /\ handle'.at # "back"
      BY <1>1, <2>1, <2>4, <3>1, GotIs
    <3>3. handle'.orphan => torn'
      BY <1>1, <3>2 DEF GrowthInv, AppendInv
    <3> QED
      BY <1>1, <1>3, <3>2, <3>3, LedgerStays DEF WholeRead
  <2>5. CASE more = <<>> /\ Back(IF Len(g) > MaxBytes THEN "too_large" ELSE "ok")
    <3>1. /\ handle'.at = "back" /\ handle'.outcome = IF Len(g) > MaxBytes THEN "too_large" ELSE "ok"
          /\ handle'.file = handle.file /\ handle'.orphan = handle.orphan /\ handle'.got = g
      BY <1>1, <2>5, BackIs DEF Outcomes
    <3>2. handle'.orphan => torn'
      BY <1>1, <3>1 DEF GrowthInv, AppendInv
    <3>3. CASE Len(g) > MaxBytes
      BY <1>1, <1>3, <3>1, <3>2, <3>3, LedgerStays DEF WholeRead
    <3>4. CASE handle.file # LEDGER
      BY <1>1, <1>3, <3>1, <3>2, <3>4, LedgerStays DEF WholeRead
    <3>5. CASE torn
      <4>1. AppendInv' /\ BeforeInv'
        BY <1>1, <3>5 DEF AppendInv, BeforeInv
      <4> QED
        BY <1>3, <4>1 DEF GrowthInv
    <3>6. CASE ~torn /\ handle.file = LEDGER /\ ~(Len(g) > MaxBytes)
      <4>1. ~handle.orphan
        BY <3>6 DEF GrowthInv, AppendInv
      <4>2. Text = disk[LEDGER].text
        BY <3>6, <4>1 DEF Text, Held
      <4>3. /\ Reach(Text) \in Nat /\ Len(g) \in Nat /\ Reach(Text) <= Len(Text)
            /\ Reach(Text) = Len(Text) \/ Reach(Text) = Bytes
            /\ Bytes = MaxBytes + 1 /\ MaxBytes \in Nat /\ Len(Text) \in Nat
        BY <2>2, ReachIs
      <4>4. Reach(Text) <= Len(g)
        BY <2>2, <2>5, MoreIs
      <4>5. Begins(g, Text)
        BY <2>1, <3>6 DEF ReadInv, GotInv
      <4> HIDE DEF g
      <4>6. Len(g) = Len(Text)
        BY <3>6, <4>3, <4>4, <4>5 DEF Begins
      <4>7. g = Text
        BY <2>2, <4>5, <4>6, SeqEqual DEF Begins
      <4>8. AppendInv'
        BY <1>1, <3>2 DEF GrowthInv, AppendInv
      <4>9. \A t : GrownFrom(t)' <=> GrownFrom(t)
        BY <1>1 DEF GrownFrom
      <4>10. GrownFrom(g)
        <5>1. Unfinished(g, pending[LEDGER])
          BY <3>6, <4>2, <4>7 DEF GrowthInv, AppendInv
        <5>2. g # <<>> /\ g[Len(g)].part = 2 => pending[LEDGER] = <<NL>>
          BY <5>1 DEF Unfinished, Terminated, NL
        <5> QED
          BY <2>2, <4>2, <4>7, <5>2, GoesOnItself DEF GrownFrom, Grown
      <4>11. GrownFrom(handle.got)'
        <5>1. handle'.got = g
          BY <3>1 DEF g
        <5> QED
          BY <1>1, <4>10, <5>1 DEF GrownFrom
      <4>12. ASSUME ReadBefore'
             PROVE  \E t \in Seq(Units) : BilledBefore(t)'
        <5>1. PICK t \in Seq(Units) : BilledBefore(t)
          <6>1. ReadBefore
            BY <1>1, <4>12 DEF ReadBefore
          <6>2. BeforeInv
            BY DEF GrowthInv
          <6> QED
            BY <3>6, <6>1, <6>2 DEF BeforeInv
        <5>2. GoesOn(t, Text)
          BY <4>2, <5>1 DEF BilledBefore, GrownFrom, Grown
        <5>3. GoesOn(t, handle'.got)
          BY <3>1, <4>7, <5>2 DEF g
        <5>4. BilledBefore(t)'
          BY <1>1, <4>9, <5>1, <5>3 DEF BilledBefore
        <5> QED
          BY <5>4
      <4>13. BeforeInv'
        BY <4>11, <4>12 DEF BeforeInv
      <4> QED
        BY <1>3, <4>8, <4>13 DEF GrowthInv
    <3> QED
      BY <3>3, <3>4, <3>5, <3>6
  <2> QED
    BY <2>3, <2>4, <2>5
<1> QED
  BY <1>4, <1>5, <1>6, <1>7

\* An answer, of what read_bounded returned.
LEMMA AnswerGrows == ReadInv /\ GrowthInv /\ Bill => GrowthInv'
<1> SUFFICES ASSUME ReadInv, GrowthInv, Bill PROVE GrowthInv'
  OBVIOUS
<1>1. /\ request.asks = "spend" /\ request.at = "reading" /\ handle.at = "back"
      /\ disk' = disk /\ pending' = pending /\ handle' = handle /\ torn' = torn /\ before' = before
  BY DEF Bill, files
<1>2. handle.outcome \in {"none", "ok", "not_found", "unreadable", "too_large"}
  BY DEF ReadInv, Types, Handles, Outcomes
<1>3. handle.outcome # "none" /\ handle.file = LEDGER
  BY <1>1 DEF ReadInv, BackInv, RequestInv
<1>4. \/ handle.outcome \in {"not_found", "unreadable"} /\ Answer(Billed(WholeFileSkip("unreadable")))
      \/ handle.outcome = "too_large" /\ Answer(Billed(WholeFileSkip("file_too_large")))
      \/ handle.outcome = "ok" /\ Answer(Billed(ReadLines(handle.got)))
  BY <1>2, <1>3 DEF Bill
<1>5. MeasuredInv'
  <2>1. ASSUME NEW reason \in WHOLE_FILE_REASONS, Answer(Billed(WholeFileSkip(reason)))
        PROVE  MeasuredInv'
    <3> DEFINE a == Billed(WholeFileSkip(reason))
    <3>1. a.read = FALSE
      BY WholeFileUnread
    <3> HIDE DEF a
    <3>2. Spend' = a
      BY <1>1, <2>1, AnswerIs DEF ReadInv, a
    <3> QED
      BY <3>1, <3>2 DEF MeasuredInv
  <2>2. ASSUME handle.outcome = "ok", Answer(Billed(ReadLines(handle.got))) PROVE MeasuredInv'
    <3> DEFINE a == Billed(ReadLines(handle.got))
    <3>1. Spend' = a
      <4> HIDE DEF a
      <4> QED
        BY <1>1, <2>2, AnswerIs DEF ReadInv, a
    <3> QED
      BY <1>1, <1>3, <2>2, <3>1 DEF MeasuredInv, WholeRead
  <2>3. "unreadable" \in WHOLE_FILE_REASONS /\ "file_too_large" \in WHOLE_FILE_REASONS
    BY DEF WHOLE_FILE_REASONS
  <2> QED
    BY <1>4, <2>1, <2>2, <2>3
<1>6. handle'.orphan => torn'
  BY <1>1 DEF GrowthInv, AppendInv
<1> QED
  BY <1>1, <1>5, <1>6, LedgerStays DEF WholeRead

\* The client asks again: what it had is the answer before.
LEMMA AskGrows == ReadInv /\ GrowthInv /\ AskAgain => GrowthInv'
<1> SUFFICES ASSUME ReadInv, GrowthInv, AskAgain PROVE GrowthInv'
  OBVIOUS
<1>1. /\ request.asks = "spend" /\ request.at = "done" /\ request'.at = "look"
      /\ before' = request.answers
      /\ disk' = disk /\ pending' = pending /\ handle' = handle /\ torn' = torn
  BY DEF AskAgain, files, ReadInv, RequestInv
<1>2. AppendInv' /\ MeasuredInv'
  BY <1>1 DEF GrowthInv, AppendInv, MeasuredInv, Answered
<1>3. \A t : GrownFrom(t)' <=> GrownFrom(t)
  BY <1>1 DEF GrownFrom
<1>4. ~torn' /\ WholeRead' => GrownFrom(handle.got)'
  BY <1>1 DEF GrowthInv, BeforeInv, WholeRead, GrownFrom
<1>5. ASSUME ~torn', ReadBefore'
      PROVE  \E t \in Seq(Units) : BilledBefore(t)'
  <2>1. Answered /\ Spend.read /\ before'[1] = Spend
    BY <1>1, <1>5 DEF Answered, Spend, ReadBefore
  <2>2. WholeRead /\ before'[1] = Billed(ReadLines(handle.got))
    BY <2>1 DEF GrowthInv, MeasuredInv
  <2>3. GrownFrom(handle.got) /\ handle.got \in Seq(Units)
    BY <1>1, <1>5, <2>2, LedgerTypes DEF GrowthInv, BeforeInv, ReadInv
  <2>4. GoesOn(handle.got, handle'.got)
    BY <1>1, <2>3, GoesOnItself
  <2>5. BilledBefore(handle.got)'
    <3>1. before'[1] = Billed(ReadLines(handle'.got)) /\ handle'.got = handle.got
      BY <1>1, <2>2
    <3>2. GrownFrom(handle.got)'
      BY <1>4, <1>5, <2>2, <1>1 DEF WholeRead
    <3> QED
      BY <1>1, <2>4, <3>1, <3>2 DEF BilledBefore
  <2> QED
    BY <1>1, <2>3, <2>5
<1>6. BeforeInv'
  BY <1>4, <1>5 DEF BeforeInv
<1> QED
  BY <1>2, <1>6 DEF GrowthInv

\* The runs ask nothing of the ledger.
LEMMA RunsGrow == ReadInv /\ GrowthInv /\ (Gate \/ Collect) => GrowthInv'
<1> SUFFICES ASSUME ReadInv, GrowthInv, Gate \/ Collect PROVE GrowthInv'
  OBVIOUS
<1>1. /\ disk' = disk /\ pending' = pending /\ torn' = torn /\ before' = before
      /\ request'.asks = "runs"
  BY DEF Gate, Collect, World, files, Record, Look, ReadInv, RequestInv
<1>2. handle' = handle \/ (~handle'.orphan /\ handle'.at # "back")
  <2>1. CASE Collect
    BY <2>1 DEF Collect, files
  <2>2. CASE Gate
    <3> DEFINE f == Targets[request.k]
    <3>1. \/ handle' = NoHandle
          \/ handle' = [NoHandle EXCEPT !.file = f]
          \/ handle' = [NoHandle EXCEPT !.at = "open", !.file = f]
      BY <2>2 DEF Gate, Look
    <3>2. f \in Files
      BY <2>2, TargetsAre DEF Gate, ReadInv, RequestInv
    <3>3. ~NoHandle.orphan /\ NoHandle.at = "idle"
      BY DEF NoHandle
    <3> QED
      BY <3>1, <3>2, <3>3, FreshIs
  <2> QED
    BY <2>1, <2>2
<1>3. handle'.orphan => torn'
  BY <1>1, <1>2 DEF GrowthInv, AppendInv
<1>4. WholeRead' => WholeRead /\ handle'.got = handle.got
  BY <1>2 DEF WholeRead
<1>5. MeasuredInv'
  BY <1>1 DEF MeasuredInv, Answered
<1> QED
  BY <1>1, <1>3, <1>4, <1>5, LedgerStays

\* Unless it tears one, the factory only ends a document of the ledger or begins one.
LEMMA LedgerGrows ==
  ASSUME Types, AppendInv, FactoryActs(LEDGER), ~torn'
  PROVE  /\ AppendInv' /\ ~torn
         /\ \A t \in Seq(Units) : GrownFrom(t) => GrownFrom(t)'
<1> DEFINE o == disk[LEDGER]
           r == pending[LEDGER]
<1>1. /\ LEDGER \in Files /\ o \in Node /\ o.text \in Seq(Units) /\ r \in Seq(Units)
      /\ disk \in [Files -> Node] /\ pending \in [Files -> Seq(Units)]
  BY LedgerTypes DEF Types
<1>2. ASSUME NEW n \in Node, NEW rest \in Seq(Units), NEW leaves \in BOOLEAN,
             Become(LEDGER, n, rest, leaves)
      PROVE  /\ ~torn /\ ~leaves /\ handle' = handle
             /\ disk'[LEDGER] = n /\ pending'[LEDGER] = rest
  BY <1>1, <1>2 DEF Become
<1>3. ASSUME ~torn, handle' = handle
      PROVE  handle'.orphan => torn'
  BY <1>3 DEF AppendInv
<1>4. ASSUME NEW n, NEW rest, disk'[LEDGER] = n, pending'[LEDGER] = rest, ~torn, handle' = handle,
             n.kind = "absent" => rest = <<>>, Unfinished(n.text, rest),
             \A t \in Seq(Units) : Grown(t, o.text, r) => Grown(t, n.text, rest)
      PROVE  AppendInv' /\ \A t \in Seq(Units) : GrownFrom(t) => GrownFrom(t)'
  BY <1>3, <1>4 DEF AppendInv, GrownFrom
<1>5. ~torn => Unfinished(o.text, r) /\ (o.kind = "absent" => r = <<>>)
  BY DEF AppendInv
<1> HIDE DEF o, r
<1>6. ASSUME NEW u \in Units, NEW rest, ~torn,
             r # <<>> => u = Head(r)
      PROVE  \A t \in Seq(Units) : Grown(t, o.text, r) => Grown(t, Append(o.text, u), rest)
  <2>1. SUFFICES ASSUME NEW t \in Seq(Units), Grown(t, o.text, r)
                 PROVE  Grown(t, Append(o.text, u), rest)
    OBVIOUS
  <2> DEFINE s == Append(o.text, u)
  <2>2. /\ s \in Seq(Units) /\ Len(s) = Len(o.text) + 1 /\ Len(o.text) \in Nat /\ Len(t) \in Nat
        /\ s[Len(o.text) + 1] = u /\ \A i \in 1 .. Len(o.text) : s[i] = o.text[i]
    BY <1>1
  <2> HIDE DEF s
  <2>3. Len(t) <= Len(o.text) /\ \A i \in 1 .. Len(t) : t[i] = o.text[i]
    BY <2>1 DEF Grown, GoesOn, Begins
  <2>4. Begins(t, s)
    BY <2>2, <2>3 DEF Begins
  <2>5. ASSUME t # <<>>, t[Len(t)].part = 2 PROVE s[Len(t) + 1] = NL
    <3>1. CASE Len(o.text) = Len(t)
      <4>1. r = <<NL>>
        BY <2>1, <2>5, <3>1 DEF Grown
      <4>2. Head(r) = NL /\ r # <<>>
        BY <4>1
      <4> QED
        BY <1>6, <2>2, <3>1, <4>2
    <3>2. CASE Len(o.text) > Len(t)
      <4>1. o.text[Len(t) + 1] = NL
        BY <2>1, <2>5, <3>2 DEF Grown, GoesOn
      <4> QED
        BY <2>2, <3>2, <4>1
    <3> QED
      BY <2>2, <2>3, <3>1, <3>2
  <2>6. Len(s) # Len(t)
    BY <2>2, <2>3
  <2> QED
    BY <2>4, <2>5, <2>6 DEF Grown, GoesOn, s
<1>7. ASSUME NEW u \in Units
      PROVE  /\ Append(o.text, u) # <<>> /\ Len(Append(o.text, u)) = Len(o.text) + 1
             /\ Append(o.text, u)[Len(Append(o.text, u))] = u /\ Append(o.text, u) \in Seq(Units)
  BY <1>1
<1>8. CASE Create(LEDGER)
  <2> DEFINE n == [o EXCEPT !.kind = "file"]
  <2>1. n \in Node /\ n.text = o.text /\ n.kind = "file"
    BY <1>1, NodeWithKind DEF Node
  <2>7. <<>> \in Seq(Units) /\ FALSE \in BOOLEAN
    OBVIOUS
  <2>2. o.kind = "absent" /\ Become(LEDGER, n, <<>>, FALSE)
    BY <1>8 DEF Create, o
  <2> HIDE DEF n
  <2>3. ~torn /\ handle' = handle /\ disk'[LEDGER] = n /\ pending'[LEDGER] = <<>>
    BY <1>2, <2>1, <2>2, <2>7
  <2>4. r = <<>> /\ Unfinished(n.text, <<>>)
    BY <1>5, <2>1, <2>2, <2>3
  <2> QED
    BY <1>4, <2>1, <2>3, <2>4
<1>9. ASSUME NEW d \in Doc, BeginDocument(LEDGER, d)
      PROVE  AppendInv' /\ ~torn /\ \A t \in Seq(Units) : GrownFrom(t) => GrownFrom(t)'
  <2> DEFINE t1 == Append(o.text, Part(d, 1))
             n == [o EXCEPT !.text = t1]
             rest == <<Part(d, 2), NL>>
  <2>1. LEDGER \in AppendOnly
    BY ReadsAssumption
  <2>2. Become(LEDGER, n, rest, FALSE) /\ r = <<>> /\ o.kind = "file"
    BY <1>9, <2>1 DEF BeginDocument, Fits, o, r
  <2>3. rest \in Seq(Units) /\ Part(d, 1) \in Units /\ Part(d, 1) # NL
    BY UnitTypes, PartTags
  <2>4. t1 \in Seq(Units) /\ t1 # <<>> /\ t1[Len(t1)] = Part(d, 1)
    BY <1>7, <2>3
  <2> HIDE DEF t1
  <2>5. n \in Node /\ n.kind = "file" /\ n.text = t1
    BY <1>1, <2>2, <2>4, NodeWithText
  <2> HIDE DEF n
  <2>6. ~torn /\ handle' = handle /\ disk'[LEDGER] = n /\ pending'[LEDGER] = rest
    BY <1>2, <2>2, <2>3, <2>5
  <2>7. Unfinished(n.text, rest)
    BY <2>4, <2>5 DEF Unfinished, Part
  <2>8. \A t \in Seq(Units) : Grown(t, o.text, r) => Grown(t, n.text, rest)
    BY <1>6, <2>2, <2>3, <2>5, <2>6 DEF t1
  <2> QED
    BY <1>4, <2>5, <2>6, <2>7, <2>8
<1>10. CASE Continue(LEDGER)
  <2> DEFINE u == Head(r)
             rest == Tail(r)
             t1 == Append(o.text, u)
             n == [o EXCEPT !.text = t1]
  <2>1. Become(LEDGER, n, rest, FALSE) /\ r # <<>> /\ o.kind = "file"
    BY <1>10 DEF Continue, Fits, o, r
  <2>2. u \in Units /\ rest \in Seq(Units)
    BY <1>1, <2>1
  <2>3. t1 \in Seq(Units) /\ t1 # <<>> /\ t1[Len(t1)] = u
    BY <1>7, <2>2
  <2> HIDE DEF t1, u, rest
  <2>4. n \in Node /\ n.kind = "file" /\ n.text = t1
    BY <1>1, <2>1, <2>3, NodeWithText
  <2> HIDE DEF n
  <2>5. ~torn /\ handle' = handle /\ disk'[LEDGER] = n /\ pending'[LEDGER] = rest
    BY <1>2, <2>1, <2>2, <2>4
  <2>6. Unfinished(n.text, rest)
    <3>1. CASE r = <<NL>>
      <4>1. u = NL /\ rest = <<>>
        BY <3>1 DEF u, rest
      <4> QED
        BY <2>3, <2>4, <4>1 DEF Unfinished, Terminated
    <3>2. ASSUME NEW d \in Doc, r = <<Part(d, 2), NL>> PROVE Unfinished(n.text, rest)
      <4>1. rest = <<NL>>
        BY <3>2 DEF rest
      <4> QED
        BY <4>1 DEF Unfinished
    <3> QED
      BY <1>5, <2>1, <2>5, <3>1, <3>2 DEF Unfinished
  <2>7. \A t \in Seq(Units) : Grown(t, o.text, r) => Grown(t, n.text, rest)
    BY <1>6, <2>1, <2>2, <2>4, <2>5 DEF t1, u, rest
  <2> QED
    BY <1>4, <2>4, <2>5, <2>6, <2>7
<1>11. CASE Abandon(LEDGER)
  BY <1>11 DEF Abandon
<1>12. CASE Unlink(LEDGER) \/ Obstruct(LEDGER)
  BY <1>12 DEF Unlink, Obstruct, Become
<1>13. ASSUME NEW d \in Doc, Replace(LEDGER, d) PROVE FALSE
  BY <1>13 DEF Replace, Become
<1>14. ASSUME NEW n \in Node, Become(LEDGER, n, r, FALSE), n.kind = o.kind, n.text = o.text
       PROVE  AppendInv' /\ ~torn /\ \A t \in Seq(Units) : GrownFrom(t) => GrownFrom(t)'
  <2>1. ~torn /\ handle' = handle /\ disk'[LEDGER] = n /\ pending'[LEDGER] = r
    BY <1>1, <1>2, <1>14
  <2> QED
    BY <1>4, <1>5, <1>14, <2>1
<1>15. CASE Relock(LEDGER)
  <2> DEFINE n == [o EXCEPT !.locked = ~@]
  <2>1. n \in Node /\ n.kind = o.kind /\ n.text = o.text
    BY <1>1, NodeFlipped
  <2>2. Become(LEDGER, n, r, FALSE)
    BY <1>15 DEF Relock, o, r
  <2> HIDE DEF n
  <2> QED
    BY <1>14, <2>1, <2>2
<1>16. CASE Deny(LEDGER)
  <2> DEFINE n == [o EXCEPT !.denied = ~@]
  <2>1. n \in Node /\ n.kind = o.kind /\ n.text = o.text
    BY <1>1, NodeFlipped
  <2>2. Become(LEDGER, n, r, FALSE)
    BY <1>16 DEF Deny, o, r
  <2> HIDE DEF n
  <2> QED
    BY <1>14, <2>1, <2>2
<1>17. CASE Create(LEDGER) \/ Continue(LEDGER)
  <2>1. ~torn
    BY <1>17 DEF Create, Continue, Become
  <2> QED
    BY <1>8, <1>10, <1>17, <2>1
<1> QED
  BY <1>9, <1>11, <1>12, <1>13, <1>15, <1>16, <1>17 DEF FactoryActs

\* Whatever the factory does to the file the reader is at.
LEMMA FactoryGrows ==
  ASSUME ReadInv, GrowthInv, NEW f \in Files, Factory(f)
  PROVE  GrowthInv'
<1>1. /\ FactoryActs(f) /\ request' = request /\ before' = before
      /\ Types /\ ArtefactInv
  BY DEF Factory, ReadInv
<1>2. \/ /\ UNCHANGED <<disk, handle>> /\ torn'
         /\ pending' = [pending EXCEPT ![f] = <<>>]
      \/ \E n, rest : \E leaves \in BOOLEAN : Become(f, n, rest, leaves)
  BY <1>1 DEF FactoryActs, Abandon, Create, BeginDocument, Continue, Unlink, Obstruct, Replace,
     Relock, Deny
<1>3. /\ handle'.at = handle.at /\ handle'.outcome = handle.outcome /\ handle'.file = handle.file
      /\ handle'.got = handle.got
      /\ (torn => torn') /\ (handle'.orphan => handle.orphan \/ torn')
      /\ f # LEDGER => disk'[LEDGER] = disk[LEDGER] /\ pending'[LEDGER] = pending[LEDGER]
  <2>1. handle \in Handles /\ LEDGER \in Files /\ disk \in [Files -> Node] /\ pending \in [Files -> Seq(Units)]
    BY <1>1, LedgerTypes DEF Types
  <2>2. CASE UNCHANGED <<disk, handle>> /\ torn' /\ pending' = [pending EXCEPT ![f] = <<>>]
    BY <2>1, <2>2
  <2>3. ASSUME NEW n, NEW rest, NEW leaves \in BOOLEAN, Become(f, n, rest, leaves)
        PROVE  /\ handle'.at = handle.at /\ handle'.outcome = handle.outcome
               /\ handle'.file = handle.file /\ handle'.got = handle.got
               /\ (torn => torn') /\ (handle'.orphan => handle.orphan \/ torn')
               /\ f # LEDGER => disk'[LEDGER] = disk[LEDGER] /\ pending'[LEDGER] = pending[LEDGER]
    <3>1. /\ disk' = [disk EXCEPT ![f] = n] /\ pending' = [pending EXCEPT ![f] = rest]
          /\ torn' = (torn \/ leaves)
          /\ \/ leaves /\ handle' = [handle EXCEPT !.orphan = TRUE, !.held = disk[f]]
             \/ handle' = handle
      BY <2>3 DEF Become
    <3>2. disk[f] \in Node
      BY <2>1
    <3> QED
      BY <2>1, <3>1, <3>2, OrphanIs
  <2> QED
    BY <1>2, <2>2, <2>3
<1>4. WholeRead' = WholeRead
  BY <1>3 DEF WholeRead
<1>5. MeasuredInv'
  BY <1>1, <1>3, <1>4 DEF GrowthInv, MeasuredInv, Answered, Spend
<1>6. handle'.orphan => torn'
  BY <1>3 DEF GrowthInv, AppendInv
<1>7. CASE f # LEDGER
  BY <1>1, <1>3, <1>4, <1>5, <1>6, <1>7, LedgerStays
<1>8. CASE torn'
  <2>1. AppendInv' /\ BeforeInv'
    BY <1>8 DEF AppendInv, BeforeInv
  <2> QED
    BY <1>5, <2>1 DEF GrowthInv
<1>9. CASE f = LEDGER /\ ~torn'
  <2>1. /\ AppendInv' /\ ~torn
        /\ \A t \in Seq(Units) : GrownFrom(t) => GrownFrom(t)'
    BY <1>1, <1>9, LedgerGrows DEF GrowthInv
  <2>2. handle.got \in Seq(Units)
    BY <1>1, LedgerTypes
  <2>3. WholeRead' => GrownFrom(handle.got)'
    <3>1. ASSUME WholeRead' PROVE GrownFrom(handle.got)
      BY <1>4, <2>1, <3>1 DEF GrowthInv, BeforeInv
    <3>2. \A t : t = handle.got => (GrownFrom(t)' => GrownFrom(handle.got)')
      BY <1>3 DEF GrownFrom
    <3>3. ASSUME NEW t \in Seq(Units), t = handle.got, WholeRead' PROVE GrownFrom(handle.got)'
      BY <2>1, <3>1, <3>2, <3>3
    <3> QED
      BY <2>2, <3>3
  <2>4. ASSUME ReadBefore'
        PROVE  \E t \in Seq(Units) : BilledBefore(t)'
    <3>1. PICK t \in Seq(Units) : BilledBefore(t)
      <4>1. ReadBefore
        BY <1>1, <2>4 DEF ReadBefore
      <4>2. BeforeInv
        BY DEF GrowthInv
      <4> QED
        BY <2>1, <4>1, <4>2 DEF BeforeInv
    <3>2. BilledBefore(t)'
      BY <1>1, <1>3, <1>4, <2>1, <3>1 DEF BilledBefore
    <3> QED
      BY <3>2
  <2>5. BeforeInv'
    BY <2>3, <2>4 DEF BeforeInv
  <2> QED
    BY <1>5, <2>1, <2>5 DEF GrowthInv
<1> QED
  BY <1>7, <1>8, <1>9

LEMMA InitGrowth == Init => GrowthInv
<1> SUFFICES ASSUME Init PROVE GrowthInv
  OBVIOUS
<1>1. /\ request.asks = "spend" => request.at = "look"
      /\ pending[LEDGER] = <<>> /\ ~handle.orphan /\ handle.at = "idle" /\ before = <<>>
      /\ torn = (disk[LEDGER].text # <<>> /\ ~Terminated(disk[LEDGER].text))
  BY TargetsAre DEF Init, NoHandle
<1>2. AppendInv
  BY <1>1 DEF AppendInv, Unfinished
<1>3. MeasuredInv /\ BeforeInv
  BY <1>1 DEF MeasuredInv, Answered, BeforeInv, WholeRead, ReadBefore
<1> QED
  BY <1>2, <1>3 DEF GrowthInv

LEMMA NextGrowth == ReadInv /\ GrowthInv /\ [Next]_vars => GrowthInv'
<1> SUFFICES ASSUME ReadInv, GrowthInv, [Next]_vars PROVE GrowthInv'
  OBVIOUS
<1>1. CASE Probe \/ FailProbe \/ Contain
  BY <1>1, LookGrows
<1>2. CASE Bill
  BY <1>2, AnswerGrows
<1>3. CASE AskAgain
  BY <1>3, AskGrows
<1>4. CASE Gate \/ Collect
  BY <1>4, RunsGrow
<1>5. CASE Reads
  BY <1>5, ReadsGrow
<1>6. ASSUME NEW f \in Files, Factory(f) PROVE GrowthInv'
  BY <1>6, FactoryGrows
<1>7. CASE UNCHANGED vars
  <2>1. /\ disk' = disk /\ pending' = pending /\ handle' = handle /\ torn' = torn
        /\ request' = request /\ before' = before
    BY <1>7 DEF vars, files
  <2>2. MeasuredInv'
    BY <2>1 DEF GrowthInv, MeasuredInv, Answered, Spend, WholeRead
  <2>3. handle'.orphan => torn'
    BY <2>1 DEF GrowthInv, AppendInv
  <2> QED
    BY <2>1, <2>2, <2>3, LedgerStays DEF WholeRead
<1> QED
  BY <1>1, <1>2, <1>3, <1>4, <1>5, <1>6, <1>7 DEF Next

-----------------------------------------------------------------------------
(* Induction, by a least counterexample: strict inclusion of finite sets   *)
(* is well-founded.                                                        *)

LEMMA SmallestOf ==
  ASSUME NEW S, NEW C, C \subseteq FiniteSubsetsOf(S), C # {}
  PROVE  \E T \in C : \A U \in C : U \subseteq T => U = T
<1>1. PICK T \in C : \A U \in C : <<U, T>> \notin StrictSubsetOrdering(S)
  BY FS_StrictSubsetOrderingWellFounded, WFMin
<1>2. C \subseteq SUBSET S
  BY DEF FiniteSubsetsOf
<1> QED
  BY <1>1, <1>2 DEF StrictSubsetOrdering

\* A set of sets that has {} and grows by any element of S has S.
LEMMA FiniteInduction ==
  ASSUME NEW S, IsFiniteSet(S), NEW C, {} \in C,
         \A T \in SUBSET S, x \in S : T \in C /\ x \notin T => T \cup {x} \in C
  PROVE  S \in C
<1>1. SUFFICES ASSUME S \notin C PROVE FALSE
  OBVIOUS
<1> DEFINE Bad == {T \in SUBSET S : T \notin C}
<1>2. Bad \subseteq FiniteSubsetsOf(S) /\ Bad # {}
  BY <1>1, FS_Subset DEF FiniteSubsetsOf
<1> HIDE DEF Bad
<1>3. PICK T \in Bad : \A U \in Bad : U \subseteq T => U = T
  BY <1>2, SmallestOf
<1> USE DEF Bad
<1>4. PICK x \in T : TRUE
  BY <1>3
<1>5. T \ {x} \in C
  BY <1>3, <1>4
<1>6. (T \ {x}) \cup {x} = T /\ x \notin T \ {x} /\ T \ {x} \in SUBSET S /\ x \in S /\ T \notin C
  BY <1>3, <1>4
<1> QED
  BY <1>5, <1>6

LEMMA LeastNatural ==
  ASSUME NEW S \in SUBSET Nat, S # {}
  PROVE  \E n \in S : \A m \in S : n <= m
<1> DEFINE C == {0 .. n : n \in S}
<1>1. C # {} /\ C \subseteq FiniteSubsetsOf(Nat)
  <2>1. ASSUME NEW n \in S PROVE 0 .. n \in SUBSET Nat /\ IsFiniteSet(0 .. n)
    BY FS_Interval
  <2> QED
    BY <2>1 DEF FiniteSubsetsOf
<1> HIDE DEF C
<1>2. PICK T \in C : \A U \in C : U \subseteq T => U = T
  BY <1>1, SmallestOf
<1>3. PICK n \in S : T = 0 .. n
  BY <1>2 DEF C
<1>4. ASSUME NEW m \in S, ~(n <= m) PROVE FALSE
  <2>1. 0 .. m \in C /\ 0 .. m \subseteq 0 .. n
    BY <1>4 DEF C
  <2>2. 0 .. m = 0 .. n
    BY <2>1, <1>2, <1>3
  <2> QED
    BY <2>2, <1>4
<1> QED
  BY <1>3, <1>4

LEMMA NatInduct ==
  ASSUME NEW S, 0 \in S, \A n \in Nat : n \in S => n + 1 \in S
  PROVE  Nat \subseteq S
<1>1. SUFFICES ASSUME Nat \ S # {} PROVE FALSE
  OBVIOUS
<1>2. PICK n \in Nat \ S : \A m \in Nat \ S : n <= m
  BY <1>1, LeastNatural
<1>3. n - 1 \in Nat /\ n - 1 \in S
  BY <1>2
<1> QED
  BY <1>2, <1>3

LEMMA MinOf ==
  ASSUME NEW S \in SUBSET Nat, S # {}
  PROVE  Min(S) \in S /\ \A m \in S : Min(S) <= m
<1>1. \E n \in S : \A m \in S : n <= m
  BY LeastNatural
<1> QED
  BY <1>1 DEF Min

-----------------------------------------------------------------------------
(* Sums over finite sets.  A sum of naturals is how many points there are  *)
(* under the weights; of integers, those above zero without those below.   *)

Points(S, w) == {p \in S \X Nat : p[2] < w[p[1]]}
Minus(S, w) == [i \in S |-> 0 - w[i]]
Total(S, w) == Cardinality(Points(S, w)) - Cardinality(Points(S, Minus(S, w)))

LEMMA PointsAdd ==
  ASSUME NEW S, NEW x \in S, NEW w, \A i \in S : w[i] \in Int, IsFiniteSet(Points(S \ {x}, w))
  PROVE  /\ IsFiniteSet(Points(S, w))
         /\ Cardinality(Points(S, w)) =
              Cardinality(Points(S \ {x}, w)) + (IF w[x] > 0 THEN w[x] ELSE 0)
<1> DEFINE n == IF w[x] > 0 THEN w[x] ELSE 0
           Mine == {p \in S \X Nat : p[1] = x /\ p[2] < w[x]}
           f == [j \in 0 .. n - 1 |-> <<x, j>>]
<1>1. n \in Nat /\ IsFiniteSet(0 .. n - 1) /\ Cardinality(0 .. n - 1) = n
  BY FS_Interval
<1>2. f \in Bijection(0 .. n - 1, Mine)
  <2>1. \A j \in 0 .. n - 1 : <<x, j>> \in Mine
    OBVIOUS
  <2>2. \A p \in Mine : p[2] \in 0 .. n - 1 /\ p = <<x, p[2]>>
    OBVIOUS
  <2>3. f \in [0 .. n - 1 -> Mine]
    BY <2>1
  <2>4. \A j, k \in 0 .. n - 1 : f[j] = f[k] => j = k
    OBVIOUS
  <2>5. \A p \in Mine : \E j \in 0 .. n - 1 : f[j] = p
    BY <2>2
  <2> QED
    BY <2>3, <2>4, <2>5, Fun_IsBij
<1>3. IsFiniteSet(Mine) /\ Cardinality(Mine) = n
  BY <1>1, <1>2, FS_Bijection DEF ExistsBijection
<1>4. Points(S, w) = Points(S \ {x}, w) \cup Mine /\ Points(S \ {x}, w) \cap Mine = {}
  <2>1. \A p : p \in Points(S, w) <=> p \in Points(S \ {x}, w) \/ p \in Mine
    BY DEF Points
  <2>2. \A p : ~(p \in Points(S \ {x}, w) /\ p \in Mine)
    BY DEF Points
  <2> QED
    BY <2>1, <2>2
<1> HIDE DEF Mine
<1>5. Cardinality(Points(S \ {x}, w)) \in Nat
  BY FS_CardinalityType
<1> DEFINE Rest == Points(S \ {x}, w)
<1> HIDE DEF Rest
<1>6. IsFiniteSet(Rest \cup Mine) /\ Cardinality(Rest \cup Mine) = Cardinality(Rest) + Cardinality(Mine) - Cardinality(Rest \cap Mine)
  BY <1>3, FS_Union DEF Rest
<1>7. Rest \cap Mine = {} /\ Points(S, w) = Rest \cup Mine /\ Cardinality(Rest) \in Nat
  BY <1>4, <1>5 DEF Rest
<1> HIDE DEF n
<1>8. Cardinality(Points(S, w)) = Cardinality(Rest) + n
  <2>1. Cardinality(Rest \cap Mine) = 0
    BY <1>7, FS_EmptySet
  <2>2. Cardinality(Points(S, w)) = Cardinality(Rest \cup Mine)
    BY <1>7
  <2> QED
    BY <1>1, <1>3, <1>6, <1>7, <2>1, <2>2
<1> QED
  BY <1>6, <1>7, <1>8 DEF Rest, n

LEMMA PointsEmpty == ASSUME NEW w PROVE Points({}, w) = {}
BY DEF Points

LEMMA PointsFinite ==
  ASSUME NEW S, IsFiniteSet(S), NEW w, \A i \in S : w[i] \in Int
  PROVE  IsFiniteSet(Points(S, w))
<1> DEFINE C == {T \in SUBSET S : IsFiniteSet(Points(T, w))}
<1>1. {} \in C
  BY PointsEmpty, FS_EmptySet
<1>2. ASSUME NEW T \in SUBSET S, NEW x \in S, T \in C, x \notin T PROVE T \cup {x} \in C
  <2>1. (T \cup {x}) \ {x} = T /\ x \in T \cup {x}
    BY <1>2
  <2> DEFINE U == T \cup {x}
  <2>2. \A i \in U : w[i] \in Int
    OBVIOUS
  <2>3. IsFiniteSet(Points(U \ {x}, w))
    BY <1>2, <2>1
  <2> HIDE DEF U
  <2>4. IsFiniteSet(Points(U, w))
    BY <2>1, <2>2, <2>3, PointsAdd DEF U
  <2> QED
    BY <2>4 DEF U
<1> HIDE DEF C
<1>3. S \in C
  BY <1>1, <1>2, FiniteInduction
<1> QED
  BY <1>3 DEF C

LEMMA TotalEmpty == ASSUME NEW w PROVE Total({}, w) = 0
BY PointsEmpty, FS_EmptySet DEF Total

LEMMA TotalType ==
  ASSUME NEW S, IsFiniteSet(S), NEW w, \A i \in S : w[i] \in Int
  PROVE  Total(S, w) \in Int
<1>1. \A i \in S : Minus(S, w)[i] \in Int
  BY DEF Minus
<1> QED
  BY <1>1, PointsFinite, FS_CardinalityType DEF Total

\* Any element may be taken first.
LEMMA TotalRemove ==
  ASSUME NEW S, IsFiniteSet(S), NEW w, \A i \in S : w[i] \in Int, NEW x \in S
  PROVE  Total(S, w) = w[x] + Total(S \ {x}, w)
<1> DEFINE T == S \ {x}
           v == Minus(S, w)
<1>1. IsFiniteSet(T) /\ T \subseteq S
  BY FS_RemoveElement
<1>2. \A i \in S : v[i] \in Int /\ v[i] = 0 - w[i]
  BY DEF Minus
<1>3. Points(T, Minus(T, w)) = Points(T, v)
  BY DEF Points, Minus
<1> HIDE DEF v
<1>4. IsFiniteSet(Points(T, w)) /\ IsFiniteSet(Points(T, v))
  <2>1. \A i \in T : w[i] \in Int /\ v[i] \in Int
    BY <1>1, <1>2
  <2> HIDE DEF T
  <2>2. IsFiniteSet(Points(T, w))
    BY ONLY <1>1, <2>1, PointsFinite
  <2>3. IsFiniteSet(Points(T, v))
    BY ONLY <1>1, <2>1, PointsFinite
  <2> QED
    BY <2>2, <2>3
<1>5. /\ Cardinality(Points(S, w)) = Cardinality(Points(T, w)) + (IF w[x] > 0 THEN w[x] ELSE 0)
      /\ Cardinality(Points(S, v)) = Cardinality(Points(T, v)) + (IF v[x] > 0 THEN v[x] ELSE 0)
  BY <1>2, <1>4, PointsAdd
<1>6. Cardinality(Points(T, w)) \in Nat /\ Cardinality(Points(T, v)) \in Nat
  BY <1>4, FS_CardinalityType
<1> HIDE DEF T
<1>7. Total(S, w) = Cardinality(Points(S, w)) - Cardinality(Points(S, v))
  BY DEF Total, v
<1>8. Total(T, w) = Cardinality(Points(T, w)) - Cardinality(Points(T, v))
  BY <1>3 DEF Total
<1>9. w[x] \in Int /\ v[x] = 0 - w[x]
  BY <1>2
<1>10. Total(S, w) = w[x] + Total(T, w)
  BY <1>5, <1>6, <1>7, <1>8, <1>9
<1> QED
  BY <1>10 DEF T

\* A fold that takes its elements in some order is their total.
Folds(f, S, w, c) == f = [s \in SUBSET S |-> IF s = {} THEN 0 ELSE w[c[s]] + f[s \ {c[s]}]]
Chooses(c, S) == \A s \in SUBSET S : s # {} => c[s] \in s

LEMMA TotalFolds ==
  ASSUME NEW S, IsFiniteSet(S), NEW w, \A i \in S : w[i] \in Int, NEW c, Chooses(c, S)
  PROVE  Folds([s \in SUBSET S |-> Total(s, w)], S, w, c)
<1> DEFINE h == [s \in SUBSET S |-> Total(s, w)]
<1>1. ASSUME NEW s \in SUBSET S, s # {} PROVE h[s] = w[c[s]] + h[s \ {c[s]}]
  <2>1. c[s] \in s /\ IsFiniteSet(s) /\ \A i \in s : w[i] \in Int
    BY <1>1, FS_Subset DEF Chooses
  <2>2. Total(s, w) = w[c[s]] + Total(s \ {c[s]}, w)
    BY <2>1, TotalRemove
  <2> QED
    BY <2>1, <2>2
<1>2. h[{}] = 0
  BY TotalEmpty
<1>3. h = [s \in SUBSET S |-> h[s]]
  OBVIOUS
<1> HIDE DEF h
<1>4. \A s \in SUBSET S : h[s] = IF s = {} THEN 0 ELSE w[c[s]] + h[s \ {c[s]}]
  BY <1>1, <1>2
<1>5. h = [s \in SUBSET S |-> IF s = {} THEN 0 ELSE w[c[s]] + h[s \ {c[s]}]]
  BY <1>3, <1>4
<1>6. Folds(h, S, w, c)
  BY <1>5 DEF Folds
<1> QED
  BY <1>6 DEF h

LEMMA FoldIsTotal ==
  ASSUME NEW S, IsFiniteSet(S), NEW w, \A i \in S : w[i] \in Int, NEW c, Chooses(c, S),
         NEW f, Folds(f, S, w, c)
  PROVE  f[S] = Total(S, w)
<1>1. SUFFICES ASSUME f[S] # Total(S, w) PROVE FALSE
  OBVIOUS
<1> DEFINE Bad == {s \in SUBSET S : f[s] # Total(s, w)}
<1>2. Bad \subseteq FiniteSubsetsOf(S) /\ Bad # {}
  BY <1>1, FS_Subset DEF FiniteSubsetsOf
<1> HIDE DEF Bad
<1>3. PICK s \in Bad : \A u \in Bad : u \subseteq s => u = s
  BY <1>2, SmallestOf
<1>4. s \in SUBSET S /\ f[s] # Total(s, w)
  BY <1>3 DEF Bad
<1>5. f[s] = IF s = {} THEN 0 ELSE w[c[s]] + f[s \ {c[s]}]
  BY <1>4 DEF Folds
<1>6. s # {}
  BY <1>4, <1>5, TotalEmpty
<1>7. c[s] \in s /\ IsFiniteSet(s) /\ \A i \in s : w[i] \in Int
  BY <1>4, <1>6, FS_Subset DEF Chooses
<1>8. s \ {c[s]} \notin Bad
  BY <1>3, <1>7
<1>9. f[s \ {c[s]}] = Total(s \ {c[s]}, w)
  BY <1>4, <1>8 DEF Bad
<1> QED
  BY <1>4, <1>5, <1>6, <1>7, <1>9, TotalRemove

LEMMA SumOverIs ==
  ASSUME NEW parts, NEW at, IsFiniteSet(at), \A i \in at : parts[i].cost \in Int
  PROVE  SumOver(parts, at) = Total(at, [i \in at |-> parts[i].cost])
<1> DEFINE w == [i \in at |-> parts[i].cost]
           c == [s \in SUBSET at |-> CHOOSE x \in s : TRUE]
           F(f) == f = [s \in SUBSET at |-> IF s = {} THEN 0
                          ELSE parts[CHOOSE x \in s : TRUE].cost + f[s \ {CHOOSE x \in s : TRUE}]]
           sum == CHOOSE f : F(f)
<1>1. Chooses(c, at) /\ \A i \in at : w[i] \in Int
  BY DEF Chooses
<1>2. ASSUME NEW s \in SUBSET at, s # {}
      PROVE  c[s] = (CHOOSE x \in s : TRUE) /\ w[c[s]] = parts[CHOOSE x \in s : TRUE].cost
  BY <1>1, <1>2 DEF Chooses
<1> HIDE DEF w, c
<1>3. ASSUME NEW f PROVE F(f) <=> Folds(f, at, w, c)
  <2>1. \A s \in SUBSET at : (IF s = {} THEN 0 ELSE w[c[s]] + f[s \ {c[s]}]) =
          IF s = {} THEN 0 ELSE parts[CHOOSE x \in s : TRUE].cost + f[s \ {CHOOSE x \in s : TRUE}]
    BY <1>2
  <2> QED
    BY <2>1 DEF Folds
<1>4. SumOver(parts, at) = sum[at]
  BY DEF SumOver, MapThenSumSet, MapThenFoldSet
<1> HIDE DEF F
<1>5. \E f : F(f)
  BY <1>1, <1>3, TotalFolds
<1>6. Folds(sum, at, w, c)
  BY <1>3, <1>5
<1> HIDE DEF sum
<1>7. sum[at] = Total(at, w)
  BY <1>1, <1>6, FoldIsTotal
<1> QED
  BY <1>4, <1>7 DEF w

LEMMA CostsAre ==
  ASSUME NEW t, NEW at, IsFiniteSet(at), \A i \in at : Cost[t[i].doc] \in Int
  PROVE  MapThenSumSet(LAMBDA i : Cost[t[i].doc], at) = Total(at, [i \in at |-> Cost[t[i].doc]])
<1> DEFINE w == [i \in at |-> Cost[t[i].doc]]
           c == [s \in SUBSET at |-> CHOOSE x \in s : TRUE]
           F(f) == f = [s \in SUBSET at |-> IF s = {} THEN 0
                          ELSE Cost[t[CHOOSE x \in s : TRUE].doc] + f[s \ {CHOOSE x \in s : TRUE}]]
           sum == CHOOSE f : F(f)
<1>1. Chooses(c, at) /\ \A i \in at : w[i] \in Int
  BY DEF Chooses
<1>2. ASSUME NEW s \in SUBSET at, s # {}
      PROVE  c[s] = (CHOOSE x \in s : TRUE) /\ w[c[s]] = Cost[t[CHOOSE x \in s : TRUE].doc]
  BY <1>1, <1>2 DEF Chooses
<1> HIDE DEF w, c
<1>3. ASSUME NEW f PROVE F(f) <=> Folds(f, at, w, c)
  <2>1. \A s \in SUBSET at : (IF s = {} THEN 0 ELSE w[c[s]] + f[s \ {c[s]}]) =
          IF s = {} THEN 0 ELSE Cost[t[CHOOSE x \in s : TRUE].doc] + f[s \ {CHOOSE x \in s : TRUE}]
    BY <1>2
  <2> QED
    BY <2>1 DEF Folds
<1>4. MapThenSumSet(LAMBDA i : Cost[t[i].doc], at) = sum[at]
  BY DEF MapThenSumSet, MapThenFoldSet
<1> HIDE DEF F
<1>5. \E f : F(f)
  BY <1>1, <1>3, TotalFolds
<1>6. Folds(sum, at, w, c)
  BY <1>3, <1>5
<1> HIDE DEF sum
<1>7. sum[at] = Total(at, w)
  BY <1>1, <1>6, FoldIsTotal
<1> QED
  BY <1>4, <1>7 DEF w

LEMMA TotalAgrees ==
  ASSUME NEW S, NEW w, NEW v, \A i \in S : w[i] = v[i]
  PROVE  Total(S, w) = Total(S, v)
<1>1. Points(S, w) = Points(S, v)
  BY DEF Points
<1>2. Minus(S, w) = Minus(S, v)
  BY DEF Minus
<1> QED
  BY <1>1, <1>2 DEF Total

\* One more element adds its weight.
LEMMA TotalAdd ==
  ASSUME NEW S, IsFiniteSet(S), NEW x, x \notin S, NEW w, \A i \in S \cup {x} : w[i] \in Int
  PROVE  /\ Total(S \cup {x}, w) = w[x] + Total(S, w)
         /\ Total(S, w) \in Int /\ w[x] \in Int
<1> DEFINE U == S \cup {x}
<1>1. IsFiniteSet(U) /\ x \in U /\ U \ {x} = S /\ \A i \in U : w[i] \in Int
  BY FS_AddElement
<1> HIDE DEF U
<1>2. Total(U, w) = w[x] + Total(U \ {x}, w)
  BY <1>1, TotalRemove
<1>3. Total(S, w) \in Int
  BY TotalType
<1> QED
  BY <1>1, <1>2, <1>3 DEF U

LEMMA TotalUnion ==
  ASSUME NEW S, IsFiniteSet(S), NEW T, IsFiniteSet(T), S \cap T = {},
         NEW w, \A i \in S \cup T : w[i] \in Int
  PROVE  Total(S \cup T, w) = Total(S, w) + Total(T, w)
<1> DEFINE C == {U \in SUBSET T : Total(S \cup U, w) = Total(S, w) + Total(U, w)}
<1>1. Total(S, w) \in Int
  BY TotalType
<1>2. {} \in C
  <2>1. S \cup {} = S
    OBVIOUS
  <2> QED
    BY <1>1, <2>1, TotalEmpty
<1>3. ASSUME NEW U \in SUBSET T, NEW x \in T, U \in C, x \notin U PROVE U \cup {x} \in C
  <2>1. IsFiniteSet(U) /\ IsFiniteSet(S \cup U) /\ x \notin S \cup U
    BY <1>3, FS_Subset, FS_Union
  <2>2. Total(U \cup {x}, w) = w[x] + Total(U, w) /\ Total(U, w) \in Int /\ w[x] \in Int
    BY <1>3, <2>1, TotalAdd
  <2>3. Total((S \cup U) \cup {x}, w) = w[x] + Total(S \cup U, w)
    <3> DEFINE V == S \cup U
    <3>1. IsFiniteSet(V) /\ x \notin V /\ \A i \in V \cup {x} : w[i] \in Int
      BY <2>1
    <3> HIDE DEF V
    <3>2. Total(V \cup {x}, w) = w[x] + Total(V, w)
      BY <3>1, TotalAdd
    <3> QED
      BY <3>2 DEF V
  <2>4. (S \cup U) \cup {x} = S \cup (U \cup {x})
    OBVIOUS
  <2>5. Total(S \cup U, w) = Total(S, w) + Total(U, w)
    BY <1>3
  <2>6. Total(S \cup (U \cup {x}), w) = Total(S, w) + Total(U \cup {x}, w)
    <3>1. Total(S \cup (U \cup {x}), w) = w[x] + (Total(S, w) + Total(U, w))
      BY <2>3, <2>4, <2>5
    <3> QED
      BY <1>1, <2>2, <3>1
  <2> QED
    BY <1>3, <2>6
<1> HIDE DEF C
<1>4. T \in C
  BY <1>2, <1>3, FiniteInduction
<1> QED
  BY <1>4 DEF C

\* Counted under other names, a sum is the same.
LEMMA TotalRenamed ==
  ASSUME NEW S, IsFiniteSet(S), NEW T, NEW b \in Bijection(S, T),
         NEW w, NEW v, \A i \in S : w[i] = v[b[i]], \A j \in T : v[j] \in Int
  PROVE  Total(S, w) = Total(T, v)
<1> DEFINE Image(U) == {b[i] : i \in U}
           C == {U \in SUBSET S : Total(U, w) = Total(Image(U), v)}
<1>1. b \in [S -> T] /\ Image(S) = T /\ \A i, j \in S : b[i] = b[j] => i = j
  BY Fun_BijectionProperties
<1>2. IsFiniteSet(T)
  BY FS_Bijection DEF ExistsBijection
<1>3. {} \in C
  <2>1. Image({}) = {}
    OBVIOUS
  <2> QED
    BY <2>1, TotalEmpty
<1>4. ASSUME NEW U \in SUBSET S, NEW x \in S, U \in C, x \notin U PROVE U \cup {x} \in C
  <2>1. IsFiniteSet(U) /\ \A i \in U \cup {x} : w[i] \in Int
    BY <1>1, FS_Subset
  <2>2. Total(U \cup {x}, w) = w[x] + Total(U, w)
    BY <1>4, <2>1, TotalAdd
  <2>3. Image(U) \in SUBSET T /\ b[x] \in T /\ b[x] \notin Image(U)
    BY <1>1, <1>4
  <2>4. IsFiniteSet(Image(U)) /\ \A j \in Image(U) \cup {b[x]} : v[j] \in Int
    BY <1>2, <2>3, FS_Subset
  <2>5. Image(U \cup {x}) = Image(U) \cup {b[x]}
    OBVIOUS
  <2> HIDE DEF Image
  <2>6. Total(Image(U) \cup {b[x]}, v) = v[b[x]] + Total(Image(U), v)
    BY <2>3, <2>4, TotalAdd
  <2>7. Total(U \cup {x}, w) = Total(Image(U \cup {x}), v)
    BY <1>4, <2>2, <2>5, <2>6
  <2> QED
    BY <1>4, <2>7
<1> HIDE DEF C
<1>5. S \in C
  BY <1>3, <1>4, FiniteInduction
<1> QED
  BY <1>1, <1>5 DEF C

\* Cut by keys, the parts add up to the whole.
LEMMA TotalByKey ==
  ASSUME NEW S, IsFiniteSet(S), NEW K, IsFiniteSet(K), NEW key \in [S -> K],
         NEW w, \A i \in S : w[i] \in Int,
         NEW fibre \in [K -> SUBSET S], \A k \in K, i \in S : i \in fibre[k] <=> key[i] = k,
         NEW v, \A k \in K : v[k] = Total(fibre[k], w)
  PROVE  Total(K, v) = Total(S, w)
<1> DEFINE Under(U) == {i \in S : key[i] \in U}
           C == {U \in SUBSET K : Total(U, v) = Total(Under(U), w)}
<1>1. {} \in C
  <2>1. Under({}) = {}
    OBVIOUS
  <2> QED
    BY <2>1, TotalEmpty
<1>2. ASSUME NEW k \in K PROVE v[k] \in Int
  <2> DEFINE M == fibre[k]
  <2>1. IsFiniteSet(M) /\ \A i \in M : w[i] \in Int
    BY FS_Subset
  <2> HIDE DEF M
  <2>2. Total(M, w) \in Int
    BY <2>1, TotalType
  <2> QED
    BY <2>2 DEF M
<1>3. ASSUME NEW U \in SUBSET K, NEW k \in K, U \in C, k \notin U PROVE U \cup {k} \in C
  <2> DEFINE M == fibre[k]
  <2>1. IsFiniteSet(U) /\ \A j \in U \cup {k} : v[j] \in Int
    BY <1>2, FS_Subset
  <2>2. Total(U \cup {k}, v) = v[k] + Total(U, v)
    <3>1. k \notin U
      BY <1>3
    <3> QED
      BY ONLY <2>1, <3>1, TotalAdd
  <2>3. /\ IsFiniteSet(M) /\ IsFiniteSet(Under(U)) /\ Under(U) \cap M = {}
        /\ Under(U \cup {k}) = Under(U) \cup M /\ \A i \in Under(U) \cup M : w[i] \in Int
    BY <1>3, FS_Subset
  <2>4. v[k] = Total(M, w)
    OBVIOUS
  <2> HIDE DEF M, Under
  <2>5. Total(Under(U) \cup M, w) = Total(Under(U), w) + Total(M, w)
    BY <2>3, TotalUnion
  <2>6. Total(Under(U), w) = Total(U, v) /\ Total(Under(U), w) \in Int
    BY <1>3, <2>3, TotalType
  <2>7. Total(U \cup {k}, v) = Total(Under(U \cup {k}), w)
    <3>1. Total(Under(U \cup {k}), w) = Total(Under(U), w) + v[k]
      BY <2>3, <2>4, <2>5
    <3> QED
      BY <1>2, <2>2, <2>6, <3>1
  <2> QED
    BY <1>3, <2>7
<1> HIDE DEF C
<1>4. K \in C
  BY <1>1, <1>3, FiniteInduction
<1>5. Under(K) = S
  OBVIOUS
<1> QED
  BY <1>4, <1>5 DEF C

\* With nothing below zero, more elements never make less.
LEMMA TotalGrows ==
  ASSUME NEW T, IsFiniteSet(T), NEW S \in SUBSET T, NEW w, \A i \in T : w[i] \in Int /\ w[i] >= 0
  PROVE  Total(S, w) <= Total(T, w)
<1> DEFINE R == T \ S
           C == {U \in SUBSET R : Total(U, w) >= 0}
<1>1. IsFiniteSet(S) /\ IsFiniteSet(R) /\ S \cap R = {} /\ S \cup R = T
  BY FS_Subset
<1>2. {} \in C
  BY TotalEmpty
<1>3. ASSUME NEW U \in SUBSET R, NEW x \in R, U \in C, x \notin U PROVE U \cup {x} \in C
  <2>1. IsFiniteSet(U) /\ \A i \in U \cup {x} : w[i] \in Int
    BY FS_Subset
  <2>2. Total(U \cup {x}, w) = w[x] + Total(U, w) /\ Total(U, w) \in Int /\ w[x] \in Int
    BY <1>3, <2>1, TotalAdd
  <2> QED
    BY <1>3, <2>2
<1> HIDE DEF C, R
<1>4. R \in C
  BY <1>1, <1>2, <1>3, FiniteInduction
<1>5. Total(R, w) >= 0
  BY <1>4 DEF C
<1>6. \A i \in S \cup R : w[i] \in Int
  BY <1>1
<1>7. Total(S \cup R, w) = Total(S, w) + Total(R, w) /\ Total(S, w) \in Int /\ Total(R, w) \in Int
  BY <1>1, <1>6, TotalUnion, TotalType
<1>8. Total(T, w) = Total(S, w) + Total(R, w)
  BY <1>1, <1>7
<1> QED
  BY <1>5, <1>7, <1>8

-----------------------------------------------------------------------------
(* A set in order: each element at its rank.                               *)

\* A strict order of all of S.
Orders(precedes, S) ==
  /\ \A x \in S : <<x, x>> \notin precedes
  /\ \A x, y \in S : x # y => <<x, y>> \in precedes \/ <<y, x>> \in precedes
  /\ \A x, y, z \in S : <<x, y>> \in precedes /\ <<y, z>> \in precedes => <<x, z>> \in precedes

\* An element for each element, and each only once: as many.
LEMMA SameCount ==
  ASSUME NEW S, IsFiniteSet(S), NEW T, NEW b \in Bijection(S, T)
  PROVE  IsFiniteSet(T) /\ Cardinality(T) = Cardinality(S) /\ Cardinality(S) \in Nat
BY FS_Bijection, FS_CardinalityType DEF ExistsBijection

\* What one bijection maps of a subset, as one of its own.
LEMMA BijectionPart ==
  ASSUME NEW S, NEW T, NEW b \in Bijection(S, T), NEW U \in SUBSET S, NEW V,
         \A y \in V : y \in T, \A x \in S : x \in U <=> b[x] \in V
  PROVE  [x \in U |-> b[x]] \in Bijection(U, V)
<1> DEFINE c == [x \in U |-> b[x]]
<1>1. b \in [S -> T] /\ (\A x, y \in S : b[x] = b[y] => x = y) /\ \A y \in T : \E x \in S : b[x] = y
  BY Fun_BijectionProperties
<1>2. c \in [U -> V] /\ \A x, y \in U : c[x] = c[y] => x = y
  BY <1>1
<1>3. \A y \in V : \E x \in U : c[x] = y
  BY <1>1
<1> HIDE DEF c
<1>4. c \in Bijection(U, V)
  BY <1>2, <1>3, Fun_IsBij
<1> QED
  BY <1>4 DEF c

\* In order, every element has a place of its own, and an earlier one comes before.
LEMMA InOrderIs ==
  ASSUME NEW S, IsFiniteSet(S), NEW precedes, Orders(precedes, S)
  PROVE  /\ Cardinality(S) \in Nat
         /\ DOMAIN InOrder(S, precedes) = 1 .. Cardinality(S)
         /\ InOrder(S, precedes) \in Bijection(1 .. Cardinality(S), S)
         /\ \A i, j \in 1 .. Cardinality(S) :
              i < j => <<InOrder(S, precedes)[i], InOrder(S, precedes)[j]>> \in precedes
<1> DEFINE Below(x) == {y \in S : <<y, x>> \in precedes}
           N == Cardinality(S)
           rank == [x \in S |-> Cardinality(Below(x)) + 1]
           f == InOrder(S, precedes)
<1>1. N \in Nat
  BY FS_CardinalityType
<1>2. ASSUME NEW x \in S
      PROVE  /\ IsFiniteSet(Below(x)) /\ Cardinality(Below(x)) \in Nat
             /\ Cardinality(Below(x)) < N /\ IsFiniteSet(Below(x) \cup {x})
             /\ Cardinality(Below(x) \cup {x}) = Cardinality(Below(x)) + 1
  <2>1. Below(x) \in SUBSET (S \ {x}) /\ x \notin Below(x)
    BY DEF Orders
  <2> HIDE DEF Below
  <2>2. IsFiniteSet(S \ {x}) /\ Cardinality(S \ {x}) = N - 1
    BY FS_RemoveElement
  <2>3. IsFiniteSet(Below(x)) /\ Cardinality(Below(x)) <= N - 1
    BY <2>1, <2>2, FS_Subset
  <2>4. Cardinality(Below(x)) \in Nat
    BY <2>3, FS_CardinalityType
  <2> QED
    BY <1>1, <2>1, <2>3, <2>4, FS_AddElement
<1>3. ASSUME NEW x \in S, NEW y \in S, <<x, y>> \in precedes
      PROVE  Cardinality(Below(x)) < Cardinality(Below(y))
  <2>1. Below(x) \cup {x} \in SUBSET Below(y)
    BY <1>3 DEF Orders
  <2>2. Cardinality(Below(x) \cup {x}) <= Cardinality(Below(y))
    <3>1. IsFiniteSet(Below(y))
      BY <1>2
    <3> HIDE DEF Below
    <3> QED
      BY <2>1, <3>1, FS_Subset
  <2>3. /\ Cardinality(Below(x) \cup {x}) = Cardinality(Below(x)) + 1
        /\ Cardinality(Below(x)) \in Nat /\ Cardinality(Below(y)) \in Nat
    BY <1>2
  <2> HIDE DEF Below
  <2> QED
    BY <2>2, <2>3
<1>4. \A x, y \in S : Cardinality(Below(x)) = Cardinality(Below(y)) => x = y
  <2>1. ASSUME NEW x \in S, NEW y \in S, Cardinality(Below(x)) = Cardinality(Below(y)), x # y
        PROVE  FALSE
    <3>1. <<x, y>> \in precedes \/ <<y, x>> \in precedes
      BY <2>1 DEF Orders
    <3>2. Cardinality(Below(x)) < Cardinality(Below(y)) \/ Cardinality(Below(y)) < Cardinality(Below(x))
      BY <1>3, <3>1
    <3>3. Cardinality(Below(x)) \in Nat
      BY <1>2
    <3> HIDE DEF Below
    <3> QED
      BY <2>1, <3>2, <3>3
  <2> QED
    BY <2>1
<1>5. f = [n \in 1 .. N |-> CHOOSE x \in S : Cardinality(Below(x)) = n - 1]
  BY DEF InOrder
<1> HIDE DEF Below, f
<1>6. rank \in [S -> 1 .. N] /\ \A x, y \in S : rank[x] = rank[y] => x = y
  <2>1. ASSUME NEW x \in S PROVE Cardinality(Below(x)) + 1 \in 1 .. N
    <3> DEFINE c == Cardinality(Below(x))
    <3>1. c \in Nat /\ c < N
      BY <1>2
    <3> HIDE DEF c, N
    <3>2. c + 1 \in 1 .. N
      BY <1>1, <3>1
    <3> QED
      BY <3>2 DEF c
  <2>2. ASSUME NEW x \in S, NEW y \in S, Cardinality(Below(x)) + 1 = Cardinality(Below(y)) + 1
        PROVE  x = y
    <3> DEFINE c == Cardinality(Below(x))
               d == Cardinality(Below(y))
    <3>1. c \in Nat /\ d \in Nat /\ c + 1 = d + 1
      BY <1>2, <2>2
    <3> HIDE DEF c, d
    <3>2. c = d
      BY <3>1
    <3> QED
      BY <1>4, <3>2 DEF c, d
  <2> QED
    BY <2>1, <2>2
<1>7. \A x \in S : rank[x] = Cardinality(Below(x)) + 1
  OBVIOUS
<1> HIDE DEF rank, N
<1>8. rank \in Injection(S, 1 .. N)
  BY <1>6, Fun_IsInj
<1>9. IsFiniteSet(1 .. N) /\ Cardinality(1 .. N) = N
  BY <1>1, FS_Interval
<1>10. rank \in Surjection(S, 1 .. N)
  BY <1>8, <1>9, FS_Injection DEF N
<1>11. \A n \in 1 .. N : \E x \in S : rank[x] = n
  BY <1>10, Fun_SurjectionProperties
<1>12. ASSUME NEW n \in 1 .. N PROVE f[n] \in S /\ Cardinality(Below(f[n])) = n - 1 /\ rank[f[n]] = n
  <2>1. \E x \in S : Cardinality(Below(x)) = n - 1
    <3>1. PICK x \in S : rank[x] = n
      BY <1>11
    <3> DEFINE c == Cardinality(Below(x))
    <3>2. c \in Nat /\ n = c + 1
      BY <1>2, <1>7, <3>1
    <3> HIDE DEF c
    <3>3. c = n - 1
      BY <3>2
    <3>4. Cardinality(Below(x)) = n - 1
      BY <3>3 DEF c
    <3> QED
      BY <3>4
  <2>2. f[n] = CHOOSE x \in S : Cardinality(Below(x)) = n - 1
    BY <1>5
  <2>3. f[n] \in S /\ Cardinality(Below(f[n])) = n - 1
    BY <2>1, <2>2
  <2> QED
    BY <1>1, <1>7, <2>3
<1>13. f \in [1 .. N -> S] /\ DOMAIN f = 1 .. N
  BY <1>5, <1>12
<1>14. \A i, j \in 1 .. N : f[i] = f[j] => i = j
  BY <1>12
<1>15. \A x \in S : \E n \in 1 .. N : f[n] = x
  <2>1. ASSUME NEW x \in S PROVE rank[x] \in 1 .. N /\ f[rank[x]] = x
    BY <1>6, <1>12
  <2> QED
    BY <2>1
<1>16. f \in Bijection(1 .. N, S)
  BY <1>13, <1>14, <1>15, Fun_IsBij
<1>17. ASSUME NEW i \in 1 .. N, NEW j \in 1 .. N, i < j PROVE <<f[i], f[j]>> \in precedes
  <2>1. f[i] \in S /\ f[j] \in S /\ f[i] # f[j]
    BY <1>12, <1>14, <1>17
  <2>2. ~(<<f[j], f[i]>> \in precedes)
    <3>1. ASSUME <<f[j], f[i]>> \in precedes PROVE FALSE
      <4>1. Cardinality(Below(f[j])) < Cardinality(Below(f[i]))
        BY <1>3, <2>1, <3>1
      <4> QED
        BY <1>1, <1>12, <1>17, <4>1
    <3> QED
      BY <3>1
  <2> QED
    BY <2>1, <2>2 DEF Orders
<1> QED
  BY <1>1, <1>13, <1>16, <1>17 DEF f, N

LEMMA AscendingIs ==
  ASSUME NEW S \in SUBSET Int, IsFiniteSet(S)
  PROVE  /\ Cardinality(S) \in Nat
         /\ DOMAIN Ascending(S) = 1 .. Cardinality(S)
         /\ Ascending(S) \in Bijection(1 .. Cardinality(S), S)
         /\ \A i \in 1 .. Cardinality(S) : Ascending(S)[i] \in S
         /\ \A i, j \in 1 .. Cardinality(S) : i < j => Ascending(S)[i] < Ascending(S)[j]
         /\ Len(Ascending(S)) = Cardinality(S)
<1> DEFINE precedes == {p \in S \X S : p[1] < p[2]}
<1>1. \A x, y \in S : <<x, y>> \in precedes <=> x < y
  OBVIOUS
<1> HIDE DEF precedes
<1>2. Orders(precedes, S)
  BY <1>1 DEF Orders
<1>3. Ascending(S) = InOrder(S, precedes)
  BY DEF Ascending, precedes
<1>4. /\ Cardinality(S) \in Nat
      /\ DOMAIN Ascending(S) = 1 .. Cardinality(S)
      /\ Ascending(S) \in Bijection(1 .. Cardinality(S), S)
      /\ \A i, j \in 1 .. Cardinality(S) : i < j => <<Ascending(S)[i], Ascending(S)[j]>> \in precedes
  BY <1>2, <1>3, InOrderIs
<1>5. Ascending(S) \in [1 .. Cardinality(S) -> S]
  BY <1>4, Fun_BijectionProperties
<1>6. Len(Ascending(S)) = Cardinality(S)
  BY <1>4, <1>5
<1> QED
  BY <1>1, <1>4, <1>5, <1>6

-----------------------------------------------------------------------------
(* Lines and entries.                                                      *)

EndOf(t, s) == Min({i - 1 : i \in {j \in Newlines(t) : j >= s}} \cup {Len(t)})
LineAt(t, s) == SubSeq(t, s, EndOf(t, s))
Says(t, n) == Verdict(Lines(t)[n], n = Len(Lines(t)) /\ ~Terminated(t))
GoodLines(t) == {n \in DOMAIN Lines(t) : Says(t, n) = "entry"}
BadLines(t) == {n \in DOMAIN Lines(t) : Says(t, n) # "entry"}

LEMMA StartsAre ==
  ASSUME NEW t \in Seq(Units)
  PROVE  /\ Len(t) \in Nat /\ Newlines(t) \in SUBSET (1 .. Len(t)) /\ IsFiniteSet(Newlines(t))
         /\ Starts(t) \in SUBSET (1 .. Len(t)) /\ IsFiniteSet(Starts(t))
         /\ \A s : s \in Starts(t) <=> s \in 1 .. Len(t) /\ (s = 1 \/ t[s - 1] = NL)
<1>1. Len(t) \in Nat
  OBVIOUS
<1>2. Newlines(t) \in SUBSET (1 .. Len(t))
  BY DEF Newlines
<1>3. ASSUME NEW s PROVE s \in Starts(t) <=> s \in 1 .. Len(t) /\ (s = 1 \/ t[s - 1] = NL)
  <2>1. ASSUME s \in Starts(t) PROVE s \in 1 .. Len(t) /\ (s = 1 \/ t[s - 1] = NL)
    <3>1. CASE s = 1
      <4>1. Len(t) # 0
        BY <2>1, <3>1, <1>1 DEF Starts
      <4> QED
        BY <1>1, <3>1, <4>1
    <3>2. CASE s # 1
      <4>1. PICK i \in Newlines(t) : s = i + 1 /\ s # Len(t) + 1
        BY <2>1, <3>2 DEF Starts
      <4>2. i \in 1 .. Len(t) /\ t[i] = NL
        BY <4>1 DEF Newlines
      <4>3. s - 1 = i /\ s \in 1 .. Len(t)
        BY <1>1, <4>1, <4>2
      <4> QED
        BY <4>2, <4>3
    <3> QED
      BY <3>1, <3>2
  <2>2. ASSUME s \in 1 .. Len(t), s = 1 \/ t[s - 1] = NL PROVE s \in Starts(t)
    <3>1. s # Len(t) + 1
      BY <1>1, <2>2
    <3>2. CASE s = 1
      BY <3>1, <3>2 DEF Starts
    <3>3. CASE s # 1
      <4>1. s - 1 \in 1 .. Len(t) /\ s = (s - 1) + 1
        BY <1>1, <2>2, <3>3
      <4>2. s - 1 \in Newlines(t)
        BY <2>2, <3>3, <4>1 DEF Newlines
      <4> QED
        BY <3>1, <4>1, <4>2 DEF Starts
    <3> QED
      BY <3>2, <3>3
  <2> QED
    BY <2>1, <2>2
<1>4. IsFiniteSet(1 .. Len(t))
  BY <1>1, FS_Interval
<1>5. Starts(t) \in SUBSET (1 .. Len(t))
  BY <1>3
<1>6. IsFiniteSet(Newlines(t)) /\ IsFiniteSet(Starts(t))
  BY <1>2, <1>4, <1>5, FS_Subset
<1> QED
  BY <1>1, <1>2, <1>3, <1>5, <1>6

LEMMA EndIs ==
  ASSUME NEW t \in Seq(Units), NEW s \in Starts(t)
  PROVE  /\ EndOf(t, s) \in Nat /\ s - 1 <= EndOf(t, s) /\ EndOf(t, s) <= Len(t)
         /\ EndOf(t, s) = Len(t) \/ (EndOf(t, s) + 1 \in 1 .. Len(t) /\ t[EndOf(t, s) + 1] = NL)
         /\ \A i \in 1 .. Len(t) : i >= s /\ t[i] = NL => EndOf(t, s) < i
<1> DEFINE M == {i - 1 : i \in {j \in Newlines(t) : j >= s}} \cup {Len(t)}
           e == EndOf(t, s)
<1>1. Len(t) \in Nat /\ s \in 1 .. Len(t)
  BY StartsAre
<1>2. \A i : i \in Newlines(t) <=> i \in 1 .. Len(t) /\ t[i] = NL
  BY DEF Newlines
<1>3. \A x : x \in M <=> x = Len(t) \/ \E i \in 1 .. Len(t) : t[i] = NL /\ i >= s /\ x = i - 1
  BY <1>2
<1>4. e = Min(M)
  BY DEF EndOf
<1> HIDE DEF M, e
<1>5. \A x \in M : x \in Nat /\ s - 1 <= x /\ x <= Len(t)
  BY <1>1, <1>3
<1>6. M \in SUBSET Nat /\ M # {}
  BY <1>3, <1>5
<1>7. e \in M /\ \A x \in M : e <= x
  BY <1>4, <1>6, MinOf
<1>8. e \in Nat /\ s - 1 <= e /\ e <= Len(t)
  BY <1>5, <1>7
<1>9. e = Len(t) \/ (e + 1 \in 1 .. Len(t) /\ t[e + 1] = NL)
  <2>1. CASE e # Len(t)
    <3>1. PICK i \in 1 .. Len(t) : t[i] = NL /\ e = i - 1
      BY <1>3, <1>7, <2>1
    <3>2. e + 1 = i
      BY <1>1, <3>1
    <3> QED
      BY <3>1, <3>2
  <2> QED
    BY <2>1
<1>10. ASSUME NEW i \in 1 .. Len(t), i >= s, t[i] = NL PROVE e < i
  <2>1. i - 1 \in M
    BY <1>3, <1>10
  <2>2. e <= i - 1
    BY <1>7, <2>1
  <2> QED
    BY <1>1, <1>8, <2>2
<1> QED
  BY <1>8, <1>9, <1>10 DEF e

\* Two units of a text next to each other.
LEMMA PairIs ==
  ASSUME NEW t \in Seq(Units), NEW i \in 1 .. Len(t), i + 1 <= Len(t), NEW d
  PROVE  SubSeq(t, i, i + 1) = Written(d) <=> t[i] = Part(d, 1) /\ t[i + 1] = Part(d, 2)
<1> DEFINE r == SubSeq(t, i, i + 1)
           w == Written(d)
<1>1. Len(t) \in Nat
  OBVIOUS
<1>2. r \in Seq(Units) /\ Len(r) = 2 /\ r[1] = t[i] /\ r[2] = t[i + 1]
  BY <1>1
<1>3. w = <<Part(d, 1), Part(d, 2)>>
  BY DEF Written
<1>4. w[1] = Part(d, 1) /\ w[2] = Part(d, 2)
  BY <1>3
<1> HIDE DEF r, w
<1>5. r = <<r[1], r[2]>>
  BY <1>2
<1>6. r = w <=> r[1] = w[1] /\ r[2] = w[2]
  BY <1>3, <1>4, <1>5
<1> QED
  BY <1>2, <1>4, <1>6 DEF r, w

\* A line of a text is a document where its two parts are, and nothing else.
LEMMA LineIs ==
  ASSUME NEW t \in Seq(Units), NEW s \in Starts(t), NEW d \in Doc
  PROVE  /\ LineAt(t, s) = Written(d) <=>
              /\ s \in 1 .. Len(t) - 1 /\ SubSeq(t, s, s + 1) = Written(d)
              /\ s + 1 = Len(t) \/ t[s + 2] = NL
         /\ LineAt(t, s) = Written(d) => LineAt(t, s)[1].doc = d /\ t[s].doc = d
<1> DEFINE e == EndOf(t, s)
<1>1. Len(t) \in Nat /\ s \in 1 .. Len(t)
  BY StartsAre
<1>2. /\ e \in Nat /\ s - 1 <= e /\ e <= Len(t)
      /\ e = Len(t) \/ (e + 1 \in 1 .. Len(t) /\ t[e + 1] = NL)
      /\ \A i \in 1 .. Len(t) : i >= s /\ t[i] = NL => e < i
  BY EndIs
<1>3. LineAt(t, s) = SubSeq(t, s, e)
  BY DEF LineAt
<1>4. /\ Written(d) \in Seq(Units) /\ Len(Written(d)) = 2
      /\ Written(d)[1] = Part(d, 1) /\ Written(d)[2] = Part(d, 2)
  BY UnitTypes DEF Written
<1> HIDE DEF e
<1>5. ASSUME LineAt(t, s) = Written(d)
      PROVE  /\ s \in 1 .. Len(t) - 1 /\ SubSeq(t, s, s + 1) = Written(d)
             /\ s + 1 = Len(t) \/ t[s + 2] = NL
             /\ t[s] = Part(d, 1)
  <2>1. Len(SubSeq(t, s, e)) = 2
    BY <1>3, <1>4, <1>5
  <2>2. e = s + 1
    <3>1. s <= e => Len(SubSeq(t, s, e)) = e - s + 1
      BY <1>1, <1>2
    <3>2. ~(s <= e) => Len(SubSeq(t, s, e)) = 0
      BY <1>1, <1>2
    <3> QED
      BY <1>1, <1>2, <2>1, <3>1, <3>2
  <2>3. SubSeq(t, s, s + 1) = Written(d) /\ s + 1 <= Len(t)
    BY <1>2, <1>3, <1>5, <2>2
  <2>4. (s + 1) + 1 = s + 2 /\ s \in 1 .. Len(t) - 1
    BY <1>1, <2>3
  <2>5. s + 1 = Len(t) \/ t[s + 2] = NL
    BY <1>2, <2>2, <2>4
  <2> QED
    BY <1>1, <2>3, <2>4, <2>5, PairIs
<1>6. ASSUME s \in 1 .. Len(t) - 1, SubSeq(t, s, s + 1) = Written(d), s + 1 = Len(t) \/ t[s + 2] = NL
      PROVE  LineAt(t, s) = Written(d)
  <2>1. s + 1 <= Len(t)
    BY <1>1, <1>6
  <2>2. t[s] = Part(d, 1) /\ t[s + 1] = Part(d, 2)
    BY <1>1, <1>6, <2>1, PairIs
  <2>3. t[s] # NL /\ t[s + 1] # NL
    BY <2>2, PartTags
  <2>4. e >= s + 1
    <3>1. ASSUME ~(e >= s + 1) PROVE FALSE
      <4>1. e + 1 = s \/ e + 1 = s + 1
        BY <1>1, <1>2, <3>1
      <4>2. e # Len(t)
        BY <1>1, <1>2, <2>1, <3>1
      <4> QED
        BY <1>2, <2>3, <4>1, <4>2
    <3> QED
      BY <3>1
  <2>5. e <= s + 1
    <3>1. CASE s + 1 = Len(t)
      BY <1>2, <3>1
    <3>2. CASE s + 1 # Len(t)
      <4>1. s + 2 \in 1 .. Len(t) /\ s + 2 >= s /\ t[s + 2] = NL
        BY <1>1, <1>6, <2>1, <3>2
      <4>2. e < s + 2
        BY <1>2, <4>1
      <4> QED
        BY <1>1, <1>2, <4>2
    <3> QED
      BY <3>1, <3>2
  <2>6. e = s + 1
    BY <1>1, <1>2, <2>4, <2>5
  <2> QED
    BY <1>3, <1>6, <2>6
<1>7. ASSUME LineAt(t, s) = Written(d) PROVE LineAt(t, s)[1].doc = d /\ t[s].doc = d
  <2>1. Part(d, 1).doc = d
    BY DEF Part
  <2> QED
    BY <1>4, <1>5, <1>7, <2>1
<1> QED
  BY <1>5, <1>6, <1>7

\* The complete entries are where a line is an entry.
LEMMA EntriesAtAre ==
  ASSUME NEW t \in Seq(Units)
  PROVE  \A s : s \in EntriesAt(t) <=>
           s \in Starts(t) /\ \E d \in Doc : LineAt(t, s) = Written(d) /\ Kind[d] = "entry"
<1> SUFFICES ASSUME NEW s
             PROVE  s \in EntriesAt(t) <=>
                      s \in Starts(t) /\ \E d \in Doc : LineAt(t, s) = Written(d) /\ Kind[d] = "entry"
  OBVIOUS
<1>1. s \in EntriesAt(t) <=>
        s \in 1 .. Len(t) - 1 /\ (s = 1 \/ t[s - 1] = NL) /\ \E d \in Doc :
          /\ Kind[d] = "entry" /\ SubSeq(t, s, s + 1) = Written(d)
          /\ s + 1 = Len(t) \/ t[s + 2] = NL
  BY DEF EntriesAt
<1>2. Len(t) \in Nat /\ (s \in 1 .. Len(t) - 1 => s \in 1 .. Len(t))
  OBVIOUS
<1>3. s \in Starts(t) <=> s \in 1 .. Len(t) /\ (s = 1 \/ t[s - 1] = NL)
  BY StartsAre
<1>4. CASE s \in Starts(t)
  <2>1. \A d \in Doc : LineAt(t, s) = Written(d) <=>
              /\ s \in 1 .. Len(t) - 1 /\ SubSeq(t, s, s + 1) = Written(d)
              /\ s + 1 = Len(t) \/ t[s + 2] = NL
    BY <1>4, LineIs
  <2> QED
    BY <1>1, <1>3, <1>4, <2>1
<1>5. CASE s \notin Starts(t)
  BY <1>1, <1>2, <1>3, <1>5
<1> QED
  BY <1>4, <1>5

\* Where the lines are.
LEMMA LinesAre ==
  ASSUME NEW t \in Seq(Units)
  PROVE  /\ Cardinality(Starts(t)) \in Nat
         /\ DOMAIN Lines(t) = 1 .. Cardinality(Starts(t)) /\ Len(Lines(t)) = Cardinality(Starts(t))
         /\ Ascending(Starts(t)) \in Bijection(1 .. Cardinality(Starts(t)), Starts(t))
         /\ \A n \in 1 .. Cardinality(Starts(t)) :
              /\ Ascending(Starts(t))[n] \in Starts(t)
              /\ Lines(t)[n] = LineAt(t, Ascending(Starts(t))[n])
<1> DEFINE S == Starts(t)
           start == Ascending(S)
           N == Cardinality(S)
<1>1. S \in SUBSET Int /\ IsFiniteSet(S)
  BY StartsAre
<1> HIDE DEF S
<1>2. /\ N \in Nat /\ DOMAIN start = 1 .. N /\ start \in Bijection(1 .. N, S) /\ Len(start) = N
      /\ \A n \in 1 .. N : start[n] \in S
  BY <1>1, AscendingIs
<1>3. Lines(t) = [n \in 1 .. Len(start) |-> LineAt(t, start[n])]
  BY DEF Lines, LineAt, EndOf, S
<1> HIDE DEF start, N
<1>4. DOMAIN Lines(t) = 1 .. N /\ \A n \in 1 .. N : Lines(t)[n] = LineAt(t, start[n])
  BY <1>2, <1>3
<1>5. Len(Lines(t)) = N
  BY <1>2, <1>3, <1>4
<1> QED
  BY <1>2, <1>4, <1>5 DEF start, N, S

LEMMA VerdictIs ==
  ASSUME NEW line, NEW tail
  PROVE  /\ Verdict(line, tail) = "entry" <=> \E d \in Doc : line = Written(d) /\ Kind[d] = "entry"
         /\ Verdict(line, tail) = "partial_line" => tail
BY DEF Verdict

\* Where the entries of a text are, in the order of its lines.
Places(t) == [k \in 1 .. Cardinality(GoodLines(t)) |-> Ascending(Starts(t))[Ascending(GoodLines(t))[k]]]

LEMMA GoodLinesAre ==
  ASSUME NEW t \in Seq(Units)
  PROVE  /\ IsFiniteSet(GoodLines(t)) /\ IsFiniteSet(BadLines(t))
         /\ GoodLines(t) \cup BadLines(t) = 1 .. Cardinality(Starts(t))
         /\ GoodLines(t) \cap BadLines(t) = {}
         /\ GoodLines(t) \in SUBSET Int /\ BadLines(t) \in SUBSET Int
<1>1. DOMAIN Lines(t) = 1 .. Cardinality(Starts(t)) /\ Cardinality(Starts(t)) \in Nat
  BY LinesAre
<1>2. IsFiniteSet(1 .. Cardinality(Starts(t)))
  BY <1>1, FS_Interval
<1>3. GoodLines(t) \in SUBSET (1 .. Cardinality(Starts(t))) /\ BadLines(t) \in SUBSET (1 .. Cardinality(Starts(t)))
  BY <1>1 DEF GoodLines, BadLines
<1>4. GoodLines(t) \cup BadLines(t) = 1 .. Cardinality(Starts(t)) /\ GoodLines(t) \cap BadLines(t) = {}
  BY <1>1 DEF GoodLines, BadLines
<1>5. IsFiniteSet(GoodLines(t)) /\ IsFiniteSet(BadLines(t))
  BY <1>2, <1>3, FS_Subset
<1> QED
  BY <1>3, <1>4, <1>5

LEMMA ReadLinesAre ==
  ASSUME NEW t \in Seq(Units)
  PROVE  LET kept == Min({Len(Ascending(BadLines(t))), MAX_SKIPPED_LINES})
         IN /\ ReadLines(t).entries =
                 [k \in DOMAIN Ascending(GoodLines(t)) |-> Lines(t)[Ascending(GoodLines(t))[k]][1].doc]
            /\ ReadLines(t).skipped =
                 [k \in 1 .. kept |->
                   [lineNo |-> Ascending(BadLines(t))[k], reason |-> Says(t, Ascending(BadLines(t))[k])]]
            /\ ReadLines(t).omitted = Len(Ascending(BadLines(t))) - kept
BY DEF ReadLines, GoodLines, BadLines, Says

\* read_ledger's entries are those of the text, one for each.
LEMMA EntriesAre ==
  ASSUME NEW t \in Seq(Units)
  PROVE  /\ Cardinality(GoodLines(t)) \in Nat
         /\ DOMAIN ReadLines(t).entries = 1 .. Cardinality(GoodLines(t))
         /\ Len(ReadLines(t).entries) = Cardinality(GoodLines(t))
         /\ Places(t) \in Bijection(1 .. Cardinality(GoodLines(t)), EntriesAt(t))
         /\ \A k \in 1 .. Cardinality(GoodLines(t)) :
              /\ ReadLines(t).entries[k] = t[Places(t)[k]].doc
              /\ ReadLines(t).entries[k] \in Doc /\ Kind[ReadLines(t).entries[k]] = "entry"
              /\ Places(t)[k] \in EntriesAt(t)
<1> DEFINE G == GoodLines(t)
           good == Ascending(G)
           M == Cardinality(G)
           N == Cardinality(Starts(t))
           start == Ascending(Starts(t))
           entries == ReadLines(t).entries
           part == [n \in G |-> start[n]]
<1>1. /\ N \in Nat /\ DOMAIN Lines(t) = 1 .. N /\ start \in Bijection(1 .. N, Starts(t))
      /\ \A n \in 1 .. N : start[n] \in Starts(t) /\ Lines(t)[n] = LineAt(t, start[n])
  BY LinesAre
<1>2. IsFiniteSet(G) /\ G \in SUBSET (1 .. N) /\ G \in SUBSET Int
  BY GoodLinesAre
<1>3. \A n \in 1 .. N : n \in G <=> \E d \in Doc : Lines(t)[n] = Written(d) /\ Kind[d] = "entry"
  BY <1>1, VerdictIs DEF GoodLines, Says
<1>4. entries = [k \in DOMAIN good |-> Lines(t)[good[k]][1].doc]
  BY ReadLinesAre
<1> HIDE DEF G, N, start, entries
<1>5. /\ M \in Nat /\ DOMAIN good = 1 .. M /\ good \in Bijection(1 .. M, G)
      /\ \A k \in 1 .. M : good[k] \in G
  BY <1>2, AscendingIs
<1> HIDE DEF M, good
<1>6. \A n \in 1 .. N : n \in G <=> start[n] \in EntriesAt(t)
  BY <1>1, <1>3, EntriesAtAre
<1>7. EntriesAt(t) \in SUBSET Starts(t)
  BY EntriesAtAre
<1>8. part \in Bijection(G, EntriesAt(t))
  BY <1>1, <1>2, <1>6, <1>7, BijectionPart
<1> HIDE DEF part
<1>9. [k \in 1 .. M |-> part[good[k]]] \in Bijection(1 .. M, EntriesAt(t))
  BY <1>5, <1>8, Fun_BijTransitive
<1>10. Places(t) = [k \in 1 .. M |-> part[good[k]]]
  <2>1. Places(t) = [k \in 1 .. M |-> start[good[k]]]
    BY DEF Places, M, good, G, start
  <2>2. \A k \in 1 .. M : part[good[k]] = start[good[k]]
    BY <1>5 DEF part
  <2> QED
    BY <2>1, <2>2
<1>11. \A k \in 1 .. M : Places(t)[k] = start[good[k]] /\ Places(t)[k] \in EntriesAt(t)
  BY <1>2, <1>5, <1>6, <1>10 DEF part
<1>12. ASSUME NEW k \in 1 .. M
       PROVE  entries[k] = t[Places(t)[k]].doc /\ entries[k] \in Doc /\ Kind[entries[k]] = "entry"
  <2> DEFINE n == good[k]
             s == start[n]
  <2>1. n \in 1 .. N /\ n \in G /\ s \in Starts(t)
    BY <1>1, <1>2, <1>5
  <2>2. PICK d \in Doc : Lines(t)[n] = Written(d) /\ Kind[d] = "entry"
    BY <1>3, <2>1
  <2>3. LineAt(t, s) = Written(d) /\ entries[k] = LineAt(t, s)[1].doc
    BY <1>1, <1>4, <1>5, <2>1, <2>2
  <2>4. Places(t)[k] = s
    BY <1>11
  <2> HIDE DEF n, s
  <2>5. LineAt(t, s)[1].doc = d /\ t[s].doc = d
    BY <2>1, <2>3, LineIs
  <2> QED
    BY <2>2, <2>3, <2>4, <2>5
<1>13. DOMAIN entries = 1 .. M /\ Len(entries) = M
  BY <1>4, <1>5
<1> QED
  BY <1>5, <1>9, <1>10, <1>11, <1>12, <1>13 DEF M, entries, G

LEMMA EntriesFinite ==
  ASSUME NEW t \in Seq(Units)
  PROVE  /\ IsFiniteSet(EntriesAt(t)) /\ Cardinality(EntriesAt(t)) \in Nat
         /\ Len(ReadLines(t).entries) = Cardinality(EntriesAt(t))
<1> DEFINE M == Cardinality(GoodLines(t))
<1>1. M \in Nat /\ Places(t) \in Bijection(1 .. M, EntriesAt(t)) /\ Len(ReadLines(t).entries) = M
  BY EntriesAre
<1> HIDE DEF M
<1>2. IsFiniteSet(1 .. M) /\ Cardinality(1 .. M) = M
  BY <1>1, FS_Interval
<1> QED
  BY <1>1, <1>2, SameCount

LEMMA CostIs ==
  ASSUME NEW d \in Doc
  PROVE  /\ Cost[d] \in Int /\ Level[d] \in Nat /\ Ids[d] \in Seq(Nat)
         /\ ByModel[d] \in Seq([key : Nat, cost : Int])
         /\ Model[d] # NoModel => Model[d] \in Nat
BY CalcAssumption

LEMMA EntriesTyped ==
  ASSUME NEW t \in Seq(Units)
  PROVE  ReadLines(t).entries \in Seq(Doc)
<1>1. ReadLines(t).entries = [k \in DOMAIN Ascending(GoodLines(t)) |-> ReadLines(t).entries[k]]
  BY ReadLinesAre
<1>2. /\ DOMAIN ReadLines(t).entries = 1 .. Cardinality(GoodLines(t)) /\ Cardinality(GoodLines(t)) \in Nat
      /\ \A k \in 1 .. Cardinality(GoodLines(t)) : ReadLines(t).entries[k] \in Doc
  BY EntriesAre
<1> QED
  BY <1>1, <1>2

LevelParts(e) == [i \in DOMAIN e |-> [key |-> Level[e[i]], cost |-> Cost[e[i]]]]

\* The total of the bill.
LEMMA BillTotal ==
  ASSUME NEW e \in Seq(Doc)
  PROVE  /\ Aggregate(e).cost = Total(DOMAIN e, [i \in DOMAIN e |-> Cost[e[i]]])
         /\ Aggregate(e).entries = Len(e)
<1> DEFINE parts == LevelParts(e)
<1>1. Aggregate(e).cost = SumOf(parts) /\ Aggregate(e).entries = Len(e)
  BY DEF Aggregate, LevelParts
<1>2. DOMAIN parts = DOMAIN e /\ \A i \in DOMAIN e : parts[i].cost = Cost[e[i]] /\ Cost[e[i]] \in Int
  BY CostIs DEF LevelParts
<1>3. IsFiniteSet(DOMAIN e)
  <2>1. DOMAIN e = 1 .. Len(e) /\ Len(e) \in Nat
    OBVIOUS
  <2> QED
    BY <2>1, FS_Interval
<1> HIDE DEF parts
<1>4. SumOf(parts) = Total(DOMAIN e, [i \in DOMAIN e |-> parts[i].cost])
  BY <1>2, <1>3, SumOverIs DEF SumOf
<1>5. [i \in DOMAIN e |-> parts[i].cost] = [i \in DOMAIN e |-> Cost[e[i]]]
  BY <1>2
<1> QED
  BY <1>1, <1>4, <1>5

\* It is the bill of the text.
LEMMA BillOfText ==
  ASSUME NEW t \in Seq(Units)
  PROVE  /\ Aggregate(ReadLines(t).entries).cost = BillOf(t)
         /\ Aggregate(ReadLines(t).entries).entries = Cardinality(EntriesAt(t))
         /\ BillOf(t) = Total(EntriesAt(t), [i \in EntriesAt(t) |-> Cost[t[i].doc]])
         /\ \A i \in EntriesAt(t) : t[i].doc \in Doc /\ Kind[t[i].doc] = "entry" /\ Cost[t[i].doc] \in Int
<1> DEFINE e == ReadLines(t).entries
           M == Cardinality(GoodLines(t))
           at == EntriesAt(t)
           w == [i \in 1 .. M |-> Cost[e[i]]]
           v == [i \in at |-> Cost[t[i].doc]]
           b == Places(t)
<1>1. e \in Seq(Doc) /\ IsFiniteSet(at) /\ Len(e) = Cardinality(at)
  BY EntriesTyped, EntriesFinite
<1>2. /\ M \in Nat /\ DOMAIN e = 1 .. M /\ b \in Bijection(1 .. M, at)
      /\ \A k \in 1 .. M : e[k] = t[b[k]].doc /\ e[k] \in Doc /\ Kind[e[k]] = "entry" /\ b[k] \in at
  BY EntriesAre
<1>3. Aggregate(e).cost = Total(DOMAIN e, [i \in DOMAIN e |-> Cost[e[i]]]) /\ Aggregate(e).entries = Len(e)
  BY <1>1, BillTotal
<1> HIDE DEF e, M, b
<1>4. \A i \in at : \E k \in 1 .. M : b[k] = i
  BY <1>2, Fun_BijectionProperties
<1>5. \A i \in at : t[i].doc \in Doc /\ Kind[t[i].doc] = "entry" /\ Cost[t[i].doc] \in Int
  <2>1. ASSUME NEW i \in at PROVE t[i].doc \in Doc /\ Kind[t[i].doc] = "entry"
    BY <1>2, <1>4
  <2> QED
    BY <2>1, CostIs
<1>6. BillOf(t) = Total(at, v)
  BY <1>1, <1>5, CostsAre DEF BillOf
<1>7. IsFiniteSet(1 .. M)
  BY <1>2, FS_Interval
<1>8. \A k \in 1 .. M : w[k] = v[b[k]]
  BY <1>2
<1>9. \A i \in at : v[i] \in Int
  BY <1>5
<1> HIDE DEF at
<1>10. Total(1 .. M, w) = Total(at, v)
  <2> HIDE DEF w, v
  <2> QED
    BY <1>2, <1>7, <1>8, <1>9, TotalRenamed
<1>11. Total(DOMAIN e, [i \in DOMAIN e |-> Cost[e[i]]]) = Total(1 .. M, w)
  BY <1>2
<1>12. Aggregate(e).cost = BillOf(t) /\ Aggregate(e).entries = Cardinality(at)
  BY <1>1, <1>3, <1>6, <1>10, <1>11
<1> QED
  BY <1>5, <1>6, <1>12 DEF e, at

LineCount(t) == Cardinality(Newlines(t)) + IF t = <<>> \/ Terminated(t) THEN 0 ELSE 1

\* A line more than newlines, but for the empty one that a last newline leaves.
LEMMA StartsCount ==
  ASSUME NEW t \in Seq(Units)
  PROVE  Cardinality(Starts(t)) = LineCount(t)
<1> DEFINE N == Newlines(t)
           after == {i + 1 : i \in N}
           b == [i \in N |-> i + 1]
           end == Len(t) + 1
<1>1. Len(t) \in Nat /\ N \in SUBSET (1 .. Len(t)) /\ IsFiniteSet(N)
  BY StartsAre
<1>2. Terminated(t) <=> end \in after
  <2>1. t # <<>> <=> Len(t) # 0
    BY <1>1
  <2>2. \A i : i \in N <=> i \in 1 .. Len(t) /\ t[i] = NL
    BY DEF Newlines
  <2>3. end \in after <=> Len(t) \in N
    BY <1>1
  <2> QED
    BY <1>1, <2>1, <2>2, <2>3 DEF Terminated
<1>3. 1 \notin after
  BY <1>1
<1>4. b \in Bijection(N, after)
  <2>1. b \in [N -> after] /\ (\A i, j \in N : b[i] = b[j] => i = j) /\ \A y \in after : \E i \in N : b[i] = y
    BY <1>1
  <2> HIDE DEF b, after
  <2> QED
    BY <2>1, Fun_IsBij
<1>5. Starts(t) = ({1} \cup after) \ {end}
  BY DEF Starts
<1>6. t = <<>> <=> end = 1
  BY <1>1
<1>7. ~(t = <<>> /\ Terminated(t))
  BY DEF Terminated
<1> HIDE DEF N, after, b
<1>8. IsFiniteSet(after) /\ Cardinality(after) = Cardinality(N) /\ Cardinality(N) \in Nat
  BY <1>1, <1>4, SameCount
<1> DEFINE all == after \cup {1}
<1>9. IsFiniteSet(all) /\ Cardinality(all) = Cardinality(N) + 1
  BY <1>3, <1>8, FS_AddElement
<1>10. end \in all <=> t = <<>> \/ Terminated(t)
  BY <1>2, <1>6
<1> HIDE DEF end
<1>11. Starts(t) = all \ {end}
  BY <1>5
<1> HIDE DEF all
<1>12. Cardinality(Starts(t)) = IF end \in all THEN Cardinality(all) - 1 ELSE Cardinality(all)
  BY <1>9, <1>11, FS_RemoveElement
<1> QED
  BY <1>8, <1>9, <1>10, <1>12 DEF LineCount, N

LEMMA LinesAccounted ==
  ASSUME NEW t \in Seq(Units)
  PROVE  LET r == ReadLines(t)
         IN /\ Len(r.entries) + Len(r.skipped) + r.omitted = LineCount(t)
            /\ Len(r.skipped) <= MAX_SKIPPED_LINES
            /\ \A k \in DOMAIN r.skipped :
                 /\ k > 1 => r.skipped[k].lineNo > r.skipped[k - 1].lineNo
                 /\ r.skipped[k].reason = "partial_line" =>
                      r.skipped[k].lineNo = LineCount(t) /\ ~Terminated(t)
<1> DEFINE r == ReadLines(t)
           G == GoodLines(t)
           B == BadLines(t)
           bad == Ascending(B)
           kept == Min({Len(bad), MAX_SKIPPED_LINES})
           N == Cardinality(Starts(t))
<1>1. /\ r.skipped = [k \in 1 .. kept |-> [lineNo |-> bad[k], reason |-> Says(t, bad[k])]]
      /\ r.omitted = Len(bad) - kept
  BY ReadLinesAre
<1>2. Len(r.entries) = Cardinality(G) /\ Cardinality(G) \in Nat
  BY EntriesAre
<1>3. /\ IsFiniteSet(G) /\ IsFiniteSet(B) /\ G \cup B = 1 .. N /\ G \cap B = {}
      /\ B \in SUBSET Int
  BY GoodLinesAre
<1>4. N \in Nat /\ Len(Lines(t)) = N /\ N = LineCount(t)
  BY LinesAre, StartsCount
<1> HIDE DEF r, G, B, N
<1>5. Cardinality(G) + Cardinality(B) = N
  <2>1. Cardinality(G \cup B) = Cardinality(G) + Cardinality(B) - Cardinality(G \cap B)
    BY <1>3, FS_Union
  <2>2. Cardinality(G \cup B) = N /\ Cardinality(G \cap B) = 0
    <3>1. Cardinality(1 .. N) = N
      BY <1>4, FS_Interval
    <3> QED
      BY <1>3, <3>1, FS_EmptySet
  <2>3. Cardinality(B) \in Nat
    BY <1>3, FS_CardinalityType
  <2> QED
    BY <1>2, <1>4, <2>1, <2>2, <2>3
<1>6. /\ Len(bad) = Cardinality(B) /\ Cardinality(B) \in Nat
      /\ \A i \in 1 .. Cardinality(B) : bad[i] \in B
      /\ \A i, j \in 1 .. Cardinality(B) : i < j => bad[i] < bad[j]
  BY <1>3, AscendingIs
<1> HIDE DEF bad
<1>7. kept \in Nat /\ kept <= Cardinality(B) /\ kept <= MAX_SKIPPED_LINES
  BY <1>6, MinIs, CalcAssumption
<1> HIDE DEF kept
<1>8. /\ Len(r.skipped) = kept /\ DOMAIN r.skipped = 1 .. kept
      /\ \A k \in 1 .. kept : r.skipped[k].lineNo = bad[k] /\ r.skipped[k].reason = Says(t, bad[k])
  BY <1>1, <1>7
<1>9. Len(r.entries) + Len(r.skipped) + r.omitted = LineCount(t)
  BY <1>1, <1>2, <1>4, <1>5, <1>6, <1>7, <1>8
<1>10. ASSUME NEW k \in 1 .. kept, k > 1 PROVE r.skipped[k].lineNo > r.skipped[k - 1].lineNo
  <2>1. k - 1 \in 1 .. kept /\ k - 1 \in 1 .. Cardinality(B) /\ k \in 1 .. Cardinality(B) /\ k - 1 < k
    BY <1>6, <1>7, <1>10
  <2>2. bad[k - 1] < bad[k] /\ bad[k - 1] \in Int /\ bad[k] \in Int
    BY <1>3, <1>6, <2>1
  <2> QED
    BY <1>8, <2>1, <2>2
<1>11. ASSUME NEW k \in 1 .. kept, r.skipped[k].reason = "partial_line"
       PROVE  r.skipped[k].lineNo = LineCount(t) /\ ~Terminated(t)
  <2>1. Says(t, bad[k]) = "partial_line"
    BY <1>8, <1>11
  <2>2. bad[k] = Len(Lines(t)) /\ ~Terminated(t)
    BY <2>1, VerdictIs DEF Says
  <2> QED
    BY <1>4, <1>8, <2>2
<1> QED
  BY <1>7, <1>8, <1>9, <1>10, <1>11 DEF r

-----------------------------------------------------------------------------
(* A sequence of sequences, and all its elements one after the other.      *)

Pairs(ss) == {p \in (DOMAIN ss) \X Nat : p[2] \in DOMAIN ss[p[1]]}
PairsTo(ss, n) == {p \in Pairs(ss) : p[1] <= n}
\* s has the elements of the first n sequences.
Lists(s, ss, n) ==
  \E b \in Bijection(PairsTo(ss, n), 1 .. Len(s)) :
    \A p \in PairsTo(ss, n) : s[b[p]] = ss[p[1]][p[2]]
Flattens(f, ss, n) == f = [i \in 1 .. n |-> IF i = 1 THEN ss[i] ELSE f[i - 1] \o ss[i]]

LEMMA PairsAre ==
  ASSUME NEW V, NEW ss \in Seq(Seq(V))
  PROVE  /\ \A i, k : <<i, k>> \in Pairs(ss) <=> i \in 1 .. Len(ss) /\ k \in 1 .. Len(ss[i])
         /\ \A p \in Pairs(ss) : /\ p[1] \in 1 .. Len(ss) /\ p[2] \in 1 .. Len(ss[p[1]])
                                 /\ p = <<p[1], p[2]>>
         /\ \A i \in 1 .. Len(ss) : ss[i] \in Seq(V) /\ Len(ss[i]) \in Nat
         /\ Len(ss) \in Nat
<1>1. /\ Len(ss) \in Nat /\ DOMAIN ss = 1 .. Len(ss)
      /\ \A i \in 1 .. Len(ss) : ss[i] \in Seq(V)
  OBVIOUS
<1>2. \A i \in 1 .. Len(ss) : Len(ss[i]) \in Nat /\ DOMAIN ss[i] = 1 .. Len(ss[i])
  BY <1>1
<1>3. \A i, k : <<i, k>> \in Pairs(ss) <=> i \in 1 .. Len(ss) /\ k \in 1 .. Len(ss[i])
  BY <1>1, <1>2 DEF Pairs
<1>4. \A p \in Pairs(ss) : p[1] \in 1 .. Len(ss) /\ p[2] \in 1 .. Len(ss[p[1]]) /\ p = <<p[1], p[2]>>
  BY <1>1, <1>2 DEF Pairs
<1> QED
  BY <1>1, <1>2, <1>3, <1>4

LEMMA FlattenExists ==
  ASSUME NEW ss, NEW n \in Nat
  PROVE  \E f : Flattens(f, ss, n)
<1> DEFINE C == {m \in Nat : \E f : Flattens(f, ss, m)}
<1>1. 0 \in C
  <2> DEFINE f == [i \in {} |-> ss]
  <2>1. 1 .. 0 = {}
    OBVIOUS
  <2>2. f = [i \in 1 .. 0 |-> IF i = 1 THEN ss[i] ELSE f[i - 1] \o ss[i]]
    BY <2>1
  <2> HIDE DEF f
  <2> QED
    BY <2>2 DEF Flattens
<1>2. ASSUME NEW m \in Nat, m \in C PROVE m + 1 \in C
  <2>1. PICK f : Flattens(f, ss, m)
    BY <1>2
  <2> DEFINE g == [i \in 1 .. m + 1 |-> IF i = 1 THEN ss[i] ELSE f[i - 1] \o ss[i]]
  <2>2. \A i \in 1 .. m : f[i] = IF i = 1 THEN ss[i] ELSE f[i - 1] \o ss[i]
    BY <2>1 DEF Flattens
  <2>3. \A i \in 1 .. m : g[i] = f[i]
    BY <2>2
  <2>4. \A i \in 1 .. m + 1 : i # 1 => i - 1 \in 1 .. m
    OBVIOUS
  <2>5. g = [i \in 1 .. m + 1 |-> IF i = 1 THEN ss[i] ELSE g[i - 1] \o ss[i]]
    <3> DEFINE h == [i \in 1 .. m + 1 |-> IF i = 1 THEN ss[i] ELSE g[i - 1] \o ss[i]]
    <3>1. \A i \in 1 .. m + 1 : g[i] = IF i = 1 THEN ss[i] ELSE f[i - 1] \o ss[i]
      OBVIOUS
    <3>2. \A i \in 1 .. m + 1 : g[i] = h[i]
      <4> HIDE DEF g
      <4> QED
        BY <2>3, <2>4, <3>1
    <3>4. g = [i \in 1 .. m + 1 |-> g[i]] /\ h = [i \in 1 .. m + 1 |-> h[i]]
      OBVIOUS
    <3> HIDE DEF g, h
    <3>5. g = h
      BY <3>2, <3>4
    <3> QED
      BY <3>5 DEF h
  <2> HIDE DEF g
  <2>6. Flattens(g, ss, m + 1)
    BY <2>5 DEF Flattens
  <2> QED
    BY <2>6
<1> HIDE DEF C
<1>3. Nat \subseteq C
  BY <1>1, <1>2, NatInduct
<1> QED
  BY <1>3 DEF C

\* One more sequence after those that are listed.
LEMMA ListsMore ==
  ASSUME NEW V, NEW ss \in Seq(Seq(V)), NEW n \in Nat, n + 1 \in 1 .. Len(ss),
         NEW s \in Seq(V), Lists(s, ss, n)
  PROVE  s \o ss[n + 1] \in Seq(V) /\ Lists(s \o ss[n + 1], ss, n + 1)
<1> DEFINE r == ss[n + 1]
           u == s \o r
           P == PairsTo(ss, n)
           Q == PairsTo(ss, n + 1)
<1>1. /\ \A i, k : <<i, k>> \in Pairs(ss) <=> i \in 1 .. Len(ss) /\ k \in 1 .. Len(ss[i])
      /\ \A p \in Pairs(ss) : /\ p[1] \in 1 .. Len(ss) /\ p[2] \in 1 .. Len(ss[p[1]])
                              /\ p = <<p[1], p[2]>>
      /\ r \in Seq(V) /\ Len(r) \in Nat /\ Len(s) \in Nat
  BY PairsAre
<1>2. PICK b \in Bijection(P, 1 .. Len(s)) : \A p \in P : s[b[p]] = ss[p[1]][p[2]]
  BY DEF Lists
<1>3. /\ b \in [P -> 1 .. Len(s)] /\ (\A p, q \in P : b[p] = b[q] => p = q)
      /\ \A j \in 1 .. Len(s) : \E p \in P : b[p] = j
  <2> DEFINE T == 1 .. Len(s)
  <2>1. b \in Bijection(P, T)
    BY <1>2
  <2> HIDE DEF P, T
  <2>2. b \in [P -> T] /\ (\A p, q \in P : b[p] = b[q] => p = q) /\ \A j \in T : \E p \in P : b[p] = j
    BY <2>1, Fun_BijectionProperties
  <2> QED
    BY <2>2 DEF T
<1>4. /\ \A p \in Q : (p \in P <=> p[1] <= n)
      /\ \A p \in Q : p \notin P => p[1] = n + 1 /\ p[2] \in 1 .. Len(r) /\ p = <<n + 1, p[2]>>
      /\ \A p \in P : p \in Q
      /\ \A k \in 1 .. Len(r) : <<n + 1, k>> \in Q /\ <<n + 1, k>> \notin P
  <2>1. \A p \in Pairs(ss) : p[1] <= n + 1 /\ ~(p[1] <= n) => p[1] = n + 1
    BY <1>1
  <2>2. \A k \in 1 .. Len(r) : <<n + 1, k>> \in Pairs(ss)
    BY <1>1
  <2>3. n + 1 <= n + 1 /\ ~(n + 1 <= n)
    OBVIOUS
  <2>4. \A p \in Pairs(ss) : p[1] <= n => p[1] <= n + 1
    BY <1>1
  <2> QED
    BY <1>1, <2>1, <2>2, <2>3, <2>4 DEF PairsTo
<1>5. /\ u \in Seq(V) /\ Len(u) = Len(s) + Len(r)
      /\ \A j \in 1 .. Len(s) : u[j] = s[j]
      /\ \A k \in 1 .. Len(r) : u[Len(s) + k] = r[k]
  <2>1. u \in Seq(V) /\ Len(u) = Len(s) + Len(r)
    BY <1>1
  <2>2. \A j \in 1 .. Len(s) : u[j] = s[j]
    BY <1>1
  <2>3. \A k \in 1 .. Len(r) : Len(s) + k \in 1 .. Len(s) + Len(r) /\ ~(Len(s) + k <= Len(s)) /\ (Len(s) + k) - Len(s) = k
    BY <1>1
  <2>4. \A k \in 1 .. Len(r) : u[Len(s) + k] = r[k]
    BY <1>1, <2>1, <2>3
  <2> QED
    BY <2>1, <2>2, <2>4
<1> HIDE DEF r, u, P, Q
<1> DEFINE c == [p \in Q |-> IF p \in P THEN b[p] ELSE Len(s) + p[2]]
<1>6. \A p \in P : c[p] = b[p] /\ b[p] \in 1 .. Len(s)
  BY <1>3, <1>4
<1>7. \A p \in Q : p \notin P => c[p] = Len(s) + p[2] /\ p[2] \in 1 .. Len(r) /\ p = <<n + 1, p[2]>> /\ p[1] = n + 1
  BY <1>4
<1>8. c = [p \in Q |-> c[p]]
  OBVIOUS
<1> HIDE DEF c
<1>9. ASSUME NEW p \in Q PROVE c[p] \in 1 .. Len(u)
  <2>1. Len(s) \in Nat /\ Len(r) \in Nat /\ Len(u) = Len(s) + Len(r)
    BY <1>1, <1>5
  <2>2. CASE p \in P
    <3>1. c[p] \in 1 .. Len(s)
      BY <1>6, <2>2
    <3> QED
      BY <2>1, <3>1
  <2>3. CASE p \notin P
    <3>1. c[p] = Len(s) + p[2] /\ p[2] \in 1 .. Len(r)
      BY <1>7, <2>3
    <3> QED
      BY <2>1, <3>1
  <2> QED
    BY <2>2, <2>3
<1>10. ASSUME NEW p \in Q, NEW q \in Q, c[p] = c[q] PROVE p = q
  <2>1. CASE p \in P /\ q \in P
    BY <1>3, <1>6, <1>10, <2>1
  <2>2. CASE p \notin P /\ q \notin P
    <3>1. Len(s) + p[2] = Len(s) + q[2] /\ p[2] \in 1 .. Len(r) /\ q[2] \in 1 .. Len(r)
      BY <1>7, <1>10, <2>2
    <3>2. p[2] = q[2]
      BY <1>1, <3>1
    <3> QED
      BY <1>7, <2>2, <3>2
  <2>3. ASSUME NEW x \in P, NEW y \in Q, y \notin P, c[x] = c[y] PROVE FALSE
    <3>1. c[x] \in 1 .. Len(s) /\ c[y] = Len(s) + y[2] /\ y[2] \in 1 .. Len(r)
      BY <1>6, <1>7, <2>3
    <3> QED
      BY <1>1, <2>3, <3>1
  <2> QED
    BY <1>10, <2>1, <2>2, <2>3
<1>11. ASSUME NEW j \in 1 .. Len(u) PROVE \E p \in Q : c[p] = j
  <2>1. CASE j <= Len(s)
    <3>1. j \in 1 .. Len(s)
      BY <1>1, <1>5, <2>1
    <3>2. PICK p \in P : b[p] = j
      BY <1>3, <3>1
    <3> QED
      BY <1>4, <1>6, <3>2
  <2>2. CASE ~(j <= Len(s))
    <3>1. j - Len(s) \in 1 .. Len(r) /\ Len(s) + (j - Len(s)) = j
      BY <1>1, <1>5, <2>2
    <3> DEFINE p == <<n + 1, j - Len(s)>>
    <3>2. p \in Q /\ p \notin P /\ p[2] = j - Len(s)
      BY <1>4, <3>1
    <3>3. c[p] = j
      BY <1>7, <3>1, <3>2
    <3> QED
      BY <3>2, <3>3
  <2> QED
    BY <2>1, <2>2
<1>12. c \in Bijection(Q, 1 .. Len(u))
  <2>1. c \in [Q -> 1 .. Len(u)]
    BY <1>8, <1>9
  <2> QED
    BY <1>10, <1>11, <2>1, Fun_IsBij
<1>13. ASSUME NEW p \in Q PROVE u[c[p]] = ss[p[1]][p[2]]
  <2>1. CASE p \in P
    <3>1. c[p] = b[p] /\ b[p] \in 1 .. Len(s) /\ s[b[p]] = ss[p[1]][p[2]]
      BY <1>2, <1>6, <2>1
    <3>2. u[b[p]] = s[b[p]]
      BY <1>5, <3>1
    <3> QED
      BY <3>1, <3>2
  <2>2. CASE p \notin P
    BY <1>5, <1>7, <2>2 DEF r
  <2> QED
    BY <2>1, <2>2
<1>14. Lists(u, ss, n + 1)
  BY <1>12, <1>13 DEF Lists, Q
<1> QED
  BY <1>5, <1>14 DEF u, r

LEMMA FlattenIs ==
  ASSUME NEW V, NEW ss \in Seq(Seq(V))
  PROVE  /\ FlattenSeq(ss) \in Seq(V)
         /\ \E b \in Bijection(Pairs(ss), 1 .. Len(FlattenSeq(ss))) :
              \A p \in Pairs(ss) : FlattenSeq(ss)[b[p]] = ss[p[1]][p[2]]
<1> DEFINE N == Len(ss)
<1>1. N \in Nat /\ \A p \in Pairs(ss) : p[1] \in 1 .. N
  BY PairsAre
<1>2. PairsTo(ss, N) = Pairs(ss)
  BY <1>1 DEF PairsTo
<1>3. Lists(<<>>, ss, 0) /\ <<>> \in Seq(V)
  <2>1. PairsTo(ss, 0) = {}
    BY <1>1 DEF PairsTo
  <2> DEFINE e == [p \in {} |-> p]
  <2>2. Len(<<>>) = 0 /\ 1 .. 0 = {} /\ e \in [{} -> {}]
    OBVIOUS
  <2>3. e \in Bijection({}, {})
    <3>1. e \in [{} -> {}] /\ (\A x, y \in {} : e[x] = e[y] => x = y) /\ \A y \in {} : \E x \in {} : e[x] = y
      OBVIOUS
    <3> HIDE DEF e
    <3> QED
      BY <3>1, Fun_IsBij
  <2> HIDE DEF e
  <2>4. e \in Bijection(PairsTo(ss, 0), 1 .. Len(<<>>))
    BY <2>1, <2>2, <2>3
  <2>5. \A p \in PairsTo(ss, 0) : <<>>[e[p]] = ss[p[1]][p[2]]
    BY <2>1
  <2> QED
    BY <2>4, <2>5 DEF Lists
<1>4. CASE N = 0
  <2>1. ss = <<>> /\ FlattenSeq(ss) = <<>>
    BY <1>4 DEF FlattenSeq
  <2> DEFINE s == FlattenSeq(ss)
  <2>2. s \in Seq(V) /\ Lists(s, ss, N)
    BY <1>3, <1>4, <2>1
  <2> HIDE DEF N, s
  <2>3. \E b \in Bijection(Pairs(ss), 1 .. Len(s)) : \A p \in Pairs(ss) : s[b[p]] = ss[p[1]][p[2]]
    BY <1>2, <2>2 DEF Lists
  <2> QED
    BY <2>2, <2>3 DEF s
<1>5. CASE N # 0
  <2> DEFINE F(f) == f = [i \in 1 .. Len(ss) |-> IF i = 1 THEN ss[i] ELSE f[i - 1] \o ss[i]]
             all == CHOOSE f : F(f)
  <2>1. FlattenSeq(ss) = all[N]
    BY <1>5 DEF FlattenSeq
  <2>2. \A f : F(f) <=> Flattens(f, ss, N)
    BY DEF Flattens
  <2> HIDE DEF F
  <2>3. \E f : F(f)
    BY <1>1, <2>2, FlattenExists
  <2>4. Flattens(all, ss, N)
    BY <2>2, <2>3
  <2> HIDE DEF all, N
  <2>5. \A i \in 1 .. N : all[i] = IF i = 1 THEN ss[i] ELSE all[i - 1] \o ss[i]
    BY <2>4 DEF Flattens
  <2> DEFINE C == {n \in Nat : n + 1 \in 1 .. N => all[n + 1] \in Seq(V) /\ Lists(all[n + 1], ss, n + 1)}
  <2>6. 0 \in C
    <3>1. ASSUME 1 \in 1 .. N PROVE all[1] \in Seq(V) /\ Lists(all[1], ss, 1)
      <4>1. all[1] = ss[1] /\ ss[1] \in Seq(V)
        BY <2>5, <3>1, PairsAre DEF N
      <4>2. <<>> \o ss[0 + 1] \in Seq(V) /\ Lists(<<>> \o ss[0 + 1], ss, 0 + 1)
        <5>1. 0 \in Nat /\ 0 + 1 \in 1 .. Len(ss)
          BY <3>1 DEF N
        <5>2. <<>> \in Seq(V) /\ Lists(<<>>, ss, 0)
          BY <1>3
        <5> QED
          BY <5>1, <5>2, ListsMore
      <4>3. <<>> \o ss[1] = ss[1] /\ 0 + 1 = 1
        BY <4>1
      <4> QED
        BY <4>1, <4>2, <4>3
    <3> QED
      BY <3>1
  <2>7. ASSUME NEW n \in Nat, n \in C PROVE n + 1 \in C
    <3>1. ASSUME (n + 1) + 1 \in 1 .. N
          PROVE  all[(n + 1) + 1] \in Seq(V) /\ Lists(all[(n + 1) + 1], ss, (n + 1) + 1)
      <4>1. n + 1 \in 1 .. N /\ (n + 1) + 1 # 1 /\ ((n + 1) + 1) - 1 = n + 1
        BY <1>1, <3>1
      <4>2. all[(n + 1) + 1] = all[n + 1] \o ss[(n + 1) + 1]
        BY <2>5, <3>1, <4>1
      <4>3. all[n + 1] \in Seq(V) /\ Lists(all[n + 1], ss, n + 1)
        BY <2>7, <4>1
      <4> QED
        BY <3>1, <4>2, <4>3, ListsMore DEF N
    <3> QED
      BY <3>1
  <2> HIDE DEF C
  <2>8. N - 1 \in Nat /\ N - 1 \in C
    <3>1. Nat \subseteq C
      BY <2>6, <2>7, NatInduct
    <3> QED
      BY <1>1, <1>5, <3>1
  <2>9. (N - 1) + 1 = N /\ N \in 1 .. N
    BY <1>1, <1>5
  <2>10. all[N] \in Seq(V) /\ Lists(all[N], ss, N)
    BY <2>8, <2>9 DEF C
  <2> QED
    BY <1>2, <2>1, <2>10 DEF Lists
<1> QED
  BY <1>4, <1>5

-----------------------------------------------------------------------------
(* Buckets, and their order.                                               *)

Rows == [key : Nat, cost : Int]
Keys(parts) == {parts[i].key : i \in DOMAIN parts}
Mine(parts, k) == {i \in DOMAIN parts : parts[i].key = k}
CostOf(parts, k) == Total(Mine(parts, k), [i \in Mine(parts, k) |-> parts[i].cost])
\* The same parts in another order.
Matched(P, Q) == \E b \in Bijection(DOMAIN P, DOMAIN Q) : \A i \in DOMAIN P : P[i] = Q[b[i]]

LEMMA SeqDomain ==
  ASSUME NEW V, NEW s \in Seq(V)
  PROVE  /\ DOMAIN s = 1 .. Len(s) /\ Len(s) \in Nat /\ IsFiniteSet(DOMAIN s)
         /\ Cardinality(DOMAIN s) = Len(s) /\ \A i \in DOMAIN s : s[i] \in V
<1>1. DOMAIN s = 1 .. Len(s) /\ Len(s) \in Nat /\ \A i \in DOMAIN s : s[i] \in V
  OBVIOUS
<1> DEFINE n == Len(s)
<1> HIDE DEF n
<1>2. n \in Nat
  BY <1>1 DEF n
<1>3. IsFiniteSet(1 .. n) /\ Cardinality(1 .. n) = n
  BY <1>2, FS_Interval
<1> QED
  BY <1>1, <1>3 DEF n

LEMMA BucketsAre ==
  ASSUME NEW parts \in Seq(Rows)
  PROVE  /\ DOMAIN Buckets(parts) = Keys(parts) /\ Keys(parts) \in SUBSET Nat /\ IsFiniteSet(Keys(parts))
         /\ \A k \in Keys(parts) :
              /\ Buckets(parts)[k].cost = CostOf(parts, k) /\ CostOf(parts, k) \in Int
              /\ Buckets(parts)[k].entries = Cardinality(Mine(parts, k))
              /\ IsFiniteSet(Mine(parts, k))
<1>1. /\ IsFiniteSet(DOMAIN parts)
      /\ \A i \in DOMAIN parts : parts[i] \in Rows /\ parts[i].key \in Nat /\ parts[i].cost \in Int
  <2>1. IsFiniteSet(DOMAIN parts) /\ \A i \in DOMAIN parts : parts[i] \in Rows
    BY SeqDomain
  <2> QED
    BY <2>1 DEF Rows
<1>2. Keys(parts) \in SUBSET Nat
  BY <1>1 DEF Keys
<1>3. IsFiniteSet(Keys(parts))
  <2> DEFINE f == [i \in DOMAIN parts |-> parts[i].key]
  <2>1. f \in [DOMAIN parts -> Keys(parts)] /\ \A k \in Keys(parts) : \E i \in DOMAIN parts : f[i] = k
    BY DEF Keys
  <2> HIDE DEF f
  <2>2. f \in Surjection(DOMAIN parts, Keys(parts))
    BY <2>1, Fun_IsSurj
  <2> QED
    BY <1>1, <2>2, FS_Surjection
<1>4. /\ DOMAIN Buckets(parts) = Keys(parts)
      /\ \A k \in Keys(parts) : /\ Buckets(parts)[k].cost = SumOver(parts, Mine(parts, k))
                                /\ Buckets(parts)[k].entries = Cardinality(Mine(parts, k))
  BY DEF Buckets, Keys, Mine
<1>5. ASSUME NEW k \in Keys(parts)
      PROVE  /\ IsFiniteSet(Mine(parts, k)) /\ CostOf(parts, k) \in Int
             /\ SumOver(parts, Mine(parts, k)) = CostOf(parts, k)
  <2> DEFINE M == Mine(parts, k)
             w == [i \in M |-> parts[i].cost]
  <2>1. M \in SUBSET (DOMAIN parts)
    BY DEF Mine
  <2>2. IsFiniteSet(M) /\ \A i \in M : parts[i].cost \in Int
    <3> HIDE DEF M
    <3> QED
      BY <1>1, <2>1, FS_Subset
  <2> HIDE DEF M
  <2>3. \A i \in M : w[i] \in Int
    BY <2>2
  <2>4. SumOver(parts, M) = Total(M, w)
    BY <2>2, SumOverIs
  <2> HIDE DEF w
  <2>5. Total(M, w) \in Int
    BY <2>2, <2>3, TotalType
  <2> QED
    BY <2>2, <2>4, <2>5 DEF M, w, CostOf
<1> QED
  BY <1>2, <1>3, <1>4, <1>5

Dearness(b) == {p \in (DOMAIN b) \X (DOMAIN b) : Dearer(b, p[1], p[2])}

LEMMA DearestIs ==
  ASSUME NEW b, DOMAIN b \in SUBSET Nat, IsFiniteSet(DOMAIN b), \A k \in DOMAIN b : b[k].cost \in Int
  PROVE  /\ Cardinality(DOMAIN b) \in Nat
         /\ DOMAIN DearestFirst(b) = 1 .. Cardinality(DOMAIN b)
         /\ \E keys \in Bijection(1 .. Cardinality(DOMAIN b), DOMAIN b) :
              \A n \in 1 .. Cardinality(DOMAIN b) :
                DearestFirst(b)[n] =
                  [key |-> keys[n], cost |-> b[keys[n]].cost, entries |-> b[keys[n]].entries]
<1> DEFINE S == DOMAIN b
           order == Dearness(b)
           keys == InOrder(S, order)
           N == Cardinality(S)
<1>1. \A j, k \in S : <<j, k>> \in order <=> Dearer(b, j, k)
  BY DEF Dearness
<1>2. Orders(order, S)
  <2>1. \A j \in S : ~Dearer(b, j, j)
    BY DEF Dearer
  <2>2. \A j, k \in S : j # k => Dearer(b, j, k) \/ Dearer(b, k, j)
    BY DEF Dearer
  <2>3. \A i, j, k \in S : Dearer(b, i, j) /\ Dearer(b, j, k) => Dearer(b, i, k)
    BY DEF Dearer
  <2> HIDE DEF order
  <2> QED
    BY <1>1, <2>1, <2>2, <2>3 DEF Orders
<1>3. DearestFirst(b) = [n \in DOMAIN keys |->
        [key |-> keys[n], cost |-> b[keys[n]].cost, entries |-> b[keys[n]].entries]]
  BY DEF DearestFirst, Dearness
<1> HIDE DEF order
<1>4. N \in Nat /\ DOMAIN keys = 1 .. N /\ keys \in Bijection(1 .. N, S)
  BY <1>2, InOrderIs
<1> HIDE DEF keys, N
<1>5. DOMAIN DearestFirst(b) = 1 .. N /\ \A n \in 1 .. N : DearestFirst(b)[n] =
        [key |-> keys[n], cost |-> b[keys[n]].cost, entries |-> b[keys[n]].entries]
  BY <1>3, <1>4
<1> QED
  BY <1>4, <1>5 DEF N

\* The order is one of keys, costs and entries only.
LEMMA DearestSame ==
  ASSUME NEW b, NEW c, DOMAIN b = DOMAIN c,
         \A k \in DOMAIN b : b[k].cost = c[k].cost /\ b[k].entries = c[k].entries,
         DOMAIN b \in SUBSET Nat, IsFiniteSet(DOMAIN b), \A k \in DOMAIN b : b[k].cost \in Int
  PROVE  DearestFirst(b) = DearestFirst(c)
<1> DEFINE S == DOMAIN b
           keys == InOrder(S, Dearness(b))
           Row(n) == [key |-> keys[n], cost |-> b[keys[n]].cost, entries |-> b[keys[n]].entries]
           Other(n) == [key |-> keys[n], cost |-> c[keys[n]].cost, entries |-> c[keys[n]].entries]
<1>1. Dearness(b) = Dearness(c)
  <2>1. \A p \in S \X S : Dearer(b, p[1], p[2]) <=> Dearer(c, p[1], p[2])
    BY DEF Dearer
  <2> QED
    BY <2>1 DEF Dearness
<1>2. DearestFirst(b) = [n \in DOMAIN keys |-> Row(n)]
  BY DEF DearestFirst, Dearness
<1>3. DearestFirst(c) = [n \in DOMAIN keys |-> Other(n)]
  <2>1. DearestFirst(c) = [n \in DOMAIN InOrder(DOMAIN c, Dearness(c)) |->
          [key |-> InOrder(DOMAIN c, Dearness(c))[n], cost |-> c[InOrder(DOMAIN c, Dearness(c))[n]].cost,
           entries |-> c[InOrder(DOMAIN c, Dearness(c))[n]].entries]]
    BY DEF DearestFirst, Dearness
  <2>2. InOrder(DOMAIN c, Dearness(c)) = keys
    BY <1>1
  <2> HIDE DEF keys
  <2> QED
    BY <2>1, <2>2
<1>4. \A n \in DOMAIN keys : keys[n] \in S
  <2> DEFINE order == Dearness(b)
  <2>1. \A j, k \in S : <<j, k>> \in order <=> Dearer(b, j, k)
    BY DEF Dearness
  <2>2. Orders(order, S)
    <3>1. \A j \in S : ~Dearer(b, j, j)
      BY DEF Dearer
    <3>2. \A j, k \in S : j # k => Dearer(b, j, k) \/ Dearer(b, k, j)
      BY DEF Dearer
    <3>3. \A i, j, k \in S : Dearer(b, i, j) /\ Dearer(b, j, k) => Dearer(b, i, k)
      BY DEF Dearer
    <3> HIDE DEF order
    <3> QED
      BY <2>1, <3>1, <3>2, <3>3 DEF Orders
  <2> HIDE DEF order
  <2>3. DOMAIN InOrder(S, order) = 1 .. Cardinality(S) /\ InOrder(S, order) \in Bijection(1 .. Cardinality(S), S)
    BY <2>2, InOrderIs
  <2>4. InOrder(S, order) \in [1 .. Cardinality(S) -> S]
    BY <2>3, Fun_BijectionProperties
  <2> QED
    BY <2>3, <2>4 DEF order
<1> HIDE DEF keys
<1>5. \A n \in DOMAIN keys : Row(n) = Other(n)
  BY <1>4
<1> HIDE DEF Row, Other
<1> QED
  BY <1>2, <1>3, <1>5

LEMMA BucketsSame ==
  ASSUME NEW P \in Seq(Rows), NEW Q \in Seq(Rows), Matched(P, Q)
  PROVE  DearestFirst(Buckets(P)) = DearestFirst(Buckets(Q))
<1> PICK b \in Bijection(DOMAIN P, DOMAIN Q) : \A i \in DOMAIN P : P[i] = Q[b[i]]
  BY DEF Matched
<1>1. /\ b \in [DOMAIN P -> DOMAIN Q] /\ \A j \in DOMAIN Q : \E i \in DOMAIN P : b[i] = j
  BY Fun_BijectionProperties
<1>2. Keys(P) = Keys(Q)
  BY <1>1 DEF Keys
<1>3. \A j \in DOMAIN Q : Q[j].cost \in Int
  <2>1. \A j \in DOMAIN Q : Q[j] \in Rows
    BY SeqDomain
  <2> QED
    BY <2>1 DEF Rows
<1>4. ASSUME NEW k \in Keys(P)
      PROVE  CostOf(P, k) = CostOf(Q, k) /\ Cardinality(Mine(P, k)) = Cardinality(Mine(Q, k))
  <2> DEFINE M == Mine(P, k)
             L == Mine(Q, k)
             c == [i \in M |-> b[i]]
             w == [i \in M |-> P[i].cost]
             v == [j \in L |-> Q[j].cost]
  <2>1. M \in SUBSET DOMAIN P /\ (\A j \in L : j \in DOMAIN Q) /\ \A i \in DOMAIN P : i \in M <=> b[i] \in L
    BY <1>1 DEF Mine
  <2>2. IsFiniteSet(M)
    BY BucketsAre
  <2> HIDE DEF M, L
  <2>3. c \in Bijection(M, L)
    BY <2>1, BijectionPart
  <2>4. \A i \in M : w[i] = v[c[i]]
    <3>1. \A i \in M : b[i] \in L /\ c[i] = b[i] /\ P[i] = Q[b[i]]
      BY <2>1
    <3> HIDE DEF c
    <3> QED
      BY <3>1
  <2>5. \A j \in L : v[j] \in Int
    BY <1>3, <2>1
  <2> HIDE DEF c, w, v
  <2>6. Total(M, w) = Total(L, v)
    BY <2>2, <2>3, <2>4, <2>5, TotalRenamed
  <2>7. Cardinality(L) = Cardinality(M)
    BY <2>2, <2>3, SameCount
  <2> QED
    BY <2>6, <2>7 DEF CostOf, M, L, w, v
<1> DEFINE B == Buckets(P)
           C == Buckets(Q)
<1>5. /\ DOMAIN B = Keys(P) /\ Keys(P) \in SUBSET Nat /\ IsFiniteSet(Keys(P))
      /\ \A k \in Keys(P) : /\ B[k].cost = CostOf(P, k) /\ CostOf(P, k) \in Int
                            /\ B[k].entries = Cardinality(Mine(P, k))
  BY BucketsAre
<1>6. /\ DOMAIN C = Keys(Q)
      /\ \A k \in Keys(Q) : /\ C[k].cost = CostOf(Q, k) /\ C[k].entries = Cardinality(Mine(Q, k))
  BY BucketsAre
<1> HIDE DEF B, C
<1>7. DOMAIN B = DOMAIN C /\ DOMAIN B \in SUBSET Nat /\ IsFiniteSet(DOMAIN B)
  BY <1>2, <1>5, <1>6
<1>8. \A k \in DOMAIN B : B[k].cost = C[k].cost /\ B[k].entries = C[k].entries /\ B[k].cost \in Int
  BY <1>2, <1>4, <1>5, <1>6
<1>9. DearestFirst(B) = DearestFirst(C)
  BY <1>7, <1>8, DearestSame
<1> QED
  BY <1>9 DEF B, C

\* The rows add up to the parts, and are of the parts' keys.
LEMMA RowsAre ==
  ASSUME NEW parts \in Seq(Rows)
  PROVE  LET rows == DearestFirst(Buckets(parts))
         IN /\ SumOf(rows) = SumOf(parts)
            /\ \A n \in DOMAIN rows :
                 /\ rows[n].key \in Keys(parts) /\ rows[n].cost = CostOf(parts, rows[n].key)
                 /\ rows[n].entries = Cardinality(Mine(parts, rows[n].key))
            /\ \A k \in Keys(parts) : \E n \in DOMAIN rows : rows[n].key = k
<1> DEFINE B == Buckets(parts)
           K == Keys(parts)
           N == Cardinality(K)
           rows == DearestFirst(B)
           v == [k \in K |-> CostOf(parts, k)]
           w == [i \in DOMAIN parts |-> parts[i].cost]
           key == [i \in DOMAIN parts |-> parts[i].key]
<1>1. /\ DOMAIN B = K /\ K \in SUBSET Nat /\ IsFiniteSet(K)
      /\ \A k \in K : /\ B[k].cost = CostOf(parts, k) /\ CostOf(parts, k) \in Int
                      /\ B[k].entries = Cardinality(Mine(parts, k))
  BY BucketsAre
<1> HIDE DEF B
<1>2. /\ N \in Nat /\ DOMAIN rows = 1 .. N
      /\ \E keys \in Bijection(1 .. N, K) : \A n \in 1 .. N :
           rows[n] = [key |-> keys[n], cost |-> B[keys[n]].cost, entries |-> B[keys[n]].entries]
  BY <1>1, DearestIs
<1>6. IsFiniteSet(1 .. N)
  BY <1>2, FS_Interval
<1> HIDE DEF N, K, rows
<1> DEFINE T == 1 .. N
           x == [n \in T |-> rows[n].cost]
<1> HIDE DEF T
<1>3. PICK keys \in Bijection(T, K) : \A n \in T :
           rows[n] = [key |-> keys[n], cost |-> B[keys[n]].cost, entries |-> B[keys[n]].entries]
  BY <1>2 DEF T
<1>4. keys \in [T -> K] /\ \A k \in K : \E n \in T : keys[n] = k
  BY <1>3, Fun_BijectionProperties
<1>5. \A n \in T : /\ rows[n].key = keys[n] /\ keys[n] \in K
                        /\ rows[n].cost = CostOf(parts, keys[n]) /\ rows[n].cost \in Int
                        /\ rows[n].entries = Cardinality(Mine(parts, keys[n]))
  <2> SUFFICES ASSUME NEW n \in T
               PROVE  /\ rows[n].key = keys[n] /\ keys[n] \in K
                      /\ rows[n].cost = CostOf(parts, keys[n]) /\ rows[n].cost \in Int
                      /\ rows[n].entries = Cardinality(Mine(parts, keys[n]))
    OBVIOUS
  <2>1. keys[n] \in K
    BY <1>4
  <2>2. rows[n] = [key |-> keys[n], cost |-> B[keys[n]].cost, entries |-> B[keys[n]].entries]
    BY <1>3
  <2>3. /\ rows[n].key = keys[n] /\ rows[n].cost = B[keys[n]].cost
        /\ rows[n].entries = B[keys[n]].entries
    BY <2>2
  <2> QED
    BY <1>1, <2>1, <2>3
<1>7. SumOf(rows) = Total(T, x)
  <2>1. DOMAIN rows = T /\ IsFiniteSet(T)
    BY <1>2, <1>6 DEF T
  <2> QED
    BY <1>5, <2>1, SumOverIs DEF SumOf
<1>8. Total(T, x) = Total(K, v)
  <2>1. \A n \in T : x[n] = v[keys[n]]
    BY <1>4, <1>5
  <2>2. \A k \in K : v[k] \in Int
    BY <1>1
  <2>3. IsFiniteSet(T)
    BY <1>6 DEF T
  <2> HIDE DEF x, v
  <2> QED
    BY <1>3, <2>1, <2>2, <2>3, TotalRenamed
<1>9. IsFiniteSet(DOMAIN parts) /\ \A i \in DOMAIN parts : parts[i].cost \in Int
  <2>1. IsFiniteSet(DOMAIN parts) /\ \A i \in DOMAIN parts : parts[i] \in Rows
    BY SeqDomain
  <2> QED
    BY <2>1 DEF Rows
<1>10. SumOf(parts) = Total(DOMAIN parts, w)
  BY <1>9, SumOverIs DEF SumOf
<1>11. Total(K, v) = Total(DOMAIN parts, w)
  <2> DEFINE D == DOMAIN parts
             fibre == [k \in K |-> Mine(parts, k)]
  <2>1. key \in [D -> K] /\ \A i \in D : w[i] \in Int
    BY <1>9 DEF K, Keys
  <2>2. ASSUME NEW k \in K PROVE v[k] = Total(fibre[k], w)
    <3> DEFINE M == Mine(parts, k)
               u == [i \in M |-> parts[i].cost]
    <3>1. fibre[k] = M
      OBVIOUS
    <3>2. v[k] = Total(M, u)
      BY DEF CostOf
    <3>3. \A i \in M : u[i] = w[i]
      BY DEF Mine
    <3> HIDE DEF M, u, w, v, key, fibre
    <3>4. Total(M, u) = Total(M, w)
      BY <3>3, TotalAgrees
    <3> QED
      BY <3>1, <3>2, <3>4
  <2>3. IsFiniteSet(D) /\ IsFiniteSet(K)
    BY <1>1, <1>9
  <2>5. fibre \in [K -> SUBSET D] /\ \A k \in K, i \in D : i \in fibre[k] <=> key[i] = k
    BY DEF Mine
  <2> HIDE DEF D, v, w, key, fibre
  <2>4. Total(K, v) = Total(D, w)
    BY <2>1, <2>2, <2>3, <2>5, TotalByKey
  <2> QED
    BY <2>4 DEF D
<1> HIDE DEF v, w, x
<1>12. SumOf(rows) = SumOf(parts)
  BY <1>7, <1>8, <1>10, <1>11
<1>13. \A n \in DOMAIN rows : /\ rows[n].key \in K /\ rows[n].cost = CostOf(parts, rows[n].key)
                               /\ rows[n].entries = Cardinality(Mine(parts, rows[n].key))
  BY <1>2, <1>5 DEF T
<1>14. \A k \in K : \E n \in DOMAIN rows : rows[n].key = k
  <2>1. ASSUME NEW k \in K PROVE \E n \in T : rows[n].key = k
    <3>1. PICK n \in T : keys[n] = k
      BY <1>4
    <3>2. rows[n].key = keys[n]
      BY <1>5
    <3> QED
      BY <3>1, <3>2
  <2>2. DOMAIN rows = T
    BY <1>2 DEF T
  <2> QED
    BY <2>1, <2>2
<1> QED
  BY <1>12, <1>13, <1>14 DEF rows, K, B

LEMMA SetToSeqIs ==
  ASSUME NEW S, IsFiniteSet(S)
  PROVE  SetToSeq(S) \in Bijection(1 .. Cardinality(S), S) /\ Cardinality(S) \in Nat
<1> DEFINE N == Cardinality(S)
           T == 1 .. N
           s == SetToSeq(S)
<1>1. N \in Nat /\ ExistsBijection(1 .. N, S)
  BY FS_CardinalityType
<1>2. IsFiniteSet(T) /\ Cardinality(T) = N
  BY <1>1, FS_Interval
<1>3. s = CHOOSE f \in [T -> S] : IsInjective(f)
  BY DEF SetToSeq
<1>4. ExistsBijection(T, S)
  BY <1>1
<1> HIDE DEF N, T, s
<1>5. \E f \in [T -> S] : IsInjective(f)
  <2>1. PICK f \in Bijection(T, S) : TRUE
    BY <1>4 DEF ExistsBijection
  <2>2. f \in [T -> S] /\ \A x, y \in T : f[x] = f[y] => x = y
    BY <2>1, Fun_BijectionProperties
  <2> QED
    BY <2>2 DEF IsInjective
<1>6. s \in [T -> S] /\ IsInjective(s)
  BY <1>3, <1>5
<1>7. s \in Injection(T, S)
  BY <1>6 DEF Injection
<1>8. s \in Surjection(T, S)
  BY <1>2, <1>7, FS_Injection DEF N
<1>9. s \in Bijection(T, S)
  BY <1>7, <1>8, Fun_IsBij
<1> QED
  BY <1>1, <1>9 DEF s, T, N

\* A document's ids, each once, at its full cost.
LEMMA TicketPartsAre ==
  ASSUME NEW d \in Doc
  PROVE  /\ TicketParts(d) \in Seq(Rows)
         /\ \A k \in DOMAIN TicketParts(d) : /\ TicketParts(d)[k].cost = Cost[d]
                                            /\ TicketParts(d)[k].key \in Range(Ids[d])
         /\ \A j, k \in DOMAIN TicketParts(d) : TicketParts(d)[j].key = TicketParts(d)[k].key => j = k
         /\ \A id \in Range(Ids[d]) : \E k \in DOMAIN TicketParts(d) : TicketParts(d)[k].key = id
<1> DEFINE S == Range(Ids[d])
           ids == SetToSeq(S)
           N == Cardinality(S)
           T == 1 .. N
           parts == TicketParts(d)
<1>1. Ids[d] \in Seq(Nat) /\ Cost[d] \in Int
  BY CostIs
<1>2. S \in SUBSET Nat /\ IsFiniteSet(S)
  <2> DEFINE D == DOMAIN Ids[d]
  <2>1. IsFiniteSet(D) /\ \A i \in D : Ids[d][i] \in Nat
    BY <1>1, SeqDomain
  <2>2. Ids[d] \in [D -> Nat]
    BY <1>1, <2>1
  <2> HIDE DEF D
  <2>3. S \in SUBSET Nat /\ Ids[d] \in Surjection(D, S)
    BY <2>2, Fun_RangeProperties
  <2> QED
    BY <2>1, <2>3, FS_Surjection
<1> HIDE DEF S
<1>3. ids \in Bijection(T, S) /\ N \in Nat
  BY <1>2, SetToSeqIs
<1>4. parts = [k \in DOMAIN ids |-> [key |-> ids[k], cost |-> Cost[d]]]
  BY DEF TicketParts, S
<1> HIDE DEF ids, parts
<1>5. /\ ids \in [T -> S] /\ (\A x, y \in T : ids[x] = ids[y] => x = y)
      /\ \A x \in S : \E k \in T : ids[k] = x
  <2> HIDE DEF T
  <2> QED
    BY <1>3, Fun_BijectionProperties
<1>6. /\ DOMAIN parts = T
      /\ \A k \in T : parts[k].key = ids[k] /\ parts[k].cost = Cost[d] /\ parts[k] \in Rows
  BY <1>1, <1>2, <1>4, <1>5 DEF Rows
<1>7. parts = [k \in T |-> parts[k]]
  BY <1>4, <1>6
<1>8. parts \in Seq(Rows)
  BY <1>3, <1>6, <1>7
<1>9. \A k \in DOMAIN parts : parts[k].cost = Cost[d] /\ parts[k].key \in S
  BY <1>5, <1>6
<1>10. \A j, k \in DOMAIN parts : parts[j].key = parts[k].key => j = k
  BY <1>5, <1>6
<1>11. ASSUME NEW x \in S PROVE \E k \in DOMAIN parts : parts[k].key = x
  <2>1. PICK k \in T : ids[k] = x
    BY <1>5
  <2> QED
    BY <1>6, <2>1
<1> QED
  BY <1>8, <1>9, <1>10, <1>11 DEF parts, S

LEMMA ModelPartsAre ==
  ASSUME NEW d \in Doc
  PROVE  ModelContributions(d) \in Seq(Rows)
<1>1. /\ Cost[d] \in Int /\ (Model[d] # NoModel => Model[d] \in Nat)
      /\ ByModel[d] \in Seq([key : Nat, cost : Int])
  BY CostIs
<1>2. CASE ByModel[d] # <<>>
  BY <1>1, <1>2 DEF ModelContributions, Rows
<1>3. CASE ByModel[d] = <<>> /\ Model[d] # NoModel
  <2> DEFINE row == [key |-> Model[d], cost |-> Cost[d]]
  <2>1. row \in Rows
    BY <1>1, <1>3 DEF Rows
  <2>2. ModelContributions(d) = <<row>>
    BY <1>3 DEF ModelContributions
  <2> HIDE DEF row
  <2> QED
    BY <2>1, <2>2
<1>4. CASE ByModel[d] = <<>> /\ Model[d] = NoModel
  BY <1>4 DEF ModelContributions
<1> QED
  BY <1>2, <1>3, <1>4

TicketsOf(e) == [i \in DOMAIN e |-> TicketParts(e[i])]
ModelPartsOf(e) == [i \in DOMAIN e |-> ModelContributions(e[i])]
TicketRows(e) == DearestFirst(Buckets(FlattenSeq(TicketsOf(e))))
ModelRows(e) == DearestFirst(Buckets(FlattenSeq(ModelPartsOf(e))))
LevelRows(e) == DearestFirst(Buckets(LevelParts(e)))
NamedIn(e, id) == {i \in DOMAIN e : id \in Range(Ids[e[i]])}
ModelsUnder(e, id) == UNION {ModelsOf(e[i]) : i \in NamedIn(e, id)}

LEMMA PartsOf ==
  ASSUME NEW e \in Seq(Doc)
  PROVE  /\ TicketsOf(e) \in Seq(Seq(Rows)) /\ ModelPartsOf(e) \in Seq(Seq(Rows))
         /\ LevelParts(e) \in Seq(Rows)
         /\ DOMAIN TicketsOf(e) = DOMAIN e /\ DOMAIN ModelPartsOf(e) = DOMAIN e
         /\ DOMAIN LevelParts(e) = DOMAIN e
         /\ \A i \in DOMAIN e : e[i] \in Doc /\ TicketsOf(e)[i] = TicketParts(e[i])
                               /\ ModelPartsOf(e)[i] = ModelContributions(e[i])
<1>1. DOMAIN e = 1 .. Len(e) /\ Len(e) \in Nat /\ \A i \in DOMAIN e : e[i] \in Doc
  BY SeqDomain
<1>2. \A i \in DOMAIN e : TicketParts(e[i]) \in Seq(Rows) /\ ModelContributions(e[i]) \in Seq(Rows)
  BY <1>1, TicketPartsAre, ModelPartsAre
<1>3. \A i \in DOMAIN e : [key |-> Level[e[i]], cost |-> Cost[e[i]]] \in Rows
  BY <1>1, CostIs DEF Rows
<1> DEFINE S == Seq(Rows)
<1>4. \A i \in DOMAIN e : TicketParts(e[i]) \in S /\ ModelContributions(e[i]) \in S
  BY <1>2
<1> HIDE DEF S
<1>5. TicketsOf(e) \in Seq(S)
  BY <1>1, <1>4 DEF TicketsOf
<1>6. ModelPartsOf(e) \in Seq(S)
  BY <1>1, <1>4 DEF ModelPartsOf
<1>7. LevelParts(e) \in Seq(Rows)
  BY <1>1, <1>3 DEF LevelParts
<1>8. /\ DOMAIN TicketsOf(e) = DOMAIN e /\ DOMAIN ModelPartsOf(e) = DOMAIN e
      /\ DOMAIN LevelParts(e) = DOMAIN e
      /\ \A i \in DOMAIN e : TicketsOf(e)[i] = TicketParts(e[i]) /\ ModelPartsOf(e)[i] = ModelContributions(e[i])
  BY DEF TicketsOf, ModelPartsOf, LevelParts
<1> QED
  BY <1>1, <1>5, <1>6, <1>7, <1>8 DEF S

\* aggregate, by its parts.
LEMMA AggregateIs ==
  ASSUME NEW e
  PROVE  Aggregate(e) =
    [cost |-> SumOf(LevelParts(e)), entries |-> Len(e),
     byTicket |-> [n \in DOMAIN TicketRows(e) |->
                    [row |-> TicketRows(e)[n], models |-> ModelsUnder(e, TicketRows(e)[n].key)]],
     byModel |-> [n \in DOMAIN ModelRows(e) |->
                   [key |-> ModelRows(e)[n].key, cost |-> ModelRows(e)[n].cost]],
     byLevel |-> LevelRows(e)]
BY DEF Aggregate, LevelParts, TicketRows, TicketsOf, ModelRows, ModelPartsOf, LevelRows, NamedIn, ModelsUnder

-----------------------------------------------------------------------------
(* The order of the entries.                                               *)

LEMMA FlattenMatched ==
  ASSUME NEW V, NEW ss \in Seq(Seq(V)), NEW tt \in Seq(Seq(V)),
         NEW p \in Bijection(DOMAIN ss, DOMAIN tt), \A i \in DOMAIN ss : ss[i] = tt[p[i]]
  PROVE  Matched(FlattenSeq(ss), FlattenSeq(tt))
<1> DEFINE P == Pairs(ss)
           Q == Pairs(tt)
           X == FlattenSeq(ss)
           Y == FlattenSeq(tt)
           q == [x \in P |-> <<p[x[1]], x[2]>>]
<1>1. X \in Seq(V) /\ Y \in Seq(V) /\ DOMAIN X = 1 .. Len(X) /\ DOMAIN Y = 1 .. Len(Y)
  BY FlattenIs, SeqDomain
<1>2. \E b \in Bijection(Pairs(ss), 1 .. Len(FlattenSeq(ss))) :
         \A x \in Pairs(ss) : FlattenSeq(ss)[b[x]] = ss[x[1]][x[2]]
  BY FlattenIs
<1>3. \E c \in Bijection(Pairs(tt), 1 .. Len(FlattenSeq(tt))) :
         \A x \in Pairs(tt) : FlattenSeq(tt)[c[x]] = tt[x[1]][x[2]]
  BY FlattenIs
<1>4. /\ p \in [DOMAIN ss -> DOMAIN tt] /\ (\A i, j \in DOMAIN ss : p[i] = p[j] => i = j)
      /\ \A j \in DOMAIN tt : \E i \in DOMAIN ss : p[i] = j
  BY Fun_BijectionProperties
<1>5. /\ \A i, k : <<i, k>> \in P <=> i \in DOMAIN ss /\ k \in 1 .. Len(ss[i])
      /\ \A i, k : <<i, k>> \in Q <=> i \in DOMAIN tt /\ k \in 1 .. Len(tt[i])
      /\ \A x \in P : x[1] \in DOMAIN ss /\ x = <<x[1], x[2]>>
      /\ \A x \in Q : x[1] \in DOMAIN tt /\ x = <<x[1], x[2]>>
  <2>1. DOMAIN ss = 1 .. Len(ss) /\ DOMAIN tt = 1 .. Len(tt)
    OBVIOUS
  <2> QED
    BY <2>1, PairsAre
<1>14. PICK b \in Bijection(P, DOMAIN X) : \A x \in P : X[b[x]] = ss[x[1]][x[2]]
  BY <1>1, <1>2
<1>15. PICK c \in Bijection(Q, DOMAIN Y) : \A x \in Q : Y[c[x]] = tt[x[1]][x[2]]
  BY <1>1, <1>3
<1> HIDE DEF P, Q, X, Y
<1>6. q \in Bijection(P, Q)
  <2>1. \A x \in P : q[x] = <<p[x[1]], x[2]>> /\ q[x] \in Q
    BY <1>4, <1>5
  <2>2. q = [x \in P |-> q[x]]
    OBVIOUS
  <2> HIDE DEF q
  <2>3. q \in [P -> Q]
    BY <2>1, <2>2
  <2>4. ASSUME NEW x \in P, NEW y \in P, q[x] = q[y] PROVE x = y
    <3>1. <<p[x[1]], x[2]>> = <<p[y[1]], y[2]>>
      BY <2>1, <2>4
    <3>2. p[x[1]] = p[y[1]] /\ x[2] = y[2]
      BY <3>1
    <3>3. x[1] = y[1]
      BY <1>4, <1>5, <3>2
    <3> QED
      BY <1>5, <3>2, <3>3
  <2>5. ASSUME NEW y \in Q PROVE \E x \in P : q[x] = y
    <3>1. PICK i \in DOMAIN ss : p[i] = y[1]
      BY <1>4, <1>5
    <3> DEFINE x == <<i, y[2]>>
    <3>2. y = <<y[1], y[2]>> /\ y[2] \in 1 .. Len(tt[y[1]])
      BY <1>5
    <3>3. x \in P
      BY <1>5, <3>1, <3>2
    <3>4. x[1] = i /\ x[2] = y[2]
      OBVIOUS
    <3> HIDE DEF x
    <3>5. q[x] = y
      BY <2>1, <3>1, <3>2, <3>3, <3>4
    <3> QED
      BY <3>3, <3>5
  <2> QED
    BY <2>3, <2>4, <2>5, Fun_IsBij
<1>7. \A x \in P : q[x] \in Q /\ ss[x[1]][x[2]] = tt[q[x][1]][q[x][2]]
  BY <1>4, <1>5
<1> HIDE DEF q
<1> DEFINE a == Inverse(b, P, DOMAIN X)
           f == [j \in DOMAIN X |-> q[a[j]]]
           g == [j \in DOMAIN X |-> c[f[j]]]
<1>8. a \in Bijection(DOMAIN X, P) /\ \A x \in P : a[b[x]] = x
  BY <1>14, Fun_BijInverse
<1> HIDE DEF a
<1>9. f \in Bijection(DOMAIN X, Q)
  BY <1>6, <1>8, Fun_BijTransitive
<1>10. \A j \in DOMAIN X : f[j] = q[a[j]]
  OBVIOUS
<1> HIDE DEF f
<1>11. g \in Bijection(DOMAIN X, DOMAIN Y)
  BY <1>15, <1>9, Fun_BijTransitive
<1>12. \A j \in DOMAIN X : g[j] = c[f[j]]
  OBVIOUS
<1> HIDE DEF g
<1>13. ASSUME NEW j \in DOMAIN X PROVE X[j] = Y[g[j]]
  <2>1. PICK x \in P : b[x] = j
    BY <1>14, Fun_BijectionProperties
  <2>2. g[j] = c[q[x]]
    BY <1>8, <1>10, <1>12, <2>1
  <2> QED
    BY <1>14, <1>15, <1>7, <2>1, <2>2
<1> QED
  BY <1>11, <1>13 DEF Matched, X, Y

\* aggregate's report is one of the entries, not of the order of their lines: its totals,
\* its three cuts and the order of their rows (_dearest_first) come out the same.
THEOREM SameEntries ==
  ASSUME NEW e \in Seq(Doc), NEW p \in Bijection(DOMAIN e, DOMAIN e)
  PROVE  Aggregate([k \in DOMAIN e |-> e[p[k]]]) = Aggregate(e)
<1> DEFINE f == [k \in DOMAIN e |-> e[p[k]]]
           D == DOMAIN e
<1>1. /\ p \in [D -> D] /\ \A j \in D : \E i \in D : p[i] = j
  BY Fun_BijectionProperties
<1>2. D = 1 .. Len(e) /\ Len(e) \in Nat /\ IsFiniteSet(D) /\ \A i \in D : e[i] \in Doc
  BY SeqDomain
<1>3. DOMAIN f = D /\ (\A i \in D : f[i] = e[p[i]]) /\ f = [k \in D |-> f[k]]
  OBVIOUS
<1> HIDE DEF f
<1>4. f \in Seq(Doc) /\ Len(f) = Len(e)
  BY <1>1, <1>2, <1>3
<1>5. LevelRows(f) = LevelRows(e)
  <2>1. \A i \in D : LevelParts(f)[i] = LevelParts(e)[p[i]]
    BY <1>1, <1>3 DEF LevelParts
  <2>2. Matched(LevelParts(f), LevelParts(e))
    <3>1. DOMAIN LevelParts(f) = D /\ DOMAIN LevelParts(e) = D
      BY <1>3 DEF LevelParts
    <3> QED
      BY <2>1, <3>1 DEF Matched
  <2> QED
    BY <1>4, <2>2, BucketsSame, PartsOf DEF LevelRows
<1>6. TicketRows(f) = TicketRows(e)
  <2> DEFINE ss == TicketsOf(f)
             tt == TicketsOf(e)
  <2>1. DOMAIN ss = D /\ DOMAIN tt = D /\ \A i \in D : ss[i] = tt[p[i]]
    BY <1>1, <1>3 DEF TicketsOf
  <2>2. ss \in Seq(Seq(Rows)) /\ tt \in Seq(Seq(Rows))
    BY <1>4, PartsOf
  <2> HIDE DEF ss, tt
  <2>3. Matched(FlattenSeq(ss), FlattenSeq(tt))
    BY <2>1, <2>2, FlattenMatched
  <2>4. FlattenSeq(ss) \in Seq(Rows) /\ FlattenSeq(tt) \in Seq(Rows)
    BY <2>2, FlattenIs
  <2> QED
    BY <2>3, <2>4, BucketsSame DEF TicketRows, ss, tt
<1>7. ModelRows(f) = ModelRows(e)
  <2> DEFINE ss == ModelPartsOf(f)
             tt == ModelPartsOf(e)
  <2>1. DOMAIN ss = D /\ DOMAIN tt = D /\ \A i \in D : ss[i] = tt[p[i]]
    BY <1>1, <1>3 DEF ModelPartsOf
  <2>2. ss \in Seq(Seq(Rows)) /\ tt \in Seq(Seq(Rows))
    BY <1>4, PartsOf
  <2> HIDE DEF ss, tt
  <2>3. Matched(FlattenSeq(ss), FlattenSeq(tt))
    BY <2>1, <2>2, FlattenMatched
  <2>4. FlattenSeq(ss) \in Seq(Rows) /\ FlattenSeq(tt) \in Seq(Rows)
    BY <2>2, FlattenIs
  <2> QED
    BY <2>3, <2>4, BucketsSame DEF ModelRows, ss, tt
<1>8. SumOf(LevelParts(f)) = SumOf(LevelParts(e))
  <2> DEFINE w == [i \in D |-> Cost[f[i]]]
             v == [i \in D |-> Cost[e[i]]]
  <2>1. \A i \in D : w[i] = v[p[i]]
    BY <1>1, <1>3
  <2>2. \A i \in D : v[i] \in Int
    BY <1>2, CostIs
  <2>3. SumOf(LevelParts(f)) = Total(D, w) /\ SumOf(LevelParts(e)) = Total(D, v)
    <3>1. Aggregate(f).cost = SumOf(LevelParts(f)) /\ Aggregate(e).cost = SumOf(LevelParts(e))
      BY DEF Aggregate, LevelParts
    <3>2. Aggregate(f).cost = Total(D, w)
      BY <1>3, <1>4, BillTotal
    <3>3. Aggregate(e).cost = Total(D, v)
      BY BillTotal
    <3> QED
      BY <3>1, <3>2, <3>3
  <2> HIDE DEF w, v, D
  <2>4. p \in Bijection(D, D)
    BY DEF D
  <2>5. Total(D, w) = Total(D, v)
    BY <1>2, <2>1, <2>2, <2>4, TotalRenamed
  <2> QED
    BY <2>3, <2>5
<1>9. ASSUME NEW id PROVE ModelsUnder(f, id) = ModelsUnder(e, id)
  <2>1. ASSUME NEW m PROVE m \in ModelsUnder(f, id) <=> m \in ModelsUnder(e, id)
    <3>1. m \in ModelsUnder(f, id) <=> \E i \in D : id \in Range(Ids[f[i]]) /\ m \in ModelsOf(f[i])
      BY <1>3 DEF ModelsUnder, NamedIn
    <3>2. m \in ModelsUnder(e, id) <=> \E i \in D : id \in Range(Ids[e[i]]) /\ m \in ModelsOf(e[i])
      BY DEF ModelsUnder, NamedIn
    <3> HIDE DEF D
    <3> QED
      BY <1>1, <1>3, <3>1, <3>2
  <2> QED
    BY <2>1
<1>10. Aggregate(f) = Aggregate(e)
  BY <1>4, <1>5, <1>6, <1>7, <1>8, <1>9, AggregateIs
<1> QED
  BY <1>10 DEF f

-----------------------------------------------------------------------------
(* The cuts.                                                               *)

Naming(t, id) == {i \in EntriesAt(t) : id \in Range(Ids[t[i].doc])}

ChargeOf(t, id) == MapThenSumSet(LAMBDA i : Cost[t[i].doc], Naming(t, id))

\* A ticket's contributions, one for each entry that names it.
LEMMA MineIsNamed ==
  ASSUME NEW e \in Seq(Doc), NEW id
  PROVE  \E c \in Bijection(NamedIn(e, id), Mine(FlattenSeq(TicketsOf(e)), id)) :
           \A i \in NamedIn(e, id) : Cost[e[i]] = FlattenSeq(TicketsOf(e))[c[i]].cost
<1> DEFINE ss == TicketsOf(e)
           X == FlattenSeq(ss)
           P == Pairs(ss)
           T == 1 .. Len(X)
           N == NamedIn(e, id)
           M == Mine(X, id)
           pos == [i \in N |-> CHOOSE k \in DOMAIN ss[i] : ss[i][k].key = id]
<1>1. /\ ss \in Seq(Seq(Rows)) /\ DOMAIN ss = DOMAIN e
      /\ \A i \in DOMAIN e : e[i] \in Doc /\ ss[i] = TicketParts(e[i])
  BY PartsOf
<1>2. DOMAIN ss = 1 .. Len(ss) /\ \A i \in DOMAIN ss : DOMAIN ss[i] = 1 .. Len(ss[i])
  <2>1. DOMAIN ss = 1 .. Len(ss) /\ \A i \in DOMAIN ss : ss[i] \in Seq(Rows)
    BY <1>1
  <2> QED
    BY <2>1
<1>3. /\ \A i, k : <<i, k>> \in P <=> i \in DOMAIN e /\ k \in DOMAIN ss[i]
      /\ \A x \in P : x = <<x[1], x[2]>> /\ x[1] \in DOMAIN e /\ x[2] \in DOMAIN ss[x[1]]
  <2>1. /\ \A i, k : <<i, k>> \in P <=> i \in 1 .. Len(ss) /\ k \in 1 .. Len(ss[i])
        /\ \A x \in P : x[1] \in 1 .. Len(ss) /\ x[2] \in 1 .. Len(ss[x[1]]) /\ x = <<x[1], x[2]>>
    <3> HIDE DEF ss
    <3> QED
      BY <1>1, PairsAre
  <2> HIDE DEF ss, P
  <2> QED
    BY <1>1, <1>2, <2>1
<1>4. /\ X \in Seq(Rows)
      /\ \E b \in Bijection(P, T) : \A x \in P : X[b[x]] = ss[x[1]][x[2]]
  <2> HIDE DEF ss
  <2> QED
    BY <1>1, FlattenIs
<1>5. PICK b \in Bijection(P, T) : \A x \in P : X[b[x]] = ss[x[1]][x[2]]
  BY <1>4
<1>6. \A j : j \in M <=> j \in T /\ X[j].key = id
  <2>1. DOMAIN X = T
    <3> HIDE DEF X
    <3> QED
      BY <1>4
  <2> QED
    BY <2>1 DEF Mine
<1>7. \A i : i \in N <=> i \in DOMAIN e /\ id \in Range(Ids[e[i]])
  BY DEF NamedIn
<1>8. ASSUME NEW i \in DOMAIN e
      PROVE  /\ \A k \in DOMAIN ss[i] : ss[i][k].cost = Cost[e[i]] /\ ss[i][k].key \in Range(Ids[e[i]])
             /\ \A j, k \in DOMAIN ss[i] : ss[i][j].key = ss[i][k].key => j = k
             /\ id \in Range(Ids[e[i]]) => \E k \in DOMAIN ss[i] : ss[i][k].key = id
  <2> DEFINE d == e[i]
  <2>1. d \in Doc /\ ss[i] = TicketParts(d)
    BY <1>1
  <2> HIDE DEF ss, d
  <2>2. /\ \A k \in DOMAIN TicketParts(d) : /\ TicketParts(d)[k].cost = Cost[d]
                                            /\ TicketParts(d)[k].key \in Range(Ids[d])
        /\ \A j, k \in DOMAIN TicketParts(d) : TicketParts(d)[j].key = TicketParts(d)[k].key => j = k
        /\ \A a \in Range(Ids[d]) : \E k \in DOMAIN TicketParts(d) : TicketParts(d)[k].key = a
    BY <2>1, TicketPartsAre
  <2>3. /\ \A k \in DOMAIN ss[i] : ss[i][k].cost = Cost[d] /\ ss[i][k].key \in Range(Ids[d])
        /\ \A j, k \in DOMAIN ss[i] : ss[i][j].key = ss[i][k].key => j = k
        /\ id \in Range(Ids[d]) => \E k \in DOMAIN ss[i] : ss[i][k].key = id
    BY <2>1, <2>2
  <2> QED
    BY <2>3 DEF d
<1> HIDE DEF ss, X, P, T, N, M
<1>9. \A i \in N : i \in DOMAIN e /\ pos[i] \in DOMAIN ss[i] /\ ss[i][pos[i]].key = id
  BY <1>7, <1>8
<1> HIDE DEF pos
<1> DEFINE c == [i \in N |-> b[<<i, pos[i]>>]]
<1>10. /\ b \in [P -> T] /\ (\A x, y \in P : b[x] = b[y] => x = y)
       /\ \A j \in T : \E x \in P : b[x] = j
  BY Fun_BijectionProperties
<1>11. ASSUME NEW i \in N
       PROVE  /\ <<i, pos[i]>> \in P /\ c[i] = b[<<i, pos[i]>>]
              /\ c[i] \in M /\ X[c[i]].cost = Cost[e[i]]
  <2>1. <<i, pos[i]>> \in P
    BY <1>3, <1>9
  <2>2. X[b[<<i, pos[i]>>]] = ss[i][pos[i]]
    BY <1>5, <2>1
  <2>3. b[<<i, pos[i]>>] \in T
    BY <1>10, <2>1
  <2> QED
    BY <1>6, <1>8, <1>9, <2>1, <2>2, <2>3
<1>12. c = [i \in N |-> c[i]]
  OBVIOUS
<1> HIDE DEF c
<1>13. c \in [N -> M]
  BY <1>11, <1>12
<1>14. ASSUME NEW i \in N, NEW j \in N, c[i] = c[j] PROVE i = j
  <2>1. <<i, pos[i]>> = <<j, pos[j]>>
    <3>1. b[<<i, pos[i]>>] = b[<<j, pos[j]>>] /\ <<i, pos[i]>> \in P /\ <<j, pos[j]>> \in P
      BY <1>11, <1>14
    <3> QED
      BY <1>10, <3>1
  <2> QED
    BY <2>1
<1>15. ASSUME NEW j \in M PROVE \E i \in N : c[i] = j
  <2>1. PICK x \in P : b[x] = j
    BY <1>6, <1>10
  <2> DEFINE i == x[1]
             k == x[2]
  <2>2. x = <<i, k>> /\ i \in DOMAIN e /\ k \in DOMAIN ss[i]
    BY <1>3
  <2>3. ss[i][k].key = id
    BY <1>5, <1>6, <2>1
  <2> HIDE DEF i, k
  <2>4. i \in N
    BY <1>7, <1>8, <2>2, <2>3
  <2>5. pos[i] = k
    BY <1>8, <1>9, <2>2, <2>3, <2>4
  <2>6. c[i] = j
    BY <1>11, <2>1, <2>2, <2>4, <2>5
  <2> QED
    BY <2>4, <2>6
<1>16. c \in Bijection(N, M)
  BY <1>13, <1>14, <1>15, Fun_IsBij
<1> QED
  BY <1>11, <1>16 DEF N, M, X, ss

\* A ticket is charged each entry that names it, once and in full.
LEMMA TicketCharge ==
  ASSUME NEW t \in Seq(Units), NEW id
  PROVE  LET X == FlattenSeq(TicketsOf(ReadLines(t).entries))
         IN /\ Cardinality(Mine(X, id)) = Cardinality(Naming(t, id))
            /\ CostOf(X, id) = MapThenSumSet(LAMBDA i : Cost[t[i].doc], Naming(t, id))
<1> DEFINE e == ReadLines(t).entries
           X == FlattenSeq(TicketsOf(e))
           N == NamedIn(e, id)
           M == Mine(X, id)
           G == 1 .. Cardinality(GoodLines(t))
           E == EntriesAt(t)
           R == Naming(t, id)
           p == [k \in N |-> Places(t)[k]]
           w == [k \in N |-> Cost[e[k]]]
           v == [i \in R |-> Cost[t[i].doc]]
           u == [j \in M |-> X[j].cost]
<1>1. e \in Seq(Doc) /\ DOMAIN e = G
  BY EntriesTyped, EntriesAre
<1>2. /\ Places(t) \in Bijection(G, E)
      /\ \A k \in G : e[k] = t[Places(t)[k]].doc /\ e[k] \in Doc /\ Places(t)[k] \in E
  BY EntriesAre
<1>3. IsFiniteSet(E) /\ IsFiniteSet(G)
  BY EntriesFinite, EntriesAre, FS_Interval
<1>4. /\ \A k : k \in N <=> k \in G /\ id \in Range(Ids[e[k]])
      /\ \A i : i \in R <=> i \in E /\ id \in Range(Ids[t[i].doc])
  BY <1>1 DEF NamedIn, Naming
<1>5. PICK c \in Bijection(N, M) : \A k \in N : Cost[e[k]] = X[c[k]].cost
  BY <1>1, MineIsNamed
<1>6. \A i \in E : Cost[t[i].doc] \in Int
  BY BillOfText
<1> HIDE DEF e, X, N, M, G, E, R
<1>7. N \in SUBSET G /\ R \in SUBSET E /\ IsFiniteSet(N) /\ IsFiniteSet(R)
  BY <1>3, <1>4, FS_Subset
<1>8. p \in Bijection(N, R)
  <2>1. \A k \in G : k \in N <=> Places(t)[k] \in R
    BY <1>2, <1>4
  <2>2. \A i \in R : i \in E
    BY <1>4
  <2> QED
    BY <1>2, <1>7, <2>1, <2>2, BijectionPart
<1>9. \A k \in N : w[k] = v[p[k]]
  <2>1. \A k \in N : p[k] \in R
    BY <1>2, <1>4
  <2> QED
    BY <1>2, <1>4, <2>1
<1>10. \A i \in R : v[i] \in Int
  BY <1>4, <1>6
<1>11. \A k \in N : w[k] = u[c[k]]
  <2>1. \A k \in N : c[k] \in M
    BY <1>5, Fun_BijectionProperties
  <2> QED
    BY <1>5, <2>1
<1>12. \A j \in M : u[j] \in Int
  <2>1. \A j \in M : \E k \in N : c[k] = j
    BY <1>5, Fun_BijectionProperties
  <2>2. \A k \in N : Cost[e[k]] \in Int
    BY <1>2, <1>4, CostIs
  <2> QED
    BY <1>5, <2>1, <2>2
<1> HIDE DEF p, w, v, u
<1>13. Total(N, w) = Total(R, v) /\ Cardinality(R) = Cardinality(N)
  BY <1>7, <1>8, <1>9, <1>10, TotalRenamed, SameCount
<1>14. Total(N, w) = Total(M, u) /\ Cardinality(M) = Cardinality(N)
  BY <1>5, <1>7, <1>11, <1>12, TotalRenamed, SameCount
<1>15. MapThenSumSet(LAMBDA i : Cost[t[i].doc], R) = Total(R, v)
  BY <1>4, <1>6, <1>7, CostsAre DEF v
<1>16. CostOf(X, id) = Total(M, u)
  BY DEF CostOf, M, u
<1> QED
  BY <1>13, <1>14, <1>15, <1>16 DEF e, X, N, M, R

\* Every model of a ticket's row is a model of the bill.
LEMMA ModelHasRow ==
  ASSUME NEW e \in Seq(Doc), NEW id, NEW m \in ModelsUnder(e, id)
  PROVE  \E n \in DOMAIN ModelRows(e) : ModelRows(e)[n].key = m
<1> DEFINE ss == ModelPartsOf(e)
           X == FlattenSeq(ss)
           P == Pairs(ss)
           T == 1 .. Len(X)
<1>1. PICK i \in DOMAIN e : m \in ModelsOf(e[i])
  BY DEF ModelsUnder, NamedIn
<1>2. PICK k \in DOMAIN ModelContributions(e[i]) : m = ModelContributions(e[i])[k].key
  BY <1>1 DEF ModelsOf
<1>3. ss \in Seq(Seq(Rows)) /\ i \in DOMAIN ss /\ ss[i] = ModelContributions(e[i])
  BY PartsOf
<1> HIDE DEF ss
<1>4. /\ X \in Seq(Rows)
      /\ \E b \in Bijection(P, T) : \A x \in P : X[b[x]] = ss[x[1]][x[2]]
  BY <1>3, FlattenIs
<1>5. PICK b \in Bijection(P, T) : \A x \in P : X[b[x]] = ss[x[1]][x[2]]
  BY <1>4
<1>6. <<i, k>> \in P
  <2>1. ss[i] \in Seq(Rows) /\ i \in 1 .. Len(ss)
    BY <1>3
  <2>2. k \in 1 .. Len(ss[i])
    BY <1>2, <1>3, <2>1
  <2> QED
    BY <1>3, <2>1, <2>2, PairsAre
<1>7. DOMAIN X = T
  <2> HIDE DEF X
  <2> QED
    BY <1>4
<1> HIDE DEF P, T, X
<1>8. b[<<i, k>>] \in T /\ X[b[<<i, k>>]] = ss[i][k]
  BY <1>5, <1>6, Fun_BijectionProperties
<1>9. m \in Keys(X)
  BY <1>2, <1>3, <1>7, <1>8 DEF Keys
<1> QED
  BY <1>4, <1>9, RowsAre DEF ModelRows, X, ss

\* CutsAgree, of the report of a text.
LEMMA CutsOfText ==
  ASSUME NEW t \in Seq(Units)
  PROVE  LET report == Aggregate(ReadLines(t).entries)
         IN /\ SumOf(report.byLevel) = report.cost
            /\ \A k \in DOMAIN report.byTicket :
                 LET row == report.byTicket[k].row
                 IN /\ row.entries = Cardinality(Naming(t, row.key))
                    /\ row.cost = ChargeOf(t, row.key)
                    /\ \A m \in report.byTicket[k].models :
                         \E j \in DOMAIN report.byModel : report.byModel[j].key = m
<1> DEFINE e == ReadLines(t).entries
           report == Aggregate(e)
           X == FlattenSeq(TicketsOf(e))
<1>1. e \in Seq(Doc)
  BY EntriesTyped
<1>2. \A id : /\ Cardinality(Mine(X, id)) = Cardinality(Naming(t, id))
              /\ CostOf(X, id) = ChargeOf(t, id)
  BY TicketCharge DEF ChargeOf
<1> HIDE DEF e
<1>3. /\ report.cost = SumOf(LevelParts(e)) /\ report.byLevel = LevelRows(e)
      /\ DOMAIN report.byTicket = DOMAIN TicketRows(e)
      /\ \A k \in DOMAIN TicketRows(e) :
           /\ report.byTicket[k].row = TicketRows(e)[k]
           /\ report.byTicket[k].models = ModelsUnder(e, TicketRows(e)[k].key)
      /\ DOMAIN report.byModel = DOMAIN ModelRows(e)
      /\ \A k \in DOMAIN ModelRows(e) : report.byModel[k].key = ModelRows(e)[k].key
  BY AggregateIs
<1> HIDE DEF report
<1>4. SumOf(report.byLevel) = report.cost
  <2>1. LevelParts(e) \in Seq(Rows)
    BY <1>1, PartsOf
  <2>2. SumOf(LevelRows(e)) = SumOf(LevelParts(e))
    BY <2>1, RowsAre DEF LevelRows
  <2> QED
    BY <1>3, <2>2
<1>5. ASSUME NEW k \in DOMAIN report.byTicket
      PROVE  LET row == report.byTicket[k].row
             IN /\ row.entries = Cardinality(Naming(t, row.key))
                /\ row.cost = ChargeOf(t, row.key)
                /\ \A m \in report.byTicket[k].models :
                     \E j \in DOMAIN report.byModel : report.byModel[j].key = m
  <2>1. TicketsOf(e) \in Seq(Seq(Rows))
    BY <1>1, PartsOf
  <2>2. X \in Seq(Rows)
    BY <2>1, FlattenIs
  <2>3. TicketRows(e) = DearestFirst(Buckets(X))
    BY DEF TicketRows
  <2> HIDE DEF X
  <2> DEFINE row == TicketRows(e)[k]
  <2>4. row.cost = CostOf(X, row.key) /\ row.entries = Cardinality(Mine(X, row.key))
    BY <1>3, <2>2, <2>3, RowsAre
  <2>5. \A m \in ModelsUnder(e, row.key) : \E j \in DOMAIN ModelRows(e) : ModelRows(e)[j].key = m
    BY <1>1, ModelHasRow
  <2>6. report.byTicket[k].row = row /\ report.byTicket[k].models = ModelsUnder(e, row.key)
    BY <1>3
  <2> HIDE DEF row
  <2>7. /\ row.entries = Cardinality(Naming(t, row.key))
        /\ row.cost = ChargeOf(t, row.key)
    BY <1>2, <2>4
  <2>8. \A m \in report.byTicket[k].models : \E j \in DOMAIN report.byModel : report.byModel[j].key = m
    BY <1>3, <2>5, <2>6
  <2> QED
    BY <2>6, <2>7, <2>8
<1> QED
  BY <1>4, <1>5 DEF report, e

\* What goes on bills at least as much.
LEMMA BillGoesOn ==
  ASSUME NEW t \in Seq(Units), NEW g \in Seq(Units), GoesOn(t, g)
  PROVE  /\ Aggregate(ReadLines(t).entries).entries <= Aggregate(ReadLines(g).entries).entries
         /\ (\A d \in Doc : Kind[d] = "entry" => Cost[d] >= 0) =>
              Aggregate(ReadLines(t).entries).cost <= Aggregate(ReadLines(g).entries).cost
<1> DEFINE S == EntriesAt(t)
           T == EntriesAt(g)
           w == [i \in S |-> Cost[t[i].doc]]
           v == [i \in T |-> Cost[g[i].doc]]
<1>1. Len(t) \in Nat /\ Len(g) \in Nat /\ Len(t) <= Len(g) /\ \A i \in 1 .. Len(t) : t[i] = g[i]
  BY DEF GoesOn, Begins
<1>2. ASSUME NEW i \in S PROVE i \in T /\ t[i] = g[i]
  <2>1. i \in 1 .. Len(t) - 1
    BY DEF EntriesAt
  <2>2. PICK d \in Doc : /\ Kind[d] = "entry" /\ SubSeq(t, i, i + 1) = Written(d)
                         /\ i = 1 \/ t[i - 1] = NL
                         /\ i + 1 = Len(t) \/ t[i + 2] = NL
    BY DEF EntriesAt
  <2>3. i \in Nat /\ 1 <= i /\ i + 1 <= Len(t) /\ i \in 1 .. Len(t) /\ i + 1 \in 1 .. Len(t)
    BY <1>1, <2>1
  <2>4. t[i] = Part(d, 1) /\ t[i + 1] = Part(d, 2)
    BY <2>2, <2>3, PairIs
  <2>5. i \in 1 .. Len(g) /\ i + 1 <= Len(g) /\ i \in 1 .. Len(g) - 1
    BY <1>1, <2>3
  <2>6. g[i] = Part(d, 1) /\ g[i + 1] = Part(d, 2) /\ t[i] = g[i]
    BY <1>1, <2>3, <2>4
  <2>7. SubSeq(g, i, i + 1) = Written(d)
    BY <2>5, <2>6, PairIs
  <2>8. i = 1 \/ g[i - 1] = NL
    BY <1>1, <2>2, <2>3
  <2>9. i + 1 = Len(g) \/ g[i + 2] = NL
    <3>1. CASE i + 1 = Len(t)
      <4>1. t # <<>> /\ t[Len(t)].part = 2
        BY <2>3, <2>4, <3>1 DEF Part
      <4>2. Len(g) > Len(t) => g[i + 2] = NL
        <5>1. Len(t) + 1 = i + 2
          BY <2>3, <3>1
        <5> QED
          BY <4>1, <5>1 DEF GoesOn
      <4> QED
        BY <1>1, <3>1, <4>2
    <3>2. CASE i + 1 # Len(t)
      <4>1. i + 2 \in 1 .. Len(t) /\ t[i + 2] = NL
        BY <1>1, <2>2, <2>3, <3>2
      <4> QED
        BY <1>1, <4>1
    <3> QED
      BY <3>1, <3>2
  <2> QED
    BY <2>2, <2>5, <2>6, <2>7, <2>8, <2>9 DEF EntriesAt
<1>3. /\ IsFiniteSet(S) /\ IsFiniteSet(T) /\ Cardinality(S) \in Nat /\ Cardinality(T) \in Nat
  BY EntriesFinite
<1>4. /\ Aggregate(ReadLines(t).entries).cost = Total(S, w)
      /\ Aggregate(ReadLines(t).entries).entries = Cardinality(S)
      /\ Aggregate(ReadLines(g).entries).cost = Total(T, v)
      /\ Aggregate(ReadLines(g).entries).entries = Cardinality(T)
  BY BillOfText
<1>5. \A i \in T : g[i].doc \in Doc /\ Kind[g[i].doc] = "entry" /\ Cost[g[i].doc] \in Int
  BY BillOfText
<1>6. \A i \in S : w[i] = v[i]
  BY <1>2
<1>7. \A i \in T : v[i] = Cost[g[i].doc]
  OBVIOUS
<1> HIDE DEF S, T, w, v
<1>8. S \in SUBSET T
  BY <1>2
<1>9. Cardinality(S) <= Cardinality(T)
  BY <1>3, <1>8, FS_Subset
<1>10. ASSUME \A d \in Doc : Kind[d] = "entry" => Cost[d] >= 0 PROVE Total(S, w) <= Total(T, v)
  <2>1. Total(S, w) = Total(S, v)
    BY <1>6, TotalAgrees
  <2>2. \A i \in T : v[i] \in Int /\ v[i] >= 0
    BY <1>5, <1>7, <1>10
  <2>3. Total(S, v) <= Total(T, v)
    BY <1>3, <1>8, <2>2, TotalGrows
  <2> QED
    BY <2>1, <2>3
<1> QED
  BY <1>4, <1>9, <1>10

\* An answer made of lines that were read.
LEMMA BilledIs ==
  ASSUME NEW result
  PROVE  /\ Billed(result).report = Aggregate(result.entries)
         /\ Billed(result).skipped = result.skipped /\ Billed(result).omitted = result.omitted
BY DEF Billed, Spent

\* The bill is a number.
LEMMA BillTyped ==
  ASSUME NEW t \in Seq(Units)
  PROVE  /\ Aggregate(ReadLines(t).entries).entries \in Int
         /\ Aggregate(ReadLines(t).entries).cost \in Int
<1> DEFINE S == EntriesAt(t)
           w == [i \in S |-> Cost[t[i].doc]]
<1>1. /\ Aggregate(ReadLines(t).entries).cost = Total(S, w)
      /\ Aggregate(ReadLines(t).entries).entries = Cardinality(S)
      /\ \A i \in S : w[i] \in Int
  BY BillOfText
<1>2. IsFiniteSet(S) /\ Cardinality(S) \in Nat
  BY EntriesFinite
<1> HIDE DEF S, w
<1> QED
  BY <1>1, <1>2, TotalType

-----------------------------------------------------------------------------
(* The theorems.                                                           *)

\* The inductive invariant.
THEOREM Invariance == Spec => []IInv
BY InitInv, NextInv, PTL DEF Spec

\* FactoryReads' type invariant: a reader never holds more than one unit over the cap,
\* however long the file grows between its stat and its read (bounded_read.py's
\* read(max_bytes + 1)).
THEOREM TypeCorrect == Spec => []TypeOK
<1>1. IInv => TypeOK
  <2> SUFFICES ASSUME IInv PROVE TypeOK
    OBVIOUS
  <2>1. /\ disk \in [Files -> Node] /\ handle.outcome \in Outcomes
        /\ handle.at \in {"idle", "open", "stat", "read", "back"} /\ handle.got \in Seq(Units)
        /\ moves \in 0 .. MaxMoves /\ faults \in 0 .. MaxFaults
    BY DEF IInv, ReadInv, Types, Handles, HandlePlaces
  <2>2. Len(handle.got) <= MaxBytes + 1
    BY DEF IInv, ReadInv, GotInv, Bytes
  <2>3. request.asks = "runs" => \A k \in DOMAIN request.answers : request.answers[k].reason \in Reasons
    <3>1. SUFFICES ASSUME request.answers \in Seq(Artifacts), NEW k \in DOMAIN request.answers
                   PROVE  request.answers[k].reason \in Reasons
      BY DEF IInv, AnswerInv
    <3>2. request.answers[k] \in Artifacts
      BY <3>1
    <3> QED
      BY <3>2 DEF Artifacts
  <2> QED
    BY <2>1, <2>2, <2>3 DEF TypeOK, IInv, ReadInv, RequestInv
<1> QED
  BY <1>1, Invariance, PTL

\* A file that stood still while it was read, with no call failing, is answered for
\* exactly: find_ledger_path, the containment check and read_bounded, call by call, make
\* of it what its node is, a file of exactly the cap included.
THEOREM QuietExact == Spec => []QuietReadIsExact
<1>1. IInv => QuietReadIsExact
  <2> SUFFICES ASSUME IInv, NEW n \in seen, seen = {n}, faults = 0
               PROVE  /\ Answered => Spend.found = QuietSpend(n).found /\ Spend.read = QuietSpend(n).read
                      /\ Recorded => LastRecord.reason = QuietReason(n)
    BY DEF QuietReadIsExact
  <2>1. Quiet
    BY DEF Quiet, Several
  <2> QED
    BY <2>1 DEF IInv, AnswerInv, QuietAnswers
<1> QED
  BY <1>1, Invariance, PTL

\* What the two endpoints say of a file was true of it at some moment since the request
\* first looked: "no ledger" and "absent" are never said of a file that was there all
\* along, a measured bill is the sum and the count of the complete entries of one state
\* of the file, "too large" names a text over the cap, the fields of a record are those
\* of one document that was there whole, and "unreadable" has a cause.
THEOREM ClaimsTrue == Spec => []ClaimsAreTrue
<1>1. ASSUME IInv, Measured
      PROVE  \E n \in seen : /\ n.kind = "file" /\ Len(n.text) <= MaxBytes
                            /\ Spend.report.cost = BillOf(n.text)
                            /\ Spend.report.entries = Cardinality(EntriesAt(n.text))
  <2>1. PICK n \in seen : /\ n.kind = "file" /\ Len(n.text) <= MaxBytes
                          /\ Spend = Billed(ReadLines(n.text))
    BY <1>1 DEF IInv, AnswerInv, BilledOneState
  <2> DEFINE t == n.text
             e == ReadLines(t).entries
  <2>2. t \in Seq(Units)
    BY <1>1 DEF IInv, ReadInv, SeenInv, Node
  <2>3. Spend.report = Aggregate(e)
    BY <2>1, BilledIs
  <2>4. Aggregate(e).cost = BillOf(t) /\ Aggregate(e).entries = Cardinality(EntriesAt(t))
    BY <2>2, BillOfText
  <2> HIDE DEF e
  <2> QED
    BY <2>1, <2>3, <2>4
<1>2. IInv => ClaimsAreTrue
  BY <1>1 DEF IInv, AnswerInv, ClaimsAreTrue, BillIsOfOneState
<1> QED
  BY <1>2, Invariance, PTL

\* However the factory appends, renames or rewrites while read_bounded reads in parts, a
\* measured spend is what read_ledger makes of the whole text of one state of the ledger,
\* a regular file within the cap: never of a mixture of two, nor of a text cut short.
THEOREM BillsOneState == Spec => []BilledOneState
<1>1. IInv => BilledOneState
  BY DEF IInv, AnswerInv
<1> QED
  BY <1>1, Invariance, PTL

\* The ledger under a client that asks again, in every behaviour.
THEOREM GrowthInvariance == Spec => [](IInv /\ GrowthInv)
<1>1. Init => IInv /\ GrowthInv
  BY InitInv, InitGrowth
<1>2. (IInv /\ GrowthInv) /\ [Next]_vars => (IInv /\ GrowthInv)'
  BY NextInv, NextGrowth DEF IInv
<1> QED
  BY <1>1, <1>2, PTL DEF Spec

\* A measured spend is the bill of what its read returned.
LEMMA MeasuredIs ==
  ASSUME IInv, GrowthInv, Measured
  PROVE  /\ handle.got \in Seq(Units) /\ WholeRead /\ Spend = Billed(ReadLines(handle.got))
         /\ Spend.report = Aggregate(ReadLines(handle.got).entries)
         /\ Spend.skipped = ReadLines(handle.got).skipped
         /\ Spend.omitted = ReadLines(handle.got).omitted
<1>1. handle.got \in Seq(Units)
  BY DEF IInv, ReadInv, Types, Handles
<1>2. WholeRead /\ Spend = Billed(ReadLines(handle.got))
  BY DEF GrowthInv, MeasuredInv, Measured
<1> QED
  BY <1>1, <1>2, BilledIs

\* read_ledger and aggregate account for every line of what was read: the entries, the
\* skips and the omitted add up to its lines; the levels add up to the bill; a ticket is
\* charged each entry that names it, once and in full, and its models are models of the
\* bill; and the same entries in any other order are the same report.
THEOREM ReportExact == Spec => []ReportIsExact
<1>1. ASSUME IInv, GrowthInv, Measured
      PROVE  LET t == handle.got
                 lines == Cardinality(Newlines(t)) + IF t = <<>> \/ Terminated(t) THEN 0 ELSE 1
             IN /\ Spend.report.entries + Len(Spend.skipped) + Spend.omitted = lines
                /\ Len(Spend.skipped) <= MAX_SKIPPED_LINES
                /\ \A k \in DOMAIN Spend.skipped :
                     /\ k > 1 => Spend.skipped[k].lineNo > Spend.skipped[k - 1].lineNo
                     /\ Spend.skipped[k].reason = "partial_line" =>
                          Spend.skipped[k].lineNo = lines /\ ~Terminated(t)
  <2> DEFINE t == handle.got
             r == ReadLines(t)
  <2>1. /\ t \in Seq(Units) /\ Spend.report = Aggregate(r.entries)
        /\ Spend.skipped = r.skipped /\ Spend.omitted = r.omitted
    BY <1>1, MeasuredIs
  <2>2. Spend.report.entries = Len(r.entries)
    BY <2>1, AggregateIs
  <2>3. /\ Len(r.entries) + Len(r.skipped) + r.omitted = LineCount(t)
        /\ Len(r.skipped) <= MAX_SKIPPED_LINES
        /\ \A k \in DOMAIN r.skipped :
             /\ k > 1 => r.skipped[k].lineNo > r.skipped[k - 1].lineNo
             /\ r.skipped[k].reason = "partial_line" =>
                  r.skipped[k].lineNo = LineCount(t) /\ ~Terminated(t)
    BY <2>1, LinesAccounted
  <2> HIDE DEF r
  <2> QED
    BY <2>1, <2>2, <2>3 DEF LineCount
<1>2. ASSUME IInv, GrowthInv, Measured
      PROVE  LET report == Spend.report
                 Named(id) == {i \in EntriesAt(handle.got) : id \in Range(Ids[handle.got[i].doc])}
             IN /\ SumOf(report.byLevel) = report.cost
                /\ \A k \in DOMAIN report.byTicket :
                     LET row == report.byTicket[k].row
                     IN /\ row.entries = Cardinality(Named(row.key))
                        /\ row.cost = MapThenSumSet(LAMBDA i : Cost[handle.got[i].doc], Named(row.key))
                        /\ \A m \in report.byTicket[k].models :
                             \E j \in DOMAIN report.byModel : report.byModel[j].key = m
  <2>1. handle.got \in Seq(Units) /\ Spend.report = Aggregate(ReadLines(handle.got).entries)
    BY <1>2, MeasuredIs
  <2> DEFINE t == handle.got
             report == Aggregate(ReadLines(t).entries)
  <2>2. /\ SumOf(report.byLevel) = report.cost
        /\ \A k \in DOMAIN report.byTicket :
             LET row == report.byTicket[k].row
             IN /\ row.entries = Cardinality(Naming(t, row.key))
                /\ row.cost = ChargeOf(t, row.key)
                /\ \A m \in report.byTicket[k].models :
                     \E j \in DOMAIN report.byModel : report.byModel[j].key = m
    BY <2>1, CutsOfText
  <2> HIDE DEF report
  <2>3. /\ SumOf(Spend.report.byLevel) = Spend.report.cost
        /\ \A k \in DOMAIN Spend.report.byTicket :
             LET row == Spend.report.byTicket[k].row
             IN /\ row.entries = Cardinality(Naming(t, row.key))
                /\ row.cost = ChargeOf(t, row.key)
                /\ \A m \in Spend.report.byTicket[k].models :
                     \E j \in DOMAIN Spend.report.byModel : Spend.report.byModel[j].key = m
    BY <2>1, <2>2 DEF report
  <2> QED
    BY <2>3 DEF Naming, ChargeOf
<1>3. ASSUME IInv, GrowthInv, Measured
      PROVE  LET entries == ReadLines(handle.got).entries
             IN \A p \in Bijection(DOMAIN entries, DOMAIN entries) :
                  Aggregate([k \in DOMAIN entries |-> entries[p[k]]]) = Spend.report
  <2> DEFINE e == ReadLines(handle.got).entries
  <2>1. handle.got \in Seq(Units) /\ Spend.report = Aggregate(e)
    BY <1>3, MeasuredIs
  <2>2. e \in Seq(Doc)
    BY <2>1, EntriesTyped
  <2> HIDE DEF e
  <2>3. \A p \in Bijection(DOMAIN e, DOMAIN e) : Aggregate([k \in DOMAIN e |-> e[p[k]]]) = Spend.report
    BY <2>1, <2>2, SameEntries
  <2> QED
    BY <2>3 DEF e
<1>4. IInv /\ GrowthInv => EveryLineAccounted
  BY <1>1 DEF EveryLineAccounted
<1>5. IInv /\ GrowthInv => CutsAgree
  BY <1>2 DEF CutsAgree
<1>6. IInv /\ GrowthInv => OrderDoesNotMatter
  BY <1>3 DEF OrderDoesNotMatter
<1>7. IInv /\ GrowthInv => ReportIsExact
  BY <1>4, <1>5, <1>6 DEF ReportIsExact
<1> QED
  BY <1>7, GrowthInvariance, PTL

\* A client that asks again while the ledger is only appended to is never shown less:
\* whatever part of a line each of its two reads caught, the second reads on from the
\* first, so each line billed is billed again.
THEOREM BillGrows == Spec => []BillNeverShrinks
<1>1. ASSUME IInv, GrowthInv, Measured, before # <<>>, before[1].read, ~torn
      PROVE  /\ (\A d \in Doc : Kind[d] = "entry" => Cost[d] >= 0) =>
                   Spend.report.cost >= before[1].report.cost
             /\ Spend.report.entries >= before[1].report.entries
  <2> DEFINE g == handle.got
  <2>1. g \in Seq(Units) /\ WholeRead /\ Spend.report = Aggregate(ReadLines(g).entries)
    BY <1>1, MeasuredIs
  <2>2. ReadBefore
    BY <1>1 DEF ReadBefore
  <2>3. PICK t \in Seq(Units) : BilledBefore(t)
    BY <1>1, <2>2 DEF GrowthInv, BeforeInv
  <2>4. before[1].report = Aggregate(ReadLines(t).entries) /\ GoesOn(t, g)
    BY <2>1, <2>3, BilledIs DEF BilledBefore
  <2> HIDE DEF g
  <2> DEFINE a == Aggregate(ReadLines(t).entries)
             b == Aggregate(ReadLines(g).entries)
  <2>5. /\ a.entries <= b.entries
        /\ (\A d \in Doc : Kind[d] = "entry" => Cost[d] >= 0) => a.cost <= b.cost
    BY <2>1, <2>4, BillGoesOn
  <2>6. a.entries \in Int /\ b.entries \in Int /\ a.cost \in Int /\ b.cost \in Int
    BY <2>1, BillTyped
  <2> HIDE DEF a, b
  <2>7. Spend.report = b /\ before[1].report = a
    BY <2>1, <2>4 DEF a, b
  <2> QED
    BY <2>5, <2>6, <2>7
<1>2. IInv /\ GrowthInv => BillNeverShrinks
  <2> SUFFICES ASSUME IInv, GrowthInv, Measured /\ before # <<>> /\ before[1].read /\ ~torn
               PROVE  /\ (\A d \in Doc : Kind[d] = "entry" => Cost[d] >= 0) =>
                            Spend.report.cost >= before[1].report.cost
                      /\ Spend.report.entries >= before[1].report.entries
    BY DEF BillNeverShrinks
  <2> QED
    BY <1>1
<1> QED
  BY <1>2, GrowthInvariance, PTL
=============================================================================
