-------------------------- MODULE MCFactoryReads --------------------------
(***************************************************************************)
(* A ledger of up to three lines, of which two bill the same tickets with  *)
(* equal cost, and the artefacts of one ticket next to an id that is not   *)
(* a path segment.                                                         *)
(***************************************************************************)
EXTENDS FactoryReads

MCDoc == {"build", "review", "note", "junk"}
MCKind == [build |-> "entry", review |-> "entry", note |-> "object", junk |-> "junk"]
MCCost == [build |-> 2, review |-> 2, note |-> 0, junk |-> 0]
MCLevel == [build |-> 2, review |-> 1, note |-> 0, junk |-> 0]
MCIds == [build |-> <<4, 4>>, review |-> <<3, 4>>, note |-> <<>>, junk |-> <<>>]
MCModel == [build |-> 7, review |-> 6, note |-> 0, junk |-> 0]
MCByModel == [build |-> <<>>, review |-> <<[key |-> 8, cost |-> 1], [key |-> 7, cost |-> 1]>>,
              note |-> <<>>, junk |-> <<>>]
MCShown == [build |-> {"status"}, review |-> {"status"}, note |-> {"pr_url", "status"}, junk |-> {}]

MCManifest == <<"t1", "..">>
MCUnsafe == {".."}
MCFile(t) == [Empty EXCEPT !.kind = "file", !.text = t]
MCLine(d) == Written(d) \o <<NL>>
MCLedgers == {
  Empty, [Empty EXCEPT !.locked = TRUE], [Empty EXCEPT !.kind = "other"],
  [MCFile(<<>>) EXCEPT !.outside = TRUE], [MCFile(MCLine("build")) EXCEPT !.denied = TRUE],
  MCFile(<<>>), MCFile(MCLine("build")),
  MCFile(MCLine("build") \o Written("review")),
  MCFile(MCLine("note") \o MCLine("junk") \o <<Part("build", 1)>>),
  MCFile(MCLine("build") \o MCLine("review") \o <<NL>>)}
MCArtifacts == {
  Empty, MCFile(Written("note")), MCFile(<<Part("note", 1)>>),
  [MCFile(Written("note")) EXCEPT !.outside = TRUE],
  MCFile(MCLine("note") \o MCLine("note") \o Written("junk"))}
MCFirstNodes == [f \in Files |-> IF f = LEDGER THEN MCLedgers ELSE IF f[1] = ".." THEN {Empty} ELSE MCArtifacts]
MCWrites == [f \in Files |-> IF f = LEDGER THEN {"review", "junk"} ELSE {"note", "build"}]
MCAppendOnly == {LEDGER}
=============================================================================
