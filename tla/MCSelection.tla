---------------------------- MODULE MCSelection ----------------------------
(***************************************************************************)
(* Model checking of Selection.                                            *)
(***************************************************************************)
EXTENDS Selection, TLC

\* Requests and ids are interchangeable; so are the directories other than the
\* pinned one, of which the instances have one.
Symmetry == Permutations(Requests) \cup Permutations(Ids)
=============================================================================
