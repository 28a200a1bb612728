--------------------------- MODULE MCSqliteStore ---------------------------
(***************************************************************************)
(* Two processes, one of them a build ahead, and three calls.              *)
(***************************************************************************)
EXTENDS SqliteStore
CONSTANTS old, new, c1, c2, c3, p
MCKnows == [x \in Process |-> IF x = new THEN 2 ELSE 1]
MCProcessOf == [c \in Conn |-> IF c = c3 THEN new ELSE old]
MCAsks == [c \in Conn |-> CASE c = c1 -> {"add"}
                          [] c = c2 -> {"remove", "current"}
                          [] OTHER -> {"add", "remove", "select", "list"}]
MCDenotes == [s \in Spelling |-> IF s = "relative" THEN NoPath ELSE p]
=============================================================================
