------------------------- MODULE MCOpenCodeIngest ---------------------------
(***************************************************************************)
(* A small OpenCode store: one assistant message with one part, on a host  *)
(* that has the tree, the database, or the one and then the other.         *)
(***************************************************************************)
EXTENDS OpenCodeIngest

CONSTANTS m1, t1

TreeThenDB   == <<"tree", "db">>
ParentOf     == [t \in Parts |-> m1]
AllAssistant == [m \in Messages |-> "assistant"]
\* Empty, partial and complete for the message; empty and full for the part.
Versions     == [a \in Artifacts |-> IF a \in Messages THEN 3 ELSE 2]
=============================================================================
