--------------------------- MODULE MCRefTracker -----------------------------
(***************************************************************************)
(* Small transcripts for RefTracker.  The identifiers play one role, so    *)
(* they may be exchanged.                                                  *)
(***************************************************************************)
EXTENDS RefTracker, TLC

AnyIdent == Permutations(Idents)
=============================================================================
