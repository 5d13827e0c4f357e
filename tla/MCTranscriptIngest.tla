------------------------ MODULE MCTranscriptIngest --------------------------
(***************************************************************************)
(* Small transcripts for TranscriptIngest: one that the harness writes, a  *)
(* second that starts as its copy, and lines that let a file repeat a call,*)
(* refer twice to a result, or name its session.                           *)
(***************************************************************************)
EXTENDS TranscriptIngest

CONSTANTS a, b, c1, r1, t1, t2, t3

Line(kind, key, session) == [kind |-> kind, key |-> key, session |-> session]

Rows == {Line("call", c1, a), Line("result", r1, a), Line("quote", r1, a)}

\* Two titles of the harness, of which the second does not say whose it is and
\* names the copy where it stands there, and one of the user.
TitleLines == {Line("ai-title", t1, a), Line("ai-title", t2, NoSession), Line("custom-title", t3, a)}

SomeLines == Rows \cup TitleLines

TwoFiles == <<a, b>>

\* Three lines, of which the titles are in a transcript of their own: nothing
\* relates them to the rows.  The copy is not written to: a session that was
\* forked and left.
ShortTexts == [f \in Files |-> IF f = a THEN SeqOf(Rows, 3) \cup SeqOf(TitleLines, 3) ELSE {}]
=============================================================================
