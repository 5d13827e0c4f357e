--------------------------- MODULE MCSessionViewer ---------------------------
(***************************************************************************)
(* Small browsers: every transcript of one short line under every query,   *)
(* and a few sessions that are written to while they are searched and      *)
(* read.                                                                   *)
(***************************************************************************)
EXTENDS SessionViewer

CONSTANTS
    MinQuery, MaxQuery, MaxText    \* bounds on the inputs

Three == {"one", "two", "rows"}

Kinds == [one |-> "claude_code", two |-> "claude_code", rows |-> "opencode"]

Stored ==
    [one  |-> [project |-> "p", last |-> 1, title |-> FALSE],
     two  |-> [project |-> "q", last |-> 2, title |-> TRUE],
     rows |-> [project |-> "q", last |-> 3, title |-> FALSE]]

\* Two letters, a character that JSON escapes, and one the viewer adds.
Letters == {"a", "b", "quote"}
AllLetters == Letters \cup {"space", "escape", "comma", "newline"}
Texts   == BoundedSeq(Letters, MaxText)
Queries == {q \in BoundedSeq(Letters \cup {"space"}, MaxQuery) : Len(q) >= MinQuery}

Line(kind, blocks, half) == [kind |-> kind, blocks |-> blocks, half |-> half]

Hit  == Line("text", <<<<"a", "b">>>>, FALSE)
Miss == Line("text", <<<<"b">>>>, FALSE)
Part == Line("text", <<<<"b">>>>, TRUE)      \* half of something
Step1 == Line("none", <<<<"a", "b">>>>, FALSE)
Two  == Line("text", <<<<"b">>, <<"a", "b">>>>, FALSE)

\* A message, a progress line of which there is half, a hit.
Written == {Hit, Part}

None == [one |-> <<>>, two |-> <<<<>>, <<>>>>, rows |-> <<<<>>>>]

Asked(q, project, since, limit) ==
    [query |-> q, project |-> project, since |-> since, limit |-> limit]

Short ==
    {[files |-> [None EXCEPT !.one = <<<<Line(kind, <<text>>, FALSE)>>>>],
      ask |-> Asked(q, "p", 0, 0), writes |-> 0] :
        kind \in {"text", "composed"}, text \in Texts, q \in Queries}

Sought == <<"a", "b">>

Live ==
    {[files |-> [None EXCEPT !.one = <<<<Step1, Two>>>>], ask |-> Asked(Sought, "p", 0, 0), writes |-> 2],
     [files |-> [None EXCEPT !.one = <<<<Line("none", <<<<"a", "b">>>>, TRUE)>>>>],
      ask |-> Asked(Sought, "p", 0, 0), writes |-> 2],
     [files |-> [None EXCEPT !.two = <<<<Miss>>, <<Hit>>>>, !.rows = <<<<Part, Hit>>>>],
      ask |-> Asked(Sought, "q", 2, 0), writes |-> 1],
     [files |-> [None EXCEPT !.one = <<<<Hit>>>>, !.two = <<<<Miss>>, <<>>>>],
      ask |-> Asked(Sought, "", 0, 2), writes |-> 1],
     [files |-> [None EXCEPT !.one = <<<<Hit, Miss>>>>], ask |-> Asked(<<>>, "", 0, 0), writes |-> 2]}

Inputs == Short \cup Live
=============================================================================
