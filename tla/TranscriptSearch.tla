-------------------------- MODULE TranscriptSearch ---------------------------
(***************************************************************************)
(* Searching the sessions of the browser for a text                        *)
(* (internal/transcript/search.go, transcript.go, opencode_db.go): one     *)
(* goroutine per session, as many at a time as there are slots.  A raw     *)
(* pass over the bytes decides whether the session is worth parsing, then  *)
(* the entries of the viewer are searched.  The raw pass over a Claude     *)
(* Code file reads as much as the system hands out and keeps the end of    *)
(* what it read for a match that straddles two reads; the one over an      *)
(* OpenCode database is a query.  The harness writes on meanwhile.         *)
(***************************************************************************)
EXTENDS Integers, Sequences, FiniteSets, SequencesExt

CONSTANTS
    Sessions,
    Alphabet,      \* the characters of a text
    Source,        \* session -> "claude_code" (files) or "opencode" (a database)
    Chunk,         \* bytes of the read buffer, the kept ones not counted
    Slots,         \* searches that run at a time (8)
    maxHits        \* hits returned of a session (3)

\* A line of a file, or a part of a database.
TranscriptLine == [kind : {"text", "composed", "none"}, blocks : Seq(Seq(Alphabet)), half : BOOLEAN]

ASSUME SearchAssumption ==
    /\ {"quote", "escape", "comma", "newline", "space"} \subseteq Alphabet
    /\ Source \in [Sessions -> {"claude_code", "opencode"}]
    /\ Chunk \in Nat \ {0} /\ Slots \in Nat \ {0} /\ maxHits \in Nat \ {0}

VARIABLES
    files,         \* session -> its files, each a sequence of lines
    gone,          \* sessions whose files, or rows, were removed
    query,
    scan           \* session -> the state of its search

searchVars == <<files, gone, query, scan>>
-----------------------------------------------------------------------------
Occurs(s, t) == \E i \in 0 .. (Len(t) - Len(s)) : SubSeq(t, i + 1, i + Len(s)) = s

Escaped(text) ==
    FlattenSeq([i \in DOMAIN text |->
        IF text[i] = "quote" THEN <<"escape", "quote">> ELSE <<text[i]>>])

\* A line of the file, or a part of the database, as its writer escaped it.
Raw(line) ==
    FlattenSeq([i \in DOMAIN line.blocks |-> Escaped(line.blocks[i]) \o <<"comma">>])

\* An entry per block.  A composed one says more than the block does:
\* "compaction (auto, pre: 9 tokens)", "[image]", an indented tool input.
Text(kind, text) == IF kind = "composed" THEN text \o <<"space">> ELSE text

Blocks(line) == [i \in DOMAIN line.blocks |-> Text(line.kind, line.blocks[i])]

\* Mutant: a line that does not parse is shown as it stands.
EntriesOfHalf(s, line) ==
    IF line.half /\ Source[s] = "claude_code" THEN <<Raw(line)>>
    ELSE IF line.kind = "none" THEN <<>> ELSE Blocks(line)

\* A half-written line of a file does not parse.  A half-written part of the
\* database is a tool that runs: its call is shown and its result not yet.
\* Progress lines and step markers have no entry.
EntriesOf(s, line) ==
    IF line.kind = "none" \/ (line.half /\ Source[s] = "claude_code")
    THEN <<>> ELSE Blocks(line)

EntriesIn(s, lines) == FlattenSeq([i \in DOMAIN lines |-> EntriesOf(s, lines[i])])

Entries(s, fs) == FlattenSeq([f \in DOMAIN fs |-> EntriesIn(s, fs[f])])

Bytes(lines) ==
    FlattenSeq([i \in DOMAIN lines |->
        IF lines[i].half THEN Raw(lines[i]) ELSE Raw(lines[i]) \o <<"newline">>])

File(s, f) == Bytes(files[s][f])

\* Positions in the ordering of Load, which counts from 0.
Matching(es) ==
    FlattenSeq([i \in DOMAIN es |-> IF Occurs(query, es[i]) THEN <<i - 1>> ELSE <<>>])

fastPathOK == \A i \in DOMAIN query : query[i] # "quote"

Locate(s) == s \notin gone
-----------------------------------------------------------------------------
Unsearched == [pc |-> "off", file |-> 0, read |-> 0, buf |-> <<>>, matches |-> 0, hits |-> <<>>]

Queued == [Unsearched EXCEPT !.pc = "queued"]

\* Mutant: a search that failed keeps its slot.
BusyFailed == {s \in Sessions : scan[s].pc \in {"start", "open", "scan", "rows", "load", "failed"}}

Busy == {s \in Sessions : scan[s].pc \in {"start", "open", "scan", "rows", "load"}}

Goto(s, pc) == scan' = [scan EXCEPT ![s].pc = pc]

Search(s) ==
    /\ scan[s].pc = "queued" /\ Cardinality(Busy) < Slots
    /\ Goto(s, IF fastPathOK THEN "start" ELSE "load")
    /\ UNCHANGED <<files, gone, query>>

rawMatch(s) ==
    /\ scan[s].pc = "start"
    /\ Goto(s, IF ~Locate(s) THEN "failed"
               ELSE IF Source[s] = "claude_code" THEN "open" ELSE "rows")
    /\ UNCHANGED <<files, gone, query>>

\* The next file of the session, until one holds the text.
OpenFile(s) ==
    /\ scan[s].pc = "open"
    /\ scan' = [scan EXCEPT ![s] =
          IF @.file = Len(files[s]) THEN [@ EXCEPT !.pc = "done"]
          ELSE IF s \in gone THEN [@ EXCEPT !.pc = "failed"]
          ELSE [@ EXCEPT !.pc = "scan", !.file = scan[s].file + 1, !.read = 0, !.buf = <<>>]]
    /\ UNCHANGED <<files, gone, query>>

\* Mutant: the last byte that can start a match is not kept.
KeepLess == Len(query) - 2

\* len(needle) - 1
Keep == Len(query) - 1

Room(s) == Chunk + Keep - Len(scan[s].buf)

\* Mutant: what was read is kept until the buffer is full.
CarryAll(chunk) == chunk

Carry(chunk) ==
    IF Keep > 0 /\ Len(chunk) > Keep
    THEN SubSeq(chunk, Len(chunk) - Keep + 1, Len(chunk)) ELSE chunk

\* A read returns one byte at least, and none when there is no room for it.
\* What the harness has written by then is read too.
ReadChunk(s) ==
    /\ scan[s].pc = "scan" /\ Room(s) > 0
    /\ LET bytes == File(s, scan[s].file)
           read  == scan[s].read
       IN  \E n \in 1 .. Room(s) :
             LET chunk == scan[s].buf \o SubSeq(bytes, read + 1, read + n)
             IN  /\ read + n <= Len(bytes)
                 /\ scan' = [scan EXCEPT ![s] =
                       IF Occurs(query, chunk)
                       THEN [@ EXCEPT !.pc = "load", !.buf = <<>>, !.read = 0]
                       ELSE [@ EXCEPT !.buf = Carry(chunk), !.read = read + n]]
    /\ UNCHANGED <<files, gone, query>>

\* End of file, which a read into no room at all does not report.
EndOfFile(s) ==
    /\ scan[s].pc = "scan" /\ Room(s) > 0
    /\ scan[s].read = Len(File(s, scan[s].file))
    /\ scan' = [scan EXCEPT ![s].pc = "open", ![s].buf = <<>>, ![s].read = 0]
    /\ UNCHANGED <<files, gone, query>>

\* One query over the parts of the session.
rawMatchOpenCodeDB(s) ==
    /\ scan[s].pc = "rows"
    /\ Goto(s, IF /\ s \notin gone
                  /\ \E f \in DOMAIN files[s] : \E i \in DOMAIN files[s][f] :
                        Occurs(query, Raw(files[s][f][i]))
               THEN "load" ELSE "done")
    /\ UNCHANGED <<files, gone, query>>

\* Load reads the files again, as they are now.
LoadEntries(s) ==
    /\ scan[s].pc = "load"
    /\ IF ~Locate(s) THEN Goto(s, "failed")
       ELSE LET found == Matching(Entries(s, files[s]))
            IN  scan' = [scan EXCEPT ![s].pc = "done", ![s].matches = Len(found),
                   ![s].hits = SubSeq(found, 1, IF Len(found) < maxHits THEN Len(found) ELSE maxHits)]
    /\ UNCHANGED <<files, gone, query>>

SearchStep(s) ==
    \/ Search(s) \/ rawMatch(s) \/ OpenFile(s) \/ ReadChunk(s) \/ EndOfFile(s)
    \/ rawMatchOpenCodeDB(s) \/ LoadEntries(s)
=============================================================================
