---------------------------- MODULE SessionViewer ----------------------------
(***************************************************************************)
(* The session browser (internal/serve/serve.go, api.go): a request lists  *)
(* the newest sessions under its filters and, when it has a query, has     *)
(* every one of them searched at the same time (TranscriptSearch); a       *)
(* reader then goes through the transcript of a session page by page.      *)
(* The harness writes to the transcripts, and removes them, all the while. *)
(***************************************************************************)
EXTENDS TranscriptSearch

CONSTANTS
    Catalog,                 \* session -> [project, last, title], its row of the store
    NewLines,                \* lines a harness may write
    Scenarios,               \* [files, ask, writes] the runs start from
    scanLimit,               \* sessions a search looks at (300)
    listLimit,               \* sessions a page lists (100)
    Limits,                  \* page sizes a reader may ask for
    defaultTranscriptPage    \* entries of a page (500)

ASSUME ViewerAssumption ==
    /\ scanLimit \in Nat \ {0} /\ listLimit \in Nat \ {0}
    /\ defaultTranscriptPage \in Nat \ {0} /\ Limits \subseteq Nat
    /\ IsFiniteSet(Sessions) /\ "none" \notin Sessions
    /\ Catalog \in [Sessions -> [project : STRING, last : Int, title : BOOLEAN]]

\* A harness appends to a transcript: only its last line may be half there.
HalfLast(lines) == \A i \in DOMAIN lines : lines[i].half => i = Len(lines)

ASSUME TranscriptAssumption ==
    /\ NewLines \subseteq TranscriptLine
    /\ \A c \in Scenarios :
          /\ c.files \in [Sessions -> Seq(Seq(TranscriptLine))]
          /\ \A s \in Sessions : Source[s] = "claude_code" =>
                \A f \in DOMAIN c.files[s] : HalfLast(c.files[s][f])
          /\ c.ask.query \in Seq(Alphabet)
          /\ c.ask.limit \in Nat

VARIABLES
    ask,           \* the request: [project, since, limit]
    writes,        \* lines the harness may still write (a bound)
    list,          \* the sessions the request looks at
    was,           \* the files at the time the request came in
    rows,          \* the answer: a sequence of [key, matches, hits]
    pc,
    page           \* what the reader has got of a transcript

viewVars == <<searchVars, ask, writes, list, was, rows, pc, page>>
-----------------------------------------------------------------------------
\* The newest sessions of the store under the filters, newest first.  Those of
\* one time come in any order.
SessionList(limit) ==
    LET found == {s \in Sessions :
            /\ ask.project \in {"", Catalog[s].project}
            /\ Catalog[s].last >= ask.since}
        n == IF Cardinality(found) < limit THEN Cardinality(found) ELSE limit
    IN  {l \in [1 .. n -> found] :
            /\ \A i, j \in 1 .. n : i < j =>
                  l[i] # l[j] /\ Catalog[l[i]].last >= Catalog[l[j]].last
            /\ \A i \in 1 .. n : \A s \in found \ ToSet(l) : Catalog[l[i]].last >= Catalog[s].last}

Limit(default) == IF ask.limit > 0 THEN ask.limit ELSE default

Row(s) == [key |-> s, matches |-> scan[s].matches, hits |-> scan[s].hits]

Unread == [key |-> "none", limit |-> 0, offset |-> 0, total |-> 0, first |-> 0, got |-> <<>>]

ViewInit ==
    /\ \E c \in Scenarios :
          files = c.files /\ query = c.ask.query /\ writes = c.writes
          /\ ask = [project |-> c.ask.project, since |-> c.ask.since, limit |-> c.ask.limit]
    /\ gone = {} /\ scan = [s \in Sessions |-> Unsearched]
    /\ list = <<>> /\ was = files /\ rows = <<>> /\ pc = "idle" /\ page = Unread

\* Without a query the newest sessions are the answer.
Browse ==
    /\ pc = "idle" /\ query = <<>>
    /\ list' \in SessionList(Limit(listLimit))
    /\ rows' = [i \in DOMAIN list' |-> Row(list'[i])]
    /\ pc' = "done" /\ was' = files
    /\ UNCHANGED <<searchVars, ask, writes, page>>

\* A goroutine for each of the sessions.
buildIndex ==
    /\ pc = "idle" /\ query # <<>>
    /\ list' \in SessionList(Limit(scanLimit))
    /\ scan' = [s \in Sessions |-> IF s \in ToSet(list') THEN Queued ELSE Unsearched]
    /\ pc' = "search" /\ was' = files
    /\ UNCHANGED <<files, gone, query, ask, writes, rows, page>>

Step(s) == pc = "search" /\ SearchStep(s) /\ UNCHANGED <<ask, writes, list, was, rows, pc, page>>

Kept ==
    FlattenSeq([i \in DOMAIN list |->
        IF scan[list[i]].matches > 0 \/ Catalog[list[i]].title THEN <<list[i]>> ELSE <<>>])

\* wg.Wait(), then the rows that match, in the order they were listed.
searchSessions ==
    /\ pc = "search"
    /\ \A i \in DOMAIN list : scan[list[i]].pc \in {"done", "failed"}
    /\ pc' = "done"
    /\ LET kept == Kept IN rows' = [i \in DOMAIN kept |-> Row(kept[i])]
    /\ UNCHANGED <<searchVars, ask, writes, list, was, page>>
-----------------------------------------------------------------------------
\* Mutant: the last entry of a page is also the first of the next.
PageOver(es, offset, limit) ==
    SubSeq(es, offset + 1, IF Len(es) < offset + limit + 1 THEN Len(es) ELSE offset + limit + 1)

Page(es, offset, limit) ==
    SubSeq(es, offset + 1, IF Len(es) < offset + limit THEN Len(es) ELSE offset + limit)

\* A missing transcript is an empty page that says so.
loadTranscript(s) == IF Locate(s) THEN Entries(s, files[s]) ELSE <<>>

\* The first page, and the next ones until the total that the last one gave.
apiTranscript(s, limit) ==
    LET size == IF limit = 0 THEN defaultTranscriptPage ELSE limit
        es   == loadTranscript(s)
    IN  /\ pc = "done"
        /\ \/ page.key = "none"
           \/ page.key = s /\ page.limit = size /\ page.offset < page.total
        /\ page' = [key    |-> s, limit |-> size,
                    offset |-> page.offset + size,
                    total  |-> Len(es),
                    first  |-> IF page.key = "none" THEN Len(es) ELSE page.first,
                    got    |-> page.got \o Page(es, page.offset, size)]
        /\ UNCHANGED <<searchVars, ask, writes, list, was, rows, pc>>
-----------------------------------------------------------------------------
\* The harness: a line, or the first part of one, at the end of a file whose
\* last line is whole; a part of a database as soon as there is one.
Write(s) ==
    /\ writes > 0 /\ writes' = writes - 1
    /\ Locate(s)
    /\ \E f \in DOMAIN files[s], line \in NewLines :
          /\ Source[s] = "claude_code" /\ files[s][f] # <<>> => ~Last(files[s][f]).half
          /\ files' = [files EXCEPT ![s][f] = Append(@, line)]
    /\ UNCHANGED <<gone, query, scan, ask, list, was, rows, pc, page>>

\* The rest of a line, the result of a tool.
Finish(s) ==
    /\ Locate(s)
    /\ \E f \in DOMAIN files[s] : \E i \in DOMAIN files[s][f], line \in NewLines :
          /\ files[s][f][i].half
          /\ files' = [files EXCEPT ![s][f][i].half = FALSE,
                                    ![s][f][i].blocks = @ \o line.blocks]
    /\ UNCHANGED <<gone, query, scan, ask, writes, list, was, rows, pc, page>>

Cleanup(s) ==
    /\ writes > 0 /\ writes' = writes - 1
    /\ Locate(s) /\ gone' = gone \cup {s}
    /\ UNCHANGED <<files, query, scan, ask, list, was, rows, pc, page>>

ViewNext ==
    \/ Browse \/ buildIndex \/ searchSessions
    \/ \E s \in Sessions :
          \/ Step(s) \/ Write(s) \/ Finish(s) \/ Cleanup(s)
          \/ \E limit \in Limits : apiTranscript(s, limit)

ViewSpec == ViewInit /\ [][ViewNext]_viewVars

\* The goroutines and the handler that waits for them run on.
ViewFairSpec ==
    /\ ViewSpec
    /\ \A s \in Sessions : WF_viewVars(Step(s))
    /\ WF_viewVars(Browse \/ buildIndex \/ searchSessions)
-----------------------------------------------------------------------------
\* Positions of the entries that hold the text.
With(es) == {i \in DOMAIN es : Occurs(query, es[i])}

\* The entries of whole lines that the bytes alone tell.
WholeText(lines) ==
    FlattenSeq([i \in DOMAIN lines |->
        IF lines[i].kind = "text" /\ ~lines[i].half THEN <<lines[i]>> ELSE <<>>])

Plain(s) == With(Entries(s, [f \in DOMAIN was[s] |-> WholeText(was[s][f])]))

\* "whether the query can be searched in raw JSON bytes without false
\* negatives" (fastPathOK), and "keeping rows that match by content or metadata"
\* (searchSessions): while the transcripts are written to, a search finds at
\* least the entries that were there when it was asked for, and none without the
\* text; the sessions looked at that hold one are all among the rows.  An entry
\* whose text is composed may be missed, as the bytes do not hold what the viewer
\* adds, and so is a session that cannot be read.
SearchComplete ==
    pc = "done" /\ query # <<>> =>
        \A s \in ToSet(list) : scan[s].pc = "done" =>
            /\ scan[s].matches <= Cardinality(With(Entries(s, files[s])))
            /\ s \notin gone => Cardinality(Plain(s)) <= scan[s].matches
            /\ s \notin gone /\ Plain(s) # {} => \E i \in DOMAIN rows : rows[i].key = s

\* One file that is only ever appended to: a Claude Code session that stayed in
\* its directory.  A session of several files, or a tool that still runs in an
\* OpenCode database, moves the entries behind the place that grows.
AppendOnly(s) == Source[s] = "claude_code" /\ Len(files[s]) = 1 /\ s \notin gone

\* "EntryIdx: anchor into the Load() ordering" (search.go): the entry a hit leads
\* to still has the text when the reader follows the link, whatever was written to
\* the transcript in the meantime.
AnchorLandsOnHit ==
    \A i \in DOMAIN rows : AppendOnly(rows[i].key) =>
        \A a \in ToSet(rows[i].hits) :
            LET es == Entries(rows[i].key, files[rows[i].key])
            IN  a < Len(es) /\ Occurs(query, es[a + 1])

\* The pages of a transcript that grows while it is read make one text: no entry
\* twice, none left out, and at least all that was there at the first page
\* (apiTranscript, defaultTranscriptPage).
PagesWhole ==
    page.key # "none" /\ AppendOnly(page.key) /\ page.offset >= page.total =>
        /\ IsPrefix(page.got, Entries(page.key, files[page.key]))
        /\ Len(page.got) >= page.first

\* "streams a file looking for a lowercase needle" (fileContains) and wg.Wait():
\* a request is answered, a session that cannot be read or not.
SearchEnds == <>(pc = "done")
=============================================================================
