-------------------------- MODULE TranscriptIngest --------------------------
(***************************************************************************)
(* Ingesting Claude Code transcripts (internal/ingest/claudecode, Run and  *)
(* ingestFile) into the store while the harness keeps writing them.  A     *)
(* transcript is append-only, its last line may be half written, and a     *)
(* resumed or forked session starts as a copy of another file.  A file     *)
(* whose size is the recorded one is never opened again, so what a size    *)
(* stands for is what this module is about; a changed file is parsed whole *)
(* and merged under global dedupe keys.  Several processes may ingest.     *)
(***************************************************************************)
EXTENDS Integers, Sequences, FiniteSets, SequencesExt

CONSTANTS
    Order,        \* the transcript files, as filepath.Glob sorts them
    Ingesters,    \* processes that run `tokenator ingest`
    Lines,        \* what a line may be: [kind, key, session]
    NoSession,    \* sessionId = '': the line is of the session of its file
    NoTitle,      \* title = ''
    Texts,        \* bound: file -> the contents the harness gives it by writing
    MaxFails      \* bound on the runs that end early

Files == ToSet(Order)

ASSUME IngestAssumption ==
    /\ Order \in Seq(Files)
    /\ \A l \in Lines : /\ l.kind \in {"call", "result", "quote", "ai-title", "custom-title"}
                       /\ l.key # NoTitle /\ l.session \in Files \cup {NoSession}
    /\ \A f \in Files : Texts[f] \subseteq Seq(Lines)
    /\ MaxFails \in Nat

VARIABLES
    disk,         \* file -> [lines, torn]: torn, the last line is half written
    recorded,     \* ingest_file: file -> size, 0 when there is no row
    requests,     \* request: dedupe key -> session of the row
    blocks,       \* block: dedupe key of a tool result -> referenced
    titles,       \* session.title, of the session each file is named after
    pc,
    todo,         \* files this run has not finished
    full,         \* Ingester.Full
    size,         \* local size
    parsed,       \* local fileCtx: the lines that parsed
    fails

db     == <<requests, blocks, titles>>
locals == <<todo, full, size, parsed>>
vars   == <<disk, recorded, db, pc, locals, fails>>

Exists(f) == disk[f].lines # <<>>

\* Size of a file on disk; every write moves it (size and mtime in the code).
Stat(f) == 2 * Len(disk[f].lines) - IF disk[f].torn THEN 1 ELSE 0

\* handleLine of each line; a half written one is a parse error.
Parsed(f) == IF disk[f].torn THEN Front(disk[f].lines) ELSE disk[f].lines

KeysOf(content, kind) == {l.key : l \in {m \in ToSet(content) : m.kind = kind}}

\* store.RefUnknown, RefReferenced, RefUnreferenced.
Unknown      == 0
Referenced   == 1
Unreferenced == 2

\* refTracker on a result with two identifiers, each quote naming one more:
\* RefTracker.tla has the general case.
QuotesAfter(content, k) ==
    {j \in DOMAIN content :
        /\ content[j].kind = "quote" /\ content[j].key = k
        /\ \E i \in 1 .. j - 1 : content[i].kind = "result" /\ content[i].key = k}

Verdict(content, k) ==
    LET hits == Cardinality(QuotesAfter(content, k))
    IN  IF hits >= 2 THEN Referenced ELSE IF hits = 0 THEN Unreferenced ELSE Unknown

\* handleLine: a line that was copied keeps the session it was written in.
SessionIn(f, l) == IF l.session = NoSession THEN f ELSE l.session

Named(f, content, s, kind) ==
    {i \in DOMAIN content : content[i].kind = kind /\ SessionIn(f, content[i]) = s}

LastKey(content, at) == IF at = {} THEN NoTitle ELSE content[Max(at)].key

\* title of a session in one file: the last the user gave, else the last the
\* harness made up.
TitleOf(f, content, s) ==
    LET custom == Named(f, content, s, "custom-title")
    IN  LastKey(content, IF custom # {} THEN custom ELSE Named(f, content, s, "ai-title"))
-----------------------------------------------------------------------------
Init ==
    /\ disk = [f \in Files |-> [lines |-> <<>>, torn |-> FALSE]]
    /\ recorded = [f \in Files |-> 0]
    /\ requests = [k \in {} |-> 0] /\ blocks = [k \in {} |-> 0]
    /\ titles = [f \in Files |-> NoTitle]
    /\ pc = [p \in Ingesters |-> "idle"]
    /\ todo = [p \in Ingesters |-> {}]
    /\ full = [p \in Ingesters |-> FALSE]
    /\ size = [p \in Ingesters |-> 0]
    /\ parsed = [p \in Ingesters |-> <<>>]
    /\ fails = 0

(***************************************************************************)
(* The harness.                                                            *)
(***************************************************************************)

\* Of its own session. An API call repeats its line per content block; a tool
\* result has one line.
WriteLine(f) == \E l \in Lines, torn \in BOOLEAN :
    /\ ~disk[f].torn /\ Append(disk[f].lines, l) \in Texts[f]
    /\ l.session \in {f, NoSession}
    /\ l.kind = "result" => l.key \notin KeysOf(disk[f].lines, "result")
    /\ disk' = [disk EXCEPT ![f] = [lines |-> Append(@.lines, l), torn |-> torn]]
    /\ UNCHANGED <<recorded, db, pc, locals, fails>>

FinishLine(f) ==
    /\ disk[f].torn
    /\ disk' = [disk EXCEPT ![f].torn = FALSE]
    /\ UNCHANGED <<recorded, db, pc, locals, fails>>

\* Resume or fork: the history is copied wholesale into a new file.
Fork(f, g) ==
    /\ Exists(f) /\ ~Exists(g) /\ Parsed(f) # <<>>
    /\ disk' = [disk EXCEPT ![g].lines = Parsed(f)]
    /\ UNCHANGED <<recorded, db, pc, locals, fails>>

(***************************************************************************)
(* One run.                                                                *)
(***************************************************************************)
Goto(p, from, to) == pc[p] = from /\ pc' = [pc EXCEPT ![p] = to]

\* The files are taken in the order of the listing.
Current(p) == Order[Min({i \in DOMAIN Order : Order[i] \in todo[p]})]

Glob(p) ==
    /\ Goto(p, "idle", "stat")
    /\ todo' = [todo EXCEPT ![p] = {f \in Files : Exists(f)}]
    /\ \E f \in BOOLEAN : full' = [full EXCEPT ![p] = f]
    /\ UNCHANGED <<disk, recorded, db, size, parsed, fails>>

StatFile(p) ==
    /\ todo[p] # {}
    /\ Goto(p, "stat", "check")
    /\ size' = [size EXCEPT ![p] = Stat(Current(p))]
    /\ UNCHANGED <<disk, recorded, db, todo, full, parsed, fails>>

\* Mutant: what was parsed of one file is still there for the next.
NextFileKeeps(p) ==
    /\ todo' = [todo EXCEPT ![p] = @ \ {Current(p)}]
    /\ size' = [size EXCEPT ![p] = 0]
    /\ UNCHANGED <<parsed, full>>

\* Next file; what was read of this one is forgotten.
NextFile(p) ==
    /\ todo' = [todo EXCEPT ![p] = @ \ {Current(p)}]
    /\ size' = [size EXCEPT ![p] = 0]
    /\ parsed' = [parsed EXCEPT ![p] = <<>>]
    /\ full' = full

Unchanged(p) == ~full[p] /\ recorded[Current(p)] = size[p]

\* FileUnchanged
SkipFile(p) ==
    /\ Goto(p, "check", "stat")
    /\ Unchanged(p)
    /\ NextFile(p)
    /\ UNCHANGED <<disk, recorded, db, fails>>

OpenFile(p) ==
    /\ Goto(p, "check", "read")
    /\ ~Unchanged(p)
    /\ UNCHANGED <<disk, recorded, db, locals, fails>>

\* ingestFile up to the transaction: whatever the file holds by now.
ReadFile(p) ==
    /\ Goto(p, "read", "commit")
    /\ parsed' = [parsed EXCEPT ![p] = Parsed(Current(p))]
    /\ UNCHANGED <<disk, recorded, db, todo, full, size, fails>>

\* Mutant: the last file parsed decides.
MergeLast(old, new) == new

\* Mutant: partial evidence of two parses adds up.
MergeSum(old, new) ==
    IF Referenced \in {old, new} \/ (old = Unknown /\ new = Unknown) THEN Referenced
    ELSE IF new # Unknown THEN new ELSE old

\* UpsertBlock: a referenced verdict of any copy sticks, otherwise any known
\* verdict beats unknown.
Merge(old, new) ==
    IF Referenced \in {old, new} THEN Referenced
    ELSE IF new # Unknown THEN new ELSE old

\* Mutant: a session that has a title keeps it.
FirstTitle(old, new) == IF old # NoTitle THEN old ELSE new

\* UpsertSession: a title replaces the stored one, '' does not.
NewTitle(old, new) == IF new # NoTitle THEN new ELSE old

\* InsertRequest keeps the first row of a key, which is of the line's session.
SessionOfCall(f, content, k) ==
    SessionIn(f, content[Min({i \in DOMAIN content : content[i].kind = "call" /\ content[i].key = k})])

\* One transaction: every session of the file, its requests, its blocks.
Store(f, content) ==
    /\ titles' = [s \in Files |-> NewTitle(titles[s], TitleOf(f, content, s))]
    /\ requests' = [k \in DOMAIN requests \cup KeysOf(content, "call") |->
                      IF k \in DOMAIN requests THEN requests[k] ELSE SessionOfCall(f, content, k)]
    /\ blocks' = [k \in DOMAIN blocks \cup KeysOf(content, "result") |->
                    IF k \notin DOMAIN blocks THEN Verdict(content, k)
                    ELSE IF k \in KeysOf(content, "result") THEN Merge(blocks[k], Verdict(content, k))
                    ELSE blocks[k]]

Commit(p) ==
    /\ Goto(p, "commit", "record")
    /\ Store(Current(p), parsed[p])
    /\ UNCHANGED <<disk, recorded, locals, fails>>

\* Mutant: the size is taken again after the file was read.
RecordNow(p) ==
    /\ Goto(p, "record", "stat")
    /\ recorded' = [recorded EXCEPT ![Current(p)] = Stat(Current(p))]
    /\ NextFile(p)
    /\ UNCHANGED <<disk, db, fails>>

\* RecordFile, outside the transaction, with the size taken before the read.
RecordFile(p) ==
    /\ Goto(p, "record", "stat")
    /\ recorded' = [recorded EXCEPT ![Current(p)] = size[p]]
    /\ NextFile(p)
    /\ UNCHANGED <<disk, db, fails>>

EndRun(p) ==
    /\ todo[p] = {}
    /\ Goto(p, "stat", "idle")
    /\ full' = [full EXCEPT ![p] = FALSE]
    /\ UNCHANGED <<disk, recorded, db, todo, size, parsed, fails>>

\* An error anywhere, SQLITE_BUSY_SNAPSHOT in the transaction or a kill ends
\* the whole run: the later files wait for the next one.
Abort(p) ==
    /\ pc[p] # "idle" /\ fails < MaxFails
    /\ pc' = [pc EXCEPT ![p] = "idle"]
    /\ todo' = [todo EXCEPT ![p] = {}] /\ size' = [size EXCEPT ![p] = 0]
    /\ parsed' = [parsed EXCEPT ![p] = <<>>] /\ full' = [full EXCEPT ![p] = FALSE]
    /\ fails' = fails + 1
    /\ UNCHANGED <<disk, recorded, db>>

Step(p) ==
    \/ StatFile(p) \/ SkipFile(p) \/ OpenFile(p) \/ ReadFile(p)
    \/ Commit(p) \/ RecordFile(p) \/ EndRun(p)

Next ==
    \/ \E f \in Files : WriteLine(f) \/ FinishLine(f)
    \/ \E f, g \in Files : Fork(f, g)
    \/ \E p \in Ingesters : Glob(p) \/ Step(p) \/ Abort(p)

Spec == Init /\ [][Next]_vars

\* The timer of docs/deploy-serve.md starts run after run, a run goes on; the
\* harness owes nothing.
Fairness == \A p \in Ingesters : WF_vars(Glob(p)) /\ WF_vars(Step(p))

FairSpec == Spec /\ Fairness
-----------------------------------------------------------------------------
Stages == {"idle", "stat", "check", "read", "commit", "record"}

TitleKinds == {"ai-title", "custom-title"}

\* Some file has the line, in the session.
Stands(kinds, key, s) ==
    \E f \in Files : \E l \in ToSet(disk[f].lines) :
        l.kind \in kinds /\ l.key = key /\ SessionIn(f, l) = s

\* What every run has parsed is still the beginning of its file, no size is
\* recorded or remembered that the file has not reached, and a title or a
\* request has a line of its session.
TypeOK ==
    /\ pc \in [Ingesters -> Stages]
    /\ \A f \in Files : /\ recorded[f] <= Stat(f)
                       /\ titles[f] # NoTitle => Stands(TitleKinds, titles[f], f)
    /\ \A k \in DOMAIN blocks : blocks[k] \in {Unknown, Referenced, Unreferenced}
    /\ \A p \in Ingesters : pc[p] \in Stages \ {"idle", "stat"} =>
          size[p] <= Stat(Current(p)) /\ IsPrefix(parsed[p], Parsed(Current(p)))
    /\ \A k \in DOMAIN requests : requests[k] \in Files /\ Stands({"call"}, k, requests[k])

\* The next run that is not Full would not open the file.
WouldSkip(f) == Exists(f) /\ recorded[f] = Stat(f)

\* "Files whose size and mtime are unchanged since the last run are skipped"
\* (Run): nothing is lost by it.  Every call and result of a skipped file has
\* its row, and a result this file refers to is not stored as anything else,
\* although lines were appended between stat, read and record, a run died
\* half way, or another one worked on the same file.
SkipSound ==
    \A f \in Files : WouldSkip(f) =>
        /\ KeysOf(Parsed(f), "call") \subseteq DOMAIN requests
        /\ \A k \in KeysOf(Parsed(f), "result") :
              /\ k \in DOMAIN blocks
              /\ Verdict(Parsed(f), k) = Referenced => blocks[k] = Referenced

\* "a referenced verdict from ANY file copy sticks" (UpsertBlock), and only
\* that: some copy on disk really quotes the result often enough.
ReferencedEarned ==
    \A k \in DOMAIN blocks :
        blocks[k] = Referenced => \E f \in Files : Verdict(Parsed(f), k) = Referenced

\* The files that give a session a title.
Holders(s) == {f \in Files : TitleOf(f, Parsed(f), s) # NoTitle}

\* "non-empty new values win for text fields (titles can change)"
\* (UpsertSession): when all the files that name a session would be skipped,
\* its title is one that such a file gives it now, and not one that the files
\* have outgrown or that a custom title has overruled.  Which one, if a fork
\* holds an older title than its origin, is that of the last commit.
TitleCurrent ==
    \A s \in Files : Holders(s) # {} /\ (\A f \in Holders(s) : WouldSkip(f)) =>
        \E f \in Holders(s) : titles[s] = TitleOf(f, Parsed(f), s)

Stored(l) == l.key \in (IF l.kind = "call" THEN DOMAIN requests ELSE DOMAIN blocks)

\* A call or result that stands complete in a transcript reaches the database,
\* whatever is appended meanwhile and however the runs before it ended.
EventuallyStored ==
    \A f \in Files, l \in {m \in Lines : m.kind \in {"call", "result"}} :
        (l \in ToSet(Parsed(f))) ~> Stored(l)
=============================================================================
