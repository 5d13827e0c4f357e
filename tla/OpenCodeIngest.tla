--------------------------- MODULE OpenCodeIngest ---------------------------
(***************************************************************************)
(* Ingesting OpenCode sessions (internal/ingest/opencode: Run, runTree,    *)
(* runDB, commit) while OpenCode runs.  Its artifacts, one per message and *)
(* one per content part, change in place while a response streams, as JSON *)
(* files of a tree or as rows of a database; a host that upgrades copies   *)
(* the tree into the database and leaves the tree behind.  An artifact     *)
(* whose stamp (size and mtime, or length and time_updated) is the recorded*)
(* one is not read again.  The contents of an artifact are a version       *)
(* number: 1 is empty (no tokens, no text), every later one says more.     *)
(***************************************************************************)
EXTENDS Integers, Sequences, FiniteSets, SequencesExt

CONSTANTS
    Sources,       \* the layouts in the order Run reads them, the tree first
    Ingesters,     \* processes that run `tokenator ingest`
    Messages,      \* message ids
    Parts,         \* part ids
    Parent,        \* part -> message
    Role,          \* message -> "assistant" or "user"
    MaxVersion,    \* artifact -> bound on its versions
    MaxFails       \* bound on the runs that end early

Artifacts == Messages \cup Parts

ASSUME OpenCodeAssumption ==
    /\ Sources \in Seq({"tree", "db"}) /\ Sources # <<>>
    /\ Messages \cap Parts = {}
    /\ Parent \in [Parts -> Messages]
    /\ Role \in [Messages -> {"assistant", "user"}]
    /\ MaxVersion \in [Artifacts -> Nat] /\ MaxFails \in Nat

VARIABLES
    disk,          \* layout -> artifact -> [ver, torn]; ver 0 is absent
    recorded,      \* ingest_file: layout -> artifact -> stamp, 0 when absent
    usage,         \* request: message -> version its row carries, 0 is no row
    blocks,        \* block: part -> [ver, kind]
    pc,
    src,           \* number of the layout a run is reading
    states,        \* local states: FileStates as the layout was opened
    todo,          \* artifacts of this phase still to be looked at
    stamps,        \* local parsedFiles: artifact -> stamp taken before reading
    got,           \* local: message -> version parsed (bySession, msgCache)
    pending,       \* local pendingBlocks: part -> [ver, kind]
    fails

db     == <<usage, blocks>>
locals == <<src, states, todo, stamps, got, pending>>
vars   == <<disk, recorded, db, pc, locals, fails>>

Layouts  == ToSet(Sources)
Layout(p) == Sources[src[p]]
Nothing  == [a \in {} |-> 0]

\* A half written file has a stamp of its own.
Stamp(c) == 2 * c.ver - IF c.torn THEN 1 ELSE 0

Held(s) == \E a \in Artifacts : disk[s][a].ver > 0

\* OpenCode writes the last layout that holds anything; a new host has either.
Live == {s \in Layouts :
            IF Held(Last(Sources)) THEN s = Last(Sources) ELSE Held(Sources[1]) => s = Sources[1]}

\* An assignment to a Go map.
Put(f, a, x) == [b \in DOMAIN f \cup {a} |-> IF b = a THEN x ELSE f[b]]

NoBlock == [ver |-> 0, kind |-> ""]

\* blockFromPart for a text part: only a known assistant makes it the model's.
Kind(role) == IF role = "assistant" THEN "assistant_text" ELSE "user_text"
-----------------------------------------------------------------------------
Init ==
    /\ disk = [s \in Layouts |-> [a \in Artifacts |-> [ver |-> 0, torn |-> FALSE]]]
    /\ recorded = [s \in Layouts |-> [a \in Artifacts |-> 0]]
    /\ usage = [m \in Messages |-> 0]
    /\ blocks = [t \in Parts |-> NoBlock]
    /\ pc = [p \in Ingesters |-> "idle"]
    /\ src = [p \in Ingesters |-> 1]
    /\ states = [p \in Ingesters |-> Nothing]
    /\ todo = [p \in Ingesters |-> {}]
    /\ stamps = [p \in Ingesters |-> Nothing]
    /\ got = [p \in Ingesters |-> Nothing]
    /\ pending = [p \in Ingesters |-> Nothing]
    /\ fails = 0

(***************************************************************************)
(* OpenCode.  A message is there before its parts.  Files are rewritten in *)
(* place, so a reader may see one half written; rows never are.            *)
(***************************************************************************)
Rewrite(a) == \E s \in Live, torn \in BOOLEAN :
    LET c == disk[s][a]
    IN  /\ c.ver < MaxVersion[a] /\ ~c.torn
        /\ a \in Parts => disk[s][Parent[a]].ver > 0
        /\ torn => s = "tree"
        /\ disk' = [disk EXCEPT ![s][a] = [ver |-> c.ver + 1, torn |-> torn]]
        /\ UNCHANGED <<recorded, db, pc, locals, fails>>

FinishWrite(a) == \E s \in Live :
    /\ disk[s][a].torn
    /\ disk' = [disk EXCEPT ![s][a].torn = FALSE]
    /\ UNCHANGED <<recorded, db, pc, locals, fails>>

Migrate ==
    /\ Held(Sources[1]) /\ ~Held(Last(Sources))
    /\ \A a \in Artifacts : ~disk[Sources[1]][a].torn
    /\ disk' = [disk EXCEPT ![Last(Sources)] = disk[Sources[1]]]
    /\ UNCHANGED <<recorded, db, pc, locals, fails>>

(***************************************************************************)
(* One run: layout by layout, messages before parts.                       *)
(***************************************************************************)
Goto(p, from, to) == pc[p] = from /\ pc' = [pc EXCEPT ![p] = to]

Present(p, set) == {a \in set : disk[Layout(p)][a].ver > 0}

\* FileStates, and the list of the message files or rows.
OpenLayout(p) ==
    /\ Goto(p, "idle", "messages")
    /\ \E full \in BOOLEAN :
          states' = [states EXCEPT ![p] = IF full THEN Nothing ELSE recorded[Layout(p)]]
    /\ todo' = [todo EXCEPT ![p] = Present(p, Messages)]
    /\ UNCHANGED <<disk, recorded, db, src, stamps, got, pending, fails>>

\* Mutant: only the existence of a record is looked at.
KnownAny(p, a, stamp) == a \in DOMAIN states[p] /\ states[p][a] # 0

\* `changed`, with every artifact changed in a Full run.
Known(p, a, stamp) == a \in DOMAIN states[p] /\ states[p][a] = stamp

\* os.Stat, or the pass over ids, lengths and update times.
Look(p, a, phase) ==
    LET stamp == Stamp(disk[Layout(p)][a])
    IN  /\ pc[p] = phase /\ a \in todo[p] /\ a \notin DOMAIN stamps[p]
        /\ IF Known(p, a, stamp)
           THEN todo' = [todo EXCEPT ![p] = @ \ {a}] /\ UNCHANGED stamps
           ELSE stamps' = [stamps EXCEPT ![p] = Put(@, a, stamp)] /\ UNCHANGED todo
        /\ UNCHANGED <<disk, recorded, db, pc, src, states, got, pending, fails>>

\* Mutant: a file that does not parse counts as read.
ParseFailedKeeps(p, a) == UNCHANGED stamps

\* A parse error leaves no record, so the next run tries again.
ParseFailed(p, a) ==
    stamps' = [stamps EXCEPT ![p] = [b \in DOMAIN @ \ {a} |-> @[b]]]

ReadMessage(p, m) ==
    LET c == disk[Layout(p)][m]
    IN  /\ pc[p] = "messages" /\ m \in todo[p] \cap DOMAIN stamps[p]
        /\ todo' = [todo EXCEPT ![p] = @ \ {m}]
        /\ IF c.torn
           THEN ParseFailed(p, m) /\ UNCHANGED got
           ELSE got' = [got EXCEPT ![p] = Put(@, m, c.ver)] /\ UNCHANGED stamps
        /\ UNCHANGED <<disk, recorded, db, pc, src, states, pending, fails>>

ListParts(p) ==
    /\ todo[p] = {}
    /\ Goto(p, "messages", "parts")
    /\ todo' = [todo EXCEPT ![p] = Present(p, Parts)]
    /\ UNCHANGED <<disk, recorded, db, src, states, stamps, got, pending, fails>>

\* lookupMsg: a message of this run, or the parent as it is now; a parent that
\* does not parse has no role.
RoleFor(p, t) ==
    IF Parent[t] \in DOMAIN got[p] \/ ~disk[Layout(p)][Parent[t]].torn
    THEN Role[Parent[t]] ELSE ""

\* An empty part makes no block.
ReadPart(p, t) ==
    LET c == disk[Layout(p)][t]
    IN  /\ pc[p] = "parts" /\ t \in todo[p] \cap DOMAIN stamps[p]
        /\ todo' = [todo EXCEPT ![p] = @ \ {t}]
        /\ IF c.torn THEN ParseFailed(p, t) ELSE UNCHANGED stamps
        /\ IF c.torn \/ c.ver = 1 THEN UNCHANGED pending
           ELSE pending' = [pending EXCEPT ![p] =
                              Put(@, t, [ver |-> c.ver, kind |-> Kind(RoleFor(p, t))])]
        /\ UNCHANGED <<disk, recorded, db, pc, src, states, got, fails>>

\* Mutant: the first row of a message stays, as for Claude Code.
UpsertFirst(old, new) == IF old # 0 THEN old ELSE new

\* UpsertRequest: the last write wins.
UpsertRequest(old, new) == new

\* An assistant message, and no longer incomplete.
HasUsage(p, m) == m \in DOMAIN got[p] /\ Role[m] = "assistant" /\ got[p][m] > 1

\* One transaction for the requests and the blocks of the layout.
Commit(p) ==
    /\ todo[p] = {}
    /\ Goto(p, "parts", "record")
    /\ usage' = [m \in Messages |->
                   IF HasUsage(p, m) THEN UpsertRequest(usage[m], got[p][m]) ELSE usage[m]]
    /\ blocks' = [t \in Parts |-> IF t \in DOMAIN pending[p] THEN pending[p][t] ELSE blocks[t]]
    /\ UNCHANGED <<disk, recorded, locals, fails>>

\* RecordFile, one by one after the commit.
RecordFile(p, a) ==
    /\ pc[p] = "record" /\ a \in DOMAIN stamps[p]
    /\ recorded' = [recorded EXCEPT ![Layout(p)][a] = stamps[p][a]]
    /\ stamps' = [stamps EXCEPT ![p] = [b \in DOMAIN @ \ {a} |-> @[b]]]
    /\ UNCHANGED <<disk, db, pc, src, states, todo, got, pending, fails>>

Forget(p) ==
    /\ states' = [states EXCEPT ![p] = Nothing]
    /\ todo' = [todo EXCEPT ![p] = {}]
    /\ stamps' = [stamps EXCEPT ![p] = Nothing]
    /\ got' = [got EXCEPT ![p] = Nothing]
    /\ pending' = [pending EXCEPT ![p] = Nothing]

\* On to the next layout, or the end of the run.
EndLayout(p) ==
    /\ DOMAIN stamps[p] = {}
    /\ Goto(p, "record", "idle")
    /\ src' = [src EXCEPT ![p] = IF @ = Len(Sources) THEN 1 ELSE @ + 1]
    /\ Forget(p)
    /\ UNCHANGED <<disk, recorded, db, fails>>

\* An error or a kill ends the run; what is committed stays committed.
Abort(p) ==
    /\ (pc[p] # "idle" \/ src[p] # 1) /\ fails < MaxFails
    /\ pc' = [pc EXCEPT ![p] = "idle"]
    /\ src' = [src EXCEPT ![p] = 1]
    /\ fails' = fails + 1
    /\ Forget(p)
    /\ UNCHANGED <<disk, recorded, db>>

Step(p) ==
    \/ OpenLayout(p)
    \/ \E m \in Messages : Look(p, m, "messages") \/ ReadMessage(p, m)
    \/ ListParts(p)
    \/ \E t \in Parts : Look(p, t, "parts") \/ ReadPart(p, t)
    \/ Commit(p)
    \/ \E a \in Artifacts : RecordFile(p, a)
    \/ EndLayout(p)

Next ==
    \/ \E a \in Artifacts : Rewrite(a) \/ FinishWrite(a)
    \/ Migrate
    \/ \E p \in Ingesters : Step(p) \/ Abort(p)

Spec == Init /\ [][Next]_vars

\* Run after run (the timer of docs/deploy-serve.md), and a half written file
\* is finished; what else OpenCode does is up to it.
FairSpec ==
    /\ Spec
    /\ \A p \in Ingesters : WF_vars(Step(p))
    /\ \A a \in Artifacts : WF_vars(FinishWrite(a))
-----------------------------------------------------------------------------
WouldSkip(s, a) == recorded[s][a] # 0 /\ recorded[s][a] = Stamp(disk[s][a])

\* "re-parsed whenever size or mtime moves" (runTree): an artifact the next run
\* would skip left its row behind, although it changed while it was read, was
\* half written, or the run died between commit and record.
SkipStored ==
    \A s \in Layouts :
        /\ \A m \in Messages :
              WouldSkip(s, m) /\ Role[m] = "assistant" /\ disk[s][m].ver > 1 => usage[m] > 0
        /\ \A t \in Parts :
              WouldSkip(s, t) /\ disk[s][t].ver > 1 => blocks[t].ver > 0

Sole(s, m) == \A r \in Layouts : disk[r][m].ver > 0 => r = s

\* "ingestion upserts by message id (last write wins)" because "tokens land
\* when the message completes" (package comment): a message that would be
\* skipped, and that one layout holds, has the usage it shows there.  A message
\* both layouts hold takes what was read last: the tree, left behind at an
\* earlier version, when a run read the database before it read that file.
UsageCurrent ==
    \A s \in Layouts, m \in Messages :
        WouldSkip(s, m) /\ Sole(s, m) /\ Role[m] = "assistant" /\ disk[s][m].ver > 1
            => usage[m] = disk[s][m].ver

\* The last word of a message reaches the database: the usage it ends with is
\* stored, half written files and runs that die notwithstanding, unless an
\* upgrade copies the message meanwhile.
UsageSettles ==
    \A s \in Layouts, m \in Messages : Role[m] = "assistant" =>
        (disk[s][m].ver = MaxVersion[m] /\ MaxVersion[m] > 1 /\ Sole(s, m)
            ~> usage[m] = MaxVersion[m] \/ ~Sole(s, m))
=============================================================================
