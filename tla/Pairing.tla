------------------------------ MODULE Pairing -------------------------------
(***************************************************************************)
(* The gateway pairing pass of internal/store (matchGwRequests): it joins  *)
(* rows of gw_request (what the router logged) with rows of request (what  *)
(* the transcripts say) in the shared SQLite database, while the ingesters *)
(* of other processes keep inserting and refreshing rows.                  *)
(*                                                                         *)
(* A row id is a position of the sequences gw and req: both tables only    *)
(* ever grow.  A transaction is the steps between StartChunk and           *)
(* CommitChunk; every other writer waits while tx is held, and Fail stands *)
(* for each way a pass can end early: an SQL error, SQLITE_BUSY_SNAPSHOT   *)
(* after somebody else committed, a killed process.                        *)
(***************************************************************************)
EXTENDS Integers, Sequences, FiniteSets

CONSTANTS
    Passes,       \* processes that run the pass: `ingest`, `reqlog`
    GwShapes,     \* the gateway rows that may be logged
    ReqShapes,    \* the request rows that transcripts may yield
    NoSession,    \* session_id = '' of a gateway row
    NoTime,       \* ts = '' of a request whose transcript gave no time
    Window,       \* gwMatchWindowMinutes
    Chunk,        \* rows per transaction (2000 in the code)
    NoTx,         \* nobody holds the write transaction
    MaxGw, MaxReq,\* bounds on the tables
    MaxFails      \* bound on the passes that end early

ASSUME PairingAssumption ==
    /\ \A s \in GwShapes : s.ts \in Int
    /\ \A s \in ReqShapes : s.ts \in Int \cup {NoTime}
    /\ NoTime \notin Int
    /\ NoTx \notin Passes
    /\ Window \in Nat
    /\ Chunk \in Nat \ {0}
    /\ MaxGw \in Nat /\ MaxReq \in Nat /\ MaxFails \in Nat

VARIABLES
    gw,           \* table gw_request
    req,          \* table request
    key,          \* gw_request.request_key as a request id, 0 is ''
    gwMark,       \* meta match_gw_hwm
    reqMark,      \* meta match_req_hwm
    pc,           \* where each pass is
    full,         \* MatchGwRequestsAll?
    gwFrom,       \* local gwHWM
    reqFrom,      \* local reqHWM
    gwSeen,       \* local gwMax
    reqSeen,      \* local reqMax
    span,         \* timestamps of the new requests (their MIN and MAX matter)
    todo,         \* local pending
    tx,           \* the pass that holds the write transaction
    saved,        \* key as it was when the transaction began
    left,         \* rows the open chunk may still take
    fails

tables == <<gw, req>>
marks  == <<gwMark, reqMark>>
locals == <<full, gwFrom, reqFrom, gwSeen, reqSeen, span, todo>>
txn    == <<key, tx, saved, left>>
vars   == <<tables, marks, pc, locals, txn, fails>>

GwIds  == DOMAIN gw
ReqIds == DOMAIN req

(***************************************************************************)
(* Which rows may be joined.                                               *)
(***************************************************************************)

\* status 200, both token counts present, and either the anthropic class or a
\* chat row that carries a session id.
Eligible(g) ==
    /\ g.ok
    /\ g.class = "anthropic" \/ (g.class = "chat" /\ g.session # NoSession)

Near(g, r) == r.ts # NoTime /\ r.ts - g.ts <= Window /\ g.ts - r.ts <= Window

Distance(g, r) == IF r.ts >= g.ts THEN r.ts - g.ts ELSE g.ts - r.ts

\* Mutant: the session id of the gateway row is not looked at.
ExactAnySession(g, r) ==
    /\ r.in = g.in /\ r.out = g.out /\ r.ccre = g.ccre /\ r.cred = g.cred
    /\ Near(g, r)

\* The whole usage tuple agrees; a row that names its session stays in it.
Exact(g, r) ==
    /\ r.in = g.in /\ r.out = g.out /\ r.ccre = g.ccre /\ r.cred = g.cred
    /\ Near(g, r)
    /\ g.session = NoSession \/ r.session = g.session

\* Chat only: the providers count cached input differently on the two sides.
Gross(g, r) ==
    /\ g.class = "chat"
    /\ r.out = g.out
    /\ r.in + r.cred \in {g.in, g.in + g.cred}
    /\ Near(g, r)
    /\ r.session = g.session

Agree(g, r) == Exact(g, r) \/ Gross(g, r)

Claimed(map, r) == \E g \in DOMAIN map : map[g] = r

\* What other connections see: an open transaction is still private.
Committed == IF tx = NoTx THEN key ELSE saved

-----------------------------------------------------------------------------
Init ==
    /\ gw = <<>> /\ req = <<>> /\ key = <<>>
    /\ gwMark = 0 /\ reqMark = 0
    /\ pc = [p \in Passes |-> "idle"]
    /\ full = [p \in Passes |-> FALSE]
    /\ gwFrom = [p \in Passes |-> 0]
    /\ reqFrom = [p \in Passes |-> 0]
    /\ gwSeen = [p \in Passes |-> 0]
    /\ reqSeen = [p \in Passes |-> 0]
    /\ span = [p \in Passes |-> {}]
    /\ todo = [p \in Passes |-> {}]
    /\ tx = NoTx /\ saved = <<>> /\ left = 0
    /\ fails = 0

Goto(p, from, to) == pc[p] = from /\ pc' = [pc EXCEPT ![p] = to]

(***************************************************************************)
(* The ingesters.  A batch of rows commits together in the code; one row   *)
(* at a time only adds interleavings.                                      *)
(***************************************************************************)

\* InsertGwRequest of a row not seen before.
LogGw ==
    /\ tx = NoTx /\ Len(gw) < MaxGw
    /\ \E s \in GwShapes : gw' = Append(gw, s)
    /\ key' = Append(key, 0)
    /\ UNCHANGED <<req, marks, pc, locals, tx, saved, left, fails>>

\* InsertRequest (Claude Code) or the insert half of UpsertRequest (OpenCode).
WriteReq ==
    /\ tx = NoTx /\ Len(req) < MaxReq
    /\ \E s \in ReqShapes : req' = Append(req, s)
    /\ UNCHANGED <<gw, marks, pc, locals, txn, fails>>

\* The update half of UpsertRequest: an OpenCode message file changed, and the
\* row keeps its id and session but takes the new time and usage.
RefreshReq ==
    /\ tx = NoTx
    /\ \E r \in ReqIds, s \in ReqShapes :
          /\ req[r].src = "oc" /\ s.src = "oc"
          /\ s.session = req[r].session
          /\ s # req[r]
          /\ req' = [req EXCEPT ![r] = s]
    /\ UNCHANGED <<gw, marks, pc, locals, txn, fails>>

(***************************************************************************)
(* One pass.  Each read is a statement of its own outside any transaction. *)
(***************************************************************************)

Begin(p) ==
    /\ Goto(p, "idle", "gwMark")
    /\ \E f \in BOOLEAN : full' = [full EXCEPT ![p] = f]
    /\ UNCHANGED <<tables, marks, gwFrom, reqFrom, gwSeen, reqSeen, span, todo, txn, fails>>

ReadGwMark(p) ==
    /\ Goto(p, "gwMark", "reqMark")
    /\ gwFrom' = [gwFrom EXCEPT ![p] = gwMark]
    /\ UNCHANGED <<tables, marks, full, reqFrom, gwSeen, reqSeen, span, todo, txn, fails>>

ReadReqMark(p) ==
    /\ Goto(p, "reqMark", "gwMax")
    /\ reqFrom' = [reqFrom EXCEPT ![p] = reqMark]
    /\ UNCHANGED <<tables, marks, full, gwFrom, gwSeen, reqSeen, span, todo, txn, fails>>

\* Mutant: the mark is one past the last row.
ReadGwMaxPast(p) ==
    /\ Goto(p, "gwMax", "reqMax")
    /\ gwSeen' = [gwSeen EXCEPT ![p] = Len(gw) + 1]
    /\ UNCHANGED <<tables, marks, full, gwFrom, reqFrom, reqSeen, span, todo, txn, fails>>

ReadGwMax(p) ==
    /\ Goto(p, "gwMax", "reqMax")
    /\ gwSeen' = [gwSeen EXCEPT ![p] = Len(gw)]
    /\ UNCHANGED <<tables, marks, full, gwFrom, reqFrom, reqSeen, span, todo, txn, fails>>

ReadReqMax(p) ==
    /\ Goto(p, "reqMax", IF full[p] THEN "pending" ELSE "span")
    /\ reqSeen' = [reqSeen EXCEPT ![p] = Len(req)]
    /\ UNCHANGED <<tables, marks, full, gwFrom, reqFrom, gwSeen, span, todo, txn, fails>>

\* SELECT MIN(ts), MAX(ts) FROM request WHERE id > reqHWM: kept as the set.
ReadSpan(p) ==
    /\ Goto(p, "span", "pending")
    /\ span' = [span EXCEPT ![p] = {req[r].ts : r \in {i \in ReqIds : i > reqFrom[p]}}]
    /\ UNCHANGED <<tables, marks, full, gwFrom, reqFrom, gwSeen, reqSeen, todo, txn, fails>>

\* Mutant: the window is not added around the new requests.
InSpanBare(t, times) ==
    /\ NoTime \notin times
    /\ \E lo \in times, hi \in times : t >= lo /\ t <= hi

\* ts within the window of [MIN, MAX].  A blank time is the least string, so it
\* becomes MIN and julianday('') is NULL: the comparison then never holds.
InSpan(t, times) ==
    /\ NoTime \notin times
    /\ \E lo \in times, hi \in times : t >= lo - Window /\ t <= hi + Window

InScope(p, g) == full[p] \/ g > gwFrom[p] \/ InSpan(gw[g].ts, span[p])

\* Mutant: rows that are already joined are pending too.
ReadPendingAgain(p) ==
    /\ Goto(p, "pending", "match")
    /\ tx = NoTx
    /\ todo' = [todo EXCEPT ![p] = {g \in GwIds : Eligible(gw[g]) /\ InScope(p, g)}]
    /\ UNCHANGED <<tables, marks, full, gwFrom, reqFrom, gwSeen, reqSeen, span, txn, fails>>

ReadPending(p) ==
    /\ Goto(p, "pending", "match")
    /\ tx = NoTx
    /\ todo' = [todo EXCEPT ![p] =
                   {g \in GwIds : key[g] = 0 /\ Eligible(gw[g]) /\ InScope(p, g)}]
    /\ UNCHANGED <<tables, marks, full, gwFrom, reqFrom, gwSeen, reqSeen, span, txn, fails>>

StartChunk(p) ==
    /\ pc[p] = "match" /\ todo[p] # {} /\ tx = NoTx
    /\ tx' = p /\ saved' = key /\ left' = Chunk
    /\ UNCHANGED <<tables, marks, pc, locals, key, fails>>

\* ORDER BY ts: the earliest pending row, ties in any order.
Earliest(p, g) == g \in todo[p] /\ \A h \in todo[p] : gw[g].ts <= gw[h].ts

\* Mutant: the query forgets NOT EXISTS.
UnclaimedAny(rows) == rows

\* Requests that no gateway row has claimed yet.
Unclaimed(rows) == {r \in rows : ~Claimed(key, r)}

\* ORDER BY distance LIMIT 1.
Closest(cands, g) ==
    {r \in cands : \A o \in cands : Distance(gw[g], req[r]) <= Distance(gw[g], req[o])}

\* The chat query runs only when the exact one found no row.
Candidates(g) ==
    LET exact == Unclaimed({r \in ReqIds : Exact(gw[g], req[r])})
    IN  IF exact # {} THEN exact ELSE Unclaimed({r \in ReqIds : Gross(gw[g], req[r])})

TakeRow(p, g) ==
    /\ tx = p /\ left > 0 /\ Earliest(p, g)
    /\ todo' = [todo EXCEPT ![p] = @ \ {g}]
    /\ left' = left - 1
    /\ UNCHANGED <<tables, marks, pc, full, gwFrom, reqFrom, gwSeen, reqSeen, span,
                   tx, saved, fails>>

\* UPDATE gw_request SET request_key = ? WHERE id = ?, whatever was there.
PairRow(p) == \E g \in todo[p] :
    /\ TakeRow(p, g)
    /\ \E r \in Closest(Candidates(g), g) : key' = [key EXCEPT ![g] = r]

LeaveRow(p) == \E g \in todo[p] :
    /\ TakeRow(p, g)
    /\ Candidates(g) = {}
    /\ key' = key

\* Mutant: the function handed to WithTx is not followed by a commit.
CommitChunkLost(p) ==
    /\ tx = p /\ (left = 0 \/ todo[p] = {})
    /\ key' = saved
    /\ tx' = NoTx /\ saved' = <<>> /\ left' = 0
    /\ UNCHANGED <<tables, marks, pc, locals, fails>>

CommitChunk(p) ==
    /\ tx = p /\ (left = 0 \/ todo[p] = {})
    /\ tx' = NoTx /\ saved' = <<>> /\ left' = 0
    /\ UNCHANGED <<tables, marks, pc, locals, key, fails>>

\* Two writes, one after the other, once every chunk committed.
WriteGwMark(p) ==
    /\ Goto(p, "match", "marking")
    /\ todo[p] = {} /\ tx = NoTx
    /\ gwMark' = gwSeen[p]
    /\ UNCHANGED <<tables, reqMark, locals, txn, fails>>

Forget(p) ==
    /\ full' = [full EXCEPT ![p] = FALSE]
    /\ gwFrom' = [gwFrom EXCEPT ![p] = 0]
    /\ reqFrom' = [reqFrom EXCEPT ![p] = 0]
    /\ gwSeen' = [gwSeen EXCEPT ![p] = 0]
    /\ reqSeen' = [reqSeen EXCEPT ![p] = 0]
    /\ span' = [span EXCEPT ![p] = {}]
    /\ todo' = [todo EXCEPT ![p] = {}]

WriteReqMark(p) ==
    /\ Goto(p, "marking", "idle")
    /\ tx = NoTx
    /\ reqMark' = reqSeen[p]
    /\ Forget(p)
    /\ UNCHANGED <<tables, gwMark, txn, fails>>

\* The pass ends early; an open transaction rolls back, the marks stay.
Fail(p) ==
    /\ pc[p] # "idle" /\ fails < MaxFails
    /\ pc' = [pc EXCEPT ![p] = "idle"]
    /\ fails' = fails + 1
    /\ IF tx = p
       THEN key' = saved /\ tx' = NoTx /\ saved' = <<>> /\ left' = 0
       ELSE UNCHANGED txn
    /\ Forget(p)
    /\ UNCHANGED <<tables, marks>>

Reads(p) ==
    ReadGwMark(p) \/ ReadReqMark(p) \/ ReadGwMax(p) \/ ReadReqMax(p) \/ ReadSpan(p) \/ ReadPending(p)

Writes(p) ==
    StartChunk(p) \/ PairRow(p) \/ LeaveRow(p) \/ CommitChunk(p) \/ WriteGwMark(p) \/ WriteReqMark(p)

Next ==
    \/ LogGw
    \/ WriteReq
    \/ RefreshReq
    \/ \E p \in Passes : Begin(p) \/ Reads(p) \/ Writes(p) \/ Fail(p)

Spec == Init /\ [][Next]_vars

\* The ~15 minute timer of docs/deploy-serve.md starts pass after pass, and a
\* started pass that does not fail runs on; nothing forces rows to arrive.
Fairness == \A p \in Passes : WF_vars(Begin(p)) /\ WF_vars(Reads(p)) /\ WF_vars(Writes(p))

FairSpec == Spec /\ Fairness
-----------------------------------------------------------------------------
Stages == {"idle", "gwMark", "reqMark", "gwMax", "reqMax", "span", "pending", "match", "marking"}

\* A request_key column: one entry per gateway row, '' or an existing request.
KeyOK(map) ==
    /\ map \in Seq(Nat) /\ Len(map) = Len(gw)
    /\ \A g \in GwIds : map[g] <= Len(req)

TablesOK ==
    /\ gw \in Seq(GwShapes) /\ req \in Seq(ReqShapes)
    /\ KeyOK(key)
    /\ gwMark \in 0 .. Len(gw) /\ reqMark \in 0 .. Len(req)

LocalsOK ==
    /\ pc \in [Passes -> Stages]
    /\ full \in [Passes -> BOOLEAN]
    /\ gwFrom \in [Passes -> Nat] /\ reqFrom \in [Passes -> Nat]
    /\ gwSeen \in [Passes -> Nat] /\ reqSeen \in [Passes -> Nat]
    /\ \A p \in Passes : gwSeen[p] <= Len(gw) /\ reqSeen[p] <= Len(req)
    /\ span \in [Passes -> SUBSET (Int \cup {NoTime})]
    /\ todo \in [Passes -> SUBSET Nat] /\ \A p \in Passes : todo[p] \subseteq GwIds

TxOK ==
    /\ tx \in Passes \cup {NoTx}
    /\ tx # NoTx => pc[tx] = "match" /\ KeyOK(saved)
    /\ left \in 0 .. Chunk
    /\ fails \in 0 .. MaxFails

\* Marks, ids and keys name existing rows, and only a pass that is matching
\* holds the write transaction (matchGwRequests).
TypeOK == TablesOK /\ LocalsOK /\ TxOK

Once(map) == \A g, h \in DOMAIN map : map[g] # 0 /\ map[g] = map[h] => g = h

\* "each transcript request claimed at most once" (matchGwRequests): no two
\* gateway rows point at one request, whatever passes run side by side, and
\* even while a chunk is half done.
ClaimedOnce == Once(key)

Sound(row, r) ==
    /\ row.ok
    /\ row.session \in {NoSession, r.session}
    /\ row.ts - r.ts <= Window /\ r.ts - row.ts <= Window
    /\ r.out = row.out
    /\ row.class = "chat" => row.session # NoSession
    /\ row.class # "chat" => <<r.in, r.ccre, r.cred>> = <<row.in, row.ccre, row.cred>>

AllSound(map) == \A g \in DOMAIN map :
    map[g] # 0 /\ req[map[g]].src = "cc" => Sound(gw[g], req[map[g]])

\* "two concurrent sessions can no longer cross-pair" (matchGwRequests): a row
\* joined with an immutable (Claude Code) request produced the same output
\* within the window, in the same session when it names one, and only a chat
\* row may differ in the way the prompt is counted.
PairSound == AllSound(key)

\* A pair the marks say was tried, both sides still free, that could be joined.
Missed(g, r) ==
    /\ g <= gwMark /\ r <= reqMark
    /\ Eligible(gw[g]) /\ Agree(gw[g], req[r])
    /\ Committed[g] = 0 /\ ~Claimed(Committed, r)

\* "Everything else was already tried against an unchanged request set": below
\* the marks an incremental pass has nothing left to find, for the requests that
\* never change after their insert, the ones of Claude Code transcripts, while
\* OpenCode rows around them are refreshed.
NothingMissedImmutable ==
    \A g \in GwIds, r \in ReqIds : req[r].src = "cc" => ~Missed(g, r)

\* The committed pairs, and the abstract ledger they implement: a pass of one
\* process only ever adds agreeing pairs of free rows, a whole chunk at once,
\* and neither a rollback nor a repeated pass takes one back.
LedgerPairs == {<<g, Committed[g]>> : g \in {h \in GwIds : Committed[h] # 0}}

Ledger == INSTANCE PairLedger WITH pairs <- LedgerPairs

LedgerSpec == Ledger!Spec

\* With passes that keep running, two immutable rows that agree do not both
\* stay free: the gateway row is joined, or its request was taken by another.
EventuallyPaired ==
    \A g \in 1 .. MaxGw, r \in 1 .. MaxReq :
        (/\ g \in GwIds /\ r \in ReqIds
         /\ Eligible(gw[g]) /\ Agree(gw[g], req[r]) /\ req[r].src = "cc")
        ~> (g \in DOMAIN Committed /\ (Committed[g] # 0 \/ Claimed(Committed, r)))
=============================================================================
