---------------------------- MODULE GatewayPull -----------------------------
(***************************************************************************)
(* Pulling the router's request log into gw_request (internal/ingest/      *)
(* reqlog, Run).  The origin is a Postgres table that the router's own     *)
(* transactions insert into; a pull asks for the rows above a cursor, in   *)
(* batches, and the cursor of a pull is the greatest row id stored so far. *)
(* Several `tokenator reqlog` processes may pull at once.                  *)
(***************************************************************************)
EXTENDS Integers, Sequences, FiniteSets, SequencesExt

CONSTANTS
    Pullers,     \* processes that run `tokenator reqlog`
    Batch,       \* fetchBatch
    InOrder,     \* do the router's transactions commit in the order of their ids?
    MaxRows,     \* bound on the ids the sequence hands out
    MaxFailed     \* bound on the pulls that end early

ASSUME PullAssumption ==
    /\ Batch \in Nat \ {0}
    /\ InOrder \in BOOLEAN
    /\ MaxRows \in Nat /\ MaxFailed \in Nat

VARIABLES
    last,        \* last value of the id sequence
    open,        \* ids of inserts that are not committed yet
    origin,      \* ids of the rows that a SELECT sees
    stored,      \* id -> rows of gw_request that have it as their pg_id
    phase,       \* where each pull is
    cursor,
    rows,        \* local rows, the batch fetched
    failed

router == <<last, open, origin>>
pullVars == <<router, stored, phase, cursor, rows, failed>>

Stored == {i \in 1 .. MaxRows : stored[i] > 0}
-----------------------------------------------------------------------------
PullInit ==
    /\ last = 0 /\ open = {} /\ origin = {}
    /\ stored = [i \in 1 .. MaxRows |-> 0]
    /\ phase = [p \in Pullers |-> "idle"]
    /\ cursor = [p \in Pullers |-> 0]
    /\ rows = [p \in Pullers |-> <<>>]
    /\ failed = 0

(***************************************************************************)
(* The router: an insert takes its id at once and is seen when it commits, *)
(* or never.                                                               *)
(***************************************************************************)
InsertRow ==
    /\ last < MaxRows
    /\ last' = last + 1 /\ open' = open \cup {last + 1}
    /\ UNCHANGED <<origin, stored, phase, cursor, rows, failed>>

CommitRow(i) ==
    /\ i \in open /\ (InOrder => \A j \in open : i <= j)
    /\ open' = open \ {i} /\ origin' = origin \cup {i}
    /\ UNCHANGED <<last, stored, phase, cursor, rows, failed>>

RollbackRow(i) ==
    /\ i \in open /\ open' = open \ {i}
    /\ UNCHANGED <<last, origin, stored, phase, cursor, rows, failed>>

(***************************************************************************)
(* One pull.                                                               *)
(***************************************************************************)
Advance(p, from, to) == phase[p] = from /\ phase' = [phase EXCEPT ![p] = to]

\* MaxGwPGID: the greatest id stored, or 0.
ReadCursor(p) ==
    /\ Advance(p, "idle", "fetch")
    /\ \E c \in Stored \cup {0} :
          /\ \A i \in Stored : i <= c
          /\ cursor' = [cursor EXCEPT ![p] = c]
    /\ UNCHANGED <<router, stored, rows, failed>>

Ascending(s) == \A i, j \in DOMAIN s : i < j => s[i] < s[j]

Batches(c) == {b \in BoundedSeq({i \in origin : i > c}, Batch) : Ascending(b)}

\* Mutant: a batch is any rows above the cursor.
AboveAnyOrder(c) ==
    {b \in Batches(c) : {i \in origin : i > c} \subseteq ToSet(b) \/ Len(b) = Batch}

\* WHERE id > $1 ORDER BY id LIMIT $2: what is left out comes after a full batch.
Above(c) ==
    {b \in Batches(c) :
        \A i \in origin : i > c /\ i \notin ToSet(b) =>
            Len(b) = Batch /\ \A j \in ToSet(b) : j < i}

Fetch(p) ==
    /\ phase[p] = "fetch"
    /\ \E batch \in Above(cursor[p]) :
          /\ rows' = [rows EXCEPT ![p] = batch]
          /\ phase' = [phase EXCEPT ![p] = IF batch = <<>> THEN "match" ELSE "store"]
    /\ UNCHANGED <<router, stored, cursor, failed>>

\* Mutant: the dedupe key does not stop a second insert.
InsertAlways(table, batch) ==
    [i \in DOMAIN table |-> IF i \in ToSet(batch) THEN table[i] + 1 ELSE table[i]]

\* InsertGwRequest of each row; a duplicate dedupe key is a no-op.
InsertGwRequest(table, batch) ==
    [i \in DOMAIN table |-> IF i \in ToSet(batch) /\ table[i] = 0 THEN 1 ELSE table[i]]

\* One transaction for the batch; a short one was the last.
StoreBatch(p) ==
    /\ phase[p] = "store"
    /\ stored' = InsertGwRequest(stored, rows[p])
    /\ cursor' = [cursor EXCEPT ![p] = Last(rows[p])]
    /\ phase' = [phase EXCEPT ![p] = IF Len(rows[p]) < Batch THEN "match" ELSE "fetch"]
    /\ rows' = [rows EXCEPT ![p] = <<>>]
    /\ UNCHANGED <<router, failed>>

\* MatchGwRequests: Pairing.tla.
Match(p) ==
    /\ Advance(p, "match", "idle")
    /\ cursor' = [cursor EXCEPT ![p] = 0]
    /\ UNCHANGED <<router, stored, rows, failed>>

\* A failed query, a rolled back transaction, a kill.
FailPull(p) ==
    /\ phase[p] # "idle" /\ failed < MaxFailed
    /\ failed' = failed + 1
    /\ phase' = [phase EXCEPT ![p] = "idle"]
    /\ cursor' = [cursor EXCEPT ![p] = 0]
    /\ rows' = [rows EXCEPT ![p] = <<>>]
    /\ UNCHANGED <<router, stored>>

PullStep(p) == ReadCursor(p) \/ Fetch(p) \/ StoreBatch(p) \/ Match(p)

PullNext ==
    \/ InsertRow
    \/ \E i \in open : CommitRow(i) \/ RollbackRow(i)
    \/ \E p \in Pullers : PullStep(p) \/ FailPull(p)

PullSpec == PullInit /\ [][PullNext]_pullVars

\* Pull after pull, by the timer of docs/deploy-serve.md.
PullFairSpec == PullSpec /\ \A p \in Pullers : WF_pullVars(PullStep(p))
-----------------------------------------------------------------------------
\* "the cursor is MAX(pg_id) already stored for the source, so re-runs only
\* fetch new rows" (package comment): no committed row is left behind below the
\* cursor, and none is stored twice, whatever pulls ran side by side, fetched the
\* same rows or died between two batches.
NothingBehind ==
    /\ \A i \in origin, j \in Stored : i <= j => i \in Stored
    /\ \A i \in Stored : stored[i] = 1

\* A row of the log reaches the database.
EventuallyPulled == \A i \in 1 .. MaxRows : (i \in origin) ~> (i \in Stored)
=============================================================================
