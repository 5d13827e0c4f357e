------------------------------ MODULE Telemetry -------------------------------
(***************************************************************************)
(* The OTLP receiver (internal/ingest/otel): Claude Code exports batches   *)
(* of metric datapoints and of log events over HTTP, and every batch is    *)
(* written in one transaction.  Exports are lost, sent again when no       *)
(* answer came, and handled in any order, each by a goroutine of its own;  *)
(* the one database connection makes their transactions atomic.  A series  *)
(* is cumulative (a growing value under one start) or delta (a new start   *)
(* with every export), and a process that restarts begins a new start.     *)
(***************************************************************************)
EXTENDS Integers, Sequences, FiniteSets, Functions, SequencesExt

CONSTANTS
    Series,        \* metric and attributes without the start time
    MaxExports,    \* bound on the metric batches made
    MaxEvents,     \* bound on the events logged
    MaxRestarts,   \* bound on the exporter's restarts
    MaxLost,       \* bound on the batches the exporter gives up
    MaxFails       \* bound on the transactions that fail

ASSUME TelemetryAssumption ==
    /\ IsFiniteSet(Series)
    /\ MaxExports \in Nat /\ MaxEvents \in Nat /\ MaxRestarts \in Nat
    /\ MaxLost \in Nat /\ MaxFails \in Nat

VARIABLES
    cumulative,    \* the temporality of the exporter
    start,         \* start time of the points the exporter makes
    total,         \* series -> value counted since then (cumulative)
    used,          \* everything counted in what was exported
    made,          \* history: the metric batches made
    logged,        \* events logged so far, numbered
    net,           \* batches on their way, or to be sent again
    acked,         \* batches answered with 200
    datapoints,    \* otel_datapoint: <<series, start>> -> [ts, value]
    events,        \* otel_event, row by row
    restarts, lost, fails

exporter == <<cumulative, start, total, used, made, logged>>
tables   == <<datapoints, events>>
vars     == <<exporter, net, acked, tables, restarts, lost, fails>>

Metrics(ts, points) == [kind |-> "metrics", ts |-> ts, points |-> points, events |-> {}]
Logs(set)           == [kind |-> "logs", ts |-> 0, points |-> <<>>, events |-> set]

\* SUM(value)
Sum(table) == SumFunction([k \in DOMAIN table |-> table[k].value])

\* Exports are at even times, restarts at odd ones.
Now == 2 * Cardinality(made) + 2
-----------------------------------------------------------------------------
Init ==
    /\ cumulative \in BOOLEAN
    /\ start = 0 /\ total = [s \in Series |-> 0] /\ used = 0 /\ made = {}
    /\ logged = 0
    /\ net = {} /\ acked = {}
    /\ datapoints = <<>> /\ events = <<>>
    /\ restarts = 0 /\ lost = 0 /\ fails = 0

(***************************************************************************)
(* The exporter in Claude Code.                                            *)
(***************************************************************************)

\* A periodic export of what was counted since the last one.
ExportMetrics ==
    /\ Cardinality(made) < MaxExports
    /\ \E add \in [Series -> 0 .. 1] :
          LET values == [s \in Series |-> add[s] + (IF cumulative THEN total[s] ELSE 0)]
              keys   == {<<s, start>> : s \in {t \in Series : values[t] > 0}}
              batch  == Metrics(Now, [k \in keys |-> values[k[1]]])
          IN  /\ keys # {}
              /\ made' = made \cup {batch} /\ net' = net \cup {batch}
              /\ total' = IF cumulative THEN values ELSE total
              /\ used' = used + SumFunction(add)
    /\ start' = IF cumulative THEN start ELSE Now
    /\ UNCHANGED <<cumulative, logged, acked, tables, restarts, lost, fails>>

ExportLogs ==
    /\ \E n \in 1 .. (MaxEvents - logged) :
          /\ net' = net \cup {Logs((logged + 1) .. (logged + n))}
          /\ logged' = logged + n
    /\ UNCHANGED <<cumulative, start, total, used, made, acked, tables, restarts, lost, fails>>

\* The session is resumed by a new process.
RestartExporter ==
    /\ restarts < MaxRestarts /\ restarts' = restarts + 1
    /\ start' = Now - 1 /\ total' = [s \in Series |-> 0]
    /\ UNCHANGED <<cumulative, used, made, logged, net, acked, tables, lost, fails>>

\* A timeout, a receiver that is down, a shutdown.
GiveUp(batch) ==
    /\ batch \in net /\ lost < MaxLost
    /\ lost' = lost + 1 /\ net' = net \ {batch}
    /\ UNCHANGED <<exporter, acked, tables, restarts, fails>>

(***************************************************************************)
(* The receiver.                                                           *)
(***************************************************************************)

\* The answer arrives, or the batch is sent again.
Answer(batch) ==
    \/ net' = net \ {batch} /\ acked' = acked \cup {batch}
    \/ UNCHANGED <<net, acked>>

\* Mutants: no guard against late batches; values are added up.
UpsertAnyOrder(table, batch) ==
    [k \in DOMAIN table \cup DOMAIN batch.points |->
        IF k \in DOMAIN batch.points THEN [ts |-> batch.ts, value |-> batch.points[k]] ELSE table[k]]
UpsertAdds(table, batch) ==
    [k \in DOMAIN table \cup DOMAIN batch.points |->
        IF k \notin DOMAIN batch.points THEN table[k]
        ELSE [ts |-> batch.ts, value |-> batch.points[k]
                 + (IF k \in DOMAIN table THEN table[k].value ELSE 0)]]

\* Of each point; a batch older than the row leaves it alone.
UpsertOTelDatapoint(table, batch) ==
    LET refreshed == {k \in DOMAIN batch.points :
                         k \in DOMAIN table => batch.ts >= table[k].ts}
    IN  [k \in DOMAIN table \cup refreshed |->
            IF k \in refreshed THEN [ts |-> batch.ts, value |-> batch.points[k]] ELSE table[k]]

\* Of each record; a known dedupe key is a no-op.
InsertOTelEvent(table, batch) == table \o SetToSeq(batch.events \ ToSet(table))

HandleMetrics(batch) ==
    /\ batch \in net /\ batch.kind = "metrics"
    /\ datapoints' = UpsertOTelDatapoint(datapoints, batch)
    /\ Answer(batch)
    /\ UNCHANGED <<exporter, events, restarts, lost, fails>>

HandleLogs(batch) ==
    /\ batch \in net /\ batch.kind = "logs"
    /\ events' = InsertOTelEvent(events, batch)
    /\ Answer(batch)
    /\ UNCHANGED <<exporter, datapoints, restarts, lost, fails>>

\* Mutant: the error is logged and the batch acknowledged.
StoreFailsQuietly(batch) ==
    /\ batch \in net /\ fails < MaxFails
    /\ fails' = fails + 1 /\ net' = net \ {batch} /\ acked' = acked \cup {batch}
    /\ UNCHANGED <<exporter, tables, restarts, lost>>

\* Rolled back and answered with 500, which an OTLP exporter does not repeat.
StoreFails(batch) ==
    /\ batch \in net /\ fails < MaxFails
    /\ fails' = fails + 1 /\ net' = net \ {batch}
    /\ UNCHANGED <<exporter, acked, tables, restarts, lost>>

Next ==
    \/ ExportMetrics \/ ExportLogs \/ RestartExporter
    \/ \E batch \in net :
          GiveUp(batch) \/ HandleMetrics(batch) \/ HandleLogs(batch) \/ StoreFails(batch)

Spec == Init /\ [][Next]_vars
-----------------------------------------------------------------------------
\* The batches that are the last to speak of one of their points.
Decisive == {b \in made : \E k \in DOMAIN b.points :
                \A c \in made : k \in DOMAIN c.points => c.ts <= b.ts}

\* "Either way SUM(value) over rows is the true total" (schemaV3): once the
\* batches that matter are acknowledged, whatever else was lost, repeated or
\* comes late.
SumIsTotal == Decisive \subseteq acked => Sum(datapoints) = used

\* Whatever was lost, repeated or reordered, no token is counted twice.
NeverOver == Sum(datapoints) <= used

\* An acknowledged batch is in the database for good, and a "re-delivered export
\* batch is a no-op" (InsertOTelEvent): its events are there, all of them, once.
AckedStored ==
    /\ \A batch \in acked :
          /\ \A k \in DOMAIN batch.points :
                k \in DOMAIN datapoints /\ datapoints[k].ts >= batch.ts
          /\ batch.events \subseteq ToSet(events)
    /\ IsInjective(events)
=============================================================================
