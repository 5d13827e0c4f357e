----------------------------- MODULE Migrations ------------------------------
(***************************************************************************)
(* Opening the database (internal/store, Open and migrate).  A migration is*)
(* a script of statements that SQLite commits one by one, and the schema   *)
(* version is set by a statement of its own after the script.  Every       *)
(* tokenator command opens the store, so several processes may find an old *)
(* database at once, and one may die anywhere between two statements.      *)
(***************************************************************************)
EXTENDS Integers, Sequences, FiniteSets, SequencesExt

CONSTANTS
    Openers,       \* processes that open the store
    OldVersions,   \* schema versions a database may be found at
    MaxKills       \* bound on the processes that die while they migrate

VARIABLES
    objects,       \* sqlite_master: tables, columns added later, indexes
    version,       \* PRAGMA user_version
    stage,         \* where each process is
    v,             \* local v
    next,          \* number of the next statement of the script
    kills

migrateVars == <<objects, version, stage, v, next, kills>>

\* A statement makes one thing and needs another, or nothing.
Create(name)    == [makes |-> name, needs |-> {}]
On(table, name) == [makes |-> name, needs |-> {table}]

schemaV1 == <<Create("source"), Create("session"), Create("request"),
              On("request", "idx_request_session"), On("request", "idx_request_ts"),
              Create("compaction"), Create("ingest_file")>>

schemaV2 == <<Create("block"), On("block", "idx_block_session"), On("block", "idx_block_kind"),
              On("block", "idx_block_tool"), On("block", "idx_block_file")>>

schemaV3 == <<Create("otel_datapoint"), On("otel_datapoint", "idx_otel_dp_metric"),
              On("otel_datapoint", "idx_otel_dp_session"), Create("otel_event"),
              On("otel_event", "idx_otel_event_session"), On("otel_event", "idx_otel_event_event"),
              On("otel_event", "idx_otel_event_request")>>

schemaV4 == <<On("block", "block.referenced"), On("block", "block.first_ref_ts")>>

schemaV5 == <<Create("gw_request"), On("gw_request", "idx_gw_request_ts"),
              On("gw_request", "idx_gw_request_class"), On("gw_request", "idx_gw_request_match")>>

schemaV6 == <<Create("bench_run"), Create("bench_trial"), On("bench_trial", "idx_bench_trial_run"),
              On("bench_trial", "idx_bench_trial_session")>>

schemaV7 == <<On("gw_request", "gw_request.session_id"),
              On("gw_request.session_id", "idx_gw_request_session")>>

schemaV8 == <<On("request", "idx_request_usage")>>

schemaV9 == <<Create("meta")>>

migrations == <<schemaV1, schemaV2, schemaV3, schemaV4, schemaV5, schemaV6, schemaV7, schemaV8, schemaV9>>

\* Everything the first n scripts make.
Made(n) == {s.makes : s \in UNION {ToSet(migrations[m]) : m \in 1 .. n}}

ASSUME MigrationsAssumption ==
    OldVersions \subseteq 0 .. Len(migrations) /\ MaxKills \in Nat
-----------------------------------------------------------------------------
MigrateInit ==
    /\ version \in OldVersions
    /\ objects = Made(version)
    /\ stage = [p \in Openers |-> "closed"]
    /\ v = [p \in Openers |-> 0]
    /\ next = [p \in Openers |-> 1]
    /\ kills = 0

\* The loop of migrate: another script, or done.
Continue(p, n) ==
    /\ v' = [v EXCEPT ![p] = n]
    /\ next' = [next EXCEPT ![p] = 1]
    /\ stage' = [stage EXCEPT ![p] = IF n < Len(migrations) THEN "exec" ELSE "open"]

\* Open and the read of user_version.
OpenStore(p) ==
    /\ stage[p] = "closed"
    /\ Continue(p, version)
    /\ UNCHANGED <<objects, version, kills>>

Statement(p) == migrations[v[p] + 1][next[p]]

\* CREATE and ADD COLUMN are refused for what is there already.
Applies(s) == s.makes \notin objects /\ s.needs \subseteq objects

\* Mutant: the driver runs the first statement of a script only.
LastStatementFirst(p) == next[p] = 1

LastStatement(p) == next[p] = Len(migrations[v[p] + 1])

\* Mutant: IF NOT EXISTS, what is there already is left alone.
ExecIfNotExists(p) ==
    /\ stage[p] = "exec"
    /\ objects' = objects \cup {Statement(p).makes}
    /\ IF LastStatement(p) THEN stage' = [stage EXCEPT ![p] = "pragma"] /\ UNCHANGED next
       ELSE next' = [next EXCEPT ![p] = @ + 1] /\ UNCHANGED stage
    /\ UNCHANGED <<version, v, kills>>

ExecStatement(p) ==
    /\ stage[p] = "exec"
    /\ Applies(Statement(p))
    /\ objects' = objects \cup {Statement(p).makes}
    /\ IF LastStatement(p) THEN stage' = [stage EXCEPT ![p] = "pragma"] /\ UNCHANGED next
       ELSE next' = [next EXCEPT ![p] = @ + 1] /\ UNCHANGED stage
    /\ UNCHANGED <<version, v, kills>>

\* "apply migration %d": Open closes the database and returns the error.
ExecFails(p) ==
    /\ stage[p] = "exec"
    /\ ~Applies(Statement(p))
    /\ stage' = [stage EXCEPT ![p] = "closed"]
    /\ UNCHANGED <<objects, version, v, next, kills>>

\* Mutant: the version the script started from is written.
SetVersionBefore(p) ==
    /\ stage[p] = "pragma"
    /\ version' = v[p]
    /\ Continue(p, v[p] + 1)
    /\ UNCHANGED <<objects, kills>>

\* PRAGMA user_version = v + 1
SetVersion(p) ==
    /\ stage[p] = "pragma"
    /\ version' = v[p] + 1
    /\ Continue(p, v[p] + 1)
    /\ UNCHANGED <<objects, kills>>

CloseStore(p) ==
    /\ stage[p] = "open"
    /\ stage' = [stage EXCEPT ![p] = "closed"]
    /\ UNCHANGED <<objects, version, v, next, kills>>

\* Killed, or an error of the disk or a lock that ends the open.
Kill(p) ==
    /\ stage[p] \in {"exec", "pragma"} /\ kills < MaxKills
    /\ stage' = [stage EXCEPT ![p] = "closed"]
    /\ kills' = kills + 1
    /\ UNCHANGED <<objects, version, v, next>>

MigrateStep(p) ==
    OpenStore(p) \/ ExecStatement(p) \/ ExecFails(p) \/ SetVersion(p) \/ CloseStore(p)

MigrateNext == \E p \in Openers : MigrateStep(p) \/ Kill(p)

MigrateSpec == MigrateInit /\ [][MigrateNext]_migrateVars

\* Commands are given again and again, and a process goes on.
MigrateFairSpec == MigrateSpec /\ \A p \in Openers : WF_migrateVars(MigrateStep(p))
-----------------------------------------------------------------------------
\* The version is a promise about the schema (migrate): whoever set it, and
\* whatever died on the way, every statement up to it has been carried out.
VersionSound == Made(version) \subseteq objects

\* A store that Open returned has the whole schema, although another process
\* was migrating it, or had died doing so; and VersionSound.
SchemaSound ==
    /\ VersionSound
    /\ \A p \in Openers : stage[p] = "open" => objects = Made(Len(migrations))

\* No process takes the version back, however late it is: the scripts that were
\* applied would be applied again.
NeverBack == [][version' >= version]_migrateVars

\* Two opens may refuse each other's script, but not for ever: the database
\* reaches the last version.  A process that died in a script may have left one
\* that no later open can apply.
Settles == <>(version = Len(migrations) \/ kills > 0)
=============================================================================
