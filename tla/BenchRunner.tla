---------------------------- MODULE BenchRunner -----------------------------
(***************************************************************************)
(* `tokenator bench` (internal/bench): one run key of an experiment, its   *)
(* trials, and the commands a user gives for it: run, run --resume and     *)
(* ingest.  A run key is a minute and a name: a second run within the      *)
(* minute finds it taken.  The spec file may be another one by then; what  *)
(* the run was inserted with is in its row.  Every trial has a directory   *)
(* that its reruns share, a row that they overwrite, and agents that write *)
(* transcripts into the directory.                                         *)
(* An agent is a process group of its own: it outlives a runner that is    *)
(* killed.  An attempt is one agent, numbered; its number stands for its   *)
(* session id and for its transcript.                                      *)
(***************************************************************************)
EXTENDS Integers, Sequences, FiniteSets, FiniteSetsExt

CONSTANTS
    Procs,         \* processes a user runs bench commands in
    Files,         \* what the spec file may say when it is loaded
    Flags,         \* --arm and --trials, AnyArm and 0 when not given
    AnyArm, NoSpec,
    DefaultTrials, \* of a spec that does not say
    MaxTrials,     \* bound on the trials of an arm
    Newer,         \* arms whose OpenCode keeps its sessions in opencode.db
    MaxCommands,   \* bound on the commands that get to work
    MaxFaults      \* bound on infrastructure errors, interrupts and kills

Arms == UNION {{file.arms[i].name : i \in DOMAIN file.arms} : file \in Files}

Harnesses == {"claude_code", "opencode"}

ASSUME BenchAssumption ==
    /\ \A file \in Files :
          /\ file \in [arms : Seq([name : Arms, harness : STRING]), trials : Int]
          /\ file.trials <= MaxTrials
    /\ Flags \subseteq [arm : Arms \cup {AnyArm}, trials : 0 .. MaxTrials]
    /\ AnyArm \notin Arms
    /\ MaxTrials \in Nat /\ DefaultTrials \in 1 .. MaxTrials /\ Newer \subseteq Arms
    /\ MaxCommands \in Nat /\ MaxFaults \in Nat

\* A trial is an arm and an index from 1.
Trials == Arms \X (1 .. MaxTrials)

VARIABLES
    run,           \* bench_run: "none", "started", "finished"
    snapshot,      \* its spec_json
    specFile,      \* spec.json in the run directory
    rows,          \* bench_trial: trial -> [status, harness, sid, ingested]
    disk,          \* trial directory: the transcripts in it
    stored,        \* request rows: transcripts ingested under the trial's root
    written,       \* history: every transcript an agent of the trial wrote
    alive,         \* agents running: <<trial, attempt>>
    pc,
    spec,          \* the spec a command works by
    flags,         \* what it was told to leave of it, until its list is drawn up
    todo,          \* trials this command has still to do
    attempt,       \* the attempt this process works on
    outcome,       \* status execTrial and the checks came to
    ingested,      \* did the inline ingest succeed
    interrupted,   \* ctx is cancelled (SIGINT, SIGTERM)
    attempts, commands, errors, kills

bench  == <<run, snapshot, specFile>>
db     == <<bench, rows, stored>>
agents == <<disk, written, alive>>
given  == <<spec, flags>>
trial  == <<attempt, outcome, ingested>>
locals == <<given, todo, trial, interrupted>>
counts == <<attempts, commands, errors, kills>>
vars   == <<db, agents, pc, locals, counts>>

NoFlags == [arm |-> AnyArm, trials |-> 0]

\* Session ids besides those of attempts: none yet, and one nobody asked for.
NoSid == 0
OtherSid == -1

NoRow == [status |-> "missing", harness |-> "", sid |-> NoSid, ingested |-> FALSE]

Complete(status) == status \in {"ok", "fail"}

\* The earliest in the order of the arms, and of the trials of an arm.
Current(p) ==
    LET arms == spec[p].arms
        arm  == arms[Min({i \in DOMAIN arms : \E t \in todo[p] : t[1] = arms[i].name})].name
    IN  <<arm, Min({n \in 1 .. MaxTrials : <<arm, n>> \in todo[p]})>>

Agent(p)   == <<Current(p), attempt[p]>>

ArmOf(s, t) == s.arms[CHOOSE i \in DOMAIN s.arms : s.arms[i].name = t[1]]

Harness(p) == ArmOf(spec[p], Current(p)).harness
-----------------------------------------------------------------------------
(***************************************************************************)
(* The spec.                                                               *)
(***************************************************************************)

\* Two arms of one name would share their directories and rows.
Valid(s) ==
    /\ s.arms # <<>>
    /\ \A i, j \in DOMAIN s.arms : s.arms[i].name = s.arms[j].name => i = j
    /\ \A i \in DOMAIN s.arms : s.arms[i].harness \in Harnesses

\* Load: validated, with defaults applied.
Loaded == {[s EXCEPT !.trials = IF @ <= 0 THEN DefaultTrials ELSE @] : s \in {f \in Files : Valid(f)}}

\* workList: of the arms asked for, the trials that are not to be skipped.
workList(s, fl, skip) ==
    LET arms   == {i \in DOMAIN s.arms : fl.arm \in {AnyArm, s.arms[i].name}}
        trials == IF fl.trials > 0 THEN fl.trials ELSE s.trials
    IN  ({s.arms[i].name : i \in arms} \X (1 .. trials)) \ skip

Init ==
    /\ run = "none" /\ snapshot = NoSpec /\ specFile = NoSpec
    /\ rows = [t \in Trials |-> NoRow]
    /\ disk = [t \in Trials |-> {}]
    /\ stored = [t \in Trials |-> {}]
    /\ written = [t \in Trials |-> {}]
    /\ alive = {}
    /\ pc = [p \in Procs |-> "idle"]
    /\ spec = [p \in Procs |-> NoSpec]
    /\ flags = [p \in Procs |-> NoFlags]
    /\ todo = [p \in Procs |-> {}]
    /\ attempt = [p \in Procs |-> 0]
    /\ outcome = [p \in Procs |-> ""]
    /\ ingested = [p \in Procs |-> FALSE]
    /\ interrupted = [p \in Procs |-> FALSE]
    /\ attempts = 0 /\ commands = 0 /\ errors = 0 /\ kills = 0

Goto(p, from, to) == pc[p] = from /\ pc' = [pc EXCEPT ![p] = to]

(***************************************************************************)
(* The commands.                                                           *)
(***************************************************************************)
Fault == errors + kills < MaxFaults /\ errors' = errors + 1

\* bench run: the directory and its spec.json come before the confirmation and
\* before the row.
Run(p) ==
    /\ commands < MaxCommands
    /\ Goto(p, "idle", "preflight")
    /\ \E s \in Loaded, fl \in Flags :
          /\ spec' = [spec EXCEPT ![p] = s]
          /\ flags' = [flags EXCEPT ![p] = fl]
          /\ specFile' = s
    /\ UNCHANGED <<run, snapshot, rows, stored, agents, todo, trial, interrupted, counts>>

\* InsertBenchRun: the run key was free.
InsertBenchRun(p) ==
    /\ run = "none" /\ run' = "started"
    /\ Goto(p, "preflight", "next")
    /\ commands' = commands + 1
    /\ snapshot' = spec[p]
    /\ todo' = [todo EXCEPT ![p] = workList(spec[p], flags[p], {})]
    /\ flags' = [flags EXCEPT ![p] = NoFlags]
    /\ UNCHANGED <<specFile, rows, stored, agents, spec, trial, interrupted, attempts, errors, kills>>

Forget(p) ==
    /\ spec' = [spec EXCEPT ![p] = NoSpec]
    /\ flags' = [flags EXCEPT ![p] = NoFlags]
    /\ todo' = [todo EXCEPT ![p] = {}]
    /\ attempt' = [attempt EXCEPT ![p] = 0]
    /\ outcome' = [outcome EXCEPT ![p] = ""]
    /\ ingested' = [ingested EXCEPT ![p] = FALSE]
    /\ interrupted' = [interrupted EXCEPT ![p] = FALSE]

\* The user declines; spec.json stays.
Declined(p) ==
    /\ Goto(p, "preflight", "idle")
    /\ Forget(p)
    /\ UNCHANGED <<db, agents, counts>>

\* The run key is taken, and spec.json is that of the run refused.
RunKeyTaken(p) ==
    /\ run # "none"
    /\ Goto(p, "preflight", "idle")
    /\ Forget(p)
    /\ UNCHANGED <<db, agents, counts>>

\* Mutant: only trials that passed their checks are left alone.
SkippedOK == {t \in Trials : rows[t].status = "ok"}

\* Completed observations are kept.
Skipped == {t \in Trials : Complete(rows[t].status)}

\* Mutant: the spec of the run directory.
SpecForDisk == specFile

\* FromSnapshot.
SpecFor == snapshot

Command(p, stage, list) ==
    /\ run # "none" /\ commands < MaxCommands
    /\ commands' = commands + 1
    /\ Goto(p, "idle", stage)
    /\ spec' = [spec EXCEPT ![p] = SpecFor]
    /\ todo' = [todo EXCEPT ![p] = list]
    /\ UNCHANGED <<db, agents, flags, trial, interrupted, attempts, errors, kills>>

\* bench run --resume, and there is something to resume.
Resume(p) == \E fl \in Flags :
    /\ run # "none"
    /\ workList(SpecFor, fl, Skipped) # {}
    /\ Command(p, "next", workList(SpecFor, fl, Skipped))

\* bench ingest: every trial that has a row.
IngestRun(p) ==
    Command(p, "backfill", {t \in Trials : rows[t] # NoRow})

(***************************************************************************)
(* runTrial.                                                               *)
(***************************************************************************)

\* os.RemoveAll of the trial's directory.
CleanTrial(p) ==
    /\ todo[p] # {} /\ ~interrupted[p]
    /\ Goto(p, "next", "register")
    /\ disk' = [disk EXCEPT ![Current(p)] = {}]
    /\ attempts' = attempts + 1
    /\ attempt' = [attempt EXCEPT ![p] = attempts + 1]
    /\ UNCHANGED <<db, written, alive, given, todo, outcome, ingested, interrupted, commands, errors, kills>>

\* The session id a row starts with: assigned for Claude Code, else unknown.
Assigned(p) == IF Harness(p) = "claude_code" THEN attempt[p] ELSE NoSid

\* UpsertBenchTrial overwrites the whole row.
WriteRow(p, status, sid, done) ==
    rows' = [rows EXCEPT ![Current(p)] =
                [status |-> status, harness |-> Harness(p), sid |-> sid, ingested |-> done]]

Register(p) ==
    /\ Goto(p, "register", "prepare")
    /\ WriteRow(p, "running", Assigned(p), FALSE)
    /\ UNCHANGED <<bench, stored, agents, locals, counts>>

\* Copy the workspace, seed the home, start the agent.
StartAgent(p) ==
    /\ Goto(p, "prepare", "agent")
    /\ alive' = alive \cup {Agent(p)}
    /\ UNCHANGED <<db, disk, written, locals, counts>>

AgentWrites(a) ==
    /\ a \in alive
    /\ disk' = [disk EXCEPT ![a[1]] = @ \cup {a[2]}]
    /\ written' = [written EXCEPT ![a[1]] = @ \cup {a[2]}]
    /\ UNCHANGED <<db, alive, pc, locals, counts>>

\* An agent nobody waits for any more.
OrphanExits(a) ==
    /\ a \in alive
    /\ \A p \in Procs : pc[p] = "agent" => Agent(p) # a
    /\ alive' = alive \ {a}
    /\ UNCHANGED <<db, disk, written, pc, locals, counts>>

AgentEnds(p, status) ==
    /\ Goto(p, "agent", "ingest")
    /\ outcome' = [outcome EXCEPT ![p] = status]
    /\ UNCHANGED <<db, disk, written, given, todo, attempt, ingested, interrupted, counts>>

\* The agent exits: a result and checks, or an exit code or a result that says
\* it went wrong.
AgentExits(p) ==
    /\ \E status \in {"ok", "fail", "error"} : AgentEnds(p, status)
    /\ alive' = alive \ {Agent(p)}

\* Mutant: only the harness process is waited for, its group is not killed.
DeadlineKeeps(p) == AgentEnds(p, "timeout") /\ alive' = alive

\* Mutant: the agent is asked to stop and waited for.
DeadlineWaits(p) == AgentEnds(p, "timeout") /\ Agent(p) \notin alive /\ alive' = alive

\* The deadline: the whole process group is killed.  An agent that finished at
\* that moment is recorded the same way.
Deadline(p) == AgentEnds(p, "timeout") /\ alive' = alive \ {Agent(p)}

\* The context is cancelled: the group is killed, and the run error decides.
KilledByInterrupt(p) ==
    /\ interrupted[p]
    /\ AgentEnds(p, "error")
    /\ alive' = alive \ {Agent(p)}

\* What the ingester of the harness finds for a trial.  That of OpenCode is
\* given the storage tree of the trial, never its opencode.db.
Found(t, harness) == IF harness = "opencode" /\ t[1] \in Newer THEN {} ELSE disk[t]

\* Inline ingest, whatever the status; an error becomes a note.
IngestTrial(p) ==
    /\ Goto(p, "ingest", "record")
    /\ \E ok \in BOOLEAN, part \in SUBSET Found(Current(p), Harness(p)) :
          /\ ok => part = Found(Current(p), Harness(p))
          /\ stored' = [stored EXCEPT ![Current(p)] = @ \cup part]
          /\ ingested' = [ingested EXCEPT ![p] = ok]
    /\ UNCHANGED <<bench, rows, agents, given, todo, attempt, outcome, interrupted, counts>>

\* ParseResult of Claude Code: a result of another session is an error.
ccSids(p) == IF outcome[p] = "error" THEN {Assigned(p), OtherSid} ELSE {Assigned(p)}

\* ParseResult of OpenCode: the session id is found in the events, or it is an
\* error.
ocSids(p) == IF outcome[p] = "error" THEN {NoSid, attempt[p]} ELSE {attempt[p]}

\* The session id at the end; a timeout parses nothing.
FinalSids(p) ==
    IF outcome[p] = "timeout" THEN {Assigned(p)}
    ELSE IF Harness(p) = "claude_code" THEN ccSids(p) ELSE ocSids(p)

NextTrial(p) ==
    /\ todo' = [todo EXCEPT ![p] = @ \ {Current(p)}]
    /\ attempt' = [attempt EXCEPT ![p] = 0]
    /\ outcome' = [outcome EXCEPT ![p] = ""]
    /\ ingested' = [ingested EXCEPT ![p] = FALSE]

\* Mutant: a trial counts as ingested when ingest was tried.
RecordTrialTried(p) ==
    /\ Goto(p, "record", "next")
    /\ \E sid \in FinalSids(p) : WriteRow(p, outcome[p], sid, TRUE)
    /\ NextTrial(p)
    /\ UNCHANGED <<bench, stored, agents, given, interrupted, counts>>

RecordTrial(p) ==
    /\ Goto(p, "record", "next")
    /\ \E sid \in FinalSids(p) : WriteRow(p, outcome[p], sid, ingested[p])
    /\ NextTrial(p)
    /\ UNCHANGED <<bench, stored, agents, given, interrupted, counts>>

(***************************************************************************)
(* The end of a command.                                                   *)
(***************************************************************************)
\* FinishBenchRun, however execute returned.
Finish(p) ==
    /\ pc[p] = "failed" \/ (pc[p] = "next" /\ (todo[p] = {} \/ interrupted[p]))
    /\ pc' = [pc EXCEPT ![p] = "idle"]
    /\ run' = "finished"
    /\ Forget(p)
    /\ UNCHANGED <<snapshot, specFile, rows, stored, agents, counts>>

\* A file or database error of runTrial ends the run; the row stays as it is.
InfraError(p) ==
    /\ Fault
    /\ pc[p] \in {"register", "prepare", "record"}
    /\ pc' = [pc EXCEPT ![p] = "failed"]
    /\ UNCHANGED <<db, agents, locals, attempts, commands, kills>>

\* Interrupt or terminate: noticed by the agent's context and between trials.
Interrupt(p) ==
    /\ Fault
    /\ pc[p] \notin {"idle", "backfill", "mark"} /\ ~interrupted[p]
    /\ interrupted' = [interrupted EXCEPT ![p] = TRUE]
    /\ UNCHANGED <<db, agents, pc, given, todo, trial, attempts, commands, kills>>

\* The runner is killed; nothing of its own runs any more, its agent does.
Kill(p) ==
    /\ errors + kills < MaxFaults /\ kills' = kills + 1
    /\ pc[p] # "idle"
    /\ pc' = [pc EXCEPT ![p] = "idle"]
    /\ Forget(p)
    /\ UNCHANGED <<db, agents, attempts, commands, errors>>

(***************************************************************************)
(* bench ingest, trial by trial.                                           *)
(***************************************************************************)
NextBackfill(p) == todo' = [todo EXCEPT ![p] = @ \ {Current(p)}]

\* By the harness and the root of the row.
Backfilled(p) == Found(Current(p), rows[Current(p)].harness)

BackfillTrial(p) ==
    /\ todo[p] # {}
    /\ Goto(p, "backfill", "mark")
    /\ stored' = [stored EXCEPT ![Current(p)] = @ \cup Backfilled(p)]
    /\ UNCHANGED <<bench, rows, agents, locals, counts>>

BackfillFails(p) ==
    /\ todo[p] # {} /\ pc[p] = "backfill"
    /\ \E part \in SUBSET Backfilled(p) :
          stored' = [stored EXCEPT ![Current(p)] = @ \cup part]
    /\ NextBackfill(p)
    /\ UNCHANGED <<bench, rows, agents, pc, given, trial, interrupted, counts>>

MarkIngested(p) ==
    /\ Goto(p, "mark", "backfill")
    /\ rows' = [rows EXCEPT ![Current(p)].ingested = TRUE]
    /\ NextBackfill(p)
    /\ UNCHANGED <<bench, stored, agents, given, trial, interrupted, counts>>

EndIngestRun(p) ==
    /\ todo[p] = {}
    /\ Goto(p, "backfill", "idle")
    /\ Forget(p)
    /\ UNCHANGED <<db, agents, counts>>

Commands(p) == Run(p) \/ Declined(p) \/ Resume(p) \/ IngestRun(p)

\* What a process does on its own, with the deadline to rely on.
Step(p) ==
    \/ InsertBenchRun(p) \/ RunKeyTaken(p) \/ CleanTrial(p) \/ Register(p) \/ StartAgent(p)
    \/ Deadline(p) \/ KilledByInterrupt(p) \/ IngestTrial(p) \/ RecordTrial(p) \/ Finish(p)
    \/ BackfillTrial(p) \/ BackfillFails(p) \/ MarkIngested(p) \/ EndIngestRun(p)

Next ==
    \/ \E p \in Procs : Commands(p) \/ Step(p) \/ AgentExits(p)
    \/ \E p \in Procs : InfraError(p) \/ Interrupt(p) \/ Kill(p)
    \/ \E a \in alive : AgentWrites(a) \/ OrphanExits(a)

Spec == Init /\ [][Next]_vars

\* A process goes on, and a user who does not decline confirms; no agent has to
\* end, and no command has to be given.
FairSpec == Spec /\ \A p \in Procs : WF_vars(Step(p))
-----------------------------------------------------------------------------
\* "resume always uses the snapshot, never the file" (Spec): every row is of an
\* arm of the spec the run was inserted with, under that arm's harness, although
\* a second run of the minute leaves its own spec.json in the directory.
SpecKept ==
    \A t \in Trials : rows[t] # NoRow =>
        \E i \in DOMAIN snapshot.arms :
            snapshot.arms[i].name = t[1] /\ snapshot.arms[i].harness = rows[t].harness

\* "Completed observations (ok/fail) are kept" (Resume): no later command
\* changes what a completed row says of its trial.
CompletedKept ==
    [][\A t \in Trials : Complete(rows[t].status) =>
          rows'[t].status = rows[t].status /\ rows'[t].sid = rows[t].sid]_vars

\* A completed trial names the session of an attempt.  When it is marked ingested
\* its transcript is in the database, and when it is not the transcript can still
\* be backfilled with `bench ingest` (IngestRun), unless OpenCode keeps it in its
\* opencode.db, which no ingest of a trial reads.
CompletedRecoverable ==
    \A t \in Trials : Complete(rows[t].status) =>
        /\ rows[t].sid \in 1 .. attempts
        /\ rows[t].sid \in written[t] => rows[t].sid \in disk[t] \cup stored[t]
        /\ rows[t].sid \in written[t] /\ rows[t].ingested =>
              \/ rows[t].sid \in stored[t]
              \/ rows[t].harness = "opencode" /\ t[1] \in Newer

\* "Trials run sequentially by design" (docs/bench.md): timeouts, interrupts and
\* infrastructure errors leave no agent behind.  A runner that is killed does:
\* its agent may run on beside the one a resume starts.
Sequential == kills = 0 => \A a, b \in alive : a = b

\* Every command comes to its end, although an agent may hang for ever.
CommandsEnd == \A p \in Procs : (pc[p] # "idle") ~> (pc[p] = "idle")
=============================================================================
