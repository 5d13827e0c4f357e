# tokenator in TLA+

A verification project for `tokenator`, the token profiler whose source is under
`src/`.  tokenator reads what coding agents leave behind (Claude Code transcripts,
the OpenCode store, a router's request log, OpenTelemetry exports) into one SQLite
database, pairs what the router saw with what the transcripts say, and reports on
it.  It also runs benchmark experiments with the agents it measures.

Most of the program is sequential, but little of it is alone.  The files it reads
are being written, several of its commands run at once on one database (a timer
starts `ingest` about every 15 minutes, docs/deploy-serve.md; the OTel receiver is
a daemon; a user runs reports), and any of them may be killed.  That is what the
modules here are about: each one models a component beside whoever writes its
input, with the steps at which another process or a death can come in between.

All paths below are relative to `src/`.

## Inventory

| Component | State it keeps | Operations | Talks to |
|---|---|---|---|
| Store (`internal/store`) | the SQLite tables, `PRAGMA user_version`, `meta` | `Open`, `migrate`, `WithTx`, the upserts, the report queries | everything |
| Gateway pairing (`store.matchGwRequests`) | `gw_request.request_key`, the marks `match_gw_hwm` and `match_req_hwm` | incremental pass, full sweep | rows of the ingesters and of the pull |
| Claude Code ingester (`internal/ingest/claudecode`) | `ingest_file`, `request`, `block`, `session`, `compaction` | `Run`, `ingestFile` | transcripts being appended to |
| Reference tracker (`claudecode/refs.go`) | the identifiers of one file | `addResult`, `observeText`, `finalize` | `ingestFile` |
| OpenCode ingester (`internal/ingest/opencode`) | as above, by artifact | `Run`, `runTree`, `runDB`, `commit` | JSON files and rows rewritten in place |
| Gateway log pull (`internal/ingest/reqlog`) | `gw_request` (the cursor is its largest `pg_id`) | `Run`, `Fetch` | the router's PostgreSQL, the pairing |
| OTel receiver (`internal/ingest/otel`) | `otel_datapoint`, `otel_event` | `handleMetrics`, `handleLogs` | exporters over HTTP |
| Bench spec (`internal/bench/spec.go`) | the spec file, its snapshot in `bench_run` | `Load`, `Snapshot`, `FromSnapshot` | the bench runner |
| Bench runner (`internal/bench`) | `bench_run`, `bench_trial`, a directory per run and per trial, agent processes | `run`, `run --resume`, `ingest` | agents, ingesters |
| Transcript search and viewer (`internal/transcript`) | none | `Search`, `rawMatch`, `fileContains`, `Locate`, `Load` | transcripts, OpenCode's database, both being written to |
| Analyzers (`internal/analyze`) | none | `Cache`, `Wire`, `Residency` | report queries |
| Web server (`internal/serve`) | a read-only store | the session browser, its parallel search, pages of a transcript | transcript search, analyzers |
| Reports (`internal/report`) | none | the view of a session, tables, HTML | analyzers, report queries |
| CLI, estimate | none | flags, one division | |

What is hard about them, and what makes them correct:

* **Pairing.** The pass is incremental, reads its scope in five separate queries,
  commits in chunks, and may fail between any two of them, while rows arrive.  It
  must never claim a request twice, never make a pair that does not agree, and
  never let a mark pass a row that could still be paired.
* **Ingesters.** A file or an artifact whose stamp is unchanged is never opened
  again.  The stamp is taken before the read and recorded after the commit, so
  what a recorded stamp promises is a statement about an interleaving.
* **Reference tracker.** A bounded index must give the verdict that a reader of
  the whole text would give.
* **Pull.** The cursor is a function of what is stored; overlapping pulls and
  failed batches must neither skip nor repeat a row.
* **Receiver.** Exports are lost, repeated and late; the sum over a series must be
  its total all the same.
* **Bench.** A command may be interrupted, time out, or be killed, and its agent
  outlives it.  What a completed trial says must stand, and a run must stay the
  experiment it began as, although its spec file is edited and a second run of the
  same minute writes into its directory.
* **Search and viewer.** A match may lie across two reads of the file; many
  sessions are searched at once, over a bounded number of slots, while they grow or
  go away; a hit is followed, and a page turned, in a transcript that has changed.
* **Migrations.** A script, and its version number, are many commits.
* **Analyzers.** They compare stamps that may be equal, interleave streams, and
  repeat each other's rules, in Go and in SQL.
* **Session view.** What is drawn must add up to the table beside it, and a mark
  must stand where the doctor's verdict puts it.

## Modules

| Module | Models | State and actions |
|---|---|---|
| `PairLedger` | the promise of the pairing: a ledger of pairs that only grows | `Arrive`, `Restate`, `Join` |
| `Pairing` | `matchGwRequests`, beside `InsertGwRequest`, `InsertRequest`, `UpsertRequest` | one action per query, per row paired, per commit and per mark; `Fail` rolls back |
| `StoreProofs` | theorems about `Pairing`, one of them that it implements `PairLedger`, about `Migrations` and about `GatewayPull` | |
| `RefTracker` | `refs.go` over the lines of one transcript | `AddResult`, `ObserveText`; the text read so far is kept to compare with |
| `TextProofs` | theorems about `RefTracker` and `SessionViewer` | |
| `TranscriptIngest` | `claudecode.Run` and `ingestFile` beside the harness | `WriteLine`, `FinishLine`, `Fork`; `Glob`, `StatFile`, `SkipFile`, `OpenFile`, `ReadFile`, `Commit`, `RecordFile`, `Abort` |
| `TranscriptIngestProofs` | theorems about `TranscriptIngest` | |
| `OpenCodeIngest` | `opencode.Run`, `runTree`, `runDB`, `commit` beside OpenCode | `Rewrite`, `FinishWrite`, `Migrate`; `OpenLayout`, `Look`, `ReadMessage`, `ReadPart`, `Commit`, `RecordFile`, `EndLayout`, `Abort` |
| `OpenCodeIngestProofs` | theorems about `OpenCodeIngest` | |
| `GatewayPull` | `reqlog.Run` beside the router | `InsertRow`, `CommitRow`, `RollbackRow`; `ReadCursor`, `Fetch`, `StoreBatch`, `Match`, `Fail` |
| `Telemetry` | the OTLP handlers, the exporter and the wire between them | `ExportMetrics`, `ExportLogs`, `RestartExporter`, `GiveUp`; `HandleMetrics`, `HandleLogs`, `StoreFails` |
| `TelemetryProofs` | theorems about `Telemetry` | |
| `BenchRunner` | `runner.go`, `spec.go` and the agents | `Run`, `InsertBenchRun`, `Declined`, `RunKeyTaken`, `Resume`, `IngestRun`; `CleanTrial` to `RecordTrial`; `Deadline`, `Interrupt`, `Kill`; `AgentWrites`, `AgentExits`, `OrphanExits` |
| `BenchRunnerProofs` | theorems about `BenchRunner` | |
| `TranscriptSearch` | `Search` over the sessions of a search, Claude Code files and OpenCode database | `Search` (takes a slot), `rawMatch`, `OpenFile`, `ReadChunk` (any split of the bytes), `EndOfFile`, `rawMatchOpenCodeDB`, `LoadEntries` |
| `SessionViewer` | the browser above it, beside the harness | `Browse`, `buildIndex`, `searchSessions`, `apiTranscript`; `Write`, `Finish`, `Cleanup` |
| `Migrations` | `Open` and `migrate` | `OpenStore`, `ExecStatement`, `ExecFails`, `SetVersion`, `CloseStore`, `Kill` |
| `CacheAnalyzer` | `analyze.Cache` and `analyze.Wire`, as folds | operators |
| `Residency` | `analyze.Residency` and `RollupResidency` | operators |
| `SessionView` | `report.BuildSessionView`, `bucketBlocks` and the roll-up in SQL, `AttrRollup` | operators |
| `SessionAnalysis` | the stamps that the analyzers read, as a harness makes them, and the report queries | `Request`, `Block`, `UserText`, `Compact`, `NextSession` |
| `SessionAnalysisProofs` | theorems about the reports on any history of `SessionAnalysis` | |
| `FiniteSums` | lemmas about sums over finite sets, for the proofs about telemetry and reports, and about least and greatest elements | |

`MC...` modules hold the small rows, files and shapes that TLC is given.
`Pairing` instantiates `PairLedger` with a refinement mapping (`LedgerSpec`);
`SessionAnalysis` composes the analyzers and the session view with the history they
read; `SessionViewer` extends `TranscriptSearch`, whose steps it runs for many
sessions at a time.

A definition that starts with the comment *Mutant* is a wrong variant of the
definition after it, as a slip in the code would make it.  No specification uses
it: it shows that the property it is listed for in `PROJECT.json` can fail.

### How the code's shapes appear

* A table is a function or a sequence; a row id is its position.  `WithTx` is one
  action where nothing inside depends on what others write meanwhile (ingesters,
  receiver), and several actions under a lock where it does (`Pairing`).
* A local variable that survives a step another process may come in after is a
  variable indexed by process; a process is a `pc`.
* A stamp (size and mtime; length and `time_updated`) is a number that every
  write moves.  Two states of a file with one stamp are not modelled.
* An error return, `SQLITE_BUSY`, `SQLITE_BUSY_SNAPSHOT` and a kill have the same
  effect on the database (the open transaction is gone, the locals are gone) and
  are one action per module: `Fail`, `Abort` or `Kill`.

## Runs

`tlc -config <name>.cfg <module>`; every run is exhaustive within its bounds.

| Run | Module | Asks |
|---|---|---|
| `Pairing` | `MCPairing` | Is a pair always of rows that agree (`PairSound`)?  Do the marks only pass what was tried (`NothingMissedImmutable`)?  Do the committed pairs implement the ledger (`LedgerSpec`)?  Do two free rows that agree get paired (`EventuallyPaired`)? |
| `PairingConcurrent` | `MCPairing` | With two processes in the pass, is a request claimed once (`ClaimedOnce`)? |
| `RefTracker` | `MCRefTracker` | Does the index give a result with fresh identifiers the verdict of the whole text (`VerdictMatchesText`)? |
| `Ingest` | `MCTranscriptIngest` | Did a file that would be skipped lose nothing (`SkipSound`)?  Has a session a title that one of its files gives it now (`TitleCurrent`)?  Is a 'referenced' earned (`ReferencedEarned`)?  Does a complete line arrive (`EventuallyStored`)? |
| `OpenCode` | `MCOpenCodeIngest` | Is a skipped artifact stored (`SkipStored`), with its last usage (`UsageCurrent`), and does that usage arrive (`UsageSettles`)? |
| `Bench` | `MCBenchRunner` | Does a run keep to the spec it began with (`SpecKept`)?  Do completed trials stay (`CompletedKept`) and keep their transcript (`CompletedRecoverable`)?  Do agents run one at a time (`Sequential`)?  Does every command end (`CommandsEnd`)? |
| `Pull` | `GatewayPull` | Do overlapping and failing pulls leave nothing behind the cursor and store nothing twice (`NothingBehind`), and fetch everything (`EventuallyPulled`)? |
| `Telemetry` | `MCTelemetry` | Is the sum the total (`SumIsTotal`), never more (`NeverOver`), and is what was acknowledged stored once (`AckedStored`)? |
| `Search` | `MCSessionViewer` | Does a search find every entry whose text is in the file, wherever the reads cut it and whatever is written meanwhile (`SearchComplete`)?  Does a hit lead to an entry with the text (`AnchorLandsOnHit`)?  Do the pages of a growing transcript make one text (`PagesWhole`)?  Is every request answered (`SearchEnds`)? |
| `SearchByte` | `MCSessionViewer` | Does a search for one byte end?  It does not; see the findings. |
| `Migrations` | `MCMigrations` | Does the version promise what the schema holds (`SchemaSound`), never go back (`NeverBack`), and reach the last (`Settles`)? |
| `Analysis` | `MCSessionAnalysis` | Is residency the number of requests that carried a block (`ResidencyIsContext`)?  Does a window report its sessions whole (`WindowWhole`)?  Are streams apart (`StreamsApart`), do the doctors agree (`DoctorsAgree`), is a boundary blamed once (`BoundaryBlamedOnce`)?  Does the timeline hold every request and block once (`TimelineWhole`), with each compaction marked between the two requests it is blamed for (`CompactionShown`)?  Do the roll-ups in Go and in SQL agree, and what does the flow of a window have beyond the residency (`RollupsAgree`)? |

### Bounds, and why they are enough

* `Pairing`: two gateway rows and two requests out of three shapes each: two
  gateway rows out of each other's reach on both sides of one request, a row of
  another session, a chat row, and an OpenCode request before and after its
  refresh.  Two rows on each side are what a competition for one request and a
  row that waits for a later request need; `Chunk = 1` puts a commit between any
  two rows, and `MaxFails = 1` a failure at every step of some pass.
  `PairingConcurrent` needs two gateway rows and one request for a double claim.
* `RefTracker`: six lines over three identifiers, with results of up to three
  identifiers, a cap of two results per identifier and two hits for a verdict:
  enough to fill the cap, retire an identifier and register it again.  The property
  speaks of results with fresh identifiers; the ones that register an identifier
  again are in the run, and change nothing for the others.
* `Ingest`: a transcript of up to three lines and a fork of it that is left, over a
  call, a result and a quote, or over three titles: one of the harness that names the
  session, one that does not say whose it is and names the copy where it stands in
  the copy, and one of the user.  Nothing relates titles to rows, so no transcript has
  both (`Texts`).  Every line may be half written when it is read, and one run fails.
* `OpenCode`: a message of three versions (empty, partial, complete) with a part
  of two, in a tree that may become a database at any step.
* `Bench`: a Claude Code trial and an OpenCode trial; three spec files (one, the
  same after an edit that moves an arm to the other harness and drops the other
  arm, and one that is not valid); with and without `--arm`; two commands that get
  to work, besides any number that are declined or refused; one infrastructure
  error, interrupt or kill.  Two commands make a resume of every state a run can
  stop in.  `--trials` is in the model and in the proofs; in the run it is not given,
  and the specs have at most one trial per arm (`MaxTrials`).
* `Pull`: five rows in batches of two, so that a pull makes up to three fetches; two
  pulls, one failure.
* `Telemetry`: three exports over two series, two log records, a restart of the
  exporter, a client that gives up once and a transaction that fails once.
* `Search`: every entry of up to three letters under every query of two and three,
  with a buffer of two bytes beside the overlap, so that a match spans up to three
  reads; and five browsers of a one-file session, a two-file session and an
  OpenCode database, with one or two further writes (a hit, half a line, a removal)
  at any moment, one slot for the goroutines, one hit kept per session, and pages
  of one and of two entries.  One slot makes every order of the goroutines.
* `Migrations`: two processes, each of the ten versions to start from, one kill.
* `Analysis`: four entries (requests of two models, blocks, boundaries, a second
  session), with gaps of nothing, over the short and over the long TTL; results of
  a tool with a file, of an unknown tool and of an MCP server; two buckets, so that
  three requests make a span of two and one of one.

### Fairness

The liveness properties assume what the code's environment provides and no more.
A started pass, ingest, pull or open goes on (a goroutine is scheduled), and the
commands come again and again, as the timer of docs/deploy-serve.md runs them
about every 15 minutes: weak fairness of the process's steps.  Harness, router and
exporter owe nothing: a line may stay half written, an agent may hang for ever
(`CommandsEnd` relies on the deadline alone).  Of the user one thing is asked: the
question before a bench run (internal/bench/runner.go:364) is answered, or its input
closed, as the runner waits for the answer in one of its own steps.  Failures are bounded
(`MaxFails`, `MaxKills`), as nothing arrives in a system that always fails.
`Telemetry` has no liveness property: an exporter may never send again.

`CHECK_DEADLOCK FALSE` stands where the system really stops: the lines of a
transcript are all read, the bench commands are all given, the exports all sent,
the search is done and the transcript read, the sessions are over.  A search relies
on its goroutines and on the handler that waits for them; nothing is asked of the
harness, which may stop at any line or remove what is searched.  Its writes are
bounded in the run: that a search ends beside one that never stops writing is not
checked.

## Findings

* **A search for one byte may never end** (run `SearchByte`,
  internal/transcript/search.go:144).  `fileContains` keeps `len(needle)-1` bytes
  from read to read.  For a needle of one byte that is none, and the statement
  that trims the carried bytes is skipped: `carry` grows until it fills the buffer,
  and a read into no room returns neither bytes nor an error.  The search of a
  transcript that is larger than the buffer and does not hold the letter spins.

## Where the promises end

Each of these was met while modelling; the property that is checked is stated so
that it excludes the case, and the model contains the behaviour.

* Pairing, refreshed requests (internal/store/store.go:895): an OpenCode request
  gets its final usage under its old id, below `match_req_hwm`.  A gateway row that
  agrees only with the new usage and is itself below its mark is not tried again by
  an incremental pass, though the comment at 828 says everything else was already
  tried.  `NothingMissedImmutable` speaks of Claude Code requests.
* Pairing, two processes (971): a pass with an old list of pending rows may pair a
  row again; the request it frees is below the mark.  The ledger and
  `NothingMissedImmutable` are claims about one pass at a time.
* Pairing, blank times (890): one new request without a time makes the window empty
  while the marks advance over the dated requests of the same batch.
* Reference tracker (internal/ingest/claudecode/refs.go:97), code and comments
  disagree: "Each identifier fires at most once across the whole file" (86), and "an
  identifier claimed by too many results is ambient [...] and credits no one" (12;
  docs/phase1-profiler.md:111).  A quote deletes the entry of an identifier, with its
  count and its tombstone.  A result that claims the identifier afterwards makes a new
  entry, and the next quote credits it: the identifier fires twice, or fires although
  it was ambient.  `VerdictMatchesText` leaves such results out (`Fresh`), and counts an
  identifier for the others only at its first quote.
* Titles of a fork (internal/ingest/claudecode/claudecode.go:438): copied lines keep
  the session they were written in, so the parse of a fork also names the session it
  was copied from.  If that one has got another title since, the last commit decides,
  and the older title may stay while both files are skipped.  `TitleCurrent` asks that
  one of the files gives the title now; it excludes a title that every file has
  outgrown, and a title of the harness where its file has one of the user (207).
* Two ingesters on one file (store.go:443, 522): the one that parsed an older state
  may commit last while the newer size is recorded; titles and OpenCode usage then
  stay old.  Blocks and requests do not depend on the order (`SkipSound`).
  `TitleCurrent` and `UsageCurrent` are about one ingester.
* A verdict 'unreferenced' (store.go:597) is not taken back by a later parse with
  partial evidence, which on its own abstains (refs.go:144).
* OpenCode, one message in both layouts: a run that read the tree before an upgrade
  and the database after it may store the older usage last.  `UsageCurrent` and
  `UsageSettles` speak of a message that one layout holds.
* OpenCode, a part whose message is half written (opencode.go:352) is stored as the
  user's text and then skipped.
* Pull (internal/ingest/reqlog/reqlog.go:107): a row that commits after a row with
  a higher id was stored is never fetched.  `InOrder` states the assumption.
* Receiver (internal/ingest/otel/otel.go:183): a failed transaction is answered
  with 500, which exporters do not repeat; for delta series the batch is gone
  (docs/phase1-profiler.md:63 calls temporality a non-issue).
* Bench: an orphan of a killed runner runs beside the next agent (runner.go:275); a
  resume deletes transcripts of an attempt whose runner died before the ingest
  (171); a resumed trial keeps its transcript root, so the report joins both
  attempts (internal/store/bench.go:222); two runners on one run overwrite each
  other's rows (93).
* Bench, spec files (runner.go:62-82): a run that finds its key taken has by then
  written its own `spec.json` into the directory of the run that has it, and so has
  one that is declined.  `SpecKept` holds because nothing reads that file again: a
  resume works by the snapshot in `bench_run`, although docs and people may look at
  the file.
* Bench, newer OpenCode (internal/bench/ocrunner.go:121): the ingester of a trial is
  given the storage tree of the trial and no database.  An OpenCode that keeps its
  sessions in `opencode.db` leaves nothing in that tree; the ingester then falls
  back to the default database of the user (`dbPath`),
  not to the trial's, and the trial is marked ingested.  `CompletedRecoverable`
  excepts these trials, and what is stored of the user's own sessions meanwhile is
  not in the model.
* Search (search.go:34): text that only the viewer composes is not in the bytes,
  so the raw pass hides it (`Plain`).
* Browser (internal/serve/serve.go:199): a session whose transcript cannot be read
  is left out of the answer without a word unless its title matches, as the error
  is kept in a row that is then dropped.
* Anchors and pages (search.go:53, internal/serve/api.go:289) are positions in a list
  that is loaded anew.  They hold for a session of one file; a session of several
  files, or a tool of OpenCode that gets its result, puts entries before later ones.
* Roll-ups (internal/analyze/residency.go:150): with `--since` the flow counts the
  blocks of all sessions by their own time (store.go:1162), the residency all blocks
  of the sessions with a request in the window (store.go:1444).  Neither includes the
  other: a session with a request before the window and a block in it is a group of
  the flow alone, a block before the window of a session that is in it counts for the
  residency alone.  `RollupsAgree` is the equality without a window; with one, it
  says that the flow has no group and no token beyond the residency and the blocks, in
  the window, of sessions without a request in it.
* Timeline (internal/report/session.go:95): of two losses with one stamp and model
  the point keeps the later; which one it shows is not in the model, only that the
  point has one.
* Migrations (store.go:325): a process that dies inside a script, or between the
  script and its version, leaves a database on which every later open fails, since
  `CREATE` and `ALTER` are refused for what is there.  `Settles` allows for a kill.
* Wire doctor (internal/analyze/wire.go): the class `compaction` is only given where
  the chains diverge after the system prompt, although it is listed first (26), and
  gaps are truncated to seconds before they are compared with the TTL.

## Proofs

Eight modules hold theorems: one for the three components of the store, one for the two
readers of a transcript's text, one for each other component that keeps state beside a
writer, one for the reports, and the lemmas about sums.  Each theorem is for any processes, rows and bounds that satisfy the
module's assumption.  `Migrations`, `GatewayPull` and `SessionViewer` give their own
specifications the names `MigrateSpec`, `PullSpec` and `ViewSpec`, so that `StoreProofs`
can extend the first two beside `Pairing`, and `TextProofs` the last beside `RefTracker`.

| Theorem | States | From |
|---|---|---|
| `StoreProofs!TypeCorrect` | `Spec => []TypeOK` | `PairingAssumption` |
| `StoreProofs!ClaimedOnceHolds` | `Spec => []ClaimedOnce` | `PairingAssumption` |
| `StoreProofs!PairSoundHolds` | `Spec => []PairSound` | `PairingAssumption` |
| `StoreProofs!NothingMissedHolds` | `Spec => []NothingMissedImmutable` | and `SinglePass` (one process), `AllDated` (no blank times) |
| `StoreProofs!LedgerImplemented` | `Spec => LedgerSpec` | and `SinglePass` |
| `StoreProofs!SchemaSoundHolds` | `MigrateSpec => []SchemaSound` | `MigrationsAssumption` |
| `StoreProofs!NeverBackHolds` | `MigrateSpec => NeverBack` | `MigrationsAssumption` |
| `StoreProofs!NothingBehindHolds` | `PullSpec => []NothingBehind` | `PullAssumption`, and `InOrder` (the router commits in the order of its ids) |
| `TranscriptIngestProofs!TypeCorrect` | `Spec => []TypeOK` | `IngestAssumption` |
| `TranscriptIngestProofs!SkipSoundHolds` | `Spec => []SkipSound` | `IngestAssumption` |
| `TranscriptIngestProofs!ReferencedEarnedHolds` | `Spec => []ReferencedEarned` | `IngestAssumption` |
| `TranscriptIngestProofs!TitleCurrentHolds` | `Spec => []TitleCurrent` | and `SingleIngester` (one process) |
| `TextProofs!VerdictMatchesTextHolds` | `Spec => []VerdictMatchesText` | `RefAssumption` |
| `TextProofs!ViewInvHolds` | `ViewSpec => []ViewInv` | `SearchAssumption`, `ViewerAssumption`, `TranscriptAssumption` |
| `TextProofs!SearchCompleteHolds` | `ViewSpec => []SearchComplete` | the same |
| `TextProofs!AnchorLandsOnHitHolds` | `ViewSpec => []AnchorLandsOnHit` | the same |
| `TextProofs!PagesWholeHolds` | `ViewSpec => []PagesWhole` | the same |
| `OpenCodeIngestProofs!SkipStoredHolds` | `Spec => []SkipStored` | `OpenCodeAssumption` |
| `OpenCodeIngestProofs!UsageCurrentHolds` | `Spec => []UsageCurrent` | and `SingleIngester` (one process) |
| `TelemetryProofs!NeverOverHolds` | `Spec => []NeverOver` | `TelemetryAssumption` |
| `TelemetryProofs!SumIsTotalHolds` | `Spec => []SumIsTotal` | `TelemetryAssumption` |
| `TelemetryProofs!AckedStoredHolds` | `Spec => []AckedStored` | `TelemetryAssumption` |
| `BenchRunnerProofs!SpecKeptHolds` | `Spec => []SpecKept` | `BenchAssumption` |
| `BenchRunnerProofs!SequentialHolds` | `Spec => []Sequential` | and `SingleCommand` (one command at a time) |
| `BenchRunnerProofs!CompletedKeptHolds` | `Spec => CompletedKept` | and `SingleCommand` |
| `BenchRunnerProofs!CompletedRecoverableHolds` | `Spec => []CompletedRecoverable` | and `SingleCommand` |
| `SessionAnalysisProofs!HistoryInvariant` | `Spec => []IInv` | `SessionAssumption` |
| `SessionAnalysisProofs!ResidencyOfEveryHistory` | `Spec => []ResidencyIsContext` | `SessionAssumption` |
| `SessionAnalysisProofs!RollupsOfEveryHistory` | `Spec => []RollupsAgree` | `SessionAssumption` |
| `SessionAnalysisProofs!DoctorsAgreeOnEveryHistory` | `Spec => []DoctorsAgree` | and `AnalyzerAssumption` |
| `SessionAnalysisProofs!BoundaryBlamedOnceInEveryHistory` | `Spec => []BoundaryBlamedOnce` | and `AnalyzerAssumption` |
| `SessionAnalysisProofs!WindowWholeInEveryHistory` | `Spec => []WindowWhole` | and `AnalyzerAssumption` |
| `SessionAnalysisProofs!StreamsApartInEveryHistory` | `Spec => []StreamsApart` | and `AnalyzerAssumption` |
| `SessionAnalysisProofs!CompactionShownInEveryHistory` | `Spec => []CompactionShown` | and `AnalyzerAssumption` |
| `SessionAnalysisProofs!TimelineWholeInEveryHistory` | `Spec => []TimelineWhole` | and `ViewAssumption` |

The assumptions ask no more than the code's own setting gives: bounds are numbers,
the identifiers of a transcript and the series of an exporter are finitely many,
there is a layout to read (`Sources`), and the trials of a spec stay below the bound
`MaxTrials`, which is any number.  For the browser, the sessions of the store are
finitely many, and only the last line of a Claude Code file can be half written
(`HalfLast`), as the harness appends.

Pairing:

* **Types.** `TypeOK` is inductive: the marks and what a pass remembers of the
  tables never pass the tables' ends, and the write transaction belongs to a pass
  that is matching.
* **Claimed once.** `OnceInv` adds that the column saved for a rollback is free of
  double claims too: a rollback is a step of `Next`, and what it restores must be
  as good as what it drops.  The argument is that a row is only ever given a
  request that nobody holds in the column the transaction sees.
* **Sound pairs.** `SoundInv` adds that whatever is in a pending list passed the
  filters of the query (`TodoEligible`), because a pair is made from that list
  later, and that rows and Claude Code requests do not change under it.
* **Nothing missed.** `NothingMissedImmutable` speaks of the marks, but the marks
  are written steps after the queries that justify them.  The inductive invariant
  `MissInv` says, stage by stage, what the pass owes (`StageInv`): once it has read
  the maxima, the span and the pending list, every free pair below the maxima it
  will write is either below the old marks, and so was tried by an earlier pass,
  or has its gateway row still in the list; and while it matches, a row leaves the
  list only when it is paired or nothing free agrees with it.  `SinglePass` is
  needed because another pass could free a request; `AllDated` because the span of
  a blank time is empty.  Both are real limits of the code (see above).
* **A ledger.** Inserts map to `Arrive`, a refresh to `Restate`, a commit to `Join`,
  and every other step is invisible.  That a commit joins only free rows that agree
  has to be known of the chunk as a whole: `LedgerInv` adds to `OnceInv` that an open
  transaction only extends the saved column, by pairs that agree (`ChunkGrows`; the
  tables stand still meanwhile), and that a pending row is still free when its turn
  comes (`TodoFree`).  With two processes `TodoFree` fails, and with it `LedgerSpec`:
  the second pass moves a committed pair to another request.

Migrations:

* **The version is true.** That the version never promises more than the schema
  holds is not inductive: it is written by a process that may have read the old
  version long ago, and between its last statement and the version another process
  may do anything.  `IInv` says what a process may rely on at each stage.  While it
  executes a script, what it has made so far is there, because nothing is ever
  dropped (`ExecOK`).  When it is about to write the version, the version is still
  the one it read (`PragmaOK`): to get past it, another process would have had to
  carry out the same last statement, and that is refused for what is there already.
  For the same reason no two processes are at that point together, which is what
  makes the version never go back.
* The proof uses of the nine scripts only that each has a statement, and what `Made`
  says of them.

Gateway pull:

* **Nothing behind.** A cursor is only sound with what is known about the rows above
  it.  `IInv` says that what is stored is closed downwards in the origin (`Closed`),
  that a cursor in use has everything below it stored (`CursorOK`), that a batch
  leaves out no row of the origin between the cursor and its last row (`BatchOK`),
  and that the ids not committed yet are above all that are (`RouterOK`).  A commit
  keeps these because it adds a row above all the others (`InOrder`); a batch stored
  late, after another pull has gone on, because closure only asks what is below it;
  `FetchedBatch` is the lemma that `ORDER BY id LIMIT n` leaves no gap.  Without
  `InOrder` the statement is false, as described above.

Claude Code ingester:

* **A size stands for a content.** `DiskStep` says that a write makes a file larger
  and keeps what it begins with; so two equal sizes mean an equal content
  (`SameSize`).  Stat, read and commit are apart, and a run may read more than the
  size it will record: `RunInv` says that what it has read is the beginning of the
  file, and the whole of it if the file still has that size.
* **Skipped files.** `SkipSound` is about a recorded size, and a size is recorded
  because of the commit before it, so `SkipInv` carries the promise (`Kept`) from
  the commit to the record.  It survives the commits of every other process because
  rows stay and a referenced verdict sticks (`KeptStays`).
* **Referenced** is earned because appending lines takes no evidence back
  (`VerdictStays`), and a merge of two verdicts is referenced only if one of them is.
* **Titles** are replaced, not merged, so a commit may undo another one's.  `TitleInv`
  adds that the recorded size is never above the one a run holds; a commit of an old
  reading therefore finds the file recorded with less than its size.  This is where
  `SingleIngester` is needed: with two processes it is false, as described above.
  And as several files may name a session, `TitleInv` says where a stored title came
  from: a file that either gives it now or will be read again (`AllSourced`), and which
  names the session still, since lines are only appended (`NowStays`).  A session with
  a file that would be skipped has a title (`SkippedNamed`).  If all its files would be
  skipped, the source of its title is one of them, and gives it now.

Reference tracker:

* **The index is the text.** What an entry of the index holds is a statement about
  all lines since: `EntryOK` says that it holds the results that claimed the
  identifier since it was last quoted, or the tombstone if they are more than the
  cap.  The entry counts results and the text counts lines, so `LinesOK` says that
  every line with identifiers has one result (`ClaimedResults`).  A new line adds
  to the claims of its identifiers or, quoting them, ends them (`NewClaimed`), and
  adds to what an earlier result is credited with (`Credited`) exactly the identifiers
  of its entries (`NewCredits`, `NewCredited`); as these did not count before, the
  number still needed goes down by what it should (`CreditedGrowsBy`).  What counts up
  to an earlier line does not change, which is what keeps the time of a verdict true.
  All this holds of every result.  That what the index credits is also the evidence of
  the comments, where an identifier fires once in the file, is true of a result with
  fresh identifiers (`FreshCredited`), and of no more.

Search and pages of the browser, for any transcripts, query, sizes of buffer and page:

* **A text is a flattened list.** The entries of a file, its bytes, the rows and the
  matches are all built piece by piece (`FlattenSeq`).  That such a list is the
  pieces one after the other, for any number of pieces, is proved once from the
  library's definition (`FlatMap` and its lemmas), and so is where a piece lies in it.
* **The bytes hold the text.** `RawSilent`: a query without a quote that is in no
  part of a file's bytes is in no plain text of its lines, because text is written
  without a change apart from the quotes.  This is where `fastPathOK` is needed, and
  why the promise is not made for composed text.
* **No match is lost between two reads.** `BufferOf`: what is kept is an
  end of what was read that is at most one byte shorter than the query, or all of it.  A
  match that is not in what was read before, and is in it now, ends in the new
  bytes, so it lies within the kept ones and the new ones.  Nothing is said about
  where a read ends, so every split of the bytes is covered.
* **The files only grow.** `SearchComplete` compares the end of a search with the
  files at its start.  `FilesGrew` says that every line of then is still there at
  its place, whole if it was whole (`WriteFurther`, `FinishFurther`).  `Underway`
  says of each search that no file it has passed held, at the start, plain text with
  the query; `Outcome` that the count of a finished one lies between the plain
  entries of then and all entries of now.  Both survive any write and any step of
  another search (`WrittenKeeps`, `StepKeeps`).
* **An entry keeps its place** in a single file: a line that is appended, or
  finished when it is the last (`HalfLast`), leaves the entries before it
  (`LineAdded`, `LineFinished`).  Hence the hits of a finished search still land on
  their text (`Landing`), and the pages so far are the beginning of the transcript
  up to the smaller of offset and total (`Gathered`).  In an OpenCode database, or
  with several files, entries move, and neither property is promised.

OpenCode ingester:

* **A stamp orders the states of an artifact** (`StampOrder`): equal stamps mean an
  equal version, and every step of OpenCode, the copy of its upgrade included, only
  moves stamps up (`Moves`).  So a stamp taken before a read is either still the
  artifact's, and then what was read is what is there (`ReadOK`), or will never be
  equal to it again.  `SkipInv` carries this from the stamp through the read and the
  commit to the record (`Stored`), for any number of ingesters, since no commit
  removes a row.
* **Usage** is replaced, not merged.  `UsageInv` adds that what a run holds of a
  message it would skip is its current version (`SoleOK`).  With two ingesters TLC
  shows `UsageCurrent` false: the slower one commits an older version over the
  one whose stamp is recorded.  That is `SingleIngester`.

OTel receiver:

* **A sum is a count.** `NeverOver` and `SumIsTotal` are about sums over tables, which
  an upsert changes in one row.  The proof does not follow the sums: a value is that
  many units, tagged with the series and the start that its row has, and
  `SumCounts` shows once that the library's fold over a finite table is the number
  of units (`FoldSolves` is its equation, by way of a smallest table that has none).
  The units of all the batches ever made are as many as the exporter counted
  (`MadeInv`), and as a row is the point of a batch (`PointsInv`) those in the table
  are among them (`RowUnitsMade`), so the sum is never over.
  For cumulative series, batches that continue a point restate its units and add to
  them (`Grows`).
* **The decisive batches.** Of every row's batches the one with the greatest time is
  decisive (`LastDecides`), a row is at least as late as every batch acknowledged
  for it, and hence once these are in, the table has all the units.
* **Log records** are stored once because their identity is (`InsertOnce`).

Bench runner:

* **The spec of a run.** `SpecInv` says what a process relies on at each stage: once it
  works, the run exists and its spec is the snapshot, not the file (`ProcOK`); a
  snapshot never changes (`RunStands`), and a row once written keeps its arm and
  takes its harness from the work list of a process for which all this holds.  It
  holds for any number of commands and of spec files.
* **One agent at a time.** `AwaitedInv`: unless a runner was killed, every agent alive
  is the one its runner waits for.  With one command at a time there is at most one.
* **Completed trials.** `KeptInv` follows a trial from its registration to its row: its
  attempt is new, what its agent wrote is on disk until the row says it is stored,
  the agent has ended when the row is completed (`RowKept`), so nothing is written
  under it later, and a resume lists no completed trial (`TrialOK`).  Orphans of a
  killed runner go on writing, but to attempts that no completed row names.
  `SingleCommand` is needed because a second runner reads the list of completed
  trials before the first has completed its own, as described above.

Analyzers and session view, over any history of requests, blocks and boundaries:

* **The history.** `IInv` relates what the model keeps step by step to the stamps that
  remain of it.  The clock runs and a session follows another, so nothing of a
  session is stamped later than now (`StampsOK`), and the requests stand in the order
  of the query (`Sorted`).  A block is in the context exactly as long as no boundary,
  and no turn of the user after a thinking block, has a later stamp (`ContextOK`); and
  the requests that carried a block are those in the window that the analyzer puts
  between two stamps (`CarriedOK`).  The last two need each other's step: a request
  adds one to the blocks of the context, which are the windows still open.  This is
  `ResidencyIsContext` for one block; the total over the blocks follows.
* **Roll-ups.** `RollupsAgree` compares a roll-up over the rows of a query with the
  one over the whole tables.  A query takes rows by number and keeps their order
  (`RowsAt`, `PlacedAt`), so rows that are picked out of a query come to the tokens
  that they have in the whole table (`SameRows`, `TokensPlaced`), whichever query it
  was.  The rows of the flow of a window are those of sessions in the window and the
  others, so a group of it is a group of one of these, and its tokens are the sum over
  two sets of numbers (`FlowOfGroup`); the residency has the first of them and maybe
  more (`SumMonotone` of `FiniteSums`).
* **The two doctors** walk the same requests.  `Alike` says that after every request
  they have the same scores and the same last request of each model, and that the
  losses among the transitions are the events, one for one and in order
  (`AlikeStep`); what the wire calls a compaction has a boundary between the two
  requests, which is the condition of the offline doctor (`LossAlike`).
* **A boundary is blamed once.** The losses of a stream are counted against the
  boundaries that its last request is past (`Passed`).  One put down to a compaction
  has a boundary after the request before it, so the count and the set grow
  together; a loss of another cause only lets the set grow (`BlamedStep`).
* **A window** holds whole sessions, so the doctor walks a subsequence of what it walks
  without one.  `Filtered` relates the two walks after every prefix: in a session of
  the window they have the same state; in another one the smaller walk has already
  been flushed to what it will be at its end (`FilteredStep`, `FilteredRuns`).  The
  residency of a block depends on its own session alone (`ResidencyOfSessions`).
* **A stream** has no such simple relation to the whole: the scores of the whole belong to
  several streams.  `Streamed` keeps what does agree, the losses of the stream and,
  within its session, the last request of its model; the scores are compared as
  totals, field by field (`Tot`).  A request adds to the total of the whole what it
  adds to the total of its own stream, since that has the same request before it
  (`StreamEnters`, `StepTotal`), and nothing to the others (`StreamsStep`).  That the
  total may leave out a session without expectations, as `flush` does, needs that such
  a session has no other amounts either (`ScoreFine`).
* **Compactions in the timeline.** The walk keeps the last request of each model in the
  session (`LastOf`, `Past`, `PastStep`), so every loss is between two requests that
  follow each other in their stream (`LossAt`).  A loss put down to a boundary has a
  request that is the first past it (`FirstPast`), after the earlier of the two and no
  later than the other; this is where the timeline puts its mark, however many
  boundaries lie between two requests (`FirstMarked`, `LossHasMark`).
* **The spans of a timeline.** `SpansAre` is the arithmetic: `n` requests cut by a span
  of `n` over the limit, rounded up, give at most the limit of spans, each of at least
  one request, without gap or overlap.  Each block is carried by one request
  (`CarrierIs`), which is in one span, so the sums over the spans are the sum over the
  blocks (`BucketsAddUp`, by `SumByClass` of `FiniteSums`), and the table of kinds is
  the same sum (`KindTable`).

Model-checked only: the liveness properties (`EventuallyPaired`, `EventuallyStored`,
`UsageSettles`, `EventuallyPulled`, `CommandsEnd`, `SearchEnds`, `Settles`), which are
out of the prover's reach under fairness, as is `ENABLED`.  Every invariant and every
action property of a passing run is proved.

## Not modelled

* The text of things: JSON decoding, the tokens of `scanTokens` (a line is a set of
  identifiers), titles from prompts, estimates, report layout.
* `internal/serve`: the HTML pages, the page of a model, which show rows as they are;
  `internal/report` apart from the view of a session; `internal/cli`.
* The reports that only aggregate (`Rollup`, `Calibrate`, `OTelStatus`, ...), the
  lists of the largest passengers, the JSON tree of an older OpenCode in the viewer,
  the snippet of a hit, a message of an OpenCode database without parts.
* `Load` is one step: a harness that writes while a transcript is parsed is seen as
  having written before or after.  New files of a session and removed parts of a
  database do not occur; a session goes as a whole (`Cleanup`).
* Session artifacts of OpenCode, parts that do not name their session, and block
  sizes; the homes of the harnesses and their arguments; two bench runs of one name
  with two run keys, which share nothing but the store; OTLP decoding, and two
  exports of one series that carry the same millisecond.
* `DoctorsAgree` takes every request as paired and its two times as equal; the wire
  doctor's rows are a subset of the offline doctor's otherwise.

## Plan

In the order of their worth:

1. An abstract specification for the ingesters (a store that only ever moves
   towards the disk), which `TranscriptIngest` and `OpenCodeIngest` both implement.
2. More of the code: session artifacts of OpenCode, the homes of the harnesses, the
   page of a model over paired and unpaired gateway rows, and a composition of
   ingest, pull and receiver on one SQLite writer lock (`WithTx`, snapshots,
   `SQLITE_BUSY_SNAPSHOT`).
