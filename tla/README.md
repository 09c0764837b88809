# agenterr in TLA+

agenterr is a self-hosted log and error tracker: one Go process that ingests logs over
HTTP, groups them into issues, stores them in an embedded log engine and answers agents and
people about them, plus a shipper that runs beside an application and forwards its output.
This directory holds TLA+ models of the parts of it in which order, concurrency and crashes
matter, the TLC configurations that check them and the theorems proved about them with
TLAPS. All definitions are translated from the Go source; `PROJECT.json` ties each of them
to its lines.

    tlc -config App.cfg MCApp            model-check one configuration
    tlapm AppProofs.tla                  check the proofs of one module

Paths below are relative to `src/internal/`.

## 1. The system

| component | state it keeps | operations | interacts with |
|---|---|---|---|
| Log store, write side (`store/enginestore` write, prune, compact, enginestore; `engine`) | per project: WAL file and its buffer, memtable, id sequence, `ps.mu`; segment files; `compactMu` | WriteBatch, flushProject, FlushAll, Prune, CompactAll, Open (recovery, orphan sweep), Close | SQLite metadata, segment files; callers: pipeline, tickers, retention loop |
| SQLite engine metadata (`store/sqlite/engine_meta.go`) | segment manifest, log_rollups, templates | insert, replace and delete manifest rows, AddRollups, Manifest, RollupStats | log store |
| Issues (`store/sqlite` write, read) | issues, issue_events (newest N per issue), issue_counts | UpsertIssues with reopen, status changes, listing, DeleteIssueEventsBefore | WriteBatch, API |
| Log store, read side (read, search, stats) | none of its own: a snapshot per query | collectRows, SearchLogs, GetLog, LogContext, Stats, Aggregate | write side, through snapshots and a retry on files that went away |
| Segment file format (`segment`), template extractor (`template`) | immutable files; template cache | Write, Read, Scan; Extract, Render | log store |
| Ingest pipeline (`pipeline`) | channel `buf`, `stopped` under `mu`, atomic `unflushed`, the batch of `Run` | Enqueue, Run, flush, Drain | ingest edges, store, rules, alerts, stop hook |
| Application lifecycle (`app`) | contexts of four loops | OnStart, OnStop, flushDropsLoop, retention loop | everything |
| Noise and severity rules (`rules`, `core`, `store/sqlite`) | two tables; rule snapshot, pending counts, sampling counters | upsert, delete, Load, Lift, Decide, FlushDrops, FlushLifts | API and MCP handlers, pipeline, store |
| Alerts (`alerts`, `store/sqlite`) | table; rule snapshot, windows, cooldown anchors, delivery queue | upsert, delete, test, Load, IssueEvent, deliver loop and drain | pipeline (called by flush), store, HTTP sinks |
| Ingest edges (`ingest`, `jsonapi`, `otlp`) | none | decode, Enqueue, answer 202, 400, 413 or 429 | shipper and other clients, pipeline |
| Shipper spool (`ship/buffer`) | segment files, checkpoint, ack position, dropped count, all under `s.mu` | Append with roll and eviction, Next, Ack, PersistSince, Open with repair | sender, sources |
| Shipper sender (`ship/sender`) | the batch it is sending | Run, sendBatch (split, drop, retry) | spool, server |
| Shipper sources (`ship`, `ship/docker`, `ship/file`) | tailers and their places, joined lines, resume times; open file and offset | list, follow, tail, join, append, reconnect, rotate | spool, Docker, child process, files |
| Normalization, event detection (`normalize`, `core`) | none | pure functions on text | pipeline |
| Authentication (`auth`), API, MCP, web, server, config, command line tools | sessions, login limiter, settings | request handling | stores, rules, alerts |

A log's way through the process: a handler decodes a request and calls `Enqueue`, which under
`p.mu` checks that the whole batch fits the channel, counts it in `unflushed` and sends it;
`Run`, one goroutine, takes logs out, drops or annotates each and calls `WriteBatch` when the
batch is full or its ticker fires. `WriteBatch` appends to the WAL and memtable of each
project, fsyncs each WAL, upserts issues and perhaps flushes. A flush writes the memtable as
a segment file, lists it in the SQLite manifest, adds rollups and resets the WAL. Prune and
compaction rewrite segments under the same manifest. Queries read a snapshot of memtable and
manifest, then open files one by one while all this goes on.

### What is hard

* **Crashes between durable steps.** WAL, segment file, manifest, rollups and issue events
  are five places that one transaction does not span. Recovery decides from what is left
  which WAL rows are already in a segment, and which ids were used.
* **Work done with no lock held.** Compaction merges for a long time and verifies its members
  only when it swaps; queries use snapshots whose files go away; Stats takes no lock at all.
* **Names that are reused.** Log ids, manifest ids and file names are derived from what is
  left on disk. A reused one must not hit an older file or an older event's reference.
* **Counters moved by several goroutines.** `unflushed`, drop counts, rollups.
* **Shutdown.** Eight steps with two time budgets, racing requests, the writer goroutine, the
  alert worker and a periodic flush.
* **At-least-once delivery over an eviction.** The sender re-reads what it is about to send
  and acks a cursor that an eviction may have overtaken.
* **A cache beside its table.** The rule engines write a row and reload everything; two
  reloads may overlap, and counts, sampling counters, windows and cooldown anchors have to
  outlive the reload they are not part of, but not the rule whose id is given again.
* **Sources that come and go.** Containers die and start, files are renamed and truncated,
  while the resume time runs ahead of what reached the spool.
* **Data kept in pieces.** A body is a template and variables, spread over columns; a search
  matches the pieces and must agree with a search of the bodies.

`PROJECT.json` lists each such hazard at its line (`hazards`), with the properties that would
catch it going wrong and, in a note, what that property leaves out.

### What makes each part correct

* Log store: an acknowledged row is served after any crash until a prune takes it; nothing is
  served twice; a pruned row stays gone; counts are exact; files and manifest agree;
  compaction shrinks what it merges; no path keeps a lock.
* Reads: neither duplicate nor hole, whatever is merged meanwhile; the newest rows win a
  limit; a vanished file is not taken for corruption.
* Pipeline: sends do not block, the counter is exact, Drain is sound, nothing accepted is
  stranded, nothing is written twice or out of order.
* Lifecycle: a stop in time leaves nothing behind and a stop always ends; drop counts are
  neither lost nor doubled.
* Spool and sender: what was appended is delivered or counted; order of first arrival; the
  sender never waits or spins for ever.
* Sources: after any crash or restart the next tailer starts at or before the first line that
  is not in the spool; a container that runs is tailed; a rotation loses no ended line.
* Rules and alerts: the snapshot in force is the table; no drop or lift is lost or doubled;
  sampling keeps the first of every n; no second fire within a cooldown; a window counts
  exactly the last minutes; a new rule inherits nothing.
* Issues: the samples kept are the newest.
* Bodies: what is read back is what was written; a search finds exactly the newest rows with
  the text; an aggregate does not depend on what has been flushed.

## 2. The modules

### LogStore, with LogLedger, MCLogStore; StoreProofs

`LogStore` is the write side: the disk (`wal`, `torn`, `manifest`, `files`, `nextMid`,
`events`, `rollups`), the process (`phase`, `mem`, `walBuf`, `walErr`, `seq`, `nextLogID`,
`mu`, `stage`) and its actors (`writer`, `prune`, `compact`; the ticker is stateless). Each
durable step is an action, so a crash can fall between any two:

| code | actions |
|---|---|
| WriteBatch (`write.go`) | WriteBatch, ExtractFails, WalAppend and WalSync (per project, `ps.mu` held over both), UpsertIssues, ThresholdFlush, BatchReturns; failures WalAppendFails, WalSyncFails, WalWriteFails, UpsertIssuesFails |
| flushProject | TickerFlush, ThresholdFlush or PruneStart (segment.Write), InsertSegment, AddRollups, ResetWAL; SegmentFails, ResetWALFails |
| Prune (`prune.go`) | PruneStart, PruneLock, PruneDrop or PruneRewrite then PruneSwap and PruneRemove per segment, PruneUnlock, PruneEvents; PruneFails |
| CompactAll (`compact.go`) | CompactPlan, CompactBuild, CompactSwap, CompactRemove; CompactBuildFails, CompactAborts |
| Open, Close | Open (recover, sweepOrphanSegments), Close (FlushAll was TickerFlush steps), Crash |

Ids are the code's (reissued after a restart as `recover` does); `body` is a tag that tells
rows apart and is what the properties speak of. Times are hours, the precision compaction's
buckets use, with a day of two hours. Column data, templates and CRCs are left out: a segment
file is its rows. One issue per project stands for issue_events, with `EventCap` retained
references. Rows of a merged file are a set, so a duplicate inside one merged file is not
seen there; it is seen before the merge, as rows of two listed segments.

`LogLedger` is the abstract specification: per project a set of rows that grows by fresh,
newer-numbered rows and shrinks only by a prune, of rows older than its cutoff, none of which
comes back. `LogStore` implements it (`Ledger`), with "what a restart at this moment would
serve" (`Readable`) as the ledger's rows.

### LogReads, with MCLogReads; ReadProofs

Extends LogStore with one query, which is a search (SearchLogs), a lookup by id (logByID) or
a context (LogContext: a lookup, then the rows around it): snapshot under `ps.mu`
(ReadSnapshot), segment by segment with the file opened as it is then (ReadSegment,
ReadVanished), the second look at the manifest (ReadRecheck) with restart of the attempt, up
to `MaxSegmentSetRestarts`, then the cut at the limit. A query changes nothing, so queries do
not influence each other and one is enough. What a row is matched by is in Bodies.

### Bodies, with MCBodies; BodiesProofs

What becomes of a log's body, in one project. A body is a sequence of words; `Extract` finds
or mints a template (WriteMatched, WriteMints) with the code's group key, similarity and
generalization under a new id, or keeps the row raw (WriteRaw), or fails with its insert
committed or not (WriteFails). `Flush` and `Compact` spread rows over the columns of
`segment.Write`: delta times, dictionaries, template ids, variable counts and variables, raw
bodies; `Damage` spoils one column on disk. A search takes rows (SearchSnapshots), then the
extractor's templates (SearchLoadsTemplates), then scans chunk by chunk on the columns, with
the codes of the dictionary and with templates that always or never contain the text, decodes
only what it must, and cuts (SearchScans, `Answer`). `Aggregate` adds rollups and memtable
over hour-truncated bounds. Flush and compaction are whole steps here: their interleavings
are LogStore's and LogReads'.

### Pipeline, App, with MCApp; AppProofs

`Pipeline` is `pipeline.go`: Enqueue as check, reservation and one send per log under `mu`;
Run as take, keep or drop, tick, stop, drain, last flush; flush as write, one notification
per event, and accounting. The store's answer and a rule's decision are free choices.
`App` extends it with the goroutines started beside it and OnStop. There FlushWrites is
joined with the store being open, FlushNotify with the alert engine's bounded queue, RunDrop
with the drop count. Whether an alert rule fires is a free choice, a timeout is a step that
may be taken at any moment and is remembered in `late`. The rules
and alerts themselves are in Rules and Alerts.

### Spool, Shipper, with MCShipper; ShipperProofs

`Spool` is the disk queue: files are sequences of units, one per record and one per newline,
so that offsets, torn tails and glued lines are real, and `segs` is the size that the process
believes each live segment to have, which a short write leaves behind. What is unread is the
set of line ends from the ack position on, in order. One action per operation, or one per
durable step of it: AppendRolls, AppendWrites, Evict, Persist, Ack, PersistSince, Open, and
the faults Kill, PowerCut, RollFails, AppendShort. `Shipper` adds the sender, whose recursion
is a stack of sizes still to be sent, and the server, which answers 2xx, 413 or anything else
and may take a batch whose answer is lost. A power cut takes any tail of each file, not a
file creation or a rename; removals of one Ack are one step.

### Rules, with MCRules; RulesProofs

The tables of noise and severity rules and of the parse toggle, the engine's snapshot, and
everybody who uses them. An operation of a client runs in phases, one per store access or
critical section: FindNoise, FindSeverity or FindProject (ownership, and fields that an update
leaves out), CountSeverity (the cap), the write (Upsert.., Delete.., SetProjectParseBodies),
the reading back, Load's three reads (LoadReads) and LoadInstalls; OpFails ends it at any of
them. The writer takes a log, lifts it and decides (WriterTakes, Lift, Decide), each with the
rules it read; the flush loop swaps counts out, adds them to the table or folds them back
(FlushDrops, FlushLifts). A pattern is the set of logs it matches.

### Issues, Alerts, with MCAlerts; AlertsProofs

`Issues` is an issue's status and its samples: UpsertIssueEvent (with reopen, and the eviction
by count), status changes of the API and the MCP tools, DeleteIssueEventsBefore. A time is a
tick, two to a second, and `Text` orders ticks as the table does, by their RFC3339Nano text:
within a second "10.5Z" comes before "10Z". `Alerts` extends it with the alert rules table,
the clients' operations in phases as in Rules, the engine's snapshot, windows and anchors
(LoadReads, LoadInstalls), the writer that evaluates an event rule by rule (IssueEvent,
RecordThresholdEvent, TryFire), the worker that delivers a fire and records it (DeliverTakes,
RecordResult), test fires and Restart. The queue's drain at a stop is App's.

### Sources, FileTail, ShipSources, with MCSources; SourcesProofs

`Sources` is the docker source: runDockerSource lists, connects, follows events and relists
(ListAtStart, Connect, Relist, EventStart, EventDie, StreamEnds), one tailer per container
(Opens, OpenFails, SendsLine, SeesEof, SendsEof, `Leaves`), the channel, the joiner loop
(Feeds, Forgets, Ticks) which appends joined records to the spool and moves the resume times,
PersistSince, and Stop, Stopped, Crash and Restart. The daemon is the environment. `FileTail`
is the file tailer beside a program that writes, renames, recreates, reopens and truncates:
OpenFresh, Drain, CheckRotation, Swap, TailerRestarts. `ShipSources` is a shipper with one of
the two; they share nothing but the joiner.

## 3. The runs

| run | module, configuration | shows |
|---|---|---|
| store_write | MCLogStore, LogStoreWrite | two projects in one batch, WAL, manifest and rollup failures, crashes between any two durable steps: Durability, NoDuplicateRows, EventRefsOwnBody, RollupsExact |
| store_segments | MCLogStore, LogStoreSegments | flush, prune and compaction interleaved, with the faults of segments and manifest: LockHeld, ManifestBacked, PruneComplete, FewerSegments, ShardsOrdered and the refinement Ledger |
| reads | MCLogReads, LogReads | search, lookup and context beside all writers: ReadExact, SearchNewest, LookupFinds, NoFalseCorruption |
| bodies | MCBodies, Bodies | templates, columns, search and aggregate: BodiesExact, SearchExact, AggregateExact |
| app | MCApp, App | requests, writer, workers and stop hook: SendsNeverBlock, UnflushedExact, DrainSound, NothingStranded, StoredInOrder, CleanStop; liveness AcceptedSettles, StopCompletes |
| rules | MCRules, Rules | rule operations that race each other, the writer and the flush loop: SnapshotCurrent, CountsExact, SampleExact, CapHeld |
| alerts | MCAlerts, Alerts | events, rule operations, deliveries and restarts: CooldownKept, ThresholdExact, InheritsNothing, KeepsNewest |
| shipper | MCShipper, Shipper | spool, sender and server: NothingLost, DroppedExact, ArrivesInOrder; liveness CatchesUp |
| sources | MCSources, Sources | docker source and file tailer: NothingSkipped, TailedWhenQuiet, RotationKeepsLines |
| store_torn, store_resurrect, app_drops | MCLogStore (LogStoreTorn, LogStoreResurrect), MCApp (AppDrops) | each violates one property that a comment of the code states: Durability, NoResurrection, FinalCount |

What the last three show (details and quotations under `findings`):

* **store_torn**: after a crash that left a partial record, new rows are appended and fsynced
  behind it; the next replay stops at it and does not return them.
* **store_resurrect**: a crash between the manifest insert and the WAL reset, a restart and a
  prune leave a WAL with rows that no manifest row covers; the next start serves them again.
* **app_drops**: OnStop does not wait for flushDropsLoop; a count the loop holds misses the
  final flush.

The passing runs of the store leave out the faults that break what they check. `torn` is in
neither. store_segments leaves out `midflush` (a crash between a flush's manifest insert and
its WAL reset) and the WAL's faults, because PruneComplete and `Ledger` are violated by what
store_resurrect shows. store_write has all of these but `torn`, and a failing AddRollups
besides; it has no compaction, and Durability, NoDuplicateRows, EventRefsOwnBody and
RollupsExact beside merges are for the proofs.

Other properties state their exceptions, and each is something the code does:

* RollupsExact says what the counts lack (`uncounted`): the rows of flushes whose AddRollups
  failed, which the code logs as an undercount, and of flushes that a crash cut off between
  the manifest insert (`enginestore/write.go:155`) and AddRollups (`write.go:161`), of which
  nothing tells: the restart drops the rows from the WAL because the manifest covers them, and
  nothing adds them to the rollups. Stats then lacks them for ever, though its comment calls
  the counts "exact and immediate" (`enginestore/read.go:450`).
  Of a project whose WAL.Reset failed, or where a start took pruned rows back (`revived`, see
  store_resurrect), rows may be counted twice, and it says nothing.
* NoDuplicateRows excepts a project whose WAL.Reset has failed (`engine/wal.go` Reset, called
  at `enginestore/write.go:164`): the rows are in a listed segment and in the memtable, are
  served twice, and the next flush makes that permanent, though `enginestore/read.go:51-55`
  says a snapshot has every row once.
* DroppedExact excepts a crash between an eviction and its checkpoint; CatchesUp a batch with a
  line that a short write spoilt, which no server parses.
* SnapshotCurrent excepts a snapshot whose Load began before some later write: nothing orders
  two Loads. CountsExact excepts a rule that got the id of a deleted one, CooldownKept and
  ThresholdExact an id that changed hands while Loads raced (`mixed`). CooldownKept also
  excepts a restart that finds the fire not recorded yet, or recorded at an earlier time.
* CapHeld allows as many rules above the cap as creates can race: count and insert are two
  statements. It leaves out the rules an update moved to another project, which no cap checks,
  in this run or in an earlier one.
* ThresholdExact is about events that come in the order of their minutes; a bucket of a later
  minute stays and is counted. KeepsNewest orders samples by whole seconds.
* NothingSkipped excepts lines that the joiner holds at a crash: the resume time is past them.
  TailedWhenQuiet excepts a container whose tailer left by itself since it was listed (the code
  warns of a log that ended), also when the tailer had seen the end before that list, which
  then found its place still taken; and one that could not be listed or read.
  RotationKeepsLines excepts what a truncation took or hid, and files that came and went
  between two polls.
* AggregateExact asks between flushes. Stats, ServiceCounts and Aggregate read rollups and
  memtable one after the other with no lock, so a flush in between is counted twice or not at
  all; and Stats filters the memtable by the exact time and the rollups by the hour.

A second reading of two comments: Enqueue is said to refuse always once the context is
cancelled (`pipeline/pipeline.go:92`) while it does once Run has set `stopped`; and after a
Drain that ran out of time IssueEvent can follow cancelAlerts, though `alerts/deliver.go:98`
asks that it does not. Both are behaviours of `App` (the second is kept in `tooLate`), and
CleanStop is stated for a stop in time.

### Bounds, and why they are enough

* **store_write**: 2 projects, batches of at most 2 rows, 2 rows in all, 2 faults, 1 row per
  flush. Every step of a batch over two projects can fail, a crash can follow a failure, and a
  second crash can follow recovery.
* **store_segments**: 1 project (projects share only compaction's plan), 3 rows, shards of 2, 1
  fault, a cutoff and a clock that make the first hour prunable and both hours mergeable; a
  merged segment straddles the cutoff and is rewritten, 3 rows allow another merge after it,
  make two shards, and meet a bucket already at its floor.
* `MaxMid` bounds manifest ids only where a flush repeats after a failed reset, and then only
  the repetitions. `Clocks` and `Cutoffs` are hours within or just above the rows'.
* **reads**: 2 rows, no store faults, limit 1, none or one row around, 2 restarts (3 in the
  code): a query meets a merge, a prune and an exhausted retry, and a tie at the limit.
* **bodies**: 3 rows of 4 inputs, each one word from the last, so that a template is minted,
  matched and generalized twice, and the cap of 3 is met; an answer and a chunk of 2 rows; a
  text in fixed words, across a wildcard and in a variable; 1 fault.
* **app**: requests of 2 and 1 logs, buffer 2, batches of 2, alert queue 1: the requests cannot
  both fit, a batch spans requests, a queue overflows.
* **shipper**: 4 records of 2 units, segments and cap of 4 units, batches of 3 records, a
  server that takes 2, one record it never takes, 2 faults: rolls, evictions under a batch in
  flight, a split into a split, and an oversized record in the middle.
* **rules**: 2 clients, 2 operations, 1 project, a cap of 1, up to 3 ids, 2 logs; at the start
  one lifting rule, or three that are turned off: one more than the creates of 2 clients can
  reach, so that an earlier run has moved one (`MCInit` takes the oldest); a sample rule of 2
  that can be deleted, replaced and raced; 2 logs show a first and a second of the band across
  a reload.
* **alerts**: 2 clients, 2 operations, 1 rule id (so a new rule always gets a used one), 3
  events of 1 issue in 2 minutes, one of them half a second late, 1 restart, a queue of 1; a
  rule with a cooldown and one without, which a failed find turns into the default.
* **sources**: 1 container (containers share the channel only) with 2 lines, 3 starts and
  deaths, 2 tailers at once, a channel of 2, 1 fault; 3 lines in up to 3 files, 1 truncation,
  failed open or crash.

Constants are asserted in each module (`ConstantsAssumption`, `ReadAssumption`,
`BodiesAssumption`, `PipelineAssumption`, `AppAssumption`, `RulesAssumption`,
`StartAssumption`, `IssuesAssumption`, `AlertsAssumption`, `SpoolAssumption`, `ShipperAssumption`,
`SourcesAssumption`, `FileTailAssumption`), and TLC evaluates them. Deadlock is checked in the
store's and the reads' runs. In the others the system really comes to rest: the process has
exited, or the records, operations and logs that the bounds allow are used up.

### Fairness, and why the code justifies it

Only App and Shipper have liveness properties.

* Goroutines are scheduled: weak fairness of each actor's steps. Calls begin only if their
  caller makes them: no fairness of Request, StopBegins or Append.
* A `select` with several ready cases picks one at random: strong fairness of Run seeing
  ctx.Done and of its ticker.
* Timeouts and contexts end: weak fairness of the stop hook's steps. A supervisor restarts
  the shipper (`Open`).
* A server that is asked again and again takes a batch it can take, once, with its answer
  arriving: strong fairness of ServerAccepts and ServerTooLarge. Without it the shipper
  rightly retries for ever.

## 4. The proofs

All theorems hold for every value of the constants that the modules' named assumptions
allow: any projects, clients, rules, containers, any batch, buffer, shard and file sizes, any
bound on faults. Each property below is proved of the specification whose runs check it on a
small instance; TLC checked the inductive invariants on those instances before they were
proved. In every proof module one lemma (or one step) per action says why it keeps the
invariant, and the theorem puts them together.

| module | theorem | property |
|---|---|---|
| StoreProofs | TypeCorrect, LockDiscipline | TypeOK, LockHeld |
| StoreProofs | ManifestIsBacked, MergesShrink, ShardsStayOrdered | ManifestBacked, FewerSegments, ShardsOrdered |
| StoreProofs | RefsStayTrue, NoRowTwice | EventRefsOwnBody, NoDuplicateRows |
| StoreProofs | SyncedRowsStay, unless a crash tears a record | Durability |
| StoreProofs | PrunedRowsStayGone, PrunesAreComplete, if `CleanLog` | NoResurrection, PruneComplete |
| StoreProofs | CountsAreExact | RollupsExact |
| StoreProofs | LedgerIsKept, if `SureLog` | Ledger |
| ReadProofs | NeverFalselyCorrupt, LookupsFind, SearchesAreNewest | NoFalseCorruption, LookupFinds, SearchNewest |
| ReadProofs | ContextsAreExact, if `CleanLog` | ReadExact |
| AppProofs | TypeCorrect, SendsDoNotBlock, CounterExact, DrainIsSound, ShutdownStrandsNothing, OrderIsKept | PipelineTypeOK, SendsNeverBlock, UnflushedExact, DrainSound, NothingStranded, StoredInOrder |
| AppProofs | AppImplementsPipeline, PipelineKeptInApp, StopIsClean | PipelineSpec and all its theorems in App, CleanStop |
| RulesProofs | RulesTyped, CountsAreExact, SnapshotIsCurrent, SampleIsExact, CapIsHeld | RulesTypeOK, CountsExact, SnapshotCurrent, SampleExact, CapHeld |
| AlertsProofs | AlertsTyped, CooldownIsKept, NothingIsInherited, ThresholdsAreExact, NewestAreKept | AlertsTypeOK, CooldownKept, InheritsNothing, ThresholdExact, KeepsNewest |
| BodiesProofs | BodiesReadBack, SearchFindsNewest, AggregateCountsOnce | BodiesExact, SearchExact, AggregateExact |
| ShipperProofs | ShipperLosesNothing, ShipperCountsDropped, ShipperKeepsOrder | NothingLost, DroppedExact, ArrivesInOrder |
| SourcesProofs | SourcesTyped, NothingIsSkipped, ContainersAreTailed, RotationIsKept | NothingSkipped, TailedWhenQuiet, RotationKeepsLines |

### The store

Two modules, the second on top of the first.

**StoreProofs** begins with `Inv == TypeOK /\ LockHeld /\ FiniteRows`. None of the three is
inductive alone: that an unlocking step leaves no flush of that project behind is a fact about who
holds `ps.mu`; who holds it is a fact about typed program counters; and rollups and manifest
ids grow by cardinalities, which are numbers only of finite sets. No path out of flushProject,
Prune or compactBucket, error paths included, leaves with the lock held or works without it.

`SegInv` is about the entries *in use*, those the manifest lists, those a
merge was planned from and the one a prune has in hand. Their manifest ids and names are used
once and their files hold the listed rows. A name is fresh for one of three reasons: a
flush's, because its first row is newer than any flushed before the last start, or its
counter is higher; a merge's, because it is named after a manifest id that has left the
manifest; a rewrite's, because of two names with one base the later is the listed one. The
plan's buckets are disjoint, and the shards of a merge share out its rows (an injection of the
shards into `0..ShardCount-1`), hence fewer files than were merged.

Its second part, the rows, classifies the steps by what they do to rows: most are quiet (they
move no row in or out of what is listed, written, buffered or held in memory), and each
invariant has to look at the others only.

| invariant | says | where |
|---|---|---|
| RefInv | an id is one row's; ids and bodies are drawn above all that are out | always |
| BatchInv | the rows of a batch not yet synced are the newest of their project | always |
| DupInv | no row in two listed segments, or listed and in memory, unless a reset failed | always |
| DurInv | a synced row is listed, in the WAL (before any torn record) or retired | no `torn` |
| LogInv | what the WAL holds is newer than all that is listed, and none of it was pruned | CleanLog |
| DueInv | what a running prune must still remove is in a segment it has still to visit | CleanLog |
| FreshInv | no row in memory or on its way there was pruned, unless a reset failed or a start revived one | always |
| CountInv | an hour's count is the number of rows flushed, retired ones included, `uncounted` ones not; same exceptions | always |
| LineInv | unsynced rows are the batch's at hand; the WAL is within the memtable | SureLog |

With LineInv every step is `Commit`, `Retire` or a stutter of `LogLedger`, where the ledger's
rows are those of manifest and WAL (`ServedIs`); that proves `Ledger`.

The fault sets are hypotheses, not conveniences. `CleanLog` is: no crash inside flushProject's
critical section, no failed WAL write, no failed reset; `SureLog` adds that no fsync fails.
With the excluded faults the properties are false: store_torn and store_resurrect show two of
the cases. CountsAreExact needs none, because what the counts lack is part of its property. A
crash anywhere else, failing segment writes, manifest statements, removals, issue writes and
extractors are all allowed, and torn records too except for Durability.

**ReadProofs** is about one query beside all writers (`SpecRead`). `HeldOK` is what a query
may rely on when it opens a segment of a snapshot that is history by then: the entry may have
left the manifest, but its name and its manifest id are not given again, so its file is the
one it was listed with or gone (`HeldGoesOn`; a restart would reissue numbers, but ends the
query). `LiveStays`: rows leave memtable and manifest together only for `retired`. `SightOK`
puts both together: what the query owes its caller, the rows that were there when it began and
are not retired, is among its hits, in a segment it has still to open, or a search's and
beaten by `Limit` newer hits; an id in sight is one row's; and a segment that vanished is not
listed, so that the second look never calls it corrupt. The cut per segment is sound because
of a lemma on finite strict orders (`LastAreLater`: where n members come after r, the n last
are n, and after r), which also gives the nearest rows of a context. `OnceInv`, under
`CleanLog`, says that no row is in sight twice and none that was pruned before; ReadExact
needs it. Each of the faults that `CleanLog` excludes makes ReadExact false (TLC finds it on
LogReads' instance with one or two faults); the other three properties hold under every fault.

### Pipeline and App

`Inv` (theorem `InvHolds`) adds to the types who holds `p.mu` and what it has left to send
(`Sending`), what Run has in hand at each place (`InHand`), what `stopped` implies about the
phases (`Phases`), where every accepted log is until it is settled (`Kept`), and the counter
and the sender's room as sums of four numbers (`Counted`, `Room`). The argument for the
shutdown: Run sets `stopped` under `p.mu`, so no sender is between its check and its last
send; from then on the channel only shrinks; Run leaves only after it saw the channel empty
and flushed what it had in hand. `OrderInv` is the line of logs: stored, batch, hand,
channel, sender. Each is a later part of the requests than the one before, and nobody
overtakes; it needs that every log is in one place of one request (`PipelineAssumption`).

AppProofs shows that App implements Pipeline: every step of the process, stop hook, workers
and tickers included, is a step of the pipeline or leaves it alone. So all theorems about the
pipeline hold of the process. `StopInv` says what each stage of the stop hook guarantees to
those after it unless time ran out; `CleanStop` follows.

### Rules and alerts

* CountsExact rests on `BornInv`: whoever holds a rule holds a row that was in the table, and
  nothing is counted against one that never was. The sum of the table's count, what is
  pending and what a flush holds is then the number of decisions.
* SnapshotCurrent on `LoadInv`: what a Load that missed no write has read is what is stored,
  and whoever made the snapshot outdated has still a Load to do.
* SampleExact on `SampleInv`: while a rule's parameters stay the same, the table, the
  snapshot, all Loads and the writer agree on them. CapHeld on `CapInv`: creates past their
  count are counted as rules already. The tables at the start are any tables of typed
  rules (`StartAssumption`): `Init` chooses which of them an earlier run may have moved, such
  that the rest is within the cap and the creates that race (`MovedBefore`), which is what
  CapHeld says of the state that run left.
* In AlertsProofs a rule is told from another of its id by the number it was made with. Nobody
  holds a rule that is yet to be made (`MadeInv`); a rule that the writer counts for is in the
  snapshot while it is in the table (`KnownInv`); an id that the snapshot does not have has no
  memory (`EmptyInv`), what a Load has read of a rule is no newer than the table (`ReadInv`),
  and an anchor is no older than the last fire (`AnchorInv`). So an id that never changed
  hands while Loads raced (not in `mixed`) has memory of its own rule only, which gives
  InheritsNothing, CooldownKept and ThresholdExact.

### Sources

`PlaceInv` (a place is held by a tailer of its container), `StreamInv` (the last event about a
container says whether it runs) and `FollowInv` (a container that no waiting event is about
has a tailer) give TailedWhenQuiet. `TimesInv` (times grow; a resume time is a line's) and
`QueueInv` (what comes before a line in the channel, or before a tailer's place, is safe or in
the channel before it), with `SkippedInv`, give NothingSkipped. `FileInv` gives
RotationKeepsLines: in a file texts and newlines alternate; the partial line a tailer holds is
the one begun last; all lines before what it has read are done unless cut; a file that left
the path with its tailer is done. SourcesProofs proves them of `ShipSources`, both tailers at
once.

### The shipper

`Inv` (theorem `ShipperInvariant`) is inductive under every step, kills, power cuts, failed
rolls, short writes and a server that answers as it likes included, and the three properties
follow from it.

| part | says |
|---|---|
| DiskInv | records lie in the files in the order of their numbers, those written and not cut off with their newline, evicted ones not at all; the checkpoint is in no segment beyond the last, and not before a newline |
| UpInv | the live segments are the files, without gaps; the ack position is in one, not behind the checkpoint; a believed size lags behind its file by half lines only |
| CountInv | the count in memory, or the checkpoint's after a crash, is the number of evicted records |
| LossInv | a record written and not settled lies past the ack position, or past the checkpoint while the process is down |
| OrderInv | a line past that position that is older than a delivered record is delivered itself, or too large for any batch; so are the lines between checkpoint and ack position |
| SenderInv | a batch in hand (`Hand`) holds every line between the ack position and its cursor, or a spoilt line with which no server takes it; what is behind the cursor is younger |

The sizes are the delicate part. `normalizeCheckpointLocked` moves on when the offset has
reached the *believed* size, and a short write does not advance that size. `SizeOK` says why no
record is passed over: from the ack position to any k that is reached over whole, readable
lines, k is within the size, and below it while a newline follows. A spoilt line makes the
size lag further, but its batch is never acked (`Settles`), so nobody gets past it but by an
eviction, which starts at offset 0 of a segment. `SizeOK` of every segment ahead is part of
the invariant, `NormalizeIs` the lemma about the step.

`Hand` has to survive what appends and evictions do to the files and to the ack position while
the batch is on its way (`HandExtended`): segments before the cursor may go, lines may come
after it, and the ack position may have overtaken it, in which case the ack is stale and
changes nothing. An ack that is not stale passes over lines of its batch only, all of them
delivered or given up. At a crash the position falls back to the checkpoint (`DiesInv`), for
which OrderInv keeps an account of the lines between the two; the repair at the restart takes
no whole line (`RepairIs`), and the position it starts from has the same lines ahead of it as
the checkpoint (`OpenInv`). The order of the batch is that of `Ordered`, which puts a finite
set in the order of a ranking (`OrderedIs`).

### Bodies

`Inv` (theorem `BodiesInvariant`) is the types and

| part | says |
|---|---|
| MemInv | the memtable's rows are the last ones written, in order, and `Sound` |
| SegInv | every segment is the columns of some rows (`Holds`), all flushed and `Sound`; no row is in two |
| RollupInv | an hour's count of a service is the number of its logs flushed |
| ReaderInv | the rows of a search are `Sound`, and once it has its templates they suffice for them |

A row is `Sound` when it puts together the body it was written with, from templates that the
extractor has or will load. It stays so because a template is never changed nor removed and the
extractor never forgets one but all (`SoundKept`); a failed insert that committed adds one
nobody refers to. That alone is what "reconstructs forever" needs of the writer; `ResolveIs`
adds that the template chosen or minted has the fixed words of the body, and `Filled` that such
a template, filled with the variables taken from its wildcards, is the body.

The columns: a finite set put in the order of a key is each member once (`SortedIs`);
sums undo differences (`UndeltaIs`: Undelta is a recursive function whose value at each step is
the given number, so an ordinary induction on the index does it); a dictionary has every value
once and a reference finds it (`BuildDictIs`); and the variables of a row begin where those of
the rows before it end (`PlacesIs`). `ColumnsIs` puts these together, so that `RowAt` of a
written segment is the row, and a damaged block changes no row, only whether it can be read.

A search: `MatchIs` and `RowMatchesIs` say that comparing references and templates on the
columns admits exactly the rows that their time, service and body admit; the one case that
needs an argument is a template that contains the text without a wildcard in it, since then so
does every body of it (`AlwaysText`). `ScanIs`: a row that fewer than `Limit` newer matches
precede survives the cut of its chunk, of its segment and of the whole, for each cuts a part of
what matches and keeps the ties; `CutIs` is the last step, where two rows of one time are told
apart by id. The answer is decoded with what the extractor knows then, which is more than the
snapshot. Aggregate: a window widened to whole hours admits a time exactly if it admits the
hour (`BoundsAreHours`), and the pairs that the rollups count are as many as the flushed logs
of those hours (`RollupSum`).

### What stays with TLC

* Liveness (AcceptedSettles, StopCompletes, CatchesUp): the prover does neither liveness under
  fairness nor ENABLED.

`TypeOK`, `PipelineTypeOK`, `RulesTypeOK`, `AlertsTypeOK` and `SourcesTypeOK` are only proved,
in no run: they are what the other proofs rest on.

## 5. Not modelled, and why

* **Severity and event detection, fingerprints, normalization, parsing of structured bodies**
  (`normalize`, `core`): functions of one text with no state, order or failure, which
  table-driven tests reach.
* **Stats, ServiceCounts, FindLog by prefix, EngineStats, issue listings**: they only read;
  where their answer and a comment part is told above.
* **OnStart's bootstrap of project and keys, the retention loop**: one goroutine, once; the
  store operations the loop calls are LogStore's, in any order.
* **Webhook requests and their retries, the history of deliveries**: attempts of one fire are
  one step; nothing reads their outcome but a listing.
* **Stdin and child process sources**: the channel and the joiner of Sources with one stream
  that has no resume time.
* **Authentication**: key lookup, sessions and the login limiter are single steps under a
  mutex.
* **HTTP, MCP and web front ends** but for the handlers of rules and issues; configuration,
  settings and command line tools: no protocol beyond the operations above.
* **Column encodings, CRCs and compression**: a column is sound or damaged.
* **SQLite itself** (each statement or transaction is one atomic, durable step), **directory
  entries** (a created or renamed file is there after a crash), **clocks** (a time is whatever
  a caller passes).
