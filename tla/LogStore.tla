------------------------------ MODULE LogStore ------------------------------
(***************************************************************************)
(* The write side of the template storage engine: the per-project WAL and  *)
(* memtable, the immutable segment files, the SQLite manifest that lists   *)
(* them, and the operations that move rows between them.  The actors are   *)
(*                                                                         *)
(*   writer     the ingest pipeline's one goroutine calling WriteBatch     *)
(*   ticker     flushLoop, calling flushProject for every project          *)
(*   pruner     the retention loop calling Prune                           *)
(*   compactor  compactLoop, calling CompactAll (serialized on compactMu)  *)
(*                                                                         *)
(* They exclude each other only through the per-project mutex ps.mu, here  *)
(* mu[p], and every step between two durable effects is an action of its   *)
(* own, so a crash can fall between any two of them.                       *)
(*                                                                         *)
(* A log row is its id, its event time (an hour, the only precision        *)
(* compaction and retention look at), whether it is an issue event, and    *)
(* body, a unique tag standing for its content: the program reissues ids   *)
(* after a restart, bodies are how the properties tell two rows apart.     *)
(***************************************************************************)
EXTENDS Integers, FiniteSets

CONSTANTS
  Projects,      \* project ids
  Hours,         \* event times, as hour numbers
  Clocks,        \* the hours at which a compaction may run
  Cutoffs,       \* the ages, as hours, a prune may be asked to cut at
  HoursPerDay,   \* hours in a day (24 in the code)
  FlushRows,     \* Options.FlushRows: the memtable size that asks for a flush
  ShardRows,     \* Options.CompactShardRows: most rows in one merged segment
  Inputs,        \* the entries that may be submitted: records [proj, ts, ev]
  EventCap,      \* event refs retained per issue (50 in the code)
  BatchMax,      \* most entries in one WriteBatch
  MaxBodies,     \* bound: rows ever submitted
  MaxFaults,     \* bound: faults injected in one behaviour
  MaxMid,        \* bound: manifest ids a flush repeated after a failed reset may reach
  Faults,        \* which faults the environment may inject
  None           \* no value

AllFaults == { "crash",         \* the process stops between two steps
               "midflush",      \* ... also between InsertSegment and WAL.Reset
               "torn",          \* a crash may leave a partial record in the WAL
               "wal_write",     \* writing the WAL's buffer to its file fails
               "wal_sync",      \* fsync of the WAL fails
               "wal_truncate",  \* truncating or fsyncing in WAL.Reset fails
               "segment_write", \* segment.Write fails
               "manifest",      \* a manifest statement fails
               "rollup",        \* AddRollups fails
               "issues",        \* UpsertIssues or DeleteIssueEventsBefore fails
               "extract",       \* the template extractor fails
               "remove" }       \* os.Remove of a segment file fails

ASSUME ConstantsAssumption ==
  /\ Hours \subseteq Nat /\ Clocks \subseteq Nat /\ Cutoffs \subseteq Nat
  /\ HoursPerDay \in Nat \ {0}
  /\ FlushRows \in Nat \ {0}
  /\ ShardRows \in Nat \ {0}
  /\ EventCap \in Nat
  /\ BatchMax \in Nat /\ MaxFaults \in Nat
  /\ Inputs \subseteq [proj : Projects, ts : Hours, ev : BOOLEAN]
  /\ Faults \subseteq AllFaults

VARIABLES
  \* on disk
  wal,        \* wal[p]: the records a replay of p's WAL would return
  torn,       \* torn[p]: a partial record ends p's WAL, hiding what follows it
  manifest,   \* manifest[p]: p's rows of segment_manifest
  files,      \* files[p]: p's segment files
  nextMid,    \* highest segment_manifest.id ever issued (AUTOINCREMENT)
  events,     \* events[p]: p's issue_events rows
  rollups,    \* rollups[p][h]: p's log_rollups count for hour h
  \* in the process
  phase,      \* "up" or "down"
  mem,        \* mem[p]: the memtable
  walBuf,     \* walBuf[p]: rows appended to the WAL, not yet fsynced
  walErr,     \* walErr[p]: the WAL's bufio.Writer holds an error (it is sticky)
  seq,        \* seq[p]: projState.seq, the flush counter in segment names
  nextLogID,  \* Store.nextLogID
  mu,         \* mu[p]: who holds ps.mu
  stage,      \* stage[p]: how far the flush running under mu[p] has come
  writer, prune, compact,   \* where the three callers are
  \* history
  born,       \* rows submitted so far
  synced,     \* synced[p]: rows whose WAL fsync succeeded
  retired,    \* retired[p]: rows a prune removed
  resetFailed, \* resetFailed[p]: some WAL.Reset of p has failed
  uncounted,  \* uncounted[p]: flushed rows whose AddRollups failed or was cut off
  revived,    \* revived[p]: some start of p took pruned rows back from the WAL
  injected    \* faults injected so far

walVars  == <<wal, torn, walBuf, walErr>>
segVars  == <<manifest, files, nextMid>>
metaVars == <<events, rollups>>
lockVars == <<mu, stage>>
idVars   == <<seq, nextLogID>>
history  == <<born, synced, retired, resetFailed, uncounted, revived>>
ghosts   == <<history, injected>>
vars == <<walVars, segVars, metaVars, phase, mem, idVars, lockVars,
          writer, prune, compact, ghosts>>

-----------------------------------------------------------------------------
(* Types *)

Row   == [id : Nat, ts : Hours, body : Nat, ev : BOOLEAN]
Key   == [unit : {"hour", "day"}, n : Nat]
Path  == [kind : {"flush", "merged"}, key : Key \cup {None}, first : Nat,
          num : Nat, shard : Nat, pruned : Nat]
Entry == [mid : Nat, path : Path, rows : SUBSET Row]
File  == [path : Path, rows : SUBSET Row]
Ref   == [log : Nat, ts : Hours, body : Nat]
Bucket == [proj : Projects, key : Key, members : SUBSET Entry]

NoRows == [p \in Projects |-> {}]

IdleWriter  == [pc |-> "idle", batch |-> NoRows, left |-> {}, flush |-> {}]
IdlePrune   == [stage |-> "idle", proj |-> None, cutoff |-> 0, todo |-> {}, cur |-> None,
                due |-> {}]   \* due: history, what the prune must remove
IdleCompact == [stage |-> "idle", plan |-> {}, cur |-> None, new |-> {}]

-----------------------------------------------------------------------------
(* Segments.  The manifest row of a segment carries a summary of its rows  *)
(* (min and max time and id, counts); an entry's rows stand for it.        *)

Older(rows, c)  == {r \in rows : r.ts < c}
EntirelyOld(e, c) == \A r \in e.rows : r.ts < c
Straddles(e, c) == (\E r \in e.rows : r.ts < c) /\ ~EntirelyOld(e, c)

SegmentPaths(entries) == {e.path : e \in entries}
FileRows(fs, paths)   == UNION {f.rows : f \in {g \in fs : g.path \in paths}}
ManifestRows(p)       == UNION {e.rows : e \in manifest[p]}

\* segment.Write: the rename puts the complete file in place of whatever
\* had that name.
Put(fs, path, rows) == {f \in fs : f.path # path} \cup {[path |-> path, rows |-> rows]}
Without(fs, paths)  == {f \in fs : f.path \notin paths}

\* r comes first in rows: appending order is id order.
IsFirst(r, rows) == \A q \in rows : r.id <= q.id

FlushPath(n, first) ==
  [kind |-> "flush", key |-> None, first |-> first, num |-> n, shard |-> 0, pruned |-> 0]
PrunedPath(path) == [path EXCEPT !.pruned = @ + 1]

-----------------------------------------------------------------------------
(* What the next Open would find. *)

\* The manifest already covers r: recover skips ids up to the project's
\* highest MaxLogID.
Covered(p, r) == \E e \in manifest[p] : \E q \in e.rows : r.id <= q.id

\* Mutant: recover replays the whole WAL.
KeptUndeduped(p) == wal[p]
\* Mutant: recover dedups against the highest id of any project.
KeptAboveAll(p) ==
  {r \in wal[p] : \A o \in Projects : \A e \in manifest[o] : \A q \in e.rows : r.id > q.id}

\* The WAL rows recover puts back into the memtable.
Kept(p) == {r \in wal[p] : ~Covered(p, r)}

\* The rows a restart now would serve.
Readable(p) == FileRows(files[p], SegmentPaths(manifest[p])) \cup Kept(p)

-----------------------------------------------------------------------------
\* The environment makes a step fail.
Inject(kinds) ==
  /\ Faults \cap kinds # {} /\ injected < MaxFaults
  /\ injected' = injected + 1

Init ==
  /\ wal = NoRows /\ walBuf = NoRows /\ mem = NoRows
  /\ torn = [p \in Projects |-> FALSE] /\ walErr = [p \in Projects |-> FALSE]
  /\ manifest = [p \in Projects |-> {}] /\ files = [p \in Projects |-> {}]
  /\ nextMid = 0 /\ nextLogID = 0
  /\ events = [p \in Projects |-> {}]
  /\ rollups = [p \in Projects |-> [h \in Hours |-> 0]]
  /\ phase = "up"
  /\ seq = [p \in Projects |-> 0]
  /\ mu = [p \in Projects |-> "free"] /\ stage = [p \in Projects |-> "none"]
  /\ writer = IdleWriter /\ prune = IdlePrune /\ compact = IdleCompact
  /\ born = 0 /\ synced = NoRows /\ retired = NoRows
  /\ resetFailed = [p \in Projects |-> FALSE] /\ injected = 0
  /\ uncounted = NoRows /\ revived = [p \in Projects |-> FALSE]

-----------------------------------------------------------------------------
(* WriteBatch *)

\* The rows of project p in a batch: ids in submission order, across projects.
BatchRows(entries, p) ==
  { [id |-> nextLogID + i, ts |-> entries[i].ts, body |-> born + i, ev |-> entries[i].ev]
      : i \in {j \in DOMAIN entries : entries[j].proj = p} }

\* A batch arrives: ids are drawn and rows built before any lock is taken.
WriteBatch(entries) ==
  /\ phase = "up" /\ writer.pc = "idle"
  /\ born + Cardinality(DOMAIN entries) <= MaxBodies
  /\ writer' = [pc |-> "append",
                batch |-> [p \in Projects |-> BatchRows(entries, p)],
                left |-> {entries[i].proj : i \in DOMAIN entries},
                flush |-> {}]
  /\ nextLogID' = nextLogID + Cardinality(DOMAIN entries)
  /\ born' = born + Cardinality(DOMAIN entries)
  /\ UNCHANGED <<walVars, segVars, metaVars, phase, mem, seq, lockVars, prune, compact,
                 synced, retired, resetFailed, uncounted, revived, injected>>

\* The extractor fails on the k-th entry: k ids are gone, nothing is written.
ExtractFails(k) ==
  /\ Inject({"extract"}) /\ phase = "up" /\ writer.pc = "idle"
  /\ nextLogID' = nextLogID + k
  /\ UNCHANGED <<walVars, segVars, metaVars, phase, mem, seq, lockVars, writer, prune,
                 compact, history>>

\* ps.mu.Lock and wal.Append for one of the batch's remaining projects.
WalAppend(p) ==
  /\ writer.pc = "append" /\ p \in writer.left
  /\ mu[p] = "free" /\ ~walErr[p]
  /\ walBuf' = [walBuf EXCEPT ![p] = @ \cup writer.batch[p]]
  /\ mu' = [mu EXCEPT ![p] = "writer"]
  /\ writer' = [writer EXCEPT !.pc = "sync"]
  /\ UNCHANGED <<wal, torn, walErr, segVars, metaVars, phase, mem, idVars, stage, prune,
                 compact, ghosts>>

\* A buffered writer that failed once fails for ever: the batch ends here,
\* for its remaining projects and for its issues too.
WalAppendFails(p) ==
  /\ writer.pc = "append" /\ p \in writer.left
  /\ mu[p] = "free" /\ walErr[p]
  /\ writer' = IdleWriter
  /\ UNCHANGED <<walVars, segVars, metaVars, phase, mem, idVars, lockVars, prune, compact,
                 ghosts>>

\* wal.Sync succeeds, mem.Append, ps.mu.Unlock.  What lies behind a torn
\* record reaches the disk but no replay ever returns it.
WalSync(p) ==
  /\ writer.pc = "sync" /\ mu[p] = "writer"
  /\ wal' = [wal EXCEPT ![p] = IF torn[p] THEN @ ELSE @ \cup walBuf[p]]
  /\ walBuf' = [walBuf EXCEPT ![p] = {}]
  /\ mem' = [mem EXCEPT ![p] = @ \cup writer.batch[p]]
  /\ synced' = [synced EXCEPT ![p] = @ \cup writer.batch[p]]
  /\ writer' = [writer EXCEPT
                  !.pc = IF writer.left = {p} THEN "upsert" ELSE "append",
                  !.left = @ \ {p},
                  !.flush = IF Cardinality(mem[p] \cup writer.batch[p]) >= FlushRows
                            THEN @ \cup {p} ELSE @]
  /\ mu' = [mu EXCEPT ![p] = "free"]
  /\ UNCHANGED <<torn, walErr, segVars, metaVars, phase, idVars, stage, prune, compact,
                 born, retired, resetFailed, uncounted, revived, injected>>

\* The fsync fails: WriteBatch returns an error, but the rows stay in the WAL
\* file and a later Sync makes them durable.
WalSyncFails(p) ==
  /\ Inject({"wal_sync"})
  /\ writer.pc = "sync" /\ mu[p] = "writer"
  /\ writer' = IdleWriter
  /\ mu' = [mu EXCEPT ![p] = "free"]
  /\ UNCHANGED <<walVars, segVars, metaVars, phase, mem, idVars, stage, prune, compact,
                 history>>

\* The first rows of walBuf[p], by append order, up to id n.
Prefix(p, n) == {r \in walBuf[p] : r.id <= n}

\* Writing the buffer out fails: some records got through, the last perhaps
\* in part, and the bufio.Writer refuses everything from now on.
WalWriteFails(p) ==
  /\ Inject({"wal_write"})
  /\ writer.pc = "sync" /\ mu[p] = "writer"
  /\ \E n \in 0..nextLogID, tear \in BOOLEAN :
       /\ tear => "torn" \in Faults /\ Prefix(p, n) # walBuf[p]
       /\ wal' = [wal EXCEPT ![p] = IF torn[p] THEN @ ELSE @ \cup Prefix(p, n)]
       /\ torn' = [torn EXCEPT ![p] = @ \/ tear]
  /\ walBuf' = [walBuf EXCEPT ![p] = {}]
  /\ walErr' = [walErr EXCEPT ![p] = TRUE]
  /\ writer' = IdleWriter
  /\ mu' = [mu EXCEPT ![p] = "free"]
  /\ UNCHANGED <<segVars, metaVars, phase, mem, idVars, stage, prune, compact, history>>

\* The EventCap newest refs, newest by time and then by insertion.
Newer(a, b) == a.ts > b.ts \/ (a.ts = b.ts /\ a.log > b.log)
Newest(refs) == {a \in refs : Cardinality({b \in refs : Newer(b, a)}) < EventCap}

\* UpsertIssues, one transaction for the batch.
UpsertIssues ==
  /\ writer.pc = "upsert"
  /\ events' = [p \in Projects |->
                  Newest(events[p] \cup { [log |-> r.id, ts |-> r.ts, body |-> r.body]
                                            : r \in {q \in writer.batch[p] : q.ev} })]
  /\ writer' = [writer EXCEPT !.pc = "flush"]
  /\ UNCHANGED <<walVars, segVars, rollups, phase, mem, idVars, lockVars, prune, compact,
                 ghosts>>

\* It fails: the error returns before the threshold flushes.
UpsertIssuesFails ==
  /\ Inject({"issues"})
  /\ writer.pc = "upsert"
  /\ writer' = IdleWriter
  /\ UNCHANGED <<walVars, segVars, metaVars, phase, mem, idVars, lockVars, prune, compact,
                 history>>

\* WriteBatch returns once its threshold flushes are over.
BatchReturns ==
  /\ writer.pc = "flush" /\ writer.flush = {}
  /\ \A p \in Projects : mu[p] # "writer"
  /\ writer' = IdleWriter
  /\ UNCHANGED <<walVars, segVars, metaVars, phase, mem, idVars, lockVars, prune, compact,
                 ghosts>>

-----------------------------------------------------------------------------
(* flushProject, under ps.mu from its first step to its last.  who is the  *)
(* caller: the writer (threshold), the ticker or the pruner.               *)

\* The flush of p is over: unlock, and a pruner that asked for it goes on
\* or, after an error, gives up.
EndFlush(p, ok) ==
  /\ mu' = [mu EXCEPT ![p] = "free"]
  /\ stage' = [stage EXCEPT ![p] = "none"]
  /\ prune' = IF mu[p] # "pruner" THEN prune
              ELSE IF ok THEN [prune EXCEPT !.stage = "lock"] ELSE IdlePrune

\* Lock, take the memtable's rows and write them to a new segment file.
WriteSegment(p, who) ==
  /\ phase = "up" /\ mu[p] = "free" /\ mem[p] # {}
  /\ walErr[p] => nextMid < MaxMid
  /\ seq' = [seq EXCEPT ![p] = @ + 1]
  /\ \E r \in mem[p] :
       /\ IsFirst(r, mem[p])
       /\ files' = [files EXCEPT ![p] = Put(@, FlushPath(seq[p] + 1, r.id), mem[p])]
  /\ mu' = [mu EXCEPT ![p] = who]
  /\ stage' = [stage EXCEPT ![p] = "written"]

\* flushLoop's FlushAll reaches p (an empty memtable is a no-op).
TickerFlush(p) ==
  /\ \A q \in Projects : mu[q] # "ticker"
  /\ WriteSegment(p, "ticker")
  /\ UNCHANGED <<walVars, manifest, nextMid, metaVars, phase, mem, nextLogID, writer, prune,
                 compact, ghosts>>

\* The batch's threshold flush of p.
ThresholdFlush(p) ==
  /\ writer.pc = "flush" /\ p \in writer.flush
  /\ \A q \in Projects : mu[q] # "writer"
  /\ \/ WriteSegment(p, "writer")
     \/ /\ mu[p] = "free" /\ mem[p] = {}
        /\ UNCHANGED <<seq, files, lockVars>>
  /\ writer' = [writer EXCEPT !.flush = @ \ {p}]
  /\ UNCHANGED <<walVars, manifest, nextMid, metaVars, phase, mem, nextLogID, prune,
                 compact, ghosts>>

\* InsertSegment: from here on the manifest serves the rows.
InsertSegment(p) ==
  /\ stage[p] = "written"
  /\ \E r \in mem[p] :
       /\ IsFirst(r, mem[p])
       /\ FlushPath(seq[p], r.id) \notin SegmentPaths(manifest[p])   \* path is UNIQUE
       /\ manifest' = [manifest EXCEPT ![p] = @ \cup
                         {[mid |-> nextMid + 1, path |-> FlushPath(seq[p], r.id), rows |-> mem[p]]}]
  /\ nextMid' = nextMid + 1
  /\ stage' = [stage EXCEPT ![p] = "inserted"]
  /\ UNCHANGED <<walVars, files, metaVars, phase, mem, idVars, mu, writer, prune, compact,
                 ghosts>>

\* rollupsFrom(mem[p]) added to p's hourly counts.
RolledUp(p) == [h \in Hours |-> rollups[p][h] + Cardinality({r \in mem[p] : r.ts = h})]

\* segment.Write, before or after its rename, or InsertSegment fails: the
\* file is gone or an orphan; memtable and WAL stay as they are.
SegmentFails(p) ==
  /\ stage[p] = "written"
  /\ \/ /\ Inject({"segment_write", "manifest"})
        /\ files' = [files EXCEPT ![p] = Without(@, {FlushPath(seq[p], r.id) : r \in mem[p]})]
     \/ Inject({"segment_write"}) /\ UNCHANGED files
  /\ EndFlush(p, FALSE)
  /\ UNCHANGED <<walVars, manifest, nextMid, metaVars, phase, mem, idVars, writer, compact,
                 history>>

\* AddRollups; a failure is logged ("counts will undercount") and the flush
\* goes on.
AddRollups(p) ==
  /\ stage[p] = "inserted"
  /\ \/ rollups' = [rollups EXCEPT ![p] = RolledUp(p)] /\ UNCHANGED <<uncounted, injected>>
     \/ /\ Inject({"rollup"})
        /\ uncounted' = [uncounted EXCEPT ![p] = @ \cup mem[p]]
        /\ UNCHANGED rollups
  /\ stage' = [stage EXCEPT ![p] = "rolled"]
  /\ UNCHANGED <<walVars, segVars, events, phase, mem, idVars, mu, writer, prune, compact,
                 born, synced, retired, resetFailed, revived>>

\* wal.Reset, mem.Reset, unlock.
ResetWAL(p) ==
  /\ stage[p] = "rolled" /\ ~walErr[p]
  /\ wal' = [wal EXCEPT ![p] = {}] /\ walBuf' = [walBuf EXCEPT ![p] = {}]
  /\ torn' = [torn EXCEPT ![p] = FALSE]
  /\ mem' = [mem EXCEPT ![p] = {}]
  /\ EndFlush(p, TRUE)
  /\ UNCHANGED <<walErr, segVars, metaVars, phase, idVars, writer, compact, ghosts>>

\* wal.Reset fails: on the sticky error it changes nothing; otherwise the
\* buffer went out first and the file may or may not have been truncated
\* when the error came.  The memtable keeps rows the manifest serves too.
ResetWALFails(p) ==
  /\ stage[p] = "rolled"
  /\ \/ walErr[p] /\ UNCHANGED <<wal, torn, walBuf, injected>>
     \/ /\ ~walErr[p] /\ Inject({"wal_truncate"})
        /\ walBuf' = [walBuf EXCEPT ![p] = {}]
        /\ \/ /\ wal' = [wal EXCEPT ![p] = IF torn[p] THEN @ ELSE @ \cup walBuf[p]]
              /\ UNCHANGED torn
           \/ /\ wal' = [wal EXCEPT ![p] = {}]
              /\ torn' = [torn EXCEPT ![p] = FALSE]
  /\ EndFlush(p, FALSE)
  /\ resetFailed' = [resetFailed EXCEPT ![p] = TRUE]
  /\ UNCHANGED <<walErr, segVars, metaVars, phase, mem, idVars, writer, compact, born, synced,
                 retired, uncounted, revived>>

-----------------------------------------------------------------------------
(* Prune(p, cutoff): flush p, then under ps.mu drop every segment that is  *)
(* entirely older and rewrite every one that straddles, then the refs.     *)

PruneBegins(p, c, next) ==
  prune' = [stage |-> next, proj |-> p, cutoff |-> c, todo |-> {}, cur |-> None,
            due |-> Older(Readable(p), c)]

\* Mutant: the project is not flushed first.
PruneStartUnflushed(p, c) ==
  /\ phase = "up" /\ prune.stage = "idle" /\ mu[p] = "free"
  /\ PruneBegins(p, c, "lock")
  /\ UNCHANGED <<seq, files, lockVars>>
  /\ UNCHANGED <<walVars, manifest, nextMid, metaVars, phase, mem, nextLogID, writer,
                 compact, born, synced, retired, resetFailed, uncounted, revived, injected>>

PruneStart(p, c) ==
  /\ phase = "up" /\ prune.stage = "idle"
  /\ \/ WriteSegment(p, "pruner") /\ PruneBegins(p, c, "flush")
     \/ /\ mu[p] = "free" /\ mem[p] = {}
        /\ PruneBegins(p, c, "lock")
        /\ UNCHANGED <<seq, files, lockVars>>
  /\ UNCHANGED <<walVars, manifest, nextMid, metaVars, phase, mem, nextLogID, writer,
                 compact, born, synced, retired, resetFailed, uncounted, revived, injected>>

\* flushProject has released ps.mu; Prune takes it again and lists the manifest.
PruneLock(p) ==
  /\ prune.stage = "lock" /\ prune.proj = p /\ mu[p] = "free"
  /\ mu' = [mu EXCEPT ![p] = "pruner"]
  /\ prune' = [prune EXCEPT !.stage = "scan",
                            !.todo = {e \in manifest[p] : Older(e.rows, prune.cutoff) # {}}]
  /\ UNCHANGED <<walVars, segVars, metaVars, phase, mem, idVars, stage, writer, compact,
                 ghosts>>

\* dropSegment, first half: the manifest row goes before the file.
PruneDrop(p, e) ==
  /\ prune.stage = "scan" /\ prune.proj = p /\ e \in prune.todo
  /\ EntirelyOld(e, prune.cutoff)
  /\ manifest' = [manifest EXCEPT ![p] = @ \ {e}]
  /\ retired' = [retired EXCEPT ![p] = @ \cup e.rows]
  /\ prune' = [prune EXCEPT !.stage = "remove", !.todo = @ \ {e}, !.cur = e]
  /\ UNCHANGED <<walVars, files, nextMid, metaVars, phase, mem, idVars, lockVars, writer,
                 compact, born, synced, resetFailed, uncounted, revived, injected>>

\* rewriteSegment, first half: read the file, write the rows it keeps.
PruneRewrite(p, e) ==
  /\ prune.stage = "scan" /\ prune.proj = p /\ e \in prune.todo
  /\ Straddles(e, prune.cutoff)
  /\ \E f \in files[p] :
       /\ f.path = e.path
       /\ files' = [files EXCEPT ![p] = Put(@, PrunedPath(e.path),
                                            f.rows \ Older(f.rows, prune.cutoff))]
  /\ prune' = [prune EXCEPT !.stage = "swap", !.cur = e]
  /\ UNCHANGED <<walVars, manifest, nextMid, metaVars, phase, mem, idVars, lockVars, writer,
                 compact, ghosts>>

\* SwapSegment: one transaction deletes the old row and inserts the new.
PruneSwap(p) ==
  /\ prune.stage = "swap" /\ prune.proj = p
  /\ LET e == prune.cur
         old == Older(e.rows, prune.cutoff)
     IN /\ PrunedPath(e.path) \notin SegmentPaths(manifest[p])
        /\ manifest' = [manifest EXCEPT ![p] = (@ \ {e}) \cup
              {[mid |-> nextMid + 1, path |-> PrunedPath(e.path), rows |-> e.rows \ old]}]
        /\ retired' = [retired EXCEPT ![p] = @ \cup old]
        /\ prune' = [prune EXCEPT !.stage = "remove", !.todo = @ \ {e}]
  /\ nextMid' = nextMid + 1
  /\ UNCHANGED <<walVars, files, metaVars, phase, mem, idVars, lockVars, writer, compact,
                 born, synced, resetFailed, uncounted, revived, injected>>

\* Mutant: an error returns from Prune with ps.mu still held.
PruneFailsLocked(p) ==
  /\ Inject({"manifest"})
  /\ prune.stage \in {"scan", "swap"} /\ prune.proj = p /\ prune.todo # {}
  /\ prune' = IdlePrune
  /\ UNCHANGED <<walVars, segVars, metaVars, phase, mem, idVars, lockVars, writer, compact,
                 history>>

\* A manifest statement fails, and the rewritten copy goes, or segment.Write
\* does, and it may stay as an orphan.  Prune returns.
PruneFails(p) ==
  /\ prune.stage \in {"scan", "swap"} /\ prune.proj = p /\ prune.todo # {}
  /\ \/ Inject({"segment_write"}) /\ UNCHANGED files
     \/ /\ Inject({"manifest"})
        /\ files' = IF prune.stage = "scan" THEN files
                    ELSE [files EXCEPT ![p] = Without(@, {PrunedPath(prune.cur.path)})]
  /\ mu' = [mu EXCEPT ![p] = "free"]
  /\ prune' = IdlePrune
  /\ UNCHANGED <<walVars, manifest, nextMid, metaVars, phase, mem, idVars, stage, writer,
                 compact, history>>

\* The old file goes once the manifest no longer lists it; when os.Remove
\* fails the file is an orphan and Prune returns.
PruneRemove(p) ==
  /\ prune.stage = "remove" /\ prune.proj = p
  /\ \/ /\ files' = [files EXCEPT ![p] = Without(@, {prune.cur.path})]
        /\ prune' = [prune EXCEPT !.stage = "scan", !.cur = None]
        /\ UNCHANGED <<mu, injected>>
     \/ /\ Inject({"remove"})
        /\ prune' = IdlePrune
        /\ mu' = [mu EXCEPT ![p] = "free"]
        /\ UNCHANGED files
  /\ UNCHANGED <<walVars, manifest, nextMid, metaVars, phase, mem, idVars, stage, writer,
                 compact, history>>

\* Every listed segment is done: unlock.
PruneUnlock(p) ==
  /\ prune.stage = "scan" /\ prune.proj = p /\ prune.todo = {}
  /\ mu' = [mu EXCEPT ![p] = "free"]
  /\ prune' = [prune EXCEPT !.stage = "events"]
  /\ UNCHANGED <<walVars, segVars, metaVars, phase, mem, idVars, stage, writer, compact,
                 ghosts>>

\* DeleteIssueEventsBefore, outside the lock, and Prune returns.
PruneEvents(p) ==
  /\ prune.stage = "events" /\ prune.proj = p
  /\ \/ events' = [events EXCEPT ![p] = {r \in @ : r.ts >= prune.cutoff}] /\ UNCHANGED injected
     \/ Inject({"issues"}) /\ UNCHANGED events
  /\ prune' = IdlePrune
  /\ UNCHANGED <<walVars, segVars, rollups, phase, mem, idVars, lockVars, writer, compact,
                 history>>

-----------------------------------------------------------------------------
(* CompactAll: one look at the manifest decides the buckets; each bucket   *)
(* is read and rewritten outside the lock, then swapped in under ps.mu.    *)

Day(h) == h \div HoursPerDay
HourKey(h) == [unit |-> "hour", n |-> h]

\* bucketKey: by hour on now's day, by day before (and after) it.
BucketKey(minTs, now) ==
  IF Day(minTs) = Day(now) THEN HourKey(minTs) ELSE [unit |-> "day", n |-> Day(minTs)]

HasMinTs(e, h) == (\E r \in e.rows : r.ts = h) /\ (\A r \in e.rows : h <= r.ts)

\* ceil(n / ShardRows), the fewest segments n rows fit in.
ShardCount(n) == (n + ShardRows - 1) \div ShardRows

\* Mutant: any bucket of two segments is merged, however full they are.
EligibleAlways(b, now) == b.key # HourKey(now) /\ Cardinality(b.members) >= 2

\* bucketSegments: never the hour still filling; only where merging leaves
\* fewer segments than there are.
Eligible(b, now) ==
  /\ b.key # HourKey(now)
  /\ Cardinality(b.members) >= 2
  /\ Cardinality(b.members) > ShardCount(Cardinality(UNION {e.rows : e \in b.members}))

BucketsOf(p, now) ==
  {b \in { [proj |-> p, key |-> k,
            members |-> {e \in manifest[p] :
                           \E h \in Hours : HasMinTs(e, h) /\ BucketKey(h, now) = k}]
             : k \in {BucketKey(h, now) : h \in Hours} } : Eligible(b, now)}

CompactPlan(now) ==
  /\ phase = "up" /\ compact.stage = "idle"
  /\ LET plan == UNION {BucketsOf(p, now) : p \in Projects}
     IN plan # {} /\ compact' = [stage |-> "plan", plan |-> plan, cur |-> None, new |-> {}]
  /\ UNCHANGED <<walVars, segVars, metaVars, phase, mem, idVars, lockVars, writer, prune,
                 ghosts>>

\* The bucket is done with; CompactAll ends with its last.
BucketDone(b) ==
  compact' = IF compact.plan = {b} THEN IdleCompact
             ELSE [stage |-> "plan", plan |-> compact.plan \ {b}, cur |-> None,
                   new |-> {}]

\* rowLess orders the merged rows; consecutive runs of PerShard rows are the shards.
RowLess(a, b) == a.ts < b.ts \/ (a.ts = b.ts /\ a.id < b.id)
\* Mutant: the concatenated rows are cut unsorted, in id order.
RankUnsorted(r, rows) == Cardinality({q \in rows : q.id < r.id})

Rank(r, rows) == Cardinality({q \in rows : RowLess(q, r)})
PerShard(n) == (n + ShardCount(n) - 1) \div ShardCount(n)
ShardOf(r, rows) == Rank(r, rows) \div PerShard(Cardinality(rows))

\* Mutant: the name says nothing of the members' generation.
MergedPathNoMember(key, first, member, shard) ==
  [kind |-> "merged", key |-> key, first |-> first, num |-> 0, shard |-> shard, pruned |-> 0]

\* c-<key>-<lowest member LogID>-<highest member manifest id>-<shard>.seg
MergedPath(key, first, member, shard) ==
  [kind |-> "merged", key |-> key, first |-> first, num |-> member, shard |-> shard,
   pruned |-> 0]

\* The lowest id and the highest manifest id among a bucket's members.
LowestID(b, n) ==
  /\ \E e \in b.members : \E r \in e.rows : r.id = n
  /\ \A e \in b.members : \A r \in e.rows : n <= r.id
HighestMid(b, n) == (\E e \in b.members : e.mid = n) /\ (\A e \in b.members : e.mid <= n)

\* The shard files of bucket key for rows.
ShardFiles(key, first, member, rows) ==
  { [path |-> MergedPath(key, first, member, ShardOf(r, rows)),
     rows |-> {q \in rows : ShardOf(q, rows) = ShardOf(r, rows)}] : r \in rows }

\* What buildMergedSegments makes of bucket b: the one set of shard files.
BucketRows(b) == FileRows(files[b.proj], SegmentPaths(b.members))
Merged(b) ==
  { ShardFiles(b.key, first, member, BucketRows(b))
      : first \in {n \in {r.id : r \in BucketRows(b)} : LowestID(b, n)},
        member \in {n \in {e.mid : e \in b.members} : HighestMid(b, n)} }

\* Every member's file can be read.
Complete(b) == \A e \in b.members : \E f \in files[b.proj] : f.path = e.path

\* buildMergedSegments, no lock held.
CompactBuild(b) ==
  /\ compact.stage = "plan" /\ b \in compact.plan
  /\ Complete(b)
  /\ \E new \in Merged(b) :
       /\ files' = [files EXCEPT ![b.proj] = Without(@, SegmentPaths(new)) \cup new]
       /\ compact' = [compact EXCEPT !.stage = "built", !.cur = b, !.new = new]
  /\ UNCHANGED <<walVars, manifest, nextMid, metaVars, phase, mem, idVars, lockVars, writer,
                 prune, ghosts>>

\* A member's file is gone (a prune came between), or a shard cannot be
\* written: the ones before it are removed, it may stay as an orphan, and
\* the bucket is left alone.
CompactBuildFails(b) ==
  /\ compact.stage = "plan" /\ b \in compact.plan
  /\ \/ ~Complete(b) /\ UNCHANGED <<files, injected>>
     \/ /\ Complete(b) /\ Inject({"segment_write"})
        /\ \/ UNCHANGED files
           \/ \E new \in Merged(b) : \E f \in new :
                files' = [files EXCEPT ![b.proj] = Put(@, f.path, f.rows)]
  /\ BucketDone(b)
  /\ UNCHANGED <<walVars, manifest, nextMid, metaVars, phase, mem, idVars, lockVars, writer,
                 prune, history>>

\* The inserts go shard by shard, each with the next manifest id.
IssuedMid(f) == nextMid + 1 + Cardinality({g \in compact.new : g.path.shard < f.path.shard})

\* Mutant: the members are not verified again before the swap.
CompactSwapUnverified(b) ==
  /\ compact.stage = "built" /\ b = compact.cur
  /\ mu[b.proj] = "free"
  /\ manifest' = [manifest EXCEPT ![b.proj] = (@ \ b.members) \cup
       { [mid |-> IssuedMid(f), path |-> f.path, rows |-> f.rows]
           : f \in compact.new }]
  /\ nextMid' = nextMid + Cardinality(compact.new)
  /\ mu' = [mu EXCEPT ![b.proj] = "compactor"]
  /\ compact' = [compact EXCEPT !.stage = "remove"]
  /\ UNCHANGED <<walVars, files, metaVars, phase, mem, idVars, stage, writer, prune, ghosts>>

\* ReplaceSegmentsMulti under ps.mu, when memberIDsUnchanged.
MembersUnchanged(b) == b.members \subseteq manifest[b.proj]

CompactSwap(b) ==
  /\ compact.stage = "built" /\ b = compact.cur
  /\ mu[b.proj] = "free"
  /\ MembersUnchanged(b)
  /\ SegmentPaths(compact.new) \cap SegmentPaths(manifest[b.proj] \ b.members) = {}
  /\ manifest' = [manifest EXCEPT ![b.proj] = (@ \ b.members) \cup
       { [mid |-> IssuedMid(f), path |-> f.path, rows |-> f.rows]
           : f \in compact.new }]
  /\ nextMid' = nextMid + Cardinality(compact.new)
  /\ mu' = [mu EXCEPT ![b.proj] = "compactor"]
  /\ compact' = [compact EXCEPT !.stage = "remove"]
  /\ UNCHANGED <<walVars, files, metaVars, phase, mem, idVars, stage, writer, prune, ghosts>>

\* A member changed meanwhile, or the transaction fails: removeNew.
CompactAborts(b) ==
  /\ compact.stage = "built" /\ b = compact.cur
  /\ mu[b.proj] = "free"
  /\ \/ ~MembersUnchanged(b) /\ UNCHANGED injected
     \/ Inject({"manifest"})
  /\ files' = [files EXCEPT ![b.proj] = Without(@, SegmentPaths(compact.new))]
  /\ BucketDone(b)
  /\ UNCHANGED <<walVars, manifest, nextMid, metaVars, phase, mem, idVars, lockVars, writer,
                 prune, history>>

\* The members' files go, save those os.Remove fails on; unlock.
CompactRemove(b) ==
  /\ compact.stage = "remove" /\ b = compact.cur
  /\ \E gone \in SUBSET b.members :
       /\ IF gone = b.members THEN UNCHANGED injected ELSE Inject({"remove"})
       /\ files' = [files EXCEPT ![b.proj] = Without(@, SegmentPaths(gone))]
  /\ mu' = [mu EXCEPT ![b.proj] = "free"]
  /\ BucketDone(b)
  /\ UNCHANGED <<walVars, manifest, nextMid, metaVars, phase, mem, idVars, stage, writer,
                 prune, history>>

-----------------------------------------------------------------------------
(* Stopping and starting *)

Volatile ==
  /\ phase' = "down"
  /\ mem' = NoRows /\ walBuf' = NoRows
  /\ walErr' = [p \in Projects |-> FALSE]
  /\ seq' = [p \in Projects |-> 0] /\ nextLogID' = 0
  /\ mu' = [p \in Projects |-> "free"] /\ stage' = [p \in Projects |-> "none"]
  /\ writer' = IdleWriter /\ prune' = IdlePrune /\ compact' = IdleCompact

\* A crash keeps everything fsynced or committed, and of each WAL's unsynced
\* tail a prefix whose last record may be partial.  The counts of a flush cut
\* before AddRollups are lost: recover finds its rows in the manifest.
Crash ==
  /\ Inject({"crash"}) /\ phase = "up"
  /\ "midflush" \in Faults \/ \A p \in Projects : stage[p] \notin {"inserted", "rolled"}
  /\ \E upto \in [Projects -> 0..nextLogID], tear \in SUBSET Projects :
       /\ \A p \in tear : "torn" \in Faults /\ Prefix(p, upto[p]) # walBuf[p]
       /\ wal' = [p \in Projects |-> IF torn[p] THEN wal[p] ELSE wal[p] \cup Prefix(p, upto[p])]
       /\ torn' = [p \in Projects |-> torn[p] \/ p \in tear]
  /\ uncounted' = [p \in Projects |->
                    uncounted[p] \cup IF stage[p] = "inserted" THEN mem[p] ELSE {}]
  /\ Volatile
  /\ UNCHANGED <<segVars, metaVars, born, synced, retired, resetFailed, revived>>

\* Close, after the loops ended and the callers drained: FlushAll (a round
\* of ticker flushes, each of which may fail), then the bufio.Writers are
\* flushed, unless they already failed, and the files closed.
Close ==
  /\ phase = "up"
  /\ writer.pc = "idle" /\ prune.stage = "idle" /\ compact.stage = "idle"
  /\ \A p \in Projects : mu[p] = "free"
  /\ \/ (\A p \in Projects : mem[p] = {} \/ walErr[p]) /\ UNCHANGED injected
     \/ Inject({"segment_write", "manifest", "wal_truncate"})
  /\ wal' = [p \in Projects |-> IF torn[p] \/ walErr[p] THEN wal[p] ELSE wal[p] \cup walBuf[p]]
  /\ Volatile
  /\ UNCHANGED <<torn, segVars, metaVars, history>>

\* Every id recover looks at: the manifest's, issue_events', the WALs'.
SeedIDsNoEvents ==   \* Mutant: issue_events is not consulted.
  {0} \cup {r.id : r \in UNION {wal[p] \cup ManifestRows(p) : p \in Projects}}
SeedIDs ==
  {0} \cup {r.id : r \in UNION {wal[p] \cup ManifestRows(p) : p \in Projects}}
      \cup {r.log : r \in UNION {events[p] : p \in Projects}}

\* Open: recover replays the WALs, sweepOrphanSegments removes what the
\* manifest does not list, then the loops start.
Open ==
  /\ phase = "down"
  /\ phase' = "up"
  /\ mem' = [p \in Projects |-> Kept(p)]
  /\ \E n \in SeedIDs : (\A i \in SeedIDs : i <= n) /\ nextLogID' = n
  /\ files' = [p \in Projects |->
                 {f \in files[p] : f.path \in SegmentPaths(manifest[p])}]
  /\ revived' = [p \in Projects |-> revived[p] \/ Kept(p) \cap retired[p] # {}]
  /\ UNCHANGED <<walVars, manifest, nextMid, metaVars, seq, lockVars, writer, prune, compact,
                 born, synced, retired, resetFailed, uncounted, injected>>

-----------------------------------------------------------------------------
Submissions == UNION {[1..n -> Inputs] : n \in 1..BatchMax}

WriterNext ==
  \/ \E entries \in Submissions : WriteBatch(entries)
  \/ \E k \in 1..BatchMax : ExtractFails(k)
  \/ \E p \in Projects : WalAppend(p)
  \/ \E p \in Projects : WalAppendFails(p)
  \/ \E p \in Projects : WalSync(p)
  \/ \E p \in Projects : WalSyncFails(p)
  \/ \E p \in Projects : WalWriteFails(p)
  \/ UpsertIssues
  \/ UpsertIssuesFails
  \/ \E p \in Projects : ThresholdFlush(p)
  \/ BatchReturns

FlushNext == \E p \in Projects :
  TickerFlush(p) \/ InsertSegment(p) \/ SegmentFails(p) \/ AddRollups(p) \/ ResetWAL(p)
    \/ ResetWALFails(p)

PruneNext == \E p \in Projects :
  \/ \E c \in Cutoffs : PruneStart(p, c)
  \/ PruneLock(p)
  \/ \E e \in prune.todo : PruneDrop(p, e) \/ PruneRewrite(p, e)
  \/ PruneSwap(p) \/ PruneFails(p) \/ PruneRemove(p) \/ PruneUnlock(p) \/ PruneEvents(p)

CompactNext ==
  \/ \E now \in Clocks : CompactPlan(now)
  \/ \E b \in compact.plan : CompactBuild(b) \/ CompactBuildFails(b) \/ CompactSwap(b)
                               \/ CompactAborts(b) \/ CompactRemove(b)

Next == WriterNext \/ FlushNext \/ PruneNext \/ CompactNext \/ Crash \/ Close \/ Open

Spec == Init /\ [][Next]_vars

-----------------------------------------------------------------------------
(* Type invariant: every variable has its type, a flush runs only under    *)
(* ps.mu, and the merge stage is entered with a bucket in hand.            *)
WalTypes ==
  /\ wal \in [Projects -> SUBSET Row] /\ walBuf \in [Projects -> SUBSET Row]
  /\ torn \in [Projects -> BOOLEAN] /\ walErr \in [Projects -> BOOLEAN]
  /\ mem \in [Projects -> SUBSET Row]
SegTypes ==
  /\ manifest \in [Projects -> SUBSET Entry] /\ files \in [Projects -> SUBSET File]
  /\ nextMid \in Nat
MetaTypes ==
  /\ events \in [Projects -> SUBSET Ref]
  /\ rollups \in [Projects -> [Hours -> Nat]]
ProcessTypes ==
  /\ phase \in {"up", "down"}
  /\ seq \in [Projects -> Nat] /\ nextLogID \in Nat
  /\ mu \in [Projects -> {"free", "writer", "ticker", "pruner", "compactor"}]
  /\ stage \in [Projects -> {"none", "written", "inserted", "rolled"}]
  /\ \A p \in Projects : stage[p] # "none" => mu[p] # "free"
WriterTypes ==
  writer \in [pc : {"idle", "append", "sync", "upsert", "flush"},
              batch : [Projects -> SUBSET Row], left : SUBSET Projects,
              flush : SUBSET Projects]
PruneTypes ==
  /\ prune \in [stage : {"idle", "flush", "lock", "scan", "remove", "swap", "events"},
                proj : Projects \cup {None}, cutoff : Nat, todo : SUBSET Entry,
                cur : Entry \cup {None}, due : SUBSET Row]
  /\ prune.stage # "idle" => prune.proj \in Projects
  /\ prune.stage \in {"swap", "remove"} => prune.cur \in Entry
CompactTypes ==
  /\ compact \in [stage : {"idle", "plan", "built", "remove"}, plan : SUBSET Bucket,
                  cur : Bucket \cup {None}, new : SUBSET File]
  /\ compact.stage \in {"built", "remove"} => compact.cur \in compact.plan
HistoryTypes ==
  /\ born \in Nat /\ injected \in Nat
  /\ synced \in [Projects -> SUBSET Row] /\ retired \in [Projects -> SUBSET Row]
  /\ resetFailed \in [Projects -> BOOLEAN]
  /\ uncounted \in [Projects -> SUBSET Row] /\ revived \in [Projects -> BOOLEAN]
TypeOK == /\ WalTypes /\ SegTypes /\ MetaTypes /\ ProcessTypes
          /\ WriterTypes /\ PruneTypes /\ CompactTypes /\ HistoryTypes

(* LockHeld: ps.mu has one holder, who is where the lock is needed: every   *)
(* flush step, every prune step on the manifest and every removal of merged *)
(* members happens under the lock, and each way out of them releases it.    *)
HolderAtWork(p) ==
  /\ mu[p] = "free" => stage[p] = "none"
  /\ mu[p] = "ticker" => stage[p] # "none"
  /\ mu[p] = "writer" => writer.pc = IF stage[p] = "none" THEN "sync" ELSE "flush"
  /\ mu[p] = "pruner" =>
       /\ prune.proj = p
       /\ IF stage[p] = "none" THEN prune.stage \in {"scan", "swap", "remove"}
                               ELSE prune.stage = "flush"
  /\ mu[p] = "compactor" =>
       stage[p] = "none" /\ compact.stage = "remove" /\ compact.cur.proj = p
WorkerHolds ==
  /\ prune.stage \in {"flush", "scan", "swap", "remove"} => mu[prune.proj] = "pruner"
  /\ compact.stage = "remove" => mu[compact.cur.proj] = "compactor"
LockHeld ==
  /\ \A p \in Projects : HolderAtWork(p)
  /\ WorkerHolds
  /\ \A p, q \in Projects : mu[p] = mu[q] /\ mu[p] # "free" => p = q

(* Durability: a row whose WAL fsync succeeded is served by the next start, *)
(* whenever that start comes, until a prune removes it (WriteBatch: "Rows   *)
(* are durable (WAL fsync'd) before this returns").                         *)
Durability == \A p \in Projects : synced[p] \subseteq Readable(p) \cup retired[p]

(* NoDuplicateRows: no row is in two segments the manifest lists, nor in    *)
(* one of them and the memtable, outside the flush's own critical section,  *)
(* as long as every WAL.Reset succeeded (collectRows: "never a mix that     *)
(* duplicates or drops rows").                                              *)
DuplicateFree(p) ==
  /\ \A e1, e2 \in manifest[p] : e1 # e2 => e1.rows \cap e2.rows = {}
  /\ stage[p] \notin {"inserted", "rolled"} => mem[p] \cap ManifestRows(p) = {}
NoDuplicateRows == \A p \in Projects : resetFailed[p] \/ DuplicateFree(p)

(* ManifestBacked: every segment the manifest lists has its file, holding   *)
(* the rows the manifest row was made from: no write under a reused name    *)
(* and no removal ever hits a listed file (dropSegment: "a manifest row     *)
(* with no file would fail reads").                                         *)
ManifestBacked == \A p \in Projects : \A e \in manifest[p] :
  [path |-> e.path, rows |-> e.rows] \in files[p]

(* FewerSegments: a merge leaves fewer segments than it found, so that      *)
(* compaction comes to rest (bucketSegments: re-merging a bucket at its     *)
(* floor "would rewrite the same bytes into the same number of segments     *)
(* every pass, forever").                                                   *)
FewerSegments == compact.stage = "built" =>
  Cardinality(compact.new) < Cardinality(compact.cur.members)

(* ShardsOrdered: the shards of one merge follow each other in time         *)
(* (buildMergedSegments: "shards could overlap in time and defeat           *)
(* manifest-level ts pruning").                                             *)
SameMerge(a, b) == a.kind = "merged" /\ [a EXCEPT !.shard = b.shard, !.pruned = b.pruned] = b
ShardsOrdered == \A p \in Projects : \A e1, e2 \in manifest[p] :
  SameMerge(e1.path, e2.path) /\ e1.path.shard < e2.path.shard =>
    \A r \in e1.rows, q \in e2.rows : r.ts <= q.ts

(* EventRefsOwnBody: the log id in a retained event ref never belongs to    *)
(* another log (recover: "the old issue_events row would resolve to the     *)
(* WRONG body").                                                            *)
EventRefsOwnBody == \A p, q \in Projects : \A ref \in events[p] :
  \A r \in Readable(q) \cup mem[q] : r.id = ref.log => r.body = ref.body /\ p = q

(* PruneComplete: once a prune has been through the segments, no row older *)
(* than its cutoff that was there when it began is left (Prune: "removes a  *)
(* project's logs older than before, with row precision").                  *)
PruneComplete ==
  prune.stage = "events" => Readable(prune.proj) \cap prune.due = {}

(* RollupsExact: outside the flush's critical section, log_rollups counts    *)
(* each flushed row once, the pruned ones included, whatever was retried,    *)
(* merged, pruned or recovered meanwhile.  What it lacks is exactly the rows *)
(* of flushes whose AddRollups failed ("counts will undercount") or was cut  *)
(* off by a crash: those Stats lacks for ever, though its counts are to be   *)
(* "exact and immediate". What may count twice are rows a failed WAL.Reset   *)
(* left in the memtable and pruned rows a start took back (NoResurrection).  *)
Flushing(p) == stage[p] \in {"inserted", "rolled"}
RollupsExact == \A p \in Projects, h \in Hours :
  ~Flushing(p) /\ ~resetFailed[p] /\ ~revived[p] =>
    rollups[p][h] =
      Cardinality({r \in (ManifestRows(p) \cup retired[p]) \ uncounted[p] : r.ts = h})

(* NoResurrection: a row a prune removed is not served by a later start     *)
(* (Prune: "the WAL and memtable cannot resurrect pruned rows").            *)
NoResurrection == \A p \in Projects : Readable(p) \cap retired[p] = {}

(* Ledger: the store implements LogLedger, a restart at any moment serving  *)
(* the ledger's rows: no step other than a prune takes a row away, a prune  *)
(* takes only rows older than its cutoff, and none of them comes back.      *)
Promised == INSTANCE LogLedger WITH
  log  <- [p \in Projects |-> Readable(p)],
  gone <- retired,
  cut  <- [p \in Projects |-> IF prune.proj = p THEN prune.cutoff ELSE 0]
Ledger == Promised!Spec

=============================================================================
