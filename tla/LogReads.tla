------------------------------ MODULE LogReads ------------------------------
(***************************************************************************)
(* Queries of the template storage engine beside its write side.  A query  *)
(* snapshots the manifest and the memtable together under ps.mu, then      *)
(* opens the segment files one by one with no lock held; a compaction or a *)
(* prune may remove one of them in between, and the query starts over from *)
(* a fresh snapshot.  One reader stands for all: readers take ps.mu but    *)
(* change nothing.  Its query is one of                                    *)
(*                                                                         *)
(*   search   SearchLogs: the Limit newest events, cut per segment first   *)
(*   id       logByID                                                      *)
(*   context  LogContext: findLog, then collectRows and the rows around it *)
(***************************************************************************)
EXTENDS LogStore

CONSTANTS Sinces,                  \* lower time bounds a query may have
          Limit,                   \* most rows a search returns
          Arounds,                 \* rows LogContext may be asked for on either side
          MaxSegmentSetRestarts    \* attempts per query (3 in the code)

ASSUME ReadAssumption ==
  /\ Sinces \subseteq Nat /\ Limit \in Nat \ {0} /\ Arounds \subseteq Nat
  /\ MaxSegmentSetRestarts \in Nat \ {0}

VARIABLE read   \* the query in progress

\* A row as a query came by it: from the segment with this manifest id, 0 for the memtable.
Hit == [mid : Nat, row : Row]

NoRead == [pc |-> "idle", op |-> None, attempt |-> 0, segs |-> {}, todo |-> {}, cur |-> None,
           hits |-> {}, target |-> None,
           owed |-> {}, gone |-> {}]   \* history: rows live, rows retired when it began

readVars == <<vars, read>>

\* Rows served of project p, and all rows ever flushed or served.
Live(p) == mem[p] \cup ManifestRows(p)
Seen(p) == Live(p) \cup retired[p]

-----------------------------------------------------------------------------
(* What a query wants *)

\* The log is still to be found.
LooksUp(op) == op.kind = "id" \/ (op.kind = "context" /\ read.target = None)

Wanted(op, r) ==
  /\ LooksUp(op) => r.id = op.id
  /\ op.kind = "search" => r.ts >= op.since /\ r.ev

\* What the manifest row already rules out is not opened.
Candidate(op, e) ==
  /\ LooksUp(op) => (\E r \in e.rows : r.id <= op.id) /\ (\E r \in e.rows : r.id >= op.id)
  /\ op.kind = "search" => \E r \in e.rows : r.ts >= op.since

\* Mutant: the scan stops one match early.
BestShort(rows) == {r \in rows : Cardinality({q \in rows : RowLess(r, q)}) + 1 < Limit}

\* The Limit newest of rows; a segment's scan goes on through rows that tie
\* with the last one.
Best(rows) == {r \in rows : Cardinality({q \in rows : RowLess(r, q)}) < Limit}
WithTies(rows) == {r \in rows : \E q \in Best(rows) : q.ts = r.ts} \cup Best(rows)

SegmentMatches(op, rows) ==
  LET found == {r \in rows : Wanted(op, r)}
  IN IF op.kind = "search" THEN WithTies(found) ELSE found

Hits(op, mid, rows) == {[mid |-> mid, row |-> r] : r \in SegmentMatches(op, rows)}

\* The target with the n rows next to it on either side.
Nearest(rows, t, n) ==
  LET before == {r \in rows : ~RowLess(t, r)}
      after  == rows \ before
  IN {r \in before : Cardinality({q \in before : RowLess(r, q)}) <= n}
       \cup {r \in after : Cardinality({q \in after : RowLess(q, r)}) < n}

\* The rows the query returns.
Result(op, hits) ==
  LET rows == {h.row : h \in hits}
  IN CASE op.kind = "search"  -> Best(rows)
       [] op.kind = "context" -> Nearest(rows, read.target, op.n)
       [] OTHER               -> rows

-----------------------------------------------------------------------------
(* The query's steps *)

ReadBegin(op) ==
  /\ phase = "up" /\ read.pc = "idle"
  /\ read' = [NoRead EXCEPT !.pc = "snapshot", !.op = op, !.attempt = 1,
                            !.owed = Live(op.proj), !.gone = retired[op.proj]]
  /\ UNCHANGED vars

\* The query goes on with hits: a lookup ends at its first.
Proceed(op, hits, todo) ==
  read' = [read EXCEPT !.pc = IF todo = {} \/ (LooksUp(op) /\ hits # {}) THEN "done" ELSE "open",
                       !.segs = IF read.pc = "snapshot" THEN todo ELSE @,
                       !.hits = hits, !.todo = todo, !.cur = None]

\* Mutant: the manifest and the memtable are read without ps.mu.
ReadSnapshotUnlocked(op) ==
  /\ read.pc = "snapshot" /\ read.op = op
  /\ Proceed(op, {[mid |-> 0, row |-> r] : r \in {q \in mem[op.proj] : Wanted(op, q)}},
             {e \in manifest[op.proj] : Candidate(op, e)})
  /\ UNCHANGED vars

\* snapshotProject: Segments and mem.Snapshot under ps.mu.
ReadSnapshot(op) ==
  /\ read.pc = "snapshot" /\ read.op = op
  /\ mu[op.proj] = "free"
  /\ Proceed(op, {[mid |-> 0, row |-> r] : r \in {q \in mem[op.proj] : Wanted(op, q)}},
             {e \in manifest[op.proj] : Candidate(op, e)})
  /\ UNCHANGED vars

\* A segment's file opens; from then on the scan holds its bytes.
ReadSegment(e) ==
  /\ read.pc = "open" \/ (read.pc = "reopen" /\ e = read.cur)
  /\ e \in read.todo
  /\ \E f \in files[read.op.proj] :
       /\ f.path = e.path
       /\ Proceed(read.op, read.hits \cup Hits(read.op, e.mid, f.rows), read.todo \ {e})
  /\ UNCHANGED vars

\* It does not: find out why; a second time is corruption.
ReadVanished(e) ==
  /\ read.pc = "open" \/ (read.pc = "reopen" /\ e = read.cur)
  /\ e \in read.todo
  /\ e.path \notin SegmentPaths(files[read.op.proj])
  /\ read' = [read EXCEPT !.pc = IF @ = "reopen" THEN "corrupt" ELSE "fresh", !.cur = e]
  /\ UNCHANGED vars

\* Mutant: the query's own snapshot is asked.
ListedInSnapshot(p, e) == e.mid \in {s.mid : s \in read.segs}

\* freshSegmentByID.
Listed(p, e) == e.mid \in {s.mid : s \in manifest[p]}

\* Mutant: a vanished segment is skipped.
ReadRecheckSkips(p) ==
  /\ read.pc = "fresh" /\ read.op.proj = p
  /\ mu[p] = "free"
  /\ Proceed(read.op, read.hits, read.todo \ {read.cur})
  /\ UNCHANGED vars

\* Gone from the manifest too: replaced, so the whole attempt is abandoned
\* for a fresh snapshot, a bounded number of times.
ReadRecheck(p) ==
  /\ read.pc = "fresh" /\ read.op.proj = p
  /\ mu[p] = "free"
  /\ read' =
       IF Listed(p, read.cur) THEN [read EXCEPT !.pc = "reopen"]
       ELSE IF read.attempt = MaxSegmentSetRestarts THEN [read EXCEPT !.pc = "failed"]
       ELSE [read EXCEPT !.pc = "snapshot", !.attempt = @ + 1, !.hits = {}, !.todo = {},
                         !.segs = {}, !.cur = None]
  /\ UNCHANGED vars

\* LogContext has its log, and collects the project's rows as they are now.
ContextCollects ==
  /\ read.pc = "done" /\ read.op.kind = "context" /\ read.target = None /\ read.hits # {}
  /\ read' = [read EXCEPT !.pc = "snapshot", !.attempt = 1, !.segs = {}, !.hits = {},
                          !.target = (CHOOSE h \in read.hits : TRUE).row]
  /\ UNCHANGED vars

ReadReturn ==
  /\ read.pc \in {"done", "failed"}
  /\ read' = NoRead
  /\ UNCHANGED vars

\* The process stops under the query.
ReadDies ==
  /\ Crash \/ Close
  /\ read' = NoRead

-----------------------------------------------------------------------------
InitRead == Init /\ read = NoRead

Searches == [kind : {"search"}, proj : Projects, since : Sinces]
Lookups  == [kind : {"id"}, proj : Projects, id : 1..MaxBodies]
Contexts == [kind : {"context"}, proj : Projects, id : 1..MaxBodies, n : Arounds]

ReadNext ==
  \/ \E op \in Searches \cup Lookups \cup Contexts : ReadBegin(op) \/ ReadSnapshot(op)
  \/ \E e \in read.todo : ReadSegment(e) \/ ReadVanished(e)
  \/ \E p \in Projects : ReadRecheck(p)
  \/ ContextCollects \/ ReadReturn

StoreNext == WriterNext \/ FlushNext \/ PruneNext \/ CompactNext \/ Open

NextRead == ReadNext \/ (StoreNext /\ UNCHANGED read) \/ ReadDies

SpecRead == InitRead /\ [][NextRead]_readVars

-----------------------------------------------------------------------------
Answered(kind) == read.pc = "done" /\ read.op.kind = kind
\* Rows that were there all the while.
Stable == {r \in read.owed \ retired[read.op.proj] : Wanted(read.op, r)}

(* ReadExact: LogContext answers with the rows next to its log: one that   *)
(* was there all the while is left out only for n rows nearer to it,        *)
(* and the log itself never; no row comes twice, and none that a prune had  *)
(* removed before it started (collectRows: "never a mix that duplicates or  *)
(* drops rows", a vanished segment is never silently skipped; LogContext:   *)
(* "the target ... survives any n >= 1").                                   *)
ReadExact == Answered("context") /\ read.target # None =>
  LET t == read.target
      answer == Result(read.op, read.hits)
  IN /\ answer \cap read.gone = {}
     /\ \A h1, h2 \in read.hits : h1.row = h2.row => h1 = h2
     /\ \A r \in Stable \ answer :
          /\ r # t
          /\ IF RowLess(t, r) THEN Cardinality({q \in answer : RowLess(t, q) /\ RowLess(q, r)}) >= read.op.n
                              ELSE Cardinality({q \in answer : RowLess(r, q) /\ ~RowLess(t, q)}) > read.op.n

(* SearchNewest: a search leaves out a matching row that was there all the  *)
(* while only if it returns Limit rows, all of them newer: neither the cut  *)
(* per segment nor a replaced segment hides one (SearchLogs: "most recent   *)
(* first ..., capped at f.Limit").                                          *)
SearchNewest == Answered("search") =>
  LET answer == Result(read.op, read.hits)
  IN \A r \in Stable \ answer :
       Cardinality(answer) = Limit /\ \A q \in answer : RowLess(r, q)

(* LookupFinds: a lookup says "not found" only of a log that was not there  *)
(* all the while, and what it finds is that log (logByID).                  *)
LookupFinds == (Answered("id") \/ Answered("context")) /\ read.target = None =>
  \A r \in Stable : {h.row : h \in read.hits} = {r}

(* NoFalseCorruption: no query ever reports a listed segment without a file *)
(* because of a concurrent compaction or prune (openScanWithRestart: "row   *)
(* still present but file missing" is "real corruption").                   *)
NoFalseCorruption == read.pc # "corrupt"
=============================================================================
