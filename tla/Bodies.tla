------------------------------- MODULE Bodies -------------------------------
(***************************************************************************)
(* What becomes of a log's body: the extractor finds or mints a template   *)
(* and keeps the row as an id and variables, or raw; a flush spreads rows  *)
(* over the columns of a segment; a search filters and matches rows on the *)
(* columns, taking the templates from a snapshot; a body is put together   *)
(* again from whatever the extractor knows then; and Aggregate adds what   *)
(* the rollups count to what the memtable holds. One project.              *)
(* The steps of a flush or compaction are LogStore's: here each is whole.  *)
(*                                                                         *)
(* A body is a sequence of words, and a text is words with SP between.     *)
(***************************************************************************)
EXTENDS Integers, FiniteSets, SequencesExt

CONSTANTS
  Inputs,         \* logs that are written, [body, ts, svc]
  Unfit,          \* bodies that cannot be templates: several lines, a NUL, more than 200 words
  Digits,         \* words with a digit in them
  Filters,        \* of searches: [q, since, svc], q a text or <<>>, svc a service or None
  Limit, ChunkRows,     \* rows of an answer; rows matched as one chunk (SearchChunkRows)
  Windows,        \* of Aggregate: [since, until], times or None
  HourLen,        \* ticks in an hour
  Cap,            \* templates of a project (100_000)
  MaxRows, MaxFaults,   \* bounds
  Wild, SP, None

Words == UNION {ToSet(l.body) : l \in Inputs}

ASSUME BodiesAssumption ==
  /\ \A l \in Inputs : l.body \in Seq(Words) /\ l.body # <<>> /\ l.ts \in Nat
  /\ \A f \in Filters : f.q \in Seq(ToSet(f.q)) /\ f.since \in Nat
  /\ \A w \in Windows : w.since \in Nat \cup {None} /\ w.until \in Nat \cup {None}
  /\ Cap \in Nat /\ Limit \in Nat \ {0} /\ ChunkRows \in Nat \ {0} /\ HourLen \in Nat \ {0}
  /\ MaxRows \in Nat /\ MaxFaults \in Nat
  /\ None \notin {"index", "body"}

VARIABLES
  templates,   \* table in SQLite: id -> words and Wild
  known,       \* None, or the ids the extractor has in memory
  mem,         \* rows of the memtable
  segments,    \* the segments of the manifest, each the columns of its file
  rollups,     \* log_rollups: [svc, hour] -> rows flushed
  reader,      \* None, or a search on its way
  written,     \* history: log id -> the log it was written with
  faults

vars == <<templates, known, mem, segments, rollups, reader, written, faults>>

Hour(ts) == ts \div HourLen
Counted == {[svc |-> l.svc, hour |-> Hour(l.ts)] : l \in Inputs}

Init ==
  /\ rollups = [k \in Counted |-> 0]
  /\ templates = <<>> /\ known = None /\ mem = <<>> /\ segments = {}
  /\ reader = None /\ written = <<>> /\ faults = 0

Fault == faults < MaxFaults /\ faults' = faults + 1

Before(a, b) == a[1] < b[1] \/ (a[1] = b[1] /\ a[2] < b[2])

\* The members of a finite set by their keys, pairs of numbers.
Sorted(S, key) ==
  [k \in 1..Cardinality(S) |-> CHOOSE x \in S : Cardinality({y \in S : Before(key[y], key[x])}) = k - 1]
Ascending(S) == Sorted(S, [i \in S |-> <<i, 0>>])

-----------------------------------------------------------------------------
(* Texts and templates *)

Text(words) == [i \in 1..(2 * Len(words) - 1) |-> IF i % 2 = 1 THEN words[(i + 1) \div 2] ELSE SP]
HasText(text, q) == \E i \in 0..(Len(text) - Len(q)) : SubSeq(text, i + 1, i + Len(q)) = q

Wilds(t) == {i \in DOMAIN t : t[i] = Wild}
VarsFor(t, words) == LET at == Ascending(Wilds(t)) IN [k \in DOMAIN at |-> words[at[k]]]
Fills(t, v) == Len(v) = Cardinality(Wilds(t))
Substitute(t, v) ==
  [i \in DOMAIN t |-> IF t[i] = Wild THEN v[Cardinality({k \in Wilds(t) : k < i}) + 1] ELSE t[i]]

GroupKey(words) == <<Len(words), IF words[1] \in Digits \cup {Wild} THEN Wild ELSE words[1]>>
Same(t, words) == {i \in DOMAIN t : t[i] \in {Wild, words[i]}}
Similarity(t, words) == Cardinality(Same(t, words))
Covers(t, words) == Same(t, words) = DOMAIN words

\* Of the most similar templates the one that is longest in memory.
Best(ids, words) ==
  LET group == {id \in ids : GroupKey(templates[id]) = GroupKey(words)}
      closest == {id \in group : \A o \in group : Similarity(templates[o], words) <= Similarity(templates[id], words)}
  IN  {id \in closest : Similarity(templates[id], words) > 0 /\ \A o \in closest : id <= o}

\* The template of a body: one there is, one that generalizes the best, or
\* the body itself.
Resolve(ids, words) ==
  LET best == {id \in Best(ids, words) : 2 * Similarity(templates[id], words) >= Len(words)}
  IN  IF best = {} THEN [id |-> None, words |-> words]
      ELSE LET id == CHOOSE b \in best : TRUE
           IN  IF Covers(templates[id], words) THEN [id |-> id, words |-> templates[id]]
               ELSE [id |-> None,
                     words |-> [i \in DOMAIN words |-> IF i \in Same(templates[id], words) THEN templates[id][i] ELSE Wild]]

-----------------------------------------------------------------------------
(* The extractor, and WriteBatch *)

Loaded == IF known = None THEN DOMAIN templates ELSE known

\* A row keeps its template and variables, or its body.
Row(l, id, v) ==
  [id |-> Len(written) + 1, ts |-> l.ts, svc |-> l.svc, tmpl |-> id, vars |-> v,
   raw |-> IF id = 0 THEN l.body ELSE <<>>]
Keep(l, id, v) == mem' = Append(mem, Row(l, id, v)) /\ written' = Append(written, l)

WriteRaw(l) ==
  /\ \/ l.body \in Unfit /\ known' = known
     \/ /\ l.body \notin Unfit /\ known' = Loaded
        /\ Resolve(Loaded, l.body).id = None /\ Cardinality(Loaded) >= Cap
  /\ Keep(l, 0, <<>>)
  /\ UNCHANGED <<templates, segments, rollups, reader, faults>>

WriteMatched(l) ==
  LET r == Resolve(Loaded, l.body)
  IN  /\ l.body \notin Unfit /\ r.id # None
      /\ known' = Loaded
      /\ Keep(l, r.id, VarsFor(r.words, l.body))
      /\ UNCHANGED <<templates, segments, rollups, reader, faults>>

\* Mutant: a template that is generalized keeps its id.
WriteMintsInPlace(l) ==
  LET r == Resolve(Loaded, l.body)
      old == {id \in Best(Loaded, l.body) : r.words # l.body}
      id == IF old = {} THEN Len(templates) + 1 ELSE CHOOSE o \in old : TRUE
  IN  /\ l.body \notin Unfit /\ r.id = None /\ Cardinality(Loaded) < Cap
      /\ templates' = IF old = {} THEN Append(templates, r.words) ELSE [templates EXCEPT ![id] = r.words]
      /\ known' = Loaded \cup {id}
      /\ Keep(l, id, VarsFor(r.words, l.body))
      /\ UNCHANGED <<segments, rollups, reader, faults>>

WriteMints(l) ==
  LET r == Resolve(Loaded, l.body)
      id == Len(templates) + 1
  IN  /\ l.body \notin Unfit /\ r.id = None /\ Cardinality(Loaded) < Cap
      /\ templates' = Append(templates, r.words) /\ known' = Loaded \cup {id}
      /\ Keep(l, id, VarsFor(r.words, l.body))
      /\ UNCHANGED <<segments, rollups, reader, faults>>

\* The batch fails with the load or the insert, which may have committed.
WriteFails(l) ==
  /\ l.body \notin Unfit /\ Fault
  /\ \/ known = None /\ UNCHANGED <<templates, known>>
     \/ /\ Resolve(Loaded, l.body).id = None /\ Cardinality(Loaded) < Cap
        /\ templates' \in {templates, Append(templates, Resolve(Loaded, l.body).words)}
        /\ known' = Loaded
  /\ UNCHANGED <<mem, segments, rollups, reader, written>>

-----------------------------------------------------------------------------
(* A segment: encoded, and read row by row *)

Deltas(v) == [i \in DOMAIN v |-> v[i] - (IF i = 1 THEN 0 ELSE v[i - 1])]
Undelta(d) ==
  LET sum[i \in 0..Len(d)] == IF i = 0 THEN 0 ELSE sum[i - 1] + d[i]
  IN  [i \in DOMAIN d |-> sum[i]]

\* Values in the order they are first seen, and a reference for each.
BuildDict(v) ==
  LET first == Ascending({i \in DOMAIN v : \A k \in 1..(i - 1) : v[k] # v[i]})
      dict == [k \in DOMAIN first |-> v[first[k]]]
  IN  [dict |-> dict, refs |-> [i \in DOMAIN v |-> CHOOSE k \in DOMAIN dict : dict[k] = v[i]]]

\* The places of a column of lists, as long as n says.
Places(n) == UNION {{i} \X (1..n[i]) : i \in DOMAIN n}

\* Raw bodies and variables are columns of their own length.
Columns(rows) ==
  LET svc == BuildDict([i \in DOMAIN rows |-> rows[i].svc])
      nvars == [i \in DOMAIN rows |-> Len(rows[i].vars)]
      at == Sorted(Places(nvars), [p \in Places(nvars) |-> p])
      raws == Ascending({i \in DOMAIN rows : rows[i].tmpl = 0})
  IN  [ids |-> Deltas([i \in DOMAIN rows |-> rows[i].id]),
       ts |-> Deltas([i \in DOMAIN rows |-> rows[i].ts]),
       svcDict |-> svc.dict, svcRefs |-> svc.refs,
       tmpl |-> [i \in DOMAIN rows |-> rows[i].tmpl],
       nvars |-> nvars,
       vars |-> [k \in DOMAIN at |-> rows[at[k][1]].vars[at[k][2]]],
       raw |-> [k \in DOMAIN raws |-> rows[raws[k]].raw],
       damaged |-> None]

\* The sort by time is stable.
Encode(rows) ==
  LET order == Sorted(DOMAIN rows, [i \in DOMAIN rows |-> <<rows[i].ts, i>>])
  IN  Columns([k \in DOMAIN order |-> rows[order[k]]])

VarStart(s, i) == Cardinality({p \in Places(s.nvars) : p[1] < i})
Vars(s, i) == SubSeq(s.vars, VarStart(s, i) + 1, VarStart(s, i) + s.nvars[i])
RawBytes(s, i) ==
  IF s.tmpl[i] = 0 THEN s.raw[Cardinality({k \in DOMAIN s.tmpl : s.tmpl[k] = 0 /\ k < i}) + 1] ELSE <<>>
RowAt(s, i) ==
  [id |-> Undelta(s.ids)[i], ts |-> Undelta(s.ts)[i], svc |-> s.svcDict[s.svcRefs[i]],
   tmpl |-> s.tmpl[i], vars |-> Vars(s, i), raw |-> RawBytes(s, i)]
RowsOf(s) == {RowAt(s, i) : i \in DOMAIN s.ids}
Intact == {s \in segments : s.damaged = None}

\* rollupsFrom.
RollupKey(r) == [svc |-> r.svc, hour |-> Hour(r.ts)]

Flush ==
  /\ mem # <<>>
  /\ segments' = segments \cup {Encode(mem)} /\ mem' = <<>>
  /\ rollups' = [k \in Counted |-> rollups[k] + Cardinality({i \in DOMAIN mem : RollupKey(mem[i]) = k})]
  /\ UNCHANGED <<templates, known, reader, written, faults>>

\* Every row of every member, in the order of time and id. A segment that is
\* damaged fails the pass.
Compact ==
  /\ Cardinality(segments) > 1 /\ segments = Intact
  /\ LET rows == UNION {RowsOf(s) : s \in segments}
     IN  segments' = {Encode(Sorted(rows, [r \in rows |-> <<r.ts, r.id>>]))}
  /\ UNCHANGED <<templates, known, mem, rollups, reader, written, faults>>

\* A block on disk goes bad, of a column every scan reads or of the others;
\* its CRC tells when it is read.
Damage ==
  /\ Fault
  /\ \E s \in Intact, block \in {"index", "body"} :
       segments' = (segments \ {s}) \cup {[s EXCEPT !.damaged = block]}
  /\ UNCHANGED <<templates, known, mem, rollups, reader, written>>

\* The WAL is replayed; the templates are loaded when they are needed.
Restart ==
  /\ known # None /\ known' = None /\ reader' = None
  /\ UNCHANGED <<templates, mem, segments, rollups, written, faults>>

-----------------------------------------------------------------------------
(* SearchLogs *)

\* Mutant: a wildcard does not end a run of fixed text.
AlwaysContainingAcross(tmpls, q) ==
  {id \in tmpls : HasText(Text(SelectSeq(templates[id], LAMBDA w : w # Wild)), q)}

\* The templates with q in the text between two wildcards.
AlwaysContaining(tmpls, q) == {id \in tmpls : Wild \notin ToSet(q) /\ HasText(Text(templates[id]), q)}

\* A body from the extractor's memory, or from a first load of it; what it
\* does not know fails.
Readable(row) == row.tmpl = 0 \/ (row.tmpl \in Loaded /\ Fills(templates[row.tmpl], row.vars))
RowToLog(row) == IF row.tmpl = 0 THEN row.raw ELSE Substitute(templates[row.tmpl], row.vars)

Admits(f, ts, svc) == f.since <= ts /\ (f.svc = None \/ svc = f.svc)

\* The manifest row rules a segment out by its services and its last time.
Candidate(s, f) ==
  /\ f.since <= Undelta(s.ts)[Len(s.ts)]
  /\ f.svc # None => f.svc \in ToSet(s.svcDict)

\* computeMatch compares references.
Match(s, f) ==
  LET ref == CHOOSE k \in DOMAIN s.svcDict : s.svcDict[k] = f.svc
  IN  {i \in DOMAIN s.ids : f.since <= Undelta(s.ts)[i] /\ (f.svc = None \/ s.svcRefs[i] = ref)}

\* A templated row matches by its template alone or is put together; one
\* that cannot be, from the snapshot's templates, fails the search.
Unknown(s, i, f, tmpls) ==
  /\ f.q # <<>> /\ s.tmpl[i] # 0 /\ s.tmpl[i] \notin AlwaysContaining(tmpls, f.q)
  /\ s.tmpl[i] \notin tmpls \/ ~Fills(templates[s.tmpl[i]], Vars(s, i))
RowMatches(s, i, f, tmpls) ==
  \/ f.q = <<>>
  \/ s.tmpl[i] = 0 /\ HasText(Text(RawBytes(s, i)), f.q)
  \/ s.tmpl[i] \in AlwaysContaining(tmpls, f.q)
  \/ s.tmpl[i] \in tmpls /\ HasText(Text(Substitute(templates[s.tmpl[i]], Vars(s, i))), f.q)

\* The match set is cut in chunks, each scanned from its newest row to the
\* limit and through the ties, and joined from the last chunk under the
\* same rule.
Newest(s, rows) == {i \in rows : Cardinality({k \in rows : Undelta(s.ts)[k] > Undelta(s.ts)[i]}) < Limit}
Chunks(rows) ==
  {{i \in rows : Cardinality({k \in rows : k < i}) \div ChunkRows = c} : c \in 0..Cardinality(rows)}
Scan(s, f, tmpls) ==
  Newest(s, UNION {Newest(s, {i \in c : RowMatches(s, i, f, tmpls)}) : c \in Chunks(Match(s, f))})

\* A bad block fails a scan that reads its column.
ScanFails(s, f, tmpls) ==
  \/ s.damaged = "index"
  \/ s.damaged = "body" /\ (f.q # <<>> \/ Match(s, f) # {})
  \/ \E i \in Match(s, f) : Unknown(s, i, f, tmpls)

MemMatches(rows, f) ==
  {r \in ToSet(rows) : Admits(f, r.ts, r.svc) /\ (f.q = <<>> \/ HasText(Text(RowToLog(r)), f.q))}

\* Manifest and memtable, together under ps.mu.
SearchSnapshots ==
  /\ reader = None
  /\ \E f \in Filters : reader' = [pc |-> "templates", f |-> f, segments |-> segments, mem |-> mem]
  /\ UNCHANGED <<templates, known, mem, segments, rollups, written, faults>>

SearchLoadsTemplates ==
  /\ reader # None /\ reader.pc = "templates"
  /\ known' = Loaded
  /\ reader' = [pc |-> "scan", f |-> reader.f, segments |-> reader.segments, mem |-> reader.mem,
                tmpls |-> Loaded]
  /\ UNCHANGED <<templates, mem, segments, rollups, written, faults>>

\* The newest Limit, of two at one time the one with the greater id.
Cut(rows) ==
  {r \in rows : Cardinality({o \in rows : Before(<<r.ts, r.id>>, <<o.ts, o.id>>)}) < Limit}

Candidates == {s \in reader.segments : Candidate(s, reader.f)}
Found ==
  Cut((UNION {{RowAt(s, i) : i \in Scan(s, reader.f, reader.tmpls)} : s \in Candidates})
        \cup MemMatches(reader.mem, reader.f))

\* The ids and bodies of the answer, unless the search fails.
Answer == {<<r.id, RowToLog(r)>> : r \in Found}
SearchFails ==
  \/ \E s \in Candidates : ScanFails(s, reader.f, reader.tmpls)
  \/ \E r \in ToSet(reader.mem) : Admits(reader.f, r.ts, r.svc) /\ reader.f.q # <<>> /\ ~Readable(r)
  \/ \E r \in Found : ~Readable(r)

\* The search gives its Answer.
SearchScans ==
  /\ reader # None /\ reader.pc = "scan" /\ reader' = None
  /\ UNCHANGED <<templates, known, mem, segments, rollups, written, faults>>

-----------------------------------------------------------------------------
(* Aggregate, by service and by hour *)

\* Mutant: the memtable is cut at the bounds as they were given.
GivenBounds(w, ts) == (w.since # None => w.since <= ts) /\ (w.until # None => ts <= w.until)

\* Whether a time of the memtable is in the window, widened to whole hours.
InBounds(w, ts) ==
  /\ w.since # None => Hour(w.since) * HourLen <= ts
  /\ w.until # None => ts <= (Hour(w.until) + 1) * HourLen - 1

InHours(w, h) == (w.since # None => Hour(w.since) <= h) /\ (w.until # None => h <= Hour(w.until))

\* RollupAggregate: a sum over the hours of the window.
RollupCount(w, by, key) ==
  Cardinality(UNION {{k} \X (1..rollups[k]) : k \in {c \in Counted : c[by] = key /\ InHours(w, c.hour)}})

Aggregate(w, by, key) ==
  RollupCount(w, by, key)
    + Cardinality({i \in DOMAIN mem : InBounds(w, mem[i].ts) /\ RollupKey(mem[i])[by] = key})

-----------------------------------------------------------------------------
Writes ==
  Len(written) < MaxRows
    /\ \E l \in Inputs : WriteRaw(l) \/ WriteMatched(l) \/ WriteMints(l) \/ WriteFails(l)

Next ==
  \/ Writes \/ Flush \/ Compact \/ Damage \/ Restart
  \/ SearchSnapshots \/ SearchLoadsTemplates \/ SearchScans

Spec == Init /\ [][Next]_vars

-----------------------------------------------------------------------------
(* Properties *)

\* template.go: "any previously returned (id, vars) pair reconstructs
\* forever": every row of the memtable and of a segment that is whole reads
\* back as the body it was written with, through later templates, failed
\* inserts, flushes, compactions and restarts.
BodiesExact ==
  \A r \in ToSet(mem) \cup UNION {RowsOf(s) : s \in Intact} : Readable(r) /\ RowToLog(r) = written[r.id].body

\* The newest Limit rows whose body has the text.
Wanted(f, segs, rows) ==
  Cut({r \in (UNION {RowsOf(s) : s \in segs}) \cup ToSet(rows) :
     Admits(f, r.ts, r.svc) /\ (f.q = <<>> \/ HasText(Text(written[r.id].body), f.q))})

\* SearchLogs: a search by text, service and time answers with exactly the
\* newest Limit rows of its snapshot whose body has the text, though it reads
\* columns, dictionary references and template texts instead of bodies, cuts
\* every chunk, and takes the templates later than the rows; it fails only
\* over a damaged segment.
SearchExact ==
  reader # None /\ reader.pc = "scan" =>
    IF SearchFails THEN \E s \in reader.segments : s.damaged # None
    ELSE Answer = {<<r.id, written[r.id].body>> : r \in Wanted(reader.f, reader.segments, reader.mem)}

\* aggregateBoundsMicros: asked between flushes, Aggregate counts for every
\* service and hour each row written into the hours of its window once,
\* whether it is still in the memtable, flushed, or compacted since.
AggregateExact ==
  \A w \in Windows, by \in {"svc", "hour"} : \A key \in {k[by] : k \in Counted} :
    Aggregate(w, by, key)
      = Cardinality({id \in DOMAIN written : RollupKey(written[id])[by] = key
                                               /\ InHours(w, Hour(written[id].ts))})
=============================================================================
