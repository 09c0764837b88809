----------------------------- MODULE StoreProofs -----------------------------
(***************************************************************************)
(* The log store, whatever the projects, hours, batch sizes, thresholds    *)
(* and faults.  First the types and the lock discipline, from Inv.  TypeOK *)
(* needs LockHeld: that a step which unlocks p leaves no flush of p behind *)
(* is a fact about who holds ps.mu, and LockHeld needs the types.  TypeOK  *)
(* also needs that the sets of rows the code counts are finite: rollups    *)
(* and manifest ids are sums of such counts.                               *)
(*                                                                         *)
(* Then the segments, from SegInv: their names and manifest ids are used   *)
(* once, a file the manifest lists is there with the listed rows, and a    *)
(* merge holds its members' rows in fewer, ordered segments.  Its subject  *)
(* is the entries whose files somebody relies on: those the manifest       *)
(* lists, those a merge was planned from and the one a prune has in hand.  *)
(*                                                                         *)
(* Then the rows: an id names one row, no row is served twice, a synced    *)
(* row is served until a prune removes it, a pruned one never comes back,  *)
(* the hourly counts are exact, and all of it is a ledger's behaviour.     *)
(* Each invariant is on top of SegInv and those before it: RefInv,         *)
(* BatchInv and DupInv, whatever fails; DurInv where no crash tears a WAL  *)
(* record; LogInv (LogOK) and DueInv where every WAL is written and reset  *)
(* (CleanLog); FreshInv and CountInv whatever fails, of a project no       *)
(* WAL.Reset failed of and no start took pruned rows back of; LineInv      *)
(* where every WAL is reset and no sync fails, and with it the ledger that *)
(* LogLedger promises.                                                     *)
(***************************************************************************)
EXTENDS LogStore, FiniteSetTheorems, TLAPS

FiniteFiles(fs) == IsFiniteSet(fs) /\ \A f \in fs : IsFiniteSet(f.rows)

FiniteRows ==
  /\ \A p \in Projects : /\ IsFiniteSet(wal[p]) /\ IsFiniteSet(walBuf[p])
                         /\ IsFiniteSet(mem[p]) /\ IsFiniteSet(writer.batch[p])
                         /\ FiniteFiles(files[p])
  /\ IsFiniteSet(compact.new)

Inv == TypeOK /\ LockHeld /\ FiniteRows

USE DEF walVars, segVars, metaVars, lockVars, idVars, history, ghosts

-----------------------------------------------------------------------------
(* Finite sets, shards and files *)

\* The image of a finite set under a function is finite.
LEMMA ImageFinite ==
  ASSUME NEW S, IsFiniteSet(S), NEW f PROVE IsFiniteSet({f[x] : x \in S})
  <1> DEFINE T == {f[x] : x \in S}
             g == [x \in S |-> f[x]]
  <1>1. g \in Surjection(S, T) BY DEF Surjection
  <1>2. QED BY <1>1, FS_Surjection

\* ceil(n / d) of positive numbers is positive.
LEMMA CeilPositive ==
  ASSUME NEW n \in Nat \ {0}, NEW d \in Nat \ {0} PROVE (n + d - 1) \div d \in Nat \ {0}
  OBVIOUS

\* buildMergedSegments puts at least one row in a shard.
LEMMA PerShardPositive ==
  ASSUME NEW n \in Nat \ {0} PROVE PerShard(n) \in Nat \ {0}
  BY CeilPositive, ConstantsAssumption DEF PerShard, ShardCount

\* Division by a positive number stays in Nat.
LEMMA DivNat == ASSUME NEW n \in Nat, NEW d \in Nat \ {0} PROVE n \div d \in Nat
  OBVIOUS

\* Every merged row has a shard index.
LEMMA ShardNat == ASSUME NEW rows, IsFiniteSet(rows), NEW r \in rows PROVE ShardOf(r,
     rows) \in Nat
  <1>1. Cardinality(rows) \in Nat \ {0} BY FS_CardinalityType, FS_EmptySet
  <1>2. Rank(r, rows) \in Nat
     <2>1. IsFiniteSet({q \in rows : RowLess(q, r)}) BY FS_Subset
     <2>2. QED BY <2>1, FS_CardinalityType DEF Rank
  <1>3. QED BY <1>1, <1>2, PerShardPositive, DivNat DEF ShardOf

\* Writing a segment keeps the files typed and finite.
LEMMA PutFile ==
  ASSUME NEW fs \in SUBSET File, NEW path \in Path, NEW rows \in SUBSET Row
  PROVE  /\ Put(fs, path, rows) \in SUBSET File
         /\ FiniteFiles(fs) /\ IsFiniteSet(rows) => FiniteFiles(Put(fs, path, rows))
  <1>1. Put(fs, path, rows) \in SUBSET File BY DEF Put, File
  <1>2. ASSUME FiniteFiles(fs), IsFiniteSet(rows) PROVE FiniteFiles(Put(fs, path, rows))
    <2> DEFINE kept == {f \in fs : f.path # path}
    <2>1. IsFiniteSet(kept) BY <1>2, FS_Subset DEF FiniteFiles
    <2>2. IsFiniteSet(kept \cup {[path |-> path, rows |-> rows]}) BY <2>1, FS_AddElement
    <2>3. QED BY <1>2, <2>2 DEF FiniteFiles, Put
  <1>3. QED BY <1>1, <1>2

\* So does removing some,
LEMMA WithoutFiles ==
  ASSUME NEW fs, NEW paths
  PROVE  /\ Without(fs, paths) \subseteq fs
         /\ FiniteFiles(fs) => FiniteFiles(Without(fs, paths))
  BY FS_Subset DEF Without, FiniteFiles

\* and writing the shards of a merge.
LEMMA MergeFiles ==
  ASSUME NEW fs \in SUBSET File, NEW new \in SUBSET File, NEW paths
  PROVE  /\ Without(fs, paths) \cup new \in SUBSET File
         /\ FiniteFiles(fs) /\ FiniteFiles(new) => FiniteFiles(Without(fs, paths) \cup new)
  BY WithoutFiles, FS_Union DEF FiniteFiles

\* The name of a rewritten segment is a segment name.
LEMMA PrunedPathType == ASSUME NEW path \in Path PROVE PrunedPath(path) \in Path
  BY DEF PrunedPath, Path

\* So is the name of a flushed one.
LEMMA FlushPathType == ASSUME NEW n \in Nat, NEW first \in Nat PROVE FlushPath(n,
     first) \in Path
  BY DEF FlushPath, Path

\* flushProject's first step, whoever calls it, keeps the files typed and finite.
LEMMA WriteSegmentSafe ==
  ASSUME Inv, NEW p \in Projects, NEW who, WriteSegment(p, who)
  PROVE  /\ files' \in [Projects -> SUBSET File]
         /\ \A q \in Projects : FiniteFiles(files'[q])
  <1> USE DEF Inv, TypeOK
  <1>1. PICK r \in mem[p] : files' = [files EXCEPT ![p] =
                                       Put(@, FlushPath(seq[p] + 1, r.id), mem[p])]
    BY DEF WriteSegment
  <1>2. FlushPath(seq[p] + 1, r.id) \in Path
    BY FlushPathType DEF WalTypes, Row, ProcessTypes
  <1>3. QED BY <1>1, <1>2, PutFile DEF SegTypes, WalTypes, FiniteRows

\* What a restart would serve is a set of rows.
LEMMA ReadableType == ASSUME Inv, NEW p \in Projects PROVE Readable(p) \subseteq Row
  BY DEF Inv, TypeOK, Readable, Kept, FileRows, File, SegTypes, WalTypes

\* bucketSegments returns buckets.
LEMMA BucketsType ==
  ASSUME Inv, NEW p \in Projects, NEW now PROVE BucketsOf(p, now) \subseteq Bucket
  <1>1. ASSUME NEW h \in Hours PROVE BucketKey(h, now) \in Key
    BY ConstantsAssumption DEF BucketKey, HourKey, Day, Key
  <1>2. QED BY <1>1 DEF BucketsOf, Bucket, Inv, TypeOK, SegTypes

\* buildMergedSegments returns a finite set of segment files.
LEMMA MergedType ==
  ASSUME Inv, NEW b \in compact.plan, NEW new \in Merged(b)
  PROVE  new \in SUBSET File /\ FiniteFiles(new)
  <1> USE DEF Inv, TypeOK
  <1> DEFINE rows == BucketRows(b)
  <1>1. b \in Bucket BY DEF CompactTypes
  <1>2. rows \subseteq Row /\ IsFiniteSet(rows)
    <2> DEFINE S == {f \in files[b.proj] : f.path \in SegmentPaths(b.members)}
               g == [f \in S |-> f.rows]
    <2>1. IsFiniteSet(S) /\ \A f \in S : IsFiniteSet(f.rows)
      BY <1>1, FS_Subset DEF Bucket, FiniteRows, FiniteFiles
    <2>2. IsFiniteSet({g[f] : f \in S}) BY <2>1, ImageFinite
    <2>3. IsFiniteSet(UNION {g[f] : f \in S}) BY <2>1, <2>2, FS_UNION
    <2>4. rows = UNION {g[f] : f \in S} BY DEF BucketRows, FileRows
    <2>5. rows \subseteq Row BY <1>1 DEF BucketRows, FileRows, Bucket, SegTypes, File
    <2>6. QED BY <2>3, <2>4, <2>5
  <1>3. PICK first \in {r.id : r \in rows}, member \in {e.mid : e \in b.members} :
          new = ShardFiles(b.key, first, member, rows)
    BY DEF Merged
  <1>4. first \in Nat /\ member \in Nat /\ b.key \in Key
    BY <1>1, <1>2, <1>3 DEF Row, Bucket, Entry
  <1> DEFINE shard(r) == {q \in rows : ShardOf(q, rows) = ShardOf(r, rows)}
             file == [r \in rows |-> [path |-> MergedPath(b.key, first, member, ShardOf(r,
                  rows)),
                                      rows |-> shard(r)]]
  <1>5. new = {file[r] : r \in rows} BY <1>3 DEF ShardFiles
  <1>6. ASSUME NEW r \in rows PROVE file[r] \in File /\ IsFiniteSet(file[r].rows)
    <2>1. MergedPath(b.key, first, member, ShardOf(r, rows)) \in Path
      BY <1>2, <1>4, ShardNat DEF MergedPath, Path
    <2>2. shard(r) \subseteq rows /\ IsFiniteSet(shard(r)) BY <1>2, FS_Subset
    <2>3. QED BY <1>2, <2>1, <2>2 DEF File
  <1> HIDE DEF file
  <1>7. IsFiniteSet({file[r] : r \in rows}) BY <1>2, ImageFinite
  <1>8. QED BY <1>5, <1>6, <1>7 DEF FiniteFiles

-----------------------------------------------------------------------------
(* One lemma per action: it preserves Inv. *)

\* WriteBatch preserves Inv.
LEMMA WriteBatchKeepsInv ==
  ASSUME Inv, NEW entries \in Submissions, WriteBatch(entries) PROVE Inv'
  <1> USE ConstantsAssumption
  <1>1. PICK n \in 1..BatchMax : entries \in [1..n -> Inputs] BY DEF Submissions
  <1>2. DOMAIN entries = 1..n BY <1>1
  <1>3. Cardinality(DOMAIN entries) \in Nat BY <1>2, FS_Interval, FS_CardinalityType
  <1>4. ASSUME NEW p \in Projects
        PROVE  BatchRows(entries, p) \subseteq Row /\ IsFiniteSet(BatchRows(entries, p))
    <2>1. BatchRows(entries, p) \subseteq Row
      BY <1>1, <1>2 DEF BatchRows, Row, Inv, TypeOK, ProcessTypes, HistoryTypes
    <2> DEFINE S == {j \in DOMAIN entries : entries[j].proj = p}
               row == [i \in S |-> [id |-> nextLogID + i, ts |-> entries[i].ts,
                                    body |-> born + i, ev |-> entries[i].ev]]
    <2>2. IsFiniteSet(S) BY <1>2, FS_Interval, FS_Subset
    <2>3. BatchRows(entries, p) = {row[i] : i \in S} BY DEF BatchRows
    <2> HIDE DEF row
    <2>4. IsFiniteSet({row[i] : i \in S}) BY <2>2, ImageFinite
    <2>5. QED BY <2>1, <2>3, <2>4
  <1>5. TypeOK'
    <2>1. WriterTypes' BY <1>1, <1>2, <1>4 DEF WriterTypes, WriteBatch
    <2>2. HistoryTypes' BY <1>3 DEF WriteBatch, Inv, TypeOK, HistoryTypes
    <2>3. ProcessTypes' BY <1>3 DEF WriteBatch, Inv, TypeOK, ProcessTypes
    <2>4. QED BY <2>1, <2>2, <2>3 DEF WriteBatch, Inv, TypeOK, WalTypes, SegTypes, MetaTypes,
                                      PruneTypes, CompactTypes
  <1>6. LockHeld' BY DEF WriteBatch, Inv, LockHeld, HolderAtWork, WorkerHolds, TypeOK,
                         ProcessTypes
  <1>7. FiniteRows' BY <1>4 DEF WriteBatch, Inv, FiniteRows
  <1>8. QED BY <1>5, <1>6, <1>7 DEF Inv

\* ExtractFails preserves Inv.
LEMMA ExtractFailsKeepsInv ==
  ASSUME Inv, NEW k \in 1..BatchMax, ExtractFails(k) PROVE Inv'
  <1> USE ConstantsAssumption DEF Inv, TypeOK
  <1>1. TypeOK'
    BY DEF ExtractFails, Inject, WalTypes, SegTypes, MetaTypes, ProcessTypes, WriterTypes,
           PruneTypes, CompactTypes, HistoryTypes
  <1>2. LockHeld'
    BY DEF ExtractFails, Inject, LockHeld, HolderAtWork, WorkerHolds, ProcessTypes,
           PruneTypes, CompactTypes, Bucket
  <1>3. FiniteRows'
    BY FS_EmptySet DEF ExtractFails, Inject, FiniteRows, WalTypes, WriterTypes, SegTypes
  <1>4. QED BY <1>1, <1>2, <1>3

\* WalAppend preserves Inv.
LEMMA WalAppendKeepsInv ==
  ASSUME Inv, NEW p \in Projects, WalAppend(p) PROVE Inv'
  <1> USE ConstantsAssumption DEF Inv, TypeOK
  <1>1. TypeOK'
    BY DEF WalAppend, WalTypes, SegTypes, MetaTypes, ProcessTypes, WriterTypes, PruneTypes,
           CompactTypes, HistoryTypes
  <1>2. LockHeld'
    BY DEF WalAppend, LockHeld, HolderAtWork, WorkerHolds, ProcessTypes, PruneTypes,
           CompactTypes, Bucket
  <1>3. FiniteRows'
    <2>1. IsFiniteSet(walBuf[p] \cup writer.batch[p])
      BY FS_Union DEF FiniteRows
    <2>2. QED BY <2>1, FS_EmptySet DEF WalAppend, FiniteRows, WalTypes, WriterTypes
  <1>4. QED BY <1>1, <1>2, <1>3

\* WalAppendFails preserves Inv.
LEMMA WalAppendFailsKeepsInv ==
  ASSUME Inv, NEW p \in Projects, WalAppendFails(p) PROVE Inv'
  <1> USE ConstantsAssumption DEF Inv, TypeOK
  <1>1. TypeOK'
    BY DEF WalAppendFails, IdleWriter, NoRows, WalTypes, SegTypes, MetaTypes, ProcessTypes,
           WriterTypes, PruneTypes, CompactTypes, HistoryTypes
  <1>2. LockHeld'
    BY DEF WalAppendFails, IdleWriter, NoRows, LockHeld, HolderAtWork, WorkerHolds,
           ProcessTypes, PruneTypes, CompactTypes, Bucket
  <1>3. FiniteRows'
    BY FS_EmptySet DEF WalAppendFails, IdleWriter, NoRows, FiniteRows, WalTypes, WriterTypes,
                       SegTypes
  <1>4. QED BY <1>1, <1>2, <1>3

\* WalSync preserves Inv.
LEMMA WalSyncKeepsInv ==
  ASSUME Inv, NEW p \in Projects, WalSync(p) PROVE Inv'
  <1> USE ConstantsAssumption DEF Inv, TypeOK
  <1>1. TypeOK'
    <2>1. ProcessTypes'
      BY DEF WalSync, ProcessTypes, LockHeld, HolderAtWork
    <2>2. WalTypes' /\ HistoryTypes'
      BY DEF WalSync, WalTypes, HistoryTypes, WriterTypes
    <2>3. WriterTypes'
      BY DEF WalSync, WriterTypes
    <2>4. QED BY <2>1, <2>2, <2>3 DEF WalSync, SegTypes, MetaTypes, PruneTypes, CompactTypes
  <1>2. LockHeld'
    BY DEF WalSync, LockHeld, HolderAtWork, WorkerHolds, ProcessTypes, PruneTypes,
           CompactTypes, Bucket
  <1>3. FiniteRows'
    <2>1. IsFiniteSet(wal[p] \cup walBuf[p]) /\ IsFiniteSet(mem[p] \cup writer.batch[p])
      BY FS_Union DEF FiniteRows
    <2>2. QED BY <2>1, FS_EmptySet DEF WalSync, FiniteRows, WalTypes, WriterTypes
  <1>4. QED BY <1>1, <1>2, <1>3

\* WalSyncFails preserves Inv.
LEMMA WalSyncFailsKeepsInv ==
  ASSUME Inv, NEW p \in Projects, WalSyncFails(p) PROVE Inv'
  <1> USE ConstantsAssumption DEF Inv, TypeOK
  <1>1. TypeOK'
    <2>1. ProcessTypes'
      BY DEF WalSyncFails, ProcessTypes, LockHeld, HolderAtWork
    <2>2. WriterTypes' /\ HistoryTypes'
      BY DEF WalSyncFails, Inject, IdleWriter, NoRows, WriterTypes, HistoryTypes
    <2>3. QED BY <2>1, <2>2 DEF WalSyncFails, Inject, WalTypes, SegTypes, MetaTypes,
                                PruneTypes, CompactTypes
  <1>2. LockHeld'
    BY DEF WalSyncFails, Inject, IdleWriter, NoRows, LockHeld, HolderAtWork, WorkerHolds,
           ProcessTypes, PruneTypes, CompactTypes, Bucket
  <1>3. FiniteRows'
    BY FS_EmptySet DEF WalSyncFails, Inject, IdleWriter, NoRows, FiniteRows, WalTypes,
                       WriterTypes, SegTypes
  <1>4. QED BY <1>1, <1>2, <1>3

\* WalWriteFails preserves Inv.
LEMMA WalWriteFailsKeepsInv ==
  ASSUME Inv, NEW p \in Projects, WalWriteFails(p) PROVE Inv'
  <1> USE ConstantsAssumption DEF Inv, TypeOK
  <1>1. TypeOK'
    <2>1. ProcessTypes'
      BY DEF WalWriteFails, ProcessTypes, LockHeld, HolderAtWork
    <2>2. WriterTypes' /\ HistoryTypes'
      BY DEF WalWriteFails, Inject, IdleWriter, NoRows, WriterTypes, HistoryTypes
    <2>3. WalTypes'
      BY DEF WalWriteFails, Prefix, WalTypes
    <2>4. QED BY <2>1, <2>2, <2>3 DEF WalWriteFails, Inject, SegTypes, MetaTypes, PruneTypes,
                                      CompactTypes
  <1>2. LockHeld'
    BY DEF WalWriteFails, Inject, IdleWriter, NoRows, Prefix, LockHeld, HolderAtWork,
           WorkerHolds, ProcessTypes, PruneTypes, CompactTypes, Bucket
  <1>3. FiniteRows'
    <2>1. \A n : IsFiniteSet(wal[p] \cup Prefix(p, n))
      <3> TAKE n
      <3>1. IsFiniteSet(Prefix(p, n)) BY FS_Subset DEF Prefix, FiniteRows
      <3>2. QED BY <3>1, FS_Union DEF FiniteRows
    <2>2. PICK n \in 0..nextLogID :
            wal' = [wal EXCEPT ![p] = IF torn[p] THEN @ ELSE @ \cup Prefix(p, n)]
      BY DEF WalWriteFails
    <2>3. \A q \in Projects : IsFiniteSet(wal'[q]) BY <2>1, <2>2 DEF FiniteRows, WalTypes
    <2>4. QED BY <2>3, FS_EmptySet DEF WalWriteFails, IdleWriter, NoRows, FiniteRows, WalTypes
  <1>4. QED BY <1>1, <1>2, <1>3

\* UpsertIssues preserves Inv.
LEMMA UpsertIssuesKeepsInv ==
  ASSUME Inv, UpsertIssues PROVE Inv'
  <1> USE ConstantsAssumption DEF Inv, TypeOK
  <1>1. TypeOK'
    <2>1. MetaTypes'
      <3>1. ASSUME NEW p \in Projects
           PROVE  Newest(events[p] \cup { [log |-> r.id, ts |-> r.ts, body |-> r.body]
                                            : r \in {q \in writer.batch[p] : q.ev} })
                    \subseteq Ref
        BY DEF Newest, MetaTypes, WriterTypes, Row, Ref
      <3>2. QED BY <3>1 DEF UpsertIssues, MetaTypes
    <2>2. WriterTypes'
      BY DEF UpsertIssues, WriterTypes
    <2>3. QED BY <2>1, <2>2 DEF UpsertIssues, WalTypes, SegTypes, ProcessTypes, PruneTypes,
                                CompactTypes, HistoryTypes
  <1>2. LockHeld'
    BY DEF UpsertIssues, Newest, Row, Ref, LockHeld, HolderAtWork, WorkerHolds, ProcessTypes,
           PruneTypes, CompactTypes, Bucket
  <1>3. FiniteRows'
    BY FS_EmptySet DEF UpsertIssues, Newest, Row, Ref, FiniteRows, WalTypes, WriterTypes,
                       SegTypes
  <1>4. QED BY <1>1, <1>2, <1>3

\* UpsertIssuesFails preserves Inv.
LEMMA UpsertIssuesFailsKeepsInv ==
  ASSUME Inv, UpsertIssuesFails PROVE Inv'
  <1> USE ConstantsAssumption DEF Inv, TypeOK
  <1>1. TypeOK'
    BY DEF UpsertIssuesFails, Inject, IdleWriter, NoRows, WalTypes, SegTypes, MetaTypes,
           ProcessTypes, WriterTypes, PruneTypes, CompactTypes, HistoryTypes
  <1>2. LockHeld'
    BY DEF UpsertIssuesFails, Inject, IdleWriter, NoRows, LockHeld, HolderAtWork, WorkerHolds,
           ProcessTypes, PruneTypes, CompactTypes, Bucket
  <1>3. FiniteRows'
    BY FS_EmptySet DEF UpsertIssuesFails, Inject, IdleWriter, NoRows, FiniteRows, WalTypes,
                       WriterTypes, SegTypes
  <1>4. QED BY <1>1, <1>2, <1>3

\* ThresholdFlush preserves Inv.
LEMMA ThresholdFlushKeepsInv ==
  ASSUME Inv, NEW p \in Projects, ThresholdFlush(p) PROVE Inv'
  <1> USE ConstantsAssumption DEF Inv, TypeOK
  <1>1. TypeOK'
    <2>1. SegTypes'
      BY WriteSegmentSafe DEF ThresholdFlush, SegTypes
    <2>2. ProcessTypes'
      BY DEF ThresholdFlush, WriteSegment, ProcessTypes
    <2>3. WriterTypes'
      BY DEF ThresholdFlush, WriterTypes
    <2>4. QED BY <2>1, <2>2, <2>3 DEF ThresholdFlush, WriteSegment, WalTypes, MetaTypes,
                                      PruneTypes, CompactTypes, HistoryTypes
  <1>2. LockHeld'
    BY DEF ThresholdFlush, WriteSegment, FlushPath, Put, Path, File, Row, LockHeld,
           HolderAtWork, WorkerHolds, ProcessTypes, PruneTypes, CompactTypes, Bucket
  <1>3. FiniteRows'
    BY WriteSegmentSafe DEF ThresholdFlush, FiniteRows, SegTypes
  <1>4. QED BY <1>1, <1>2, <1>3

\* BatchReturns preserves Inv.
LEMMA BatchReturnsKeepsInv ==
  ASSUME Inv, BatchReturns PROVE Inv'
  <1> USE ConstantsAssumption DEF Inv, TypeOK
  <1>1. TypeOK'
    BY DEF BatchReturns, IdleWriter, NoRows, WalTypes, SegTypes, MetaTypes, ProcessTypes,
           WriterTypes, PruneTypes, CompactTypes, HistoryTypes
  <1>2. LockHeld'
    BY DEF BatchReturns, IdleWriter, NoRows, LockHeld, HolderAtWork, WorkerHolds,
           ProcessTypes, PruneTypes, CompactTypes, Bucket
  <1>3. FiniteRows'
    BY FS_EmptySet DEF BatchReturns, IdleWriter, NoRows, FiniteRows, WalTypes, WriterTypes,
                       SegTypes
  <1>4. QED BY <1>1, <1>2, <1>3

\* TickerFlush preserves Inv.
LEMMA TickerFlushKeepsInv ==
  ASSUME Inv, NEW p \in Projects, TickerFlush(p) PROVE Inv'
  <1> USE ConstantsAssumption DEF Inv, TypeOK
  <1>1. TypeOK'
    <2>1. SegTypes'
      BY WriteSegmentSafe DEF TickerFlush, SegTypes
    <2>2. ProcessTypes'
      BY DEF TickerFlush, WriteSegment, ProcessTypes
    <2>3. QED BY <2>1, <2>2 DEF TickerFlush, WriteSegment, WalTypes, MetaTypes, WriterTypes,
                                PruneTypes, CompactTypes, HistoryTypes
  <1>2. LockHeld'
    BY DEF TickerFlush, WriteSegment, FlushPath, Put, Path, File, Row, LockHeld, HolderAtWork,
           WorkerHolds, ProcessTypes, PruneTypes, CompactTypes, Bucket
  <1>3. FiniteRows'
    BY WriteSegmentSafe DEF TickerFlush, FiniteRows, SegTypes
  <1>4. QED BY <1>1, <1>2, <1>3

\* InsertSegment preserves Inv.
LEMMA InsertSegmentKeepsInv ==
  ASSUME Inv, NEW p \in Projects, InsertSegment(p) PROVE Inv'
  <1> USE ConstantsAssumption DEF Inv, TypeOK
  <1>1. TypeOK'
    BY DEF InsertSegment, FlushPath, Path, Entry, Row, WalTypes, SegTypes, MetaTypes,
           ProcessTypes, WriterTypes, PruneTypes, CompactTypes, HistoryTypes
  <1>2. LockHeld'
    BY DEF InsertSegment, FlushPath, Path, Entry, Row, LockHeld, HolderAtWork, WorkerHolds,
           ProcessTypes, PruneTypes, CompactTypes, Bucket
  <1>3. FiniteRows'
    BY FS_EmptySet DEF InsertSegment, FlushPath, Path, Entry, Row, FiniteRows, WalTypes,
                       WriterTypes, SegTypes
  <1>4. QED BY <1>1, <1>2, <1>3

\* SegmentFails preserves Inv.
LEMMA SegmentFailsKeepsInv ==
  ASSUME Inv, NEW p \in Projects, SegmentFails(p) PROVE Inv'
  <1> USE ConstantsAssumption DEF Inv, TypeOK
  <1>1. TypeOK'
    <2>1. SegTypes'
      BY WithoutFiles DEF SegmentFails, SegTypes
    <2>2. ProcessTypes' /\ PruneTypes'
      BY DEF SegmentFails, EndFlush, IdlePrune, ProcessTypes, PruneTypes
    <2>3. HistoryTypes'
      BY DEF SegmentFails, Inject, HistoryTypes
    <2>4. QED BY <2>1, <2>2, <2>3 DEF SegmentFails, Inject, EndFlush, WalTypes, MetaTypes,
                                      WriterTypes, CompactTypes
  <1>2. LockHeld'
    BY DEF SegmentFails, Inject, EndFlush, IdlePrune, Without, LockHeld, HolderAtWork,
           WorkerHolds, ProcessTypes, PruneTypes, CompactTypes, Bucket
  <1>3. FiniteRows'
    BY WithoutFiles DEF SegmentFails, FiniteRows, SegTypes
  <1>4. QED BY <1>1, <1>2, <1>3

\* AddRollups preserves Inv.
LEMMA AddRollupsKeepsInv ==
  ASSUME Inv, NEW p \in Projects, AddRollups(p) PROVE Inv'
  <1> USE ConstantsAssumption DEF Inv, TypeOK
  <1>1. TypeOK'
    <2>1. MetaTypes'
      <3>1. RolledUp(p) \in [Hours -> Nat]
        <4>1. ASSUME NEW h \in Hours PROVE Cardinality({r \in mem[p] : r.ts = h}) \in Nat
          <5>1. IsFiniteSet({r \in mem[p] : r.ts = h}) BY FS_Subset DEF FiniteRows
          <5>2. QED BY <5>1, FS_CardinalityType
        <4>2. QED BY <4>1 DEF RolledUp, MetaTypes
      <3>2. QED BY <3>1 DEF AddRollups, MetaTypes
    <2>2. ProcessTypes'
      BY DEF AddRollups, ProcessTypes
    <2>3. HistoryTypes'
      <3>1. mem[p] \subseteq Row BY DEF WalTypes
      <3>2. uncounted' = uncounted \/ uncounted' = [uncounted EXCEPT ![p] = @ \cup mem[p]]
        BY DEF AddRollups
      <3>3. uncounted' \in [Projects -> SUBSET Row] BY <3>1, <3>2 DEF HistoryTypes
      <3>4. injected' \in Nat BY DEF AddRollups, Inject, HistoryTypes
      <3>5. QED BY <3>3, <3>4 DEF AddRollups, HistoryTypes
    <2>4. QED BY <2>1, <2>2, <2>3 DEF AddRollups, Inject, WalTypes, SegTypes, WriterTypes,
                                      PruneTypes, CompactTypes
  <1>2. LockHeld'
    BY DEF AddRollups, Inject, RolledUp, LockHeld, HolderAtWork, WorkerHolds, ProcessTypes,
           PruneTypes, CompactTypes, Bucket
  <1>3. FiniteRows'
    BY FS_EmptySet DEF AddRollups, Inject, RolledUp, FiniteRows, WalTypes, WriterTypes, SegTypes
  <1>4. QED BY <1>1, <1>2, <1>3

\* ResetWAL preserves Inv.
LEMMA ResetWALKeepsInv ==
  ASSUME Inv, NEW p \in Projects, ResetWAL(p) PROVE Inv'
  <1> USE ConstantsAssumption DEF Inv, TypeOK
  <1>1. TypeOK'
    <2>1. ProcessTypes' /\ PruneTypes'
      BY DEF ResetWAL, EndFlush, IdlePrune, ProcessTypes, PruneTypes,
             LockHeld, HolderAtWork
    <2>2. WalTypes'
      BY DEF ResetWAL, WalTypes
    <2>3. QED BY <2>1, <2>2 DEF ResetWAL, EndFlush, SegTypes, MetaTypes, WriterTypes,
                                CompactTypes, HistoryTypes
  <1>2. LockHeld'
    BY DEF ResetWAL, EndFlush, IdlePrune, LockHeld, HolderAtWork, WorkerHolds, ProcessTypes,
           PruneTypes, CompactTypes, Bucket
  <1>3. FiniteRows'
    BY FS_EmptySet DEF ResetWAL, EndFlush, IdlePrune, FiniteRows, WalTypes, WriterTypes,
                       SegTypes
  <1>4. QED BY <1>1, <1>2, <1>3

\* ResetWALFails preserves Inv.
LEMMA ResetWALFailsKeepsInv ==
  ASSUME Inv, NEW p \in Projects, ResetWALFails(p) PROVE Inv'
  <1> USE ConstantsAssumption DEF Inv, TypeOK
  <1>1. TypeOK'
    <2>1. ProcessTypes' /\ PruneTypes'
      BY DEF ResetWALFails, EndFlush, IdlePrune, ProcessTypes, PruneTypes
    <2>2. WalTypes'
      BY DEF ResetWALFails, WalTypes
    <2>3. HistoryTypes'
      BY DEF ResetWALFails, Inject, HistoryTypes
    <2>4. QED BY <2>1, <2>2, <2>3 DEF ResetWALFails, Inject, EndFlush, SegTypes, MetaTypes,
                                      WriterTypes, CompactTypes
  <1>2. LockHeld'
    BY DEF ResetWALFails, Inject, EndFlush, IdlePrune, LockHeld, HolderAtWork, WorkerHolds,
           ProcessTypes, PruneTypes, CompactTypes, Bucket
  <1>3. FiniteRows'
    <2>1. IsFiniteSet(wal[p] \cup walBuf[p]) BY FS_Union DEF FiniteRows
    <2>2. \A q \in Projects : IsFiniteSet(wal'[q]) /\ IsFiniteSet(walBuf'[q])
      BY <2>1, FS_EmptySet DEF ResetWALFails, FiniteRows, WalTypes
    <2>3. QED BY <2>2 DEF ResetWALFails, FiniteRows
  <1>4. QED BY <1>1, <1>2, <1>3

\* PruneStart preserves Inv.
LEMMA PruneStartKeepsInv ==
  ASSUME Inv, NEW p \in Projects, NEW c \in Cutoffs, PruneStart(p, c) PROVE Inv'
  <1> USE ConstantsAssumption DEF Inv, TypeOK
  <1>1. TypeOK'
    <2>1. SegTypes'
      BY WriteSegmentSafe DEF PruneStart, SegTypes
    <2>2. ProcessTypes'
      BY DEF PruneStart, WriteSegment, ProcessTypes
    <2>3. PruneTypes'
      BY ReadableType DEF PruneStart, PruneBegins, Older, PruneTypes
    <2>4. QED BY <2>1, <2>2, <2>3 DEF PruneStart, WriteSegment, PruneBegins, WalTypes,
                                      MetaTypes, WriterTypes, CompactTypes, HistoryTypes
  <1>2. LockHeld'
    BY DEF PruneStart, WriteSegment, PruneBegins, FlushPath, Put, Path, File, Row, Older,
           LockHeld, HolderAtWork, WorkerHolds, ProcessTypes, PruneTypes, CompactTypes, Bucket
  <1>3. FiniteRows'
    BY WriteSegmentSafe DEF PruneStart, FiniteRows, SegTypes
  <1>4. QED BY <1>1, <1>2, <1>3

\* PruneLock preserves Inv.
LEMMA PruneLockKeepsInv ==
  ASSUME Inv, NEW p \in Projects, PruneLock(p) PROVE Inv'
  <1> USE ConstantsAssumption DEF Inv, TypeOK
  <1>1. TypeOK'
    BY DEF PruneLock, WalTypes, SegTypes, MetaTypes, ProcessTypes, WriterTypes, PruneTypes,
           CompactTypes, HistoryTypes
  <1>2. LockHeld'
    BY DEF PruneLock, LockHeld, HolderAtWork, WorkerHolds, ProcessTypes, PruneTypes,
           CompactTypes, Bucket
  <1>3. FiniteRows'
    BY FS_EmptySet DEF PruneLock, FiniteRows, WalTypes, WriterTypes, SegTypes
  <1>4. QED BY <1>1, <1>2, <1>3

\* PruneDrop preserves Inv.
LEMMA PruneDropKeepsInv ==
  ASSUME Inv, NEW p \in Projects, NEW e \in prune.todo, PruneDrop(p, e) PROVE Inv'
  <1> USE ConstantsAssumption DEF Inv, TypeOK
  <1>1. TypeOK'
    BY DEF PruneDrop, Entry, WalTypes, SegTypes, MetaTypes, ProcessTypes, WriterTypes,
           PruneTypes, CompactTypes, HistoryTypes
  <1>2. LockHeld'
    BY DEF PruneDrop, Entry, LockHeld, HolderAtWork, WorkerHolds, ProcessTypes, PruneTypes,
           CompactTypes, Bucket
  <1>3. FiniteRows'
    BY FS_EmptySet DEF PruneDrop, Entry, FiniteRows, WalTypes, WriterTypes, SegTypes
  <1>4. QED BY <1>1, <1>2, <1>3

\* PruneRewrite preserves Inv.
LEMMA PruneRewriteKeepsInv ==
  ASSUME Inv, NEW p \in Projects, NEW e \in prune.todo, PruneRewrite(p, e) PROVE Inv'
  <1> USE ConstantsAssumption DEF Inv, TypeOK
  <1>a. e \in Entry /\ PrunedPath(e.path) \in Path BY PrunedPathType DEF PruneTypes, Entry
  <1>b. PICK f \in files[p] :
          files' = [files EXCEPT ![p] = Put(@, PrunedPath(e.path),
                                            f.rows \ Older(f.rows, prune.cutoff))]
    BY DEF PruneRewrite
  <1>c. f.rows \ Older(f.rows, prune.cutoff) \in SUBSET Row BY <1>b DEF SegTypes, File
  <1>1. TypeOK'
    <2>1. SegTypes' BY <1>a, <1>b, <1>c, PutFile DEF PruneRewrite, SegTypes
    <2>2. PruneTypes'
      BY DEF PruneRewrite, PruneTypes
    <2>3. QED BY <2>1, <2>2 DEF PruneRewrite, WalTypes, MetaTypes, ProcessTypes, WriterTypes,
                                CompactTypes, HistoryTypes
  <1>2. LockHeld'
    BY DEF PruneRewrite, Entry, File, Put, PrunedPath, Path, LockHeld, HolderAtWork,
           WorkerHolds, ProcessTypes, PruneTypes, CompactTypes, Bucket
  <1>3. FiniteRows'
    <2>1. IsFiniteSet(f.rows \ Older(f.rows, prune.cutoff))
      BY <1>b, FS_Difference DEF FiniteRows, FiniteFiles
    <2>2. \A q \in Projects : FiniteFiles(files'[q])
      BY <1>a, <1>b, <1>c, <2>1, PutFile DEF FiniteRows, SegTypes
    <2>3. QED BY <2>2 DEF PruneRewrite, FiniteRows
  <1>4. QED BY <1>1, <1>2, <1>3

\* PruneSwap preserves Inv.
LEMMA PruneSwapKeepsInv ==
  ASSUME Inv, NEW p \in Projects, PruneSwap(p) PROVE Inv'
  <1> USE ConstantsAssumption DEF Inv, TypeOK
  <1>1. TypeOK'
    <2>1. SegTypes'
      <3>1. prune.cur \in Entry BY DEF PruneSwap, PruneTypes
      <3>2. [mid |-> nextMid + 1, path |-> PrunedPath(prune.cur.path),
             rows |-> prune.cur.rows \ Older(prune.cur.rows, prune.cutoff)] \in Entry
        BY <3>1, PrunedPathType DEF Entry, SegTypes
      <3>3. manifest' = [manifest EXCEPT ![p] = (@ \ {prune.cur}) \cup
              {[mid |-> nextMid + 1, path |-> PrunedPath(prune.cur.path),
                rows |-> prune.cur.rows \ Older(prune.cur.rows, prune.cutoff)]}]
        BY DEF PruneSwap
      <3>4. \A q \in Projects : manifest'[q] \subseteq Entry BY <3>2, <3>3 DEF SegTypes
      <3>5. QED BY <3>3, <3>4 DEF PruneSwap, SegTypes
    <2>2. HistoryTypes' /\ PruneTypes'
      BY DEF PruneSwap, Entry, Older, HistoryTypes, PruneTypes
    <2>3. QED BY <2>1, <2>2 DEF PruneSwap, WalTypes, MetaTypes, ProcessTypes, WriterTypes,
                                CompactTypes
  <1>2. LockHeld'
    BY DEF PruneSwap, Entry, File, PrunedPath, Path, Older, LockHeld, HolderAtWork,
           WorkerHolds, ProcessTypes, PruneTypes, CompactTypes, Bucket
  <1>3. FiniteRows'
    BY FS_EmptySet DEF PruneSwap, Entry, File, PrunedPath, Path, Older, FiniteRows, WalTypes,
                       WriterTypes, SegTypes
  <1>4. QED BY <1>1, <1>2, <1>3

\* PruneFails preserves Inv.
LEMMA PruneFailsKeepsInv ==
  ASSUME Inv, NEW p \in Projects, PruneFails(p) PROVE Inv'
  <1> USE ConstantsAssumption DEF Inv, TypeOK
  <1>1. TypeOK'
    <2>1. SegTypes'
      BY WithoutFiles DEF PruneFails, SegTypes
    <2>2. ProcessTypes'
      BY DEF PruneFails, ProcessTypes, PruneTypes, LockHeld, HolderAtWork, WorkerHolds
    <2>3. PruneTypes' /\ HistoryTypes'
      BY DEF PruneFails, Inject, IdlePrune, PruneTypes, HistoryTypes
    <2>4. QED BY <2>1, <2>2, <2>3 DEF PruneFails, Inject, WalTypes, MetaTypes, WriterTypes,
                                      CompactTypes
  <1>2. LockHeld'
    BY DEF PruneFails, Inject, IdlePrune, Without, LockHeld, HolderAtWork, WorkerHolds,
           ProcessTypes, PruneTypes, CompactTypes, Bucket
  <1>3. FiniteRows'
    BY WithoutFiles DEF PruneFails, FiniteRows, SegTypes
  <1>4. QED BY <1>1, <1>2, <1>3

\* PruneRemove preserves Inv.
LEMMA PruneRemoveKeepsInv ==
  ASSUME Inv, NEW p \in Projects, PruneRemove(p) PROVE Inv'
  <1> USE ConstantsAssumption DEF Inv, TypeOK
  <1>a. \/ /\ prune' = IdlePrune
           /\ mu' = [mu EXCEPT ![p] = "free"]
        \/ /\ prune' = [prune EXCEPT !.stage = "scan", !.cur = None]
           /\ mu' = mu
    BY DEF PruneRemove
  <1>b. prune.stage = "remove" /\ prune.proj = p BY DEF PruneRemove
  <1>1. TypeOK'
    <2>1. SegTypes'
      BY WithoutFiles DEF PruneRemove, SegTypes
    <2>2. ProcessTypes'
      BY DEF PruneRemove, ProcessTypes, PruneTypes, LockHeld, HolderAtWork, WorkerHolds
    <2>3. PruneTypes'
      <3>1. CASE prune' = IdlePrune BY <3>1 DEF IdlePrune, PruneTypes
      <3>2. CASE prune' = [prune EXCEPT !.stage = "scan", !.cur = None]
        BY <1>b, <3>2 DEF PruneTypes
      <3>3. QED BY <1>a, <3>1, <3>2
    <2>4. HistoryTypes' BY DEF PruneRemove, Inject, HistoryTypes
    <2>5. QED BY <2>1, <2>2, <2>3, <2>4 DEF PruneRemove, Inject, WalTypes, MetaTypes,
                                            WriterTypes, CompactTypes
  <1>2. LockHeld'
    <2>1. mu[p] = "pruner" /\ stage[p] = "none" BY DEF PruneRemove, LockHeld, HolderAtWork,
                                                       WorkerHolds, ProcessTypes, PruneTypes,
                                                            CompactTypes, Bucket
    <2>2. \/ prune' = IdlePrune /\ mu' = [mu EXCEPT ![p] = "free"]
          \/ prune'.stage = "scan" /\ prune'.proj = p /\ mu' = mu
      BY <1>a, <1>b DEF PruneTypes
    <2>3. stage' = stage /\ writer' = writer /\ compact' = compact BY DEF PruneRemove
    <2>4. \A q \in Projects : HolderAtWork(q)'
      BY <2>1, <2>2, <2>3 DEF IdlePrune, LockHeld, HolderAtWork, ProcessTypes
    <2>5. WorkerHolds'
      BY <2>1, <2>2, <2>3 DEF IdlePrune, LockHeld, WorkerHolds, ProcessTypes, CompactTypes,
                              Bucket
    <2>6. QED BY <2>2, <2>4, <2>5 DEF LockHeld, ProcessTypes
  <1>3. FiniteRows'
    BY WithoutFiles DEF PruneRemove, FiniteRows, SegTypes
  <1>4. QED BY <1>1, <1>2, <1>3

\* PruneUnlock preserves Inv.
LEMMA PruneUnlockKeepsInv ==
  ASSUME Inv, NEW p \in Projects, PruneUnlock(p) PROVE Inv'
  <1> USE ConstantsAssumption DEF Inv, TypeOK
  <1>1. TypeOK'
    <2>1. ProcessTypes'
      BY DEF PruneUnlock, ProcessTypes, PruneTypes, LockHeld, HolderAtWork, WorkerHolds
    <2>2. PruneTypes'
      BY DEF PruneUnlock, PruneTypes
    <2>3. QED BY <2>1, <2>2 DEF PruneUnlock, WalTypes, SegTypes, MetaTypes, WriterTypes,
                                CompactTypes, HistoryTypes
  <1>2. LockHeld'
    BY DEF PruneUnlock, LockHeld, HolderAtWork, WorkerHolds, ProcessTypes, PruneTypes,
           CompactTypes, Bucket
  <1>3. FiniteRows'
    BY FS_EmptySet DEF PruneUnlock, FiniteRows, WalTypes, WriterTypes, SegTypes
  <1>4. QED BY <1>1, <1>2, <1>3

\* PruneEvents preserves Inv.
LEMMA PruneEventsKeepsInv ==
  ASSUME Inv, NEW p \in Projects, PruneEvents(p) PROVE Inv'
  <1> USE ConstantsAssumption DEF Inv, TypeOK
  <1>1. TypeOK'
    <2>1. MetaTypes' /\ PruneTypes' BY DEF PruneEvents, IdlePrune, MetaTypes, PruneTypes
    <2>2. HistoryTypes' BY DEF PruneEvents, Inject, HistoryTypes
    <2>3. QED BY <2>1, <2>2 DEF PruneEvents, WalTypes, SegTypes, ProcessTypes, WriterTypes, CompactTypes
  <1>2. LockHeld'
    BY DEF PruneEvents, Inject, IdlePrune, LockHeld, HolderAtWork, WorkerHolds, ProcessTypes,
           PruneTypes, CompactTypes, Bucket
  <1>3. FiniteRows'
    BY FS_EmptySet DEF PruneEvents, Inject, IdlePrune, FiniteRows, WalTypes, WriterTypes,
                       SegTypes
  <1>4. QED BY <1>1, <1>2, <1>3

\* CompactPlan preserves Inv.
LEMMA CompactPlanKeepsInv ==
  ASSUME Inv, NEW now \in Clocks, CompactPlan(now) PROVE Inv'
  <1> USE ConstantsAssumption DEF Inv, TypeOK
  <1>1. TypeOK'
    <2>1. CompactTypes'
      BY BucketsType DEF CompactPlan, CompactTypes
    <2>2. QED BY <2>1 DEF CompactPlan, WalTypes, SegTypes, MetaTypes, ProcessTypes,
                          WriterTypes, PruneTypes, HistoryTypes
  <1>2. LockHeld'
    BY DEF CompactPlan, LockHeld, HolderAtWork, WorkerHolds, ProcessTypes, PruneTypes,
           CompactTypes, Bucket
  <1>3. FiniteRows'
    BY FS_EmptySet DEF CompactPlan, FiniteRows, WalTypes, WriterTypes, SegTypes
  <1>4. QED BY <1>1, <1>2, <1>3

\* CompactBuild preserves Inv.
LEMMA CompactBuildKeepsInv ==
  ASSUME Inv, NEW b \in compact.plan, CompactBuild(b) PROVE Inv'
  <1> USE ConstantsAssumption DEF Inv, TypeOK
  <1>a. PICK new \in Merged(b) :
          /\ files' = [files EXCEPT ![b.proj] = Without(@, SegmentPaths(new)) \cup new]
          /\ compact' = [compact EXCEPT !.stage = "built", !.cur = b, !.new = new]
    BY DEF CompactBuild
  <1>b. new \in SUBSET File /\ FiniteFiles(new) BY MergedType
  <1>c. b \in Bucket /\ b.proj \in Projects BY DEF CompactTypes, Bucket
  <1>1. TypeOK'
    <2>1. SegTypes'
      <3>1. Without(files[b.proj], SegmentPaths(new)) \cup new \in SUBSET File
        BY <1>b, <1>c, WithoutFiles DEF SegTypes
      <3>2. QED BY <1>a, <1>c, <3>1 DEF CompactBuild, SegTypes
    <2>2. CompactTypes'
      BY <1>a, <1>b, <1>c DEF CompactBuild, CompactTypes
    <2>3. QED BY <2>1, <2>2 DEF CompactBuild, WalTypes, MetaTypes, ProcessTypes, WriterTypes,
                                PruneTypes, HistoryTypes
  <1>2. LockHeld'
    BY DEF CompactBuild, Without, Bucket, LockHeld, HolderAtWork, WorkerHolds, ProcessTypes,
           PruneTypes, CompactTypes, Bucket
  <1>3. FiniteRows'
    <2>1. \A q \in Projects : FiniteFiles(files'[q])
      BY <1>a, <1>b, <1>c, MergeFiles DEF FiniteRows, SegTypes
    <2>2. QED BY <1>a, <1>b, <2>1 DEF CompactBuild, CompactTypes, FiniteRows, FiniteFiles
  <1>4. QED BY <1>1, <1>2, <1>3

\* CompactBuildFails preserves Inv.
LEMMA CompactBuildFailsKeepsInv ==
  ASSUME Inv, NEW b \in compact.plan, CompactBuildFails(b) PROVE Inv'
  <1> USE ConstantsAssumption DEF Inv, TypeOK
  <1>1. TypeOK'
    <2>1. SegTypes'
      <3>1. CASE UNCHANGED files BY <3>1 DEF CompactBuildFails, SegTypes
      <3>2. ASSUME NEW new \in Merged(b), NEW f \in new,
                   files' = [files EXCEPT ![b.proj] = Put(@, f.path, f.rows)]
            PROVE  SegTypes'
        <4>1. f \in File /\ b.proj \in Projects BY MergedType DEF CompactTypes, Bucket
        <4>2. QED BY <3>2, <4>1, PutFile DEF CompactBuildFails, SegTypes, File
      <3>3. QED BY <3>1, <3>2 DEF CompactBuildFails
    <2>2. CompactTypes' /\ HistoryTypes'
      BY DEF CompactBuildFails, Inject, BucketDone, IdleCompact, CompactTypes, HistoryTypes
    <2>3. QED BY <2>1, <2>2 DEF CompactBuildFails, Inject, BucketDone, WalTypes, MetaTypes,
                                ProcessTypes, WriterTypes, PruneTypes
  <1>2. LockHeld'
    BY DEF CompactBuildFails, Inject, BucketDone, IdleCompact, Put, Bucket, LockHeld,
           HolderAtWork, WorkerHolds, ProcessTypes, PruneTypes, CompactTypes, Bucket
  <1>3. FiniteRows'
    <2>1. b.proj \in Projects BY DEF CompactTypes, Bucket
    <2>2. \A q \in Projects : FiniteFiles(files'[q])
      BY <2>1, MergedType, PutFile DEF CompactBuildFails, FiniteRows, FiniteFiles, SegTypes,
                                       File
    <2>3. IsFiniteSet(compact'.new)
      BY FS_EmptySet DEF CompactBuildFails, BucketDone, IdleCompact
    <2>4. QED BY <2>2, <2>3 DEF CompactBuildFails, FiniteRows
  <1>4. QED BY <1>1, <1>2, <1>3

\* CompactSwap preserves Inv.
LEMMA CompactSwapKeepsInv ==
  ASSUME Inv, NEW b \in compact.plan, CompactSwap(b) PROVE Inv'
  <1> USE ConstantsAssumption DEF Inv, TypeOK
  <1>1. TypeOK'
    <2>1. SegTypes'
      <3>1. Cardinality(compact.new) \in Nat BY FS_CardinalityType DEF FiniteRows
      <3>2. { [mid |-> IssuedMid(f), path |-> f.path, rows |-> f.rows] : f \in compact.new }
            \subseteq Entry
        <4>1. ASSUME NEW f \in compact.new PROVE IssuedMid(f) \in Nat
          <5>1. IsFiniteSet({g \in compact.new : g.path.shard < f.path.shard})
            BY FS_Subset DEF FiniteRows
          <5>2. QED BY <5>1, FS_CardinalityType DEF IssuedMid, SegTypes
        <4>2. QED BY <4>1 DEF CompactTypes, File, Entry
      <3>3. manifest'[b.proj] \subseteq Entry
        BY <3>2 DEF CompactSwap, SegTypes, CompactTypes, Bucket
      <3>4. QED BY <3>1, <3>3 DEF CompactSwap, SegTypes, CompactTypes, Bucket
    <2>2. ProcessTypes'
      BY DEF CompactSwap, ProcessTypes, CompactTypes
    <2>3. CompactTypes'
      BY DEF CompactSwap, CompactTypes
    <2>4. QED BY <2>1, <2>2, <2>3 DEF CompactSwap, WalTypes, MetaTypes, WriterTypes,
                                      PruneTypes, HistoryTypes
  <1>2. LockHeld'
    BY DEF CompactSwap, Entry, File, Path, Bucket, LockHeld, HolderAtWork, WorkerHolds,
           ProcessTypes, PruneTypes, CompactTypes, Bucket
  <1>3. FiniteRows'
    BY FS_EmptySet DEF CompactSwap, Entry, File, Path, Bucket, FiniteRows, WalTypes,
                       WriterTypes, SegTypes
  <1>4. QED BY <1>1, <1>2, <1>3

\* CompactAborts preserves Inv.
LEMMA CompactAbortsKeepsInv ==
  ASSUME Inv, NEW b \in compact.plan, CompactAborts(b) PROVE Inv'
  <1> USE ConstantsAssumption DEF Inv, TypeOK
  <1>1. TypeOK'
    BY DEF CompactAborts, Inject, BucketDone, IdleCompact, Without, Bucket, WalTypes,
           SegTypes, MetaTypes, ProcessTypes, WriterTypes, PruneTypes, CompactTypes,
                HistoryTypes
  <1>2. LockHeld'
    BY DEF CompactAborts, Inject, BucketDone, IdleCompact, Without, Bucket, LockHeld,
           HolderAtWork, WorkerHolds, ProcessTypes, PruneTypes, CompactTypes, Bucket
  <1>3. FiniteRows'
    <2>1. b.proj \in Projects BY DEF CompactTypes, Bucket
    <2>2. \A q \in Projects : FiniteFiles(files'[q])
      BY <2>1, WithoutFiles DEF CompactAborts, FiniteRows, SegTypes
    <2>3. IsFiniteSet(compact'.new)
      BY FS_EmptySet DEF CompactAborts, BucketDone, IdleCompact
    <2>4. QED BY <2>2, <2>3 DEF CompactAborts, FiniteRows
  <1>4. QED BY <1>1, <1>2, <1>3

\* CompactRemove preserves Inv.
LEMMA CompactRemoveKeepsInv ==
  ASSUME Inv, NEW b \in compact.plan, CompactRemove(b) PROVE Inv'
  <1> USE ConstantsAssumption DEF Inv, TypeOK
  <1>1. TypeOK'
    <2>1. SegTypes'
      <3>1. b.proj \in Projects BY DEF CompactTypes, Bucket
      <3>2. PICK gone \in SUBSET b.members :
              files' = [files EXCEPT ![b.proj] = Without(@, SegmentPaths(gone))]
        BY DEF CompactRemove
      <3>3. QED BY <3>1, <3>2, WithoutFiles DEF CompactRemove, SegTypes
    <2>2. ProcessTypes'
      BY DEF CompactRemove, ProcessTypes, CompactTypes, Bucket, LockHeld, HolderAtWork,
             WorkerHolds
    <2>3. CompactTypes' /\ HistoryTypes'
      BY DEF CompactRemove, Inject, BucketDone, IdleCompact, CompactTypes, HistoryTypes
    <2>4. QED BY <2>1, <2>2, <2>3 DEF CompactRemove, Inject, BucketDone, WalTypes, MetaTypes,
                                      WriterTypes, PruneTypes
  <1>2. LockHeld'
    BY DEF CompactRemove, Inject, BucketDone, IdleCompact, Without, Bucket, LockHeld,
           HolderAtWork, WorkerHolds, ProcessTypes, PruneTypes, CompactTypes, Bucket
  <1>3. FiniteRows'
    <2>1. b.proj \in Projects BY DEF CompactTypes, Bucket
    <2>2. \A q \in Projects : FiniteFiles(files'[q])
      BY <2>1, WithoutFiles DEF CompactRemove, FiniteRows, SegTypes
    <2>3. IsFiniteSet(compact'.new)
      BY FS_EmptySet DEF CompactRemove, BucketDone, IdleCompact
    <2>4. QED BY <2>2, <2>3 DEF CompactRemove, FiniteRows
  <1>4. QED BY <1>1, <1>2, <1>3

\* Crash preserves Inv.
LEMMA CrashKeepsInv ==
  ASSUME Inv, Crash PROVE Inv'
  <1> USE ConstantsAssumption DEF Inv, TypeOK
  <1>1. TypeOK'
    BY DEF Crash, Inject, Volatile, NoRows, IdleWriter, IdlePrune, IdleCompact, Prefix,
           WalTypes, SegTypes, MetaTypes, ProcessTypes, WriterTypes, PruneTypes, CompactTypes,
                HistoryTypes
  <1>2. LockHeld'
    BY DEF Crash, Inject, Volatile, NoRows, IdleWriter, IdlePrune, IdleCompact, Prefix,
           LockHeld, HolderAtWork, WorkerHolds, ProcessTypes, PruneTypes, CompactTypes, Bucket
  <1>3. FiniteRows'
    <2>1. \A q \in Projects : IsFiniteSet(wal'[q])
      <3>1. ASSUME NEW q \in Projects, NEW n PROVE IsFiniteSet(wal[q] \cup Prefix(q, n))
        <4>1. IsFiniteSet(Prefix(q, n)) BY FS_Subset DEF Prefix, FiniteRows
        <4>2. QED BY <4>1, FS_Union DEF FiniteRows
      <3>2. QED BY <3>1 DEF Crash, FiniteRows
    <2>2. QED BY <2>1, FS_EmptySet
          DEF Crash, Volatile, NoRows, IdleWriter, IdleCompact, FiniteRows
  <1>4. QED BY <1>1, <1>2, <1>3

\* Close preserves Inv.
LEMMA CloseKeepsInv ==
  ASSUME Inv, Close PROVE Inv'
  <1> USE ConstantsAssumption DEF Inv, TypeOK
  <1>1. TypeOK'
    BY DEF Close, Inject, Volatile, NoRows, IdleWriter, IdlePrune, IdleCompact, WalTypes,
           SegTypes, MetaTypes, ProcessTypes, WriterTypes, PruneTypes, CompactTypes,
                HistoryTypes
  <1>2. LockHeld'
    BY DEF Close, Inject, Volatile, NoRows, IdleWriter, IdlePrune, IdleCompact, LockHeld,
           HolderAtWork, WorkerHolds, ProcessTypes, PruneTypes, CompactTypes, Bucket
  <1>3. FiniteRows'
    <2>1. \A q \in Projects : IsFiniteSet(wal'[q])
      <3>1. ASSUME NEW q \in Projects PROVE IsFiniteSet(wal[q] \cup walBuf[q])
        BY FS_Union DEF FiniteRows
      <3>2. QED BY <3>1 DEF Close, FiniteRows
    <2>2. QED BY <2>1, FS_EmptySet
          DEF Close, Volatile, NoRows, IdleWriter, IdleCompact, FiniteRows
  <1>4. QED BY <1>1, <1>2, <1>3

\* Open preserves Inv.
LEMMA OpenKeepsInv ==
  ASSUME Inv, Open PROVE Inv'
  <1> USE ConstantsAssumption DEF Inv, TypeOK
  <1>1. TypeOK'
    BY DEF Open, Kept, SeedIDs, ManifestRows, Row, Entry, Ref, WalTypes, SegTypes, MetaTypes,
           ProcessTypes, WriterTypes, PruneTypes, CompactTypes, HistoryTypes
  <1>2. LockHeld'
    BY DEF Open, Kept, SeedIDs, ManifestRows, Row, Entry, Ref, LockHeld, HolderAtWork,
           WorkerHolds, ProcessTypes, PruneTypes, CompactTypes, Bucket
  <1>3. FiniteRows'
    <2>1. ASSUME NEW q \in Projects
          PROVE  IsFiniteSet(Kept(q)) /\ FiniteFiles({f \in files[q] : f.path \in SegmentPaths(manifest[q])})
      BY FS_Subset DEF Kept, FiniteRows, FiniteFiles
    <2>2. QED BY <2>1 DEF Open, FiniteRows
  <1>4. QED BY <1>1, <1>2, <1>3

-----------------------------------------------------------------------------
(* The theorems *)

\* The empty store satisfies Inv.
LEMMA InitInv == ASSUME Init PROVE Inv
  <1> USE ConstantsAssumption DEF Init, Inv, TypeOK, NoRows
  <1>1. TypeOK
    BY DEF IdleWriter, IdlePrune, IdleCompact, WalTypes, SegTypes, MetaTypes, ProcessTypes,
           WriterTypes, PruneTypes, CompactTypes, HistoryTypes
  <1>2. LockHeld BY DEF LockHeld, HolderAtWork, WorkerHolds, IdlePrune, IdleCompact
  <1>3. FiniteRows BY FS_EmptySet DEF FiniteRows, FiniteFiles, IdleWriter, IdleCompact
  <1>4. QED BY <1>1, <1>2, <1>3

\* A stuttering step preserves Inv.
LEMMA StutterInv == ASSUME Inv, UNCHANGED vars PROVE Inv'
  BY DEF vars, Inv, TypeOK, LockHeld, HolderAtWork, WorkerHolds, FiniteRows, FiniteFiles,
         WalTypes, SegTypes, MetaTypes, ProcessTypes, WriterTypes, PruneTypes, CompactTypes,
         HistoryTypes

\* Every step preserves Inv.
LEMMA NextInv == ASSUME Inv, [Next]_vars PROVE Inv'
  <1>1. CASE WriterNext
    BY <1>1, WriteBatchKeepsInv, ExtractFailsKeepsInv, WalAppendKeepsInv,
       WalAppendFailsKeepsInv, WalSyncKeepsInv, WalSyncFailsKeepsInv, WalWriteFailsKeepsInv,
       UpsertIssuesKeepsInv, UpsertIssuesFailsKeepsInv, ThresholdFlushKeepsInv,
       BatchReturnsKeepsInv DEF WriterNext
  <1>2. CASE FlushNext
    BY <1>2, TickerFlushKeepsInv, InsertSegmentKeepsInv, SegmentFailsKeepsInv,
       AddRollupsKeepsInv, ResetWALKeepsInv, ResetWALFailsKeepsInv DEF FlushNext
  <1>3. CASE PruneNext
    BY <1>3, PruneStartKeepsInv, PruneLockKeepsInv, PruneDropKeepsInv, PruneRewriteKeepsInv,
       PruneSwapKeepsInv, PruneFailsKeepsInv, PruneRemoveKeepsInv, PruneUnlockKeepsInv,
       PruneEventsKeepsInv DEF PruneNext
  <1>4. CASE CompactNext
    BY <1>4, CompactPlanKeepsInv, CompactBuildKeepsInv, CompactBuildFailsKeepsInv,
       CompactSwapKeepsInv, CompactAbortsKeepsInv, CompactRemoveKeepsInv DEF CompactNext
  <1>5. CASE Crash \/ Close \/ Open BY <1>5, CrashKeepsInv, CloseKeepsInv, OpenKeepsInv
  <1>6. CASE UNCHANGED vars BY <1>6, StutterInv
  <1>7. QED BY <1>1, <1>2, <1>3, <1>4, <1>5, <1>6 DEF Next

(* Inv is an invariant of the store. *)
THEOREM Invariance == Spec => []Inv
  <1>1. Init => Inv BY InitInv
  <1>2. Inv /\ [Next]_vars => Inv' BY NextInv
  <1>3. QED BY <1>1, <1>2, PTL DEF Spec

(* Every variable of the store keeps its type (TypeOK), and a flush runs    *)
(* only while its project's lock is held.                                   *)
THEOREM TypeCorrect == Spec => []TypeOK
  <1>1. Inv => TypeOK BY DEF Inv
  <1>2. QED BY <1>1, Invariance, PTL

(* ps.mu excludes (LockHeld): one holder per project, at work where the     *)
(* code needs the lock, and every way out of flushProject, Prune and        *)
(* compactBucket releases it.                                               *)
THEOREM LockDiscipline == Spec => []LockHeld
  <1>1. Inv => LockHeld BY DEF Inv
  <1>2. QED BY <1>1, Invariance, PTL

-----------------------------------------------------------------------------
(* The segments in use *)

(* A name without the count of its rewrites: a rewritten segment keeps it. *)
Base(path) == [path EXCEPT !.pruned = 0]

(* The entries in use.  A merge's members are not any more once it has     *)
(* swapped them out.                                                       *)
Waiting == compact.plan \ (IF compact.stage = "remove" THEN {compact.cur} ELSE {})
Planned(p) == UNION {b.members : b \in {c \in Waiting : c.proj = p}}
InPrune(p) ==
  IF prune.stage \in {"swap", "remove"} /\ prune.proj = p THEN {prune.cur} ELSE {}
InUse(p) == manifest[p] \cup Planned(p) \cup InPrune(p)

(* A flush's name is of an earlier flush of this run, or of an earlier run: *)
(* then its first row is older than all that may be flushed yet.            *)
Flushes(p) == IF stage[p] = "written" THEN seq[p] - 1 ELSE seq[p]
Above(p, n) == n <= nextLogID /\ \A r \in mem[p] \cup writer.batch[p] : n < r.id
NameOK(p, e) ==
  /\ e.mid <= nextMid
  /\ e.path.kind = "merged" => e.path.num <= nextMid
  /\ e.path.kind = "flush" =>
       /\ e.rows # {} /\ \A r \in e.rows : e.path.first <= r.id
       /\ phase = "up" => e.path.num <= Flushes(p) \/ Above(p, e.path.first)

(* Manifest ids and names are used once; a merge is named after a manifest *)
(* id that is no more; of two names with one base the listed is the later. *)
Apart(e1, e2) ==
  /\ e1.mid = e2.mid => e1 = e2
  /\ e1.path = e2.path => e1 = e2
  /\ e1.path.kind = "merged" => e1.path.num # e2.mid
Later(e, e2) == Base(e.path) = Base(e2.path) => e = e2 \/ e2.path.pruned < e.path.pruned
Names == \A p \in Projects :
  /\ \A e \in InUse(p) : NameOK(p, e)
  /\ \A e1, e2 \in InUse(p) : Apart(e1, e2)
  /\ \A e \in manifest[p], e2 \in InUse(p) : Later(e, e2)

(* A file in use is what it was written as, and listed ones are there. *)
FilesOK == \A p \in Projects :
  /\ \A f, g \in files[p] : f.path = g.path => f = g
  /\ \A e \in InUse(p), f \in files[p] : f.path = e.path => f.rows = e.rows
  /\ \A e \in manifest[p] : [path |-> e.path, rows |-> e.rows] \in files[p]

(* The file of a flush, until the manifest lists it. *)
FlushOK == \A p \in Projects : stage[p] = "written" =>
  \E r \in mem[p] : IsFirst(r, mem[p]) /\ [path |-> FlushPath(seq[p], r.id), rows |-> mem[p]] \in files[p]

PruneOK ==
  /\ prune.stage \in {"scan", "swap", "remove"} => prune.todo \subseteq manifest[prune.proj]
  /\ prune.stage = "swap" =>
       /\ prune.cur \in prune.todo /\ Straddles(prune.cur, prune.cutoff)
       /\ [path |-> PrunedPath(prune.cur.path),
           rows |-> prune.cur.rows \ Older(prune.cur.rows, prune.cutoff)] \in files[prune.proj]
  /\ prune.stage = "remove" => \A e \in manifest[prune.proj] : e.path # prune.cur.path

(* The buckets of one plan share no segment, and each has more of them than *)
(* its rows need.                                                          *)
RowsOf(entries) == UNION {e.rows : e \in entries}
PlanOK ==
  /\ \A b \in compact.plan :
       /\ FiniteFiles(b.members)
       /\ ShardCount(Cardinality(RowsOf(b.members))) < Cardinality(b.members)
  /\ \A b, c \in compact.plan :
       b.proj = c.proj => b = c \/ \A m \in b.members, n \in c.members : m # n

(* The shards of the merge at hand share out its members' rows, in order of *)
(* time, and are fewer.                                                    *)
InOrder(f, g) == f.path.shard < g.path.shard => \A r \in f.rows, q \in g.rows : r.ts <= q.ts
Shares(new, members) ==
  /\ RowsOf(new) = RowsOf(members)
  /\ \A f, g \in new : f = g \/ (f.path.shard # g.path.shard /\ f.rows \cap g.rows = {})
  /\ \A f, g \in new : InOrder(f, g)
NamedAfter(new, members) == \E m \in members : \A f \in new :
  f.path.kind = "merged" /\ f.path.num = m.mid /\ f.path.pruned = 0
MergeOK ==
  /\ compact.stage = "built" =>
       /\ compact.new \subseteq files[compact.cur.proj]
       /\ NamedAfter(compact.new, compact.cur.members)
       /\ Shares(compact.new, compact.cur.members)
       /\ Cardinality(compact.new) < Cardinality(compact.cur.members)
  /\ compact.stage = "remove" =>
       \A e \in manifest[compact.cur.proj], m \in compact.cur.members : e.path # m.path

(* The listed segments are finite, and the shards of one merge stay ordered. *)
ListOK == (\A p \in Projects : FiniteFiles(manifest[p])) /\ ShardsOrdered

(* Nothing of a run survives it. *)
DownOK == phase = "down" =>
  /\ writer = IdleWriter /\ prune = IdlePrune /\ compact = IdleCompact
  /\ \A p \in Projects : mem[p] = {} /\ walBuf[p] = {} /\ stage[p] = "none"

SegInv == Names /\ FilesOK /\ FlushOK /\ PruneOK /\ PlanOK /\ MergeOK /\ ListOK /\ DownOK

-----------------------------------------------------------------------------
(* What the steps share *)

\* An entry in use is an entry.
LEMMA InUseType ==
  ASSUME Inv, NEW p \in Projects PROVE InUse(p) \subseteq Entry /\ manifest[p] \subseteq InUse(p)
  <1> USE DEF Inv, TypeOK
  <1>1. manifest[p] \subseteq Entry BY DEF SegTypes
  <1>2. Planned(p) \subseteq Entry BY DEF Planned, Waiting, CompactTypes, Bucket
  <1>3. InPrune(p) \subseteq Entry BY DEF InPrune, PruneTypes
  <1>4. QED BY <1>1, <1>2, <1>3 DEF InUse

\* A prune on the manifest holds its project's lock; a merge that swapped does.
LEMMA Pinned ==
  ASSUME Inv
  PROVE  /\ prune.stage \in {"scan", "swap", "remove"} =>
              prune.proj \in Projects /\ mu[prune.proj] = "pruner" /\ stage[prune.proj] = "none"
         /\ compact.stage \in {"built", "remove"} =>
              compact.cur \in compact.plan /\ compact.cur.proj \in Projects
         /\ compact.stage = "remove" =>
              mu[compact.cur.proj] = "compactor" /\ stage[compact.cur.proj] = "none"
  BY DEF Inv, TypeOK, PruneTypes, CompactTypes, Bucket, LockHeld, HolderAtWork, WorkerHolds

\* Names stay apart when nothing comes into use.
LEMMA NamesKept ==
  ASSUME Names, nextMid <= nextMid', nextMid \in Nat, nextMid' \in Nat,
         \A p \in Projects : InUse(p)' \subseteq InUse(p) /\ manifest'[p] \subseteq manifest[p]
                             /\ InUse(p) \subseteq Entry,
         \A p \in Projects : \A e \in InUse(p)' :
           phase' = "up" /\ e.path.kind = "flush" => (e.path.num <= Flushes(p) \/ Above(p, e.path.first))'
  PROVE  Names'
  <1>1. ASSUME NEW p \in Projects, NEW e \in InUse(p)' PROVE NameOK(p, e)'
    <2>1. e \in InUse(p) /\ e.mid \in Nat /\ e.path.num \in Nat BY <1>1 DEF Entry, Path
    <2>2. NameOK(p, e) BY <2>1 DEF Names
    <2>3. e.mid <= nextMid' /\ (e.path.kind = "merged" => e.path.num <= nextMid')
      BY <2>1, <2>2 DEF NameOK
    <2>4. e.path.kind = "flush" => e.rows # {} /\ \A r \in e.rows : e.path.first <= r.id
      BY <2>2 DEF NameOK
    <2>5. phase' = "up" /\ e.path.kind = "flush" => (e.path.num <= Flushes(p) \/ Above(p, e.path.first))'
      BY <1>1
    <2>6. QED BY <2>3, <2>4, <2>5 DEF NameOK
  <1>2. ASSUME NEW p \in Projects
        PROVE  /\ \A e1, e2 \in InUse(p)' : Apart(e1, e2)
               /\ \A e \in manifest'[p], e2 \in InUse(p)' : Later(e, e2)
    BY DEF Names
  <1>3. \A p \in Projects : (\A e1, e2 \in InUse(p) : Apart(e1, e2))'
    BY <1>2 DEF Apart
  <1>4. \A p \in Projects : (\A e \in manifest[p], e2 \in InUse(p) : Later(e, e2))'
    BY <1>2 DEF Later, Base
  <1>5. QED BY <1>1, <1>3, <1>4 DEF Names

\* Files in use stay when others come and go.
LEMMA FilesKept ==
  ASSUME FilesOK,
         \A p \in Projects : InUse(p)' \subseteq InUse(p) /\ manifest'[p] \subseteq manifest[p],
         \A p \in Projects : \A f, g \in files'[p] : f.path = g.path => f = g,
         \A p \in Projects : \A f \in files'[p] : f \in files[p] \/ \A e \in InUse(p)' : e.path # f.path,
         \A p \in Projects : \A f \in files[p] : f \in files'[p] \/ \A e \in manifest'[p] : e.path # f.path
  PROVE  FilesOK'
  <1>1. SUFFICES ASSUME NEW p \in Projects
                 PROVE  /\ \A e \in InUse(p)', f \in files'[p] : f.path = e.path => f.rows = e.rows
                        /\ \A e \in manifest'[p] : [path |-> e.path, rows |-> e.rows] \in files'[p]
    BY DEF FilesOK
  <1>2. ASSUME NEW e \in InUse(p)', NEW f \in files'[p], f.path = e.path PROVE f.rows = e.rows
    BY <1>2 DEF FilesOK
  <1>3. ASSUME NEW e \in manifest'[p] PROVE [path |-> e.path, rows |-> e.rows] \in files'[p]
    <2>1. [path |-> e.path, rows |-> e.rows] \in files[p] BY <1>3 DEF FilesOK
    <2>2. QED BY <1>3, <2>1
  <1>4. QED BY <1>2, <1>3

\* The steps that touch no segment.
LEMMA QuietStep ==
  ASSUME Inv, Inv', SegInv, phase = "up", UNCHANGED <<segVars, compact, phase, seq>>,
         nextLogID <= nextLogID',
         \A p \in Projects : \A r \in mem'[p] \cup writer'.batch[p] :
           r \in mem[p] \cup writer.batch[p] \/ nextLogID < r.id,
         \A p \in Projects : stage'[p] = "written" => stage[p] = "written" /\ mem'[p] = mem[p],
         prune' = prune \/ prune'.stage \in {"idle", "flush", "lock", "events"}
  PROVE  SegInv'
  <1>1. \A p \in Projects : InUse(p)' \subseteq InUse(p)
    BY DEF InUse, Planned, Waiting, InPrune
  <1>2. Names'
    <2>1. ASSUME NEW p \in Projects, NEW e \in InUse(p)', e.path.kind = "flush"
          PROVE  (e.path.num <= Flushes(p) \/ Above(p, e.path.first))'
      <3>1. e \in InUse(p) /\ e \in Entry BY <1>1, <2>1, InUseType
      <3>2. e.path.num \in Nat /\ e.path.first \in Nat BY <3>1 DEF Entry, Path
      <3>3. e.path.num <= Flushes(p) \/ Above(p, e.path.first)
        BY <2>1, <3>1 DEF SegInv, Names, NameOK
      <3>4. Flushes(p) <= Flushes(p)' /\ Flushes(p) \in Int /\ Flushes(p)' \in Int
        BY DEF Flushes, Inv, TypeOK, ProcessTypes
      <3>5. Above(p, e.path.first) => Above(p, e.path.first)'
        <4>1. nextLogID \in Nat /\ nextLogID' \in Nat
              /\ \A r \in mem'[p] \cup writer'.batch[p] : r.id \in Nat
          BY DEF Inv, TypeOK, ProcessTypes, WalTypes, WriterTypes, Row
        <4>2. QED BY <3>2, <4>1 DEF Above
      <3>6. QED BY <3>2, <3>3, <3>4, <3>5
    <2>2. \A p \in Projects : manifest'[p] \subseteq manifest[p] /\ InUse(p) \subseteq Entry
      BY InUseType
    <2>3. nextMid \in Nat /\ nextMid' = nextMid BY DEF Inv, TypeOK, SegTypes
    <2>4. QED BY <1>1, <2>1, <2>2, <2>3, NamesKept DEF SegInv
  <1>3. FilesOK'
    <2>1. \A p \in Projects : manifest'[p] \subseteq manifest[p] /\ files'[p] = files[p] OBVIOUS
    <2>2. QED BY <1>1, <2>1, FilesKept DEF SegInv, FilesOK
  <1>4. FlushOK' BY DEF SegInv, FlushOK, IsFirst
  <1>5. PruneOK' BY DEF SegInv, PruneOK, Straddles, EntirelyOld, Older, PrunedPath
  <1>6. PlanOK' /\ MergeOK' /\ DownOK' /\ ListOK'
    BY DEF SegInv, PlanOK, MergeOK, DownOK, ListOK, ShardsOrdered
  <1>7. QED BY <1>2, <1>3, <1>4, <1>5, <1>6 DEF SegInv

-----------------------------------------------------------------------------
(* Flushes *)

\* The name a flush takes, a row of the memtable in it, is in nobody's use.
LEMMA FreshFlush ==
  ASSUME Inv, SegInv, phase = "up", NEW p \in Projects, NEW r \in mem[p], NEW e \in InUse(p),
         e.path.kind = "flush", e.path.first = r.id, NEW n \in Nat, Flushes(p) < n
  PROVE  e.path.num # n
  <1>1. Flushes(p) \in Int /\ r.id \in Nat /\ e.path.num \in Nat
    <2>1. e \in Entry BY InUseType
    <2>2. QED BY <2>1 DEF Flushes, Inv, TypeOK, ProcessTypes, WalTypes, Row, Entry, Path
  <1>2. e.path.num <= Flushes(p) \/ Above(p, e.path.first) BY DEF SegInv, Names, NameOK
  <1>3. ~Above(p, r.id) BY <1>1 DEF Above
  <1>4. QED BY <1>1, <1>2, <1>3

\* flushProject's first step, whoever calls it.
LEMMA WriteStep ==
  ASSUME Inv, SegInv, NEW p \in Projects, NEW who, WriteSegment(p, who),
         UNCHANGED <<manifest, nextMid, compact, phase, mem, nextLogID, writer.batch>>,
         prune' = prune \/ (prune.stage = "idle" /\ prune'.stage = "flush")
  PROVE  SegInv'
  <1>1. PICK r \in mem[p] :
          IsFirst(r, mem[p]) /\ files' = [files EXCEPT ![p] = Put(@, FlushPath(seq[p] + 1, r.id), mem[p])]
    BY DEF WriteSegment
  <1> DEFINE path == FlushPath(seq[p] + 1, r.id)
  <1>2. phase = "up" /\ mu[p] = "free" /\ stage[p] = "none" /\ seq[p] \in Nat
    BY DEF WriteSegment, Inv, TypeOK, ProcessTypes, LockHeld, HolderAtWork
  <1>3. \A e \in InUse(p) : e.path # path
    <2>1. Flushes(p) < seq[p] + 1 /\ seq[p] + 1 \in Nat BY <1>2 DEF Flushes
    <2>2. QED BY <1>2, <2>1, FreshFlush DEF FlushPath
  <1>4. \A q \in Projects : InUse(q)' \subseteq InUse(q) /\ manifest'[q] = manifest[q]
    BY DEF InUse, Planned, Waiting, InPrune
  <1>5. /\ files'[p] = {f \in files[p] : f.path # path} \cup {[path |-> path, rows |-> mem[p]]}
        /\ \A q \in Projects \ {p} : files'[q] = files[q]
    BY <1>1 DEF Put, Inv, TypeOK, SegTypes
  <1> HIDE DEF path
  <1>6. Names'
    <2>1. ASSUME NEW q \in Projects, NEW e \in InUse(q)', e.path.kind = "flush"
          PROVE  (e.path.num <= Flushes(q) \/ Above(q, e.path.first))'
      <3>1. e.path.num <= Flushes(q) \/ Above(q, e.path.first)
        BY <1>2, <1>4, <2>1 DEF SegInv, Names, NameOK
      <3>2. Flushes(q)' = Flushes(q)
        BY <1>2 DEF Flushes, WriteSegment, Inv, TypeOK, ProcessTypes
      <3>3. Above(q, e.path.first)' <=> Above(q, e.path.first) BY DEF Above
      <3>4. QED BY <3>1, <3>2, <3>3
    <2>2. nextMid \in Nat BY DEF Inv, TypeOK, SegTypes
    <2>3. QED BY <1>4, <2>1, <2>2, InUseType, NamesKept DEF SegInv
  <1>7. FilesOK'
    <2>1. \A q \in Projects : \A f, g \in files'[q] : f.path = g.path => f = g
      BY <1>5 DEF SegInv, FilesOK
    <2>2. \A q \in Projects : \A f \in files'[q] : f \in files[q] \/ \A e \in InUse(q)' : e.path # f.path
      BY <1>3, <1>4, <1>5
    <2>3. manifest[p] \subseteq InUse(p) BY DEF InUse
    <2>4. \A q \in Projects : \A f \in files[q] : f \in files'[q] \/ \A e \in manifest'[q] : e.path # f.path
      BY <1>3, <1>4, <1>5, <2>3
    <2>5. QED BY <1>4, <2>1, <2>2, <2>4, FilesKept DEF SegInv
  <1>8. FlushOK'
    <2>1. seq'[p] = seq[p] + 1 /\ stage'[p] = "written" /\ mem' = mem
          /\ \A q \in Projects \ {p} : seq'[q] = seq[q] /\ stage'[q] = stage[q]
      BY DEF WriteSegment, Inv, TypeOK, ProcessTypes
    <2>2. [path |-> FlushPath(seq'[p], r.id), rows |-> mem'[p]] \in files'[p]
      BY <1>5, <2>1 DEF path
    <2>3. ASSUME NEW q \in Projects, stage'[q] = "written"
          PROVE  \E x \in mem'[q] : /\ IsFirst(x, mem'[q])
                                    /\ [path |-> FlushPath(seq'[q], x.id), rows |-> mem'[q]] \in files'[q]
      <3>1. CASE q = p BY <1>1, <2>1, <2>2, <3>1
      <3>2. CASE q # p BY <1>5, <2>1, <2>3, <3>2 DEF SegInv, FlushOK
      <3>3. QED BY <3>1, <3>2
    <2>4. QED BY <2>3 DEF FlushOK, IsFirst
  <1>9. PruneOK'
    <2>1. CASE prune' = prune
      <3>1. prune.stage = "swap" => files'[prune.proj] = files[prune.proj]
        BY <1>2, <1>5, Pinned
      <3>2. QED BY <2>1, <3>1 DEF SegInv, PruneOK, Straddles, EntirelyOld, Older, PrunedPath
    <2>2. CASE prune'.stage = "flush" BY <2>2 DEF PruneOK
    <2>3. QED BY <2>1, <2>2
  <1>10. MergeOK'
    <2>1. ASSUME compact.stage = "built" PROVE compact.new \subseteq files'[compact.cur.proj]
      <3>1. compact.new \subseteq files[compact.cur.proj] /\ \A f \in compact.new : f.path.kind = "merged"
        BY <2>1 DEF SegInv, MergeOK, NamedAfter
      <3>2. path.kind = "flush" BY DEF path, FlushPath
      <3>3. compact.cur.proj \in Projects BY <2>1, Pinned
      <3>4. QED BY <1>5, <3>1, <3>2, <3>3
    <2>2. QED BY <2>1 DEF SegInv, MergeOK
  <1>11. PlanOK' BY DEF SegInv, PlanOK
  <1>12. ListOK' BY DEF SegInv, ListOK, ShardsOrdered
  <1>13. DownOK' BY <1>2 DEF DownOK
  <1>14. QED BY <1>6, <1>7, <1>8, <1>9, <1>10, <1>11, <1>12, <1>13 DEF SegInv
\* The flush of p leaves the prune and the merge at hand alone.
LEMMA FlushAlone ==
  ASSUME Inv, SegInv, NEW p \in Projects, stage[p] # "none"
  PROVE  /\ phase = "up"
         /\ prune.stage \in {"scan", "swap", "remove"} => prune.proj \in Projects \ {p}
         /\ compact.stage = "remove" => compact.cur.proj \in Projects \ {p}
  <1>1. phase = "up" BY DEF SegInv, DownOK, Inv, TypeOK, ProcessTypes
  <1>2. QED BY <1>1, Pinned

\* InsertSegment preserves SegInv.
LEMMA InsertStep ==
  ASSUME Inv, SegInv, NEW p \in Projects, InsertSegment(p) PROVE SegInv'
  <1>1. stage[p] = "written" /\ phase = "up" BY FlushAlone DEF InsertSegment
  <1>2. PICK r \in mem[p] :
          /\ IsFirst(r, mem[p])
          /\ manifest' = [manifest EXCEPT ![p] = @ \cup
               {[mid |-> nextMid + 1, path |-> FlushPath(seq[p], r.id), rows |-> mem[p]]}]
    BY DEF InsertSegment
  <1> DEFINE path == FlushPath(seq[p], r.id)
             new == [mid |-> nextMid + 1, path |-> path, rows |-> mem[p]]
  <1>3. /\ new.mid = nextMid + 1 /\ new.path = path /\ new.rows = mem[p]
        /\ path.kind = "flush" /\ path.num = seq[p] /\ path.first = r.id /\ path.pruned = 0
    BY DEF FlushPath
  <1>4. [path |-> path, rows |-> mem[p]] \in files[p]
    <2>1. PICK x \in mem[p] : IsFirst(x, mem[p]) /\ [path |-> FlushPath(seq[p], x.id), rows |-> mem[p]] \in files[p]
      BY <1>1 DEF SegInv, FlushOK
    <2>2. x.id = r.id BY <1>2, <2>1 DEF IsFirst, Inv, TypeOK, WalTypes, Row
    <2>3. QED BY <2>1, <2>2
  <1>5. ASSUME NEW e \in InUse(p) PROVE e.path # path /\ Base(e.path) # Base(path)
    <2>1. Flushes(p) < seq[p] /\ seq[p] \in Nat BY <1>1 DEF Flushes, Inv, TypeOK, ProcessTypes
    <2>2. ~(e.path.kind = "flush" /\ e.path.first = r.id /\ e.path.num = seq[p])
      BY <1>1, <2>1, FreshFlush
    <2>3. e.path \in Path /\ path \in Path
      BY InUseType, FlushPathType DEF Entry, Inv, TypeOK, ProcessTypes, WalTypes, Row
    <2>4. QED BY <1>3, <2>2, <2>3 DEF Base, Path
  <1>6. nextMid \in Nat /\ nextMid' = nextMid + 1 BY DEF InsertSegment, Inv, TypeOK, SegTypes
  <1>7. /\ InUse(p)' = InUse(p) \cup {new} /\ manifest'[p] = manifest[p] \cup {new}
        /\ \A q \in Projects \ {p} : InUse(q)' = InUse(q) /\ manifest'[q] = manifest[q]
    BY <1>2 DEF InUse, Planned, Waiting, InPrune, InsertSegment, Inv, TypeOK, SegTypes
  <1> HIDE DEF path, new
  <1>8. Names'
    <2>1. ASSUME NEW q \in Projects, NEW e \in InUse(q)' PROVE NameOK(q, e)'
      <3>1. CASE e \in InUse(q)
        <4>1. NameOK(q, e) /\ e \in Entry BY <3>1, InUseType DEF SegInv, Names
        <4>2. e.mid \in Nat /\ e.path.num \in Nat BY <4>1 DEF Entry, Path
        <4>3. Flushes(q) <= Flushes(q)' /\ Flushes(q) \in Int /\ Flushes(q)' \in Int
          BY <1>1 DEF InsertSegment, Flushes, Inv, TypeOK, ProcessTypes
        <4>4. Above(q, e.path.first)' <=> Above(q, e.path.first) BY DEF Above, InsertSegment
        <4>5. QED BY <1>6, <4>1, <4>2, <4>3, <4>4 DEF NameOK, InsertSegment
      <3>2. CASE q = p /\ e = new
        <4>1. Flushes(p)' = seq[p] /\ seq[p] \in Nat
          BY <1>1 DEF InsertSegment, Flushes, Inv, TypeOK, ProcessTypes
        <4>2. new.rows # {} /\ \A x \in new.rows : new.path.first <= x.id
          BY <1>2, <1>3 DEF IsFirst
        <4>3. QED BY <1>3, <1>6, <3>2, <4>1, <4>2 DEF NameOK
      <3>3. QED BY <1>7, <3>1, <3>2
    <2>2. ASSUME NEW e \in InUse(p) PROVE Apart(e, new) /\ Apart(new, e) /\ Later(e, new) /\ Later(new, e)
      <3>1. NameOK(p, e) /\ e \in Entry BY InUseType DEF SegInv, Names
      <3>2. e.mid \in Nat /\ e.path.num \in Nat BY <3>1 DEF Entry, Path
      <3>3. e.mid # new.mid /\ (e.path.kind = "merged" => e.path.num # new.mid)
        BY <1>3, <1>6, <3>1, <3>2 DEF NameOK
      <3>4. QED BY <1>3, <1>5, <3>3 DEF Apart, Later
    <2>3. Apart(new, new) /\ Later(new, new) BY <1>3 DEF Apart, Later
    <2>4. ASSUME NEW q \in Projects
          PROVE  /\ \A e1, e2 \in InUse(q)' : Apart(e1, e2)
                 /\ \A e \in manifest'[q], e2 \in InUse(q)' : Later(e, e2)
      <3>1. manifest[q] \subseteq InUse(q) BY DEF InUse
      <3>2. QED BY <1>7, <2>2, <2>3, <3>1 DEF SegInv, Names
    <2>5. \A q \in Projects : (\A e1, e2 \in InUse(q) : Apart(e1, e2))' BY <2>4 DEF Apart
    <2>6. \A q \in Projects : (\A e \in manifest[q], e2 \in InUse(q) : Later(e, e2))'
      BY <2>4 DEF Later, Base
    <2>7. QED BY <2>1, <2>5, <2>6 DEF Names
  <1>9. FilesOK'
    <2>1. files' = files BY DEF InsertSegment
    <2>2. \A f \in files[p] : f.path = new.path => f.rows = new.rows
      BY <1>3, <1>4 DEF SegInv, FilesOK
    <2>3. [path |-> new.path, rows |-> new.rows] \in files[p] BY <1>3, <1>4
    <2>4. QED BY <1>7, <2>1, <2>2, <2>3 DEF SegInv, FilesOK
  <1>10. FlushOK' BY DEF SegInv, FlushOK, IsFirst, InsertSegment, Inv, TypeOK, ProcessTypes
  <1>11. PruneOK'
    <2>1. prune' = prune /\ files' = files BY DEF InsertSegment
    <2>2. prune.stage \in {"scan", "swap", "remove"} => manifest'[prune.proj] = manifest[prune.proj]
      BY <1>1, <1>7, FlushAlone
    <2>3. QED BY <2>1, <2>2 DEF SegInv, PruneOK, Straddles, EntirelyOld, Older, PrunedPath
  <1>12. MergeOK'
    <2>1. compact' = compact /\ files' = files BY DEF InsertSegment
    <2>2. compact.stage = "remove" => manifest'[compact.cur.proj] = manifest[compact.cur.proj]
      BY <1>1, <1>7, FlushAlone
    <2>3. QED BY <2>1, <2>2 DEF SegInv, MergeOK
  <1>13. PlanOK' BY DEF SegInv, PlanOK, InsertSegment
  <1>14. ListOK'
    <2>1. FiniteFiles(manifest[p] \cup {new})
      BY <1>3, FS_AddElement DEF SegInv, ListOK, FiniteFiles, Inv, FiniteRows
    <2>2. \A q \in Projects : FiniteFiles(manifest'[q])
      BY <1>7, <2>1 DEF SegInv, ListOK
    <2>3. ASSUME NEW q \in Projects, NEW e1 \in manifest'[q], NEW e2 \in manifest'[q],
                 SameMerge(e1.path, e2.path), e1.path.shard < e2.path.shard
          PROVE  \A r1 \in e1.rows, r2 \in e2.rows : r1.ts <= r2.ts
      <3>1. e1.path.kind = "merged" /\ e2.path.kind = "merged"
        <4>1. e1.path \in Path BY <1>3, <1>7, InUseType, FlushPathType DEF InsertSegment,
                 Entry, Inv, TypeOK, ProcessTypes, WalTypes, Row, path
        <4>2. QED BY <2>3, <4>1 DEF SameMerge, Path
      <3>2. e1 \in manifest[q] /\ e2 \in manifest[q] BY <1>3, <1>7, <3>1
      <3>3. QED BY <2>3, <3>2 DEF SegInv, ListOK, ShardsOrdered
    <2>4. ShardsOrdered' BY <2>3 DEF ShardsOrdered, SameMerge
    <2>5. QED BY <2>2, <2>4 DEF ListOK
  <1>15. DownOK' BY <1>1 DEF DownOK, InsertSegment
  <1>16. QED BY <1>8, <1>9, <1>10, <1>11, <1>12, <1>13, <1>14, <1>15 DEF SegInv

\* SegmentFails preserves SegInv.
LEMMA SegmentFailsStep ==
  ASSUME Inv, SegInv, NEW p \in Projects, SegmentFails(p) PROVE SegInv'
  <1>1. stage[p] = "written" /\ phase = "up" BY FlushAlone DEF SegmentFails
  <1>2. /\ stage' = [stage EXCEPT ![p] = "none"]
        /\ prune' = prune \/ prune' = IdlePrune
        /\ UNCHANGED <<manifest, nextMid, compact, phase, mem, nextLogID, writer, seq, walBuf>>
    BY DEF SegmentFails, EndFlush
  <1>3. ASSUME NEW f \in files[p], f \notin files'[p]
        PROVE  f.path.kind = "flush" /\ \A e \in InUse(p) : e.path # f.path
    <2>1. PICK r \in mem[p] : f.path = FlushPath(seq[p], r.id)
      BY <1>3 DEF SegmentFails, Without, Inv, TypeOK, SegTypes
    <2>2. Flushes(p) < seq[p] /\ seq[p] \in Nat BY <1>1 DEF Flushes, Inv, TypeOK, ProcessTypes
    <2>3. ASSUME NEW e \in InUse(p) PROVE e.path # f.path
      BY <1>1, <2>1, <2>2, FreshFlush DEF FlushPath
    <2>4. QED BY <2>1, <2>3 DEF FlushPath
  <1>4. files'[p] \subseteq files[p] /\ \A q \in Projects \ {p} : files'[q] = files[q]
    BY DEF SegmentFails, Without, Inv, TypeOK, SegTypes
  <1>5. \A q \in Projects : InUse(q)' \subseteq InUse(q) /\ manifest'[q] = manifest[q]
    BY <1>2 DEF InUse, Planned, Waiting, InPrune, IdlePrune
  <1>6. Names'
    <2>1. ASSUME NEW q \in Projects, NEW e \in InUse(q)', e.path.kind = "flush"
          PROVE  (e.path.num <= Flushes(q) \/ Above(q, e.path.first))'
      <3>1. e.path.num <= Flushes(q) \/ Above(q, e.path.first)
        BY <1>1, <1>5, <2>1 DEF SegInv, Names, NameOK
      <3>2. Flushes(q) <= Flushes(q)' /\ Flushes(q) \in Int /\ Flushes(q)' \in Int
        BY <1>1, <1>2 DEF Flushes, Inv, TypeOK, ProcessTypes
      <3>3. Above(q, e.path.first)' <=> Above(q, e.path.first) BY <1>2 DEF Above
      <3>4. e.path.num \in Nat BY <1>5, <2>1, InUseType DEF Entry, Path
      <3>5. QED BY <3>1, <3>2, <3>3, <3>4
    <2>2. nextMid \in Nat BY DEF Inv, TypeOK, SegTypes
    <2>3. QED BY <1>2, <1>5, <2>1, <2>2, InUseType, NamesKept DEF SegInv
  <1>7. FilesOK'
    <2>1. \A q \in Projects : files'[q] \subseteq files[q] BY <1>4
    <2>2. \A q \in Projects : \A f \in files[q] : f \in files'[q] \/ \A e \in manifest'[q] : e.path # f.path
      BY <1>3, <1>4, <1>5 DEF InUse
    <2>3. \A q \in Projects : \A f, g \in files'[q] : f.path = g.path => f = g
      BY <2>1 DEF SegInv, FilesOK
    <2>4. QED BY <1>5, <2>1, <2>2, <2>3, FilesKept DEF SegInv
  <1>8. FlushOK'
    <2>1. ASSUME NEW q \in Projects, stage'[q] = "written"
          PROVE  q # p /\ stage[q] = "written" /\ files'[q] = files[q]
      BY <1>2, <1>4, <2>1 DEF Inv, TypeOK, ProcessTypes
    <2>2. QED BY <1>2, <2>1 DEF SegInv, FlushOK, IsFirst
  <1>9. PruneOK'
    <2>1. CASE prune' = IdlePrune BY <2>1 DEF PruneOK, IdlePrune
    <2>2. CASE prune' = prune
      <3>1. prune.stage = "swap" => files'[prune.proj] = files[prune.proj]
        BY <1>1, <1>4, FlushAlone
      <3>2. QED BY <1>2, <2>2, <3>1 DEF SegInv, PruneOK, Straddles, EntirelyOld, Older, PrunedPath
    <2>3. QED BY <1>2, <2>1, <2>2
  <1>10. MergeOK'
    <2>1. ASSUME compact.stage = "built" PROVE compact.new \subseteq files'[compact.cur.proj]
      <3>1. compact.new \subseteq files[compact.cur.proj] /\ \A f \in compact.new : f.path.kind = "merged"
        BY <2>1 DEF SegInv, MergeOK, NamedAfter
      <3>2. compact.cur.proj \in Projects BY <2>1, Pinned
      <3>3. QED BY <1>3, <1>4, <3>1, <3>2
    <2>2. QED BY <1>2, <2>1 DEF SegInv, MergeOK
  <1>11. PlanOK' BY <1>2 DEF SegInv, PlanOK
  <1>12. ListOK' BY <1>2 DEF SegInv, ListOK, ShardsOrdered
  <1>13. DownOK' BY <1>1, <1>2 DEF DownOK
  <1>14. QED BY <1>6, <1>7, <1>8, <1>9, <1>10, <1>11, <1>12, <1>13 DEF SegInv

-----------------------------------------------------------------------------
(* Prune *)

\* Where nothing comes into use the names stay apart.
LEMMA NamesShrink ==
  ASSUME Inv, SegInv, phase = "up", UNCHANGED <<phase, seq, stage, nextLogID, mem, writer, nextMid>>,
         \A p \in Projects : InUse(p)' \subseteq InUse(p) /\ manifest'[p] \subseteq manifest[p]
  PROVE  Names'
  <1>1. ASSUME NEW p \in Projects, NEW e \in InUse(p)', e.path.kind = "flush"
        PROVE  (e.path.num <= Flushes(p) \/ Above(p, e.path.first))'
    <2>1. e.path.num <= Flushes(p) \/ Above(p, e.path.first)
      BY <1>1 DEF SegInv, Names, NameOK
    <2>2. Flushes(p)' = Flushes(p) BY DEF Flushes
    <2>3. Above(p, e.path.first)' <=> Above(p, e.path.first) BY DEF Above
    <2>4. QED BY <2>1, <2>2, <2>3
  <1>2. nextMid \in Nat BY DEF Inv, TypeOK, SegTypes
  <1>3. QED BY <1>1, <1>2, InUseType, NamesKept DEF SegInv

\* With fewer listed, the listed stay finite and ordered.
LEMMA ListShrinks ==
  ASSUME SegInv, \A p \in Projects : manifest'[p] \subseteq manifest[p]
  PROVE  ListOK'
  <1>1. \A p \in Projects : FiniteFiles(manifest'[p])
    BY FS_Subset DEF SegInv, ListOK, FiniteFiles
  <1>2. ShardsOrdered' BY DEF SegInv, ListOK, ShardsOrdered
  <1>3. QED BY <1>1, <1>2 DEF ListOK

\* PruneLock preserves SegInv.
LEMMA PruneLockStep ==
  ASSUME Inv, SegInv, NEW p \in Projects, PruneLock(p) PROVE SegInv'
  <1>1. /\ phase = "up" /\ UNCHANGED <<phase, seq, stage, nextLogID, mem, writer, walBuf, manifest, files, nextMid, compact>>
        /\ prune'.stage = "scan" /\ prune'.proj = p /\ prune'.todo \subseteq manifest[p]
    BY DEF PruneLock, SegInv, DownOK, IdlePrune, Inv, TypeOK, ProcessTypes, PruneTypes
  <1>2. \A q \in Projects : InUse(q)' \subseteq InUse(q) /\ manifest'[q] \subseteq manifest[q]
    BY <1>1 DEF InUse, Planned, Waiting, InPrune
  <1>3. Names' BY <1>1, <1>2, NamesShrink
  <1>4. FilesOK'
    <2>1. \A q \in Projects : \A f \in files[q] : f \in files'[q] BY <1>1
    <2>2. QED BY <1>1, <1>2, <2>1, FilesKept DEF SegInv, FilesOK
  <1>5. PruneOK' BY <1>1 DEF PruneOK
  <1>6. FlushOK' /\ PlanOK' /\ MergeOK' /\ DownOK'
    BY <1>1 DEF SegInv, FlushOK, PlanOK, MergeOK, DownOK, IsFirst
  <1>7. ListOK' BY <1>2, ListShrinks
  <1>8. QED BY <1>3, <1>4, <1>5, <1>6, <1>7 DEF SegInv

\* PruneDrop preserves SegInv.
LEMMA PruneDropStep ==
  ASSUME Inv, SegInv, NEW p \in Projects, NEW e \in prune.todo, PruneDrop(p, e) PROVE SegInv'
  <1>1. /\ phase = "up" /\ UNCHANGED <<phase, seq, stage, nextLogID, mem, writer, walBuf, files, nextMid, compact>>
        /\ prune.stage = "scan" /\ prune.proj = p
        /\ prune'.stage = "remove" /\ prune'.proj = p /\ prune'.todo = prune.todo \ {e} /\ prune'.cur = e
        /\ manifest'[p] = manifest[p] \ {e}
        /\ \A q \in Projects \ {p} : manifest'[q] = manifest[q]
    BY DEF PruneDrop, SegInv, DownOK, IdlePrune, Inv, TypeOK, ProcessTypes, PruneTypes, SegTypes
  <1>2. e \in manifest[p] BY <1>1 DEF SegInv, PruneOK
  <1>3. \A q \in Projects : InUse(q)' \subseteq InUse(q) /\ manifest'[q] \subseteq manifest[q]
    BY <1>1, <1>2 DEF InUse, Planned, Waiting, InPrune
  <1>4. Names' BY <1>1, <1>3, NamesShrink
  <1>5. FilesOK'
    <2>1. \A q \in Projects : \A f \in files[q] : f \in files'[q] BY <1>1
    <2>2. QED BY <1>1, <1>3, <2>1, FilesKept DEF SegInv, FilesOK
  <1>6. PruneOK'
    <2>1. prune.todo \subseteq manifest[p] BY <1>1 DEF SegInv, PruneOK
    <2>2. \A x \in manifest[p] : x.path = e.path => x = e
      BY <1>2 DEF SegInv, Names, Apart, InUse
    <2>3. \A x \in manifest'[p] : x.path # e.path BY <1>1, <2>2
    <2>4. prune'.todo \subseteq manifest'[p] BY <1>1, <2>1
    <2>5. QED BY <1>1, <2>3, <2>4 DEF PruneOK
  <1>7. FlushOK' /\ PlanOK' /\ DownOK'
    BY <1>1 DEF SegInv, FlushOK, PlanOK, DownOK, IsFirst
  <1>8. MergeOK' BY <1>1, <1>3, Pinned DEF SegInv, MergeOK
  <1>9. ListOK' BY <1>3, ListShrinks
  <1>10. QED BY <1>4, <1>5, <1>6, <1>7, <1>8, <1>9 DEF SegInv

\* A rewrite counts up in the name and keeps the rest.
LEMMA RewrittenName ==
  ASSUME NEW path \in Path
  PROVE  /\ PrunedPath(path) \in Path /\ PrunedPath(path).pruned = path.pruned + 1
         /\ PrunedPath(path).kind = path.kind /\ PrunedPath(path).num = path.num
         /\ PrunedPath(path).first = path.first /\ PrunedPath(path).shard = path.shard
         /\ Base(PrunedPath(path)) = Base(path)
  <1>1. /\ PrunedPath(path) \in Path /\ PrunedPath(path).pruned = path.pruned + 1
        /\ PrunedPath(path).kind = path.kind /\ PrunedPath(path).num = path.num
        /\ PrunedPath(path).first = path.first /\ PrunedPath(path).shard = path.shard
    BY DEF PrunedPath, Path
  <1>2. Base(PrunedPath(path)) = Base(path) BY Zenon DEF Base, PrunedPath, Path
  <1>3. QED BY <1>1, <1>2

\* Being of one merge is a matter of the bases.
LEMMA SameMergeBase ==
  ASSUME NEW a \in Path, NEW b \in Path, NEW x \in Path, NEW y \in Path,
         Base(a) = Base(x), Base(b) = Base(y), a.shard = x.shard, b.shard = y.shard,
         SameMerge(a, b)
  PROVE  SameMerge(x, y)
  <1>1. /\ a.kind = x.kind /\ a.key = x.key /\ a.first = x.first /\ a.num = x.num
        /\ b.kind = y.kind /\ b.key = y.key /\ b.first = y.first /\ b.num = y.num
    BY DEF Base, Path
  <1>2. a.kind = "merged" /\ a.kind = b.kind /\ a.key = b.key /\ a.first = b.first /\ a.num = b.num
    BY DEF SameMerge, Path
  <1>3. x.kind = "merged" /\ x.kind = y.kind /\ x.key = y.key /\ x.first = y.first /\ x.num = y.num
    BY <1>1, <1>2
  <1>4. [x EXCEPT !.shard = y.shard, !.pruned = y.pruned] = y
    BY <1>3 DEF Path
  <1>5. QED BY <1>3, <1>4 DEF SameMerge

\* The name of the rewritten segment is in nobody's use.
LEMMA FreshRewrite ==
  ASSUME Inv, SegInv, NEW p \in Projects, NEW e \in manifest[p], NEW x \in InUse(p)
  PROVE  /\ x.path # PrunedPath(e.path)
         /\ Base(x.path) = Base(PrunedPath(e.path)) => x = e \/ x.path.pruned < e.path.pruned
         /\ e.path \in Path /\ x.path \in Path /\ PrunedPath(e.path) \in Path
         /\ PrunedPath(e.path).pruned = e.path.pruned + 1
  <1>1. e.path \in Path /\ x.path \in Path BY InUseType DEF Entry
  <1>2. /\ PrunedPath(e.path).pruned = e.path.pruned + 1 /\ PrunedPath(e.path) \in Path
        /\ Base(PrunedPath(e.path)) = Base(e.path) /\ e.path.pruned \in Nat
    BY <1>1, RewrittenName DEF Path
  <1>3. Base(e.path) = Base(x.path) => e = x \/ x.path.pruned < e.path.pruned
    BY DEF SegInv, Names, Later
  <1>4. x.path.pruned \in Nat BY <1>1 DEF Path
  <1>5. QED BY <1>1, <1>2, <1>3, <1>4
\* PruneRewrite preserves SegInv.
LEMMA PruneRewriteStep ==
  ASSUME Inv, SegInv, NEW p \in Projects, NEW e \in prune.todo, PruneRewrite(p, e) PROVE SegInv'
  <1>1. /\ phase = "up"
        /\ UNCHANGED <<phase, seq, stage, nextLogID, mem, writer, walBuf, manifest, nextMid, compact>>
        /\ prune.stage = "scan" /\ prune.proj = p /\ Straddles(e, prune.cutoff)
        /\ prune'.stage = "swap" /\ prune'.proj = p /\ prune'.todo = prune.todo
        /\ prune'.cur = e /\ prune'.cutoff = prune.cutoff
    BY DEF PruneRewrite, SegInv, DownOK, IdlePrune, Inv, TypeOK, ProcessTypes, PruneTypes
  <1>2. e \in manifest[p] /\ prune.todo \subseteq manifest[p] BY <1>1 DEF SegInv, PruneOK
  <1> DEFINE path == PrunedPath(e.path)
             new == [path |-> path, rows |-> e.rows \ Older(e.rows, prune.cutoff)]
  <1>3. files'[p] = {f \in files[p] : f.path # path} \cup {new}
        /\ \A q \in Projects \ {p} : files'[q] = files[q]
    <2>1. PICK f \in files[p] :
            /\ f.path = e.path
            /\ files' = [files EXCEPT ![p] = Put(@, path, f.rows \ Older(f.rows, prune.cutoff))]
      BY DEF PruneRewrite
    <2>2. f.rows = e.rows BY <1>2, <2>1 DEF SegInv, FilesOK, InUse
    <2>3. QED BY <2>1, <2>2 DEF Put, Inv, TypeOK, SegTypes
  <1>4. \A x \in InUse(p) : x.path # path BY <1>2, FreshRewrite
  <1>5. path.pruned # 0
    <2>1. e.path \in Path BY <1>2, InUseType DEF Entry
    <2>2. QED BY <2>1, RewrittenName DEF Path
  <1>6. \A q \in Projects : InUse(q)' \subseteq InUse(q) /\ manifest'[q] = manifest[q]
    BY <1>1, <1>2 DEF InUse, Planned, Waiting, InPrune
  <1>7. stage[p] = "none" BY <1>1, Pinned
  <1> HIDE DEF path
  <1>8. Names' BY <1>1, <1>6, NamesShrink
  <1>9. FilesOK'
    <2>0. new.path = path OBVIOUS
    <2>1. \A q \in Projects : \A f, g \in files'[q] : f.path = g.path => f = g
      <3> HIDE DEF new
      <3>1. \A q \in Projects : \A f, g \in files[q] : f.path = g.path => f = g
        BY DEF SegInv, FilesOK
      <3>2. QED BY <1>3, <2>0, <3>1
    <2>2. \A q \in Projects : \A f \in files'[q] : f \in files[q] \/ \A x \in InUse(q)' : x.path # f.path
      BY <1>3, <1>4, <1>6
    <2>3. \A q \in Projects : \A f \in files[q] : f \in files'[q] \/ \A x \in manifest'[q] : x.path # f.path
      BY <1>3, <1>4, <1>6 DEF InUse
    <2>4. QED BY <1>6, <2>1, <2>2, <2>3, FilesKept DEF SegInv
  <1>10. FlushOK'
    <2>1. \A q \in Projects : stage'[q] = "written" => q # p BY <1>1, <1>7
    <2>2. QED BY <1>1, <1>3, <2>1 DEF SegInv, FlushOK, IsFirst
  <1>11. PruneOK'
    <2>1. new \in files'[p] BY <1>3
    <2>2. QED BY <1>1, <1>2, <2>1 DEF PruneOK, Straddles, EntirelyOld, Older, PrunedPath, path
  <1>12. MergeOK'
    <2>1. ASSUME compact.stage = "built" PROVE compact.new \subseteq files'[compact.cur.proj]
      <3>1. compact.new \subseteq files[compact.cur.proj] /\ \A f \in compact.new : f.path.pruned = 0
        BY <2>1 DEF SegInv, MergeOK, NamedAfter
      <3>2. compact.cur.proj \in Projects BY <2>1, Pinned
      <3>3. QED BY <1>3, <1>5, <3>1, <3>2
    <2>2. QED BY <1>1, <2>1 DEF SegInv, MergeOK
  <1>13. PlanOK' /\ DownOK' BY <1>1 DEF SegInv, PlanOK, DownOK
  <1>14. ListOK' BY <1>6, ListShrinks
  <1>15. QED BY <1>8, <1>9, <1>10, <1>11, <1>12, <1>13, <1>14 DEF SegInv

\* PruneSwap preserves SegInv.
LEMMA PruneSwapStep ==
  ASSUME Inv, SegInv, NEW p \in Projects, PruneSwap(p) PROVE SegInv'
  <1> DEFINE e == prune.cur
             path == PrunedPath(e.path)
             new == [mid |-> nextMid + 1, path |-> path, rows |-> e.rows \ Older(e.rows, prune.cutoff)]
  <1>1. /\ phase = "up"
        /\ UNCHANGED <<phase, seq, stage, nextLogID, mem, writer, walBuf, files, compact>>
        /\ prune.stage = "swap" /\ prune.proj = p
        /\ prune'.stage = "remove" /\ prune'.proj = p /\ prune'.todo = prune.todo \ {e}
        /\ prune'.cur = e /\ prune'.cutoff = prune.cutoff
        /\ manifest'[p] = (manifest[p] \ {e}) \cup {new}
        /\ \A q \in Projects \ {p} : manifest'[q] = manifest[q]
        /\ nextMid \in Nat /\ nextMid' = nextMid + 1
    BY DEF PruneSwap, SegInv, DownOK, IdlePrune, Inv, TypeOK, ProcessTypes, PruneTypes, SegTypes
  <1>2. /\ e \in prune.todo /\ prune.todo \subseteq manifest[p] /\ Straddles(e, prune.cutoff)
        /\ [path |-> path, rows |-> new.rows] \in files[p]
    BY <1>1 DEF SegInv, PruneOK
  <1>3. e \in manifest[p] BY <1>2
  <1>4. ASSUME NEW x \in InUse(p)
        PROVE  /\ x.path # path /\ x.mid # new.mid /\ x.path \in Path
               /\ Base(x.path) = Base(path) => x = e \/ x.path.pruned < e.path.pruned
               /\ x.path.kind = "merged" => x.path.num # new.mid
    <2>1. x \in Entry BY InUseType
    <2>2. x.mid \in Nat /\ x.path.num \in Nat BY <2>1 DEF Entry, Path
    <2>3. NameOK(p, x) BY DEF SegInv, Names
    <2>4. QED BY <1>1, <1>3, <2>2, <2>3, FreshRewrite DEF NameOK
  <1>5. /\ new.mid = nextMid + 1 /\ new.path = path
        /\ path \in Path /\ e.path \in Path /\ e.rows \subseteq Row
        /\ path.kind = e.path.kind /\ path.num = e.path.num /\ path.first = e.path.first
        /\ path.shard = e.path.shard
        /\ path.pruned = e.path.pruned + 1 /\ e.path.pruned \in Nat /\ Base(path) = Base(e.path)
    <2>1. e.path \in Path /\ e.rows \subseteq Row /\ e.path.pruned \in Nat
      BY <1>3, InUseType DEF Entry, Path
    <2>2. QED BY <2>1, RewrittenName
  <1>6. new.rows # {} /\ new.rows \subseteq e.rows
    BY <1>2 DEF Straddles, EntirelyOld, Older
  <1>7. /\ InUse(p)' \subseteq InUse(p) \cup {new}
        /\ \A q \in Projects \ {p} : InUse(q)' = InUse(q)
    BY <1>1, <1>3 DEF InUse, Planned, Waiting, InPrune
  <1> HIDE DEF path, new, e
  <1>8. Names'
    <2>1. ASSUME NEW q \in Projects, NEW x \in InUse(q)' PROVE NameOK(q, x)'
      <3>0. Flushes(q)' = Flushes(q) BY <1>1 DEF Flushes
      <3>1. CASE x \in InUse(q)
        <4>1. NameOK(q, x) /\ x \in Entry BY <3>1, InUseType DEF SegInv, Names
        <4>2. x.mid \in Nat /\ x.path.num \in Nat BY <4>1 DEF Entry, Path
        <4>3. Above(q, x.path.first)' <=> Above(q, x.path.first) BY <1>1 DEF Above
        <4>4. QED BY <1>1, <3>0, <4>1, <4>2, <4>3 DEF NameOK
      <3>2. CASE q = p /\ x = new
        <4>1. NameOK(p, e) /\ e \in Entry BY <1>3, InUseType DEF SegInv, Names, InUse
        <4>2. e.path.num \in Nat BY <4>1 DEF Entry, Path
        <4>3. x.mid <= nextMid' /\ (x.path.kind = "merged" => x.path.num <= nextMid')
          BY <1>1, <1>5, <3>2, <4>1, <4>2 DEF NameOK
        <4>4. x.path.kind = "flush" => x.rows # {} /\ \A r \in x.rows : x.path.first <= r.id
          BY <1>5, <1>6, <3>2, <4>1 DEF NameOK
        <4>5. x.path.kind = "flush" => x.path.num <= Flushes(q)' \/ Above(q, x.path.first)
          BY <1>1, <1>5, <3>0, <3>2, <4>1 DEF NameOK
        <4>6. Above(q, x.path.first)' <=> Above(q, x.path.first) BY <1>1 DEF Above
        <4>7. QED BY <4>3, <4>4, <4>5, <4>6 DEF NameOK
      <3>3. QED BY <1>7, <3>1, <3>2
    <2>2. ASSUME NEW x \in InUse(p)
          PROVE  Apart(x, new) /\ Apart(new, x) /\ Later(new, x) /\ (x \in manifest[p] \ {e} => Later(x, new))
      <3>1. x.path # new.path /\ x.mid # new.mid /\ (x.path.kind = "merged" => x.path.num # new.mid)
        BY <1>4, <1>5
      <3>2. Apart(e, x) BY <1>3 DEF SegInv, Names, InUse
      <3>3. Apart(x, new) /\ Apart(new, x) BY <1>5, <3>1, <3>2 DEF Apart
      <3>4. x.path.pruned \in Nat BY <1>4 DEF Path
      <3>5. Later(new, x) BY <1>4, <1>5, <3>4 DEF Later
      <3>6. ASSUME x \in manifest[p] \ {e} PROVE Base(x.path) # Base(e.path)
        <4>1. Later(x, e) /\ Later(e, x)
          BY <1>3, <3>6 DEF SegInv, Names, InUse
        <4>2. QED BY <1>5, <3>4, <3>6, <4>1 DEF Later
      <3>7. QED BY <1>5, <3>3, <3>5, <3>6 DEF Later
    <2>3. Apart(new, new) /\ Later(new, new)
      <3>1. new.path.kind = "merged" => new.path.num # new.mid
        <4>1. NameOK(p, e) /\ e.path.num \in Nat BY <1>3, <1>5 DEF SegInv, Names, InUse, Path
        <4>2. QED BY <1>1, <1>5, <4>1 DEF NameOK
      <3>2. QED BY <3>1 DEF Apart, Later
    <2>4. ASSUME NEW q \in Projects
          PROVE  /\ \A e1, e2 \in InUse(q)' : Apart(e1, e2)
                 /\ \A e1 \in manifest'[q], e2 \in InUse(q)' : Later(e1, e2)
      <3>1. manifest[q] \subseteq InUse(q) BY DEF InUse
      <3>2. QED BY <1>1, <1>7, <2>2, <2>3, <3>1 DEF SegInv, Names
    <2>5. \A q \in Projects : (\A e1, e2 \in InUse(q) : Apart(e1, e2))' BY <2>4 DEF Apart
    <2>6. \A q \in Projects : (\A e1 \in manifest[q], e2 \in InUse(q) : Later(e1, e2))'
      BY <2>4 DEF Later, Base
    <2>7. QED BY <2>1, <2>5, <2>6 DEF Names
  <1>9. FilesOK'
    <2>1. [path |-> new.path, rows |-> new.rows] \in files[p] BY <1>2, <1>5
    <2>2. \A f \in files[p] : f.path = new.path => f.rows = new.rows
      BY <2>1 DEF SegInv, FilesOK
    <2>3. QED BY <1>1, <1>7, <2>1, <2>2 DEF SegInv, FilesOK
  <1>10. PruneOK'
    <2>1. \A x \in manifest[p] : x.path = e.path => x = e
      BY <1>3 DEF SegInv, Names, Apart, InUse
    <2>2. new.path # e.path BY <1>3, <1>4, <1>5 DEF InUse
    <2>3. \A x \in manifest'[p] : x.path # e.path BY <1>1, <2>1, <2>2
    <2>4. prune'.todo \subseteq manifest'[p] BY <1>1, <1>2
    <2>5. QED BY <1>1, <2>3, <2>4 DEF PruneOK
  <1>11. FlushOK' BY <1>1 DEF SegInv, FlushOK, IsFirst
  <1>12. PlanOK' /\ DownOK' BY <1>1 DEF SegInv, PlanOK, DownOK
  <1>13. MergeOK'
    <2>1. compact.stage = "remove" => manifest'[compact.cur.proj] = manifest[compact.cur.proj]
      BY <1>1, Pinned
    <2>2. QED BY <1>1, <2>1 DEF SegInv, MergeOK
  <1>14. ListOK'
    <2>1. FiniteFiles(manifest'[p])
      <3>1. IsFiniteSet(manifest[p] \ {e}) /\ IsFiniteSet(new.rows)
        BY <1>3, <1>6, FS_Subset DEF SegInv, ListOK, FiniteFiles
      <3>2. IsFiniteSet(manifest'[p]) BY <1>1, <3>1, FS_AddElement
      <3>3. QED BY <1>1, <3>1, <3>2 DEF SegInv, ListOK, FiniteFiles
    <2>2. ASSUME NEW e1 \in manifest'[p]
          PROVE  \E x \in manifest[p] :
                   /\ e1.rows \subseteq x.rows /\ x.path \in Path /\ e1.path \in Path
                   /\ Base(e1.path) = Base(x.path) /\ e1.path.shard = x.path.shard
      <3>1. CASE e1 = new BY <1>3, <1>5, <1>6, <3>1
      <3>2. CASE e1 \in manifest[p]
        <4>1. e1.path \in Path BY <1>4, <3>2 DEF InUse
        <4>2. QED BY <3>2, <4>1
      <3>3. QED BY <1>1, <3>1, <3>2
    <2>3. ASSUME NEW e1 \in manifest'[p], NEW e2 \in manifest'[p],
                 SameMerge(e1.path, e2.path), e1.path.shard < e2.path.shard
          PROVE  \A r1 \in e1.rows, r2 \in e2.rows : r1.ts <= r2.ts
      <3>1. PICK x1 \in manifest[p] :
                   /\ e1.rows \subseteq x1.rows /\ x1.path \in Path /\ e1.path \in Path
                   /\ Base(e1.path) = Base(x1.path) /\ e1.path.shard = x1.path.shard
        BY <2>2
      <3>2. PICK x2 \in manifest[p] :
                   /\ e2.rows \subseteq x2.rows /\ x2.path \in Path /\ e2.path \in Path
                   /\ Base(e2.path) = Base(x2.path) /\ e2.path.shard = x2.path.shard
        BY <2>2
      <3>3. SameMerge(x1.path, x2.path) BY <2>3, <3>1, <3>2, SameMergeBase
      <3>4. \A r1 \in x1.rows, r2 \in x2.rows : r1.ts <= r2.ts
        BY <2>3, <3>1, <3>2, <3>3 DEF SegInv, ListOK, ShardsOrdered
      <3>5. QED BY <3>1, <3>2, <3>4
    <2>4. ASSUME NEW q \in Projects
          PROVE  /\ FiniteFiles(manifest'[q])
                 /\ \A e1, e2 \in manifest'[q] :
                      SameMerge(e1.path, e2.path) /\ e1.path.shard < e2.path.shard =>
                        \A r1 \in e1.rows, r2 \in e2.rows : r1.ts <= r2.ts
      BY <1>1, <2>1, <2>3 DEF SegInv, ListOK, ShardsOrdered
    <2>5. ShardsOrdered' BY <2>4 DEF ShardsOrdered, SameMerge
    <2>6. QED BY <2>4, <2>5 DEF ListOK
  <1>15. QED BY <1>8, <1>9, <1>10, <1>11, <1>12, <1>13, <1>14 DEF SegInv
\* A prune that lets go of its segment, and perhaps of a file nobody lists.
LEMMA PruneLetsGo ==
  ASSUME Inv, SegInv, NEW p \in Projects, prune.stage \in {"scan", "swap", "remove"}, prune.proj = p,
         UNCHANGED <<seq, stage, nextLogID, mem, writer, walBuf, manifest, nextMid, compact, phase>>,
         \/ prune' = IdlePrune
         \/ prune'.stage = "scan" /\ prune'.proj = p /\ prune'.todo = prune.todo,
         files'[p] \subseteq files[p], \A q \in Projects \ {p} : files'[q] = files[q],
         \A f \in files[p] \ files'[p] :
           /\ \A e \in manifest[p] : e.path # f.path
           /\ compact.stage = "built" /\ compact.cur.proj = p => f \notin compact.new
  PROVE  SegInv'
  <1>1. phase = "up" /\ stage[p] = "none" /\ prune.todo \subseteq manifest[p]
    BY Pinned DEF SegInv, PruneOK, DownOK, IdlePrune, Inv, TypeOK, ProcessTypes
  <1>2. prune'.stage \in {"idle", "scan"} BY DEF IdlePrune
  <1>3. \A q \in Projects : InUse(q)' \subseteq InUse(q) /\ manifest'[q] = manifest[q]
    BY <1>2 DEF InUse, Planned, Waiting, InPrune
  <1>5. Names' BY <1>1, <1>3, NamesShrink
  <1>6. FilesOK'
    <2>1. \A q \in Projects : files'[q] \subseteq files[q] OBVIOUS
    <2>2. \A q \in Projects : \A f \in files[q] : f \in files'[q] \/ \A e \in manifest'[q] : e.path # f.path
      BY <1>3
    <2>3. \A q \in Projects : \A f, g \in files'[q] : f.path = g.path => f = g
      BY <2>1 DEF SegInv, FilesOK
    <2>4. QED BY <1>3, <2>1, <2>2, <2>3, FilesKept DEF SegInv
  <1>7. FlushOK'
    <2>1. \A q \in Projects : stage'[q] = "written" => q # p BY <1>1
    <2>2. QED BY <2>1 DEF SegInv, FlushOK, IsFirst
  <1>8. PruneOK' BY <1>1, <1>2 DEF PruneOK, IdlePrune
  <1>9. MergeOK'
    <2>1. ASSUME compact.stage = "built" PROVE compact.new \subseteq files'[compact.cur.proj]
      <3>1. compact.new \subseteq files[compact.cur.proj] BY <2>1 DEF SegInv, MergeOK
      <3>2. compact.cur.proj \in Projects BY <2>1, Pinned
      <3>3. QED BY <2>1, <3>1, <3>2
    <2>2. QED BY <2>1 DEF SegInv, MergeOK
  <1>10. PlanOK' /\ DownOK' BY <1>1 DEF SegInv, PlanOK, DownOK
  <1>11. ListOK' BY <1>3, ListShrinks
  <1>12. QED BY <1>5, <1>6, <1>7, <1>8, <1>9, <1>10, <1>11 DEF SegInv

\* The merge at hand is named after a segment in use, so not like one.
LEMMA FreshMerge ==
  ASSUME Inv, SegInv, NEW p \in Projects, NEW m \in InUse(p), NEW x \in InUse(p),
         x.path.kind = "merged"
  PROVE  x.path.num # m.mid
  BY DEF SegInv, Names, Apart

\* PruneFails preserves SegInv.
LEMMA PruneFailsStep ==
  ASSUME Inv, SegInv, NEW p \in Projects, PruneFails(p) PROVE SegInv'
  <1>1. /\ prune.stage \in {"scan", "swap"} /\ prune.proj = p /\ prune' = IdlePrune
        /\ UNCHANGED <<seq, stage, nextLogID, mem, writer, walBuf, manifest, nextMid, compact, phase>>
    BY DEF PruneFails
  <1>2. CASE files' = files BY <1>1, <1>2, PruneLetsGo
  <1>3. CASE prune.stage = "swap" /\ files' = [files EXCEPT ![p] = Without(@, {PrunedPath(prune.cur.path)})]
    <2> DEFINE path == PrunedPath(prune.cur.path)
    <2>1. prune.cur \in manifest[p] BY <1>1, <1>3 DEF SegInv, PruneOK
    <2>2. \A e \in manifest[p] : e.path # path BY <2>1, FreshRewrite DEF InUse
    <2>3. path.pruned # 0
      <3>1. prune.cur.path \in Path BY <2>1, InUseType DEF Entry
      <3>2. QED BY <3>1, RewrittenName DEF Path
    <2>4. compact.stage = "built" => \A f \in compact.new : f.path # path
      BY <2>3 DEF SegInv, MergeOK, NamedAfter
    <2> HIDE DEF path
    <2>5. /\ files'[p] \subseteq files[p] /\ \A q \in Projects \ {p} : files'[q] = files[q]
          /\ \A f \in files[p] \ files'[p] : f.path = path
      BY <1>3 DEF path, Without, Inv, TypeOK, SegTypes
    <2>6. QED BY <1>1, <2>2, <2>4, <2>5, PruneLetsGo
  <1>4. files' = files \/ (prune.stage = "swap" /\ files' = [files EXCEPT ![p] = Without(@, {PrunedPath(prune.cur.path)})])
    BY <1>1 DEF PruneFails
  <1>5. QED BY <1>2, <1>3, <1>4

\* PruneRemove preserves SegInv.
LEMMA PruneRemoveStep ==
  ASSUME Inv, SegInv, NEW p \in Projects, PruneRemove(p) PROVE SegInv'
  <1> DEFINE path == prune.cur.path
  <1>1. /\ prune.stage = "remove" /\ prune.proj = p
        /\ prune' = IdlePrune \/ (prune'.stage = "scan" /\ prune'.proj = p /\ prune'.todo = prune.todo)
        /\ UNCHANGED <<seq, stage, nextLogID, mem, writer, walBuf, manifest, nextMid, compact, phase>>
    BY DEF PruneRemove, Inv, TypeOK, PruneTypes
  <1>0. /\ files'[p] \subseteq files[p] /\ \A q \in Projects \ {p} : files'[q] = files[q]
        /\ \A f \in files[p] \ files'[p] : f.path = path
    <2>1. files' = files \/ files' = [files EXCEPT ![p] = Without(@, {path})] BY DEF PruneRemove
    <2>2. QED BY <2>1 DEF Without, Inv, TypeOK, SegTypes
  <1>2. \A e \in manifest[p] : e.path # path BY <1>1 DEF SegInv, PruneOK
  <1>3. ASSUME compact.stage = "built", compact.cur.proj = p, NEW f \in compact.new PROVE f.path # path
    <2>1. PICK m \in compact.cur.members : f.path.kind = "merged" /\ f.path.num = m.mid
      BY <1>3 DEF SegInv, MergeOK, NamedAfter
    <2>2. m \in InUse(p) BY <1>3, Pinned DEF InUse, Planned, Waiting
    <2>3. prune.cur \in InUse(p) BY <1>1 DEF InUse, InPrune
    <2>4. QED BY <2>1, <2>2, <2>3, FreshMerge
  <1> HIDE DEF path
  <1>4. compact.stage = "built" /\ compact.cur.proj = p => \A f \in compact.new : f.path # path
    BY <1>3
  <1>5. QED BY <1>0, <1>1, <1>2, <1>4, PruneLetsGo

-----------------------------------------------------------------------------
(* Merges *)

\* Dividing keeps the order,
LEMMA DivMono ==
  ASSUME NEW a \in Nat, NEW b \in Nat, NEW d \in Nat \ {0}, a <= b PROVE a \div d <= b \div d
  OBVIOUS

\* the ceiling covers what was divided,
LEMMA CeilCovers == ASSUME NEW n \in Nat, NEW d \in Nat \ {0} PROVE n <= d * ((n + d - 1) \div d)
  OBVIOUS

\* and the quotient stays below the bound's.
LEMMA DivBelow ==
  ASSUME NEW a \in Nat, NEW s \in Nat, NEW d \in Nat \ {0}, a < s * d PROVE a \div d < s
  OBVIOUS

\* A finite number of segments has a finite number of rows.
LEMMA FiniteRowsOf == ASSUME NEW es, FiniteFiles(es) PROVE IsFiniteSet(RowsOf(es))
  <1> DEFINE g == [e \in es |-> e.rows]
  <1>1. IsFiniteSet({g[e] : e \in es}) BY ImageFinite DEF FiniteFiles
  <1>2. \A T \in {g[e] : e \in es} : IsFiniteSet(T) BY DEF FiniteFiles
  <1>3. IsFiniteSet(UNION {g[e] : e \in es}) BY <1>1, <1>2, FS_UNION
  <1>4. RowsOf(es) = UNION {g[e] : e \in es} BY DEF RowsOf
  <1>5. QED BY <1>3, <1>4

\* Times and ids are numbers.
LEMMA RowNumbers == ASSUME NEW r \in Row PROVE r.ts \in Int /\ r.id \in Int
  <1>1. Hours \subseteq Nat BY ConstantsAssumption
  <1>2. r.ts \in Hours /\ r.id \in Nat BY DEF Row
  <1>3. r.ts \in Nat BY <1>1, <1>2, Zenon
  <1>4. QED BY <1>2, <1>3

\* A row ranks below the number of rows, and an earlier one no higher.
LEMMA RankBounds ==
  ASSUME NEW rows \in SUBSET Row, IsFiniteSet(rows), NEW x \in rows
  PROVE  /\ Rank(x, rows) \in Nat /\ Rank(x, rows) < Cardinality(rows)
         /\ \A y \in rows : y.ts < x.ts => Rank(y, rows) <= Rank(x, rows)
  <1> DEFINE below(r) == {q \in rows : RowLess(q, r)}
  <1>0. \A r \in rows : r.ts \in Int /\ r.id \in Int BY RowNumbers
  <1>1. \A r : below(r) \subseteq rows /\ IsFiniteSet(below(r)) BY FS_Subset
  <1>2. \A r : Cardinality(below(r)) \in Nat BY <1>1, FS_CardinalityType
  <1>3. x \notin below(x) BY <1>0 DEF RowLess
  <1>4. below(x) # rows BY <1>3
  <1>5. Cardinality(rows) \in Nat BY FS_CardinalityType
  <1>6. Cardinality(below(x)) <= Cardinality(rows) /\ Cardinality(below(x)) # Cardinality(rows)
    BY <1>1, <1>4, FS_Subset
  <1>7. ASSUME NEW y \in rows, y.ts < x.ts PROVE Cardinality(below(y)) <= Cardinality(below(x))
    <2>1. below(y) \subseteq below(x) BY <1>0, <1>7 DEF RowLess
    <2>2. QED BY <1>1, <2>1, FS_Subset
  <1>8. QED BY <1>2, <1>5, <1>6, <1>7 DEF Rank

\* The shards are numbered from 0, below the fewest that hold the rows, and
\* a row in an earlier shard is no later.
LEMMA ShardBounds ==
  ASSUME NEW rows \in SUBSET Row, IsFiniteSet(rows), NEW x \in rows
  PROVE  /\ ShardOf(x, rows) \in 0..(ShardCount(Cardinality(rows)) - 1)
         /\ ShardCount(Cardinality(rows)) \in Nat
         /\ \A y \in rows : ShardOf(x, rows) < ShardOf(y, rows) => x.ts <= y.ts
  <1> DEFINE n == Cardinality(rows)
             s == ShardCount(n)
             d == PerShard(n)
  <1>1. n \in Nat \ {0} BY FS_CardinalityType, FS_EmptySet
  <1>2. s \in Nat \ {0} BY <1>1, CeilPositive, ConstantsAssumption DEF ShardCount
  <1>3. d \in Nat \ {0} BY <1>1, PerShardPositive
  <1>4. n <= s * d BY <1>1, <1>2, CeilCovers DEF PerShard
  <1>5. \A r \in rows : ShardOf(r, rows) = Rank(r, rows) \div d BY DEF ShardOf
  <1> HIDE DEF n, s, d
  <1>6. \A r \in rows : Rank(r, rows) \in Nat /\ Rank(r, rows) < n BY RankBounds DEF n
  <1>7. \A r \in rows : ShardOf(r, rows) \in Nat /\ ShardOf(r, rows) < s
    <2> TAKE r \in rows
    <2>1. s * d \in Nat BY <1>2, <1>3
    <2>2. Rank(r, rows) < s * d BY <1>1, <1>4, <1>6, <2>1
    <2>3. QED BY <1>2, <1>3, <1>5, <1>6, <2>2, DivBelow, DivNat
  <1>8. ASSUME NEW y \in rows, ShardOf(x, rows) < ShardOf(y, rows) PROVE x.ts <= y.ts
    <2>0. x.ts \in Int /\ y.ts \in Int BY RowNumbers
    <2>1. SUFFICES ASSUME y.ts < x.ts PROVE FALSE BY <2>0
    <2>2. Rank(y, rows) <= Rank(x, rows) BY <2>1, RankBounds
    <2>3. ShardOf(y, rows) <= ShardOf(x, rows) BY <1>3, <1>5, <1>6, <2>2, DivMono
    <2>4. QED BY <1>7, <1>8, <2>3
  <1>9. QED BY <1>2, <1>7, <1>8 DEF s, n

\* What a merge reads, once every file is there, is what its members hold.
LEMMA BucketHolds ==
  ASSUME Inv, SegInv, compact.stage = "plan", NEW b \in compact.plan, Complete(b)
  PROVE  BucketRows(b) = RowsOf(b.members)
  <1>1. b.proj \in Projects BY DEF Inv, TypeOK, CompactTypes, Bucket
  <1>2. \A e \in b.members : e \in InUse(b.proj) BY <1>1 DEF InUse, Planned, Waiting
  <1>3. \A e \in b.members, f \in files[b.proj] : f.path = e.path => f.rows = e.rows
    BY <1>1, <1>2 DEF SegInv, FilesOK
  <1>4. QED BY <1>3 DEF BucketRows, FileRows, SegmentPaths, RowsOf, Complete

\* What buildMergedSegments makes of a bucket.
LEMMA MergeShares ==
  ASSUME Inv, SegInv, compact.stage = "plan", NEW b \in compact.plan, Complete(b),
         NEW new \in Merged(b)
  PROVE  /\ NamedAfter(new, b.members) /\ Shares(new, b.members)
         /\ Cardinality(new) < Cardinality(b.members)
  <1> DEFINE rows == BucketRows(b)
  <1>1. b \in Bucket BY DEF Inv, TypeOK, CompactTypes
  <1>2. rows = RowsOf(b.members) BY BucketHolds
  <1>3. rows \in SUBSET Row /\ IsFiniteSet(rows)
    <2>1. IsFiniteSet(RowsOf(b.members)) BY FiniteRowsOf DEF SegInv, PlanOK
    <2>2. RowsOf(b.members) \subseteq Row BY <1>1 DEF RowsOf, Bucket, Entry
    <2>3. QED BY <1>2, <2>1, <2>2
  <1>4. PICK first \in {r.id : r \in rows}, member \in {e.mid : e \in b.members} :
          new = ShardFiles(b.key, first, member, rows)
    BY DEF Merged
  <1> HIDE DEF rows
  <1> DEFINE shard(r) == {q \in rows : ShardOf(q, rows) = ShardOf(r, rows)}
             file(r) == [path |-> MergedPath(b.key, first, member, ShardOf(r, rows)), rows |-> shard(r)]
  <1>5. new = {file(r) : r \in rows} BY <1>4 DEF ShardFiles
  <1>6. ASSUME NEW f \in new
        PROVE  \E r \in rows : f = file(r) /\ f.rows = shard(r) /\ f.path.shard = ShardOf(r, rows)
                               /\ f.path.kind = "merged" /\ f.path.num = member /\ f.path.pruned = 0
    <2>1. PICK r \in rows : f = file(r) BY <1>5
    <2>2. QED BY <2>1 DEF MergedPath
  <1>7. NamedAfter(new, b.members)
    <2>1. PICK m \in b.members : member = m.mid BY <1>4
    <2>2. QED BY <1>6, <2>1 DEF NamedAfter
  <1>8. Shares(new, b.members)
    <2>1. RowsOf(new) = rows
      <3>1. \A r \in rows : file(r) \in new /\ file(r).rows = shard(r) /\ r \in shard(r) BY <1>5
      <3>2. \A f \in new : f.rows \subseteq rows BY <1>6
      <3> HIDE DEF file
      <3>3. QED BY <3>1, <3>2 DEF RowsOf
    <2>2. ASSUME NEW f \in new, NEW g \in new
          PROVE  /\ f = g \/ (f.path.shard # g.path.shard /\ f.rows \cap g.rows = {})
                 /\ InOrder(f, g)
      <3>1. PICK r \in rows : f = file(r) /\ f.rows = shard(r) /\ f.path.shard = ShardOf(r, rows)
        BY <1>6
      <3>2. PICK x \in rows : g = file(x) /\ g.rows = shard(x) /\ g.path.shard = ShardOf(x, rows)
        BY <1>6
      <3>3. ShardOf(r, rows) = ShardOf(x, rows) => f = g BY <3>1, <3>2
      <3>4. ShardOf(r, rows) # ShardOf(x, rows) => f.rows \cap g.rows = {} BY <3>1, <3>2
      <3>5. InOrder(f, g)
        <4>1. ASSUME NEW r1 \in f.rows, NEW r2 \in g.rows, f.path.shard < g.path.shard
              PROVE  r1.ts <= r2.ts
          <5>1. r1 \in rows /\ r2 \in rows /\ ShardOf(r1, rows) < ShardOf(r2, rows)
            BY <3>1, <3>2, <4>1
          <5>2. QED BY <1>3, <5>1, ShardBounds
        <4>2. QED BY <4>1 DEF InOrder
      <3>6. QED BY <3>1, <3>2, <3>3, <3>4, <3>5
    <2>3. QED BY <1>2, <2>1, <2>2 DEF Shares
  <1>9. Cardinality(new) < Cardinality(b.members)
    <2> DEFINE s == ShardCount(Cardinality(rows))
               T == 0..(s - 1)
               g == [f \in new |-> f.path.shard]
    <2>1. \A r \in rows : ShardOf(r, rows) \in T BY <1>3, ShardBounds
    <2>2. s \in Nat
      <3>1. \E r : r \in rows BY <1>4
      <3>2. QED BY <1>3, <3>1, ShardBounds
    <2> HIDE DEF s
    <2>3. g \in Injection(new, T)
      <3>1. \A f \in new : g[f] \in T BY <1>6, <2>1
      <3>2. \A f, h \in new : g[f] = g[h] => f = h BY <1>8 DEF Shares
      <3>3. g \in [new -> T] BY <3>1
      <3>4. QED BY <3>2, <3>3 DEF Injection, IsInjective
    <2>4. IsFiniteSet(T) /\ Cardinality(T) = s BY <2>2, FS_Interval
    <2> HIDE DEF T, g
    <2>5. IsFiniteSet(new) /\ Cardinality(new) <= s BY <2>3, <2>4, FS_Injection
    <2>6. s < Cardinality(b.members) BY <1>2 DEF SegInv, PlanOK, s
    <2>7. Cardinality(new) \in Nat /\ Cardinality(b.members) \in Nat
      BY <2>5, FS_CardinalityType DEF SegInv, PlanOK, FiniteFiles
    <2>8. QED BY <2>2, <2>5, <2>6, <2>7
  <1>10. QED BY <1>7, <1>8, <1>9
\* CompactPlan preserves SegInv.
LEMMA CompactPlanStep ==
  ASSUME Inv, SegInv, NEW now \in Clocks, CompactPlan(now) PROVE SegInv'
  <1> DEFINE plan == UNION {BucketsOf(p, now) : p \in Projects}
  <1>1. /\ phase = "up" /\ compact' = [stage |-> "plan", plan |-> plan, cur |-> None, new |-> {}]
        /\ UNCHANGED <<phase, seq, stage, nextLogID, mem, writer, walBuf, manifest, files, nextMid, prune>>
    BY DEF CompactPlan
  <1>2. ASSUME NEW b \in plan
        PROVE  /\ b.proj \in Projects /\ b.members \subseteq manifest[b.proj] /\ Eligible(b, now)
               /\ b.members = {e \in manifest[b.proj] :
                                 \E h \in Hours : HasMinTs(e, h) /\ BucketKey(h, now) = b.key}
               /\ b = [proj |-> b.proj, key |-> b.key, members |-> b.members]
    BY DEF BucketsOf
  <1> HIDE DEF plan
  <1>3. compact'.stage = "plan" /\ compact'.plan = plan BY <1>1
  <1>4. \A p \in Projects : InUse(p)' \subseteq InUse(p) /\ manifest'[p] = manifest[p]
    <2>1. \A p \in Projects : Planned(p)' \subseteq manifest[p]
      BY <1>2, <1>3 DEF Planned, Waiting
    <2>2. QED BY <1>1, <2>1 DEF InUse, InPrune
  <1>5. Names' BY <1>1, <1>4, NamesShrink
  <1>6. FilesOK'
    <2>1. \A q \in Projects : \A f \in files[q] : f \in files'[q] BY <1>1
    <2>2. QED BY <1>1, <1>4, <2>1, FilesKept DEF SegInv, FilesOK
  <1>7. PlanOK'
    <2>1. ASSUME NEW b \in plan
          PROVE  FiniteFiles(b.members)
                 /\ ShardCount(Cardinality(RowsOf(b.members))) < Cardinality(b.members)
      <3>1. FiniteFiles(b.members) BY <1>2, FS_Subset DEF SegInv, ListOK, FiniteFiles
      <3>2. ShardCount(Cardinality(RowsOf(b.members))) < Cardinality(b.members)
        <4>1. Cardinality(b.members) > ShardCount(Cardinality(UNION {e.rows : e \in b.members}))
          BY <1>2 DEF Eligible
        <4>2. Cardinality(RowsOf(b.members)) \in Nat BY <3>1, FiniteRowsOf, FS_CardinalityType
        <4>3. Cardinality(b.members) \in Nat BY <3>1, FS_CardinalityType DEF FiniteFiles
        <4>4. QED BY <4>1, <4>2, <4>3 DEF RowsOf
      <3>3. QED BY <3>1, <3>2
    <2>2. ASSUME NEW b \in plan, NEW c \in plan, b.proj = c.proj, NEW m \in b.members, NEW n \in c.members, m = n
          PROVE  b = c
      <3>1. PICK h \in Hours : HasMinTs(m, h) /\ BucketKey(h, now) = b.key BY <1>2, <2>2
      <3>2. PICK i \in Hours : HasMinTs(m, i) /\ BucketKey(i, now) = c.key BY <1>2, <2>2
      <3>3. h \in Nat /\ i \in Nat
        <4>1. Hours \subseteq Nat BY ConstantsAssumption
        <4>2. QED BY <4>1, Zenon
      <3>4. h <= i /\ i <= h BY <3>1, <3>2 DEF HasMinTs
      <3>5. h = i BY <3>3, <3>4
      <3>6. b.key = c.key BY <3>1, <3>2, <3>5
      <3>7. b.members = c.members
        <4> DEFINE Of(p, k) == {e \in manifest[p] :
                                 \E x \in Hours : HasMinTs(e, x) /\ BucketKey(x, now) = k}
        <4>1. b.members = Of(b.proj, b.key) /\ c.members = Of(c.proj, c.key) BY <1>2
        <4> HIDE DEF Of
        <4>2. QED BY <2>2, <3>6, <4>1
      <3>8. QED BY <1>2, <2>2, <3>6, <3>7
    <2>3. QED BY <1>3, <2>1, <2>2 DEF PlanOK
  <1>8. FlushOK' /\ PruneOK' /\ DownOK'
    BY <1>1 DEF SegInv, FlushOK, PruneOK, DownOK, IsFirst, Straddles, EntirelyOld, Older, PrunedPath
  <1>9. MergeOK' BY <1>3 DEF MergeOK
  <1>10. ListOK' BY <1>4, ListShrinks
  <1>11. QED BY <1>5, <1>6, <1>7, <1>8, <1>9, <1>10 DEF SegInv

\* A file the merge step writes or removes: it has a merge's name, nobody's
\* in use.  The step goes on with the same buckets, or fewer.
LEMMA MergeStep ==
  ASSUME Inv, SegInv, NEW b \in compact.plan, compact.stage \in {"plan", "built"},
         compact.stage = "built" => b = compact.cur,
         UNCHANGED <<phase, seq, stage, nextLogID, mem, writer, walBuf, manifest, nextMid, prune>>,
         compact'.plan \subseteq compact.plan, compact'.stage # "remove",
         NEW m \in b.members, NEW touched,
         \A f \in touched : f.path.kind = "merged" /\ f.path.num = m.mid /\ f.path.pruned = 0,
         \A q \in Projects : \A f \in files'[q] : f \in files[q] \/ (q = b.proj /\ f \in touched),
         \A q \in Projects : \A f \in files[q] :
           f \in files'[q] \/ (q = b.proj /\ \E g \in touched : g.path = f.path),
         \A q \in Projects : \A f, g \in files'[q] : f.path = g.path => f = g,
         MergeOK'
  PROVE  SegInv'
  <1>1. phase = "up"
    BY DEF SegInv, DownOK, IdleCompact, Inv, TypeOK, ProcessTypes
  <1>2. \A q \in Projects : InUse(q)' \subseteq InUse(q) /\ manifest'[q] = manifest[q]
    BY DEF InUse, Planned, Waiting, InPrune
  <1>3. b.proj \in Projects BY DEF Inv, TypeOK, CompactTypes, Bucket
  <1>4. m \in InUse(b.proj) BY <1>3 DEF InUse, Planned, Waiting
  <1>5. \A f \in touched : \A e \in InUse(b.proj) : e.path # f.path
    BY <1>3, <1>4, FreshMerge
  <1>6. Names' BY <1>1, <1>2, NamesShrink
  <1>7. FilesOK'
    <2>1. \A q \in Projects : \A f \in files'[q] : f \in files[q] \/ \A e \in InUse(q)' : e.path # f.path
      BY <1>2, <1>5
    <2>2. \A q \in Projects : \A f \in files[q] : f \in files'[q] \/ \A e \in manifest'[q] : e.path # f.path
      BY <1>2, <1>5 DEF InUse
    <2>3. QED BY <1>2, <2>1, <2>2, FilesKept DEF SegInv
  <1>8. ASSUME NEW q \in Projects, NEW f \in files[q], f.path.kind = "flush" \/ f.path.pruned # 0
        PROVE  f \in files'[q]
    BY <1>8
  <1>9. FlushOK'
    <2>1. ASSUME NEW q \in Projects, stage[q] = "written"
          PROVE  \E r \in mem[q] : /\ IsFirst(r, mem[q])
                                   /\ [path |-> FlushPath(seq[q], r.id), rows |-> mem[q]] \in files'[q]
      <3>1. PICK r \in mem[q] : /\ IsFirst(r, mem[q])
                                /\ [path |-> FlushPath(seq[q], r.id), rows |-> mem[q]] \in files[q]
        BY <2>1 DEF SegInv, FlushOK
      <3>2. FlushPath(seq[q], r.id).kind = "flush" BY DEF FlushPath
      <3>3. QED BY <1>8, <3>1, <3>2
    <2>2. QED BY <2>1 DEF FlushOK, IsFirst
  <1>10. PruneOK'
    <2>1. ASSUME prune.stage = "swap"
          PROVE  [path |-> PrunedPath(prune.cur.path),
                  rows |-> prune.cur.rows \ Older(prune.cur.rows, prune.cutoff)] \in files'[prune.proj]
      <3> DEFINE f == [path |-> PrunedPath(prune.cur.path),
                       rows |-> prune.cur.rows \ Older(prune.cur.rows, prune.cutoff)]
      <3>1. prune.proj \in Projects BY <2>1, Pinned
      <3>2. f \in files[prune.proj] /\ prune.cur \in manifest[prune.proj]
        BY <2>1 DEF SegInv, PruneOK
      <3>3. f.path.pruned # 0
        <4>1. prune.cur.path \in Path BY <3>1, <3>2, InUseType DEF Entry
        <4>2. f.path = PrunedPath(prune.cur.path) OBVIOUS
        <4>3. QED BY <4>1, <4>2, RewrittenName DEF Path
      <3> HIDE DEF f
      <3>4. f \in files'[prune.proj] BY <1>8, <3>1, <3>2, <3>3
      <3>5. QED BY <3>4 DEF f
    <2>2. QED BY <2>1 DEF SegInv, PruneOK, Straddles, EntirelyOld, Older, PrunedPath
  <1>11. PlanOK' BY DEF SegInv, PlanOK
  <1>12. DownOK' BY <1>1 DEF DownOK
  <1>13. ListOK' BY <1>2, ListShrinks
  <1>14. QED BY <1>6, <1>7, <1>9, <1>10, <1>11, <1>12, <1>13 DEF SegInv
\* A bucket has a segment.
LEMMA HasMember == ASSUME SegInv, NEW b \in compact.plan PROVE \E m \in b.members : TRUE
  <1>1. FiniteFiles(b.members) /\ ShardCount(Cardinality(RowsOf(b.members))) < Cardinality(b.members)
    BY DEF SegInv, PlanOK
  <1>2. Cardinality(RowsOf(b.members)) \in Nat BY <1>1, FiniteRowsOf, FS_CardinalityType
  <1>3. \A n \in Nat : ShardCount(n) \in Nat
    <2> TAKE n \in Nat
    <2>1. n + ShardRows - 1 \in Nat /\ ShardRows \in Nat \ {0} BY ConstantsAssumption
    <2>2. QED BY <2>1, DivNat DEF ShardCount
  <1>4. Cardinality(b.members) # 0
    <2>1. Cardinality(b.members) \in Nat BY <1>1, FS_CardinalityType DEF FiniteFiles
    <2>2. ShardCount(Cardinality(RowsOf(b.members))) \in Nat BY <1>2, <1>3
    <2>3. QED BY <1>1, <2>1, <2>2
  <1>5. QED BY <1>4, FS_EmptySet

\* CompactBuild preserves SegInv.
LEMMA CompactBuildStep ==
  ASSUME Inv, SegInv, NEW b \in compact.plan, CompactBuild(b) PROVE SegInv'
  <1>1. PICK new \in Merged(b) :
          /\ files' = [files EXCEPT ![b.proj] = Without(@, SegmentPaths(new)) \cup new]
          /\ compact' = [compact EXCEPT !.stage = "built", !.cur = b, !.new = new]
    BY DEF CompactBuild
  <1>2. /\ compact.stage = "plan" /\ Complete(b)
        /\ UNCHANGED <<phase, seq, stage, nextLogID, mem, writer, walBuf, manifest, nextMid, prune>>
    BY DEF CompactBuild
  <1>3. NamedAfter(new, b.members) /\ Shares(new, b.members) /\ Cardinality(new) < Cardinality(b.members)
    BY <1>2, MergeShares
  <1>4. PICK m \in b.members : \A f \in new : f.path.kind = "merged" /\ f.path.num = m.mid /\ f.path.pruned = 0
    BY <1>3 DEF NamedAfter
  <1>5. /\ compact'.plan = compact.plan /\ compact'.stage = "built" /\ compact'.cur = b
        /\ compact'.new = new /\ b.proj \in Projects
    BY <1>1 DEF Inv, TypeOK, CompactTypes, Bucket
  <1>6. /\ files'[b.proj] = Without(files[b.proj], SegmentPaths(new)) \cup new
        /\ \A q \in Projects \ {b.proj} : files'[q] = files[q]
    BY <1>1, <1>5 DEF Inv, TypeOK, SegTypes
  <1>7. ASSUME NEW q \in Projects, NEW f \in files'[q], NEW g \in files'[q], f.path = g.path
        PROVE  f = g
    <2>1. \A x, y \in files[q] : x.path = y.path => x = y BY DEF SegInv, FilesOK
    <2>2. \A x, y \in new : x.path = y.path => x = y BY <1>3 DEF Shares
    <2>3. CASE q = b.proj BY <1>6, <1>7, <2>1, <2>2, <2>3 DEF Without, SegmentPaths
    <2>4. CASE q # b.proj BY <1>6, <1>7, <2>1, <2>4
    <2>5. QED BY <2>3, <2>4
  <1>8. MergeOK'
    <2>1. new \subseteq files'[b.proj] BY <1>6
    <2>2. NamedAfter(new, b.members)' /\ Shares(new, b.members)' BY <1>3 DEF NamedAfter, Shares, RowsOf, InOrder
    <2>3. QED BY <1>3, <1>5, <2>1 DEF MergeOK, NamedAfter, Shares, RowsOf, InOrder
  <1>9. \A q \in Projects : \A f \in files'[q] : f \in files[q] \/ (q = b.proj /\ f \in new)
    BY <1>6 DEF Without
  <1>10. \A q \in Projects : \A f \in files[q] : f \in files'[q] \/ (q = b.proj /\ \E g \in new : g.path = f.path)
    BY <1>6 DEF Without, SegmentPaths
  <1>11. compact'.plan \subseteq compact.plan /\ compact'.stage # "remove" BY <1>5
  <1>12. QED BY <1>2, <1>4, <1>7, <1>8, <1>9, <1>10, <1>11, MergeStep

\* A bucket done with leaves the others to do.
LEMMA BucketDoneNext ==
  ASSUME Inv, NEW b, BucketDone(b)
  PROVE  compact'.plan \subseteq compact.plan /\ compact'.stage \in {"idle", "plan"}
         /\ compact'.plan \subseteq compact.plan \ {b} /\ MergeOK'
  BY DEF BucketDone, IdleCompact, MergeOK

\* CompactBuildFails preserves SegInv.
LEMMA CompactBuildFailsStep ==
  ASSUME Inv, SegInv, NEW b \in compact.plan, CompactBuildFails(b) PROVE SegInv'
  <1>1. /\ compact.stage = "plan" /\ BucketDone(b) /\ b.proj \in Projects
        /\ UNCHANGED <<phase, seq, stage, nextLogID, mem, writer, walBuf, manifest, nextMid, prune>>
    BY DEF CompactBuildFails, Inv, TypeOK, CompactTypes, Bucket
  <1>2. compact'.plan \subseteq compact.plan /\ compact'.stage # "remove" /\ MergeOK'
    BY <1>1, BucketDoneNext
  <1>3. CASE files' = files
    <2>1. PICK m \in b.members : TRUE BY HasMember
    <2>2. \A q \in Projects : \A f, g \in files'[q] : f.path = g.path => f = g
      BY <1>3 DEF SegInv, FilesOK
    <2> DEFINE touched == {}
    <2>3. \A f \in touched : f.path.kind = "merged" /\ f.path.num = m.mid /\ f.path.pruned = 0 OBVIOUS
    <2>4. /\ \A q \in Projects : \A g \in files'[q] : g \in files[q] \/ (q = b.proj /\ g \in touched)
          /\ \A q \in Projects : \A g \in files[q] : g \in files'[q] \/ (q = b.proj /\ \E x \in touched : x.path = g.path)
      BY <1>3
    <2> HIDE DEF touched
    <2>5. compact.stage = "built" => b = compact.cur BY <1>1
    <2>6. QED BY <1>1, <1>2, <2>2, <2>3, <2>4, <2>5, MergeStep
  <1>4. ASSUME Complete(b), NEW new \in Merged(b), NEW f \in new,
               files' = [files EXCEPT ![b.proj] = Put(@, f.path, f.rows)]
        PROVE  SegInv'
    <2>1. NamedAfter(new, b.members) BY <1>1, <1>4, MergeShares
    <2>2. PICK m \in b.members : \A g \in new : g.path.kind = "merged" /\ g.path.num = m.mid /\ g.path.pruned = 0
      BY <2>1 DEF NamedAfter
    <2>3. f = [path |-> f.path, rows |-> f.rows]
      <3>1. f \in File BY <1>4, MergedType
      <3>2. QED BY <3>1 DEF File
    <2>4. /\ files'[b.proj] = {g \in files[b.proj] : g.path # f.path} \cup {f}
          /\ \A q \in Projects \ {b.proj} : files'[q] = files[q]
      BY <1>1, <1>4, <2>3 DEF Put, Inv, TypeOK, SegTypes
    <2> DEFINE touched == {f}
    <2>5. \A g \in touched : g.path.kind = "merged" /\ g.path.num = m.mid /\ g.path.pruned = 0
      BY <2>2
    <2>6. \A q \in Projects : \A x, y \in files'[q] : x.path = y.path => x = y
      <3>1. \A q \in Projects : \A x, y \in files[q] : x.path = y.path => x = y BY DEF SegInv, FilesOK
      <3>2. QED BY <2>4, <3>1
    <2>7. \A q \in Projects : \A g \in files'[q] : g \in files[q] \/ (q = b.proj /\ g \in touched)
      BY <2>4
    <2>8. \A q \in Projects : \A g \in files[q] : g \in files'[q] \/ (q = b.proj /\ \E x \in touched : x.path = g.path)
      BY <2>4
    <2> HIDE DEF touched
    <2>9. QED BY <1>1, <1>2, <2>5, <2>6, <2>7, <2>8, MergeStep
  <1>5. QED BY <1>3, <1>4 DEF CompactBuildFails

\* CompactAborts preserves SegInv.
LEMMA CompactAbortsStep ==
  ASSUME Inv, SegInv, NEW b \in compact.plan, CompactAborts(b) PROVE SegInv'
  <1>1. /\ compact.stage = "built" /\ b = compact.cur /\ BucketDone(b) /\ b.proj \in Projects
        /\ UNCHANGED <<phase, seq, stage, nextLogID, mem, writer, walBuf, manifest, nextMid, prune>>
        /\ files' = [files EXCEPT ![b.proj] = Without(@, SegmentPaths(compact.new))]
    BY DEF CompactAborts, Inv, TypeOK, CompactTypes, Bucket
  <1>2. compact'.plan \subseteq compact.plan /\ compact'.stage # "remove" /\ MergeOK'
    BY <1>1, BucketDoneNext
  <1>3. PICK m \in b.members :
          \A g \in compact.new : g.path.kind = "merged" /\ g.path.num = m.mid /\ g.path.pruned = 0
    BY <1>1 DEF SegInv, MergeOK, NamedAfter
  <1>4. /\ \A q \in Projects : files'[q] \subseteq files[q]
        /\ \A q \in Projects : \A f \in files[q] :
             f \in files'[q] \/ (q = b.proj /\ \E g \in compact.new : g.path = f.path)
    BY <1>1 DEF Without, SegmentPaths, Inv, TypeOK, SegTypes
  <1>5. \A q \in Projects : \A x, y \in files'[q] : x.path = y.path => x = y
    BY <1>4 DEF SegInv, FilesOK
  <1>6. QED BY <1>1, <1>2, <1>3, <1>4, <1>5, MergeStep
\* The shards get manifest ids of their own.
LEMMA MidsApart ==
  ASSUME Inv, SegInv, compact.stage = "built", NEW f \in compact.new
  PROVE  /\ nextMid < IssuedMid(f) /\ IssuedMid(f) <= nextMid + Cardinality(compact.new)
         /\ IssuedMid(f) \in Nat /\ Cardinality(compact.new) \in Nat /\ nextMid \in Nat
         /\ \A g \in compact.new : IssuedMid(f) = IssuedMid(g) => f = g
  <1> DEFINE new == compact.new
             below(g) == {h \in new : h.path.shard < g.path.shard}
  <1>1. new \in SUBSET File /\ IsFiniteSet(new) /\ nextMid \in Nat
    BY DEF Inv, TypeOK, CompactTypes, FiniteRows, SegTypes
  <1>2. \A g \in new : g.path.shard \in Nat BY <1>1 DEF File, Path
  <1>3. \A g, h \in new : g = h \/ g.path.shard # h.path.shard BY DEF SegInv, MergeOK, Shares
  <1> HIDE DEF new
  <1>4. \A g : below(g) \subseteq new /\ IsFiniteSet(below(g)) BY <1>1, FS_Subset
  <1>5. Cardinality(new) \in Nat /\ \A g : Cardinality(below(g)) \in Nat BY <1>1, <1>4, FS_CardinalityType
  <1>6. \A g : IssuedMid(g) = nextMid + 1 + Cardinality(below(g)) BY DEF IssuedMid, new
  <1>7. ASSUME NEW g \in new PROVE Cardinality(below(g)) < Cardinality(new)
    <2>1. g \notin below(g) BY <1>2
    <2>2. Cardinality(below(g)) <= Cardinality(new) /\ Cardinality(below(g)) # Cardinality(new)
      BY <1>1, <1>4, <2>1, FS_Subset
    <2> HIDE DEF below
    <2>3. QED BY <1>5, <2>2
  <1>8. ASSUME NEW g \in new, NEW h \in new, g.path.shard < h.path.shard
        PROVE  Cardinality(below(g)) < Cardinality(below(h))
    <2>1. below(g) \subseteq below(h) BY <1>2, <1>8
    <2>2. g \in below(h) /\ g \notin below(g) BY <1>2, <1>8
    <2>3. Cardinality(below(g)) <= Cardinality(below(h)) /\ Cardinality(below(g)) # Cardinality(below(h))
      BY <1>4, <2>1, <2>2, FS_Subset
    <2> HIDE DEF below
    <2>4. QED BY <1>5, <2>3
  <1> HIDE DEF below
  <1>9. f \in new BY DEF new
  <1>10. \A g \in new : IssuedMid(f) = IssuedMid(g) => f = g
    <2> SUFFICES ASSUME NEW g \in new, IssuedMid(f) = IssuedMid(g), f # g PROVE FALSE
      OBVIOUS
    <2>1. Cardinality(below(f)) = Cardinality(below(g)) BY <1>1, <1>5, <1>6
    <2>2. f.path.shard < g.path.shard \/ g.path.shard < f.path.shard BY <1>2, <1>3, <1>9
    <2>3. QED BY <1>5, <1>8, <1>9, <2>1, <2>2
  <1>11. nextMid < IssuedMid(f) /\ IssuedMid(f) <= nextMid + Cardinality(new) /\ IssuedMid(f) \in Nat
    BY <1>1, <1>5, <1>6, <1>7, <1>9
  <1>12. QED BY <1>1, <1>5, <1>10, <1>11 DEF new

\* What CompactSwap does, in parts: the members leave, one entry comes for
\* each shard.
AsListed(f) == [mid |-> IssuedMid(f), path |-> f.path, rows |-> f.rows]
\* The swap itself.
LEMMA SwapFacts ==
  ASSUME Inv, SegInv, NEW b \in compact.plan, CompactSwap(b)
  PROVE  /\ phase = "up" /\ compact.stage = "built" /\ b = compact.cur /\ mu[b.proj] = "free"
         /\ b.proj \in Projects /\ b.members \subseteq manifest[b.proj]
         /\ manifest'[b.proj] = (manifest[b.proj] \ b.members) \cup {AsListed(f) : f \in compact.new}
         /\ \A q \in Projects \ {b.proj} : manifest'[q] = manifest[q]
         /\ nextMid' = nextMid + Cardinality(compact.new)
         /\ compact'.stage = "remove" /\ compact'.plan = compact.plan /\ compact'.cur = b
         /\ UNCHANGED <<phase, seq, stage, nextLogID, mem, writer, walBuf, files, prune>>
  <1>1. b.proj \in Projects /\ compact.stage = "built"
    BY DEF CompactSwap, Inv, TypeOK, CompactTypes, Bucket
  <1>2. phase = "up" BY <1>1 DEF SegInv, DownOK, IdleCompact, Inv, TypeOK, ProcessTypes
  <1>3. compact'.stage = "remove" /\ compact'.plan = compact.plan /\ compact'.cur = compact.cur
    BY DEF CompactSwap, Inv, TypeOK, CompactTypes
  <1>4. manifest' = [manifest EXCEPT ![b.proj] = (@ \ b.members) \cup {AsListed(f) : f \in compact.new}]
    BY DEF CompactSwap, AsListed
  <1>5. QED BY <1>1, <1>2, <1>3, <1>4 DEF CompactSwap, MembersUnchanged, Inv, TypeOK, SegTypes

\* The entries of the shards are apart from one another and from those still
\* in use, and the members are in use no more.
LEMMA SwapApart ==
  ASSUME Inv, SegInv, NEW b \in compact.plan, CompactSwap(b)
  PROVE  /\ InUse(b.proj)' \subseteq (InUse(b.proj) \ b.members) \cup {AsListed(f) : f \in compact.new}
         /\ \A q \in Projects \ {b.proj} : InUse(q)' = InUse(q)
         /\ \A f \in compact.new : \A x \in InUse(b.proj) :
              /\ x.path # f.path /\ Base(x.path) # Base(f.path)
              /\ f.path.kind = "merged" /\ (x.path.kind = "merged" => x.path.num # f.path.num)
              /\ Apart(x, AsListed(f)) /\ (x \notin b.members => Apart(AsListed(f), x))
         /\ \A f, g \in compact.new :
              /\ Apart(AsListed(f), AsListed(g)) /\ Later(AsListed(f), AsListed(g))
         /\ \A x \in {AsListed(f) : f \in compact.new} : NameOK(b.proj, x)'
  <1> DEFINE p == b.proj
             new == compact.new
  <1>1. /\ compact.stage = "built" /\ b = compact.cur /\ p \in Projects /\ b.members \subseteq manifest[p]
        /\ manifest'[p] = (manifest[p] \ b.members) \cup {AsListed(f) : f \in new}
        /\ \A q \in Projects \ {p} : manifest'[q] = manifest[q]
        /\ mu[p] = "free" /\ nextMid' = nextMid + Cardinality(new)
        /\ compact'.stage = "remove" /\ compact'.plan = compact.plan /\ compact'.cur = b
        /\ prune' = prune
    BY SwapFacts
  <1>2. PICK m \in b.members : \A f \in new : f.path.kind = "merged" /\ f.path.num = m.mid /\ f.path.pruned = 0
    BY <1>1 DEF SegInv, MergeOK, NamedAfter
  <1>3. m \in InUse(p) /\ m.mid \in Nat /\ m.mid <= nextMid
    <2>1. m \in InUse(p) BY <1>1 DEF InUse
    <2>2. m \in Entry BY <1>1, <2>1, InUseType
    <2>3. QED BY <1>1, <2>1, <2>2 DEF Entry, SegInv, Names, NameOK
  <1>4. Planned(p)' \subseteq Planned(p) \ b.members /\ \A q \in Projects \ {p} : Planned(q)' = Planned(q)
    <2>1. Waiting' = compact.plan \ {b} /\ Waiting = compact.plan
      BY <1>1 DEF Waiting
    <2>2. \A c \in compact.plan : c.proj = p => b = c \/ \A x \in b.members, y \in c.members : x # y
      BY DEF SegInv, PlanOK
    <2>3. QED BY <2>1, <2>2 DEF Planned
  <1>5. \A q \in Projects : InPrune(q)' = InPrune(q) BY <1>1 DEF InPrune
  <1>6. InPrune(p) = {} BY <1>1, Pinned DEF InPrune
  <1>7. InUse(p)' \subseteq (InUse(p) \ b.members) \cup {AsListed(f) : f \in new}
    BY <1>1, <1>4, <1>5, <1>6 DEF InUse
  <1>8. \A q \in Projects \ {p} : InUse(q)' = InUse(q)
    BY <1>1, <1>4, <1>5 DEF InUse
  <1>9. \A f \in new : /\ AsListed(f).mid = IssuedMid(f) /\ AsListed(f).path = f.path
                       /\ AsListed(f).rows = f.rows /\ f.path \in Path
    BY DEF AsListed, Inv, TypeOK, CompactTypes, File
  <1>10. \A f \in new : nextMid < IssuedMid(f) /\ IssuedMid(f) <= nextMid' /\ IssuedMid(f) \in Nat
                        /\ nextMid \in Nat /\ nextMid' \in Nat
    BY <1>1, MidsApart
  <1>11. ASSUME NEW f \in new, NEW x \in InUse(p)
         PROVE  /\ x.path # f.path /\ Base(x.path) # Base(f.path)
                /\ f.path.kind = "merged" /\ (x.path.kind = "merged" => x.path.num # f.path.num)
                /\ Apart(x, AsListed(f)) /\ (x \notin b.members => Apart(AsListed(f), x))
    <2>1. x \in Entry BY <1>1, InUseType
    <2>2. x.mid \in Nat /\ x.path.num \in Nat /\ x.path \in Path BY <2>1 DEF Entry, Path
    <2>3. x.mid <= nextMid /\ (x.path.kind = "merged" => x.path.num <= nextMid)
      BY <1>1 DEF SegInv, Names, NameOK
    <2>4. x.path.kind = "merged" => x.path.num # m.mid BY <1>1, <1>3, FreshMerge
    <2>5. x.path # f.path BY <1>2, <2>4
    <2>6. Base(x.path) # Base(f.path) BY <1>2, <1>9, <2>2, <2>4 DEF Base, Path
    <2>7. Apart(x, AsListed(f)) BY <1>9, <1>10, <2>2, <2>3, <2>5 DEF Apart
    <2>8. ASSUME x \notin b.members PROVE Apart(AsListed(f), x)
      <3>1. x.mid = m.mid => x = m BY <1>1, <1>3 DEF SegInv, Names, Apart
      <3>2. f.path.num # x.mid BY <1>2, <2>8, <3>1
      <3>3. QED BY <1>9, <1>10, <2>2, <2>3, <2>5, <3>2 DEF Apart
    <2>9. QED BY <1>2, <2>4, <2>5, <2>6, <2>7, <2>8
  <1>12. ASSUME NEW f \in new, NEW g \in new
         PROVE  Apart(AsListed(f), AsListed(g)) /\ Later(AsListed(f), AsListed(g))
    <2>1. f = g \/ f.path.shard # g.path.shard BY <1>1 DEF SegInv, MergeOK, Shares
    <2>2. IssuedMid(f) = IssuedMid(g) => f = g BY <1>1, MidsApart
    <2>3. f.path.num # IssuedMid(g) BY <1>2, <1>3, <1>10
    <2>4. Base(f.path) = Base(g.path) => f = g BY <1>9, <2>1 DEF Base, Path
    <2>5. f.path = g.path => f = g BY <2>1
    <2>6. QED BY <1>9, <2>2, <2>3, <2>4, <2>5 DEF Apart, Later
  <1>13. ASSUME NEW x \in {AsListed(f) : f \in new} PROVE NameOK(p, x)'
    <2>1. PICK f \in new : x = AsListed(f) BY <1>13
    <2>2. x.mid <= nextMid' /\ x.path.kind = "merged" /\ x.path.num <= nextMid'
      BY <1>2, <1>3, <1>9, <1>10, <2>1
    <2>3. QED BY <2>2 DEF NameOK
  <1>14. QED BY <1>7, <1>8, <1>11, <1>12, <1>13
\* CompactSwap preserves SegInv.
LEMMA CompactSwapStep ==
  ASSUME Inv, SegInv, NEW b \in compact.plan, CompactSwap(b) PROVE SegInv'
  <1> DEFINE p == b.proj
             new == compact.new
             come == {AsListed(f) : f \in new}
  <1>1. /\ phase = "up" /\ compact.stage = "built" /\ b = compact.cur /\ mu[p] = "free"
        /\ p \in Projects /\ b.members \subseteq manifest[p]
        /\ manifest'[p] = (manifest[p] \ b.members) \cup come
        /\ \A q \in Projects \ {p} : manifest'[q] = manifest[q]
        /\ nextMid' = nextMid + Cardinality(new)
        /\ compact'.stage = "remove" /\ compact'.plan = compact.plan /\ compact'.cur = b
        /\ UNCHANGED <<phase, seq, stage, nextLogID, mem, writer, walBuf, files, prune>>
    BY SwapFacts
  <1>2. /\ InUse(p)' \subseteq (InUse(p) \ b.members) \cup come
        /\ \A q \in Projects \ {p} : InUse(q)' = InUse(q)
        /\ \A x \in come : NameOK(p, x)'
    BY SwapApart
  <1>3. \A f \in new : \A x \in InUse(p) :
          /\ x.path # f.path /\ Base(x.path) # Base(f.path)
          /\ f.path.kind = "merged" /\ (x.path.kind = "merged" => x.path.num # f.path.num)
          /\ Apart(x, AsListed(f)) /\ (x \notin b.members => Apart(AsListed(f), x))
    BY SwapApart
  <1>4. \A f, g \in new : Apart(AsListed(f), AsListed(g)) /\ Later(AsListed(f), AsListed(g))
    BY SwapApart
  <1>5. nextMid \in Nat /\ nextMid' \in Nat /\ nextMid <= nextMid'
    <2>1. nextMid \in Nat /\ Cardinality(new) \in Nat
      BY FS_CardinalityType DEF Inv, TypeOK, SegTypes, FiniteRows
    <2>2. QED BY <1>1, <2>1
  <1>6. \A f \in new : /\ AsListed(f).path = f.path /\ AsListed(f).rows = f.rows
                       /\ f = [path |-> f.path, rows |-> f.rows] /\ f.path \in Path
    BY DEF AsListed, Inv, TypeOK, CompactTypes, File
  <1>7. manifest[p] \subseteq InUse(p) BY DEF InUse
  <1> HIDE DEF come
  <1>8. Names'
    <2>1. ASSUME NEW q \in Projects, NEW x \in InUse(q)' PROVE NameOK(q, x)'
      <3>1. CASE x \in InUse(q)
        <4>1. NameOK(q, x) /\ x \in Entry BY <3>1, InUseType DEF SegInv, Names
        <4>2. x.mid \in Nat /\ x.path.num \in Nat BY <4>1 DEF Entry, Path
        <4>3. Above(q, x.path.first)' <=> Above(q, x.path.first) BY <1>1 DEF Above
        <4>4. Flushes(q)' = Flushes(q) BY <1>1 DEF Flushes
        <4>5. x.mid <= nextMid' /\ (x.path.kind = "merged" => x.path.num <= nextMid')
          BY <1>5, <4>1, <4>2 DEF NameOK
        <4>6. QED BY <1>1, <4>1, <4>3, <4>4, <4>5 DEF NameOK
      <3>2. CASE q = p /\ x \in come
        BY <1>2, <3>2
      <3>3. QED BY <1>2, <2>1, <3>1, <3>2
    <2>2. ASSUME NEW e1 \in InUse(p)', NEW e2 \in InUse(p)' PROVE Apart(e1, e2)
      <3>1. CASE e1 \in InUse(p) \ b.members /\ e2 \in InUse(p) \ b.members
        BY <1>1, <3>1 DEF SegInv, Names
      <3>2. CASE e1 \in InUse(p) \ b.members /\ e2 \in come BY <1>3, <3>2 DEF come
      <3>3. CASE e1 \in come /\ e2 \in InUse(p) \ b.members BY <1>3, <3>3 DEF come
      <3>4. CASE e1 \in come /\ e2 \in come BY <1>4, <3>4 DEF come
      <3>5. QED BY <1>2, <3>1, <3>2, <3>3, <3>4
    <2>3. ASSUME NEW e1 \in manifest'[p], NEW e2 \in InUse(p)' PROVE Later(e1, e2)
      <3>1. CASE e1 \in manifest[p] /\ e2 \in InUse(p) BY <1>1, <3>1 DEF SegInv, Names
      <3>2. CASE e1 \in manifest[p] /\ e2 \in come
        BY <1>3, <1>6, <1>7, <3>2 DEF come, Later
      <3>3. CASE e1 \in come /\ e2 \in InUse(p) BY <1>3, <1>6, <3>3 DEF come, Later
      <3>4. CASE e1 \in come /\ e2 \in come BY <1>4, <3>4 DEF come
      <3>5. QED BY <1>1, <1>2, <3>1, <3>2, <3>3, <3>4
    <2>4. ASSUME NEW q \in Projects
          PROVE  /\ \A e1, e2 \in InUse(q)' : Apart(e1, e2)
                 /\ \A e1 \in manifest'[q], e2 \in InUse(q)' : Later(e1, e2)
      <3>1. CASE q = p BY <2>2, <2>3, <3>1
      <3>2. CASE q # p BY <1>1, <1>2, <3>2 DEF SegInv, Names
      <3>3. QED BY <3>1, <3>2
    <2>5. \A q \in Projects : (\A e1, e2 \in InUse(q) : Apart(e1, e2))' BY <2>4 DEF Apart
    <2>6. \A q \in Projects : (\A e1 \in manifest[q], e2 \in InUse(q) : Later(e1, e2))'
      BY <2>4 DEF Later, Base
    <2>7. QED BY <2>1, <2>5, <2>6 DEF Names
  <1>9. FilesOK'
    <2>1. \A q \in Projects : /\ \A f, g \in files[q] : f.path = g.path => f = g
                              /\ \A e \in InUse(q), f \in files[q] : f.path = e.path => f.rows = e.rows
                              /\ \A e \in manifest[q] : [path |-> e.path, rows |-> e.rows] \in files[q]
      BY DEF SegInv, FilesOK
    <2>2. new \subseteq files[p] BY <1>1 DEF SegInv, MergeOK
    <2>3. ASSUME NEW e \in come
          PROVE  /\ [path |-> e.path, rows |-> e.rows] \in files[p]
                 /\ \A f \in files[p] : f.path = e.path => f.rows = e.rows
      <3>1. PICK g \in new : e = AsListed(g) BY DEF come
      <3>2. e.path = g.path /\ e.rows = g.rows /\ g = [path |-> e.path, rows |-> e.rows]
        BY <1>6, <3>1
      <3>3. g \in files[p] BY <2>2
      <3>4. QED BY <1>1, <2>1, <3>2, <3>3
    <2>4. files' = files BY <1>1
    <2>5. ASSUME NEW q \in Projects
          PROVE  /\ \A e \in InUse(q)', f \in files[q] : f.path = e.path => f.rows = e.rows
                 /\ \A e \in manifest'[q] : [path |-> e.path, rows |-> e.rows] \in files[q]
      <3>1. CASE q = p BY <1>1, <1>2, <2>1, <2>3, <3>1
      <3>2. CASE q # p BY <1>1, <1>2, <2>1, <3>2
      <3>3. QED BY <3>1, <3>2
    <2>6. QED BY <2>1, <2>4, <2>5 DEF FilesOK
  <1>10. MergeOK'
    <2>1. ASSUME NEW e \in manifest'[p], NEW m \in b.members PROVE e.path # m.path
      <3>1. m \in InUse(p) BY <1>1, <1>7
      <3>2. CASE e \in manifest[p] \ b.members
        <4>1. Apart(e, m) BY <1>1, <1>7, <3>1, <3>2 DEF SegInv, Names
        <4>2. QED BY <3>2, <4>1 DEF Apart
      <3>3. CASE e \in come BY <1>3, <1>6, <3>1, <3>3 DEF come
      <3>4. QED BY <1>1, <3>2, <3>3
    <2>2. QED BY <1>1, <2>1 DEF MergeOK
  <1>11. PruneOK'
    <2>1. prune.stage \in {"scan", "swap", "remove"} => manifest'[prune.proj] = manifest[prune.proj]
      BY <1>1, Pinned
    <2>2. QED BY <1>1, <2>1 DEF SegInv, PruneOK, Straddles, EntirelyOld, Older, PrunedPath
  <1>12. ListOK'
    <2>1. FiniteFiles(manifest'[p])
      <3>1. IsFiniteSet(new) /\ \A f \in new : IsFiniteSet(f.rows)
        <4>1. IsFiniteSet(new) BY DEF Inv, FiniteRows
        <4>2. \A f \in files[p] : IsFiniteSet(f.rows) BY <1>1 DEF Inv, FiniteRows, FiniteFiles
        <4>3. QED BY <1>1, <4>1, <4>2 DEF SegInv, MergeOK
      <3>2. IsFiniteSet(come)
        <4> DEFINE g == [f \in new |-> AsListed(f)]
        <4>1. IsFiniteSet({g[f] : f \in new}) BY <3>1, ImageFinite
        <4>2. come = {g[f] : f \in new} BY DEF come
        <4>3. QED BY <4>1, <4>2
      <3>3. IsFiniteSet(manifest[p] \ b.members)
        BY <1>1, FS_Subset DEF SegInv, ListOK, FiniteFiles
      <3>4. IsFiniteSet(manifest'[p])
        <4>1. IsFiniteSet((manifest[p] \ b.members) \cup come) BY <3>2, <3>3, FS_Union
        <4>2. QED BY <1>1, <4>1
      <3>5. \A e \in come : IsFiniteSet(e.rows) BY <1>6, <3>1 DEF come
      <3>6. \A e \in manifest[p] : IsFiniteSet(e.rows) BY <1>1 DEF SegInv, ListOK, FiniteFiles
      <3>7. QED BY <1>1, <3>4, <3>5, <3>6 DEF FiniteFiles
    <2>2. ASSUME NEW e1 \in manifest'[p], NEW e2 \in manifest'[p],
                 SameMerge(e1.path, e2.path), e1.path.shard < e2.path.shard
          PROVE  \A r1 \in e1.rows, r2 \in e2.rows : r1.ts <= r2.ts
      <3>1. e1.path \in Path /\ e2.path \in Path
        <4>1. \A e \in manifest[p] : e.path \in Path BY <1>1, InUseType DEF Entry
        <4>2. \A e \in come : e.path \in Path BY <1>6 DEF come
        <4>3. QED BY <1>1, <4>1, <4>2
      <3>2. e1.path.kind = "merged" /\ e2.path.kind = "merged" /\ e1.path.num = e2.path.num
        BY <2>2, <3>1 DEF SameMerge, Path
      <3>3. CASE e1 \in manifest[p] /\ e2 \in manifest[p]
        BY <1>1, <2>2, <3>3 DEF SegInv, ListOK, ShardsOrdered
      <3>4. CASE e1 \in come /\ e2 \in come
        <4>1. PICK f \in new : e1 = AsListed(f) BY <3>4 DEF come
        <4>2. PICK g \in new : e2 = AsListed(g) BY <3>4 DEF come
        <4>3. InOrder(f, g) BY <1>1 DEF SegInv, MergeOK, Shares
        <4>4. QED BY <1>6, <2>2, <4>1, <4>2, <4>3 DEF InOrder
      <3>5. ASSUME NEW f \in new, NEW x \in manifest[p], x.path.kind = "merged"
            PROVE  x.path.num # f.path.num
        BY <1>3, <1>7, <3>5
      <3>6. QED BY <1>1, <1>6, <3>2, <3>3, <3>4, <3>5 DEF come
    <2>3. ASSUME NEW q \in Projects
          PROVE  /\ FiniteFiles(manifest'[q])
                 /\ \A e1, e2 \in manifest'[q] :
                      SameMerge(e1.path, e2.path) /\ e1.path.shard < e2.path.shard =>
                        \A r1 \in e1.rows, r2 \in e2.rows : r1.ts <= r2.ts
      <3>1. CASE q = p BY <2>1, <2>2, <3>1
      <3>2. CASE q # p BY <1>1, <3>2 DEF SegInv, ListOK, ShardsOrdered
      <3>3. QED BY <3>1, <3>2
    <2>4. ShardsOrdered' BY <2>3 DEF ShardsOrdered, SameMerge
    <2>5. QED BY <2>3, <2>4 DEF ListOK
  <1>13. FlushOK' BY <1>1 DEF SegInv, FlushOK, IsFirst
  <1>14. PlanOK' /\ DownOK' BY <1>1 DEF SegInv, PlanOK, DownOK
  <1>15. QED BY <1>8, <1>9, <1>10, <1>11, <1>12, <1>13, <1>14 DEF SegInv

\* CompactRemove preserves SegInv.
LEMMA CompactRemoveStep ==
  ASSUME Inv, SegInv, NEW b \in compact.plan, CompactRemove(b) PROVE SegInv'
  <1>1. /\ compact.stage = "remove" /\ b = compact.cur /\ BucketDone(b) /\ b.proj \in Projects
        /\ UNCHANGED <<phase, seq, stage, nextLogID, mem, writer, walBuf, manifest, nextMid, prune>>
    BY DEF CompactRemove, Inv, TypeOK, CompactTypes, Bucket
  <1>2. phase = "up" BY <1>1 DEF SegInv, DownOK, IdleCompact, Inv, TypeOK, ProcessTypes
  <1>3. compact'.plan \subseteq compact.plan \ {b} /\ compact'.stage \in {"idle", "plan"} /\ MergeOK'
    BY <1>1, BucketDoneNext
  <1>4. /\ \A q \in Projects : files'[q] \subseteq files[q]
        /\ \A q \in Projects \ {b.proj} : files'[q] = files[q]
        /\ \A f \in files[b.proj] : f \in files'[b.proj] \/ \E m \in b.members : f.path = m.path
    <2>1. PICK gone \in SUBSET b.members : files' = [files EXCEPT ![b.proj] = Without(@, SegmentPaths(gone))]
      BY DEF CompactRemove
    <2>2. QED BY <1>1, <2>1 DEF Without, SegmentPaths, Inv, TypeOK, SegTypes
  <1>5. stage[b.proj] = "none" /\ (prune.stage = "swap" => prune.proj \in Projects \ {b.proj})
    BY <1>1, Pinned
  <1>6. \A q \in Projects : InUse(q)' \subseteq InUse(q) /\ manifest'[q] = manifest[q]
    BY <1>1, <1>3 DEF InUse, Planned, Waiting, InPrune
  <1>7. Names' BY <1>1, <1>2, <1>6, NamesShrink
  <1>8. FilesOK'
    <2>1. \A e \in manifest[b.proj], m \in b.members : e.path # m.path
      BY <1>1 DEF SegInv, MergeOK
    <2>2. \A q \in Projects : \A f \in files[q] : f \in files'[q] \/ \A e \in manifest'[q] : e.path # f.path
      BY <1>4, <1>6, <2>1
    <2>3. \A q \in Projects : \A f, g \in files'[q] : f.path = g.path => f = g
      BY <1>4 DEF SegInv, FilesOK
    <2>4. QED BY <1>4, <1>6, <2>2, <2>3, FilesKept DEF SegInv
  <1>9. FlushOK'
    <2>1. \A q \in Projects : stage'[q] = "written" => q # b.proj BY <1>1, <1>5
    <2>2. QED BY <1>1, <1>4, <2>1 DEF SegInv, FlushOK, IsFirst
  <1>10. PruneOK'
    <2>1. prune.stage = "swap" => files'[prune.proj] = files[prune.proj] BY <1>4, <1>5
    <2>2. QED BY <1>1, <2>1 DEF SegInv, PruneOK, Straddles, EntirelyOld, Older, PrunedPath
  <1>11. PlanOK' BY <1>3 DEF SegInv, PlanOK
  <1>12. DownOK' BY <1>1, <1>2 DEF DownOK
  <1>13. ListOK' BY <1>6, ListShrinks
  <1>14. QED BY <1>3, <1>7, <1>8, <1>9, <1>10, <1>11, <1>12, <1>13 DEF SegInv

-----------------------------------------------------------------------------
(* The other steps, stopping and starting *)

\* Who is at work is at work in a running process.
LEMMA AtWork ==
  ASSUME Inv, SegInv, writer.pc # "idle" \/ prune.stage # "idle" \/ \E p \in Projects : stage[p] # "none"
  PROVE  phase = "up"
  BY DEF SegInv, DownOK, IdleWriter, IdlePrune, Inv, TypeOK, ProcessTypes

\* WriteBatch draws ids above all that are out.
LEMMA WriteBatchStep ==
  ASSUME Inv, Inv', SegInv, NEW entries \in Submissions, WriteBatch(entries) PROVE SegInv'
  <1>1. PICK n \in 1..BatchMax : entries \in [1..n -> Inputs] BY DEF Submissions
  <1>2. DOMAIN entries = 1..n /\ n \in Nat BY <1>1, ConstantsAssumption
  <1>3. Cardinality(DOMAIN entries) \in Nat BY <1>2, FS_Interval, FS_CardinalityType
  <1>4. nextLogID \in Nat /\ nextLogID' = nextLogID + Cardinality(DOMAIN entries)
    BY DEF WriteBatch, Inv, TypeOK, ProcessTypes
  <1>5. nextLogID <= nextLogID' BY <1>3, <1>4
  <1>6. ASSUME NEW p \in Projects, NEW r \in writer'.batch[p] PROVE nextLogID < r.id
    <2>1. writer'.batch[p] = BatchRows(entries, p) BY DEF WriteBatch
    <2>2. PICK i \in DOMAIN entries : r.id = nextLogID + i BY <2>1, <1>6 DEF BatchRows
    <2>3. QED BY <1>2, <1>4, <2>2
  <1>7. /\ phase = "up" /\ UNCHANGED <<segVars, compact, phase, seq, mem, stage, prune>>
    BY DEF WriteBatch
  <1>8. \A p \in Projects : \A r \in mem'[p] \cup writer'.batch[p] :
          r \in mem[p] \cup writer.batch[p] \/ nextLogID < r.id
    BY <1>6, <1>7
  <1>9. QED BY <1>5, <1>7, <1>8, QuietStep

\* The writer's other steps touch no segment.
LEMMA WriterStep ==
  ASSUME Inv, Inv', SegInv, NEW p,
         \/ \E k \in 1..BatchMax : ExtractFails(k)
         \/ p \in Projects /\ (WalAppend(p) \/ WalAppendFails(p) \/ WalSync(p) \/ WalSyncFails(p)
                                 \/ WalWriteFails(p))
         \/ UpsertIssues \/ UpsertIssuesFails \/ BatchReturns
  PROVE  SegInv'
  <1>0. nextLogID \in Nat BY DEF Inv, TypeOK, ProcessTypes
  <1>1. phase = "up"
    BY AtWork DEF ExtractFails, WalAppend, WalAppendFails, WalSync, WalSyncFails, WalWriteFails,
                  UpsertIssues, UpsertIssuesFails, BatchReturns
  <1>2. UNCHANGED <<segVars, compact, phase, seq, stage, prune>>
    BY DEF ExtractFails, WalAppend, WalAppendFails, WalSync, WalSyncFails, WalWriteFails,
           UpsertIssues, UpsertIssuesFails, BatchReturns
  <1>3. nextLogID <= nextLogID'
    BY <1>0 DEF ExtractFails, WalAppend, WalAppendFails, WalSync, WalSyncFails, WalWriteFails,
           UpsertIssues, UpsertIssuesFails, BatchReturns
  <1>4. \A q \in Projects : \A r \in mem'[q] \cup writer'.batch[q] : r \in mem[q] \cup writer.batch[q]
    <2>1. writer'.batch = writer.batch \/ writer'.batch = NoRows
      <3>1. writer' = writer \/ writer' = IdleWriter => writer'.batch = writer.batch \/ writer'.batch = NoRows
        BY DEF IdleWriter
      <3>2. WalAppend(p) \/ WalSync(p) \/ UpsertIssues => writer'.batch = writer.batch
        BY DEF WalAppend, WalSync, UpsertIssues, Inv, TypeOK, WriterTypes
      <3>3. QED BY <3>1, <3>2 DEF ExtractFails, WalAppendFails, WalSyncFails, WalWriteFails,
                                  UpsertIssuesFails, BatchReturns
    <2>2. \A q \in Projects : mem'[q] \subseteq mem[q] \cup writer.batch[q]
      BY DEF Inv, TypeOK, WalTypes,
             ExtractFails, WalAppend, WalAppendFails, WalSync, WalSyncFails, WalWriteFails,
             UpsertIssues, UpsertIssuesFails, BatchReturns
    <2>3. QED BY <2>1, <2>2 DEF NoRows
  <1>5. \A q \in Projects : stage'[q] = "written" => stage[q] = "written" /\ mem'[q] = mem[q]
    <2>1. CASE p \in Projects /\ WalSync(p)
      <3>1. stage[p] = "none" BY <2>1 DEF WalSync, Inv, LockHeld, HolderAtWork
      <3>2. \A q \in Projects \ {p} : mem'[q] = mem[q] BY <2>1 DEF WalSync, Inv, TypeOK, WalTypes
      <3>3. QED BY <1>2, <3>1, <3>2
    <2>2. CASE ~(p \in Projects /\ WalSync(p))
      <3>1. mem' = mem
        BY <2>2 DEF ExtractFails, WalAppend, WalAppendFails, WalSyncFails, WalWriteFails,
               UpsertIssues, UpsertIssuesFails, BatchReturns
      <3>2. QED BY <1>2, <3>1
    <2>3. QED BY <2>1, <2>2
  <1>6. QED BY <1>1, <1>2, <1>3, <1>4, <1>5, QuietStep

\* Nor do the flush's last ones, and the prune's.
LEMMA ResetStep ==
  ASSUME Inv, Inv', SegInv, NEW p \in Projects,
         AddRollups(p) \/ ResetWAL(p) \/ ResetWALFails(p) \/ PruneUnlock(p) \/ PruneEvents(p)
  PROVE  SegInv'
  <1>0. nextLogID \in Nat BY DEF Inv, TypeOK, ProcessTypes
  <1>1. phase = "up"
    BY AtWork DEF AddRollups, ResetWAL, ResetWALFails, PruneUnlock, PruneEvents
  <1>2. UNCHANGED <<segVars, compact, phase, seq, nextLogID, writer>>
    BY DEF AddRollups, ResetWAL, ResetWALFails, PruneUnlock, PruneEvents
  <1>3. prune' = prune \/ prune'.stage \in {"idle", "flush", "lock", "events"}
    BY DEF AddRollups, ResetWAL, ResetWALFails, PruneUnlock, PruneEvents, EndFlush, IdlePrune,
           Inv, TypeOK, PruneTypes
  <1>4. \A q \in Projects : mem'[q] \subseteq mem[q]
    BY DEF AddRollups, ResetWAL, ResetWALFails, PruneUnlock, PruneEvents, Inv, TypeOK, WalTypes
  <1>5. \A q \in Projects : stage'[q] = "written" => stage[q] = "written" /\ mem'[q] = mem[q]
    BY DEF AddRollups, ResetWAL, ResetWALFails, PruneUnlock, PruneEvents, EndFlush,
           Inv, TypeOK, WalTypes, ProcessTypes
  <1>6. \A q \in Projects : \A r \in mem'[q] \cup writer'.batch[q] : r \in mem[q] \cup writer.batch[q]
    BY <1>2, <1>4
  <1>7. nextLogID <= nextLogID' BY <1>0, <1>2
  <1>8. QED BY <1>1, <1>2, <1>3, <1>5, <1>6, <1>7, QuietStep

\* The callers of flushProject: with rows to flush it writes, else it returns.
LEMMA TickerFlushStep ==
  ASSUME Inv, SegInv, NEW p \in Projects, TickerFlush(p) PROVE SegInv'
  BY WriteStep DEF TickerFlush

\* ThresholdFlush preserves SegInv.
LEMMA ThresholdFlushStep ==
  ASSUME Inv, Inv', SegInv, NEW p \in Projects, ThresholdFlush(p) PROVE SegInv'
  <1>1. /\ phase = "up" /\ nextLogID \in Nat
        /\ UNCHANGED <<manifest, nextMid, compact, phase, mem, nextLogID, prune>>
        /\ writer'.batch = writer.batch
    BY AtWork DEF ThresholdFlush, Inv, TypeOK, WriterTypes, ProcessTypes
  <1>2. CASE WriteSegment(p, "writer") BY <1>1, <1>2, WriteStep
  <1>3. CASE UNCHANGED <<seq, files, lockVars>>
    <2>1. nextLogID <= nextLogID' BY <1>1
    <2>2. QED BY <1>1, <1>3, <2>1, QuietStep
  <1>4. QED BY <1>2, <1>3 DEF ThresholdFlush

\* PruneStart preserves SegInv.
LEMMA PruneStartStep ==
  ASSUME Inv, Inv', SegInv, NEW p \in Projects, NEW c \in Cutoffs, PruneStart(p, c) PROVE SegInv'
  <1>1. /\ phase = "up" /\ nextLogID \in Nat /\ prune.stage = "idle"
        /\ UNCHANGED <<manifest, nextMid, compact, phase, mem, nextLogID, writer>>
    BY DEF PruneStart, Inv, TypeOK, ProcessTypes
  <1>2. CASE WriteSegment(p, "pruner") /\ PruneBegins(p, c, "flush")
    <2>1. prune'.stage = "flush" BY <1>2 DEF PruneBegins
    <2>2. QED BY <1>1, <1>2, <2>1, WriteStep
  <1>3. CASE PruneBegins(p, c, "lock") /\ UNCHANGED <<seq, files, lockVars>>
    <2>1. nextLogID <= nextLogID' /\ prune'.stage = "lock" BY <1>1, <1>3 DEF PruneBegins
    <2>2. QED BY <1>1, <1>3, <2>1, QuietStep
  <1>4. QED BY <1>2, <1>3 DEF PruneStart

\* A process that stops leaves files and manifest as they are.
LEMMA StopStep ==
  ASSUME Inv, SegInv, Crash \/ Close PROVE SegInv'
  <1>1. Volatile /\ UNCHANGED segVars BY DEF Crash, Close
  <1>2. \A p \in Projects : InUse(p)' = manifest[p] /\ manifest'[p] = manifest[p]
    BY <1>1 DEF Volatile, InUse, Planned, Waiting, InPrune, IdlePrune, IdleCompact
  <1>3. manifest' = manifest /\ files' = files /\ nextMid' = nextMid /\ phase' = "down" BY <1>1 DEF Volatile
  <1>4. \A p \in Projects : InUse(p)' \subseteq InUse(p) BY <1>2 DEF InUse
  <1>5. Names'
    <2>1. nextMid \in Nat BY DEF Inv, TypeOK, SegTypes
    <2>2. QED BY <1>3, <1>4, <2>1, InUseType, NamesKept DEF SegInv
  <1>6. FilesOK' BY <1>3, <1>4 DEF SegInv, FilesOK
  <1>7. DownOK' BY <1>1 DEF DownOK, Volatile, NoRows
  <1>8. FlushOK' /\ PruneOK' /\ PlanOK' /\ MergeOK'
    BY <1>1 DEF Volatile, FlushOK, PruneOK, PlanOK, MergeOK, IdlePrune, IdleCompact
  <1>9. ListOK' BY <1>3, ListShrinks
  <1>10. QED BY <1>5, <1>6, <1>7, <1>8, <1>9 DEF SegInv

\* Open restarts the flush counter: what it recovers is above all the manifest
\* lists.
LEMMA OpenStep ==
  ASSUME Inv, Inv', SegInv, Open PROVE SegInv'
  <1>1. /\ phase = "down" /\ phase' = "up"
        /\ UNCHANGED <<manifest, nextMid, seq, stage, writer, prune, compact>>
        /\ \A p \in Projects : mem'[p] = Kept(p)
        /\ \A p \in Projects : files'[p] = {f \in files[p] : f.path \in SegmentPaths(manifest[p])}
    BY DEF Open
  <1>2. writer = IdleWriter /\ prune = IdlePrune /\ compact = IdleCompact
        /\ \A p \in Projects : stage[p] = "none"
    BY <1>1 DEF SegInv, DownOK
  <1>3. \A p \in Projects : InUse(p)' = manifest[p] /\ InUse(p) = manifest[p]
    BY <1>1, <1>2 DEF InUse, Planned, Waiting, InPrune, IdlePrune, IdleCompact
  <1>4. nextLogID' \in Nat /\ \A p \in Projects : \A r \in ManifestRows(p) : r.id <= nextLogID'
    <2>1. \A i \in SeedIDs : i <= nextLogID' BY DEF Open
    <2>2. \A p \in Projects : \A r \in ManifestRows(p) : r.id \in SeedIDs BY DEF SeedIDs
    <2>3. nextLogID' \in Nat BY DEF Inv, TypeOK, ProcessTypes
    <2>4. QED BY <2>1, <2>2, <2>3
  <1>5. Names'
    <2>1. ASSUME NEW p \in Projects, NEW e \in InUse(p)', e.path.kind = "flush"
          PROVE  Above(p, e.path.first)'
      <3>1. e \in manifest[p] /\ e \in Entry BY <1>3, <2>1, InUseType
      <3>2. NameOK(p, e) BY <1>3, <3>1 DEF SegInv, Names
      <3>3. PICK q \in e.rows : e.path.first <= q.id BY <2>1, <3>2 DEF NameOK
      <3>4. q.id \in Nat /\ e.path.first \in Nat BY <3>1, <3>3 DEF Entry, Row, Path
      <3>5. q.id <= nextLogID' BY <1>4, <3>1, <3>3 DEF ManifestRows
      <3>6. ASSUME NEW r \in Kept(p) PROVE q.id < r.id
        <4>1. r.id \in Nat /\ ~(r.id <= q.id)
          BY <3>1, <3>3, <3>6 DEF Kept, Covered, Inv, TypeOK, WalTypes, Row
        <4>2. QED BY <3>4, <4>1
      <3>7. \A r \in mem'[p] \cup writer'.batch[p] : q.id < r.id /\ r.id \in Nat
        <4>1. writer'.batch[p] = {} BY <1>1, <1>2 DEF IdleWriter, NoRows
        <4>2. \A r \in Kept(p) : r.id \in Nat BY DEF Kept, Inv, TypeOK, WalTypes, Row
        <4>3. QED BY <1>1, <3>6, <4>1, <4>2
      <3>8. e.path.first <= nextLogID' BY <1>4, <3>3, <3>4, <3>5
      <3>9. \A r \in mem'[p] \cup writer'.batch[p] : e.path.first < r.id
        BY <3>3, <3>4, <3>7
      <3>10. QED BY <3>8, <3>9 DEF Above
    <2>2. nextMid \in Nat /\ nextMid' = nextMid BY <1>1 DEF Inv, TypeOK, SegTypes
    <2>3. QED BY <1>1, <1>3, <2>1, <2>2, InUseType, NamesKept DEF SegInv
  <1>6. FilesOK'
    <2>1. \A p \in Projects : \A f \in files[p] : f \in files'[p] \/ \A e \in manifest'[p] : e.path # f.path
      BY <1>1 DEF SegmentPaths
    <2>2. \A p \in Projects : files'[p] \subseteq files[p] BY <1>1
    <2>3. \A p \in Projects : \A f, g \in files'[p] : f.path = g.path => f = g
      BY <2>2 DEF SegInv, FilesOK
    <2>4. QED BY <1>1, <1>3, <2>1, <2>2, <2>3, FilesKept DEF SegInv
  <1>7. FlushOK' /\ PruneOK' /\ PlanOK' /\ MergeOK' /\ DownOK'
    BY <1>1, <1>2 DEF FlushOK, PruneOK, PlanOK, MergeOK, DownOK, IdlePrune, IdleCompact
  <1>8. ListOK' BY <1>1, ListShrinks
  <1>9. QED BY <1>5, <1>6, <1>7, <1>8 DEF SegInv

-----------------------------------------------------------------------------
(* The theorems on segments *)

\* The empty store satisfies SegInv.
LEMMA InitSegInv == ASSUME Init PROVE SegInv
  <1>1. \A p \in Projects : manifest[p] = {} /\ files[p] = {} /\ InUse(p) = {}
    BY DEF Init, InUse, Planned, Waiting, InPrune, IdlePrune, IdleCompact
  <1>2. Names /\ FilesOK BY <1>1 DEF Names, FilesOK
  <1>3. FlushOK /\ PruneOK /\ PlanOK /\ MergeOK /\ DownOK
    BY DEF Init, FlushOK, PruneOK, PlanOK, MergeOK, DownOK, IdlePrune, IdleCompact
  <1>4. ListOK BY <1>1, FS_EmptySet DEF ListOK, FiniteFiles, ShardsOrdered
  <1>5. QED BY <1>2, <1>3, <1>4 DEF SegInv

\* A stuttering step preserves SegInv.
LEMMA StutterSegInv == ASSUME Inv, Inv', SegInv, UNCHANGED vars PROVE SegInv'
  <1>0. UNCHANGED <<manifest, seq, nextLogID, nextMid, phase, mem, writer, stage, prune, compact>>
    BY DEF vars
  <1>1. Names'
    <2>1. \A p \in Projects : InUse(p)' = InUse(p) BY <1>0 DEF InUse, Planned, Waiting, InPrune
    <2>2. \A p \in Projects : \A e : NameOK(p, e)' <=> NameOK(p, e)
      BY <1>0 DEF NameOK, Above, Flushes
    <2>3. QED BY <1>0, <2>1, <2>2 DEF SegInv, Names, Apart, Later, Base
  <1>2. FilesOK' BY DEF SegInv, vars, FilesOK, InUse, Planned, Waiting, InPrune
  <1>3. FlushOK' /\ PruneOK' /\ PlanOK' /\ MergeOK' /\ DownOK' /\ ListOK'
    BY DEF SegInv, vars, FlushOK, PruneOK, PlanOK, MergeOK, DownOK, ListOK, ShardsOrdered,
           IsFirst, Straddles, EntirelyOld, Older, PrunedPath
  <1>4. QED BY <1>1, <1>2, <1>3 DEF SegInv

\* Every step preserves SegInv.
LEMMA NextSegInv == ASSUME Inv, SegInv, [Next]_vars PROVE SegInv'
  <1>0. Inv' BY NextInv
  <1>1. CASE WriterNext
    <2>1. CASE \E entries \in Submissions : WriteBatch(entries) BY <1>0, <2>1, WriteBatchStep
    <2>2. CASE \E p \in Projects : ThresholdFlush(p) BY <1>0, <2>2, ThresholdFlushStep
    <2>3. CASE \E p \in Projects : WalAppend(p) \/ WalAppendFails(p) \/ WalSync(p)
                                     \/ WalSyncFails(p) \/ WalWriteFails(p)
      BY <1>0, <2>3, WriterStep
    <2>4. CASE (\E k \in 1..BatchMax : ExtractFails(k)) \/ UpsertIssues \/ UpsertIssuesFails \/ BatchReturns
      BY <1>0, <2>4, WriterStep
    <2>5. QED BY <1>1, <2>1, <2>2, <2>3, <2>4 DEF WriterNext
  <1>2. CASE FlushNext
    BY <1>0, <1>2, TickerFlushStep, InsertStep, SegmentFailsStep, ResetStep DEF FlushNext
  <1>3. CASE PruneNext
    BY <1>0, <1>3, PruneStartStep, PruneLockStep, PruneDropStep, PruneRewriteStep, PruneSwapStep,
       PruneFailsStep, PruneRemoveStep, ResetStep DEF PruneNext
  <1>4. CASE CompactNext
    BY <1>4, CompactPlanStep, CompactBuildStep, CompactBuildFailsStep, CompactSwapStep,
       CompactAbortsStep, CompactRemoveStep DEF CompactNext
  <1>5. CASE Crash \/ Close \/ Open BY <1>0, <1>5, StopStep, OpenStep
  <1>6. CASE UNCHANGED vars BY <1>0, <1>6, StutterSegInv
  <1>7. QED BY <1>1, <1>2, <1>3, <1>4, <1>5, <1>6 DEF Next

(* SegInv is an invariant of the store. *)
THEOREM SegmentInvariance == Spec => [](Inv /\ SegInv)
  <1>1. Init => Inv /\ SegInv BY InitInv, InitSegInv
  <1>2. Inv /\ SegInv /\ [Next]_vars => (Inv /\ SegInv)' BY NextInv, NextSegInv
  <1>3. QED BY <1>1, <1>2, PTL DEF Spec

(* A listed segment has its file, with the rows it was listed for            *)
(* (ManifestBacked): flush, merge and rewrite never reuse a name that counts *)
(* and never remove a listed file, across crashes and restarts.              *)
THEOREM ManifestIsBacked == Spec => []ManifestBacked
  <1>1. SegInv => ManifestBacked BY DEF SegInv, FilesOK, ManifestBacked
  <1>2. QED BY <1>1, SegmentInvariance, PTL

(* A merge leaves fewer segments than it found (FewerSegments), however many *)
(* rows a shard may hold.                                                    *)
THEOREM MergesShrink == Spec => []FewerSegments
  <1>1. SegInv => FewerSegments BY DEF SegInv, MergeOK, FewerSegments
  <1>2. QED BY <1>1, SegmentInvariance, PTL

(* The shards of one merge follow each other in time (ShardsOrdered), and    *)
(* rewrites by the retention keep them so.                                   *)
THEOREM ShardsStayOrdered == Spec => []ShardsOrdered
  <1>1. SegInv => ShardsOrdered BY DEF SegInv, ListOK
  <1>2. QED BY <1>1, SegmentInvariance, PTL

-----------------------------------------------------------------------------
(* The rows *)

Rows(p) == wal[p] \cup walBuf[p] \cup mem[p] \cup writer.batch[p] \cup ManifestRows(p)

(* An id is one row's, and an event ref's log id is its own row's; ids and  *)
(* bodies are drawn above all that are out.                                *)
RefInv ==
  /\ \A p, q \in Projects : \A r \in Rows(p), s \in Rows(q) : r.id = s.id => r = s /\ p = q
  /\ \A p, q \in Projects : \A ref \in events[p], r \in Rows(q) :
       r.id = ref.log => r.body = ref.body /\ p = q
  /\ phase = "up" => \A p \in Projects :
       /\ \A r \in Rows(p) : r.id <= nextLogID
       /\ \A ref \in events[p] : ref.log <= nextLogID
  /\ \A p \in Projects : \A r \in Rows(p) \cup retired[p] \cup prune.due : r.body <= born

(* The rows of a batch not yet synced are the newest of their project; in  *)
(* the WAL they are the last.                                              *)
Pending(p) == p \in writer.left /\ writer.pc \in {"append", "sync"}
Syncing(p) == writer.pc = "sync" /\ mu[p] = "writer"
Busy(p) == stage[p] \in {"inserted", "rolled"}   \* flushed, but not yet reset
BatchInv == \A p \in Projects :
  /\ Syncing(p) => Pending(p) /\ writer.batch[p] \subseteq walBuf[p]
  /\ Pending(p) =>
       /\ writer.batch[p] # {}
       /\ \A r \in writer.batch[p], q \in mem[p] \cup ManifestRows(p) : q.id < r.id
       /\ ~Syncing(p) => \A r \in writer.batch[p], q \in wal[p] \cup walBuf[p] : q.id < r.id

(* No row twice, unless a WAL could not be reset. *)
DupInv == \A p \in Projects :
  /\ Busy(p) => mem[p] \subseteq ManifestRows(p)
  /\ resetFailed[p] \/ DuplicateFree(p)

(* Where no WAL record is ever torn, a synced row is in the manifest or in  *)
(* the WAL, and in the latter case in the memtable too.                    *)
DurInv == "torn" \notin Faults => \A p \in Projects :
  /\ ~torn[p]
  /\ synced[p] \subseteq ManifestRows(p) \cup retired[p] \cup Kept(p)
  /\ phase = "up" => synced[p] \subseteq ManifestRows(p) \cup retired[p] \cup mem[p]

(* Where every WAL is written and reset: it holds only rows newer than all  *)
(* the manifest lists, and none a prune removed.                           *)
CleanLog == Faults \cap {"midflush", "wal_write", "wal_truncate"} = {}
LogOK(p) ==
  /\ ~walErr[p] /\ ~resetFailed[p]
  /\ ~Busy(p) => \A r \in wal[p] \cup walBuf[p], q \in ManifestRows(p) : q.id < r.id
  /\ phase = "up" /\ mem[p] = {} => wal[p] = {}
  /\ (wal[p] \cup walBuf[p] \cup mem[p] \cup ManifestRows(p)) \cap retired[p] = {}
  /\ Pending(p) => writer.batch[p] \cap retired[p] = {}

(* What the prune at hand must remove is in the segments it has still to do. *)
DueOK(p) == prune.proj = p /\ prune.stage # "idle" =>
  /\ \A r \in prune.due : r.ts < prune.cutoff
  /\ Pending(p) => writer.batch[p] \cap prune.due = {}
  /\ prune.stage # "flush" => (wal[p] \cup walBuf[p] \cup mem[p]) \cap prune.due = {}
  /\ prune.stage \in {"scan", "swap", "remove"} =>
       \A e \in manifest[p] : e.rows \cap prune.due # {} => e \in prune.todo
  /\ prune.stage = "events" => ManifestRows(p) \cap prune.due = {}

(* A pruned row is in the memtable, or on its way there, only after a start *)
(* took it back.                                                           *)
Unpruned(p) ==
  /\ mem[p] \cap retired[p] = {}
  /\ Pending(p) => writer.batch[p] \cap retired[p] = {}
FreshOK(p) == resetFailed[p] \/ revived[p] \/ Unpruned(p)

(* The counts are those of the flushed rows, less the flush at hand and     *)
(* those that were lost.                                                   *)
Flushed(p, h) == {r \in (ManifestRows(p) \cup retired[p]) \ uncounted[p] : r.ts = h}
Counted(p) ==
  /\ stage[p] = "inserted" => mem[p] \cap uncounted[p] = {}
  /\ \A h \in Hours :
       IF stage[p] = "inserted" THEN RolledUp(p)[h] = Cardinality(Flushed(p, h))
                               ELSE rollups[p][h] = Cardinality(Flushed(p, h))
CountOK(p) ==
  /\ IsFiniteSet(retired[p])
  /\ uncounted[p] \subseteq ManifestRows(p) \cup retired[p]
  /\ resetFailed[p] \/ revived[p] \/ Counted(p)


-----------------------------------------------------------------------------
(* The steps, as the rows see them.  A quiet step moves no row: at most the *)
(* writer gives up, a flush starts or fails, segments are swapped for       *)
(* others of the same rows.                                                *)
SegDisjoint(p) == \A e1, e2 \in manifest[p] : e1 # e2 => e1.rows \cap e2.rows = {}
Quiet ==
  /\ UNCHANGED <<wal, torn, walBuf, walErr, mem, rollups, phase, nextLogID, born, synced,
                 retired, resetFailed>>
  /\ \A p \in Projects :
       /\ ManifestRows(p)' = ManifestRows(p) /\ (manifest'[p] = manifest[p] \/ mu[p] = "free")
       /\ SegDisjoint(p) => SegDisjoint(p)'
       /\ stage'[p] = stage[p] \/ {stage[p], stage'[p]} \subseteq {"none", "written"}
       /\ writer'.batch[p] \subseteq writer.batch[p]
       /\ Pending(p)' => Pending(p) /\ writer'.batch[p] = writer.batch[p]
                         /\ (Syncing(p)' <=> Syncing(p))
       /\ Syncing(p)' => Syncing(p) /\ (Pending(p) => Pending(p)')
       /\ \A ref \in events'[p] : ref \in events[p] \/
            \E r \in writer.batch[p] : ref.log = r.id /\ ref.body = r.body
  /\ \A r \in prune'.due : r \in prune.due \/ \E p \in Projects : r \in ManifestRows(p) \cup wal[p]

\* The steps that do.
Loud ==
  \/ \E entries \in Submissions : WriteBatch(entries)
  \/ \E k \in 1..BatchMax : ExtractFails(k)
  \/ \E p \in Projects : \/ WalAppend(p) \/ WalSync(p) \/ WalWriteFails(p)
                         \/ InsertSegment(p) \/ AddRollups(p) \/ ResetWAL(p) \/ ResetWALFails(p)
                         \/ \E e \in prune.todo : PruneDrop(p, e)
                         \/ PruneSwap(p)
  \/ Crash \/ Close \/ Open

\* What a start would serve is in a listed segment or in the WAL, and the
\* manifest covers what is no newer than its rows.
LEMMA Served ==
  ASSUME FilesOK, NEW p \in Projects
  PROVE  /\ Readable(p) = ManifestRows(p) \cup Kept(p)
         /\ Kept(p) = {r \in wal[p] : \A q \in ManifestRows(p) : ~(r.id <= q.id)}
  <1>1. FileRows(files[p], SegmentPaths(manifest[p])) = ManifestRows(p)
    <2>1. ManifestRows(p) \subseteq FileRows(files[p], SegmentPaths(manifest[p]))
      <3>1. ASSUME NEW e \in manifest[p], NEW r \in e.rows
            PROVE  r \in FileRows(files[p], SegmentPaths(manifest[p]))
        <4>1. [path |-> e.path, rows |-> e.rows] \in files[p] BY DEF FilesOK
        <4>2. QED BY <3>1, <4>1 DEF FileRows, SegmentPaths
      <3>2. QED BY <3>1 DEF ManifestRows
    <2>2. FileRows(files[p], SegmentPaths(manifest[p])) \subseteq ManifestRows(p)
      <3>1. ASSUME NEW f \in files[p], f.path \in SegmentPaths(manifest[p]), NEW r \in f.rows
            PROVE  r \in ManifestRows(p)
        <4>1. PICK e \in manifest[p] : f.path = e.path BY <3>1 DEF SegmentPaths
        <4>2. f.rows = e.rows BY <4>1 DEF FilesOK, InUse
        <4>3. QED BY <3>1, <4>2 DEF ManifestRows
      <3>2. QED BY <3>1 DEF FileRows
    <2>3. QED BY <2>1, <2>2
  <1>2. Kept(p) = {r \in wal[p] : \A q \in ManifestRows(p) : ~(r.id <= q.id)}
    <2>1. \A r : Covered(p, r) <=> \E q \in ManifestRows(p) : r.id <= q.id
      BY DEF Covered, ManifestRows
    <2>2. QED BY <2>1 DEF Kept
  <1>3. QED BY <1>1, <1>2 DEF Readable

\* The rows in and around the store are rows.
LEMMA RowTypes ==
  ASSUME Inv, NEW p \in Projects
  PROVE  /\ Rows(p) \subseteq Row /\ ManifestRows(p) \subseteq Row
         /\ \A r \in Rows(p) : r.id \in Nat /\ r.body \in Nat
  <1>1. ManifestRows(p) \subseteq Row
    BY DEF ManifestRows, Inv, TypeOK, SegTypes, Entry
  <1>2. Rows(p) \subseteq Row
    BY <1>1 DEF Rows, Inv, TypeOK, WalTypes, WriterTypes
  <1>3. QED BY <1>1, <1>2 DEF Row

\* Where the manifest stays, so do its rows.
LEMMA SameRows ==
  ASSUME UNCHANGED manifest
  PROVE  \A p \in Projects : ManifestRows(p)' = ManifestRows(p) /\ (SegDisjoint(p) => SegDisjoint(p)')
  BY DEF ManifestRows, SegDisjoint

-----------------------------------------------------------------------------
(* Which steps are quiet *)

\* The writer's steps that move no row.
LEMMA QuietWriter ==
  ASSUME Inv,
         \/ \E p \in Projects : WalAppendFails(p) \/ WalSyncFails(p)
         \/ UpsertIssues \/ UpsertIssuesFails \/ BatchReturns
  PROVE  Quiet
  <1>1. UNCHANGED manifest /\ prune' = prune
    BY DEF WalAppendFails, WalSyncFails, UpsertIssues, UpsertIssuesFails, BatchReturns
  <1>2. UNCHANGED <<wal, torn, walBuf, walErr, mem, rollups, phase, nextLogID, born, synced,
                    retired, resetFailed, stage>>
    BY DEF WalAppendFails, WalSyncFails, UpsertIssues, UpsertIssuesFails, BatchReturns
  <1>3. writer'.pc \in {"idle", "flush"}
    BY DEF WalAppendFails, WalSyncFails, UpsertIssues, UpsertIssuesFails, BatchReturns, IdleWriter,
           Inv, TypeOK, WriterTypes
  <1>4. writer'.batch = writer.batch \/ writer'.batch = NoRows
    BY DEF WalAppendFails, WalSyncFails, UpsertIssues, UpsertIssuesFails, BatchReturns, IdleWriter,
           Inv, TypeOK, WriterTypes
  <1>5. ASSUME NEW p \in Projects, NEW ref \in events'[p]
        PROVE  ref \in events[p] \/ \E r \in writer.batch[p] : ref.log = r.id /\ ref.body = r.body
    <2>1. CASE UpsertIssues
      <3>1. events'[p] = Newest(events[p] \cup { [log |-> r.id, ts |-> r.ts, body |-> r.body]
                                                  : r \in {q \in writer.batch[p] : q.ev} })
        BY <2>1 DEF UpsertIssues
      <3>2. QED BY <1>5, <3>1 DEF Newest
    <2>2. CASE UNCHANGED events BY <1>5, <2>2
    <2>3. QED BY <2>1, <2>2 DEF WalAppendFails, WalSyncFails, UpsertIssuesFails, BatchReturns
  <1>6. \A p \in Projects : ~Pending(p)' /\ ~Syncing(p)' BY <1>3 DEF Pending, Syncing
  <1>7. \A p \in Projects : writer'.batch[p] \subseteq writer.batch[p] BY <1>4 DEF NoRows
  <1>8. QED BY <1>1, <1>2, <1>5, <1>6, <1>7, SameRows DEF Quiet

\* The lock moves while the writer syncs nothing.
LEMMA SameSync ==
  ASSUME Inv, Inv', writer'.pc = writer.pc, writer'.left = writer.left, NEW p \in Projects,
         \/ mu'[p] = mu[p]
         \/ mu[p] = "free" /\ (mu'[p] # "writer" \/ stage'[p] # "none")
         \/ mu'[p] = "free" /\ (mu[p] # "writer" \/ stage[p] # "none")
  PROVE  (Pending(p)' <=> Pending(p)) /\ (Syncing(p)' <=> Syncing(p))
  <1>1. Pending(p)' <=> Pending(p) BY DEF Pending
  <1>2. /\ mu[p] = "writer" /\ writer.pc = "sync" => stage[p] = "none"
        /\ mu'[p] = "writer" /\ writer'.pc = "sync" => stage'[p] = "none"
    BY DEF Inv, LockHeld, HolderAtWork
  <1>3. QED BY <1>1, <1>2 DEF Syncing
\* A flush starts, or fails before its segment is listed.
LEMMA QuietFlush ==
  ASSUME Inv, Inv', SegInv, NEW p \in Projects,
         TickerFlush(p) \/ ThresholdFlush(p) \/ SegmentFails(p) \/ \E c \in Cutoffs : PruneStart(p, c)
  PROVE  Quiet
  <1>1. UNCHANGED <<wal, torn, walBuf, walErr, mem, rollups, phase, nextLogID, born, synced,
                    retired, resetFailed, manifest, events, writer.pc, writer.left, writer.batch>>
    BY DEF TickerFlush, ThresholdFlush, SegmentFails, PruneStart, Inv, TypeOK, WriterTypes
  <1>2. /\ \A q \in Projects \ {p} : mu'[q] = mu[q] /\ stage'[q] = stage[q]
        /\ \/ mu'[p] = mu[p] /\ stage'[p] = stage[p]
           \/ mu[p] = "free" /\ stage'[p] = "written"
           \/ mu'[p] = "free" /\ stage[p] = "written" /\ stage'[p] = "none"
    BY DEF TickerFlush, ThresholdFlush, SegmentFails, PruneStart, WriteSegment, EndFlush, Inv, TypeOK,
           ProcessTypes
  <1>3. stage'[p] = stage[p] \/ {stage[p], stage'[p]} \subseteq {"none", "written"}
    BY <1>2 DEF Inv, LockHeld, HolderAtWork
  <1>4. \A q \in Projects : (Pending(q)' <=> Pending(q)) /\ (Syncing(q)' <=> Syncing(q))
    BY <1>1, <1>2, SameSync
  <1>5. ASSUME NEW r \in prune'.due
        PROVE  r \in prune.due \/ \E q \in Projects : r \in ManifestRows(q) \cup wal[q]
    <2>1. CASE \E c \in Cutoffs : PruneStart(p, c)
      <3>1. r \in Readable(p) BY <1>5, <2>1 DEF PruneStart, PruneBegins, Older
      <3>2. QED BY <3>1, Served DEF SegInv
    <2>2. CASE prune'.due = prune.due BY <1>5, <2>2
    <2>3. CASE prune' = IdlePrune BY <1>5, <2>3 DEF IdlePrune
    <2>4. QED
      BY <2>1, <2>2, <2>3 DEF TickerFlush, ThresholdFlush, SegmentFails, EndFlush, Inv, TypeOK, PruneTypes
  <1>6. QED BY <1>1, <1>2, <1>3, <1>4, <1>5, SameRows DEF Quiet

\* The steps of a prune that take no row.
LEMMA QuietPrune ==
  ASSUME Inv, Inv', NEW p \in Projects,
         \/ PruneLock(p) \/ PruneFails(p) \/ PruneRemove(p) \/ PruneUnlock(p) \/ PruneEvents(p)
         \/ \E e \in prune.todo : PruneRewrite(p, e)
  PROVE  Quiet
  <1>1. UNCHANGED <<wal, torn, walBuf, walErr, mem, rollups, phase, nextLogID, born, synced,
                    retired, resetFailed, manifest, stage, writer>>
    BY DEF PruneLock, PruneFails, PruneRemove, PruneUnlock, PruneEvents, PruneRewrite
  <1>2. prune'.due = prune.due \/ prune'.due = {}
    <2>1. CASE PruneLock(p)
      <3>1. prune' = [prune EXCEPT !.stage = "scan", !.todo = {e \in manifest[p] : Older(e.rows, prune.cutoff) # {}}]
        BY <2>1 DEF PruneLock
      <3>2. QED BY <3>1 DEF Inv, TypeOK, PruneTypes
    <2>2. CASE \E e \in prune.todo : PruneRewrite(p, e)
      BY <2>2 DEF PruneRewrite, Inv, TypeOK, PruneTypes
    <2>3. CASE prune' = IdlePrune BY <2>3 DEF IdlePrune
    <2>4. CASE PruneUnlock(p) BY <2>4 DEF PruneUnlock, Inv, TypeOK, PruneTypes
    <2>5. CASE prune' = [prune EXCEPT !.stage = "scan", !.cur = None]
      BY <2>5 DEF Inv, TypeOK, PruneTypes
    <2>6. QED BY <2>1, <2>2, <2>3, <2>4, <2>5 DEF PruneFails, PruneRemove, PruneEvents
  <1>3. \A q \in Projects : events'[q] \subseteq events[q]
    BY DEF PruneLock, PruneFails, PruneRemove, PruneUnlock, PruneEvents, PruneRewrite, Inv, TypeOK, MetaTypes
  <1>4. /\ \A q \in Projects \ {p} : mu'[q] = mu[q]
        /\ \/ mu'[p] = mu[p]
           \/ mu[p] = "free" /\ mu'[p] = "pruner"
           \/ mu'[p] = "free" /\ mu[p] = "pruner"
    <2>1. CASE PruneLock(p) BY <2>1 DEF PruneLock, Inv, TypeOK, ProcessTypes
    <2>2. CASE PruneFails(p) \/ PruneRemove(p) \/ PruneUnlock(p)
      <3>1. mu[p] = "pruner"
        BY <2>2, Pinned DEF PruneFails, PruneRemove, PruneUnlock
      <3>2. mu' = mu \/ mu' = [mu EXCEPT ![p] = "free"]
        BY <2>2 DEF PruneFails, PruneRemove, PruneUnlock
      <3>3. QED BY <3>1, <3>2 DEF Inv, TypeOK, ProcessTypes
    <2>3. CASE UNCHANGED mu BY <2>3
    <2>4. QED BY <2>1, <2>2, <2>3 DEF PruneEvents, PruneRewrite
  <1>5. \A q \in Projects : (Pending(q)' <=> Pending(q)) /\ (Syncing(q)' <=> Syncing(q))
    BY <1>1, <1>4, SameSync
  <1>6. QED BY <1>1, <1>2, <1>3, <1>5, SameRows DEF Quiet

\* A swap leaves the project the rows it had, each in one segment.
LEMMA SwapKeepsRows ==
  ASSUME Inv, SegInv, NEW b \in compact.plan, CompactSwap(b), NEW p \in Projects
  PROVE  ManifestRows(p)' = ManifestRows(p) /\ (SegDisjoint(p) => SegDisjoint(p)')
  <1>1. CASE p # b.proj
    <2>1. manifest'[p] = manifest[p] BY <1>1, SwapFacts
    <2>2. QED BY <2>1 DEF ManifestRows, SegDisjoint
  <1>2. CASE p = b.proj
    <2>1. /\ b.members \subseteq manifest[p] /\ compact.stage = "built" /\ b = compact.cur
          /\ manifest'[p] = (manifest[p] \ b.members) \cup {AsListed(f) : f \in compact.new}
      BY <1>2, SwapFacts
    <2>2. Shares(compact.new, b.members) BY <2>1 DEF SegInv, MergeOK
    <2>3. UNION {f.rows : f \in compact.new} = UNION {m.rows : m \in b.members}
      BY <2>2 DEF Shares, RowsOf
    <2>4. \A f \in compact.new : AsListed(f).rows = f.rows BY DEF AsListed
    <2>5. ManifestRows(p)' = ManifestRows(p)
      <3>1. ASSUME NEW r PROVE r \in ManifestRows(p)' <=> r \in ManifestRows(p)
        <4>1. (\E f \in compact.new : r \in f.rows) <=> \E m \in b.members : r \in m.rows
          BY <2>3
        <4>2. r \in ManifestRows(p) <=> \E e \in manifest[p] : r \in e.rows BY DEF ManifestRows
        <4>3. r \in ManifestRows(p)' <=> \E e \in manifest'[p] : r \in e.rows BY DEF ManifestRows
        <4>4. (\E e \in manifest'[p] : r \in e.rows) <=>
              (\E e \in manifest[p] \ b.members : r \in e.rows) \/ \E f \in compact.new : r \in f.rows
          BY <2>1, <2>4
        <4>5. QED BY <2>1, <4>1, <4>2, <4>3, <4>4
      <3>2. QED BY <3>1
    <2>6. SegDisjoint(p) => SegDisjoint(p)'
      <3>1. ASSUME SegDisjoint(p), NEW e1 \in manifest'[p], NEW e2 \in manifest'[p], e1 # e2
            PROVE  e1.rows \cap e2.rows = {}
        <4>1. CASE e1 \in manifest[p] \ b.members /\ e2 \in manifest[p] \ b.members
          BY <3>1, <4>1 DEF SegDisjoint
        <4>2. ASSUME NEW e \in manifest[p] \ b.members, NEW f \in compact.new
              PROVE  e.rows \cap f.rows = {}
          <5>1. ASSUME NEW r \in e.rows, r \in f.rows PROVE FALSE
            <6>1. PICK m \in b.members : r \in m.rows BY <2>3, <5>1
            <6>2. m \in manifest[p] /\ m # e BY <2>1
            <6>3. QED BY <3>1, <5>1, <6>1, <6>2 DEF SegDisjoint
          <5>2. QED BY <5>1
        <4>3. ASSUME NEW f \in compact.new, NEW g \in compact.new, e1 = AsListed(f), e2 = AsListed(g)
              PROVE  e1.rows \cap e2.rows = {}
          <5>1. f # g BY <3>1, <4>3
          <5>2. f.rows \cap g.rows = {} BY <2>2, <5>1 DEF Shares
          <5>3. QED BY <2>4, <4>3, <5>2
        <4>4. QED BY <2>1, <2>4, <4>1, <4>2, <4>3
      <3>2. QED BY <3>1 DEF SegDisjoint
    <2>7. QED BY <2>5, <2>6
  <1>3. QED BY <1>1, <1>2

\* The compactor moves no row.
LEMMA QuietCompact ==
  ASSUME Inv, Inv', SegInv, CompactNext
  PROVE  Quiet
  <1>1. UNCHANGED <<wal, torn, walBuf, walErr, mem, rollups, phase, nextLogID, born, synced,
                    retired, resetFailed, events, stage, writer, prune>>
    BY DEF CompactNext, CompactPlan, CompactBuild, CompactBuildFails, CompactSwap, CompactAborts,
           CompactRemove
  <1>2. \A p \in Projects : /\ ManifestRows(p)' = ManifestRows(p) /\ (SegDisjoint(p) => SegDisjoint(p)')
                            /\ manifest'[p] = manifest[p] \/ mu[p] = "free"
    <2>1. CASE UNCHANGED manifest BY <2>1, SameRows
    <2>2. CASE \E b \in compact.plan : CompactSwap(b) BY <2>2, SwapFacts, SwapKeepsRows
    <2>3. QED BY <2>1, <2>2 DEF CompactNext, CompactPlan, CompactBuild, CompactBuildFails, CompactAborts,
                                CompactRemove
  <1>3. ASSUME NEW p \in Projects
        PROVE  \/ mu'[p] = mu[p]
               \/ mu[p] = "free" /\ mu'[p] = "compactor"
               \/ mu[p] = "compactor" /\ mu'[p] = "free"
    <2>1. CASE UNCHANGED mu BY <2>1
    <2>2. ASSUME NEW b \in compact.plan, CompactSwap(b)
          PROVE  mu'[p] = mu[p] \/ (mu[p] = "free" /\ mu'[p] = "compactor")
      BY <2>2 DEF CompactSwap, Inv, TypeOK, ProcessTypes
    <2>3. ASSUME NEW b \in compact.plan, CompactRemove(b)
          PROVE  mu'[p] = mu[p] \/ (mu[p] = "compactor" /\ mu'[p] = "free")
      <3>1. mu[b.proj] = "compactor" BY <2>3, Pinned DEF CompactRemove
      <3>2. QED BY <2>3, <3>1 DEF CompactRemove, Inv, TypeOK, ProcessTypes
    <2>4. QED BY <2>1, <2>2, <2>3 DEF CompactNext, CompactPlan, CompactBuild, CompactBuildFails,
                                      CompactAborts
  <1>4. \A p \in Projects : (Pending(p)' <=> Pending(p)) /\ (Syncing(p)' <=> Syncing(p))
    BY <1>1, <1>3, SameSync
  <1>5. QED BY <1>1, <1>2, <1>4 DEF Quiet

\* Every step is quiet or loud.
LEMMA QuietOrLoud == ASSUME Inv, Inv', SegInv, [Next]_vars PROVE Quiet \/ Loud
  <1>1. CASE UNCHANGED vars BY <1>1, SameRows DEF vars, Quiet, Pending, Syncing
  <1>2. CASE WriterNext BY <1>2, QuietWriter, QuietFlush DEF WriterNext, Loud
  <1>3. CASE FlushNext BY <1>3, QuietFlush DEF FlushNext, Loud
  <1>4. CASE PruneNext BY <1>4, QuietFlush, QuietPrune DEF PruneNext, Loud
  <1>5. CASE CompactNext BY <1>5, QuietCompact
  <1>6. QED BY <1>1, <1>2, <1>3, <1>4, <1>5 DEF Next, Loud
-----------------------------------------------------------------------------
(* One id, one row *)

\* With no new row, no new ref and no number taken back, ids stay apart.
LEMMA RefKept ==
  ASSUME Inv, Inv', RefInv,
         \A p \in Projects : Rows(p)' \subseteq Rows(p),
         \A p \in Projects : \A ref \in events'[p] : ref \in events[p] \/
           \E r \in writer.batch[p] : ref.log = r.id /\ ref.body = r.body,
         phase' = "up" => phase = "up" /\ nextLogID <= nextLogID',
         \A p \in Projects : \A r \in retired'[p] \cup prune'.due :
           \E q \in Projects : r \in Rows(q) \cup retired[q] \cup prune.due,
         born' = born
  PROVE  RefInv'
  <1>1. \A p \in Projects : writer.batch[p] \subseteq Rows(p) BY DEF Rows
  <1>2. \A p, q \in Projects : \A r \in Rows(p)', s \in Rows(q)' : r.id = s.id => r = s /\ p = q
    BY DEF RefInv
  <1>3. ASSUME NEW p \in Projects, NEW q \in Projects, NEW ref \in events'[p], NEW r \in Rows(q)',
               r.id = ref.log
        PROVE  r.body = ref.body /\ p = q
    <2>1. CASE ref \in events[p] BY <1>3, <2>1 DEF RefInv
    <2>2. ASSUME NEW s \in writer.batch[p], ref.log = s.id, ref.body = s.body
          PROVE  r.body = ref.body /\ p = q
      BY <1>1, <1>3, <2>2 DEF RefInv
    <2>3. QED BY <1>3, <2>1, <2>2
  <1>4. nextLogID \in Nat /\ nextLogID' \in Nat BY DEF Inv, TypeOK, ProcessTypes
  <1>5. ASSUME phase' = "up", NEW p \in Projects, NEW r \in Rows(p)' PROVE r.id <= nextLogID'
    <2>1. r \in Rows(p) /\ r.id <= nextLogID BY <1>5 DEF RefInv
    <2>2. r.id \in Nat BY <2>1, RowTypes
    <2>3. QED BY <1>4, <1>5, <2>1, <2>2
  <1>6. ASSUME phase' = "up", NEW p \in Projects, NEW ref \in events'[p] PROVE ref.log <= nextLogID'
    <2>1. ref.log \in Nat BY DEF Inv, TypeOK, MetaTypes, Ref
    <2>2. ref.log <= nextLogID BY <1>1, <1>6 DEF RefInv
    <2>3. QED BY <1>4, <1>6, <2>1, <2>2
  <1>7. \A p \in Projects : \A r \in Rows(p)' \cup retired'[p] \cup prune'.due : r.body <= born'
    BY DEF RefInv
  <1>8. QED BY <1>2, <1>3, <1>5, <1>6, <1>7 DEF RefInv

\* A quiet step keeps RefInv.
LEMMA QuietRef == ASSUME Inv, Inv', RefInv, Quiet PROVE RefInv'
  <1>1. \A p \in Projects : Rows(p)' \subseteq Rows(p) BY DEF Quiet, Rows
  <1>2. \A p \in Projects : \A r \in retired'[p] \cup prune'.due :
           \E q \in Projects : r \in Rows(q) \cup retired[q] \cup prune.due
    BY DEF Quiet, Rows
  <1>3. nextLogID <= nextLogID' BY DEF Quiet, Inv, TypeOK, ProcessTypes
  <1>4. QED BY <1>1, <1>2, <1>3, RefKept DEF Quiet

\* The rows of a batch are new, and no two of them have one number.
LEMMA FreshRows ==
  ASSUME Inv, NEW entries \in Submissions, NEW p \in Projects, NEW r \in BatchRows(entries, p)
  PROVE  /\ \E i \in DOMAIN entries : entries[i].proj = p /\ r.id = nextLogID + i
              /\ r.body = born + i /\ r.ts = entries[i].ts /\ r.ev = entries[i].ev
              /\ r = [id |-> nextLogID + i, ts |-> entries[i].ts, body |-> born + i, ev |-> entries[i].ev]
         /\ r.id \in Nat /\ r.body \in Nat /\ nextLogID < r.id /\ born < r.body
         /\ r.id <= nextLogID + Cardinality(DOMAIN entries)
         /\ r.body <= born + Cardinality(DOMAIN entries)
  <1>1. PICK n \in 1..BatchMax : entries \in [1..n -> Inputs] BY DEF Submissions
  <1>2. DOMAIN entries = 1..n /\ n \in Nat /\ Cardinality(1..n) = n
    <2>1. n \in Nat BY ConstantsAssumption
    <2>2. \A k \in Nat : Cardinality(1..k) = k BY FS_Interval
    <2>3. QED BY <1>1, <2>1, <2>2
  <1>3. PICK i \in DOMAIN entries : entries[i].proj = p
          /\ r = [id |-> nextLogID + i, ts |-> entries[i].ts, body |-> born + i, ev |-> entries[i].ev]
    BY DEF BatchRows
  <1>4. nextLogID \in Nat /\ born \in Nat BY DEF Inv, TypeOK, ProcessTypes, HistoryTypes
  <1>5. i \in 1..n BY <1>2, <1>3
  <1>6. QED BY <1>2, <1>3, <1>4, <1>5

\* What WriteBatch does.
LEMMA BatchFacts ==
  ASSUME Inv, NEW entries \in Submissions, WriteBatch(entries)
  PROVE  /\ phase = "up" /\ phase' = "up" /\ nextLogID < nextLogID' /\ born < born'
         /\ \A p \in Projects :
              /\ writer'.batch[p] = BatchRows(entries, p)
              /\ \A r \in writer'.batch[p] :
                   /\ r.id \in Nat /\ nextLogID < r.id /\ r.id <= nextLogID'
                   /\ r.body \in Nat /\ born < r.body /\ r.body <= born'
              /\ p \in writer'.left <=> writer'.batch[p] # {}
              /\ ManifestRows(p)' = ManifestRows(p)
         /\ writer.pc = "idle" /\ writer'.pc = "append"
         /\ \A p, q \in Projects : \A r \in writer'.batch[p], s \in writer'.batch[q] :
              r.id = s.id => r = s /\ p = q
         /\ UNCHANGED <<wal, torn, walBuf, walErr, mem, manifest, events, rollups, stage, mu, synced,
                        retired, resetFailed, prune>>
  <1>1. UNCHANGED <<wal, torn, walBuf, walErr, mem, manifest, events, rollups, stage, mu, synced,
                    retired, resetFailed, prune, phase>>
        /\ phase = "up" /\ writer.pc = "idle" /\ writer'.pc = "append"
        /\ writer'.left = {entries[i].proj : i \in DOMAIN entries}
        /\ nextLogID' = nextLogID + Cardinality(DOMAIN entries)
        /\ born' = born + Cardinality(DOMAIN entries)
    BY DEF WriteBatch
  <1>2. \A p \in Projects : writer'.batch[p] = BatchRows(entries, p) BY DEF WriteBatch
  <1>3. PICK n \in 1..BatchMax : entries \in [1..n -> Inputs] BY DEF Submissions
  <1>4. DOMAIN entries = 1..n /\ n \in Nat /\ Cardinality(1..n) = n /\ n > 0
    <2>1. n \in Nat /\ n > 0 BY ConstantsAssumption
    <2>2. \A k \in Nat : Cardinality(1..k) = k BY FS_Interval
    <2>3. QED BY <1>3, <2>1, <2>2
  <1>5. nextLogID \in Nat /\ born \in Nat BY DEF Inv, TypeOK, ProcessTypes, HistoryTypes
  <1>6. nextLogID < nextLogID' /\ born < born' BY <1>1, <1>4, <1>5
  <1>7. ASSUME NEW p \in Projects, NEW r \in writer'.batch[p]
        PROVE  /\ r.id \in Nat /\ nextLogID < r.id /\ r.id <= nextLogID'
               /\ r.body \in Nat /\ born < r.body /\ r.body <= born'
    BY <1>1, <1>2, <1>7, FreshRows
  <1>8. ASSUME NEW p \in Projects PROVE p \in writer'.left <=> writer'.batch[p] # {}
    <2>1. p \in writer'.left <=> \E i \in DOMAIN entries : entries[i].proj = p BY <1>1
    <2>2. ASSUME NEW i \in DOMAIN entries, entries[i].proj = p PROVE BatchRows(entries, p) # {}
      <3>1. [id |-> nextLogID + i, ts |-> entries[i].ts, body |-> born + i, ev |-> entries[i].ev]
            \in BatchRows(entries, p)
        BY <2>2 DEF BatchRows
      <3>2. QED BY <3>1
    <2>3. ASSUME NEW r \in BatchRows(entries, p) PROVE \E i \in DOMAIN entries : entries[i].proj = p
      BY FreshRows
    <2>4. QED BY <1>2, <2>1, <2>2, <2>3
  <1>9. ASSUME NEW p \in Projects, NEW q \in Projects, NEW r \in writer'.batch[p],
               NEW s \in writer'.batch[q], r.id = s.id
        PROVE  r = s /\ p = q
    <2>1. PICK i \in DOMAIN entries : entries[i].proj = p /\ r.id = nextLogID + i
            /\ r = [id |-> nextLogID + i, ts |-> entries[i].ts, body |-> born + i, ev |-> entries[i].ev]
      BY <1>2, FreshRows
    <2>2. PICK j \in DOMAIN entries : entries[j].proj = q /\ s.id = nextLogID + j
            /\ s = [id |-> nextLogID + j, ts |-> entries[j].ts, body |-> born + j, ev |-> entries[j].ev]
      BY <1>2, FreshRows
    <2>3. i \in Nat /\ j \in Nat /\ nextLogID + i = nextLogID + j
      <3>1. i \in 1..n /\ j \in 1..n BY <1>4, <2>1, <2>2
      <3>2. i \in Nat /\ j \in Nat BY <1>4, <3>1
      <3>3. r.id = nextLogID + i /\ s.id = nextLogID + j BY <2>1, <2>2
      <3>4. QED BY <1>9, <3>2, <3>3
    <2>4. i = j BY <1>5, <2>3
    <2>5. QED BY <2>1, <2>2, <2>4
  <1>10. QED BY <1>1, <1>2, <1>6, <1>7, <1>8, <1>9, SameRows

\* WriteBatch keeps RefInv.
LEMMA WriteBatchRef ==
  ASSUME Inv, Inv', RefInv, NEW entries \in Submissions, WriteBatch(entries) PROVE RefInv'
  <1>1. ASSUME NEW p \in Projects, NEW r \in Rows(p)' PROVE r \in Rows(p) \/ r \in writer'.batch[p]
    BY <1>1, BatchFacts DEF Rows
  <1>2. phase = "up" /\ nextLogID \in Nat /\ nextLogID' \in Nat /\ born \in Nat /\ born' \in Nat
        /\ nextLogID < nextLogID' /\ born < born'
    BY BatchFacts DEF Inv, TypeOK, ProcessTypes, HistoryTypes
  <1>3. \A p \in Projects : \A r \in Rows(p) : r.id \in Nat /\ r.body \in Nat /\ r.id <= nextLogID
    BY <1>2, RowTypes DEF RefInv
  <1>4. ASSUME NEW p \in Projects, NEW q \in Projects, NEW r \in Rows(p)', NEW s \in Rows(q)', r.id = s.id
        PROVE  r = s /\ p = q
    <2>1. CASE r \in Rows(p) /\ s \in Rows(q) BY <1>4, <2>1 DEF RefInv
    <2>2. CASE r \in Rows(p) /\ s \in writer'.batch[q]
      <3>1. r.id <= nextLogID /\ nextLogID < s.id /\ r.id \in Nat /\ s.id \in Nat
        BY <1>3, <2>2, BatchFacts
      <3>2. QED BY <1>2, <1>4, <3>1
    <2>3. CASE r \in writer'.batch[p] /\ s \in Rows(q)
      <3>1. s.id <= nextLogID /\ nextLogID < r.id /\ r.id \in Nat /\ s.id \in Nat
        BY <1>3, <2>3, BatchFacts
      <3>2. QED BY <1>2, <1>4, <3>1
    <2>4. CASE r \in writer'.batch[p] /\ s \in writer'.batch[q] BY <1>4, <2>4, BatchFacts
    <2>5. QED BY <1>1, <2>1, <2>2, <2>3, <2>4
  <1>5. ASSUME NEW p \in Projects, NEW q \in Projects, NEW ref \in events'[p], NEW r \in Rows(q)',
               r.id = ref.log
        PROVE  r.body = ref.body /\ p = q
    <2>1. ref \in events[p] BY BatchFacts
    <2>2. ref.log <= nextLogID /\ ref.log \in Nat
      BY <1>2, <2>1 DEF RefInv, Inv, TypeOK, MetaTypes, Ref
    <2>3. CASE r \in Rows(q) BY <1>5, <2>1, <2>3 DEF RefInv
    <2>4. CASE r \in writer'.batch[q]
      <3>1. nextLogID < r.id BY <2>4, BatchFacts
      <3>2. QED BY <1>2, <1>5, <2>2, <3>1
    <2>5. QED BY <1>1, <2>3, <2>4
  <1>6. \A p \in Projects : \A r \in Rows(p)' : r.id <= nextLogID'
    <2>1. ASSUME NEW p \in Projects, NEW r \in Rows(p)' PROVE r.id <= nextLogID'
      <3>1. CASE r \in Rows(p) BY <1>2, <1>3, <3>1
      <3>2. CASE r \in writer'.batch[p] BY <3>2, BatchFacts
      <3>3. QED BY <1>1, <3>1, <3>2
    <2>2. QED BY <2>1
  <1>7. \A p \in Projects : \A ref \in events'[p] : ref.log <= nextLogID'
    <2>1. ASSUME NEW p \in Projects, NEW ref \in events'[p] PROVE ref.log <= nextLogID'
      <3>1. ref \in events[p] /\ ref.log \in Nat BY BatchFacts DEF Inv, TypeOK, MetaTypes, Ref
      <3>2. ref.log <= nextLogID BY <1>2, <3>1 DEF RefInv
      <3>3. QED BY <1>2, <3>1, <3>2
    <2>2. QED BY <2>1
  <1>8. ASSUME NEW p \in Projects, NEW r \in Rows(p)' \cup retired'[p] \cup prune'.due PROVE r.body <= born'
    <2>1. CASE r \in writer'.batch[p] BY <2>1, BatchFacts
    <2>2. CASE r \in Rows(p) \cup retired[p] \cup prune.due
      <3>1. r.body <= born BY <2>2 DEF RefInv
      <3>2. r.body \in Nat
        BY <2>2, RowTypes DEF Inv, TypeOK, HistoryTypes, PruneTypes, Row
      <3>3. QED BY <1>2, <3>1, <3>2
    <2>3. QED BY <1>1, <1>8, <2>1, <2>2, BatchFacts
  <1>9. QED BY <1>4, <1>5, <1>6, <1>7, <1>8 DEF RefInv
-----------------------------------------------------------------------------
(* What the other loud steps do *)

Else(p) == Projects \ {p}

\* A record is appended.
LEMMA AppendFacts ==
  ASSUME Inv, NEW p \in Projects, WalAppend(p)
  PROVE  /\ writer.pc = "append" /\ p \in writer.left /\ mu[p] = "free" /\ stage[p] = "none"
         /\ walBuf'[p] = walBuf[p] \cup writer.batch[p]
         /\ \A q \in Else(p) : walBuf'[q] = walBuf[q] /\ mu'[q] = mu[q]
         /\ mu'[p] = "writer" /\ writer'.pc = "sync" /\ writer'.left = writer.left
         /\ writer'.batch = writer.batch
         /\ \A q \in Projects : ManifestRows(q)' = ManifestRows(q) /\ Pending(q)' = Pending(q)
         /\ \A q \in Else(p) : ~Syncing(q) /\ ~Syncing(q)'
         /\ UNCHANGED <<wal, torn, walErr, mem, manifest, events, rollups, stage, phase, nextLogID, born,
                        synced, retired, resetFailed, prune>>
  <1>1. /\ writer.pc = "append" /\ p \in writer.left /\ mu[p] = "free"
        /\ walBuf'[p] = walBuf[p] \cup writer.batch[p]
        /\ \A q \in Else(p) : walBuf'[q] = walBuf[q] /\ mu'[q] = mu[q]
        /\ mu'[p] = "writer" /\ writer'.pc = "sync" /\ writer'.left = writer.left
        /\ writer'.batch = writer.batch
        /\ UNCHANGED <<wal, torn, walErr, mem, manifest, events, rollups, stage, phase, nextLogID, born,
                       synced, retired, resetFailed, prune>>
    BY DEF WalAppend, Else, Inv, TypeOK, WalTypes, WriterTypes, ProcessTypes
  <1>2. stage[p] = "none" BY <1>1 DEF Inv, LockHeld, HolderAtWork
  <1>3. \A q \in Projects : ManifestRows(q)' = ManifestRows(q) BY <1>1, SameRows
  <1>4. \A q \in Projects : Pending(q)' = Pending(q)
    <2>1. \A q \in Projects : Pending(q)' = (q \in writer'.left /\ writer'.pc \in {"append", "sync"})
      BY DEF Pending
    <2>2. \A q \in Projects : Pending(q) = (q \in writer.left /\ writer.pc \in {"append", "sync"})
      BY DEF Pending
    <2>3. QED BY <1>1, <2>1, <2>2
  <1>5. ASSUME NEW q \in Else(p) PROVE ~Syncing(q) /\ ~Syncing(q)'
    <2>1. mu[q] # "writer"
      <3>1. mu[q] = "writer" => stage[q] # "none" \/ writer.pc = "sync"
        BY DEF Else, Inv, LockHeld, HolderAtWork
      <3>2. mu[q] = "writer" => writer.pc \in {"sync", "flush"}
        BY DEF Else, Inv, LockHeld, HolderAtWork
      <3>3. QED BY <1>1, <3>1, <3>2
    <2>2. QED BY <1>1, <1>5, <2>1 DEF Syncing
  <1>6. QED BY <1>1, <1>2, <1>3, <1>4, <1>5

\* A record is synced.
LEMMA SyncFacts ==
  ASSUME Inv, NEW p \in Projects, WalSync(p)
  PROVE  /\ Syncing(p) /\ stage[p] = "none" /\ writer.pc = "sync"
         /\ wal'[p] = IF torn[p] THEN wal[p] ELSE wal[p] \cup walBuf[p]
         /\ walBuf'[p] = {} /\ mem'[p] = mem[p] \cup writer.batch[p]
         /\ synced'[p] = synced[p] \cup writer.batch[p]
         /\ \A q \in Else(p) : wal'[q] = wal[q] /\ walBuf'[q] = walBuf[q] /\ mem'[q] = mem[q]
                               /\ synced'[q] = synced[q] /\ ~Syncing(q)
         /\ writer'.batch = writer.batch /\ writer'.pc # "sync" /\ ~Pending(p)'
         /\ \A q \in Projects : ManifestRows(q)' = ManifestRows(q) /\ ~Syncing(q)'
                                /\ (Pending(q)' => Pending(q))
         /\ UNCHANGED <<torn, walErr, manifest, events, rollups, stage, phase, nextLogID, born,
                        retired, resetFailed, prune>>
  <1>1. /\ writer.pc = "sync" /\ mu[p] = "writer"
        /\ wal'[p] = IF torn[p] THEN wal[p] ELSE wal[p] \cup walBuf[p]
        /\ walBuf'[p] = {} /\ mem'[p] = mem[p] \cup writer.batch[p]
        /\ synced'[p] = synced[p] \cup writer.batch[p]
        /\ \A q \in Else(p) : wal'[q] = wal[q] /\ walBuf'[q] = walBuf[q] /\ mem'[q] = mem[q]
                              /\ synced'[q] = synced[q]
        /\ UNCHANGED <<torn, walErr, manifest, events, rollups, stage, phase, nextLogID, born,
                       retired, resetFailed, prune>>
    BY DEF WalSync, Else, Inv, TypeOK, WalTypes, HistoryTypes
  <1>2. /\ writer'.batch = writer.batch /\ writer'.left = writer.left \ {p}
        /\ writer'.pc \in {"upsert", "append"}
    BY DEF WalSync, Inv, TypeOK, WriterTypes
  <1>3. stage[p] = "none" BY <1>1 DEF Inv, LockHeld, HolderAtWork
  <1>4. \A q \in Else(p) : mu[q] # "writer" BY <1>1 DEF Else, Inv, LockHeld
  <1>5. \A q \in Projects : ManifestRows(q)' = ManifestRows(q) BY <1>1, SameRows
  <1>6. QED BY <1>1, <1>2, <1>3, <1>4, <1>5 DEF Syncing, Pending

\* Writing the WAL's buffer fails.
LEMMA WriteFailFacts ==
  ASSUME Inv, NEW p \in Projects, WalWriteFails(p)
  PROVE  /\ "wal_write" \in Faults /\ writer' = IdleWriter
         /\ wal[p] \subseteq wal'[p] /\ wal'[p] \subseteq wal[p] \cup walBuf[p] /\ walBuf'[p] = {}
         /\ "torn" \notin Faults => torn' = torn
         /\ \A q \in Else(p) : wal'[q] = wal[q] /\ walBuf'[q] = walBuf[q]
         /\ \A q \in Projects : ManifestRows(q)' = ManifestRows(q) /\ ~Pending(q)' /\ ~Syncing(q)'
         /\ UNCHANGED <<mem, manifest, events, rollups, stage, phase, nextLogID, born,
                        synced, retired, resetFailed, prune>>
  <1>1. PICK n \in 0..nextLogID : \E tear \in BOOLEAN :
          /\ tear => "torn" \in Faults /\ Prefix(p, n) # walBuf[p]
          /\ wal' = [wal EXCEPT ![p] = IF torn[p] THEN @ ELSE @ \cup Prefix(p, n)]
          /\ torn' = [torn EXCEPT ![p] = @ \/ tear]
    BY DEF WalWriteFails
  <1>2. wal[p] \subseteq wal'[p] /\ wal'[p] \subseteq wal[p] \cup walBuf[p]
        /\ \A q \in Else(p) : wal'[q] = wal[q]
    <2>1. Prefix(p, n) \subseteq walBuf[p] BY DEF Prefix
    <2>2. QED BY <1>1, <2>1 DEF Else, Inv, TypeOK, WalTypes
  <1>3. ASSUME "torn" \notin Faults PROVE torn' = torn
    <2>1. PICK tear \in BOOLEAN : /\ tear => "torn" \in Faults
                                  /\ torn' = [torn EXCEPT ![p] = torn[p] \/ tear]
      BY <1>1
    <2>2. (torn[p] \/ tear) = torn[p] BY <1>3, <2>1 DEF Inv, TypeOK, WalTypes
    <2>3. QED BY <2>1, <2>2 DEF Inv, TypeOK, WalTypes
  <1>4. /\ "wal_write" \in Faults /\ writer' = IdleWriter /\ walBuf'[p] = {}
        /\ \A q \in Else(p) : walBuf'[q] = walBuf[q]
        /\ UNCHANGED <<mem, manifest, events, rollups, stage, phase, nextLogID, born,
                       synced, retired, resetFailed, prune>>
    BY DEF WalWriteFails, Inject, Else, Inv, TypeOK, WalTypes
  <1>5. QED BY <1>2, <1>3, <1>4, SameRows DEF IdleWriter, Pending, Syncing

\* A flush's segment is listed.
LEMMA InsertFacts ==
  ASSUME Inv, SegInv, NEW p \in Projects, InsertSegment(p)
  PROVE  /\ stage[p] = "written" /\ stage'[p] = "inserted" /\ phase = "up"
         /\ \A q \in Else(p) : stage'[q] = stage[q] /\ manifest'[q] = manifest[q]
                               /\ ManifestRows(q)' = ManifestRows(q)
         /\ ManifestRows(p)' = ManifestRows(p) \cup mem[p]
         /\ \E new : new.rows = mem[p] /\ manifest'[p] = manifest[p] \cup {new}
         /\ UNCHANGED <<wal, torn, walBuf, walErr, mem, events, rollups, phase, nextLogID, born, synced,
                        retired, resetFailed, prune, writer, mu>>
  <1>1. PICK r \in mem[p] : manifest' = [manifest EXCEPT ![p] = @ \cup
                         {[mid |-> nextMid + 1, path |-> FlushPath(seq[p], r.id), rows |-> mem[p]]}]
    BY DEF InsertSegment
  <1> DEFINE new == [mid |-> nextMid + 1, path |-> FlushPath(seq[p], r.id), rows |-> mem[p]]
  <1>2. new.rows = mem[p] /\ manifest'[p] = manifest[p] \cup {new}
        /\ \A q \in Else(p) : manifest'[q] = manifest[q]
    BY <1>1 DEF Else, Inv, TypeOK, SegTypes
  <1> HIDE DEF new
  <1>3. ManifestRows(p)' = ManifestRows(p) \cup mem[p]
        /\ \A q \in Else(p) : ManifestRows(q)' = ManifestRows(q)
    BY <1>2 DEF ManifestRows
  <1>4. /\ stage[p] = "written" /\ stage'[p] = "inserted" /\ \A q \in Else(p) : stage'[q] = stage[q]
        /\ UNCHANGED <<wal, torn, walBuf, walErr, mem, events, rollups, phase, nextLogID, born, synced,
                       retired, resetFailed, prune, writer, mu>>
    BY DEF InsertSegment, Else, Inv, TypeOK, ProcessTypes
  <1>5. phase = "up" BY <1>4, FlushAlone
  <1>6. QED BY <1>2, <1>3, <1>4, <1>5
\* The counts are added, or that fails.
LEMMA RollupFacts ==
  ASSUME Inv, NEW p \in Projects, AddRollups(p)
  PROVE  /\ stage[p] = "inserted" /\ stage'[p] = "rolled"
         /\ \A q \in Else(p) : stage'[q] = stage[q] /\ rollups'[q] = rollups[q]
         /\ \/ rollups'[p] = RolledUp(p) /\ uncounted'[p] = uncounted[p]
            \/ rollups'[p] = rollups[p] /\ uncounted'[p] = uncounted[p] \cup mem[p]
         /\ \A q \in Else(p) : uncounted'[q] = uncounted[q]
         /\ \A q \in Projects : ManifestRows(q)' = ManifestRows(q)
         /\ UNCHANGED <<wal, torn, walBuf, walErr, mem, manifest, events, phase, nextLogID, born, synced,
                        retired, resetFailed, prune, writer, mu>>
  <1>1. UNCHANGED <<wal, torn, walBuf, walErr, mem, manifest, events, phase, nextLogID, born, synced,
                    retired, resetFailed, prune, writer, mu>>
    BY DEF AddRollups
  <1>2. \A q \in Projects : ManifestRows(q)' = ManifestRows(q) BY <1>1, SameRows
  <1>3. \/ rollups' = [rollups EXCEPT ![p] = RolledUp(p)] /\ uncounted' = uncounted
        \/ rollups' = rollups /\ uncounted' = [uncounted EXCEPT ![p] = @ \cup mem[p]]
    BY DEF AddRollups
  <1>4. /\ \/ rollups'[p] = RolledUp(p) /\ uncounted'[p] = uncounted[p]
           \/ rollups'[p] = rollups[p] /\ uncounted'[p] = uncounted[p] \cup mem[p]
        /\ \A q \in Else(p) : rollups'[q] = rollups[q] /\ uncounted'[q] = uncounted[q]
    BY <1>3 DEF Else, Inv, TypeOK, MetaTypes, HistoryTypes
  <1>5. QED BY <1>1, <1>2, <1>4 DEF AddRollups, Else, Inv, TypeOK, ProcessTypes

\* The WAL is reset, or that fails.
LEMMA ResetFacts ==
  ASSUME Inv, NEW p \in Projects, ResetWAL(p) \/ ResetWALFails(p)
  PROVE  /\ stage[p] = "rolled" /\ stage'[p] = "none" /\ ~Syncing(p)
         /\ wal'[p] \cup walBuf'[p] \subseteq wal[p] \cup walBuf[p]
         /\ wal[p] \subseteq wal'[p] \/ wal'[p] = {}
         /\ ~torn[p] => ~torn'[p]
         /\ ResetWAL(p) => wal'[p] = {} /\ walBuf'[p] = {} /\ mem'[p] = {} /\ resetFailed' = resetFailed
         /\ ResetWALFails(p) => mem' = mem /\ resetFailed'[p] /\ (walErr[p] \/ "wal_truncate" \in Faults)
         /\ \A q \in Else(p) : wal'[q] = wal[q] /\ torn'[q] = torn[q] /\ walBuf'[q] = walBuf[q]
              /\ mem'[q] = mem[q] /\ stage'[q] = stage[q] /\ resetFailed'[q] = resetFailed[q]
         /\ \A q \in Projects : ManifestRows(q)' = ManifestRows(q) /\ (Pending(q)' <=> Pending(q))
                                /\ (Syncing(q)' <=> Syncing(q))
         /\ \/ prune' = prune /\ ~(mu[p] = "pruner")
            \/ mu[p] = "pruner" /\ prune' = IdlePrune
            \/ mu[p] = "pruner" /\ prune' = [prune EXCEPT !.stage = "lock"] /\ ResetWAL(p)
         /\ UNCHANGED <<walErr, manifest, events, rollups, phase, nextLogID, born, synced, retired, writer>>
  <1>1. /\ stage[p] = "rolled"
        /\ stage' = [stage EXCEPT ![p] = "none"] /\ mu' = [mu EXCEPT ![p] = "free"]
        /\ UNCHANGED <<walErr, manifest, events, rollups, phase, nextLogID, born, synced, retired, writer>>
    BY DEF ResetWAL, ResetWALFails, EndFlush
  <1>2. /\ stage'[p] = "none" /\ mu'[p] = "free"
        /\ \A q \in Else(p) : stage'[q] = stage[q] /\ mu'[q] = mu[q]
    BY <1>1 DEF Else, Inv, TypeOK, ProcessTypes
  <1>3. ~Syncing(p)
    BY <1>1 DEF Syncing, Inv, LockHeld, HolderAtWork
  <1>4. \A q \in Projects : ManifestRows(q)' = ManifestRows(q) /\ (Pending(q)' <=> Pending(q))
                            /\ (Syncing(q)' <=> Syncing(q))
    BY <1>1, <1>2, <1>3, SameRows DEF Pending, Syncing, Else
  <1>5. \/ prune' = prune /\ ~(mu[p] = "pruner")
        \/ mu[p] = "pruner" /\ prune' = IdlePrune
        \/ mu[p] = "pruner" /\ prune' = [prune EXCEPT !.stage = "lock"] /\ ResetWAL(p)
    BY DEF ResetWAL, ResetWALFails, EndFlush
  <1>6. CASE ResetWAL(p)
    <2>1. /\ wal' = [wal EXCEPT ![p] = {}] /\ walBuf' = [walBuf EXCEPT ![p] = {}]
          /\ torn' = [torn EXCEPT ![p] = FALSE] /\ mem' = [mem EXCEPT ![p] = {}]
          /\ resetFailed' = resetFailed
      BY <1>6 DEF ResetWAL
    <2>2. ResetWALFails(p) => (walErr[p] \/ "wal_truncate" \in Faults) /\ mem' = mem /\ resetFailed'[p]
      BY DEF ResetWALFails, Inject, Inv, TypeOK, HistoryTypes
    <2>3. wal'[p] = {} /\ walBuf'[p] = {} /\ mem'[p] = {} /\ ~torn'[p]
          /\ \A q \in Else(p) : wal'[q] = wal[q] /\ torn'[q] = torn[q] /\ walBuf'[q] = walBuf[q]
               /\ mem'[q] = mem[q] /\ resetFailed'[q] = resetFailed[q]
      BY <2>1 DEF Else, Inv, TypeOK, WalTypes
    <2>4. QED BY <1>1, <1>2, <1>3, <1>4, <1>5, <2>1, <2>2, <2>3
  <1>7. CASE ~ResetWAL(p)
    <2>1. ResetWALFails(p) BY <1>7
    <2>2. mem' = mem /\ resetFailed'[p] /\ \A q \in Else(p) : resetFailed'[q] = resetFailed[q]
      BY <2>1 DEF ResetWALFails, Else, Inv, TypeOK, HistoryTypes
    <2>3. \/ walErr[p] /\ UNCHANGED <<wal, torn, walBuf>>
          \/ /\ "wal_truncate" \in Faults /\ walBuf' = [walBuf EXCEPT ![p] = {}]
             /\ \/ wal' = [wal EXCEPT ![p] = IF torn[p] THEN @ ELSE @ \cup walBuf[p]] /\ torn' = torn
                \/ wal' = [wal EXCEPT ![p] = {}] /\ torn' = [torn EXCEPT ![p] = FALSE]
      BY <2>1 DEF ResetWALFails, Inject
    <2>4. /\ wal'[p] \cup walBuf'[p] \subseteq wal[p] \cup walBuf[p]
          /\ wal[p] \subseteq wal'[p] \/ wal'[p] = {}
          /\ \A q \in Else(p) : wal'[q] = wal[q] /\ walBuf'[q] = walBuf[q]
      BY <2>3 DEF Else, Inv, TypeOK, WalTypes
    <2>5. (~torn[p] => ~torn'[p]) /\ \A q \in Else(p) : torn'[q] = torn[q]
      BY <2>3 DEF Else, Inv, TypeOK, WalTypes
    <2>6. walErr[p] \/ "wal_truncate" \in Faults BY <2>3
    <2>7. QED BY <1>1, <1>2, <1>3, <1>4, <1>5, <1>7, <2>2, <2>4, <2>5, <2>6
  <1>8. QED BY <1>6, <1>7

\* A prune takes the old rows of one segment.
Retires(p, e, old) ==
  /\ e \in manifest[p] /\ e \in prune.todo /\ old \subseteq e.rows /\ prune.proj = p
  /\ prune.stage \in {"scan", "swap"} /\ prune'.stage = "remove" /\ prune'.proj = p
  /\ prune'.cutoff = prune.cutoff /\ prune'.due = prune.due /\ prune'.todo = prune.todo \ {e}
  /\ retired' = [retired EXCEPT ![p] = @ \cup old]
  /\ \A r \in e.rows : r \in old <=> r.ts < prune.cutoff
  /\ \A x \in manifest[p] : x \in manifest'[p] \/ x = e
  /\ \E new : new.rows = e.rows \ old /\ manifest'[p] \subseteq (manifest[p] \ {e}) \cup {new}
  /\ e.rows = old \/ \E x \in manifest'[p] : x.rows = e.rows \ old
  /\ \A q \in Else(p) : manifest'[q] = manifest[q]
\* Dropping a segment and swapping one both do this.
LEMMA RetireFacts ==
  ASSUME Inv, SegInv, NEW p \in Projects, PruneSwap(p) \/ \E e \in prune.todo : PruneDrop(p, e)
  PROVE  /\ \E e, old : Retires(p, e, old)
         /\ phase = "up" /\ stage[p] = "none"
         /\ UNCHANGED <<wal, torn, walBuf, walErr, mem, events, rollups, phase, nextLogID, born, synced,
                        resetFailed, writer, mu, stage>>
  <1>1. /\ prune.stage \in {"scan", "swap"} /\ prune.proj = p /\ stage[p] = "none" /\ mu[p] = "pruner"
        /\ prune.todo \subseteq manifest[p]
        /\ UNCHANGED <<wal, torn, walBuf, walErr, mem, events, rollups, phase, nextLogID, born, synced,
                       resetFailed, writer, mu, stage>>
    BY Pinned DEF PruneSwap, PruneDrop, SegInv, PruneOK
  <1>2. phase = "up" BY <1>1 DEF SegInv, DownOK, IdlePrune, Inv, TypeOK, ProcessTypes
  <1>3. ASSUME NEW e \in prune.todo, PruneDrop(p, e) PROVE Retires(p, e, e.rows)
    <2>1. \A r \in e.rows : r.ts < prune.cutoff BY <1>3 DEF PruneDrop, EntirelyOld
    <2>2. prune' = [prune EXCEPT !.stage = "remove", !.todo = @ \ {e}, !.cur = e]
      BY <1>3 DEF PruneDrop
    <2>3. prune'.stage = "remove" /\ prune'.proj = p /\ prune'.cutoff = prune.cutoff
          /\ prune'.due = prune.due /\ prune'.todo = prune.todo \ {e}
      BY <1>1, <2>2 DEF Inv, TypeOK, PruneTypes
    <2>4. manifest'[p] = manifest[p] \ {e} /\ \A q \in Else(p) : manifest'[q] = manifest[q]
      BY <1>3 DEF PruneDrop, Else, Inv, TypeOK, SegTypes
    <2>5. retired' = [retired EXCEPT ![p] = @ \cup e.rows] BY <1>3 DEF PruneDrop
    <2>6. \E new : new.rows = e.rows \ e.rows /\ manifest'[p] \subseteq (manifest[p] \ {e}) \cup {new}
      <3>1. [rows |-> {}].rows = e.rows \ e.rows OBVIOUS
      <3>2. QED BY <2>4, <3>1
    <2>7. QED BY <1>1, <1>3, <2>1, <2>3, <2>4, <2>5, <2>6 DEF Retires
  <1>4. ASSUME PruneSwap(p) PROVE Retires(p, prune.cur, Older(prune.cur.rows, prune.cutoff))
    <2> DEFINE e == prune.cur
               old == Older(e.rows, prune.cutoff)
               new == [mid |-> nextMid + 1, path |-> PrunedPath(e.path), rows |-> e.rows \ old]
    <2>1. /\ manifest' = [manifest EXCEPT ![p] = (@ \ {e}) \cup {new}]
          /\ retired' = [retired EXCEPT ![p] = @ \cup old]
          /\ prune' = [prune EXCEPT !.stage = "remove", !.todo = @ \ {e}]
      BY <1>4 DEF PruneSwap
    <2>2. e \in prune.todo BY <1>4 DEF PruneSwap, SegInv, PruneOK
    <2>3. prune'.stage = "remove" /\ prune'.proj = p /\ prune'.cutoff = prune.cutoff
          /\ prune'.due = prune.due /\ prune'.todo = prune.todo \ {e}
      BY <1>1, <2>1 DEF Inv, TypeOK, PruneTypes
    <2>4. manifest'[p] = (manifest[p] \ {e}) \cup {new} /\ \A q \in Else(p) : manifest'[q] = manifest[q]
      BY <2>1 DEF Else, Inv, TypeOK, SegTypes
    <2>5. new.rows = e.rows \ old OBVIOUS
    <2>6. \A r \in e.rows : r \in old <=> r.ts < prune.cutoff BY DEF Older
    <2>7. old \subseteq e.rows BY DEF Older
    <2> HIDE DEF e, old, new
    <2>8. Retires(p, e, old) BY <1>1, <2>1, <2>2, <2>3, <2>4, <2>5, <2>6, <2>7 DEF Retires
    <2>9. QED BY <2>8 DEF e, old
  <1>5. \E e, old : Retires(p, e, old) BY <1>3, <1>4
  <1>6. QED BY <1>1, <1>2, <1>5

\* Then no row is lost: it is listed or retired.
LEMMA RetiredRows ==
  ASSUME Inv, NEW p \in Projects, NEW e, NEW old, Retires(p, e, old)
  PROVE  /\ ManifestRows(p)' \subseteq ManifestRows(p)
         /\ ManifestRows(p) \subseteq ManifestRows(p)' \cup old
         /\ old \subseteq ManifestRows(p) /\ retired'[p] = retired[p] \cup old
         /\ \A q \in Else(p) : ManifestRows(q)' = ManifestRows(q) /\ retired'[q] = retired[q]
  <1>1. ManifestRows(p)' \subseteq ManifestRows(p)
    BY DEF Retires, ManifestRows
  <1>2. ASSUME NEW r \in ManifestRows(p), r \notin old PROVE r \in ManifestRows(p)'
    <2>1. PICK x \in manifest[p] : r \in x.rows BY <1>2 DEF ManifestRows
    <2>2. CASE x \in manifest'[p] BY <2>1, <2>2 DEF ManifestRows
    <2>3. CASE x = e
      <3>1. PICK y \in manifest'[p] : y.rows = e.rows \ old BY <1>2, <2>1, <2>3 DEF Retires
      <3>2. r \in y.rows BY <1>2, <2>1, <2>3, <3>1
      <3>3. QED BY <3>1, <3>2 DEF ManifestRows
    <2>4. QED BY <2>1, <2>2, <2>3 DEF Retires
  <1>3. retired'[p] = retired[p] \cup old /\ \A q \in Else(p) : retired'[q] = retired[q]
    BY DEF Retires, Else, Inv, TypeOK, HistoryTypes
  <1>4. QED BY <1>1, <1>2, <1>3 DEF Retires, ManifestRows
\* The process stops.
LEMMA StopFacts ==
  ASSUME Inv, Crash \/ Close
  PROVE  /\ phase = "up" /\ phase' = "down" /\ prune' = IdlePrune /\ writer' = IdleWriter
         /\ "torn" \notin Faults => torn' = torn
         /\ "midflush" \notin Faults => \A p \in Projects : ~Busy(p)
         /\ \A p \in Projects :
              /\ wal[p] \subseteq wal'[p] /\ wal'[p] \subseteq wal[p] \cup walBuf[p]
              /\ walBuf'[p] = {} /\ mem'[p] = {} /\ stage'[p] = "none" /\ walErr'[p] = FALSE
              /\ ManifestRows(p)' = ManifestRows(p) /\ writer'.batch[p] = {}
              /\ ~Pending(p)' /\ ~Syncing(p)'
         /\ UNCHANGED <<manifest, events, rollups, born, synced, retired, resetFailed>>
         /\ \A p \in Projects :
              IF stage[p] = "inserted" THEN uncounted'[p] = uncounted[p] \cup mem[p]
                                      ELSE uncounted'[p] = uncounted[p]
  <1>1. phase = "up" /\ Volatile /\ UNCHANGED <<manifest, events, rollups, born, synced, retired, resetFailed>>
    BY DEF Crash, Close
  <1>2. \A p \in Projects : wal[p] \subseteq wal'[p] /\ wal'[p] \subseteq wal[p] \cup walBuf[p]
    <2>1. CASE Crash
      <3>1. PICK upto \in [Projects -> 0..nextLogID] :
              wal' = [p \in Projects |-> IF torn[p] THEN wal[p] ELSE wal[p] \cup Prefix(p, upto[p])]
        BY <2>1 DEF Crash
      <3>2. QED BY <3>1 DEF Prefix
    <2>2. CASE Close BY <2>2 DEF Close
    <2>3. QED BY <2>1, <2>2
  <1>3. ASSUME "torn" \notin Faults PROVE torn' = torn
    <2>1. CASE Crash
      <3>1. PICK tear \in SUBSET Projects : tear = {} /\ torn' = [p \in Projects |-> torn[p] \/ p \in tear]
        BY <1>3, <2>1 DEF Crash
      <3>2. \A p \in Projects : (torn[p] \/ p \in tear) = torn[p]
        BY <3>1 DEF Inv, TypeOK, WalTypes
      <3>3. QED BY <3>1, <3>2 DEF Inv, TypeOK, WalTypes
    <2>2. CASE Close BY <2>2 DEF Close
    <2>3. QED BY <2>1, <2>2
  <1>4. ASSUME "midflush" \notin Faults, NEW p \in Projects PROVE ~Busy(p)
    <2>1. CASE Crash BY <1>4, <2>1 DEF Crash, Busy
    <2>2. CASE Close BY <2>2 DEF Close, Busy, Inv, LockHeld, HolderAtWork
    <2>3. QED BY <2>1, <2>2
  <1>5. ASSUME NEW p \in Projects
        PROVE  IF stage[p] = "inserted" THEN uncounted'[p] = uncounted[p] \cup mem[p]
                                        ELSE uncounted'[p] = uncounted[p]
    <2>1. CASE Crash BY <2>1 DEF Crash
    <2>2. CASE Close
      <3>1. mu[p] = "free" /\ uncounted' = uncounted BY <2>2 DEF Close
      <3>2. stage[p] = "none" BY <3>1 DEF Inv, LockHeld, HolderAtWork
      <3>3. QED BY <3>1, <3>2
    <2>3. QED BY <2>1, <2>2
  <1>6. QED
    BY <1>1, <1>2, <1>3, <1>4, <1>5, SameRows DEF Volatile, NoRows, IdleWriter, Pending, Syncing

\* The store opens: all that is out is on disk.
LEMMA OpenFacts ==
  ASSUME Inv, SegInv, Open
  PROVE  /\ phase = "down" /\ phase' = "up" /\ prune = IdlePrune /\ prune' = IdlePrune
         /\ nextLogID' \in Nat /\ \A i \in SeedIDs : i <= nextLogID'
         /\ \A p \in Projects :
              /\ mem[p] = {} /\ walBuf[p] = {} /\ stage[p] = "none" /\ writer.batch[p] = {}
              /\ mem'[p] = {r \in wal[p] : \A q \in ManifestRows(p) : ~(r.id <= q.id)}
              /\ ManifestRows(p)' = ManifestRows(p)
              /\ ~Pending(p)' /\ ~Syncing(p)'
         /\ UNCHANGED <<wal, torn, walBuf, walErr, manifest, events, rollups, stage, born, synced, retired,
                        resetFailed, writer>>
  <1>1. /\ phase = "down" /\ phase' = "up"
        /\ UNCHANGED <<wal, torn, walBuf, walErr, manifest, events, rollups, stage, born, synced, retired,
                       resetFailed, writer, prune>>
        /\ mem' = [p \in Projects |-> Kept(p)]
        /\ \E n \in SeedIDs : (\A i \in SeedIDs : i <= n) /\ nextLogID' = n
    BY DEF Open
  <1>2. writer = IdleWriter /\ prune = IdlePrune
        /\ \A p \in Projects : mem[p] = {} /\ walBuf[p] = {} /\ stage[p] = "none"
    BY <1>1 DEF SegInv, DownOK
  <1>3. nextLogID' \in Nat BY OpenKeepsInv DEF Inv, TypeOK, ProcessTypes
  <1>4. \A p \in Projects : mem'[p] = {r \in wal[p] : \A q \in ManifestRows(p) : ~(r.id <= q.id)}
    BY <1>1, Served DEF SegInv
  <1>5. \A p \in Projects : ~Pending(p)' /\ ~Syncing(p)' /\ writer.batch[p] = {}
    BY <1>1, <1>2 DEF IdleWriter, NoRows, Pending, Syncing
  <1>6. QED BY <1>1, <1>2, <1>3, <1>4, <1>5, SameRows

\* The loud steps keep RefInv.
LEMMA LoudRef == ASSUME Inv, Inv', SegInv, RefInv, Loud PROVE RefInv'
  <1> USE DEF Else
  <1>1. ASSUME NEW k \in 1..BatchMax, ExtractFails(k) PROVE RefInv'
    <2>1. UNCHANGED <<wal, walBuf, mem, manifest, events, phase, born, retired, prune, writer>>
          /\ nextLogID' = nextLogID + k /\ phase = "up"
      BY <1>1 DEF ExtractFails
    <2>2. \A p \in Projects : Rows(p)' \subseteq Rows(p) BY <2>1 DEF Rows, ManifestRows
    <2>3. nextLogID <= nextLogID' BY <2>1, ConstantsAssumption DEF Inv, TypeOK, ProcessTypes
    <2>4. \A p \in Projects : \A r \in retired'[p] \cup prune'.due :
            \E q \in Projects : r \in Rows(q) \cup retired[q] \cup prune.due
      BY <2>1
    <2>5. QED BY <2>1, <2>2, <2>3, <2>4, RefKept
  <1>2. ASSUME NEW p \in Projects,
               WalAppend(p) \/ WalSync(p) \/ WalWriteFails(p) \/ AddRollups(p) \/ ResetWAL(p)
                 \/ ResetWALFails(p)
        PROVE  RefInv'
    <2>1. UNCHANGED <<manifest, events, phase, nextLogID, born, retired>>
      BY <1>2, AppendFacts, SyncFacts, WriteFailFacts, RollupFacts, ResetFacts
    <2>2. prune'.due \subseteq prune.due
      <3>1. prune' = prune \/ prune' = IdlePrune \/ prune' = [prune EXCEPT !.stage = "lock"]
        BY <1>2, AppendFacts, SyncFacts, WriteFailFacts, RollupFacts, ResetFacts
      <3>2. QED BY <3>1 DEF IdlePrune, Inv, TypeOK, PruneTypes
    <2>3. \A q \in Projects : ManifestRows(q)' = ManifestRows(q) BY <2>1, SameRows
    <2>4. ASSUME NEW q \in Projects
          PROVE  wal'[q] \cup walBuf'[q] \cup mem'[q] \cup writer'.batch[q]
                   \subseteq wal[q] \cup walBuf[q] \cup mem[q] \cup writer.batch[q]
      <3>1. CASE WalAppend(p) BY <3>1, AppendFacts
      <3>2. CASE WalSync(p) BY <3>2, SyncFacts
      <3>3. CASE WalWriteFails(p) BY <3>3, WriteFailFacts DEF IdleWriter, NoRows
      <3>4. CASE AddRollups(p) BY <3>4, RollupFacts
      <3>5. CASE ResetWAL(p) \/ ResetWALFails(p) BY <3>5, ResetFacts
      <3>6. QED BY <1>2, <3>1, <3>2, <3>3, <3>4, <3>5
    <2>5. \A q \in Projects : Rows(q)' \subseteq Rows(q) BY <2>3, <2>4 DEF Rows
    <2>6. \A q \in Projects : \A r \in retired'[q] \cup prune'.due :
            \E o \in Projects : r \in Rows(o) \cup retired[o] \cup prune.due
      BY <2>1, <2>2
    <2>7. nextLogID <= nextLogID' BY <2>1 DEF Inv, TypeOK, ProcessTypes
    <2>8. QED BY <2>1, <2>5, <2>6, <2>7, RefKept
  <1>3. ASSUME NEW p \in Projects, InsertSegment(p) PROVE RefInv'
    <2>1. \A q \in Projects : Rows(q)' \subseteq Rows(q) BY <1>3, InsertFacts DEF Rows
    <2>2. \A q \in Projects : \A r \in retired'[q] \cup prune'.due :
            \E o \in Projects : r \in Rows(o) \cup retired[o] \cup prune.due
      BY <1>3, InsertFacts
    <2>3. nextLogID <= nextLogID' BY <1>3, InsertFacts DEF Inv, TypeOK, ProcessTypes
    <2>4. QED BY <1>3, <2>1, <2>2, <2>3, InsertFacts, RefKept
  <1>4. ASSUME NEW p \in Projects, PruneSwap(p) \/ \E e \in prune.todo : PruneDrop(p, e) PROVE RefInv'
    <2>1. \E e, old : Retires(p, e, old) BY <1>4, RetireFacts
    <2>2. PICK e : \E old : Retires(p, e, old) BY <2>1
    <2>3. PICK old : Retires(p, e, old) BY <2>2
    <2>4. /\ ManifestRows(p)' \subseteq ManifestRows(p) /\ retired'[p] \subseteq retired[p] \cup ManifestRows(p)
          /\ \A q \in Projects \ {p} : ManifestRows(q)' = ManifestRows(q) /\ retired'[q] = retired[q]
          /\ prune'.due = prune.due
      <3>1. /\ ManifestRows(p)' \subseteq ManifestRows(p) /\ old \subseteq ManifestRows(p)
            /\ retired'[p] = retired[p] \cup old
            /\ \A q \in Projects \ {p} : ManifestRows(q)' = ManifestRows(q) /\ retired'[q] = retired[q]
        BY <2>3, RetiredRows
      <3>2. prune'.due = prune.due BY <2>3 DEF Retires
      <3>3. QED BY <3>1, <3>2
    <2>5. UNCHANGED <<wal, walBuf, mem, events, phase, nextLogID, born, writer>> BY <1>4, RetireFacts
    <2>6. \A q \in Projects : Rows(q)' \subseteq Rows(q) BY <2>4, <2>5 DEF Rows
    <2>7. \A q \in Projects : \A r \in retired'[q] \cup prune'.due :
            \E o \in Projects : r \in Rows(o) \cup retired[o] \cup prune.due
      BY <2>4 DEF Rows
    <2>8. nextLogID <= nextLogID' BY <2>5 DEF Inv, TypeOK, ProcessTypes
    <2>9. QED BY <2>5, <2>6, <2>7, <2>8, RefKept
  <1>5. ASSUME Crash \/ Close PROVE RefInv'
    <2>1. \A q \in Projects : Rows(q)' \subseteq Rows(q) BY <1>5, StopFacts DEF Rows
    <2>2. \A q \in Projects : \A r \in retired'[q] \cup prune'.due :
            \E o \in Projects : r \in Rows(o) \cup retired[o] \cup prune.due
      <3>1. prune' = IdlePrune /\ retired' = retired BY <1>5, StopFacts
      <3>2. prune'.due = {} BY <3>1 DEF IdlePrune
      <3>3. QED BY <3>1, <3>2
    <2>3. phase' # "up" BY <1>5, StopFacts
    <2>4. QED BY <1>5, <2>1, <2>2, <2>3, StopFacts, RefKept
  <1>6. ASSUME Open PROVE RefInv'
    <2>1. \A q \in Projects : Rows(q)' \subseteq Rows(q) BY <1>6, OpenFacts DEF Rows
    <2>2. ASSUME NEW p \in Projects, NEW r \in Rows(p)' PROVE r.id <= nextLogID'
      <3>1. r \in wal[p] \cup ManifestRows(p) BY <1>6, <2>2, OpenFacts DEF Rows
      <3>2. r.id \in SeedIDs BY <3>1 DEF SeedIDs
      <3>3. QED BY <1>6, <3>2, OpenFacts
    <2>3. ASSUME NEW p \in Projects, NEW ref \in events'[p] PROVE ref.log <= nextLogID'
      <3>1. ref.log \in SeedIDs BY <1>6, <2>3, OpenFacts DEF SeedIDs
      <3>2. QED BY <1>6, <3>1, OpenFacts
    <2>4. UNCHANGED <<events, retired, prune, born>> BY <1>6, OpenFacts
    <2>5. \A p, q \in Projects : \A r \in Rows(p)', s \in Rows(q)' : r.id = s.id => r = s /\ p = q
      BY <2>1 DEF RefInv
    <2>6. \A p, q \in Projects : \A ref \in events'[p], r \in Rows(q)' :
            r.id = ref.log => r.body = ref.body /\ p = q
      BY <2>1, <2>4 DEF RefInv
    <2>7. \A p \in Projects : \A r \in Rows(p)' \cup retired'[p] \cup prune'.due : r.body <= born'
      BY <2>1, <2>4 DEF RefInv
    <2>8. QED BY <2>2, <2>3, <2>5, <2>6, <2>7 DEF RefInv
  <1>7. QED BY <1>1, <1>2, <1>3, <1>4, <1>5, <1>6, WriteBatchRef DEF Loud

\* RefInv is inductive.
LEMMA InitRef == ASSUME Init PROVE RefInv
  BY DEF Init, NoRows, IdleWriter, IdlePrune, RefInv, Rows, ManifestRows
\* Every step keeps RefInv.
LEMMA NextRef == ASSUME Inv, Inv', SegInv, RefInv, [Next]_vars PROVE RefInv'
  BY QuietOrLoud, QuietRef, LoudRef

(* The log id in a retained event ref is never another row's                *)
(* (EventRefsOwnBody), though ids are drawn anew after every restart: the   *)
(* refs, the WALs and the manifest are all consulted before the first.      *)
THEOREM RefsStayTrue == Spec => []EventRefsOwnBody
  <1>1. Init => Inv /\ SegInv /\ RefInv BY InitInv, InitSegInv, InitRef
  <1>2. Inv /\ SegInv /\ RefInv /\ [Next]_vars => (Inv /\ SegInv /\ RefInv)'
    BY NextInv, NextSegInv, NextRef
  <1>3. Inv /\ SegInv /\ RefInv => EventRefsOwnBody
    <2>1. ASSUME Inv, SegInv, NEW p \in Projects PROVE Readable(p) \cup mem[p] \subseteq Rows(p)
      BY <2>1, Served DEF SegInv, Rows
    <2>2. QED BY <2>1 DEF RefInv, EventRefsOwnBody
  <1>4. QED BY <1>1, <1>2, <1>3, PTL DEF Spec
-----------------------------------------------------------------------------
(* A batch not yet synced is newer than all of its project *)

\* Nothing joins the rows but what the batch at hand puts in the WAL.
LEMMA BatchKept ==
  ASSUME BatchInv,
         \A p \in Projects :
           /\ Pending(p)' => Pending(p) /\ writer'.batch[p] = writer.batch[p]
           /\ Pending(p)' => mem'[p] \cup ManifestRows(p)' \subseteq mem[p] \cup ManifestRows(p)
           /\ Syncing(p)' => Pending(p)' /\ writer'.batch[p] \subseteq walBuf'[p]
           /\ Pending(p)' /\ ~Syncing(p)' =>
                ~Syncing(p) /\ wal'[p] \cup walBuf'[p] \subseteq wal[p] \cup walBuf[p]
  PROVE  BatchInv'
  <1>1. ASSUME NEW p \in Projects, Pending(p)'
        PROVE  /\ writer'.batch[p] # {}
               /\ \A r \in writer'.batch[p], q \in mem'[p] \cup ManifestRows(p)' : q.id < r.id
               /\ ~Syncing(p)' => \A r \in writer'.batch[p], q \in wal'[p] \cup walBuf'[p] : q.id < r.id
    <2>1. Pending(p) /\ writer'.batch[p] = writer.batch[p] BY <1>1
    <2>2. /\ writer.batch[p] # {}
          /\ \A r \in writer.batch[p], q \in mem[p] \cup ManifestRows(p) : q.id < r.id
          /\ ~Syncing(p) => \A r \in writer.batch[p], q \in wal[p] \cup walBuf[p] : q.id < r.id
      BY <2>1 DEF BatchInv
    <2>3. QED BY <1>1, <2>1, <2>2
  <1>2. QED BY <1>1 DEF BatchInv

\* A quiet step keeps BatchInv.
LEMMA QuietBatch == ASSUME BatchInv, Quiet PROVE BatchInv'
  <1>1. ASSUME NEW p \in Projects
        PROVE  /\ Pending(p)' => Pending(p) /\ writer'.batch[p] = writer.batch[p]
               /\ mem'[p] \cup ManifestRows(p)' \subseteq mem[p] \cup ManifestRows(p)
               /\ Pending(p)' => (Syncing(p)' <=> Syncing(p))
               /\ wal'[p] = wal[p] /\ walBuf'[p] = walBuf[p]
    BY DEF Quiet
  <1>2. \A p \in Projects : Syncing(p) => writer.batch[p] \subseteq walBuf[p] BY DEF BatchInv
  <1>3. \A p \in Projects : Syncing(p)' => Pending(p)'
    BY DEF Quiet, BatchInv, Syncing, Pending
  <1>4. QED BY <1>1, <1>2, <1>3, BatchKept
\* The loud steps keep BatchInv.
LEMMA LoudBatch == ASSUME Inv, Inv', SegInv, RefInv, BatchInv, Loud PROVE BatchInv'
  <1> USE DEF Else
  <1>1. ASSUME NEW entries \in Submissions, WriteBatch(entries) PROVE BatchInv'
    <2>1. nextLogID \in Nat BY DEF Inv, TypeOK, ProcessTypes
    <2>2. ASSUME NEW p \in Projects, NEW r \in writer'.batch[p],
                 NEW q \in wal'[p] \cup walBuf'[p] \cup mem'[p] \cup ManifestRows(p)'
          PROVE  q.id < r.id
      <3>1. q \in Rows(p) /\ phase = "up" BY <1>1, <2>2, BatchFacts DEF Rows
      <3>2. q.id \in Nat /\ q.id <= nextLogID BY <3>1, RowTypes DEF RefInv
      <3>3. r.id \in Nat /\ nextLogID < r.id BY <1>1, <2>2, BatchFacts
      <3>4. QED BY <2>1, <3>2, <3>3
    <2>3. \A p \in Projects : ~Syncing(p)' /\ (Pending(p)' => writer'.batch[p] # {})
      BY <1>1, BatchFacts DEF Syncing, Pending
    <2>4. QED BY <2>2, <2>3 DEF BatchInv
  <1>2. ASSUME NEW k \in 1..BatchMax, ExtractFails(k) PROVE BatchInv'
    <2>1. UNCHANGED <<writer, wal, walBuf, mem, manifest, mu>> BY <1>2 DEF ExtractFails
    <2>2. QED BY <2>1 DEF BatchInv, Pending, Syncing, ManifestRows
  <1>3. ASSUME NEW p \in Projects, WalAppend(p) PROVE BatchInv'
    <2>1. \A q \in Projects : Pending(q)' = Pending(q) /\ writer'.batch[q] = writer.batch[q]
            /\ mem'[q] \cup ManifestRows(q)' \subseteq mem[q] \cup ManifestRows(q)
      BY <1>3, AppendFacts
    <2>2. Pending(p)' /\ Syncing(p)' /\ writer'.batch[p] \subseteq walBuf'[p]
      BY <1>3, AppendFacts DEF Pending, Syncing
    <2>3. \A q \in Projects \ {p} : ~Syncing(q) /\ ~Syncing(q)'
            /\ wal'[q] \cup walBuf'[q] \subseteq wal[q] \cup walBuf[q]
      BY <1>3, AppendFacts
    <2>4. QED BY <2>1, <2>2, <2>3, BatchKept
  <1>4. ASSUME NEW p \in Projects, WalSync(p) PROVE BatchInv'
    <2>1. ~Pending(p)' /\ \A q \in Projects : ~Syncing(q)' BY <1>4, SyncFacts
    <2>2. \A q \in Projects \ {p} :
            /\ Pending(q)' => Pending(q) /\ writer'.batch[q] = writer.batch[q]
            /\ mem'[q] \cup ManifestRows(q)' \subseteq mem[q] \cup ManifestRows(q)
            /\ ~Syncing(q) /\ wal'[q] \cup walBuf'[q] \subseteq wal[q] \cup walBuf[q]
      BY <1>4, SyncFacts
    <2>3. QED BY <2>1, <2>2, BatchKept
  <1>5. ASSUME NEW p \in Projects, WalWriteFails(p) PROVE BatchInv'
    BY <1>5, WriteFailFacts DEF BatchInv
  <1>6. ASSUME NEW p \in Projects, InsertSegment(p) PROVE BatchInv'
    <2>1. /\ UNCHANGED <<writer, mu, wal, walBuf, mem>>
          /\ \A q \in Projects : mem'[q] \cup ManifestRows(q)' \subseteq mem[q] \cup ManifestRows(q)
      BY <1>6, InsertFacts
    <2>2. \A q \in Projects : (Pending(q)' <=> Pending(q)) /\ (Syncing(q)' <=> Syncing(q))
      BY <2>1 DEF Pending, Syncing
    <2>3. \A q \in Projects : Syncing(q) => Pending(q) /\ writer.batch[q] \subseteq walBuf[q]
      BY DEF BatchInv
    <2>4. QED BY <2>1, <2>2, <2>3, BatchKept
  <1>7. ASSUME NEW p \in Projects, AddRollups(p) PROVE BatchInv'
    <2>1. UNCHANGED <<writer, wal, walBuf, mem, manifest, mu>> BY <1>7, RollupFacts
    <2>2. QED BY <2>1 DEF BatchInv, Pending, Syncing, ManifestRows
  <1>8. ASSUME NEW p \in Projects, ResetWAL(p) \/ ResetWALFails(p) PROVE BatchInv'
    <2>1. \A q \in Projects :
            /\ Pending(q)' <=> Pending(q)
            /\ Syncing(q)' <=> Syncing(q)
            /\ writer'.batch[q] = writer.batch[q] /\ ManifestRows(q)' = ManifestRows(q)
      BY <1>8, ResetFacts
    <2>2. ~Syncing(p) /\ wal'[p] \cup walBuf'[p] \subseteq wal[p] \cup walBuf[p] /\ mem'[p] \subseteq mem[p]
      BY <1>8, ResetFacts
    <2>3. \A q \in Projects \ {p} : wal'[q] = wal[q] /\ walBuf'[q] = walBuf[q] /\ mem'[q] = mem[q]
      BY <1>8, ResetFacts
    <2>4. \A q \in Projects : Syncing(q) => Pending(q) /\ writer.batch[q] \subseteq walBuf[q]
      BY DEF BatchInv
    <2>5. QED BY <2>1, <2>2, <2>3, <2>4, BatchKept
  <1>9. ASSUME NEW p \in Projects, PruneSwap(p) \/ \E e \in prune.todo : PruneDrop(p, e) PROVE BatchInv'
    <2>1. UNCHANGED <<writer, mu, wal, walBuf, mem>> BY <1>9, RetireFacts
    <2>2. \A q \in Projects : ManifestRows(q)' \subseteq ManifestRows(q)
      <3>1. \E e, old : Retires(p, e, old) BY <1>9, RetireFacts
      <3>2. PICK e : \E old : Retires(p, e, old) BY <3>1
      <3>3. PICK old : Retires(p, e, old) BY <3>2
      <3>4. QED BY <3>3, RetiredRows
    <2>3. \A q \in Projects : (Pending(q)' <=> Pending(q)) /\ (Syncing(q)' <=> Syncing(q))
      BY <2>1 DEF Pending, Syncing
    <2>4. \A q \in Projects : Syncing(q) => Pending(q) /\ writer.batch[q] \subseteq walBuf[q]
      BY DEF BatchInv
    <2>5. QED BY <2>1, <2>2, <2>3, <2>4, BatchKept
  <1>10. ASSUME Crash \/ Close PROVE BatchInv' BY <1>10, StopFacts DEF BatchInv
  <1>11. ASSUME Open PROVE BatchInv' BY <1>11, OpenFacts DEF BatchInv
  <1>12. QED BY <1>1, <1>2, <1>3, <1>4, <1>5, <1>6, <1>7, <1>8, <1>9, <1>10, <1>11 DEF Loud

\* BatchInv is inductive.
LEMMA InitBatch == ASSUME Init PROVE BatchInv
  BY DEF Init, NoRows, IdleWriter, BatchInv, Pending, Syncing
\* Every step keeps BatchInv.
LEMMA NextBatch == ASSUME Inv, Inv', SegInv, RefInv, BatchInv, [Next]_vars PROVE BatchInv'
  BY QuietOrLoud, QuietBatch, LoudBatch

-----------------------------------------------------------------------------
(* No row twice *)

\* A quiet step keeps DupInv.
LEMMA QuietDup == ASSUME DupInv, Quiet PROVE DupInv'
  <1>1. ASSUME NEW p \in Projects
        PROVE  /\ Busy(p)' <=> Busy(p)
               /\ mem'[p] = mem[p] /\ ManifestRows(p)' = ManifestRows(p)
               /\ resetFailed'[p] = resetFailed[p] /\ (SegDisjoint(p) => SegDisjoint(p)')
    BY DEF Quiet, Busy
  <1>2. ASSUME NEW p \in Projects, DuplicateFree(p) PROVE DuplicateFree(p)'
    <2>1. SegDisjoint(p)' BY <1>1, <1>2 DEF DuplicateFree, SegDisjoint
    <2>2. ~Busy(p)' => mem'[p] \cap ManifestRows(p)' = {} BY <1>1, <1>2 DEF DuplicateFree, Busy
    <2>3. QED BY <2>1, <2>2 DEF DuplicateFree, SegDisjoint, Busy
  <1>3. QED BY <1>1, <1>2 DEF DupInv

\* One segment comes, with rows that are in no other.
LEMMA DisjointList ==
  ASSUME NEW p \in Projects, SegDisjoint(p), NEW keep \in SUBSET manifest[p], NEW new,
         manifest'[p] \subseteq keep \cup {new}, \A x \in keep : x.rows \cap new.rows = {}
  PROVE  SegDisjoint(p)'
  BY DEF SegDisjoint

\* What a prune does to the segments leaves them disjoint, and the retired
\* rows in none of them.
LEMMA RetireDisjoint ==
  ASSUME Inv, NEW p \in Projects, SegDisjoint(p), NEW e, NEW old, Retires(p, e, old)
  PROVE  SegDisjoint(p)' /\ ManifestRows(p)' \cap old = {}
  <1>1. PICK new : new.rows = e.rows \ old /\ manifest'[p] \subseteq (manifest[p] \ {e}) \cup {new}
    BY DEF Retires
  <1>2. e \in manifest[p] /\ old \subseteq e.rows BY DEF Retires
  <1>3. \A x \in manifest[p] \ {e} : x.rows \cap e.rows = {} BY <1>2 DEF SegDisjoint
  <1>4. SegDisjoint(p)'
    <2>1. \A x \in manifest[p] \ {e} : x.rows \cap new.rows = {} BY <1>1, <1>3
    <2>2. manifest[p] \ {e} \in SUBSET manifest[p] OBVIOUS
    <2>3. QED BY <1>1, <2>1, <2>2, DisjointList
  <1>5. \A x \in manifest'[p] : x.rows \cap old = {} BY <1>1, <1>2, <1>3
  <1>6. QED BY <1>4, <1>5 DEF ManifestRows

\* The loud steps keep DupInv.
LEMMA LoudDup == ASSUME Inv, Inv', SegInv, RefInv, BatchInv, DupInv, Loud PROVE DupInv'
  <1> USE DEF Else
  <1>0. \A p \in Projects : DuplicateFree(p) <=> SegDisjoint(p) /\ (~Busy(p) => mem[p] \cap ManifestRows(p) = {})
    BY DEF DuplicateFree, SegDisjoint, Busy
  <1>1. \A p \in Projects : DuplicateFree(p)' <=> SegDisjoint(p)' /\ (~Busy(p)' => mem'[p] \cap ManifestRows(p)' = {})
    BY DEF DuplicateFree, SegDisjoint, Busy
  <1>2. ASSUME UNCHANGED <<manifest, stage, resetFailed>>,
               \A p \in Projects : mem'[p] = mem[p] \/ ((mem'[p] \ mem[p]) \cap ManifestRows(p) = {} /\ ~Busy(p))
        PROVE  DupInv'
    <2>1. \A p \in Projects : ManifestRows(p)' = ManifestRows(p) /\ (SegDisjoint(p) => SegDisjoint(p)')
      BY <1>2, SameRows
    <2>2. \A p \in Projects : Busy(p)' <=> Busy(p) BY <1>2 DEF Busy
    <2>3. QED BY <1>0, <1>1, <1>2, <2>1, <2>2 DEF DupInv
  <1>3. ASSUME NEW entries \in Submissions, WriteBatch(entries) PROVE DupInv'
    BY <1>2, <1>3, BatchFacts
  <1>4. ASSUME NEW k \in 1..BatchMax, ExtractFails(k) PROVE DupInv'
    BY <1>2, <1>4 DEF ExtractFails
  <1>5. ASSUME NEW p \in Projects, WalAppend(p) PROVE DupInv' BY <1>2, <1>5, AppendFacts
  <1>6. ASSUME NEW p \in Projects, WalSync(p) PROVE DupInv'
    <2>1. ~Busy(p) /\ Syncing(p) /\ mem'[p] = mem[p] \cup writer.batch[p] /\ \A q \in Projects \ {p} : mem'[q] = mem[q]
      BY <1>6, SyncFacts DEF Busy
    <2>2. \A r \in writer.batch[p], q \in ManifestRows(p) : q.id < r.id BY <2>1 DEF BatchInv
    <2>3. \A q \in ManifestRows(p) : q.id \in Nat BY RowTypes DEF Row
    <2>4. writer.batch[p] \cap ManifestRows(p) = {}
      <3>1. ASSUME NEW r \in writer.batch[p], r \in ManifestRows(p) PROVE FALSE
        <4>1. r.id < r.id BY <2>2, <3>1
        <4>2. QED BY <2>3, <3>1, <4>1
      <3>2. QED BY <3>1
    <2>5. UNCHANGED <<manifest, stage, resetFailed>> BY <1>6, SyncFacts
    <2>6. QED BY <1>2, <2>1, <2>4, <2>5
  <1>7. ASSUME NEW p \in Projects, WalWriteFails(p) PROVE DupInv' BY <1>2, <1>7, WriteFailFacts
  <1>8. ASSUME NEW p \in Projects, InsertSegment(p) PROVE DupInv'
    <2>1. /\ ~Busy(p) /\ Busy(p)' /\ ManifestRows(p)' = ManifestRows(p) \cup mem[p]
          /\ UNCHANGED <<mem, resetFailed>>
      BY <1>8, InsertFacts DEF Busy
    <2>2. PICK new : new.rows = mem[p] /\ manifest'[p] = manifest[p] \cup {new}
      BY <1>8, InsertFacts
    <2>3. ASSUME DuplicateFree(p) PROVE SegDisjoint(p)'
      <3>1. SegDisjoint(p) /\ mem[p] \cap ManifestRows(p) = {} BY <1>0, <2>1, <2>3
      <3>2. \A x \in manifest[p] : x.rows \cap new.rows = {} BY <2>2, <3>1 DEF ManifestRows
      <3>3. manifest[p] \in SUBSET manifest[p] /\ manifest'[p] \subseteq manifest[p] \cup {new} BY <2>2
      <3>4. QED BY <3>1, <3>2, <3>3, DisjointList
    <2>4. \A q \in Projects \ {p} : manifest'[q] = manifest[q] /\ stage'[q] = stage[q]
            /\ ManifestRows(q)' = ManifestRows(q)
      BY <1>8, InsertFacts
    <2>5. \A q \in Projects \ {p} : (SegDisjoint(q) => SegDisjoint(q)') /\ (Busy(q)' <=> Busy(q))
      BY <2>4 DEF SegDisjoint, Busy
    <2>6. QED BY <1>0, <1>1, <2>1, <2>3, <2>4, <2>5 DEF DupInv
  <1>9. ASSUME NEW p \in Projects, AddRollups(p) PROVE DupInv'
    <2>1. \A q \in Projects : Busy(q)' <=> Busy(q) BY <1>9, RollupFacts DEF Busy
    <2>2. UNCHANGED <<mem, resetFailed, manifest>> BY <1>9, RollupFacts
    <2>3. QED BY <1>0, <1>1, <2>1, <2>2, SameRows DEF DupInv
  <1>10. ASSUME NEW p \in Projects, ResetWAL(p) \/ ResetWALFails(p) PROVE DupInv'
    <2>1. /\ UNCHANGED manifest /\ ~Busy(p)'
          /\ \A q \in Projects \ {p} : mem'[q] = mem[q] /\ resetFailed'[q] = resetFailed[q] /\ (Busy(q)' <=> Busy(q))
      BY <1>10, ResetFacts DEF Busy
    <2>2. resetFailed'[p] \/ (mem'[p] = {} /\ resetFailed' = resetFailed) BY <1>10, ResetFacts
    <2>3. QED BY <1>0, <1>1, <2>1, <2>2, SameRows DEF DupInv
  <1>11. ASSUME NEW p \in Projects, PruneSwap(p) \/ \E e \in prune.todo : PruneDrop(p, e) PROVE DupInv'
    <2>1. \E e, old : Retires(p, e, old) BY <1>11, RetireFacts
    <2>2. PICK e : \E old : Retires(p, e, old) BY <2>1
    <2>3. PICK old : Retires(p, e, old) BY <2>2
    <2>4. UNCHANGED <<mem, stage, resetFailed>> /\ ~Busy(p) BY <1>11, RetireFacts DEF Busy
    <2>5. SegDisjoint(p) => SegDisjoint(p)' BY <2>3, RetireDisjoint
    <2>6. ManifestRows(p)' \subseteq ManifestRows(p) BY <2>3, RetiredRows
    <2>7. \A q \in Projects \ {p} : ManifestRows(q)' = ManifestRows(q) /\ (SegDisjoint(q) => SegDisjoint(q)')
      BY <2>3 DEF Retires, ManifestRows, SegDisjoint
    <2>8. \A q \in Projects : Busy(q)' <=> Busy(q) BY <2>4 DEF Busy
    <2>9. QED BY <1>0, <1>1, <2>4, <2>5, <2>6, <2>7, <2>8 DEF DupInv
  <1>12. ASSUME Crash \/ Close PROVE DupInv'
    <2>1. UNCHANGED <<manifest, resetFailed>> /\ \A p \in Projects : mem'[p] = {}
      BY <1>12, StopFacts
    <2>2. QED BY <1>0, <1>1, <2>1, SameRows DEF DupInv
  <1>13. ASSUME Open PROVE DupInv'
    <2>1. /\ UNCHANGED <<manifest, resetFailed>>
          /\ \A p \in Projects : ~Busy(p)' /\ mem'[p] = {r \in wal[p] : \A q \in ManifestRows(p) : ~(r.id <= q.id)}
      BY <1>13, OpenFacts DEF Busy
    <2>2. \A p \in Projects : \A r \in ManifestRows(p) : r.id <= r.id BY RowTypes DEF Row
    <2>3. \A p \in Projects : mem'[p] \cap ManifestRows(p) = {} BY <2>1, <2>2
    <2>4. QED BY <1>0, <1>1, <2>1, <2>3, SameRows DEF DupInv
  <1>14. QED
    BY <1>3, <1>4, <1>5, <1>6, <1>7, <1>8, <1>9, <1>10, <1>11, <1>12, <1>13 DEF Loud

\* DupInv is inductive.
LEMMA InitDup == ASSUME Init PROVE DupInv
  BY DEF Init, NoRows, DupInv, DuplicateFree, Busy
\* Every step keeps DupInv.
LEMMA NextDup == ASSUME Inv, Inv', SegInv, RefInv, BatchInv, DupInv, [Next]_vars PROVE DupInv'
  BY QuietOrLoud, QuietDup, LoudDup

(* No row is served twice (NoDuplicateRows): not by two listed segments,    *)
(* and not by one of them and the memtable, unless a WAL could not be reset.*)
THEOREM NoRowTwice == Spec => []NoDuplicateRows
  <1>1. Init => Inv /\ SegInv /\ RefInv /\ BatchInv /\ DupInv
    BY InitInv, InitSegInv, InitRef, InitBatch, InitDup
  <1>2. Inv /\ SegInv /\ RefInv /\ BatchInv /\ DupInv /\ [Next]_vars
          => (Inv /\ SegInv /\ RefInv /\ BatchInv /\ DupInv)'
    BY NextInv, NextSegInv, NextRef, NextBatch, NextDup
  <1>3. DupInv => NoDuplicateRows BY DEF DupInv, NoDuplicateRows
  <1>4. QED BY <1>1, <1>2, <1>3, PTL DEF Spec
-----------------------------------------------------------------------------
(* A synced row stays *)

\* What a start would put back into the memtable: what is newer than all listed.
Back(p) == {r \in wal[p] : \A q \in ManifestRows(p) : ~(r.id <= q.id)}

\* A synced row is listed, retired or in the WAL, and there newer than the
\* listed; while the store is up, it is listed, retired or in the memtable.
SyncedOK(p) ==
  /\ ~torn[p]
  /\ synced[p] \subseteq ManifestRows(p) \cup retired[p] \cup Back(p)
  /\ phase = "up" => synced[p] \subseteq ManifestRows(p) \cup retired[p] \cup mem[p]

\* This is DurInv.
LEMMA DurIs ==
  ASSUME SegInv PROVE DurInv <=> ("torn" \notin Faults => \A p \in Projects : SyncedOK(p))
  <1>1. \A p \in Projects : Kept(p) = Back(p) BY Served DEF SegInv, Back
  <1>2. QED BY <1>1 DEF DurInv, SyncedOK

\* Rows listed stay listed or are retired, and the WAL keeps its own.
LEMMA SyncedKept ==
  ASSUME NEW p \in Projects, SyncedOK(p), synced'[p] = synced[p], ~torn'[p],
         ManifestRows(p)' \subseteq ManifestRows(p),
         ManifestRows(p) \cup retired[p] \subseteq ManifestRows(p)' \cup retired'[p],
         wal[p] \subseteq wal'[p],
         phase' = "up" => phase = "up" /\ mem[p] \subseteq mem'[p]
  PROVE  SyncedOK(p)'
  <1>1. Back(p) \subseteq Back(p)' BY DEF Back
  <1>2. synced'[p] \subseteq ManifestRows(p)' \cup retired'[p] \cup Back(p)' BY <1>1 DEF SyncedOK
  <1>3. phase' = "up" => synced'[p] \subseteq ManifestRows(p)' \cup retired'[p] \cup mem'[p]
    BY DEF SyncedOK
  <1>4. QED BY <1>2, <1>3 DEF SyncedOK

\* A quiet step keeps DurInv.
LEMMA QuietDur == ASSUME NEW p \in Projects, SyncedOK(p), Quiet PROVE SyncedOK(p)'
  BY SyncedKept DEF Quiet, SyncedOK

\* The loud steps keep DurInv.
LEMMA LoudDur ==
  ASSUME Inv, Inv', SegInv, BatchInv, DupInv, "torn" \notin Faults, \A p \in Projects : SyncedOK(p), Loud,
         NEW p \in Projects
  PROVE  SyncedOK(p)'
  <1> USE DEF Else
  <1>0. SyncedOK(p) /\ ~torn[p] BY DEF SyncedOK
  <1>1. ASSUME UNCHANGED <<manifest, retired>>, synced'[p] = synced[p], ~torn'[p],
               wal[p] \subseteq wal'[p], phase' = "up" => phase = "up" /\ mem[p] \subseteq mem'[p]
        PROVE  SyncedOK(p)'
    BY <1>0, <1>1, SameRows, SyncedKept
  <1>2. ASSUME NEW entries \in Submissions, WriteBatch(entries) PROVE SyncedOK(p)'
    BY <1>0, <1>1, <1>2, BatchFacts
  <1>3. ASSUME NEW k \in 1..BatchMax, ExtractFails(k) PROVE SyncedOK(p)'
    BY <1>0, <1>1, <1>3 DEF ExtractFails
  <1>4. ASSUME NEW o \in Projects, WalAppend(o) PROVE SyncedOK(p)'
    BY <1>0, <1>1, <1>4, AppendFacts
  <1>5. ASSUME NEW o \in Projects, WalSync(o) PROVE SyncedOK(p)'
    <2>1. UNCHANGED <<manifest, retired, torn, phase>> BY <1>5, SyncFacts
    <2>2. CASE o # p BY <1>0, <1>1, <1>5, <2>1, <2>2, SyncFacts
    <2>3. CASE o = p
      <3>1. /\ Syncing(p) /\ wal'[p] = wal[p] \cup walBuf[p] /\ mem'[p] = mem[p] \cup writer.batch[p]
            /\ synced'[p] = synced[p] \cup writer.batch[p] /\ ManifestRows(p)' = ManifestRows(p)
        BY <1>0, <1>5, <2>3, SyncFacts
      <3>2. writer.batch[p] \subseteq walBuf[p] /\ \A r \in writer.batch[p], q \in ManifestRows(p) : q.id < r.id
        BY <3>1 DEF BatchInv
      <3>3. \A r \in writer.batch[p] : r.id \in Nat BY RowTypes DEF Rows
      <3>4. \A q \in ManifestRows(p) : q.id \in Nat BY RowTypes DEF Rows
      <3>5. \A r \in writer.batch[p], q \in ManifestRows(p) : ~(r.id <= q.id)
        BY <3>2, <3>3, <3>4
      <3>6. writer.batch[p] \cup Back(p) \subseteq Back(p)' BY <3>1, <3>2, <3>5 DEF Back
      <3>7. synced'[p] \subseteq ManifestRows(p)' \cup retired'[p] \cup Back(p)'
        BY <1>0, <2>1, <3>1, <3>6 DEF SyncedOK
      <3>8. phase' = "up" => synced'[p] \subseteq ManifestRows(p)' \cup retired'[p] \cup mem'[p]
        BY <1>0, <2>1, <3>1 DEF SyncedOK
      <3>9. QED BY <1>0, <2>1, <3>7, <3>8 DEF SyncedOK
    <2>4. QED BY <2>2, <2>3
  <1>6. ASSUME NEW o \in Projects, WalWriteFails(o) PROVE SyncedOK(p)'
    BY <1>0, <1>1, <1>6, WriteFailFacts
  <1>7. ASSUME NEW o \in Projects, InsertSegment(o) PROVE SyncedOK(p)'
    <2>1. UNCHANGED <<wal, torn, mem, phase, synced, retired>> /\ phase = "up" BY <1>7, InsertFacts
    <2>2. CASE o # p
      <3>1. ManifestRows(p)' = ManifestRows(p) BY <1>7, <2>2, InsertFacts
      <3>2. QED BY <1>0, <2>1, <3>1, SyncedKept
    <2>3. CASE o = p
      <3>1. ManifestRows(p)' = ManifestRows(p) \cup mem[p] BY <1>7, <2>3, InsertFacts
      <3>2. synced[p] \subseteq ManifestRows(p) \cup retired[p] \cup mem[p] BY <1>0, <2>1 DEF SyncedOK
      <3>3. QED BY <1>0, <2>1, <3>1, <3>2 DEF SyncedOK
    <2>4. QED BY <2>2, <2>3
  <1>8. ASSUME NEW o \in Projects, AddRollups(o) PROVE SyncedOK(p)'
    BY <1>0, <1>1, <1>8, RollupFacts
  <1>9. ASSUME NEW o \in Projects, ResetWAL(o) \/ ResetWALFails(o) PROVE SyncedOK(p)'
    <2>1. UNCHANGED <<manifest, retired, phase, synced>> /\ ~torn'[p] BY <1>0, <1>9, ResetFacts
    <2>2. CASE o # p BY <1>0, <1>1, <1>9, <2>1, <2>2, ResetFacts
    <2>3. CASE o = p
      <3>1. Busy(p) /\ (mem'[p] = mem[p] \/ mem'[p] = {}) BY <1>9, <2>3, ResetFacts DEF Busy
      <3>2. mem[p] \subseteq ManifestRows(p) BY <3>1 DEF DupInv
      <3>3. phase = "up" BY <1>9, <2>3, FlushAlone, ResetFacts
      <3>4. synced[p] \subseteq ManifestRows(p) \cup retired[p] BY <1>0, <3>2, <3>3 DEF SyncedOK
      <3>5. ManifestRows(p)' = ManifestRows(p) BY <2>1, SameRows
      <3>6. QED BY <2>1, <3>4, <3>5 DEF SyncedOK
    <2>4. QED BY <2>2, <2>3
  <1>10. ASSUME NEW o \in Projects, PruneSwap(o) \/ \E e \in prune.todo : PruneDrop(o, e)
         PROVE  SyncedOK(p)'
    <2>1. \E e, old : Retires(o, e, old) BY <1>10, RetireFacts
    <2>2. PICK e : \E old : Retires(o, e, old) BY <2>1
    <2>3. PICK old : Retires(o, e, old) BY <2>2
    <2>4. UNCHANGED <<wal, torn, mem, phase, synced>> BY <1>10, RetireFacts
    <2>5. /\ ManifestRows(p)' \subseteq ManifestRows(p)
          /\ ManifestRows(p) \cup retired[p] \subseteq ManifestRows(p)' \cup retired'[p]
      <3>1. CASE o = p BY <2>3, <3>1, RetiredRows
      <3>2. CASE o # p BY <2>3, <3>2, RetiredRows
      <3>3. QED BY <3>1, <3>2
    <2>6. QED BY <1>0, <2>4, <2>5, SyncedKept
  <1>11. ASSUME Crash \/ Close PROVE SyncedOK(p)'
    <2>1. UNCHANGED <<manifest, retired, synced, torn>> /\ wal[p] \subseteq wal'[p] /\ phase' # "up"
      BY <1>11, StopFacts
    <2>2. QED BY <1>0, <1>1, <2>1
  <1>12. ASSUME Open PROVE SyncedOK(p)'
    <2>1. UNCHANGED <<manifest, retired, synced, torn, wal>> /\ mem'[p] = Back(p) /\ Back(p)' = Back(p)
          /\ ManifestRows(p)' = ManifestRows(p)
      BY <1>12, OpenFacts DEF Back
    <2>2. QED BY <1>0, <2>1 DEF SyncedOK
  <1>13. QED
    BY <1>2, <1>3, <1>4, <1>5, <1>6, <1>7, <1>8, <1>9, <1>10, <1>11, <1>12 DEF Loud

\* DurInv is inductive.
LEMMA InitDur == ASSUME Init PROVE DurInv
  BY DEF Init, NoRows, DurInv
\* Every step keeps DurInv.
LEMMA NextDur ==
  ASSUME Inv, Inv', SegInv, SegInv', RefInv, BatchInv, DupInv, DurInv, [Next]_vars PROVE DurInv'
  <1>1. ASSUME "torn" \notin Faults, NEW p \in Projects PROVE SyncedOK(p)'
    <2>1. \A q \in Projects : SyncedOK(q) BY <1>1, DurIs
    <2>2. QED BY <1>1, <2>1, QuietOrLoud, QuietDur, LoudDur
  <1>2. (\A p \in Projects : Kept(p) = Back(p))'
    <2>1. FilesOK' BY DEF SegInv
    <2>2. ASSUME NEW p \in Projects PROVE Kept(p)' = Back(p)'
      <3>1. \A r \in wal'[p] : Covered(p, r)' <=> \E q \in ManifestRows(p)' : r.id <= q.id
        BY DEF Covered, ManifestRows
      <3>2. QED BY <3>1 DEF Kept, Back
    <2>3. QED BY <2>2
  <1>3. QED BY <1>1, <1>2 DEF DurInv, SyncedOK

(* A row whose fsync succeeded is served by the next start until a prune    *)
(* removes it (Durability), whatever else fails, when no crash leaves part  *)
(* of a record in a WAL: what is appended behind one is lost.              *)
THEOREM SyncedRowsStay == ASSUME "torn" \notin Faults PROVE Spec => []Durability
  <1>1. Init => Inv /\ SegInv /\ RefInv /\ BatchInv /\ DupInv /\ DurInv
    BY InitInv, InitSegInv, InitRef, InitBatch, InitDup, InitDur
  <1>2. Inv /\ SegInv /\ RefInv /\ BatchInv /\ DupInv /\ DurInv /\ [Next]_vars
          => (Inv /\ SegInv /\ RefInv /\ BatchInv /\ DupInv /\ DurInv)'
    BY NextInv, NextSegInv, NextRef, NextBatch, NextDup, NextDur
  <1>3. SegInv /\ DurInv => Durability
    BY Served DEF SegInv, DurInv, Durability
  <1>4. QED BY <1>1, <1>2, <1>3, PTL DEF Spec
-----------------------------------------------------------------------------
(* Where every WAL is written and reset: the WAL is ahead of the manifest,  *)
(* and what a prune removed is gone from both                              *)

\* Who fails tells which fault there is.
LEMMA CleanFails ==
  ASSUME Inv, CleanLog
  PROVE  /\ \A p \in Projects : ~WalWriteFails(p)
         /\ \A p \in Projects : ~walErr[p] => ~ResetWALFails(p)
         /\ Crash \/ Close => \A p \in Projects : ~Busy(p)
  <1>1. "midflush" \notin Faults /\ "wal_write" \notin Faults /\ "wal_truncate" \notin Faults
    BY DEF CleanLog
  <1>2. QED BY <1>1, WriteFailFacts, ResetFacts, StopFacts

\* The WAL stays ahead while it takes nothing but the batch, the manifest
\* nothing at all, and nothing is retired.
LEMMA LogKept ==
  ASSUME NEW p \in Projects, LogOK(p), Busy(p)' <=> Busy(p),
         walErr'[p] = walErr[p], resetFailed'[p] = resetFailed[p],
         ManifestRows(p)' = ManifestRows(p), retired'[p] = retired[p],
         \A r \in wal'[p] \cup walBuf'[p] :
           r \in wal[p] \cup walBuf[p] \/
           (r \notin retired[p] /\ \A q \in ManifestRows(p) : q.id < r.id),
         \A r \in mem'[p] : r \in mem[p] \/ r \notin retired[p],
         phase' = "up" => phase = "up",
         (wal'[p] = wal[p] /\ mem'[p] = mem[p]) \/ mem'[p] # {} \/ wal'[p] = {} \/ phase' # "up",
         Pending(p)' => \A r \in writer'.batch[p] : r \notin retired[p]
  PROVE  LogOK(p)'
  <1>1. ~walErr'[p] /\ ~resetFailed'[p] BY DEF LogOK
  <1>2. ~Busy(p)' => \A r \in wal'[p] \cup walBuf'[p], q \in ManifestRows(p)' : q.id < r.id
    BY DEF LogOK
  <1>3. phase' = "up" /\ mem'[p] = {} => wal'[p] = {} BY DEF LogOK
  <1>4. (wal'[p] \cup walBuf'[p] \cup mem'[p] \cup ManifestRows(p)') \cap retired'[p] = {}
    BY DEF LogOK
  <1>5. Pending(p)' => writer'.batch[p] \cap retired'[p] = {} OBVIOUS
  <1>6. QED BY <1>1, <1>2, <1>3, <1>4, <1>5 DEF LogOK

\* A quiet step keeps LogOK.
LEMMA QuietLog == ASSUME NEW p \in Projects, LogOK(p), Quiet PROVE LogOK(p)'
  <1>1. Busy(p)' <=> Busy(p) BY DEF Quiet, Busy
  <1>2. Pending(p)' => \A r \in writer'.batch[p] : r \notin retired[p] BY DEF Quiet, LogOK
  <1>3. /\ walErr'[p] = walErr[p] /\ resetFailed'[p] = resetFailed[p]
        /\ ManifestRows(p)' = ManifestRows(p) /\ retired'[p] = retired[p]
        /\ wal'[p] = wal[p] /\ walBuf'[p] = walBuf[p] /\ mem'[p] = mem[p] /\ phase' = phase
    BY DEF Quiet
  <1>4. QED BY <1>1, <1>2, <1>3, LogKept

\* The loud steps keep LogOK.
LEMMA LoudLog ==
  ASSUME Inv, Inv', SegInv, RefInv, BatchInv, DupInv, CleanLog, \A o \in Projects : LogOK(o), Loud, NEW p \in Projects
  PROVE  LogOK(p)'
  <1> USE DEF Else
  <1>0. LogOK(p) /\ (Pending(p) => \A r \in writer.batch[p] : r \notin retired[p]) BY DEF LogOK
  <1>1. ASSUME UNCHANGED <<manifest, retired, walErr, resetFailed>>, phase' = phase,
               wal'[p] = wal[p], walBuf'[p] = walBuf[p], mem'[p] = mem[p], Busy(p)' <=> Busy(p),
               Pending(p)' => \A r \in writer'.batch[p] : r \notin retired[p]
        PROVE  LogOK(p)'
    BY <1>1, SameRows, LogKept
  <1>2. ASSUME NEW entries \in Submissions, WriteBatch(entries) PROVE LogOK(p)'
    <2>1. UNCHANGED <<manifest, retired, walErr, resetFailed, wal, walBuf, mem, stage>> /\ phase' = phase
      BY <1>2, BatchFacts
    <2>2. ASSUME NEW r \in writer'.batch[p], r \in retired[p] PROVE FALSE
      <3>1. r.body \in Nat /\ born < r.body BY <1>2, <2>2, BatchFacts
      <3>2. r.body <= born BY <2>2 DEF RefInv
      <3>3. born \in Nat BY DEF Inv, TypeOK, HistoryTypes
      <3>4. QED BY <3>1, <3>2, <3>3
    <2>3. Busy(p)' <=> Busy(p) BY <2>1 DEF Busy
    <2>4. QED BY <1>1, <2>1, <2>2, <2>3
  <1>3. ASSUME NEW k \in 1..BatchMax, ExtractFails(k) PROVE LogOK(p)'
    <2>1. UNCHANGED <<manifest, retired, walErr, resetFailed, wal, walBuf, mem, stage, writer>> /\ phase' = phase
      BY <1>3 DEF ExtractFails
    <2>2. (Busy(p)' <=> Busy(p)) /\ (Pending(p)' <=> Pending(p)) BY <2>1 DEF Busy, Pending
    <2>3. QED BY <1>0, <1>1, <2>1, <2>2
  <1>4. ASSUME NEW o \in Projects, WalAppend(o) PROVE LogOK(p)'
    <2>1. /\ UNCHANGED <<manifest, retired, walErr, resetFailed, wal, mem, stage>> /\ phase' = phase
          /\ writer'.batch = writer.batch /\ Pending(p)' = Pending(p)
      BY <1>4, AppendFacts
    <2>2. Busy(p)' <=> Busy(p) BY <2>1 DEF Busy
    <2>3. CASE o # p
      <3>1. walBuf'[p] = walBuf[p] BY <1>4, <2>3, AppendFacts
      <3>2. QED BY <1>0, <1>1, <2>1, <2>2, <3>1
    <2>4. CASE o = p
      <3>1. walBuf'[p] = walBuf[p] \cup writer.batch[p] /\ Pending(p)
        BY <1>4, <2>4, AppendFacts DEF Pending
      <3>2. \A r \in writer.batch[p], q \in ManifestRows(p) : q.id < r.id BY <3>1 DEF BatchInv
      <3>3. ManifestRows(p)' = ManifestRows(p) BY <2>1, SameRows
      <3>4. QED BY <1>0, <2>1, <2>2, <3>1, <3>2, <3>3, LogKept
    <2>5. QED BY <2>3, <2>4
  <1>5. ASSUME NEW o \in Projects, WalSync(o) PROVE LogOK(p)'
    <2>1. UNCHANGED <<manifest, retired, walErr, resetFailed, stage>> /\ phase' = phase
          /\ writer'.batch = writer.batch /\ (Pending(p)' => Pending(p))
      BY <1>5, SyncFacts
    <2>2. Busy(p)' <=> Busy(p) BY <2>1 DEF Busy
    <2>3. CASE o # p
      <3>1. walBuf'[p] = walBuf[p] /\ wal'[p] = wal[p] /\ mem'[p] = mem[p] BY <1>5, <2>3, SyncFacts
      <3>2. QED BY <1>0, <1>1, <2>1, <2>2, <3>1
    <2>4. CASE o = p
      <3>1. /\ Pending(p) /\ mem'[p] = mem[p] \cup writer.batch[p] /\ walBuf'[p] = {}
            /\ wal'[p] \subseteq wal[p] \cup walBuf[p]
        BY <1>5, <2>4, SyncFacts DEF BatchInv
      <3>2. mem'[p] # {} BY <3>1 DEF BatchInv
      <3>3. ManifestRows(p)' = ManifestRows(p) BY <2>1, SameRows
      <3>4. QED BY <1>0, <2>1, <2>2, <3>1, <3>2, <3>3, LogKept
    <2>5. QED BY <2>3, <2>4
  <1>6. ASSUME NEW o \in Projects, InsertSegment(o) PROVE LogOK(p)'
    <2>1. UNCHANGED <<wal, walBuf, walErr, mem, phase, retired, resetFailed, writer>>
      BY <1>6, InsertFacts
    <2>2. CASE o # p
      <3>1. ManifestRows(p)' = ManifestRows(p) /\ stage'[p] = stage[p] BY <1>6, <2>2, InsertFacts
      <3>2. (Busy(p)' <=> Busy(p)) /\ (Pending(p)' <=> Pending(p)) BY <2>1, <3>1 DEF Busy, Pending
      <3>3. QED BY <1>0, <2>1, <3>1, <3>2, LogKept
    <2>3. CASE o = p
      <3>1. ManifestRows(p)' = ManifestRows(p) \cup mem[p] /\ Busy(p)'
        BY <1>6, <2>3, InsertFacts DEF Busy
      <3>2. Pending(p)' <=> Pending(p) BY <2>1 DEF Pending
      <3>3. QED BY <2>1, <3>1, <3>2 DEF LogOK
    <2>4. QED BY <2>2, <2>3
  <1>7. ASSUME NEW o \in Projects, AddRollups(o) PROVE LogOK(p)'
    <2>1. UNCHANGED <<manifest, retired, walErr, resetFailed, wal, walBuf, mem, writer>> /\ phase' = phase
      BY <1>7, RollupFacts
    <2>2. (Busy(p)' <=> Busy(p)) /\ (Pending(p)' <=> Pending(p))
      BY <1>7, <2>1, RollupFacts DEF Busy, Pending
    <2>3. QED BY <1>0, <1>1, <2>1, <2>2
  <1>8. ASSUME NEW o \in Projects, ResetWAL(o) PROVE LogOK(p)'
    <2>1. UNCHANGED <<manifest, retired, walErr, resetFailed, phase, writer>> /\ (Pending(p)' <=> Pending(p))
      BY <1>8, ResetFacts
    <2>2. CASE o # p
      <3>1. walBuf'[p] = walBuf[p] /\ wal'[p] = wal[p] /\ mem'[p] = mem[p] /\ (Busy(p)' <=> Busy(p))
        BY <1>8, <2>2, ResetFacts DEF Busy
      <3>2. QED BY <1>0, <1>1, <2>1, <3>1
    <2>3. CASE o = p
      <3>1. walBuf'[p] = {} /\ wal'[p] = {} /\ mem'[p] = {} BY <1>8, <2>3, ResetFacts
      <3>2. ManifestRows(p)' = ManifestRows(p) BY <2>1, SameRows
      <3>3. QED BY <2>1, <3>1, <3>2 DEF LogOK
    <2>4. QED BY <2>2, <2>3
  <1>9. ASSUME NEW o \in Projects, PruneSwap(o) \/ \E e \in prune.todo : PruneDrop(o, e) PROVE LogOK(p)'
    <2>1. \E e, old : Retires(o, e, old) BY <1>9, RetireFacts
    <2>2. PICK e : \E old : Retires(o, e, old) BY <2>1
    <2>3. PICK old : Retires(o, e, old) BY <2>2
    <2>4. UNCHANGED <<wal, walBuf, walErr, mem, phase, resetFailed, writer, stage>> /\ stage[o] = "none"
      BY <1>9, RetireFacts
    <2>5. (Busy(p)' <=> Busy(p)) /\ (Pending(p)' <=> Pending(p)) BY <2>4 DEF Busy, Pending
    <2>6. CASE o # p
      <3>1. ManifestRows(p)' = ManifestRows(p) /\ retired'[p] = retired[p] BY <2>3, <2>6, RetiredRows
      <3>2. QED BY <1>0, <2>4, <2>5, <3>1, LogKept
    <2>7. CASE o = p
      <3>1. ~Busy(p) BY <2>4, <2>7 DEF Busy
      <3>2. SegDisjoint(p) /\ mem[p] \cap ManifestRows(p) = {}
        BY <3>1 DEF LogOK, DupInv, DuplicateFree, SegDisjoint, Busy
      <3>3. ManifestRows(p)' \cap old = {} BY <2>3, <2>7, <3>2, RetireDisjoint
      <3>4. /\ ManifestRows(p)' \subseteq ManifestRows(p) /\ old \subseteq ManifestRows(p)
            /\ retired'[p] = retired[p] \cup old
        BY <2>3, <2>7, RetiredRows
      <3>5. \A r \in wal[p] \cup walBuf[p], q \in ManifestRows(p) : q.id < r.id BY <3>1 DEF LogOK
      <3>6. Pending(p) => \A r \in writer.batch[p], q \in ManifestRows(p) : q.id < r.id BY DEF BatchInv
      <3>7. \A q \in ManifestRows(p) : ~(q.id < q.id) BY RowTypes DEF Row
      <3>8. (wal[p] \cup walBuf[p]) \cap old = {} /\ (Pending(p) => writer.batch[p] \cap old = {})
        BY <3>4, <3>5, <3>6, <3>7
      <3>9. QED BY <2>4, <2>5, <3>2, <3>3, <3>4, <3>8 DEF LogOK
    <2>8. QED BY <2>6, <2>7
  <1>10. ASSUME Crash \/ Close PROVE LogOK(p)'
    <2>1. ~Busy(p) BY <1>10, CleanFails
    <2>2. UNCHANGED <<manifest, retired, resetFailed>> /\ ~walErr'[p] /\ wal'[p] \subseteq wal[p] \cup walBuf[p]
          /\ walBuf'[p] = {} /\ mem'[p] = {} /\ phase' # "up" /\ ~Pending(p)'
          /\ ManifestRows(p)' = ManifestRows(p)
      BY <1>10, StopFacts
    <2>3. QED BY <2>1, <2>2 DEF LogOK
  <1>11. ASSUME Open PROVE LogOK(p)'
    <2>1. /\ UNCHANGED <<wal, walBuf, walErr, manifest, retired, resetFailed, stage>> /\ ~Pending(p)'
          /\ ManifestRows(p)' = ManifestRows(p) /\ mem'[p] = Back(p) /\ ~Busy(p)
      BY <1>11, OpenFacts DEF Back, Busy
    <2>2. \A r \in wal[p], q \in ManifestRows(p) : q.id < r.id BY <2>1 DEF LogOK
    <2>3. \A r \in wal[p], q \in ManifestRows(p) : ~(r.id <= q.id)
      <3>1. \A r \in wal[p] : r.id \in Nat BY RowTypes DEF Rows
      <3>2. \A q \in ManifestRows(p) : q.id \in Nat BY RowTypes DEF Rows
      <3>3. QED BY <2>2, <3>1, <3>2
    <2>4. Back(p) = wal[p] BY <2>3 DEF Back
    <2>5. ~Busy(p)' <=> ~Busy(p) BY <2>1 DEF Busy
    <2>6. QED BY <2>1, <2>2, <2>4, <2>5 DEF LogOK
  <1>12. \A o \in Projects : ~WalWriteFails(o) /\ ~ResetWALFails(o) BY CleanFails DEF LogOK
  <1>13. QED
    BY <1>2, <1>3, <1>4, <1>5, <1>6, <1>7, <1>8, <1>9, <1>10, <1>11, <1>12 DEF Loud
\* LogInv is inductive.
LogInv == CleanLog => \A p \in Projects : LogOK(p)
\* Every WAL is empty at first.
LEMMA InitLog == ASSUME Init PROVE LogInv
  <1>1. ASSUME NEW p \in Projects PROVE LogOK(p)
    <2>1. /\ ~walErr[p] /\ ~resetFailed[p] /\ wal[p] = {} /\ walBuf[p] = {} /\ mem[p] = {} /\ retired[p] = {}
          /\ ~Pending(p)
      BY DEF Init, NoRows, IdleWriter, Pending
    <2>2. QED BY <2>1 DEF LogOK
  <1>2. QED BY <1>1 DEF LogInv
\* Every step keeps LogInv.
LEMMA NextLog ==
  ASSUME Inv, Inv', SegInv, RefInv, BatchInv, DupInv, LogInv, [Next]_vars PROVE LogInv'
  <1>1. ASSUME CleanLog, NEW p \in Projects PROVE LogOK(p)'
    <2>1. \A q \in Projects : LogOK(q) BY <1>1 DEF LogInv
    <2>2. QED BY <1>1, <2>1, QuietOrLoud, QuietLog, LoudLog
  <1>2. QED BY <1>1 DEF LogInv, CleanLog

(* A pruned row does not come back (NoResurrection) where every WAL is      *)
(* written and reset; one that is not keeps the row, and the next start     *)
(* replays it.                                                              *)
THEOREM PrunedRowsStayGone == ASSUME CleanLog PROVE Spec => []NoResurrection
  <1>1. Init => Inv /\ SegInv /\ RefInv /\ BatchInv /\ DupInv /\ LogInv
    BY InitInv, InitSegInv, InitRef, InitBatch, InitDup, InitLog
  <1>2. Inv /\ SegInv /\ RefInv /\ BatchInv /\ DupInv /\ LogInv /\ [Next]_vars
          => (Inv /\ SegInv /\ RefInv /\ BatchInv /\ DupInv /\ LogInv)'
    BY NextInv, NextSegInv, NextRef, NextBatch, NextDup, NextLog
  <1>3. SegInv /\ LogInv => NoResurrection
    <2>1. ASSUME SegInv, LogInv, NEW p \in Projects PROVE Readable(p) \cap retired[p] = {}
      <3>1. Readable(p) \subseteq ManifestRows(p) \cup wal[p] BY <2>1, Served DEF SegInv
      <3>2. QED BY <2>1, <3>1 DEF LogInv, LogOK
    <2>2. QED BY <2>1 DEF NoResurrection
  <1>4. QED BY <1>1, <1>2, <1>3, PTL DEF Spec
-----------------------------------------------------------------------------
(* What a prune must remove *)

\* Which steps move a prune on.
LEMMA PruneMoves ==
  ASSUME Inv, [Next]_vars
  PROVE  \/ prune' = prune \/ prune'.stage = "idle"
         \/ \E p \in Projects : \/ \E c \in Cutoffs : PruneStart(p, c)
                                \/ PruneLock(p) \/ PruneRemove(p) \/ PruneUnlock(p)
                                \/ \E e \in prune.todo : PruneRewrite(p, e) \/ PruneDrop(p, e)
                                \/ PruneSwap(p) \/ ResetWAL(p)
  <1>1. CASE UNCHANGED vars BY <1>1 DEF vars
  <1>2. CASE WriterNext
    BY <1>2 DEF WriterNext, WriteBatch, ExtractFails, WalAppend, WalAppendFails, WalSync, WalSyncFails,
                WalWriteFails, UpsertIssues, UpsertIssuesFails, ThresholdFlush, BatchReturns
  <1>3. CASE FlushNext
    <2>1. ASSUME NEW p \in Projects, EndFlush(p, FALSE) PROVE prune' = prune \/ prune'.stage = "idle"
      BY <2>1 DEF EndFlush, IdlePrune
    <2>2. QED
      BY <1>3, <2>1 DEF FlushNext, TickerFlush, InsertSegment, SegmentFails, AddRollups, ResetWALFails
  <1>4. CASE PruneNext
    <2>1. \A p \in Projects : PruneFails(p) \/ PruneEvents(p) => prune'.stage = "idle"
      BY DEF PruneFails, PruneEvents, IdlePrune
    <2>2. QED BY <1>4, <2>1 DEF PruneNext
  <1>5. CASE CompactNext
    BY <1>5 DEF CompactNext, CompactPlan, CompactBuild, CompactBuildFails, CompactSwap, CompactAborts,
                CompactRemove
  <1>6. CASE Crash \/ Close \/ Open
    BY <1>6 DEF Crash, Close, Open, Volatile, IdlePrune
  <1>7. QED BY <1>1, <1>2, <1>3, <1>4, <1>5, <1>6 DEF Next

\* How rows move in a step: into the WAL and the memtable from the batch, into
\* the manifest from the memtable.
Flow(p) ==
  /\ \A r \in wal'[p] \cup walBuf'[p] \cup mem'[p] :
       r \in wal[p] \cup walBuf[p] \cup mem[p] \/ (Pending(p) /\ r \in writer.batch[p])
  /\ ManifestRows(p)' \subseteq ManifestRows(p) \cup mem[p]
  /\ manifest'[p] = manifest[p] \/ ~(prune.stage \in {"scan", "swap", "remove"} /\ prune.proj = p)
  /\ Pending(p)' => \A r \in writer'.batch[p] : (Pending(p) /\ r \in writer.batch[p]) \/ born < r.body

\* So they do in every step that leaves the prune at hand alone.
LEMMA RowsFlow ==
  ASSUME Inv, Inv', SegInv, BatchInv, NEW p \in Projects, [Next]_vars, prune' = prune
  PROVE  Flow(p)
  <1> USE DEF Else
  <1>1. CASE Quiet
    <2>1. prune.stage \in {"scan", "swap", "remove"} /\ prune.proj = p => mu[p] = "pruner" BY Pinned
    <2>2. QED BY <1>1, <2>1 DEF Quiet, Flow
  <1>2. ASSUME NEW entries \in Submissions, WriteBatch(entries) PROVE Flow(p)
    BY <1>2, BatchFacts DEF Flow
  <1>3. ASSUME NEW k \in 1..BatchMax, ExtractFails(k) PROVE Flow(p)
    <2>1. UNCHANGED <<wal, walBuf, mem, manifest, writer>> BY <1>3 DEF ExtractFails
    <2>2. (Pending(p)' <=> Pending(p)) /\ ManifestRows(p)' = ManifestRows(p)
      BY <2>1 DEF Pending, ManifestRows
    <2>3. QED BY <2>1, <2>2 DEF Flow
  <1>4. ASSUME NEW o \in Projects, WalAppend(o) PROVE Flow(p)
    <2>1. /\ UNCHANGED <<wal, mem, manifest>> /\ writer'.batch = writer.batch
          /\ Pending(p)' = Pending(p) /\ ManifestRows(p)' = ManifestRows(p)
      BY <1>4, AppendFacts
    <2>2. walBuf'[p] = walBuf[p] \/ (Pending(p) /\ walBuf'[p] = walBuf[p] \cup writer.batch[p])
      BY <1>4, AppendFacts DEF Pending
    <2>3. QED BY <2>1, <2>2 DEF Flow
  <1>5. ASSUME NEW o \in Projects, WalSync(o) PROVE Flow(p)
    <2>1. /\ UNCHANGED manifest /\ writer'.batch = writer.batch
          /\ Pending(p)' => Pending(p)
          /\ ManifestRows(p)' = ManifestRows(p)
      BY <1>5, SyncFacts
    <2>2. CASE o = p
      <3>1. Pending(p) BY <1>5, <2>2, SyncFacts DEF BatchInv
      <3>2. wal'[p] \subseteq wal[p] \cup walBuf[p] /\ walBuf'[p] = {} /\ mem'[p] = mem[p] \cup writer.batch[p]
        BY <1>5, <2>2, SyncFacts
      <3>3. QED BY <2>1, <3>1, <3>2 DEF Flow
    <2>3. CASE o # p
      <3>1. wal'[p] = wal[p] /\ walBuf'[p] = walBuf[p] /\ mem'[p] = mem[p] BY <1>5, <2>3, SyncFacts
      <3>2. QED BY <2>1, <3>1 DEF Flow
    <2>4. QED BY <2>2, <2>3
  <1>6. ASSUME NEW o \in Projects, WalWriteFails(o) PROVE Flow(p)
    BY <1>6, WriteFailFacts DEF Flow
  <1>7. ASSUME NEW o \in Projects, InsertSegment(o) PROVE Flow(p)
    <2>1. UNCHANGED <<wal, walBuf, mem, writer>> BY <1>7, InsertFacts
    <2>2. Pending(p)' <=> Pending(p) BY <2>1 DEF Pending
    <2>3. manifest'[p] = manifest[p] \/ ~(prune.stage \in {"scan", "swap", "remove"} /\ prune.proj = p)
      BY <1>7, FlushAlone, InsertFacts
    <2>4. ManifestRows(p)' \subseteq ManifestRows(p) \cup mem[p] BY <1>7, InsertFacts
    <2>5. QED BY <2>1, <2>2, <2>3, <2>4 DEF Flow
  <1>8. ASSUME NEW o \in Projects, AddRollups(o) PROVE Flow(p)
    <2>1. UNCHANGED <<wal, walBuf, mem, manifest, writer>> BY <1>8, RollupFacts
    <2>2. (Pending(p)' <=> Pending(p)) /\ ManifestRows(p)' = ManifestRows(p)
      BY <2>1 DEF Pending, ManifestRows
    <2>3. QED BY <2>1, <2>2 DEF Flow
  <1>9. ASSUME NEW o \in Projects, ResetWAL(o) \/ ResetWALFails(o) PROVE Flow(p)
    <2>1. /\ UNCHANGED <<manifest, writer>> /\ (Pending(p)' <=> Pending(p))
          /\ ManifestRows(p)' = ManifestRows(p)
          /\ wal'[p] \cup walBuf'[p] \subseteq wal[p] \cup walBuf[p]
          /\ mem'[p] \subseteq mem[p]
      BY <1>9, ResetFacts
    <2>2. QED BY <2>1 DEF Flow
  <1>10. ASSUME NEW o \in Projects, PruneSwap(o) \/ \E e \in prune.todo : PruneDrop(o, e) PROVE FALSE
    <2>1. \E e, old : Retires(o, e, old) BY <1>10, RetireFacts
    <2>2. QED BY <2>1 DEF Retires
  <1>11. ASSUME Crash \/ Close PROVE Flow(p) BY <1>11, StopFacts DEF Flow
  <1>12. ASSUME Open PROVE Flow(p) BY <1>12, OpenFacts DEF Flow
  <1>13. QED
    BY <1>1, <1>2, <1>3, <1>4, <1>5, <1>6, <1>7, <1>8, <1>9, <1>10, <1>11, <1>12, QuietOrLoud DEF Loud
\* Who leaves the prune alone keeps DueOK: the rows of a new batch are none
\* the prune has seen.
LEMMA DueFlow ==
  ASSUME Inv, Inv', RefInv, NEW p \in Projects, prune' = prune, Flow(p), DueOK(p) PROVE DueOK(p)'
  <1> SUFFICES ASSUME prune.proj = p, prune.stage # "idle" PROVE DueOK(p)'
    BY DEF DueOK
  <1>1. \A r \in prune.due : r.ts < prune.cutoff BY DEF DueOK
  <1>2. ASSUME Pending(p)', NEW r \in writer'.batch[p], r \in prune.due PROVE FALSE
    <2>1. CASE Pending(p) /\ r \in writer.batch[p] BY <1>2, <2>1 DEF DueOK
    <2>2. CASE born < r.body
      <3>1. r.body <= born BY <1>2 DEF RefInv
      <3>2. born \in Nat /\ r.body \in Nat
        BY <1>2 DEF Inv, TypeOK, HistoryTypes, PruneTypes, Row
      <3>3. QED BY <2>2, <3>1, <3>2
    <2>3. QED BY <1>2, <2>1, <2>2 DEF Flow
  <1>3. prune.stage # "flush" => (wal'[p] \cup walBuf'[p] \cup mem'[p]) \cap prune.due = {}
    BY DEF DueOK, Flow
  <1>4. prune.stage \in {"scan", "swap", "remove"} =>
          \A e \in manifest'[p] : e.rows \cap prune.due # {} => e \in prune.todo
    BY DEF DueOK, Flow
  <1>5. prune.stage = "events" => ManifestRows(p)' \cap prune.due = {}
    BY DEF DueOK, Flow
  <1>6. QED BY <1>1, <1>2, <1>3, <1>4, <1>5 DEF DueOK

\* A prune begins: what it must remove is listed or in a WAL that the flush
\* is about to empty.
LEMMA DueStart ==
  ASSUME Inv, SegInv, BatchInv, NEW p \in Projects, LogOK(p), NEW c \in Cutoffs, PruneStart(p, c)
  PROVE  DueOK(p)'
  <1>1. /\ phase = "up" /\ mu[p] = "free" /\ UNCHANGED <<wal, walBuf, mem, writer, manifest>>
        /\ \/ PruneBegins(p, c, "flush")
           \/ PruneBegins(p, c, "lock") /\ mem[p] = {}
    BY DEF PruneStart, WriteSegment
  <1>2. ~Busy(p) /\ ~Syncing(p)
    BY <1>1 DEF Busy, Syncing, Inv, LockHeld, HolderAtWork
  <1>3. /\ prune'.due = Older(Readable(p), c) /\ prune'.cutoff = c /\ prune'.proj = p
        /\ prune'.stage = "flush" \/ (prune'.stage = "lock" /\ mem[p] = {})
    BY <1>1 DEF PruneBegins
  <1>4. prune'.due \subseteq ManifestRows(p) \cup wal[p]
    BY <1>3, Served DEF SegInv, Older
  <1>5. \A r \in prune'.due : r.ts < prune'.cutoff BY <1>3 DEF Older
  <1>6. \A q \in ManifestRows(p) \cup wal[p] : ~(q.id < q.id) BY RowTypes DEF Rows
  <1>7. ASSUME Pending(p)' PROVE writer'.batch[p] \cap prune'.due = {}
    <2>1. Pending(p) /\ writer'.batch = writer.batch BY <1>1, <1>7 DEF Pending
    <2>2. \A r \in writer.batch[p], q \in ManifestRows(p) \cup wal[p] : q.id < r.id
      BY <1>2, <2>1 DEF BatchInv
    <2>3. QED BY <1>4, <1>6, <2>1, <2>2
  <1>8. ASSUME prune'.stage # "flush" PROVE (wal'[p] \cup walBuf'[p] \cup mem'[p]) \cap prune'.due = {}
    <2>1. mem[p] = {} /\ wal[p] = {} BY <1>1, <1>3, <1>8 DEF LogOK
    <2>2. \A r \in walBuf[p], q \in ManifestRows(p) : q.id < r.id BY <1>2 DEF LogOK
    <2>3. QED BY <1>1, <1>4, <1>6, <2>1, <2>2
  <1>9. QED BY <1>3, <1>5, <1>7, <1>8 DEF DueOK

\* A prune goes on.
LEMMA DueGoesOn ==
  ASSUME Inv, SegInv, NEW p \in Projects, DueOK(p),
         \/ PruneLock(p) \/ PruneRemove(p) \/ PruneUnlock(p)
         \/ \E e \in prune.todo : PruneRewrite(p, e)
  PROVE  DueOK(p)' \/ prune'.stage = "idle"
  <1>1. prune.proj = p /\ UNCHANGED <<wal, walBuf, mem, writer, manifest>> /\ prune.stage # "flush"
        /\ prune.stage # "idle"
    BY DEF PruneLock, PruneRemove, PruneUnlock, PruneRewrite
  <1>2. (Pending(p)' <=> Pending(p)) /\ ManifestRows(p)' = ManifestRows(p)
    BY <1>1 DEF Pending, ManifestRows
  <1>3. /\ \A r \in prune.due : r.ts < prune.cutoff
        /\ Pending(p)' => writer'.batch[p] \cap prune.due = {}
        /\ (wal'[p] \cup walBuf'[p] \cup mem'[p]) \cap prune.due = {}
    BY <1>1, <1>2 DEF DueOK
  <1>4. CASE PruneLock(p)
    <2>1. prune' = [prune EXCEPT !.stage = "scan",
                                 !.todo = {e \in manifest[p] : Older(e.rows, prune.cutoff) # {}}]
      BY <1>4 DEF PruneLock
    <2>2. /\ prune'.stage = "scan" /\ prune'.due = prune.due /\ prune'.cutoff = prune.cutoff
          /\ prune'.todo = {e \in manifest[p] : Older(e.rows, prune.cutoff) # {}}
      BY <2>1 DEF Inv, TypeOK, PruneTypes
    <2>3. \A e \in manifest[p] : e.rows \cap prune.due # {} => Older(e.rows, prune.cutoff) # {}
      BY <1>3 DEF Older
    <2>4. QED BY <1>1, <1>3, <2>2, <2>3 DEF DueOK
  <1>5. CASE \E e \in prune.todo : PruneRewrite(p, e)
    <2>1. PICK e \in prune.todo : PruneRewrite(p, e) BY <1>5
    <2>2. prune' = [prune EXCEPT !.stage = "swap", !.cur = e] /\ prune.stage = "scan"
      BY <2>1 DEF PruneRewrite
    <2>3. /\ prune'.stage = "swap" /\ prune'.due = prune.due /\ prune'.cutoff = prune.cutoff
          /\ prune'.todo = prune.todo
      BY <2>2 DEF Inv, TypeOK, PruneTypes
    <2>4. \A x \in manifest[p] : x.rows \cap prune.due # {} => x \in prune.todo
      BY <1>1, <2>2 DEF DueOK
    <2>5. QED BY <1>1, <1>3, <2>3, <2>4 DEF DueOK
  <1>6. CASE PruneRemove(p)
    <2>1. prune.stage = "remove"
          /\ (prune' = [prune EXCEPT !.stage = "scan", !.cur = None] \/ prune' = IdlePrune)
      BY <1>6 DEF PruneRemove
    <2>0. prune' = IdlePrune => prune'.stage = "idle" BY DEF IdlePrune
    <2>2. prune' = [prune EXCEPT !.stage = "scan", !.cur = None] =>
            /\ prune'.stage = "scan" /\ prune'.due = prune.due /\ prune'.cutoff = prune.cutoff
            /\ prune'.todo = prune.todo
      BY DEF Inv, TypeOK, PruneTypes
    <2>3. \A x \in manifest[p] : x.rows \cap prune.due # {} => x \in prune.todo
      BY <1>1, <2>1 DEF DueOK
    <2>4. CASE prune'.stage = "scan" /\ prune'.due = prune.due /\ prune'.cutoff = prune.cutoff
               /\ prune'.todo = prune.todo
      BY <1>1, <1>3, <2>3, <2>4 DEF DueOK
    <2>5. QED BY <2>0, <2>1, <2>2, <2>4
  <1>7. CASE PruneUnlock(p)
    <2>1. prune.stage = "scan" /\ prune.todo = {} /\ prune' = [prune EXCEPT !.stage = "events"]
      BY <1>7 DEF PruneUnlock
    <2>2. prune'.stage = "events" /\ prune'.due = prune.due /\ prune'.cutoff = prune.cutoff
      BY <2>1 DEF Inv, TypeOK, PruneTypes
    <2>3. \A x \in manifest[p] : ~(x.rows \cap prune.due # {}) BY <1>1, <2>1 DEF DueOK
    <2>4. ManifestRows(p)' \cap prune.due = {} BY <1>2, <2>3 DEF ManifestRows
    <2>5. QED BY <1>3, <2>2, <2>4 DEF DueOK
  <1>8. QED BY <1>4, <1>5, <1>6, <1>7

\* A prune takes the old rows of a segment: the one it leaves has none.
LEMMA DueRetires ==
  ASSUME Inv, SegInv, NEW p \in Projects, DueOK(p), PruneSwap(p) \/ \E e \in prune.todo : PruneDrop(p, e)
  PROVE  DueOK(p)'
  <1>1. \E e, old : Retires(p, e, old) BY RetireFacts
  <1>2. PICK e : \E old : Retires(p, e, old) BY <1>1
  <1>3. PICK old : Retires(p, e, old) BY <1>2
  <1>4. UNCHANGED <<wal, walBuf, mem, writer>> BY RetireFacts
  <1>5. Pending(p)' <=> Pending(p) BY <1>4 DEF Pending
  <1>6. /\ prune.stage \in {"scan", "swap"} /\ prune.proj = p /\ prune'.stage = "remove"
        /\ prune'.cutoff = prune.cutoff /\ prune'.due = prune.due /\ prune'.todo = prune.todo \ {e}
    BY <1>3 DEF Retires
  <1>7. /\ \A r \in prune.due : r.ts < prune.cutoff
        /\ Pending(p) => writer.batch[p] \cap prune.due = {}
        /\ (wal[p] \cup walBuf[p] \cup mem[p]) \cap prune.due = {}
        /\ \A x \in manifest[p] : x.rows \cap prune.due # {} => x \in prune.todo
    BY <1>6 DEF DueOK
  <1>8. ASSUME NEW x \in manifest'[p], x.rows \cap prune.due # {} PROVE x \in prune.todo \ {e}
    <2>1. PICK new : new.rows = e.rows \ old /\ manifest'[p] \subseteq (manifest[p] \ {e}) \cup {new}
      BY <1>3 DEF Retires
    <2>2. \A r \in e.rows : r \in old <=> r.ts < prune.cutoff BY <1>3 DEF Retires
    <2>3. x # new BY <1>7, <1>8, <2>1, <2>2
    <2>4. QED BY <1>7, <1>8, <2>1, <2>3
  <1>9. QED BY <1>4, <1>5, <1>6, <1>7, <1>8 DEF DueOK

\* DueInv is inductive.
DueInv == CleanLog => \A p \in Projects : DueOK(p)
\* No prune is at hand at first.
LEMMA InitDue == ASSUME Init PROVE DueInv
  BY DEF Init, IdlePrune, DueInv, DueOK
\* Every step keeps DueInv.
LEMMA NextDue ==
  ASSUME Inv, Inv', SegInv, RefInv, BatchInv, DupInv, LogInv, DueInv, [Next]_vars PROVE DueInv'
  <1>1. ASSUME CleanLog, NEW p \in Projects PROVE DueOK(p)'
    <2>1. DueOK(p) /\ LogOK(p) BY <1>1 DEF DueInv, LogInv
    <2>2. CASE prune' = prune BY <2>1, <2>2, DueFlow, RowsFlow
    <2>3. ASSUME prune'.stage = "idle" \/ prune'.proj # p PROVE DueOK(p)' BY <2>3 DEF DueOK
    <2>4. ASSUME NEW o \in Projects, NEW c \in Cutoffs, PruneStart(o, c) PROVE DueOK(p)'
      <3>1. prune'.proj = o BY <2>4 DEF PruneStart, PruneBegins
      <3>2. QED BY <2>1, <2>3, <2>4, <3>1, DueStart
    <2>5. ASSUME NEW o \in Projects,
                 \/ PruneLock(o) \/ PruneRemove(o) \/ PruneUnlock(o)
                 \/ \E e \in prune.todo : PruneRewrite(o, e)
          PROVE  DueOK(p)'
      <3>0. prune' = IdlePrune => prune'.stage = "idle" BY DEF IdlePrune
      <3>1. prune'.proj = o \/ prune' = IdlePrune
        BY <2>5 DEF PruneLock, PruneRemove, PruneUnlock, PruneRewrite, Inv, TypeOK, PruneTypes
      <3>2. QED BY <2>1, <2>3, <2>5, <3>0, <3>1, DueGoesOn
    <2>6. ASSUME NEW o \in Projects, PruneSwap(o) \/ \E e \in prune.todo : PruneDrop(o, e)
          PROVE  DueOK(p)'
      <3>1. prune'.proj = o BY <2>6, RetireFacts DEF Retires
      <3>2. QED BY <2>1, <2>3, <2>6, <3>1, DueRetires
    <2>7. ASSUME NEW o \in Projects, ResetWAL(o), prune' # prune PROVE DueOK(p)'
      <3>1. mu[o] = "pruner" /\ (prune' = IdlePrune \/ prune' = [prune EXCEPT !.stage = "lock"])
        BY <2>7, ResetFacts
      <3>2. CASE prune' = IdlePrune BY <2>3, <3>2 DEF IdlePrune
      <3>3. CASE prune' = [prune EXCEPT !.stage = "lock"]
        <4>1. /\ prune'.stage = "lock" /\ prune'.proj = prune.proj /\ prune'.due = prune.due
              /\ prune'.cutoff = prune.cutoff
          BY <3>3 DEF Inv, TypeOK, PruneTypes
        <4>2. prune.proj = o /\ prune.stage = "flush"
          BY <2>7, <3>1, ResetFacts DEF Inv, LockHeld, HolderAtWork
        <4>3. CASE o = p
          <5>1. wal'[p] = {} /\ walBuf'[p] = {} /\ mem'[p] = {} /\ (Pending(p)' <=> Pending(p))
                /\ writer' = writer
            BY <2>7, <4>3, ResetFacts
          <5>2. /\ \A r \in prune.due : r.ts < prune.cutoff
                /\ Pending(p) => writer.batch[p] \cap prune.due = {}
            BY <2>1, <4>2, <4>3 DEF DueOK
          <5>3. QED BY <4>1, <5>1, <5>2 DEF DueOK
        <4>4. QED BY <2>3, <4>1, <4>2, <4>3
      <3>4. QED BY <3>1, <3>2, <3>3
    <2>8. QED BY <2>2, <2>3, <2>4, <2>5, <2>6, <2>7, PruneMoves
  <1>2. QED BY <1>1 DEF DueInv, CleanLog

(* A prune that has been through the segments has left nothing older than   *)
(* its cutoff of what was there when it began (PruneComplete), whatever was *)
(* written, flushed and merged meanwhile, where every WAL is written and    *)
(* reset.                                                                   *)
THEOREM PrunesAreComplete == ASSUME CleanLog PROVE Spec => []PruneComplete
  <1>1. Init => Inv /\ SegInv /\ RefInv /\ BatchInv /\ DupInv /\ LogInv /\ DueInv
    BY InitInv, InitSegInv, InitRef, InitBatch, InitDup, InitLog, InitDue
  <1>2. Inv /\ SegInv /\ RefInv /\ BatchInv /\ DupInv /\ LogInv /\ DueInv /\ [Next]_vars
          => (Inv /\ SegInv /\ RefInv /\ BatchInv /\ DupInv /\ LogInv /\ DueInv)'
    BY NextInv, NextSegInv, NextRef, NextBatch, NextDup, NextLog, NextDue
  <1>3. Inv /\ SegInv /\ DueInv => PruneComplete
    <2>1. ASSUME Inv, SegInv, DueInv, prune.stage = "events"
          PROVE  Readable(prune.proj) \cap prune.due = {}
      <3>1. prune.proj \in Projects BY <2>1 DEF Inv, TypeOK, PruneTypes
      <3>2. Readable(prune.proj) \subseteq ManifestRows(prune.proj) \cup wal[prune.proj]
        BY <2>1, <3>1, Served DEF SegInv
      <3>3. DueOK(prune.proj) BY <2>1, <3>1 DEF DueInv
      <3>4. /\ ManifestRows(prune.proj) \cap prune.due = {}
            /\ wal[prune.proj] \cap prune.due = {}
        BY <2>1, <3>3 DEF DueOK
      <3>5. QED BY <3>2, <3>4
    <2>2. QED BY <2>1 DEF PruneComplete
  <1>4. QED BY <1>1, <1>2, <1>3, PTL DEF Spec

-----------------------------------------------------------------------------
(* What is counted *)

\* A failed reset and a row taken back are never forgotten, and the only
\* counts lost are those AddRollups or a crash loses.
LEMMA FlawsKept ==
  ASSUME Inv, [Next]_vars, NEW p \in Projects
  PROVE  /\ resetFailed[p] => resetFailed'[p]
         /\ revived[p] => revived'[p]
         /\ uncounted' = uncounted \/ Crash \/ \E o \in Projects : AddRollups(o)
  <1> DEFINE Same == UNCHANGED <<resetFailed, uncounted, revived>>
  <1>1. CASE UNCHANGED vars BY <1>1 DEF vars
  <1>2. CASE WriterNext
    <2>1. Same
      BY <1>2 DEF WriterNext, WriteBatch, ExtractFails, WalAppend, WalAppendFails, WalSync, WalSyncFails,
                  WalWriteFails, UpsertIssues, UpsertIssuesFails, ThresholdFlush, BatchReturns
    <2>2. QED BY <2>1
  <1>3. CASE FlushNext
    <2>1. PICK o \in Projects : TickerFlush(o) \/ InsertSegment(o) \/ SegmentFails(o) \/ AddRollups(o)
                                  \/ ResetWAL(o) \/ ResetWALFails(o)
      BY <1>3 DEF FlushNext
    <2>2. CASE TickerFlush(o) \/ InsertSegment(o) \/ SegmentFails(o) \/ ResetWAL(o)
      <3>1. Same BY <2>2 DEF TickerFlush, InsertSegment, SegmentFails, ResetWAL
      <3>2. QED BY <3>1
    <2>3. CASE AddRollups(o)
      <3>1. UNCHANGED <<resetFailed, revived>> BY <2>3 DEF AddRollups
      <3>2. QED BY <2>3, <3>1
    <2>4. CASE ResetWALFails(o)
      <3>1. resetFailed' = [resetFailed EXCEPT ![o] = TRUE] /\ UNCHANGED <<uncounted, revived>>
        BY <2>4 DEF ResetWALFails
      <3>2. resetFailed[p] => resetFailed'[p] BY <3>1 DEF Inv, TypeOK, HistoryTypes
      <3>3. QED BY <3>1, <3>2
    <2>5. QED BY <2>1, <2>2, <2>3, <2>4
  <1>4. CASE PruneNext
    <2>1. Same
      BY <1>4 DEF PruneNext, PruneStart, PruneLock, PruneDrop, PruneRewrite, PruneSwap, PruneFails,
                  PruneRemove, PruneUnlock, PruneEvents
    <2>2. QED BY <2>1
  <1>5. CASE CompactNext
    <2>1. Same
      BY <1>5 DEF CompactNext, CompactPlan, CompactBuild, CompactBuildFails, CompactSwap, CompactAborts,
                  CompactRemove
    <2>2. QED BY <2>1
  <1>6. CASE Crash
    <2>1. UNCHANGED <<resetFailed, revived>> BY <1>6 DEF Crash
    <2>2. QED BY <1>6, <2>1
  <1>7. CASE Close BY <1>7 DEF Close
  <1>8. CASE Open
    <2>1. /\ revived' = [q \in Projects |-> revived[q] \/ Kept(q) \cap retired[q] # {}]
          /\ UNCHANGED <<resetFailed, uncounted>>
      BY <1>8 DEF Open
    <2>2. revived[p] => revived'[p] BY <2>1
    <2>3. QED BY <2>1, <2>2
  <1>9. QED BY <1>1, <1>2, <1>3, <1>4, <1>5, <1>6, <1>7, <1>8 DEF Next

\* No pruned row enters the memtable or the batch at hand.
LEMMA FreshKept ==
  ASSUME NEW p \in Projects, FreshOK(p), resetFailed[p] => resetFailed'[p], revived[p] => revived'[p],
         retired'[p] = retired[p],
         \A r \in mem'[p] : r \in mem[p] \/ (Pending(p) /\ r \in writer.batch[p]),
         Pending(p)' => \/ Pending(p) /\ writer'.batch[p] = writer.batch[p]
                        \/ \A r \in writer'.batch[p] : r \notin retired[p]
  PROVE  FreshOK(p)'
  <1>1. CASE resetFailed[p] \/ revived[p] BY <1>1 DEF FreshOK
  <1>2. CASE Unpruned(p)
    <2>1. mem'[p] \cap retired'[p] = {} BY <1>2 DEF Unpruned
    <2>2. Pending(p)' => writer'.batch[p] \cap retired'[p] = {} BY <1>2 DEF Unpruned
    <2>3. QED BY <2>1, <2>2 DEF Unpruned, FreshOK
  <1>3. QED BY <1>1, <1>2 DEF FreshOK

\* A prune takes listed rows, none of them in the memtable or in the batch.
LEMMA FreshRetires ==
  ASSUME Inv, SegInv, BatchInv, DupInv, NEW p \in Projects, FreshOK(p),
         resetFailed[p] => resetFailed'[p], revived[p] => revived'[p],
         NEW o \in Projects, PruneSwap(o) \/ \E e \in prune.todo : PruneDrop(o, e)
  PROVE  FreshOK(p)'
  <1> USE DEF Else
  <1>1. \E e, old : Retires(o, e, old) BY RetireFacts
  <1>2. PICK e : \E old : Retires(o, e, old) BY <1>1
  <1>3. PICK old : Retires(o, e, old) BY <1>2
  <1>4. UNCHANGED <<mem, writer, mu, stage>> /\ stage[o] = "none" BY RetireFacts
  <1>5. Pending(p)' <=> Pending(p) BY <1>4 DEF Pending
  <1>6. CASE o # p
    <2>1. retired'[p] = retired[p] BY <1>3, <1>6, RetiredRows
    <2>2. QED BY <1>4, <1>5, <2>1, FreshKept
  <1>7. CASE o = p
    <2>1. old \subseteq ManifestRows(p) /\ retired'[p] = retired[p] \cup old
      BY <1>3, <1>7, RetiredRows
    <2>2. CASE resetFailed[p] \/ revived[p] BY <2>2 DEF FreshOK
    <2>3. CASE ~resetFailed[p] /\ Unpruned(p)
      <3>1. mem[p] \cap ManifestRows(p) = {}
        BY <1>4, <1>7, <2>3 DEF DupInv, DuplicateFree
      <3>2. mem'[p] \cap retired'[p] = {} BY <1>4, <2>1, <2>3, <3>1 DEF Unpruned
      <3>3. ASSUME Pending(p), NEW r \in writer.batch[p], r \in ManifestRows(p) PROVE FALSE
        <4>1. r.id < r.id BY <3>3 DEF BatchInv
        <4>2. r.id \in Nat BY <3>3, RowTypes DEF Row
        <4>3. QED BY <4>1, <4>2
      <3>4. Pending(p)' => writer'.batch[p] \cap retired'[p] = {}
        BY <1>4, <1>5, <2>1, <2>3, <3>3 DEF Unpruned
      <3>5. QED BY <3>2, <3>4 DEF Unpruned, FreshOK
    <2>4. QED BY <2>2, <2>3 DEF FreshOK
  <1>8. QED BY <1>6, <1>7

\* The loud steps keep FreshOK.
LEMMA LoudFresh ==
  ASSUME Inv, SegInv, RefInv, BatchInv, DupInv, NEW p \in Projects, FreshOK(p), Loud, [Next]_vars
  PROVE  FreshOK(p)'
  <1> USE DEF Else
  <1>0. (resetFailed[p] => resetFailed'[p]) /\ (revived[p] => revived'[p]) BY FlawsKept
  <1>1. ASSUME retired' = retired, mem'[p] \subseteq mem[p],
               Pending(p)' => Pending(p) /\ writer'.batch[p] = writer.batch[p]
        PROVE  FreshOK(p)'
    BY <1>0, <1>1, FreshKept
  <1>2. ASSUME NEW entries \in Submissions, WriteBatch(entries) PROVE FreshOK(p)'
    <2>1. /\ UNCHANGED <<mem, retired>>
          /\ \A r \in writer'.batch[p] : r.body \in Nat /\ born < r.body
      BY <1>2, BatchFacts
    <2>2. ASSUME NEW r \in writer'.batch[p], r \in retired[p] PROVE FALSE
      <3>1. r.body <= born BY <2>2 DEF RefInv
      <3>2. born \in Nat BY DEF Inv, TypeOK, HistoryTypes
      <3>3. QED BY <2>1, <2>2, <3>1, <3>2
    <2>3. retired'[p] = retired[p] /\ \A r \in mem'[p] : r \in mem[p] BY <2>1
    <2>4. QED BY <1>0, <2>2, <2>3, FreshKept
  <1>3. ASSUME NEW k \in 1..BatchMax, ExtractFails(k) PROVE FreshOK(p)'
    BY <1>1, <1>3 DEF ExtractFails, Pending
  <1>4. ASSUME NEW o \in Projects, WalAppend(o) PROVE FreshOK(p)' BY <1>1, <1>4, AppendFacts
  <1>5. ASSUME NEW o \in Projects, WalSync(o) PROVE FreshOK(p)'
    <2>1. /\ Pending(o) /\ mem'[o] = mem[o] \cup writer.batch[o]
          /\ \A q \in Projects \ {o} : mem'[q] = mem[q]
      BY <1>5, SyncFacts DEF BatchInv
    <2>2. retired' = retired /\ writer'.batch = writer.batch /\ (Pending(p)' => Pending(p))
      BY <1>5, SyncFacts
    <2>3. \A r \in mem'[p] : r \in mem[p] \/ (Pending(p) /\ r \in writer.batch[p]) BY <2>1
    <2>4. QED BY <1>0, <2>2, <2>3, FreshKept
  <1>6. ASSUME NEW o \in Projects, WalWriteFails(o) PROVE FreshOK(p)' BY <1>1, <1>6, WriteFailFacts
  <1>7. ASSUME NEW o \in Projects, InsertSegment(o) PROVE FreshOK(p)'
    BY <1>1, <1>7, InsertFacts DEF Pending
  <1>8. ASSUME NEW o \in Projects, AddRollups(o) PROVE FreshOK(p)'
    BY <1>1, <1>8, RollupFacts DEF Pending
  <1>9. ASSUME NEW o \in Projects, ResetWAL(o) \/ ResetWALFails(o) PROVE FreshOK(p)'
    <2>1. retired' = retired /\ writer' = writer BY <1>9, ResetFacts
    <2>2. mem'[p] \subseteq mem[p] BY <1>9, ResetFacts
    <2>3. QED BY <1>1, <2>1, <2>2 DEF Pending
  <1>10. ASSUME NEW o \in Projects, PruneSwap(o) \/ \E e \in prune.todo : PruneDrop(o, e)
         PROVE  FreshOK(p)'
    BY <1>0, <1>10, FreshRetires
  <1>11. ASSUME Crash \/ Close PROVE FreshOK(p)' BY <1>1, <1>11, StopFacts
  <1>12. ASSUME Open PROVE FreshOK(p)'
    <2>1. /\ revived' = [q \in Projects |-> revived[q] \/ Kept(q) \cap retired[q] # {}]
          /\ mem' = [q \in Projects |-> Kept(q)] /\ retired' = retired
      BY <1>12 DEF Open
    <2>2. ~Pending(p)' BY <1>12, OpenFacts
    <2>3. revived'[p] \/ mem'[p] \cap retired'[p] = {} BY <2>1
    <2>4. QED BY <2>2, <2>3 DEF Unpruned, FreshOK
  <1>13. QED
    BY <1>2, <1>3, <1>4, <1>5, <1>6, <1>7, <1>8, <1>9, <1>10, <1>11, <1>12 DEF Loud

\* FreshInv is inductive.
FreshInv == \A p \in Projects : FreshOK(p)
\* Nothing is pruned at first.
LEMMA InitFresh == ASSUME Init PROVE FreshInv
  BY DEF Init, NoRows, FreshInv, FreshOK, Unpruned
\* Every step keeps FreshInv.
LEMMA NextFresh ==
  ASSUME Inv, Inv', SegInv, RefInv, BatchInv, DupInv, FreshInv, [Next]_vars PROVE FreshInv'
  <1>1. ASSUME NEW p \in Projects PROVE FreshOK(p)'
    <2>1. FreshOK(p) BY DEF FreshInv
    <2>2. CASE Loud BY <2>1, <2>2, LoudFresh
    <2>3. CASE Quiet
      <3>1. mem' = mem /\ retired' = retired /\ (Pending(p)' => Pending(p) /\ writer'.batch[p] = writer.batch[p])
        BY <2>3 DEF Quiet
      <3>2. QED BY <2>1, <3>1, FlawsKept, FreshKept
    <2>4. QED BY <2>2, <2>3, QuietOrLoud
  <1>2. QED BY <1>1 DEF FreshInv

\* What a flush lists and what prunes took are finitely many rows.
LEMMA FlushedFinite ==
  ASSUME Inv, SegInv, NEW p \in Projects, CountOK(p), NEW h \in Hours PROVE IsFiniteSet(Flushed(p, h))
  <1>1. FiniteFiles(manifest[p]) BY DEF SegInv, ListOK
  <1>2. IsFiniteSet(RowsOf(manifest[p])) BY <1>1, FiniteRowsOf
  <1>3. RowsOf(manifest[p]) = ManifestRows(p) BY DEF RowsOf, ManifestRows
  <1>4. IsFiniteSet(retired[p]) BY DEF CountOK
  <1>5. IsFiniteSet(ManifestRows(p) \cup retired[p]) BY <1>2, <1>3, <1>4, FS_Union
  <1>6. Flushed(p, h) \subseteq ManifestRows(p) \cup retired[p] BY DEF Flushed
  <1>7. QED BY <1>5, <1>6, FS_Subset

\* Nothing moves between what is counted and what is not.
LEMMA CountSame ==
  ASSUME NEW p \in Projects, CountOK(p), resetFailed[p] => resetFailed'[p], revived[p] => revived'[p],
         rollups'[p] = rollups[p], uncounted'[p] = uncounted[p], IsFiniteSet(retired'[p]),
         ManifestRows(p)' \cup retired'[p] = ManifestRows(p) \cup retired[p],
         stage'[p] = "inserted" <=> stage[p] = "inserted", stage[p] = "inserted" => mem'[p] = mem[p]
  PROVE  CountOK(p)'
  <1>1. uncounted'[p] \subseteq ManifestRows(p)' \cup retired'[p] BY DEF CountOK
  <1>2. CASE resetFailed[p] \/ revived[p] BY <1>1, <1>2 DEF CountOK
  <1>3. CASE Counted(p)
    <2>1. ASSUME NEW h \in Hours PROVE Flushed(p, h)' = Flushed(p, h) BY DEF Flushed
    <2>2. ASSUME NEW h \in Hours, stage[p] = "inserted" PROVE RolledUp(p)'[h] = RolledUp(p)[h]
      BY <2>2 DEF RolledUp
    <2>3. ASSUME NEW h \in Hours
          PROVE  IF stage'[p] = "inserted" THEN RolledUp(p)'[h] = Cardinality(Flushed(p, h)')
                                           ELSE rollups'[p][h] = Cardinality(Flushed(p, h)')
      BY <1>3, <2>1, <2>2 DEF Counted
    <2>4. Counted(p)' BY <1>3, <2>3 DEF Counted
    <2>5. QED BY <1>1, <2>4 DEF CountOK
  <1>4. QED BY <1>2, <1>3 DEF CountOK

\* A segment is listed: its rows are counted next.
LEMMA CountInsert ==
  ASSUME Inv, SegInv, DupInv, NEW p \in Projects, FreshOK(p), CountOK(p),
         resetFailed[p] => resetFailed'[p], revived[p] => revived'[p], InsertSegment(p)
  PROVE  CountOK(p)'
  <1>1. /\ stage[p] = "written" /\ stage'[p] = "inserted"
        /\ ManifestRows(p)' = ManifestRows(p) \cup mem[p]
        /\ UNCHANGED <<mem, rollups, retired>>
    BY InsertFacts
  <1>2. uncounted' = uncounted BY DEF InsertSegment
  <1>3. /\ IsFiniteSet(retired'[p])
        /\ uncounted'[p] \subseteq ManifestRows(p)' \cup retired'[p]
    BY <1>1, <1>2 DEF CountOK
  <1>4. CASE resetFailed[p] \/ revived[p] BY <1>3, <1>4 DEF CountOK
  <1>5. CASE ~resetFailed[p] /\ ~revived[p]
    <2>1. Counted(p) /\ Unpruned(p) BY <1>5 DEF CountOK, FreshOK
    <2>2. mem[p] \cap (ManifestRows(p) \cup retired[p]) = {}
      <3>1. mem[p] \cap ManifestRows(p) = {} BY <1>1, <1>5 DEF DupInv, DuplicateFree
      <3>2. QED BY <2>1, <3>1 DEF Unpruned
    <2>3. mem'[p] \cap uncounted'[p] = {} BY <1>1, <1>2, <2>2 DEF CountOK
    <2>4. ASSUME NEW h \in Hours PROVE RolledUp(p)'[h] = Cardinality(Flushed(p, h)')
      <3> DEFINE S == Flushed(p, h)
                 T == {r \in mem[p] : r.ts = h}
      <3>1. IsFiniteSet(S) BY FlushedFinite
      <3>2. IsFiniteSet(mem[p]) BY DEF Inv, FiniteRows
      <3>3. IsFiniteSet(T) BY <3>2, FS_Subset
      <3>4. Flushed(p, h)' = S \cup T BY <1>1, <1>2, <2>3 DEF Flushed
      <3>5. S \cap T = {} BY <2>2 DEF Flushed
      <3>6. RolledUp(p)'[h] = rollups[p][h] + Cardinality(T) BY <1>1 DEF RolledUp
      <3>7. rollups[p][h] = Cardinality(S) BY <1>1, <2>1 DEF Counted
      <3> HIDE DEF S, T
      <3>8. Cardinality(S \cup T) = Cardinality(S) + Cardinality(T) - Cardinality(S \cap T)
        BY <3>1, <3>3, FS_Union
      <3>9. Cardinality(S \cap T) = 0 BY <3>5, FS_EmptySet
      <3>10. Cardinality(S) \in Nat /\ Cardinality(T) \in Nat BY <3>1, <3>3, FS_CardinalityType
      <3>11. QED BY <3>4, <3>6, <3>7, <3>8, <3>9, <3>10
    <2>5. Counted(p)' BY <1>1, <2>3, <2>4 DEF Counted
    <2>6. QED BY <1>3, <2>5 DEF CountOK
  <1>6. QED BY <1>4, <1>5

\* The counts of the flush at hand are added.
LEMMA CountAdds ==
  ASSUME Inv, NEW p \in Projects, CountOK(p), resetFailed[p] => resetFailed'[p], revived[p] => revived'[p],
         stage[p] = "inserted", stage'[p] # "inserted", ManifestRows(p)' = ManifestRows(p),
         retired' = retired, rollups'[p] = RolledUp(p), uncounted'[p] = uncounted[p]
  PROVE  CountOK(p)'
  <1>1. IsFiniteSet(retired'[p]) /\ uncounted'[p] \subseteq ManifestRows(p)' \cup retired'[p] BY DEF CountOK
  <1>2. CASE resetFailed[p] \/ revived[p] BY <1>1, <1>2 DEF CountOK
  <1>3. CASE Counted(p)
    <2>1. ASSUME NEW h \in Hours PROVE rollups'[p][h] = Cardinality(Flushed(p, h)')
      <3>1. Flushed(p, h)' = Flushed(p, h) BY DEF Flushed
      <3>2. RolledUp(p)[h] = Cardinality(Flushed(p, h)) BY <1>3 DEF Counted
      <3>3. QED BY <3>1, <3>2
    <2>2. Counted(p)' BY <2>1 DEF Counted
    <2>3. QED BY <1>1, <2>2 DEF CountOK
  <1>4. QED BY <1>2, <1>3 DEF CountOK

\* They are lost: refused, or the process stops before they are added.
LEMMA CountLost ==
  ASSUME Inv, SegInv, DupInv, NEW p \in Projects, CountOK(p),
         resetFailed[p] => resetFailed'[p], revived[p] => revived'[p],
         stage[p] = "inserted", stage'[p] # "inserted", ManifestRows(p)' = ManifestRows(p),
         retired' = retired, rollups'[p] = rollups[p], uncounted'[p] = uncounted[p] \cup mem[p]
  PROVE  CountOK(p)'
  <1>1. mem[p] \subseteq ManifestRows(p) BY DEF DupInv, Busy
  <1>2. IsFiniteSet(retired'[p]) /\ uncounted'[p] \subseteq ManifestRows(p)' \cup retired'[p]
    BY <1>1 DEF CountOK
  <1>3. CASE resetFailed[p] \/ revived[p] BY <1>2, <1>3 DEF CountOK
  <1>4. CASE Counted(p)
    <2>1. ASSUME NEW h \in Hours PROVE rollups'[p][h] = Cardinality(Flushed(p, h)')
      <3> DEFINE S == Flushed(p, h)'
                 T == {r \in mem[p] : r.ts = h}
                 F == Flushed(p, h)
      <3>1. IsFiniteSet(F) BY FlushedFinite
      <3>2. S \cup T = F /\ S \cap T = {} BY <1>1, <1>4 DEF Counted, Flushed
      <3>3. RolledUp(p)[h] = rollups[p][h] + Cardinality(T) BY DEF RolledUp
      <3>4. RolledUp(p)[h] = Cardinality(F) BY <1>4 DEF Counted
      <3>5. rollups[p][h] \in Nat BY DEF Inv, TypeOK, MetaTypes
      <3> HIDE DEF S, T, F
      <3>6. S \subseteq F /\ T \subseteq F BY <3>2
      <3>7. IsFiniteSet(S) /\ IsFiniteSet(T) BY <3>1, <3>6, FS_Subset
      <3>8. Cardinality(S \cup T) = Cardinality(S) + Cardinality(T) - Cardinality(S \cap T)
        BY <3>7, FS_Union
      <3>9. Cardinality(S \cap T) = 0 BY <3>2, FS_EmptySet
      <3>10. Cardinality(S) \in Nat /\ Cardinality(T) \in Nat BY <3>7, FS_CardinalityType
      <3>11. Cardinality(F) = Cardinality(S) + Cardinality(T)
        <4>1. Cardinality(S \cup T) = Cardinality(F) BY <3>2
        <4>2. Cardinality(S \cup T) = Cardinality(S) + Cardinality(T) BY <3>8, <3>9, <3>10
        <4>3. QED BY <4>1, <4>2
      <3>12. rollups[p][h] + Cardinality(T) = Cardinality(F) BY <3>3, <3>4
      <3>13. rollups[p][h] = Cardinality(S) BY <3>5, <3>10, <3>11, <3>12
      <3>14. QED BY <3>13 DEF S
    <2>2. Counted(p)' BY <2>1 DEF Counted
    <2>3. QED BY <1>2, <2>2 DEF CountOK
  <1>5. QED BY <1>3, <1>4 DEF CountOK

\* The rows a prune takes were counted, and stay so.
LEMMA CountRetires ==
  ASSUME Inv, SegInv, NEW p \in Projects, CountOK(p), resetFailed[p] => resetFailed'[p],
         revived[p] => revived'[p],
         NEW o \in Projects, PruneSwap(o) \/ \E e \in prune.todo : PruneDrop(o, e)
  PROVE  CountOK(p)'
  <1> USE DEF Else
  <1>1. \E e, old : Retires(o, e, old) BY RetireFacts
  <1>2. PICK e : \E old : Retires(o, e, old) BY <1>1
  <1>3. PICK old : Retires(o, e, old) BY <1>2
  <1>4. UNCHANGED <<mem, rollups, stage>> BY RetireFacts
  <1>5. uncounted' = uncounted BY DEF PruneSwap, PruneDrop
  <1>6. IsFiniteSet(old)
    <2>1. e \in manifest[o] /\ old \subseteq e.rows BY <1>3 DEF Retires
    <2>2. IsFiniteSet(e.rows) BY <2>1 DEF SegInv, ListOK, FiniteFiles
    <2>3. QED BY <2>1, <2>2, FS_Subset
  <1>7. IsFiniteSet(retired[p]) BY DEF CountOK
  <1>8. CASE o = p
    <2>1. /\ ManifestRows(p)' \subseteq ManifestRows(p)
          /\ ManifestRows(p) \subseteq ManifestRows(p)' \cup old
          /\ old \subseteq ManifestRows(p) /\ retired'[p] = retired[p] \cup old
      BY <1>3, <1>8, RetiredRows
    <2>2. ManifestRows(p)' \cup retired'[p] = ManifestRows(p) \cup retired[p] BY <2>1
    <2>3. IsFiniteSet(retired[p] \cup old) BY <1>6, <1>7, FS_Union
    <2>4. QED BY <1>4, <1>5, <2>1, <2>2, <2>3, CountSame
  <1>9. CASE o # p
    <2>1. ManifestRows(p)' = ManifestRows(p) /\ retired'[p] = retired[p] BY <1>3, <1>9, RetiredRows
    <2>2. QED BY <1>4, <1>5, <1>7, <2>1, CountSame
  <1>10. QED BY <1>8, <1>9

\* The loud steps keep CountOK.
LEMMA LoudCount ==
  ASSUME Inv, SegInv, DupInv, NEW p \in Projects, FreshOK(p), CountOK(p), Loud, [Next]_vars
  PROVE  CountOK(p)'
  <1> USE DEF Else
  <1>0. /\ IsFiniteSet(retired[p])
        /\ (resetFailed[p] => resetFailed'[p]) /\ (revived[p] => revived'[p])
    BY FlawsKept DEF CountOK
  <1>1. ASSUME ManifestRows(p)' = ManifestRows(p), retired' = retired, rollups'[p] = rollups[p],
               uncounted'[p] = uncounted[p], stage'[p] = "inserted" <=> stage[p] = "inserted",
               stage[p] = "inserted" => mem'[p] = mem[p]
        PROVE  CountOK(p)'
    BY <1>0, <1>1, CountSame
  <1>2. ASSUME NEW entries \in Submissions, WriteBatch(entries) PROVE CountOK(p)'
    <2>1. uncounted' = uncounted BY <1>2 DEF WriteBatch
    <2>2. QED BY <1>1, <1>2, <2>1, BatchFacts
  <1>3. ASSUME NEW k \in 1..BatchMax, ExtractFails(k) PROVE CountOK(p)'
    BY <1>1, <1>3, SameRows DEF ExtractFails
  <1>4. ASSUME NEW o \in Projects, WalAppend(o) PROVE CountOK(p)'
    <2>1. uncounted' = uncounted BY <1>4 DEF WalAppend
    <2>2. QED BY <1>1, <1>4, <2>1, AppendFacts
  <1>5. ASSUME NEW o \in Projects, WalSync(o) PROVE CountOK(p)'
    <2>1. stage[p] = "inserted" => o # p BY <1>5, SyncFacts
    <2>2. uncounted' = uncounted BY <1>5 DEF WalSync
    <2>3. QED BY <1>1, <1>5, <2>1, <2>2, SyncFacts
  <1>6. ASSUME NEW o \in Projects, WalWriteFails(o) PROVE CountOK(p)'
    <2>1. uncounted' = uncounted BY <1>6 DEF WalWriteFails
    <2>2. QED BY <1>1, <1>6, <2>1, WriteFailFacts
  <1>7. ASSUME NEW o \in Projects, InsertSegment(o) PROVE CountOK(p)'
    <2>1. CASE o = p BY <1>0, <1>7, <2>1, CountInsert
    <2>2. CASE o # p
      <3>1. uncounted' = uncounted BY <1>7 DEF InsertSegment
      <3>2. QED BY <1>1, <1>7, <2>2, <3>1, InsertFacts
    <2>3. QED BY <2>1, <2>2
  <1>8. ASSUME NEW o \in Projects, AddRollups(o) PROVE CountOK(p)'
    <2>1. /\ stage[o] = "inserted" /\ stage'[o] = "rolled"
          /\ \/ rollups'[o] = RolledUp(o) /\ uncounted'[o] = uncounted[o]
             \/ rollups'[o] = rollups[o] /\ uncounted'[o] = uncounted[o] \cup mem[o]
          /\ \A q \in Else(o) : stage'[q] = stage[q] /\ rollups'[q] = rollups[q] /\ uncounted'[q] = uncounted[q]
          /\ ManifestRows(p)' = ManifestRows(p) /\ UNCHANGED <<mem, retired>>
      BY <1>8, RollupFacts
    <2>2. CASE o # p BY <1>1, <2>1, <2>2
    <2>3. CASE o = p /\ rollups'[p] = RolledUp(p) /\ uncounted'[p] = uncounted[p]
      BY <1>0, <2>1, <2>3, CountAdds
    <2>4. CASE o = p /\ rollups'[p] = rollups[p] /\ uncounted'[p] = uncounted[p] \cup mem[p]
      BY <1>0, <2>1, <2>4, CountLost
    <2>5. QED BY <2>1, <2>2, <2>3, <2>4
  <1>9. ASSUME NEW o \in Projects, ResetWAL(o) \/ ResetWALFails(o) PROVE CountOK(p)'
    <2>1. stage[o] # "inserted" /\ stage'[o] # "inserted" BY <1>9, ResetFacts
    <2>2. uncounted' = uncounted BY <1>9 DEF ResetWAL, ResetWALFails
    <2>3. CASE o = p BY <1>1, <1>9, <2>1, <2>2, <2>3, ResetFacts
    <2>4. CASE o # p BY <1>1, <1>9, <2>2, <2>4, ResetFacts
    <2>5. QED BY <2>3, <2>4
  <1>10. ASSUME NEW o \in Projects, PruneSwap(o) \/ \E e \in prune.todo : PruneDrop(o, e)
         PROVE  CountOK(p)'
    BY <1>0, <1>10, CountRetires
  <1>11. ASSUME Crash \/ Close PROVE CountOK(p)'
    <2>1. /\ stage'[p] = "none" /\ ManifestRows(p)' = ManifestRows(p) /\ UNCHANGED <<rollups, retired>>
          /\ IF stage[p] = "inserted" THEN uncounted'[p] = uncounted[p] \cup mem[p]
                                      ELSE uncounted'[p] = uncounted[p]
      BY <1>11, StopFacts
    <2>2. CASE stage[p] = "inserted" BY <1>0, <2>1, <2>2, CountLost
    <2>3. CASE stage[p] # "inserted" BY <1>1, <2>1, <2>3
    <2>4. QED BY <2>2, <2>3
  <1>12. ASSUME Open PROVE CountOK(p)'
    <2>1. uncounted' = uncounted BY <1>12 DEF Open
    <2>2. stage[p] = "none" /\ stage'[p] = "none" BY <1>12, OpenFacts
    <2>3. QED BY <1>1, <1>12, <2>1, <2>2, OpenFacts
  <1>13. QED
    BY <1>2, <1>3, <1>4, <1>5, <1>6, <1>7, <1>8, <1>9, <1>10, <1>11, <1>12 DEF Loud

\* CountInv is inductive.
CountInv == \A p \in Projects : CountOK(p)
\* Nothing is counted at first.
LEMMA InitCount == ASSUME Init PROVE CountInv
  <1>1. ASSUME NEW p \in Projects PROVE CountOK(p)
    <2>1. /\ manifest[p] = {} /\ retired[p] = {} /\ uncounted[p] = {} /\ stage[p] = "none"
          /\ \A h \in Hours : rollups[p][h] = 0
      BY DEF Init, NoRows
    <2>2. \A h \in Hours : Flushed(p, h) = {} BY <2>1 DEF Flushed, ManifestRows
    <2>3. Counted(p) BY <2>1, <2>2, FS_EmptySet DEF Counted
    <2>4. QED BY <2>1, <2>3, FS_EmptySet DEF CountOK
  <1>2. QED BY <1>1 DEF CountInv
\* Every step keeps CountInv.
LEMMA NextCount ==
  ASSUME Inv, Inv', SegInv, DupInv, FreshInv, CountInv, [Next]_vars PROVE CountInv'
  <1>1. ASSUME NEW p \in Projects PROVE CountOK(p)'
    <2>1. CountOK(p) /\ FreshOK(p) BY DEF CountInv, FreshInv
    <2>2. CASE Loud BY <2>1, <2>2, LoudCount
    <2>3. CASE ~Loud
      <3>1. Quiet BY <2>3, QuietOrLoud
      <3>2. IsFiniteSet(retired[p]) BY <2>1 DEF CountOK
      <3>3. stage'[p] = "inserted" <=> stage[p] = "inserted" BY <3>1 DEF Quiet
      <3>4. ManifestRows(p)' = ManifestRows(p) /\ UNCHANGED <<mem, rollups, retired>> BY <3>1 DEF Quiet
      <3>5. uncounted' = uncounted BY <2>3, FlawsKept DEF Loud
      <3>6. (resetFailed[p] => resetFailed'[p]) /\ (revived[p] => revived'[p]) BY FlawsKept
      <3>7. QED BY <2>1, <3>2, <3>3, <3>4, <3>5, <3>6, CountSame
    <2>4. QED BY <2>2, <2>3
  <1>2. QED BY <1>1 DEF CountInv

(* The hourly counts are those of the rows flushed so far, each once, less  *)
(* exactly those whose AddRollups failed or was cut off (RollupsExact): no  *)
(* crash, retry, merge or prune makes another row count twice or not at     *)
(* all, whatever fails.                                                    *)
THEOREM CountsAreExact == Spec => []RollupsExact
  <1>1. Init => Inv /\ SegInv /\ RefInv /\ BatchInv /\ DupInv /\ FreshInv /\ CountInv
    BY InitInv, InitSegInv, InitRef, InitBatch, InitDup, InitFresh, InitCount
  <1>2. Inv /\ SegInv /\ RefInv /\ BatchInv /\ DupInv /\ FreshInv /\ CountInv /\ [Next]_vars
          => (Inv /\ SegInv /\ RefInv /\ BatchInv /\ DupInv /\ FreshInv /\ CountInv)'
    BY NextInv, NextSegInv, NextRef, NextBatch, NextDup, NextFresh, NextCount
  <1>3. CountInv => RollupsExact
    BY DEF CountInv, CountOK, Counted, RollupsExact, Flushing, Flushed
  <1>4. QED BY <1>1, <1>2, <1>3, PTL DEF Spec

-----------------------------------------------------------------------------
(* The ledger: where a batch never fails half way and every WAL is reset    *)
SureLog == CleanLog /\ "wal_sync" \notin Faults

(* What is not yet synced is the batch's at hand; what is in the WAL is in  *)
(* the memtable; what is in the memtable only, behind a torn record, is     *)
(* newer than what a start would serve.                                    *)
LineOK(p) ==
  /\ walBuf[p] \subseteq IF Syncing(p) THEN writer.batch[p] ELSE {}
  /\ phase = "up" =>
       /\ wal[p] \subseteq mem[p] /\ (torn[p] \/ mem[p] \subseteq wal[p])
       /\ ~Busy(p) => \A r \in mem[p] \ wal[p], q \in wal[p] \cup ManifestRows(p) : q.id < r.id

\* Where the rows stay, or some leave the manifest, LineOK holds on.
LEMMA LineSame ==
  ASSUME NEW p \in Projects, LineOK(p), wal'[p] = wal[p], walBuf'[p] = walBuf[p], mem'[p] = mem[p],
         torn'[p] = torn[p], phase' = phase, ManifestRows(p)' \subseteq ManifestRows(p),
         Busy(p)' <=> Busy(p), Syncing(p) => Syncing(p)' /\ writer'.batch[p] = writer.batch[p]
  PROVE  LineOK(p)'
  <1>1. walBuf'[p] \subseteq IF Syncing(p)' THEN writer'.batch[p] ELSE {}
    <2>1. CASE Syncing(p) BY <2>1 DEF LineOK
    <2>2. CASE ~Syncing(p) BY <2>2 DEF LineOK
    <2>3. QED BY <2>1, <2>2
  <1>2. QED BY <1>1 DEF LineOK

\* Only the sync itself, its failure and the end of the process end a sync.
LEMMA SyncStays ==
  ASSUME Inv, "wal_sync" \notin Faults, [Next]_vars, ~Loud, NEW p \in Projects, Syncing(p)
  PROVE  Syncing(p)'
  <1>1. writer.pc = "sync" /\ mu[p] = "writer" /\ stage[p] = "none"
    BY DEF Syncing, Inv, LockHeld, HolderAtWork
  <1>2. ASSUME writer' = writer, mu'[p] = mu[p] PROVE Syncing(p)' BY <1>1, <1>2 DEF Syncing
  <1>3. ASSUME writer' = writer, NEW o \in Projects \ {p}, NEW who,
               mu' = [mu EXCEPT ![o] = who] PROVE Syncing(p)'
    BY <1>2, <1>3 DEF Inv, TypeOK, ProcessTypes
  <1>4. CASE UNCHANGED vars BY <1>2, <1>4 DEF vars
  <1>5. CASE WriterNext
    BY <1>1, <1>5 DEF WriterNext, Loud, WalAppendFails, WalSyncFails, Inject, UpsertIssues,
                      UpsertIssuesFails, ThresholdFlush, BatchReturns
  <1>6. CASE FlushNext
    <2>1. PICK o \in Projects : TickerFlush(o) \/ SegmentFails(o) BY <1>6 DEF FlushNext, Loud
    <2>2. o # p BY <1>1, <2>1 DEF TickerFlush, WriteSegment, SegmentFails
    <2>3. QED BY <1>3, <2>1, <2>2 DEF TickerFlush, WriteSegment, SegmentFails, EndFlush
  <1>7. CASE PruneNext
    <2>1. PICK o \in Projects :
            \/ \E c \in Cutoffs : PruneStart(o, c)
            \/ PruneLock(o) \/ \E e \in prune.todo : PruneRewrite(o, e)
            \/ PruneFails(o) \/ PruneRemove(o) \/ PruneUnlock(o) \/ PruneEvents(o)
      BY <1>7 DEF PruneNext, Loud
    <2>2. CASE \E c \in Cutoffs : PruneStart(o, c)
      <3>1. writer' = writer /\ mu[o] = "free" /\ (mu' = mu \/ mu' = [mu EXCEPT ![o] = "pruner"])
        BY <2>2 DEF PruneStart, WriteSegment
      <3>2. QED BY <1>1, <1>2, <1>3, <3>1
    <2>3. CASE PruneLock(o) BY <1>1, <1>3, <2>3 DEF PruneLock
    <2>4. CASE \E e \in prune.todo : PruneRewrite(o, e) BY <1>2, <2>4 DEF PruneRewrite
    <2>5. CASE PruneFails(o) \/ PruneRemove(o) \/ PruneUnlock(o)
      <3>1. prune.stage \in {"scan", "swap", "remove"} /\ prune.proj = o
            /\ writer' = writer /\ (mu' = mu \/ mu' = [mu EXCEPT ![o] = "free"])
        BY <2>5 DEF PruneFails, PruneRemove, PruneUnlock
      <3>2. mu[o] = "pruner" BY <3>1, Pinned
      <3>3. QED BY <1>1, <1>2, <1>3, <3>1, <3>2
    <2>6. CASE PruneEvents(o) BY <1>2, <2>6 DEF PruneEvents
    <2>7. QED BY <2>1, <2>2, <2>3, <2>4, <2>5, <2>6
  <1>8. CASE CompactNext
    <2>1. writer' = writer
      BY <1>8 DEF CompactNext, CompactPlan, CompactBuild, CompactBuildFails, CompactSwap, CompactAborts,
                  CompactRemove
    <2>2. mu' = mu \/ \E b \in compact.plan : \/ mu[b.proj] = "free" /\ mu' = [mu EXCEPT ![b.proj] = "compactor"]
                                              \/ compact.stage = "remove" /\ b = compact.cur
                                                 /\ mu' = [mu EXCEPT ![b.proj] = "free"]
      BY <1>8 DEF CompactNext, CompactPlan, CompactBuild, CompactBuildFails, CompactSwap, CompactAborts,
                  CompactRemove
    <2>3. CASE mu' = mu BY <1>2, <2>1, <2>3
    <2>4. ASSUME NEW b \in compact.plan,
                 \/ mu[b.proj] = "free" /\ mu' = [mu EXCEPT ![b.proj] = "compactor"]
                 \/ compact.stage = "remove" /\ b = compact.cur /\ mu' = [mu EXCEPT ![b.proj] = "free"]
          PROVE  Syncing(p)'
      <3>1. b.proj \in Projects BY DEF Inv, TypeOK, CompactTypes, Bucket
      <3>2. b.proj # p BY <1>1, <2>4, Pinned
      <3>3. QED BY <1>3, <2>1, <2>4, <3>1, <3>2
    <2>5. QED BY <2>2, <2>3, <2>4
  <1>9. CASE Crash \/ Close \/ Open BY <1>9 DEF Loud
  <1>10. QED BY <1>4, <1>5, <1>6, <1>7, <1>8, <1>9 DEF Next

\* The loud steps keep LineOK.
LEMMA LoudLine ==
  ASSUME Inv, SegInv, BatchInv, DupInv, SureLog, NEW p \in Projects, \A o \in Projects : LogOK(o),
         LineOK(p), Loud
  PROVE  LineOK(p)'
  <1> USE DEF Else
  <1>0. CleanLog BY DEF SureLog
  <1>1. ASSUME wal'[p] = wal[p], walBuf'[p] = walBuf[p], mem'[p] = mem[p], torn'[p] = torn[p],
               phase' = phase, ManifestRows(p)' \subseteq ManifestRows(p), stage'[p] = stage[p],
               ~Syncing(p) \/ (UNCHANGED <<writer, mu>>)
        PROVE  LineOK(p)'
    <2>1. Busy(p)' <=> Busy(p) BY <1>1 DEF Busy
    <2>2. Syncing(p) => Syncing(p)' /\ writer'.batch[p] = writer.batch[p] BY <1>1 DEF Syncing
    <2>3. QED BY <1>1, <2>1, <2>2, LineSame
  <1>2. ASSUME NEW entries \in Submissions, WriteBatch(entries) PROVE LineOK(p)'
    <2>1. ~Syncing(p) BY <1>2, BatchFacts DEF Syncing
    <2>2. QED BY <1>1, <1>2, <2>1, BatchFacts
  <1>3. ASSUME NEW k \in 1..BatchMax, ExtractFails(k) PROVE LineOK(p)'
    BY <1>1, <1>3, SameRows DEF ExtractFails
  <1>4. ASSUME NEW o \in Projects, WalAppend(o) PROVE LineOK(p)'
    <2>1. ~Syncing(p) /\ walBuf[p] = {} BY <1>4, AppendFacts DEF Syncing, LineOK
    <2>2. CASE o # p BY <1>1, <1>4, <2>1, <2>2, AppendFacts
    <2>3. CASE o = p
      <3>1. walBuf'[p] = writer'.batch[p] /\ Syncing(p)' BY <1>4, <2>1, <2>3, AppendFacts DEF Syncing
      <3>2. ManifestRows(p)' = ManifestRows(p) /\ UNCHANGED <<wal, mem, torn, phase, stage>>
        BY <1>4, AppendFacts
      <3>3. Busy(p)' <=> Busy(p) BY <3>2 DEF Busy
      <3>4. QED BY <3>1, <3>2, <3>3 DEF LineOK
    <2>4. QED BY <2>2, <2>3
  <1>5. ASSUME NEW o \in Projects, WalSync(o) PROVE LineOK(p)'
    <2>1. CASE o # p BY <1>1, <1>5, <2>1, SyncFacts
    <2>2. CASE o = p
      <3>1. /\ Syncing(p) /\ stage[p] = "none" /\ walBuf'[p] = {} /\ mem'[p] = mem[p] \cup writer.batch[p]
            /\ wal'[p] = IF torn[p] THEN wal[p] ELSE wal[p] \cup walBuf[p]
            /\ ManifestRows(p)' = ManifestRows(p) /\ UNCHANGED <<torn, phase, stage>>
        BY <1>5, <2>2, SyncFacts
      <3>2. /\ writer.batch[p] \subseteq walBuf[p]
            /\ \A r \in writer.batch[p], q \in mem[p] \cup ManifestRows(p) : q.id < r.id
        BY <3>1 DEF BatchInv
      <3>3. walBuf[p] \subseteq writer.batch[p] BY <3>1 DEF LineOK
      <3>4. ~Busy(p) BY <3>1 DEF Busy
      <3>5. ASSUME phase = "up"
            PROVE  /\ wal'[p] \subseteq mem'[p] /\ (torn[p] \/ mem'[p] \subseteq wal'[p])
                   /\ \A r \in mem'[p] \ wal'[p], q \in wal'[p] \cup ManifestRows(p) : q.id < r.id
        <4>1. wal[p] \subseteq mem[p] /\ (torn[p] \/ mem[p] \subseteq wal[p])
              /\ \A r \in mem[p] \ wal[p], q \in wal[p] \cup ManifestRows(p) : q.id < r.id
          BY <3>4, <3>5 DEF LineOK
        <4>2. CASE torn[p] BY <3>1, <3>2, <4>1, <4>2
        <4>3. CASE ~torn[p] BY <3>1, <3>2, <3>3, <4>1, <4>3
        <4>4. QED BY <4>2, <4>3
      <3>6. QED BY <3>1, <3>5 DEF LineOK
    <2>3. QED BY <2>1, <2>2
  <1>6. ASSUME NEW o \in Projects, InsertSegment(o) PROVE LineOK(p)'
    <2>1. CASE o # p BY <1>1, <1>6, <2>1, InsertFacts
    <2>2. CASE o = p
      <3>1. stage[p] = "written" /\ UNCHANGED <<wal, torn, walBuf, mem, phase, writer, mu>> /\ Busy(p)'
        BY <1>6, <2>2, InsertFacts DEF Busy
      <3>2. Syncing(p)' <=> Syncing(p) BY <3>1 DEF Syncing
      <3>3. QED BY <3>1, <3>2 DEF LineOK
    <2>3. QED BY <2>1, <2>2
  <1>7. ASSUME NEW o \in Projects, AddRollups(o) PROVE LineOK(p)'
    <2>1. UNCHANGED <<wal, torn, walBuf, mem, phase, writer, mu>> /\ ManifestRows(p)' = ManifestRows(p)
      BY <1>7, RollupFacts
    <2>2. (Busy(p)' <=> Busy(p)) /\ (Syncing(p)' <=> Syncing(p))
      BY <1>7, <2>1, RollupFacts DEF Busy, Syncing
    <2>3. QED BY <2>1, <2>2, LineSame
  <1>8. ASSUME NEW o \in Projects, ResetWAL(o) PROVE LineOK(p)'
    <2>1. CASE o = p
      <3>1. wal'[p] = {} /\ walBuf'[p] = {} /\ mem'[p] = {} BY <1>8, <2>1, ResetFacts
      <3>2. QED BY <3>1 DEF LineOK
    <2>2. CASE o # p
      <3>1. /\ wal'[p] = wal[p] /\ walBuf'[p] = walBuf[p] /\ mem'[p] = mem[p] /\ torn'[p] = torn[p]
            /\ stage'[p] = stage[p] /\ phase' = phase /\ ManifestRows(p)' = ManifestRows(p)
            /\ (Syncing(p)' <=> Syncing(p)) /\ writer' = writer
        BY <1>8, <2>2, ResetFacts
      <3>2. Busy(p)' <=> Busy(p) BY <3>1 DEF Busy
      <3>3. QED BY <3>1, <3>2, LineSame
    <2>3. QED BY <2>1, <2>2
  <1>9. ASSUME NEW o \in Projects, PruneSwap(o) \/ \E e \in prune.todo : PruneDrop(o, e)
        PROVE  LineOK(p)'
    <2>1. \E e, old : Retires(o, e, old) BY <1>9, RetireFacts
    <2>2. ManifestRows(p)' \subseteq ManifestRows(p) BY <2>1, RetiredRows
    <2>3. UNCHANGED <<wal, torn, walBuf, mem, phase, writer, mu, stage>> BY <1>9, RetireFacts
    <2>4. QED BY <1>1, <2>2, <2>3
  <1>10. ASSUME Crash \/ Close PROVE LineOK(p)' BY <1>10, StopFacts DEF LineOK
  <1>11. ASSUME Open PROVE LineOK(p)'
    <2>1. /\ UNCHANGED <<wal, walBuf, manifest, stage>> /\ walBuf[p] = {} /\ ~Busy(p)
          /\ mem'[p] = {r \in wal[p] : \A q \in ManifestRows(p) : ~(r.id <= q.id)}
      BY <1>11, OpenFacts DEF Busy
    <2>2. \A r \in wal[p], q \in ManifestRows(p) : q.id < r.id BY <2>1 DEF LogOK
    <2>3. \A r \in wal[p], q \in ManifestRows(p) : ~(r.id <= q.id)
      <3>1. \A r \in wal[p] : r.id \in Nat BY RowTypes DEF Rows
      <3>2. \A q \in ManifestRows(p) : q.id \in Nat BY RowTypes DEF Rows
      <3>3. QED BY <2>2, <3>1, <3>2
    <2>4. mem'[p] = wal'[p] /\ walBuf'[p] = {} BY <2>1, <2>3
    <2>5. QED BY <2>4 DEF LineOK
  <1>12. \A o \in Projects : ~WalWriteFails(o) /\ ~ResetWALFails(o) BY <1>0, CleanFails DEF LogOK
  <1>13. QED
    BY <1>2, <1>3, <1>4, <1>5, <1>6, <1>7, <1>8, <1>9, <1>10, <1>11, <1>12 DEF Loud

\* LineInv is inductive.
LineInv == SureLog => \A p \in Projects : LineOK(p)
\* No row is anywhere at first.
LEMMA InitLine == ASSUME Init PROVE LineInv
  BY DEF Init, NoRows, LineInv, LineOK
\* Every step keeps LineInv.
LEMMA NextLine ==
  ASSUME Inv, Inv', SegInv, BatchInv, BatchInv', DupInv, LogInv, LineInv, [Next]_vars PROVE LineInv'
  <1>1. ASSUME SureLog, NEW p \in Projects PROVE LineOK(p)'
    <2>1. LineOK(p) /\ \A o \in Projects : LogOK(o) BY <1>1 DEF LineInv, LogInv, SureLog
    <2>2. CASE ~Loud
      <3>1. Quiet BY <2>2, QuietOrLoud
      <3>2. ASSUME Syncing(p) PROVE Syncing(p)' /\ writer'.batch[p] = writer.batch[p]
        <4>1. Syncing(p)' BY <1>1, <2>2, <3>2, SyncStays DEF SureLog
        <4>2. Pending(p)' BY <4>1 DEF BatchInv
        <4>3. QED BY <3>1, <4>1, <4>2 DEF Quiet
      <3>3. Busy(p)' <=> Busy(p) BY <3>1 DEF Quiet, Busy
      <3>4. /\ wal'[p] = wal[p] /\ walBuf'[p] = walBuf[p] /\ mem'[p] = mem[p] /\ torn'[p] = torn[p]
            /\ phase' = phase /\ ManifestRows(p)' = ManifestRows(p)
        BY <3>1 DEF Quiet
      <3>5. QED BY <2>1, <3>2, <3>3, <3>4, LineSame
    <2>3. QED BY <1>1, <2>1, <2>2, LoudLine
  <1>2. QED BY <1>1 DEF LineInv, SureLog, CleanLog
\* What a start would serve is then what is listed or in the WAL.
ServedIs == \A p \in Projects : Readable(p) = ManifestRows(p) \cup wal[p]
\* Every covered WAL row is listed itself.
LEMMA ServedThen ==
  ASSUME Inv, SegInv, DupInv, LogInv, LineInv, SureLog PROVE ServedIs
  <1>1. ASSUME NEW p \in Projects PROVE Readable(p) = ManifestRows(p) \cup wal[p]
    <2>1. Readable(p) = ManifestRows(p) \cup {r \in wal[p] : \A q \in ManifestRows(p) : ~(r.id <= q.id)}
      BY Served DEF SegInv
    <2>2. LogOK(p) /\ LineOK(p) BY DEF LogInv, LineInv, SureLog
    <2>3. CASE Busy(p)
      <3>1. phase = "up" BY <2>3, FlushAlone DEF Busy
      <3>2. wal[p] \subseteq mem[p] BY <2>2, <3>1 DEF LineOK
      <3>3. mem[p] \subseteq ManifestRows(p) BY <2>3 DEF DupInv
      <3>4. QED BY <2>1, <3>2, <3>3
    <2>4. CASE ~Busy(p)
      <3>1. \A r \in wal[p], q \in ManifestRows(p) : q.id < r.id BY <2>2, <2>4 DEF LogOK
      <3>2. \A r \in wal[p] : r.id \in Nat BY RowTypes DEF Rows
      <3>3. \A q \in ManifestRows(p) : q.id \in Nat BY RowTypes DEF Rows
      <3>4. \A r \in wal[p], q \in ManifestRows(p) : ~(r.id <= q.id) BY <3>1, <3>2, <3>3
      <3>5. QED BY <2>1, <3>4
    <2>5. QED BY <2>3, <2>4
  <1>2. QED BY <1>1 DEF ServedIs

\* A step accepts rows: the served stay, the new ones are newer and not retired.
LEMMA Accepts ==
  ASSUME ServedIs, ServedIs', retired' = retired,
         \A p \in Projects :
           /\ ManifestRows(p) \cup wal[p] \subseteq ManifestRows(p)' \cup wal'[p]
           /\ \A r \in ManifestRows(p)' \cup wal'[p] : r \in ManifestRows(p) \cup wal[p] \/
                (r \notin retired[p] /\ \A q \in ManifestRows(p) \cup wal[p] : q.id < r.id)
  PROVE  Promised!Commit
  <1>1. \A p \in Projects : /\ Readable(p) = ManifestRows(p) \cup wal[p]
                            /\ Readable(p)' = ManifestRows(p)' \cup wal'[p]
    BY DEF ServedIs
  <1>2. \A p \in Projects :
          /\ Readable(p) \subseteq Readable(p)'
          /\ \A r \in Readable(p)' \ Readable(p) : r \notin retired[p] /\ \A q \in Readable(p) : q.id < r.id
    BY <1>1
  <1>3. QED BY <1>2 DEF Promised!Commit

\* A row the batch is about to sync may be accepted.
LEMMA BatchFresh ==
  ASSUME Inv, BatchInv, NEW p \in Projects, LogOK(p), LineOK(p), phase = "up", NEW r \in walBuf[p]
  PROVE  r \notin retired[p] /\ \A q \in ManifestRows(p) \cup wal[p] : q.id < r.id
  <1>1. Syncing(p) /\ r \in writer.batch[p]
    <2>1. CASE Syncing(p) BY <2>1 DEF LineOK
    <2>2. CASE ~Syncing(p) BY <2>2 DEF LineOK
    <2>3. QED BY <2>1, <2>2
  <1>2. Pending(p) BY <1>1 DEF BatchInv
  <1>3. \A q \in mem[p] \cup ManifestRows(p) : q.id < r.id BY <1>1, <1>2 DEF BatchInv
  <1>4. wal[p] \subseteq mem[p] BY DEF LineOK
  <1>5. QED BY <1>1, <1>2, <1>3, <1>4 DEF LogOK

\* A prune takes old rows, and books them.
LEMMA TakesOld ==
  ASSUME Inv, SegInv, BatchInv, DupInv, ServedIs, ServedIs', NEW p \in Projects, LogOK(p),
         PruneSwap(p) \/ \E e \in prune.todo : PruneDrop(p, e)
  PROVE  Promised!Retire(p)
  <1> USE DEF Else
  <1>1. \E e, old : Retires(p, e, old) BY RetireFacts
  <1>2. PICK e : \E old : Retires(p, e, old) BY <1>1
  <1>3. PICK old : Retires(p, e, old) BY <1>2
  <1>4. UNCHANGED <<wal, mem, walBuf>> /\ stage[p] = "none" BY RetireFacts
  <1>5. /\ ManifestRows(p)' \subseteq ManifestRows(p)
        /\ ManifestRows(p) \subseteq ManifestRows(p)' \cup old
        /\ old \subseteq ManifestRows(p) /\ retired'[p] = retired[p] \cup old
        /\ \A q \in Else(p) : ManifestRows(q)' = ManifestRows(q) /\ retired'[q] = retired[q]
    BY <1>3, RetiredRows
  <1>6. ~Busy(p) BY <1>4 DEF Busy
  <1>7. SegDisjoint(p) BY <1>6 DEF LogOK, DupInv, DuplicateFree, SegDisjoint
  <1>8. ManifestRows(p)' \cap old = {} BY <1>3, <1>7, RetireDisjoint
  <1>9. wal[p] \cap old = {}
    <2>1. \A r \in wal[p], q \in ManifestRows(p) : q.id < r.id BY <1>6 DEF LogOK
    <2>2. \A q \in ManifestRows(p) : ~(q.id < q.id) BY RowTypes DEF Row
    <2>3. QED BY <1>5, <2>1, <2>2
  <1>10. \A q \in Projects : /\ Readable(q) = ManifestRows(q) \cup wal[q]
                             /\ Readable(q)' = ManifestRows(q)' \cup wal'[q]
    BY DEF ServedIs
  <1>11. /\ Readable(p)' \subseteq Readable(p) /\ Readable(p) \ Readable(p)' = old
         /\ \A q \in Projects \ {p} : Readable(q)' = Readable(q) /\ retired'[q] = retired[q]
    BY <1>4, <1>5, <1>8, <1>9, <1>10
  <1>12. /\ prune.proj = p /\ prune'.proj = p /\ prune'.cutoff = prune.cutoff
         /\ \A r \in old : r.ts < prune.cutoff
    BY <1>3 DEF Retires
  <1>13. QED BY <1>5, <1>11, <1>12 DEF Promised!Retire

\* Every step is one of the ledger's.
LEMMA LedgerStep ==
  ASSUME Inv, Inv', SegInv, BatchInv, DupInv, SureLog, LogInv, LineInv, ServedIs, ServedIs', [Next]_vars
  PROVE  Promised!Next
  <1> USE DEF Else
  <1>0. CleanLog /\ \A p \in Projects : LogOK(p) /\ LineOK(p) BY DEF LogInv, LineInv, SureLog
  <1>1. SUFFICES ASSUME \A p \in Projects : ~(PruneSwap(p) \/ \E e \in prune.todo : PruneDrop(p, e))
                 PROVE  Promised!Commit
    BY <1>0, TakesOld DEF Promised!Next
  <1>2. ASSUME retired' = retired, \A p \in Projects : ManifestRows(p)' = ManifestRows(p),
               \A p \in Projects : wal'[p] = wal[p] \/
                 (phase = "up" /\ wal[p] \subseteq wal'[p] /\ wal'[p] \subseteq wal[p] \cup walBuf[p])
        PROVE  Promised!Commit
    <2>1. ASSUME NEW p \in Projects, NEW r \in wal'[p], r \notin wal[p]
          PROVE  r \notin retired[p] /\ \A q \in ManifestRows(p) \cup wal[p] : q.id < r.id
      BY <1>0, <1>2, <2>1, BatchFresh
    <2>2. QED BY <1>2, <2>1, Accepts
  <1>3. CASE Quiet BY <1>2, <1>3 DEF Quiet
  <1>4. ASSUME NEW entries \in Submissions, WriteBatch(entries) PROVE Promised!Commit
    BY <1>2, <1>4, BatchFacts
  <1>5. ASSUME NEW k \in 1..BatchMax, ExtractFails(k) PROVE Promised!Commit
    BY <1>2, <1>5, SameRows DEF ExtractFails
  <1>6. ASSUME NEW o \in Projects, WalAppend(o) PROVE Promised!Commit BY <1>2, <1>6, AppendFacts
  <1>7. ASSUME NEW o \in Projects, WalSync(o) PROVE Promised!Commit
    <2>1. phase = "up"
      <3>1. writer.pc = "sync" BY <1>7, SyncFacts
      <3>2. QED BY <3>1 DEF SegInv, DownOK, IdleWriter, Inv, TypeOK, ProcessTypes
    <2>2. QED BY <1>2, <1>7, <2>1, SyncFacts
  <1>8. ASSUME NEW o \in Projects, InsertSegment(o) PROVE Promised!Commit
    <2>1. /\ ManifestRows(o)' = ManifestRows(o) \cup mem[o] /\ stage[o] = "written" /\ phase = "up"
          /\ \A q \in Else(o) : ManifestRows(q)' = ManifestRows(q)
          /\ UNCHANGED <<wal, retired>>
      BY <1>8, InsertFacts
    <2>2. ~Busy(o) BY <2>1 DEF Busy
    <2>3. \A r \in mem[o] : r \in wal[o] \/
            (r \notin retired[o] /\ \A q \in ManifestRows(o) \cup wal[o] : q.id < r.id)
      BY <1>0, <2>1, <2>2 DEF LogOK, LineOK
    <2>4. QED BY <2>1, <2>3, Accepts
  <1>9. ASSUME NEW o \in Projects, AddRollups(o) PROVE Promised!Commit BY <1>2, <1>9, RollupFacts
  <1>10. ASSUME NEW o \in Projects, ResetWAL(o) PROVE Promised!Commit
    <2>1. /\ stage[o] = "rolled" /\ wal'[o] = {} /\ \A q \in Else(o) : wal'[q] = wal[q]
          /\ \A q \in Projects : ManifestRows(q)' = ManifestRows(q)
          /\ retired' = retired
      BY <1>10, ResetFacts
    <2>2. Busy(o) BY <2>1 DEF Busy
    <2>3. phase = "up" BY <2>1, FlushAlone
    <2>4. wal[o] \subseteq ManifestRows(o) BY <1>0, <2>2, <2>3 DEF LineOK, DupInv
    <2>5. QED BY <2>1, <2>4, Accepts
  <1>11. ASSUME Crash \/ Close PROVE Promised!Commit BY <1>2, <1>11, StopFacts
  <1>12. ASSUME Open PROVE Promised!Commit BY <1>2, <1>12, OpenFacts
  <1>13. \A o \in Projects : ~WalWriteFails(o) /\ ~ResetWALFails(o) BY <1>0, CleanFails DEF LogOK
  <1>14. QED
    BY <1>1, <1>3, <1>4, <1>5, <1>6, <1>7, <1>8, <1>9, <1>10, <1>11, <1>12, <1>13, QuietOrLoud DEF Loud

(* The store keeps the ledger (Ledger) where a sync does not fail after the *)
(* append and every WAL is written and reset: no crash, torn record, retry, *)
(* flush or merge takes a row that was once served, or serves one out of    *)
(* order; only a prune takes rows, none younger than its cutoff, and none   *)
(* of them comes back.                                                      *)
THEOREM LedgerIsKept == ASSUME SureLog PROVE Spec => Ledger
  <1> DEFINE All == Inv /\ SegInv /\ RefInv /\ BatchInv /\ DupInv /\ LogInv /\ LineInv
  <1>1. Init => All
    BY InitInv, InitSegInv, InitRef, InitBatch, InitDup, InitLog, InitLine
  <1>2. All /\ [Next]_vars => All'
    BY NextInv, NextSegInv, NextRef, NextBatch, NextDup, NextLog, NextLine
  <1>3. All => ServedIs BY ServedThen
  <1>4. Init => Promised!Init
    <2>1. ASSUME Init PROVE Promised!Init
      <3>1. \A p \in Projects : /\ wal[p] = {} /\ manifest[p] = {} BY <2>1 DEF Init, NoRows
      <3>2. \A p \in Projects : Readable(p) = {}
        BY <3>1 DEF Readable, Kept, FileRows, SegmentPaths
      <3>3. retired = [p \in Projects |-> {}] /\ prune.cutoff = 0 BY <2>1 DEF Init, NoRows, IdlePrune
      <3>4. QED BY <3>2, <3>3 DEF Promised!Init
    <2>2. QED BY <2>1
  <1>5. All /\ All' /\ ServedIs /\ ServedIs' /\ [Next]_vars => Promised!Next BY LedgerStep
  <1> HIDE DEF All
  <1>6. QED BY <1>1, <1>2, <1>3, <1>4, <1>5, PTL DEF Spec, Ledger, Promised!Spec

=============================================================================
