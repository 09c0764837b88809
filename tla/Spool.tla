------------------------------- MODULE Spool --------------------------------
(***************************************************************************)
(* The shipper's disk spool: records are appended as lines to numbered     *)
(* segment files, read in order from the ack checkpoint, and the oldest    *)
(* segment is evicted when the total passes the cap.  A file is the        *)
(* sequence of what was written to it: a record takes one unit and its     *)
(* newline another, so offsets count units and a line without NL is torn.  *)
(* Records are numbered in the order they are appended.                    *)
(*                                                                         *)
(* Every operation runs under s.mu.  One that goes on after it has changed *)
(* files holds it over several steps (hold), and a crash may fall between. *)
(***************************************************************************)
EXTENDS Integers, FiniteSets, SequencesExt

CONSTANTS MaxRecs,     \* bound: records offered to Append
          RollBytes,   \* size at which a segment rolls
          MaxBytes,    \* cap of the spool
          Faults,      \* "kill" the process dies; "power" with it, file tails are lost;
                       \* "roll" the next file is not created; "short" a partial write
          MaxFaults,   \* bound
          NL, Garbage

ASSUME SpoolAssumption ==
  /\ MaxRecs \in Nat /\ RollBytes \in Nat \ {0} /\ MaxBytes \in Nat /\ MaxFaults \in Nat
  /\ Faults \subseteq {"kill", "power", "roll", "short"}
  /\ NL \notin Nat /\ Garbage \notin Nat

VARIABLES up,        \* the process runs
          files,     \* disk: sequence number -> content
          cp,        \* disk: checkpoint.json
          segs,      \* live segments: sequence number -> size it is thought to have
          acked,     \* the ack position: the checkpoint once persisted
          dropped,   \* records evicted unacked
          curOpen,   \* the segment being written has an open file
          hold,      \* what the operation that holds s.mu does next, "none" if none does
          born,      \* records offered so far
          kept,      \* history: records written
          refused,   \* those Append failed on (the caller counts them)
          evicted,   \* those the cap took, unacked
          cut,       \* those a power loss took
          forgot,    \* a crash fell between an eviction and its checkpoint
          faults     \* faults that happened

spoolMem == <<segs, acked, dropped, curOpen, hold>>
spoolHist == <<born, kept, refused, evicted, cut, forgot, faults>>
spoolVars == <<up, files, cp, spoolMem, spoolHist>>

Unit == 1..MaxRecs \cup {NL}
Cursor == [seq : Nat, off : Nat]

Fault(f) == f \in Faults /\ faults < MaxFaults /\ faults' = faults + 1

Seqs == DOMAIN segs
LastSeq == Max(Seqs)
Total(ss) == MapThenSumSet(LAMBDA s : ss[s], DOMAIN ss)

-----------------------------------------------------------------------------
(* Reading lines *)

\* Offsets just past the complete lines of content f that start at from or after.
LineEnds(f, from) == {i \in from + 1 .. Len(f) : f[i] = NL}

\* lastGoodEnd.
GoodEnd(f, from) == Max(LineEnds(f, from) \cup {from})

\* The line up to end.  One unit is the record; a torn write and the next one
\* make garbage.
LineAt(f, from, end) ==
  IF end - 2 \in LineEnds(f, from) \cup {from} /\ f[end - 1] # NL THEN f[end - 1] ELSE Garbage

\* Mutant: the whole segment is counted.
CountAll(f, from) == Cardinality(LineEnds(f, 0))

\* countRecordsFrom.
CountFrom(f, from) == Cardinality(LineEnds(f, from))

\* normalizeCheckpointLocked: past a drained segment, onto the next one.
Normalize(ss, pos) ==
  LET live == DOMAIN ss
      ahead == {j \in live : j > pos.seq /\ (ss[j] > 0 \/ j = Max(live))}
  IN IF pos.seq \notin live THEN [seq |-> Min(live), off |-> 0]
     ELSE IF ahead = {} \/ pos.off < ss[pos.seq] THEN pos
     ELSE [seq |-> Min(ahead), off |-> 0]

\* Where reading segment s starts for one who is at pos.
From(s, pos) == IF s = pos.seq THEN pos.off ELSE 0

\* The positions just past the complete lines from pos on.
Ends(pos) ==
  UNION {{[seq |-> s, off |-> i] : i \in LineEnds(files[s], From(s, pos))} :
         s \in {t \in Seqs : t >= pos.seq}}

\* Mutant: the newest segment first.
NewestFirst(a, b) == a.seq > b.seq \/ (a.seq = b.seq /\ a.off < b.off)

Before(a, b) == a.seq < b.seq \/ (a.seq = b.seq /\ a.off < b.off)

\* S as a sequence, each after those below it.
Ordered(S, below) == [k \in 1..Cardinality(S) |-> CHOOSE e \in S : Cardinality(below[e]) = k - 1]

\* In the order they are read.
Unread(pos) == Ordered(Ends(pos), [e \in Ends(pos) |-> {d \in Ends(pos) : Before(d, e)}])

-----------------------------------------------------------------------------
(* Append *)

NeedsRoll == segs[LastSeq] > 0 /\ segs[LastSeq] + 2 > RollBytes

\* rollLocked.
AppendRolls ==
  /\ up /\ hold = "none" /\ curOpen /\ born < MaxRecs /\ NeedsRoll
  /\ segs' = [s \in Seqs \cup {LastSeq + 1} |-> IF s = LastSeq + 1 THEN 0 ELSE segs[s]]
  /\ files' = [s \in DOMAIN files \cup {LastSeq + 1} |-> IF s = LastSeq + 1 THEN <<>> ELSE files[s]]
  /\ hold' = "append"
  /\ UNCHANGED <<up, cp, acked, dropped, curOpen, spoolHist>>

OverCap(ss) == Total(ss) > MaxBytes /\ Cardinality(DOMAIN ss) > 1

AppendWrites ==
  /\ up /\ born < MaxRecs
  /\ hold = "append" \/ (hold = "none" /\ curOpen /\ ~NeedsRoll)
  /\ files' = [files EXCEPT ![LastSeq] = @ \o <<born + 1, NL>>]
  /\ segs' = [segs EXCEPT ![LastSeq] = @ + 2]
  /\ hold' = IF OverCap(segs') THEN "evict" ELSE "none"
  /\ born' = born + 1 /\ kept' = kept \cup {born + 1}
  /\ UNCHANGED <<up, cp, acked, dropped, curOpen, refused, evicted, cut, forgot, faults>>

Refuse == born' = born + 1 /\ refused' = refused \cup {born + 1}

\* The write fails, part of the line may be out: the size is not advanced.
AppendShort ==
  /\ up /\ born < MaxRecs
  /\ hold = "append" \/ (hold = "none" /\ curOpen /\ ~NeedsRoll)
  /\ Fault("short") /\ Refuse
  /\ \E part \in {<<>>, <<born + 1>>} :
       files' = [files EXCEPT ![LastSeq] = @ \o part]
  /\ hold' = "none"
  /\ UNCHANGED <<up, cp, segs, acked, dropped, curOpen, kept, evicted, cut, forgot>>

\* The old file is closed and the new one not created ...
RollFails ==
  /\ up /\ hold = "none" /\ curOpen /\ born < MaxRecs /\ NeedsRoll
  /\ Fault("roll") /\ Refuse
  /\ curOpen' = FALSE
  /\ UNCHANGED <<up, files, cp, segs, acked, dropped, hold, kept, evicted, cut, forgot>>

\* ... and every later Append fails on the closed file.
AppendClosed ==
  /\ up /\ hold = "none" /\ ~curOpen /\ born < MaxRecs
  /\ Refuse
  /\ UNCHANGED <<up, files, cp, spoolMem, kept, evicted, cut, forgot, faults>>

\* The ack position never stays in a segment that is gone.
Snap(victim, rest, pos) ==
  IF pos.seq <= victim THEN [seq |-> Min(DOMAIN rest), off |-> 0] ELSE pos

\* enforceCapLocked, one segment.
Evict ==
  LET victim == Min(Seqs)
      f == files[victim]
      from == From(victim, acked)
      lost == victim >= acked.seq
  IN
  /\ up /\ hold = "evict"
  /\ dropped' = IF lost THEN dropped + CountFrom(f, from) ELSE dropped
  /\ evicted' = IF lost THEN evicted \cup {f[i - 1] : i \in {k \in from + 2 .. Len(f) : f[k] = NL}}
                        ELSE evicted
  /\ segs' = Restrict(segs, Seqs \ {victim}) /\ files' = Restrict(files, DOMAIN files \ {victim})
  /\ acked' = Snap(victim, segs', acked)
  /\ hold' = IF OverCap(segs') THEN "evict" ELSE "persist"
  /\ UNCHANGED <<up, cp, curOpen, born, kept, refused, cut, forgot, faults>>

Checkpoint == [seq |-> acked.seq, off |-> acked.off, dropped |-> dropped]

\* persistCheckpointLocked: renamed into place, so old or new.
Persist ==
  /\ up /\ hold = "persist"
  /\ cp' = Checkpoint /\ hold' = "none"
  /\ UNCHANGED <<up, files, segs, acked, dropped, curOpen, spoolHist>>

\* The timer's, whenever a resume time changed.
PersistSince ==
  /\ up /\ hold = "none" /\ cp # Checkpoint
  /\ cp' = Checkpoint
  /\ UNCHANGED <<up, files, spoolMem, spoolHist>>

-----------------------------------------------------------------------------
(* The reader *)

\* The first n unread lines and the position past them; the ack position is
\* normalized on the way.
Next(n, batch, cursor) ==
  LET pos == Normalize(segs, acked)
      all == Unread(pos)
      record(e) == LineAt(files[e.seq], From(e.seq, pos), e.off)
  IN /\ up /\ hold = "none"
     /\ acked' = pos
     /\ batch = [k \in 1..(IF Len(all) < n THEN Len(all) ELSE n) |-> record(all[k])]
     /\ cursor = IF Len(all) >= n THEN all[n]
                 ELSE [seq |-> LastSeq, off |-> GoodEnd(files[LastSeq], From(LastSeq, pos))]
     /\ UNCHANGED <<up, files, cp, segs, dropped, curOpen, hold, spoolHist>>

Stale(c) == c.seq < acked.seq \/ (c.seq = acked.seq /\ c.off < acked.off)

\* Acked segments go before the checkpoint is written.
Ack(c) ==
  /\ up /\ hold = "none"
  /\ IF Stale(c) THEN UNCHANGED <<files, segs, acked, hold>>
     ELSE /\ acked' = c /\ hold' = "persist"
          /\ segs' = Restrict(segs, {s \in Seqs : s >= c.seq})
          /\ files' = Restrict(files, {s \in DOMAIN files : s \notin Seqs \/ s >= c.seq})
  /\ UNCHANGED <<up, cp, dropped, curOpen, spoolHist>>

-----------------------------------------------------------------------------
(* Crashes and Open *)

\* The records whose line is complete.
Whole(fs) == UNION {{fs[s][i - 1] : i \in {k \in 2..Len(fs[s]) : fs[s][k] = NL}} : s \in DOMAIN fs}

Dies ==
  /\ up /\ up' = FALSE
  /\ segs' = [s \in {} |-> 0] /\ acked' = [seq |-> 0, off |-> 0] /\ dropped' = 0 /\ curOpen' = FALSE
  /\ hold' = "none"
  /\ forgot' = (forgot \/ cp.dropped # dropped)
  /\ UNCHANGED <<cp, born, kept, refused, evicted>>

Kill == Dies /\ Fault("kill") /\ UNCHANGED <<files, cut>>

\* Appends are not fsynced: any file may lose its tail; the checkpoint is.
PowerCut ==
  /\ Dies /\ Fault("power")
  /\ \E len \in [DOMAIN files -> 0..(2 * MaxRecs)] :
       /\ \A s \in DOMAIN files : len[s] <= Len(files[s])
       /\ files' = [s \in DOMAIN files |-> SubSeq(files[s], 1, len[s])]
  /\ cut' = cut \cup (Whole(files) \ Whole(files'))

Clamp(off, size) == IF off > size THEN size ELSE off

\* truncateTornTail.
WithoutTail(f, from) ==
  IF Len(f) > from /\ f[Len(f)] # NL
  THEN SubSeq(f, 1, GoodEnd(f, from))
  ELSE f

\* The segments found, the last one repaired, the checkpoint normalized.
Reopen(fs, lastSeq) ==
  LET off == IF cp.seq = lastSeq THEN Clamp(cp.off, Len(fs[lastSeq])) ELSE cp.off
      from == IF cp.seq = lastSeq THEN off ELSE 0
      fixed == [fs EXCEPT ![lastSeq] = WithoutTail(@, from)]
      found == [s \in DOMAIN fs |-> Len(fixed[s])]
      start == IF cp.seq = 0 THEN [seq |-> Min(DOMAIN fs), off |-> 0] ELSE [seq |-> cp.seq, off |-> off]
  IN /\ files' = fixed /\ segs' = found
     /\ acked' = Normalize(found, start)
     /\ cp' = IF off # cp.off THEN [seq |-> acked'.seq, off |-> acked'.off, dropped |-> cp.dropped]
                              ELSE cp

Open ==
  /\ ~up /\ up' = TRUE
  /\ IF DOMAIN files = {} THEN Reopen([s \in {1} |-> <<>>], 1)
     ELSE Reopen(files, Max(DOMAIN files))
  /\ dropped' = cp.dropped /\ curOpen' = TRUE /\ hold' = "none"
  /\ UNCHANGED spoolHist

-----------------------------------------------------------------------------
SpoolInit ==
  /\ up = TRUE
  /\ files = [s \in {1} |-> <<>>] /\ segs = [s \in {1} |-> 0]
  /\ cp = [seq |-> 0, off |-> 0, dropped |-> 0] /\ acked = [seq |-> 1, off |-> 0]
  /\ dropped = 0 /\ curOpen = TRUE /\ hold = "none"
  /\ born = 0 /\ kept = {} /\ refused = {} /\ evicted = {} /\ cut = {} /\ forgot = FALSE
  /\ faults = 0

=============================================================================
