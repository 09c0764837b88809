------------------------------ MODULE Pipeline ------------------------------
(***************************************************************************)
(* The ingest pipeline: handlers Enqueue whole batches into a bounded      *)
(* channel under mu, one writer goroutine (Run) takes the logs out one by  *)
(* one, decides and annotates each and flushes them in batches to the      *)
(* store.  unflushed counts what was accepted and is not settled: Drain    *)
(* polls it, so when each side changes it is part of the protocol.         *)
(*                                                                         *)
(* The store's WriteBatch, the rules' Decide and the notifier are seen     *)
(* from here as outcomes: a write succeeds or fails, a log is dropped or   *)
(* kept.  App gives them their effects.                                    *)
(***************************************************************************)
EXTENDS Integers, SequencesExt

CONSTANTS Clients,      \* handlers of the ingest edges
          Logs,
          Batch,        \* Batch[c]: the logs of client c's request
          Events,       \* logs that are issue events (core.IsEvent)
          BufferSize,   \* capacity of the channel
          MaxBatch,     \* logs per flush
          None

ASSUME PipelineAssumption ==
  /\ Batch \in [Clients -> Seq(Logs)] /\ \A c \in Clients : Batch[c] # <<>>
  /\ \A c, d \in Clients : \A m \in 1..Len(Batch[c]), n \in 1..Len(Batch[d]) :
       Batch[c][m] = Batch[d][n] => c = d /\ m = n   \* every log is one of its own
  /\ Events \subseteq Logs /\ None \notin Logs \cup Clients
  /\ BufferSize \in Nat \ {0} /\ MaxBatch \in Nat \ {0}

VARIABLES buf,         \* the channel
          mu,          \* who holds p.mu: a client, "run" or None
          stopped,     \* no more Enqueue
          unflushed,   \* the atomic counter
          enq,         \* each client's request
          left,        \* what it has still to send
          cancelled,   \* Run's context is done
          runPc, mode, cur, pending, notify,   \* Run: where it is, live, draining or at its
                                               \* last flush, the log in hand, the batch, and
                                               \* its part still to be notified
          stored, failed, dropped              \* the logs' fates: written in this order,
                                               \* in a batch that failed, dropped by a rule

clientVars == <<enq, left>>
runVars == <<runPc, mode, cur, pending, notify>>
fates == <<stored, failed, dropped>>
pipelineVars == <<buf, mu, stopped, unflushed, enq, left, cancelled, runVars, fates>>

BatchLogs(c) == ToSet(Batch[c])
Settled == ToSet(stored) \cup failed \cup dropped

PipelineInit ==
  /\ buf = <<>> /\ mu = None /\ stopped = FALSE /\ unflushed = 0 /\ cancelled = FALSE
  /\ enq = [c \in Clients |-> "idle"] /\ left = [c \in Clients |-> <<>>]
  /\ runPc = "select" /\ mode = "live" /\ cur = None /\ pending = <<>> /\ notify = <<>>
  /\ stored = <<>> /\ failed = {} /\ dropped = {}

-----------------------------------------------------------------------------
(* Enqueue *)

\* A request arrives, or arrives again after a 429.
Request(c) ==
  /\ enq[c] \in {"idle", "full"}
  /\ enq' = [enq EXCEPT ![c] = "handler"]
  /\ UNCHANGED <<buf, mu, stopped, unflushed, left, cancelled, runVars, fates>>

\* Mutant: the check is for room for one log.
FitsOne(c) == Len(buf) + 1 <= BufferSize

Fits(c) == Len(buf) + Len(Batch[c]) <= BufferSize

EnqueueRefused(c) ==
  /\ enq[c] = "handler" /\ mu = None
  /\ stopped \/ ~Fits(c)
  /\ enq' = [enq EXCEPT ![c] = "full"]
  /\ UNCHANGED <<buf, mu, stopped, unflushed, left, cancelled, runVars, fates>>

\* Mutant: a batch is counted as one log.
EnqueueReserveOne(c) ==
  /\ enq[c] = "handler" /\ mu = None
  /\ ~stopped /\ Fits(c)
  /\ mu' = c
  /\ unflushed' = unflushed + 1
  /\ enq' = [enq EXCEPT ![c] = "sending"] /\ left' = [left EXCEPT ![c] = Batch[c]]
  /\ UNCHANGED <<buf, stopped, cancelled, runVars, fates>>

\* Counted before the first log is sent.
EnqueueReserve(c) ==
  /\ enq[c] = "handler" /\ mu = None
  /\ ~stopped /\ Fits(c)
  /\ mu' = c
  /\ unflushed' = unflushed + Len(Batch[c])
  /\ enq' = [enq EXCEPT ![c] = "sending"] /\ left' = [left EXCEPT ![c] = Batch[c]]
  /\ UNCHANGED <<buf, stopped, cancelled, runVars, fates>>

\* A channel send: it waits for room.
EnqueueSend(c) ==
  /\ enq[c] = "sending" /\ Len(buf) < BufferSize
  /\ buf' = Append(buf, Head(left[c])) /\ left' = [left EXCEPT ![c] = Tail(@)]
  /\ IF Len(left[c]) = 1 THEN mu' = None /\ enq' = [enq EXCEPT ![c] = "accepted"]
                         ELSE UNCHANGED <<mu, enq>>
  /\ UNCHANGED <<stopped, unflushed, cancelled, runVars, fates>>

Cancel ==
  /\ cancelled' = TRUE
  /\ UNCHANGED <<buf, mu, stopped, unflushed, clientVars, runVars, fates>>

-----------------------------------------------------------------------------
(* Run *)

RunTake ==
  /\ runPc = "select" /\ buf # <<>>
  /\ cur' = Head(buf) /\ buf' = Tail(buf) /\ runPc' = "process"
  /\ UNCHANGED <<mu, stopped, unflushed, clientVars, cancelled, mode, pending, notify, fates>>

\* process, then annotate: kept, and the batch may be full.
RunKeep ==
  /\ runPc = "process"
  /\ pending' = Append(pending, cur) /\ cur' = None
  /\ runPc' = IF Len(pending) + 1 >= MaxBatch THEN "write" ELSE "select"
  /\ UNCHANGED <<buf, mu, stopped, unflushed, clientVars, cancelled, mode, notify, fates>>

\* process: Decide says drop, which counts the drop ...
RunDrop ==
  /\ runPc = "process"
  /\ dropped' = dropped \cup {cur} /\ runPc' = "dropped"
  /\ UNCHANGED <<buf, mu, stopped, unflushed, clientVars, cancelled, mode, cur, pending, notify,
                 stored, failed>>

\* ... and only then is it settled.
RunDropped ==
  /\ runPc = "dropped"
  /\ unflushed' = unflushed - 1 /\ cur' = None /\ runPc' = "select"
  /\ UNCHANGED <<buf, mu, stopped, clientVars, cancelled, mode, pending, notify, fates>>

\* Mutant: the ticker flushes only a full batch.
RunTickFull ==
  /\ runPc = "select" /\ mode = "live" /\ Len(pending) >= MaxBatch
  /\ runPc' = "write"
  /\ UNCHANGED <<buf, mu, stopped, unflushed, clientVars, cancelled, mode, cur, pending, notify,
                 fates>>

RunTick ==
  /\ runPc = "select" /\ mode = "live" /\ pending # <<>>
  /\ runPc' = "write"
  /\ UNCHANGED <<buf, mu, stopped, unflushed, clientVars, cancelled, mode, cur, pending, notify,
                 fates>>

\* ctx.Done is seen; mu is still to be taken.
RunSeesDone ==
  /\ runPc = "select" /\ mode = "live" /\ cancelled
  /\ runPc' = "stopping"
  /\ UNCHANGED <<buf, mu, stopped, unflushed, clientVars, cancelled, mode, cur, pending, notify,
                 fates>>

\* Mutant: stopped is set without mu.
RunStopUnlocked ==
  /\ runPc = "stopping"
  /\ stopped' = TRUE /\ mode' = "drain" /\ runPc' = "select"
  /\ UNCHANGED <<buf, mu, unflushed, clientVars, cancelled, cur, pending, notify, fates>>

RunStop ==
  /\ runPc = "stopping" /\ mu = None
  /\ stopped' = TRUE /\ mode' = "drain" /\ runPc' = "select"
  /\ UNCHANGED <<buf, mu, unflushed, clientVars, cancelled, cur, pending, notify, fates>>

\* The buffer is empty: one last flush.
RunDrained ==
  /\ runPc = "select" /\ mode = "drain" /\ buf = <<>>
  /\ mode' = "last" /\ runPc' = IF pending = <<>> THEN "returned" ELSE "write"
  /\ UNCHANGED <<buf, mu, stopped, unflushed, clientVars, cancelled, cur, pending, notify, fates>>

-----------------------------------------------------------------------------
(* flush *)

FlushWrites ==
  /\ runPc = "write"
  /\ stored' = stored \o pending
  /\ notify' = pending /\ runPc' = "notify"
  /\ UNCHANGED <<buf, mu, stopped, unflushed, clientVars, cancelled, mode, cur, pending, failed,
                 dropped>>

\* WriteBatch fails: the batch is given up, nobody is notified.
FlushFails ==
  /\ runPc = "write"
  /\ failed' = failed \cup ToSet(pending) /\ runPc' = "account"
  /\ UNCHANGED <<buf, mu, stopped, unflushed, clientVars, cancelled, mode, cur, pending, notify,
                 stored, dropped>>

\* IssueEvent is called for l, the next event of the batch.
FlushNotify(l) ==
  /\ runPc = "notify" /\ l \in Events
  /\ \E i \in 1..Len(notify) :
       /\ notify[i] = l /\ \A j \in 1..i - 1 : notify[j] \notin Events
       /\ notify' = SubSeq(notify, i + 1, Len(notify))
  /\ UNCHANGED <<buf, mu, stopped, unflushed, clientVars, cancelled, runPc, mode, cur, pending,
                 fates>>

FlushNotified ==
  /\ runPc = "notify" /\ ToSet(notify) \cap Events = {}
  /\ notify' = <<>> /\ runPc' = "account"
  /\ UNCHANGED <<buf, mu, stopped, unflushed, clientVars, cancelled, mode, cur, pending, fates>>

\* Mutant: the batch is kept for the next flush.
FlushAccountKeeps ==
  /\ runPc = "account"
  /\ unflushed' = unflushed - Len(pending) /\ UNCHANGED pending
  /\ runPc' = IF mode = "last" THEN "returned" ELSE "select"
  /\ UNCHANGED <<buf, mu, stopped, clientVars, cancelled, mode, cur, notify, fates>>

\* Mutant: one decrement for the whole batch.
FlushAccountOne ==
  /\ runPc = "account"
  /\ unflushed' = unflushed - 1 /\ pending' = <<>>
  /\ runPc' = IF mode = "last" THEN "returned" ELSE "select"
  /\ UNCHANGED <<buf, mu, stopped, clientVars, cancelled, mode, cur, notify, fates>>

FlushAccount ==
  /\ runPc = "account"
  /\ unflushed' = unflushed - Len(pending) /\ pending' = <<>>
  /\ runPc' = IF mode = "last" THEN "returned" ELSE "select"
  /\ UNCHANGED <<buf, mu, stopped, clientVars, cancelled, mode, cur, notify, fates>>

-----------------------------------------------------------------------------
Enqueue(c) == EnqueueRefused(c) \/ EnqueueReserve(c) \/ EnqueueSend(c)
RunLoop == RunTake \/ RunKeep \/ RunDropped \/ RunTick \/ RunSeesDone \/ RunStop \/ RunDrained
Flush == FlushFails \/ FlushNotified \/ FlushAccount

PipelineNext ==
  \/ \E c \in Clients : Request(c) \/ Enqueue(c)
  \/ Cancel \/ RunLoop \/ RunDrop \/ Flush \/ FlushWrites
  \/ \E l \in Events : FlushNotify(l)

PipelineSpec == PipelineInit /\ [][PipelineNext]_pipelineVars

-----------------------------------------------------------------------------
PipelineTypeOK ==
  /\ buf \in Seq(Logs) /\ pending \in Seq(Logs) /\ notify \in Seq(Logs)
  /\ stored \in Seq(Logs) /\ failed \subseteq Logs /\ dropped \subseteq Logs
  /\ mu \in Clients \cup {None} /\ cur \in Logs \cup {None}
  /\ stopped \in BOOLEAN /\ cancelled \in BOOLEAN /\ unflushed \in Nat
  /\ enq \in [Clients -> {"idle", "handler", "full", "sending", "accepted"}]
  /\ left \in [Clients -> Seq(Logs)]
  /\ runPc \in {"select", "process", "dropped", "stopping", "write", "notify", "account",
                "returned"}
  /\ mode \in {"live", "drain", "last"}

(* SendsNeverBlock: the room a handler found under mu is still there at its  *)
(* last send (Enqueue: "these sends cannot block").                          *)
SendsNeverBlock ==
  \A c \in Clients : enq[c] = "sending" => Len(buf) + Len(left[c]) <= BufferSize

(* UnflushedExact: unflushed is what is still to be sent, in the channel, in *)
(* Run's hand and in a batch not accounted for, so Drain never waits for     *)
(* ever nor returns early (Drain: "the buffer is empty and any in-flight     *)
(* batch has been flushed").                                                 *)
UnflushedExact ==
  unflushed = Len(buf) + Len(pending) + (IF cur = None THEN 0 ELSE 1)
              + (IF mu = None THEN 0 ELSE Len(left[mu]))

(* DrainSound: when the counter is 0 every log accepted so far is settled,   *)
(* its drop counted and its event notified, though Run has not been asked    *)
(* (Enqueue: Drain must not "report 'done' while these logs are already      *)
(* visible in buf").                                                         *)
DrainSound == unflushed = 0 =>
  /\ \A c \in Clients : enq[c] \in {"sending", "accepted"} => BatchLogs(c) \subseteq Settled
  /\ notify = <<>>

(* NothingStranded: once Run has returned no log is left behind, even of a   *)
(* request that raced the shutdown ("those logs were promised a write").     *)
NothingStranded == runPc = "returned" =>
  /\ buf = <<>> /\ pending = <<>>
  /\ \A c \in Clients : enq[c] # "sending" /\
                        (enq[c] = "accepted" => BatchLogs(c) \subseteq Settled)

(* StoredInOrder: no log is written twice, and those of one request in the   *)
(* order it sent them, whatever failed, was dropped or ran beside it (log    *)
(* ids, the tie-break of every listing, follow the order of writing).        *)
StoredInOrder ==
  \A i, j \in 1..Len(stored) : i < j =>
    /\ stored[i] # stored[j]
    /\ \A c \in Clients : \A m, n \in 1..Len(Batch[c]) :
         Batch[c][m] = stored[i] /\ Batch[c][n] = stored[j] => m < n
=============================================================================
