------------------------------ MODULE Shipper -------------------------------
(***************************************************************************)
(* The shipper: the spool with the sender that empties it and the server   *)
(* it posts to.  A batch is the oldest unread lines; 2xx acks it, 413      *)
(* splits it in two (or drops its only record), anything else is tried     *)
(* again.  sendBatch calls itself for the halves: stack holds the sizes    *)
(* still to be sent, innermost first.                                      *)
(*                                                                         *)
(* The server takes a batch whole or not at all; it may take one whose     *)
(* answer is lost.  Appends and evictions go on meanwhile.                 *)
(***************************************************************************)
EXTENDS Spool

CONSTANTS MaxBatchRecords,   \* records per POST (500 in the code)
          ServerMax,         \* the server's body limit, in records
          Big                \* records that alone pass it

ASSUME ShipperAssumption ==
  /\ MaxBatchRecords \in Nat \ {0} /\ ServerMax \in Nat \ {0} /\ Big \subseteq Nat

VARIABLES pc,          \* the sender
          stack,       \* sizes sendBatch has still to send
          batch, cursor,
          reply,       \* what the POST came back with
          delivered,   \* history: records the server has, in order of first arrival
          oversized    \* records given up: alone and still too large

senderVars == <<pc, stack, batch, cursor, reply>>
shipperVars == <<spoolVars, senderVars, delivered, oversized>>

NoCursor == [seq |-> 0, off |-> 0]

-----------------------------------------------------------------------------
(* The sender *)

\* nextBatchSize.
SenderPeeks ==
  /\ pc = "idle"
  /\ LET all == Cardinality(Ends(Normalize(segs, acked)))
     IN /\ all > 0
        /\ stack' = <<IF all < MaxBatchRecords THEN all ELSE MaxBatchRecords>> /\ pc' = "read"
  /\ up /\ hold = "none" /\ acked' = Normalize(segs, acked)
  /\ UNCHANGED <<up, files, cp, segs, dropped, curOpen, hold, spoolHist, batch, cursor, reply,
                 delivered, oversized>>

Returned(rest) == stack' = rest /\ pc' = IF rest = <<>> THEN "idle" ELSE "read"

\* It reads the batch again before every attempt.
SenderReads ==
  /\ pc = "read"
  /\ Next(Head(stack), batch', cursor')
  /\ IF batch' = <<>> THEN Returned(Tail(stack)) ELSE pc' = "post" /\ UNCHANGED stack
  /\ UNCHANGED <<reply, delivered, oversized>>

\* Mutant: a refused batch is acked too.
SenderAcksAnyway ==
  /\ pc = "answer" /\ reply \in {"ok", "retry"}
  /\ Ack(cursor)
  /\ Returned(Tail(stack))
  /\ UNCHANGED <<batch, cursor, reply, delivered, oversized>>

SenderAcks ==
  /\ pc = "answer" /\ reply = "ok"
  /\ Ack(cursor)
  /\ Returned(Tail(stack))
  /\ UNCHANGED <<batch, cursor, reply, delivered, oversized>>

\* Mutant: it is counted and not acked.
SenderKeepsOversized ==
  /\ pc = "answer" /\ reply = "large" /\ Len(batch) = 1
  /\ oversized' = oversized \cup ToSet(batch)
  /\ Returned(Tail(stack))
  /\ UNCHANGED <<spoolVars, batch, cursor, reply, delivered>>

SenderDropsOversized ==
  /\ pc = "answer" /\ reply = "large" /\ Len(batch) = 1
  /\ Ack(cursor)
  /\ oversized' = oversized \cup ToSet(batch)
  /\ Returned(Tail(stack))
  /\ UNCHANGED <<batch, cursor, reply, delivered>>

SenderSplits ==
  /\ pc = "answer" /\ reply = "large" /\ Len(batch) > 1
  /\ LET half == Len(batch) \div 2
     IN stack' = <<half, Len(batch) - half>> \o Tail(stack)
  /\ pc' = "read"
  /\ UNCHANGED <<spoolVars, batch, cursor, reply, delivered, oversized>>

SenderRetries ==
  /\ pc = "answer" /\ reply = "retry"
  /\ pc' = "read"
  /\ UNCHANGED <<spoolVars, stack, batch, cursor, reply, delivered, oversized>>

-----------------------------------------------------------------------------
(* The server *)

TooLarge == Len(batch) > ServerMax \/ \E r \in ToSet(batch) : r \in Big

\* The places in the batch of records the server has not seen, in order.
Unseen ==
  LET places == {i \in 1..Len(batch) : batch[i] \notin ToSet(delivered)}
  IN Ordered(places, [i \in places |-> {j \in places : j < i}])

ServerTakes ==
  /\ pc = "post" /\ ~TooLarge /\ Garbage \notin ToSet(batch)
  /\ delivered' = delivered \o [k \in 1..Len(Unseen) |-> batch[Unseen[k]]]
  /\ pc' = "answer" /\ reply' \in {"ok", "retry"}
  /\ UNCHANGED <<spoolVars, stack, batch, cursor, oversized>>

ServerTooLarge ==
  /\ pc = "post" /\ TooLarge
  /\ pc' = "answer" /\ reply' = "large"
  /\ UNCHANGED <<spoolVars, stack, batch, cursor, delivered, oversized>>

\* Busy, a bad key, or a batch it cannot parse.
ServerRefuses ==
  /\ pc = "post"
  /\ pc' = "answer" /\ reply' = "retry"
  /\ UNCHANGED <<spoolVars, stack, batch, cursor, delivered, oversized>>

\* No connection, or no answer in time.
PostFails ==
  /\ pc = "post"
  /\ pc' = "answer" /\ reply' = "retry"
  /\ UNCHANGED <<spoolVars, stack, batch, cursor, delivered, oversized>>

-----------------------------------------------------------------------------
ShipperInit ==
  /\ SpoolInit
  /\ pc = "idle" /\ stack = <<>> /\ batch = <<>> /\ cursor = NoCursor /\ reply = "none"
  /\ delivered = <<>> /\ oversized = {}

\* The sender dies with the process.
ShipperDies ==
  /\ Kill \/ PowerCut
  /\ pc' = "idle" /\ stack' = <<>> /\ batch' = <<>> /\ cursor' = NoCursor /\ reply' = "none"
  /\ UNCHANGED <<delivered, oversized>>

SpoolWorks == (AppendRolls \/ AppendWrites \/ AppendShort \/ AppendClosed \/ RollFails
               \/ PersistSince) /\ UNCHANGED <<senderVars, delivered, oversized>>
\* What is under way under s.mu, and the restart.
SpoolGoesOn == ((hold = "append" /\ AppendWrites) \/ Evict \/ Persist \/ Open)
               /\ UNCHANGED <<senderVars, delivered, oversized>>
Sender == SenderPeeks \/ SenderReads \/ SenderAcks \/ SenderDropsOversized \/ SenderSplits
          \/ SenderRetries
Server == ServerTakes \/ ServerTooLarge \/ ServerRefuses \/ PostFails

ShipperNext == SpoolWorks \/ SpoolGoesOn \/ Sender \/ Server \/ ShipperDies

ServerAccepts == ServerTakes /\ reply' = "ok"

(* Fairness.  The process runs, is restarted, and a server asked again and   *)
(* again takes a batch it can take once, and its answer arrives.             *)
ShipperFairness ==
  /\ WF_shipperVars(SpoolGoesOn) /\ WF_shipperVars(Sender) /\ WF_shipperVars(Server)
  /\ SF_shipperVars(ServerAccepts) /\ SF_shipperVars(ServerTooLarge)

ShipperSpec == ShipperInit /\ [][ShipperNext]_shipperVars /\ ShipperFairness

-----------------------------------------------------------------------------
Done == ToSet(delivered) \cup oversized

\* What is in the live segments from a position on.
Ahead(pos) == UNION {{files[s][i] : i \in {k \in 1..Len(files[s]) : s > pos.seq \/ k > pos.off}} :
                     s \in {t \in DOMAIN files : t >= pos.seq}}

(* NothingLost: a record Append wrote is at the server, counted as oversized *)
(* or evicted, taken by a power loss, or still ahead of the ack position,    *)
(* whatever was evicted, split, retried or restarted meanwhile.              *)
NothingLost == up => kept \subseteq Done \cup evicted \cup cut \cup Ahead(acked)

(* DroppedExact: the dropped count, restored after a restart, is the number  *)
(* of records the cap took before they were acked, unless the process died   *)
(* between an eviction and its checkpoint ("a loss is never silently         *)
(* forgotten").                                                              *)
DroppedExact == up /\ ~forgot => dropped = Cardinality(evicted)

(* ArrivesInOrder: the server first sees the records in the order they were  *)
(* appended, with gaps where some were dropped (a crash-safe FIFO).          *)
ArrivesInOrder == \A i, j \in 1..Len(delivered) : i < j => delivered[i] < delivered[j]

(* CatchesUp: again and again every record written is settled; no refusal,   *)
(* split, eviction or stale cursor makes the sender wait or spin for ever.   *)
(* Only a line that a short write has spoilt does, which no server parses.   *)
CatchesUp ==
  []<>(kept \subseteq Done \cup evicted \cup cut \/ Garbage \in ToSet(batch))
=============================================================================
