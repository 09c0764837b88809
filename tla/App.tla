-------------------------------- MODULE App ---------------------------------
(***************************************************************************)
(* The running process: the pipeline with the goroutines started beside it *)
(* (the alerts delivery worker, the drop-counter flush loop) and the stop  *)
(* hook that takes them down, server first and store last:                 *)
(*                                                                         *)
(*   server   srv.Shutdown, at most its budget                             *)
(*   drain    pipe.Drain, at most the stop context                         *)
(*   alerts   cancelAlerts, then wait for the worker                       *)
(*   drops    the last FlushDrops                                          *)
(*   close    db.Close                                                     *)
(*                                                                         *)
(* An alert rule's match and cooldown are a free choice here: an event     *)
(* fires or does not.                                                      *)
(***************************************************************************)
EXTENDS Pipeline, FiniteSets

CONSTANT QueueCap   \* delivery queue (256 in the code)

ASSUME AppAssumption == QueueCap \in Nat \ {0}

VARIABLES stopPc,           \* the stop hook: "up" before it, "closed" after
          late,             \* its server shutdown or its drain ran out of time
          queue,            \* fires waiting for delivery
          workPc, job,      \* the worker
          loopPc,           \* the drop flush loop; "cancelled" is a flush begun after its
                            \* context was, which the store refuses
          dropPending,      \* drops decided and not taken by a flush
          dropFlush,        \* count each flush holds: the loop's and the stop hook's
          dropStored,       \* dropped_count in the store
          fired, lost,      \* fires, and those a full queue dropped (counted)
          recorded,         \* fires whose outcome is in the store
          unrecorded,       \* fires whose outcome the store refused
          tooLate           \* fires after the worker's context was cancelled

workVars == <<queue, workPc, job, fired, lost, recorded, unrecorded, tooLate>>
dropVars == <<loopPc, dropPending, dropFlush, dropStored>>
appVars == <<pipelineVars, stopPc, late, workVars, dropVars>>

Stopping == stopPc # "up"
AlertsCancelled == stopPc \in {"alerts", "drops", "dropsTaken", "closing", "closed"}
Open == stopPc # "closed"   \* the store

AppInit ==
  /\ PipelineInit
  /\ stopPc = "up" /\ late = FALSE
  /\ queue = <<>> /\ workPc = "select" /\ job = None
  /\ fired = {} /\ lost = {} /\ recorded = {} /\ unrecorded = {} /\ tooLate = {}
  /\ loopPc = "select" /\ dropPending = 0 /\ dropFlush = [f \in {"loop", "stop"} |-> 0] /\ dropStored = 0

-----------------------------------------------------------------------------
(* The pipeline's steps, with what they do to the rest *)

HandlerStarts(c) ==
  /\ stopPc = "up"
  /\ Request(c)
  /\ UNCHANGED <<stopPc, late, workVars, dropVars>>

RunDropCounted ==
  /\ RunDrop
  /\ dropPending' = dropPending + 1
  /\ UNCHANGED <<stopPc, late, workVars, loopPc, dropFlush, dropStored>>

StoreWrites ==
  /\ FlushWrites /\ Open
  /\ UNCHANGED <<stopPc, late, workVars, dropVars>>

\* IssueEvent, which never waits: a fire the queue has no room for is counted.
IssueEvent(l) ==
  /\ FlushNotify(l)
  /\ \/ UNCHANGED <<queue, fired, lost, tooLate>>
     \/ /\ fired' = fired \cup {l}
        /\ tooLate' = IF AlertsCancelled THEN tooLate \cup {l} ELSE tooLate
        /\ IF Len(queue) < QueueCap
           THEN queue' = Append(queue, l) /\ UNCHANGED lost
           ELSE lost' = lost \cup {l} /\ UNCHANGED queue
  /\ UNCHANGED <<stopPc, late, workPc, job, recorded, unrecorded, dropVars>>

EnqueueStep(c) == Enqueue(c) /\ UNCHANGED <<stopPc, late, workVars, dropVars>>
RunStep == (RunLoop \/ Flush) /\ UNCHANGED <<stopPc, late, workVars, dropVars>>

-----------------------------------------------------------------------------
(* The alerts worker *)

WorkTake ==
  /\ workPc = "select" /\ queue # <<>>
  /\ job' = Head(queue) /\ queue' = Tail(queue) /\ workPc' = "deliver"
  /\ UNCHANGED <<pipelineVars, stopPc, late, fired, lost, recorded, unrecorded, tooLate, dropVars>>

\* Delivered or given up after its retries, then recorded either way.
WorkRecord ==
  /\ workPc = "deliver"
  /\ \/ Open /\ recorded' = recorded \cup {job} /\ UNCHANGED unrecorded
     \/ unrecorded' = unrecorded \cup {job} /\ UNCHANGED recorded
  /\ job' = None /\ workPc' = "select"
  /\ UNCHANGED <<pipelineVars, stopPc, late, queue, fired, lost, tooLate, dropVars>>

\* Mutant: its context is looked at only after a job.
WorkReturnsAfterJob ==
  /\ workPc = "select" /\ AlertsCancelled /\ queue # <<>>
  /\ workPc' = "done"
  /\ UNCHANGED <<pipelineVars, stopPc, late, queue, job, fired, lost, recorded, unrecorded,
                 tooLate, dropVars>>

\* Cancelled, it first empties the queue; live, it takes whichever is ready.
WorkReturns ==
  /\ workPc = "select" /\ AlertsCancelled /\ queue = <<>>
  /\ workPc' = "done"
  /\ UNCHANGED <<pipelineVars, stopPc, late, queue, job, fired, lost, recorded, unrecorded,
                 tooLate, dropVars>>

-----------------------------------------------------------------------------
(* FlushDrops, by the loop and by the stop hook *)

TakeDrops(f) ==
  /\ dropFlush' = [dropFlush EXCEPT ![f] = dropPending] /\ dropPending' = 0
  /\ UNCHANGED dropStored

DropsStored(f) ==
  /\ dropStored' = dropStored + dropFlush[f] /\ dropFlush' = [dropFlush EXCEPT ![f] = 0]
  /\ UNCHANGED dropPending

\* AddNoiseDrops fails: folded back.
DropsFoldedBack(f) ==
  /\ dropPending' = dropPending + dropFlush[f] /\ dropFlush' = [dropFlush EXCEPT ![f] = 0]
  /\ UNCHANGED dropStored

\* A tick; one that is ready when the context is done may still be picked.  A
\* loop that has returned is one that takes no more, and nobody waits for it.
\* (A snapshot of 0 writes nothing and is left out.)
LoopTakes ==
  /\ loopPc = "select" /\ dropPending > 0
  /\ TakeDrops("loop") /\ loopPc' = IF cancelled THEN "cancelled" ELSE "flush"
  /\ UNCHANGED <<pipelineVars, stopPc, late, workVars>>

LoopEnds ==
  /\ \/ loopPc = "flush" /\ Open /\ DropsStored("loop")
     \/ loopPc \in {"flush", "cancelled"} /\ DropsFoldedBack("loop")
  /\ loopPc' = "select"
  /\ UNCHANGED <<pipelineVars, stopPc, late, workVars>>

-----------------------------------------------------------------------------
(* OnStop *)

StopBegins ==
  /\ stopPc = "up" /\ stopPc' = "server"
  /\ UNCHANGED <<pipelineVars, late, workVars, dropVars>>

Busy(c) == enq[c] \in {"handler", "sending"}

\* srv.Shutdown returns when no handler runs, or when its budget is spent,
\* and the contexts of the loops and of Run are cancelled.
ServerStops ==
  /\ stopPc = "server"
  /\ late' = \E c \in Clients : Busy(c)
  /\ Cancel /\ stopPc' = "drain"
  /\ UNCHANGED <<workVars, dropVars>>

\* Drain sees 0, or its context ends.
DrainReturns ==
  /\ stopPc = "drain"
  /\ late' = (late \/ unflushed # 0)
  /\ stopPc' = "alerts"
  /\ UNCHANGED <<pipelineVars, workVars, dropVars>>

\* Mutant: the worker is not waited for.
AlertsNotAwaited ==
  /\ stopPc = "alerts"
  /\ stopPc' = "drops"
  /\ UNCHANGED <<pipelineVars, late, workVars, dropVars>>

AlertsDone ==
  /\ stopPc = "alerts" /\ workPc = "done"
  /\ stopPc' = "drops"
  /\ UNCHANGED <<pipelineVars, late, workVars, dropVars>>

StopTakesDrops ==
  /\ stopPc = "drops" /\ stopPc' = "dropsTaken"
  /\ TakeDrops("stop")
  /\ UNCHANGED <<pipelineVars, late, workVars, loopPc>>

StopFlushesDrops ==
  /\ stopPc = "dropsTaken" /\ stopPc' = "closing"
  /\ DropsStored("stop") \/ DropsFoldedBack("stop")
  /\ UNCHANGED <<pipelineVars, late, workVars, loopPc>>

StoreCloses ==
  /\ stopPc = "closing" /\ stopPc' = "closed"
  /\ UNCHANGED <<pipelineVars, late, workVars, dropVars>>

-----------------------------------------------------------------------------
Writer == RunStep \/ RunDropCounted \/ StoreWrites \/ \E l \in Events : IssueEvent(l)
Worker == WorkTake \/ WorkRecord \/ WorkReturns
StopHook == ServerStops \/ DrainReturns \/ AlertsDone \/ StopTakesDrops \/ StopFlushesDrops
            \/ StoreCloses

AppNext ==
  \/ \E c \in Clients : HandlerStarts(c) \/ EnqueueStep(c)
  \/ Writer
  \/ Worker \/ LoopTakes \/ LoopEnds
  \/ StopBegins \/ StopHook

(* Fairness.  Every goroutine is scheduled, writes, deliveries and the stop  *)
(* context end.  A select with several ready cases picks at random, so Run   *)
(* cannot pass over ctx.Done or its ticker for ever.                         *)
Fairness ==
  /\ WF_appVars(Writer) /\ \A c \in Clients : WF_appVars(EnqueueStep(c))
  /\ SF_appVars(RunSeesDone /\ UNCHANGED <<stopPc, late, workVars, dropVars>>)
  /\ SF_appVars(RunTick /\ UNCHANGED <<stopPc, late, workVars, dropVars>>)
  /\ WF_appVars(Worker) /\ WF_appVars(LoopEnds) /\ WF_appVars(StopHook)

AppSpec == AppInit /\ [][AppNext]_appVars
AppFairSpec == AppSpec /\ Fairness

-----------------------------------------------------------------------------
(* CleanStop: when neither the server's shutdown nor the drain ran out of    *)
(* time, the store closes with every accepted log settled and every fire     *)
(* recorded, refused or counted as dropped ("so nothing is torn down out     *)
(* from under a request, or a notification, still in flight").               *)
CleanStop == stopPc = "closed" /\ ~late =>
  /\ \A c \in Clients : ~Busy(c) /\ (enq[c] = "accepted" => BatchLogs(c) \subseteq Settled)
  /\ runPc # "write" /\ notify = <<>>
  /\ fired = recorded \cup unrecorded \cup lost /\ tooLate = {}

(* AcceptedSettles: a log that was accepted is eventually written, given up  *)
(* or dropped, stop or no stop.                                              *)
AcceptedSettles ==
  \A c \in Clients : enq[c] = "accepted" ~> BatchLogs(c) \subseteq Settled

(* StopCompletes: once asked to stop the process closes the store and Run    *)
(* returns: no side of the shutdown waits for another for ever.              *)
StopCompletes == Stopping ~> (stopPc = "closed" /\ runPc = "returned" /\ workPc = "done")

(* FinalCount: after a stop in time whose last flush succeeded, the store    *)
(* has counted every drop (OnStop: drops "must be counted in this final      *)
(* flush, not lost").                                                        *)
FinalCount ==
  stopPc = "closed" /\ ~late /\ dropPending = 0 => dropStored = Cardinality(dropped)
=============================================================================
