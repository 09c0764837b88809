------------------------------ MODULE AppProofs ------------------------------
(***************************************************************************)
(* The pipeline's counter, its sends that cannot block, and its drain and  *)
(* shutdown that leave nothing behind, for any clients, batches and sizes; *)
(* and the process around it, whose every step is a step of the pipeline   *)
(* or leaves it alone, so that what is proved of the pipeline holds of the *)
(* process, and whose stop in time tears nothing down that is in use.      *)
(*                                                                         *)
(* None of the pipeline's properties is inductive.  All follow from Inv,   *)
(* which says who holds p.mu and what is left to be sent, where Run is     *)
(* when it has a log or a batch in hand, what stopped implies, and where   *)
(* each accepted log is until it is settled; the order of what is stored   *)
(* needs OrderInv too: stored, batch, hand, channel and sender are one     *)
(* line in which nobody overtakes.  CleanStop follows from StopInv: what   *)
(* each stage of the stop hook guarantees to those after it, unless time   *)
(* ran out.                                                                *)
(***************************************************************************)
EXTENDS App, TLAPS

(* p.mu is a client's from the reservation to the last send. *)
Sending ==
  /\ \A c \in Clients : enq[c] = "sending" <=> mu = c
  /\ \A c \in Clients : enq[c] = "sending" <=> left[c] # <<>>

(* What Run has in hand at each place. *)
InHand ==
  /\ cur # None <=> runPc \in {"process", "dropped"}
  /\ runPc = "dropped" => cur \in dropped
  /\ runPc \in {"write", "notify", "account"} => pending # <<>>
  /\ runPc \in {"notify", "account"} => ToSet(pending) \subseteq Settled
  /\ runPc # "notify" => notify = <<>>

(* The shutdown: once stopped nobody sends, and the last flush is of what *)
(* was in the channel.                                                    *)
Phases ==
  /\ stopped <=> mode # "live"
  /\ stopped => mu = None
  /\ runPc = "stopping" => mode = "live"
  /\ mode = "last" => buf = <<>> /\ runPc \in {"write", "notify", "account", "returned"}
  /\ runPc = "returned" => mode = "last" /\ pending = <<>>

(* Where a log that was accepted may be. *)
Somewhere(c) == Settled \cup ToSet(buf) \cup ToSet(pending) \cup {cur} \cup ToSet(left[c])
Kept == \A c \in Clients :
  enq[c] \in {"sending", "accepted"} => BatchLogs(c) \subseteq Somewhere(c)

(* The counter, and the room a sender still has, in numbers. *)
InBuf == Len(buf)
InPending == Len(pending)
InCur == IF cur = None THEN 0 ELSE 1
InLeft == IF mu = None THEN 0 ELSE Len(left[mu])
Counted == unflushed = InBuf + InPending + InCur + InLeft
Room == mu # None => InBuf + InLeft <= BufferSize

Inv == PipelineTypeOK /\ Sending /\ InHand /\ Phases /\ Kept /\ Counted /\ Room

USE DEF clientVars, runVars, fates

-----------------------------------------------------------------------------
(* Elements of sequences *)

\* A sequence is empty when its length is 0.
LEMMA LenEmpty ==
  ASSUME NEW S, NEW s \in Seq(S) PROVE Len(s) \in Nat /\ (Len(s) = 0 <=> s = <<>>)
  OBVIOUS

\* The elements of a sequence.
LEMMA ToSetMembers ==
  ASSUME NEW S, NEW s \in Seq(S)
  PROVE  /\ \A i \in 1..Len(s) : s[i] \in ToSet(s)
         /\ \A x \in ToSet(s) : \E i \in 1..Len(s) : x = s[i]
  BY DEF ToSet

\* An empty sequence has none, and only it.
LEMMA ToSetEmpty == ASSUME NEW S, NEW s \in Seq(S) PROVE ToSet(s) = {} <=> s = <<>>
  BY DEF ToSet

\* They are of the sequence's type.
LEMMA ToSetType == ASSUME NEW S, NEW s \in Seq(S) PROVE ToSet(s) \subseteq S
  BY DEF ToSet

\* Append adds one.
LEMMA ToSetAppend ==
  ASSUME NEW S, NEW s \in Seq(S), NEW x \in S PROVE ToSet(Append(s, x)) = ToSet(s) \cup {x}
  <1> DEFINE t == Append(s, x)
  <1>1. t \in Seq(S) /\ Len(t) = Len(s) + 1 /\ t[Len(s) + 1] = x
        /\ \A i \in 1..Len(s) : t[i] = s[i]
    OBVIOUS
  <1> HIDE DEF t
  <1>2. QED BY <1>1 DEF ToSet

\* Concatenation joins them.
LEMMA ToSetConcat ==
  ASSUME NEW S, NEW s \in Seq(S), NEW t \in Seq(S) PROVE ToSet(s \o t) = ToSet(s) \cup ToSet(t)
  <1> DEFINE u == s \o t
  <1>1. u \in Seq(S) /\ Len(u) = Len(s) + Len(t) /\ (\A i \in 1..Len(s) : u[i] = s[i])
        /\ \A i \in 1..Len(t) : u[Len(s) + i] = t[i]
    OBVIOUS
  <1> HIDE DEF u
  <1>2. Len(s) \in Nat /\ Len(t) \in Nat OBVIOUS
  <1>3. ASSUME NEW i \in 1..Len(u) PROVE u[i] \in ToSet(s) \cup ToSet(t)
    <2>1. CASE i \in 1..Len(s) BY <2>1, <1>1 DEF ToSet
    <2>2. CASE i \notin 1..Len(s)
      <3>1. i - Len(s) \in 1..Len(t) /\ Len(s) + (i - Len(s)) = i BY <2>2, <1>1, <1>2
      <3>2. u[i] = t[i - Len(s)] BY <3>1, <1>1
      <3>3. QED BY <3>1, <3>2 DEF ToSet
    <2>3. QED BY <2>1, <2>2
  <1>4. ToSet(s) \subseteq ToSet(u) /\ ToSet(t) \subseteq ToSet(u)
    <2>1. \A i \in 1..Len(s) : i \in 1..Len(u) /\ u[i] = s[i] BY <1>1, <1>2
    <2>2. \A i \in 1..Len(t) : Len(s) + i \in 1..Len(u) /\ u[Len(s) + i] = t[i] BY <1>1, <1>2
    <2>3. ASSUME NEW x \in ToSet(s) PROVE x \in ToSet(u)
      <3>1. PICK i \in 1..Len(s) : x = s[i] BY ToSetMembers
      <3>2. x = u[i] /\ i \in 1..Len(u) BY <3>1, <2>1
      <3>3. QED BY <3>2, <1>1, ToSetMembers
    <2>4. ASSUME NEW x \in ToSet(t) PROVE x \in ToSet(u)
      <3>1. PICK i \in 1..Len(t) : x = t[i] BY ToSetMembers
      <3>2. x = u[Len(s) + i] /\ Len(s) + i \in 1..Len(u) BY <3>1, <2>2
      <3>3. QED BY <3>2, <1>1, ToSetMembers
    <2>5. QED BY <2>3, <2>4
  <1>5. ToSet(u) \subseteq ToSet(s) \cup ToSet(t) BY <1>3, <1>1 DEF ToSet
  <1>6. QED BY <1>4, <1>5 DEF u

\* The head and those of the tail.
LEMMA ToSetTail ==
  ASSUME NEW S, NEW s \in Seq(S), s # <<>>
  PROVE  /\ ToSet(s) = {Head(s)} \cup ToSet(Tail(s))
         /\ Head(s) \in S /\ Tail(s) \in Seq(S) /\ Len(Tail(s)) = Len(s) - 1
  <1> DEFINE t == Tail(s)
  <1>1. /\ Head(s) \in S /\ t \in Seq(S) /\ Len(t) = Len(s) - 1 /\ Head(s) = s[1] /\ Len(s) >= 1
        /\ \A i \in 1..Len(t) : t[i] = s[i + 1]
    OBVIOUS
  <1> HIDE DEF t
  <1>2. \A i \in 1..Len(s) : i = 1 \/ (i - 1 \in 1..Len(t) /\ s[i] = t[i - 1])
    <2>1. SUFFICES ASSUME NEW i \in 1..Len(s), i # 1 PROVE i - 1 \in 1..Len(t) /\ s[i] = t[i - 1]
      OBVIOUS
    <2>2. i - 1 \in 1..Len(t) BY <2>1, <1>1
    <2>3. t[i - 1] = s[(i - 1) + 1] BY <2>2, <1>1
    <2>4. QED BY <2>2, <2>3
  <1>3. ToSet(s) \subseteq {Head(s)} \cup ToSet(t) BY <1>1, <1>2 DEF ToSet
  <1>4. ToSet(t) \subseteq ToSet(s) /\ Head(s) \in ToSet(s)
    BY <1>1 DEF ToSet
  <1>5. QED BY <1>1, <1>3, <1>4 DEF t

-----------------------------------------------------------------------------
(* What the steps share *)

\* The parts of the counter are numbers.
LEMMA CountsNat ==
  ASSUME PipelineTypeOK
  PROVE  /\ InBuf \in Nat /\ InPending \in Nat /\ InCur \in Nat /\ InLeft \in Nat
         /\ unflushed \in Nat
  <1>1. Len(buf) \in Nat /\ Len(pending) \in Nat BY LenEmpty DEF PipelineTypeOK
  <1>2. CASE mu = None BY <1>1, <1>2 DEF InBuf, InPending, InCur, InLeft, PipelineTypeOK
  <1>3. CASE mu # None
    <2>1. left[mu] \in Seq(Logs) BY <1>3 DEF PipelineTypeOK
    <2>2. Len(left[mu]) \in Nat BY <2>1, LenEmpty
    <2>3. QED BY <1>1, <1>3, <2>2 DEF InBuf, InPending, InCur, InLeft, PipelineTypeOK
  <1>4. QED BY <1>2, <1>3

\* A step that only moves logs between places keeps Kept.
LEMMA SomewhereStep ==
  ASSUME left' = left,
         ToSet(stored) \cup failed \cup dropped \cup ToSet(buf) \cup ToSet(pending) \cup {cur}
         \subseteq ToSet(stored') \cup failed' \cup dropped' \cup ToSet(buf') \cup ToSet(pending')
                   \cup {cur'} \cup {None},
         None \notin Logs, Batch \in [Clients -> Seq(Logs)], Kept, enq' = enq
  PROVE  Kept'
  <1>1. SUFFICES ASSUME NEW c \in Clients, enq[c] \in {"sending", "accepted"}
                 PROVE  BatchLogs(c)' \subseteq Somewhere(c)'
    BY DEF Kept
  <1>2. BatchLogs(c) \subseteq Somewhere(c) BY <1>1 DEF Kept
  <1>3. BatchLogs(c)' = BatchLogs(c) BY DEF BatchLogs
  <1>4. None \notin BatchLogs(c) BY ToSetType DEF BatchLogs
  <1>5. BatchLogs(c) \subseteq Somewhere(c)' BY <1>2, <1>4 DEF Somewhere, Settled
  <1>6. QED BY <1>3, <1>5

-----------------------------------------------------------------------------
(* Enqueue *)

\* A request arrives.
LEMMA RequestKeepsInv == ASSUME Inv, NEW c \in Clients, Request(c) PROVE Inv'
  <1> USE DEF Inv, Request
  <1>1. PipelineTypeOK' BY DEF PipelineTypeOK
  <1>2. Sending' /\ InHand' /\ Phases'
    BY DEF PipelineTypeOK, Sending, InHand, Phases, Settled
  <1>3. Kept' BY DEF PipelineTypeOK, Kept, Somewhere, Settled
  <1>4. Counted' /\ Room' BY DEF Counted, Room, InBuf, InPending, InCur, InLeft
  <1>5. QED BY <1>1, <1>2, <1>3, <1>4

\* It is refused.
LEMMA EnqueueRefusedKeepsInv == ASSUME Inv, NEW c \in Clients, EnqueueRefused(c) PROVE Inv'
  <1> USE DEF Inv, EnqueueRefused
  <1>1. PipelineTypeOK' BY DEF PipelineTypeOK
  <1>2. Sending' /\ InHand' /\ Phases'
    BY DEF PipelineTypeOK, Sending, InHand, Phases, Settled
  <1>3. Kept' BY DEF PipelineTypeOK, Kept, Somewhere, Settled
  <1>4. Counted' /\ Room' BY DEF Counted, Room, InBuf, InPending, InCur, InLeft
  <1>5. QED BY <1>1, <1>2, <1>3, <1>4

\* It takes p.mu and its logs are counted.
LEMMA EnqueueReserveKeepsInv == ASSUME Inv, NEW c \in Clients, EnqueueReserve(c) PROVE Inv'
  <1> USE PipelineAssumption DEF Inv, EnqueueReserve
  <1>1. /\ Batch[c] \in Seq(Logs) /\ Batch[c] # <<>> /\ Len(Batch[c]) \in Nat \ {0}
        /\ left'[c] = Batch[c] /\ enq'[c] = "sending" /\ mu' = c /\ c # None
    <2>1. Batch[c] \in Seq(Logs) /\ Batch[c] # <<>> /\ c # None OBVIOUS
    <2>2. Len(Batch[c]) \in Nat \ {0} BY <2>1
    <2>3. left'[c] = Batch[c] /\ enq'[c] = "sending" BY DEF PipelineTypeOK
    <2>4. QED BY <2>1, <2>2, <2>3
  <1>2. PipelineTypeOK' BY <1>1 DEF PipelineTypeOK
  <1>3. Sending' BY <1>1 DEF PipelineTypeOK, Sending
  <1>4. InHand' /\ Phases' BY DEF InHand, Phases, Settled
  <1>5. Kept'
    <2>1. BatchLogs(c) = ToSet(left'[c]) BY <1>1 DEF BatchLogs
    <2>2. QED BY <1>1, <2>1 DEF PipelineTypeOK, Kept, Somewhere, Settled
  <1>6. InLeft' = Len(Batch[c]) /\ InLeft = 0 BY <1>1 DEF InLeft
  <1>7. UNCHANGED <<InBuf, InPending, InCur>> BY DEF InBuf, InPending, InCur
  <1>8. unflushed' = unflushed + InLeft' BY <1>6
  <1>9. InBuf + InLeft' <= BufferSize BY <1>6 DEF Fits, InBuf
  <1>10. Counted' BY <1>6, <1>7, <1>8, CountsNat DEF Counted
  <1>11. Room' BY <1>7, <1>9 DEF Room
  <1>12. QED BY <1>2, <1>3, <1>4, <1>5, <1>10, <1>11

\* It sends one log.
LEMMA EnqueueSendKeepsInv == ASSUME Inv, NEW c \in Clients, EnqueueSend(c) PROVE Inv'
  <1>1. /\ left[c] \in Seq(Logs) /\ left[c] # <<>> /\ mu = c /\ c # None /\ ~stopped
        /\ PipelineTypeOK /\ enq[c] = "sending" /\ Len(buf) < BufferSize
    BY PipelineAssumption DEF Inv, EnqueueSend, PipelineTypeOK, Sending, Phases
  <1>2. /\ Head(left[c]) \in Logs /\ Tail(left[c]) \in Seq(Logs)
        /\ Len(Tail(left[c])) = Len(left[c]) - 1
        /\ ToSet(left[c]) = {Head(left[c])} \cup ToSet(Tail(left[c]))
    BY <1>1, ToSetTail
  <1>3. /\ UNCHANGED <<stopped, unflushed, cancelled, runVars, fates>>
        /\ left' = [left EXCEPT ![c] = Tail(left[c])] /\ left'[c] = Tail(left[c])
        /\ \A d \in Clients : d # c => left'[d] = left[d] /\ enq'[d] = enq[d]
    BY <1>1 DEF EnqueueSend, PipelineTypeOK
  <1>4. /\ buf' \in Seq(Logs) /\ Len(buf') = Len(buf) + 1
        /\ ToSet(buf') = ToSet(buf) \cup {Head(left[c])}
    BY <1>1, <1>2, ToSetAppend DEF EnqueueSend, PipelineTypeOK
  <1>5. /\ Len(left[c]) = 1 => left'[c] = <<>> /\ mu' = None /\ enq' = [enq EXCEPT ![c] = "accepted"]
        /\ Len(left[c]) # 1 => left'[c] # <<>> /\ mu' = mu /\ enq' = enq
    <2>1. Len(left[c]) \in Nat BY <1>1, LenEmpty
    <2>2. Len(Tail(left[c])) = 0 <=> Tail(left[c]) = <<>> BY <1>2, LenEmpty
    <2>3. Len(left[c]) = 1 <=> Tail(left[c]) = <<>> BY <1>2, <2>1, <2>2
    <2>4. QED BY <2>3, <1>3 DEF EnqueueSend
  <1>6. PipelineTypeOK' BY <1>1, <1>2, <1>3, <1>4, <1>5 DEF PipelineTypeOK
  <1>7. Sending'
    <2>1. \A d \in Clients : d # None /\ (d # c => enq[d] # "sending" /\ left[d] = <<>>)
      BY <1>1, PipelineAssumption DEF Inv, Sending
    <2>2. \A d \in Clients : d # c => enq'[d] # "sending" /\ left'[d] = <<>> /\ mu' # d
      BY <2>1, <1>1, <1>3, <1>5
    <2>3. CASE Len(left[c]) = 1
      <3>1. enq'[c] = "accepted" BY <2>3, <1>1, <1>5 DEF PipelineTypeOK
      <3>2. QED BY <2>1, <2>2, <2>3, <3>1, <1>5 DEF Sending
    <2>4. CASE Len(left[c]) # 1 BY <2>2, <2>4, <1>1, <1>5 DEF Sending
    <2>5. QED BY <2>3, <2>4
  <1>8. InHand' /\ Phases' BY <1>1, <1>3 DEF Inv, InHand, Phases, Settled
  <1>9. Kept'
    <2>1. SUFFICES ASSUME NEW d \in Clients, enq'[d] \in {"sending", "accepted"}
                   PROVE  BatchLogs(d) \subseteq Somewhere(d)'
      BY DEF Kept, BatchLogs
    <2>2. enq[d] \in {"sending", "accepted"} BY <2>1, <1>1, <1>3
    <2>3. BatchLogs(d) \subseteq Somewhere(d) BY <2>2 DEF Inv, Kept
    <2>4. ToSet(left[d]) \subseteq ToSet(left'[d]) \cup ToSet(buf')
      BY <1>2, <1>3, <1>4
    <2>5. QED BY <2>3, <2>4, <1>3, <1>4 DEF Somewhere, Settled
  <1>10. InBuf' = InBuf + 1 /\ InLeft' = InLeft - 1 /\ UNCHANGED <<InPending, InCur>>
    <2>1. InBuf' = InBuf + 1 BY <1>4 DEF InBuf
    <2>2. UNCHANGED <<InPending, InCur>> BY <1>3 DEF InPending, InCur
    <2>3. InLeft = Len(left[c]) BY <1>1 DEF InLeft
    <2>4. CASE Len(left[c]) = 1
      <3>1. InLeft' = 0 BY <2>4, <1>5 DEF InLeft
      <3>2. QED BY <2>1, <2>2, <2>3, <2>4, <3>1
    <2>5. CASE Len(left[c]) # 1
      <3>1. InLeft' = Len(Tail(left[c])) BY <2>5, <1>1, <1>3, <1>5 DEF InLeft
      <3>2. QED BY <2>1, <2>2, <2>3, <3>1, <1>2
    <2>6. QED BY <2>4, <2>5
  <1>11. Counted' BY <1>1, <1>3, <1>10, CountsNat DEF Inv, Counted
  <1>12. Room' BY <1>1, <1>10, CountsNat DEF Inv, Room
  <1>13. QED BY <1>6, <1>7, <1>8, <1>9, <1>11, <1>12 DEF Inv

\* The context is cancelled.
LEMMA CancelKeepsInv == ASSUME Inv, Cancel PROVE Inv'
  BY DEF Inv, Cancel, PipelineTypeOK, Sending, InHand, Phases, Kept, Somewhere, Settled,
         Counted, Room, InBuf, InPending, InCur, InLeft

-----------------------------------------------------------------------------
(* Run *)

\* A log is taken from the channel.
LEMMA RunTakeKeepsInv == ASSUME Inv, RunTake PROVE Inv'
  <1>1. PipelineTypeOK /\ buf \in Seq(Logs) /\ buf # <<>> /\ None \notin Logs
    BY PipelineAssumption DEF Inv, RunTake, PipelineTypeOK
  <1>2. /\ cur' \in Logs /\ cur' # None /\ buf' \in Seq(Logs) /\ Len(buf') = Len(buf) - 1
        /\ ToSet(buf) = {cur'} \cup ToSet(buf')
    BY <1>1, ToSetTail DEF RunTake
  <1>3. PipelineTypeOK' BY <1>1, <1>2 DEF RunTake, PipelineTypeOK
  <1>4. Sending' BY DEF Inv, RunTake, Sending
  <1>5. cur = None BY DEF Inv, InHand, RunTake
  <1>6. InHand' /\ Phases' BY <1>1, <1>2 DEF Inv, RunTake, InHand, Phases
  <1>7. Kept' BY <1>2, <1>5, PipelineAssumption, SomewhereStep DEF Inv, RunTake
  <1>8. /\ InBuf' = InBuf - 1 /\ InCur = 0 /\ InCur' = 1 /\ InPending' = InPending
        /\ InLeft' = InLeft /\ unflushed' = unflushed
    BY <1>2, <1>5 DEF RunTake, InBuf, InCur, InPending, InLeft
  <1>9. Counted' BY <1>1, <1>8, CountsNat DEF Inv, Counted
  <1>10. Room' BY <1>1, <1>8, CountsNat, PipelineAssumption DEF Inv, Room, RunTake
  <1>11. QED BY <1>3, <1>4, <1>6, <1>7, <1>9, <1>10 DEF Inv

\* It joins the batch.
LEMMA RunKeepKeepsInv == ASSUME Inv, RunKeep PROVE Inv'
  <1>1. PipelineTypeOK /\ pending \in Seq(Logs) /\ cur \in Logs /\ cur # None
    BY DEF Inv, RunKeep, PipelineTypeOK, InHand
  <1>2. /\ pending' \in Seq(Logs) /\ pending' # <<>> /\ Len(pending') = Len(pending) + 1
        /\ ToSet(pending') = ToSet(pending) \cup {cur}
    BY <1>1, ToSetAppend DEF RunKeep
  <1>3. PipelineTypeOK' BY <1>1, <1>2 DEF RunKeep, PipelineTypeOK
  <1>4. Sending' BY DEF Inv, RunKeep, Sending
  <1>5. InHand' /\ Phases' BY <1>2 DEF Inv, RunKeep, InHand, Phases
  <1>6. Kept' BY <1>2, PipelineAssumption, SomewhereStep DEF Inv, RunKeep
  <1>7. /\ InBuf' = InBuf /\ InCur = 1 /\ InCur' = 0 /\ InPending' = InPending + 1
        /\ InLeft' = InLeft /\ unflushed' = unflushed
    BY <1>1, <1>2 DEF RunKeep, InBuf, InCur, InPending, InLeft
  <1>8. Counted' BY <1>1, <1>7, CountsNat DEF Inv, Counted
  <1>9. Room' BY <1>7 DEF Inv, Room, RunKeep
  <1>10. QED BY <1>3, <1>4, <1>5, <1>6, <1>8, <1>9 DEF Inv

\* A rule drops it ...
LEMMA RunDropKeepsInv == ASSUME Inv, RunDrop PROVE Inv'
  <1>1. PipelineTypeOK /\ cur \in Logs /\ cur # None
    BY DEF Inv, RunDrop, PipelineTypeOK, InHand
  <1>2. PipelineTypeOK' BY <1>1 DEF RunDrop, PipelineTypeOK
  <1>3. Sending' /\ InHand' /\ Phases'
    BY <1>1 DEF Inv, RunDrop, Sending, InHand, Phases
  <1>4. Kept' BY PipelineAssumption, SomewhereStep DEF Inv, RunDrop
  <1>5. Counted' /\ Room'
    BY DEF Inv, RunDrop, Counted, Room, InBuf, InPending, InCur, InLeft
  <1>6. QED BY <1>2, <1>3, <1>4, <1>5 DEF Inv

\* ... and it is settled.
LEMMA RunDroppedKeepsInv == ASSUME Inv, RunDropped PROVE Inv'
  <1>1. PipelineTypeOK /\ cur # None /\ cur \in dropped
    BY DEF Inv, RunDropped, PipelineTypeOK, InHand
  <1>2. /\ InCur = 1 /\ InCur' = 0 /\ UNCHANGED <<InBuf, InPending, InLeft>>
        /\ unflushed' = unflushed - 1
    BY <1>1 DEF RunDropped, InBuf, InCur, InPending, InLeft
  <1>3. Counted' /\ unflushed' \in Nat BY <1>1, <1>2, CountsNat DEF Inv, Counted
  <1>4. PipelineTypeOK' BY <1>1, <1>3 DEF RunDropped, PipelineTypeOK
  <1>5. Sending' /\ InHand' /\ Phases' BY <1>1 DEF Inv, RunDropped, Sending, InHand, Phases
  <1>6. Kept' BY <1>1, PipelineAssumption, SomewhereStep DEF Inv, RunDropped
  <1>7. Room' BY <1>2 DEF Inv, Room, RunDropped
  <1>8. QED BY <1>3, <1>4, <1>5, <1>6, <1>7 DEF Inv

\* The ticker, ctx.Done, the stop and the end of the drain move no log.
LEMMA RunMovesKeepInv ==
  ASSUME Inv, RunTick \/ RunSeesDone \/ RunStop \/ RunDrained PROVE Inv'
  <1>1. UNCHANGED <<buf, mu, unflushed, clientVars, cancelled, cur, pending, notify, fates>>
    BY DEF RunTick, RunSeesDone, RunStop, RunDrained
  <1>2. PipelineTypeOK'
    BY <1>1 DEF Inv, PipelineTypeOK, RunTick, RunSeesDone, RunStop, RunDrained
  <1>3. Sending' BY <1>1 DEF Inv, Sending
  <1>4. InHand'
    BY <1>1 DEF Inv, InHand, RunTick, RunSeesDone, RunStop, RunDrained
  <1>5. Phases'
    BY <1>1 DEF Inv, Phases, InHand, RunTick, RunSeesDone, RunStop, RunDrained
  <1>6. Kept' BY <1>1 DEF Inv, Kept, Somewhere, Settled
  <1>7. Counted' /\ Room'
    BY <1>1 DEF Inv, Counted, Room, InBuf, InPending, InCur, InLeft
  <1>8. QED BY <1>2, <1>3, <1>4, <1>5, <1>6, <1>7 DEF Inv

-----------------------------------------------------------------------------
(* flush *)

\* The batch is written.
LEMMA FlushWritesKeepsInv == ASSUME Inv, FlushWrites PROVE Inv'
  <1>1. /\ PipelineTypeOK /\ pending \in Seq(Logs) /\ stored \in Seq(Logs)
        /\ UNCHANGED <<buf, mu, stopped, unflushed, clientVars, cancelled, mode, cur, pending,
                       failed, dropped>>
        /\ runPc = "write" /\ runPc' = "notify" /\ notify' = pending
    BY DEF Inv, FlushWrites, PipelineTypeOK
  <1>2. stored' \in Seq(Logs) /\ ToSet(stored') = ToSet(stored) \cup ToSet(pending)
    BY <1>1, ToSetConcat DEF FlushWrites
  <1>3. PipelineTypeOK' BY <1>1, <1>2 DEF PipelineTypeOK
  <1>4. Sending' /\ Phases' BY <1>1 DEF Inv, Sending, Phases
  <1>5. InHand'
    <2>1. ToSet(pending') \subseteq Settled' BY <1>1, <1>2 DEF Settled
    <2>2. QED BY <2>1, <1>1 DEF Inv, InHand
  <1>6. Kept' BY <1>1, <1>2, PipelineAssumption, SomewhereStep DEF Inv
  <1>7. Counted' /\ Room' BY <1>1 DEF Inv, Counted, Room, InBuf, InPending, InCur, InLeft
  <1>8. QED BY <1>3, <1>4, <1>5, <1>6, <1>7 DEF Inv

\* The write fails and the batch is given up.
LEMMA FlushFailsKeepsInv == ASSUME Inv, FlushFails PROVE Inv'
  <1>1. /\ PipelineTypeOK /\ ToSet(pending) \subseteq Logs
        /\ UNCHANGED <<buf, mu, stopped, unflushed, clientVars, cancelled, mode, cur, pending,
                       notify, stored, dropped>>
        /\ runPc = "write" /\ runPc' = "account" /\ failed' = failed \cup ToSet(pending)
    BY ToSetType DEF Inv, FlushFails, PipelineTypeOK
  <1>2. PipelineTypeOK' BY <1>1 DEF PipelineTypeOK
  <1>3. Sending' /\ Phases' BY <1>1 DEF Inv, Sending, Phases
  <1>4. InHand' BY <1>1 DEF Inv, InHand, Settled
  <1>5. Kept' BY <1>1, PipelineAssumption, SomewhereStep DEF Inv
  <1>6. Counted' /\ Room' BY <1>1 DEF Inv, Counted, Room, InBuf, InPending, InCur, InLeft
  <1>7. QED BY <1>2, <1>3, <1>4, <1>5, <1>6 DEF Inv

\* An event of the batch is notified, or none is left.
LEMMA FlushNotifyKeepsInv ==
  ASSUME Inv, FlushNotified \/ \E l \in Events : FlushNotify(l) PROVE Inv'
  <1>1. /\ PipelineTypeOK /\ runPc = "notify" /\ runPc' \in {"notify", "account"}
        /\ UNCHANGED <<buf, mu, stopped, unflushed, clientVars, cancelled, mode, cur, pending,
                       fates>>
        /\ runPc' = "account" => notify' = <<>>
    BY DEF Inv, FlushNotified, FlushNotify
  <1>2. notify' \in Seq(Logs)
    <2>1. CASE FlushNotified BY <2>1 DEF FlushNotified
    <2>2. CASE \E l \in Events : FlushNotify(l)
      <3>1. PICK i \in 1..Len(notify) : notify' = SubSeq(notify, i + 1, Len(notify))
        BY <2>2 DEF FlushNotify
      <3>2. notify \in Seq(Logs) BY <1>1 DEF PipelineTypeOK
      <3>3. QED BY <3>1, <3>2
    <2>3. QED BY <2>1, <2>2
  <1>3. PipelineTypeOK' BY <1>1, <1>2 DEF PipelineTypeOK
  <1>4. Sending' /\ Phases' BY <1>1 DEF Inv, Sending, Phases
  <1>5. InHand' BY <1>1 DEF Inv, InHand, Settled
  <1>6. Kept' BY <1>1 DEF Inv, Kept, Somewhere, Settled
  <1>7. Counted' /\ Room' BY <1>1 DEF Inv, Counted, Room, InBuf, InPending, InCur, InLeft
  <1>8. QED BY <1>3, <1>4, <1>5, <1>6, <1>7 DEF Inv

\* The batch is taken off the counter.
LEMMA FlushAccountKeepsInv == ASSUME Inv, FlushAccount PROVE Inv'
  <1>1. /\ PipelineTypeOK /\ runPc = "account" /\ pending' = <<>>
        /\ UNCHANGED <<buf, mu, stopped, clientVars, cancelled, mode, cur, notify, fates>>
        /\ ToSet(pending) \subseteq Settled
        /\ runPc' = IF mode = "last" THEN "returned" ELSE "select"
    BY DEF Inv, FlushAccount, InHand
  <1>2. unflushed' = unflushed - InPending /\ InPending' = 0 /\ UNCHANGED <<InBuf, InCur, InLeft>>
    BY <1>1 DEF FlushAccount, InBuf, InPending, InCur, InLeft
  <1>3. Counted' /\ unflushed' \in Nat BY <1>1, <1>2, CountsNat DEF Inv, Counted
  <1>4. PipelineTypeOK' BY <1>1, <1>3 DEF PipelineTypeOK
  <1>5. Sending' BY <1>1 DEF Inv, Sending
  <1>6. InHand' /\ Phases' BY <1>1 DEF Inv, InHand, Phases
  <1>7. Kept' BY <1>1, PipelineAssumption, SomewhereStep DEF Inv, Settled
  <1>8. Room' BY <1>1, <1>2 DEF Inv, Room
  <1>9. QED BY <1>3, <1>4, <1>5, <1>6, <1>7, <1>8 DEF Inv

-----------------------------------------------------------------------------
(* The invariant *)

\* Nothing was requested yet.
LEMMA InitInv == PipelineInit => Inv
  <1> SUFFICES ASSUME PipelineInit PROVE Inv OBVIOUS
  <1>1. PipelineTypeOK
    <2>1. <<>> \in Seq(Logs) OBVIOUS
    <2>2. left \in [Clients -> Seq(Logs)] BY <2>1 DEF PipelineInit
    <2>3. QED BY <2>1, <2>2 DEF PipelineInit, PipelineTypeOK
  <1>2. Sending
    BY PipelineAssumption DEF PipelineInit, Sending
  <1>3. InHand /\ Phases BY DEF PipelineInit, InHand, Phases
  <1>4. Kept BY DEF PipelineInit, Kept
  <1>5. InBuf = 0 /\ InPending = 0 /\ InCur = 0 /\ InLeft = 0
    BY DEF PipelineInit, InBuf, InPending, InCur, InLeft
  <1>6. Counted /\ Room BY <1>5 DEF PipelineInit, Counted, Room
  <1>7. QED BY <1>1, <1>2, <1>3, <1>4, <1>6 DEF Inv

\* A step that changes nothing.
LEMMA StutterKeepsInv == ASSUME Inv, UNCHANGED pipelineVars PROVE Inv'
  <1>1. UNCHANGED <<buf, mu, stopped, unflushed, enq, left, cancelled, runPc, mode, cur, pending,
                    notify, stored, failed, dropped>>
    BY DEF pipelineVars
  <1>2. QED
    BY <1>1 DEF Inv, PipelineTypeOK, Sending, InHand, Phases, Kept, Somewhere, Settled,
                Counted, Room, InBuf, InPending, InCur, InLeft

\* Every step keeps the invariant.
LEMMA NextInv == Inv /\ [PipelineNext]_pipelineVars => Inv'
  <1> SUFFICES ASSUME Inv, [PipelineNext]_pipelineVars PROVE Inv' OBVIOUS
  <1>1. ASSUME NEW c \in Clients, Request(c) PROVE Inv' BY <1>1, RequestKeepsInv
  <1>2. ASSUME NEW c \in Clients, Enqueue(c) PROVE Inv'
    BY <1>2, EnqueueRefusedKeepsInv, EnqueueReserveKeepsInv, EnqueueSendKeepsInv DEF Enqueue
  <1>3. CASE Cancel BY <1>3, CancelKeepsInv
  <1>4. CASE RunLoop
    BY <1>4, RunTakeKeepsInv, RunKeepKeepsInv, RunDroppedKeepsInv, RunMovesKeepInv DEF RunLoop
  <1>5. CASE RunDrop BY <1>5, RunDropKeepsInv
  <1>6. CASE Flush
    BY <1>6, FlushFailsKeepsInv, FlushNotifyKeepsInv, FlushAccountKeepsInv DEF Flush
  <1>7. CASE FlushWrites BY <1>7, FlushWritesKeepsInv
  <1>8. CASE \E l \in Events : FlushNotify(l) BY <1>8, FlushNotifyKeepsInv
  <1>9. CASE UNCHANGED pipelineVars BY <1>9, StutterKeepsInv
  <1>10. QED BY <1>1, <1>2, <1>3, <1>4, <1>5, <1>6, <1>7, <1>8, <1>9 DEF PipelineNext

\* It holds in every reachable state.
THEOREM InvHolds == PipelineSpec => []Inv
  BY InitInv, NextInv, PTL DEF PipelineSpec

\* Types: nothing but logs is sent, batched, notified or stored, and the counter is never
\* negative (atomic unflushed, of which Drain asks whether it is 0).
THEOREM TypeCorrect == PipelineSpec => []PipelineTypeOK
  <1>1. Inv => PipelineTypeOK BY DEF Inv
  <1>2. QED BY <1>1, InvHolds, PTL

\* The sends of Enqueue cannot block, whatever the sizes and whoever else calls it.
THEOREM SendsDoNotBlock == PipelineSpec => []SendsNeverBlock
  <1>1. Inv => SendsNeverBlock
    <2>1. SUFFICES ASSUME Inv, NEW c \in Clients, enq[c] = "sending"
                   PROVE  Len(buf) + Len(left[c]) <= BufferSize
      BY DEF SendsNeverBlock
    <2>2. mu = c /\ mu # None BY <2>1, PipelineAssumption DEF Inv, Sending
    <2>3. QED BY <2>1, <2>2 DEF Inv, Room, InBuf, InLeft
  <1>2. QED BY <1>1, InvHolds, PTL

\* unflushed counts exactly what was accepted and is not settled.
THEOREM CounterExact == PipelineSpec => []UnflushedExact
  <1>1. Inv => UnflushedExact
    BY DEF Inv, Counted, UnflushedExact, InBuf, InPending, InCur, InLeft
  <1>2. QED BY <1>1, InvHolds, PTL

\* At 0 nothing is in hand or on its way.
LEMMA DrainSoundFromInv == Inv => DrainSound
  <1>1. SUFFICES ASSUME Inv, unflushed = 0 PROVE DrainSound BY DEF DrainSound
  <1>2. PipelineTypeOK BY <1>1 DEF Inv
  <1>3. InBuf = 0 /\ InPending = 0 /\ InCur = 0 /\ InLeft = 0
    BY <1>1, <1>2, CountsNat DEF Inv, Counted
  <1>4. buf = <<>> /\ pending = <<>>
    BY <1>2, <1>3, LenEmpty DEF InBuf, InPending, PipelineTypeOK
  <1>5. cur = None BY <1>3 DEF InCur
  <1>6. notify = <<>> BY <1>1, <1>4 DEF Inv, InHand
  <1>7. ASSUME NEW c \in Clients, enq[c] \in {"sending", "accepted"}
        PROVE  BatchLogs(c) \subseteq Settled
    <2>1. left[c] \in Seq(Logs) /\ c # None BY <1>2, PipelineAssumption DEF PipelineTypeOK
    <2>2. left[c] = <<>>
      <3>1. CASE mu = c
        <4>1. Len(left[c]) = 0 BY <3>1, <1>3, <2>1 DEF InLeft
        <4>2. QED BY <4>1, <2>1, LenEmpty
      <3>2. CASE mu # c BY <3>2, <1>1 DEF Inv, Sending
      <3>3. QED BY <3>1, <3>2
    <2>3. ToSet(left[c]) = {} /\ ToSet(buf) = {} /\ ToSet(pending) = {}
      BY <2>1, <2>2, <1>2, <1>4, ToSetEmpty DEF PipelineTypeOK
    <2>4. BatchLogs(c) \subseteq Somewhere(c) BY <1>1, <1>7 DEF Inv, Kept
    <2>5. None \notin BatchLogs(c) BY PipelineAssumption, ToSetType DEF BatchLogs
    <2>6. QED BY <2>3, <2>4, <2>5, <1>5 DEF Somewhere
  <1>8. QED BY <1>6, <1>7 DEF DrainSound

\* Drain's test of the counter is sound: at 0, everything accepted is settled and notified.
THEOREM DrainIsSound == PipelineSpec => []DrainSound
  BY DrainSoundFromInv, InvHolds, PTL

\* When Run returns, every log it promised a write is settled, though requests raced the
\* shutdown.
THEOREM ShutdownStrandsNothing == PipelineSpec => []NothingStranded
  <1>1. Inv => NothingStranded
    <2>1. SUFFICES ASSUME Inv, runPc = "returned" PROVE NothingStranded BY DEF NothingStranded
    <2>2. buf = <<>> /\ pending = <<>> /\ mu = None /\ cur = None
      BY <2>1 DEF Inv, Phases, InHand
    <2>3. PipelineTypeOK BY <2>1 DEF Inv
    <2>4. ASSUME NEW c \in Clients
          PROVE  enq[c] # "sending" /\ (enq[c] = "accepted" => BatchLogs(c) \subseteq Settled)
      <3>1. left[c] \in Seq(Logs) /\ c # None BY <2>3, PipelineAssumption DEF PipelineTypeOK
      <3>2. enq[c] # "sending" /\ left[c] = <<>> BY <2>1, <2>2, <3>1 DEF Inv, Sending
      <3>3. ToSet(left[c]) = {} /\ ToSet(buf) = {} /\ ToSet(pending) = {}
        BY <3>1, <3>2, <2>2, <2>3, ToSetEmpty DEF PipelineTypeOK
      <3>4. enq[c] = "accepted" => BatchLogs(c) \subseteq Somewhere(c) BY <2>1 DEF Inv, Kept
      <3>5. None \notin BatchLogs(c) BY PipelineAssumption, ToSetType DEF BatchLogs
      <3>6. QED BY <3>2, <3>3, <3>4, <3>5, <2>2 DEF Somewhere
    <2>5. QED BY <2>2, <2>4 DEF NothingStranded
  <1>2. QED BY <1>1, InvHolds, PTL

-----------------------------------------------------------------------------
(* Order: logs are in line behind those stored, in the batch, in Run's hand, *)
(* in the channel and with the sender, and nobody overtakes.                 *)

Earlier(x, y) ==
  /\ x # y
  /\ \A c \in Clients : \A m, n \in 1..Len(Batch[c]) : Batch[c][m] = x /\ Batch[c][n] = y => m < n
InLine(s) == \A i, j \in 1..Len(s) : i < j => Earlier(s[i], s[j])
Precede(S, T) == \A x \in S, y \in T : Earlier(x, y)

Unwritten == IF runPc \in {"notify", "account"} THEN {} ELSE ToSet(pending)
Taken == IF runPc = "process" THEN {cur} ELSE {}
WithSender == UNION {ToSet(left[c]) : c \in Clients}

OrderInv ==
  /\ InLine(stored) /\ InLine(pending) /\ InLine(buf) /\ \A c \in Clients : InLine(left[c])
  /\ Precede(ToSet(stored), Unwritten \cup Taken \cup ToSet(buf) \cup WithSender)
  /\ Precede(Unwritten, Taken \cup ToSet(buf) \cup WithSender)
  /\ Precede(Taken, ToSet(buf) \cup WithSender)
  /\ Precede(ToSet(buf), WithSender)
  /\ \A c \in Clients : enq[c] \notin {"sending", "accepted"} =>
       BatchLogs(c) \cap (ToSet(stored) \cup Unwritten \cup Taken \cup ToSet(buf) \cup WithSender) = {}

\* Precede is about members.
LEMMA PrecedeParts ==
  ASSUME NEW S, NEW T, NEW U
  PROVE  /\ Precede(S, T \cup U) <=> Precede(S, T) /\ Precede(S, U)
         /\ Precede(S \cup T, U) <=> Precede(S, U) /\ Precede(T, U)
  BY DEF Precede

\* One more at the end.
LEMMA InLineAppend ==
  ASSUME NEW s \in Seq(Logs), NEW x \in Logs, InLine(s), Precede(ToSet(s), {x})
  PROVE  InLine(Append(s, x))
  <1> DEFINE t == Append(s, x)
  <1>1. /\ Len(t) = Len(s) + 1 /\ t[Len(s) + 1] = x /\ Len(s) \in Nat
        /\ \A i \in 1..Len(s) : t[i] = s[i]
    OBVIOUS
  <1> HIDE DEF t
  <1>2. ASSUME NEW i \in 1..Len(t), NEW j \in 1..Len(t), i < j PROVE Earlier(t[i], t[j])
    <2>1. i \in 1..Len(s) /\ t[i] = s[i] BY <1>1, <1>2
    <2>2. CASE j \in 1..Len(s) BY <1>1, <1>2, <2>1, <2>2 DEF InLine
    <2>3. CASE j = Len(s) + 1
      <3>1. s[i] \in ToSet(s) BY <2>1, ToSetMembers
      <3>2. QED BY <1>1, <2>1, <2>3, <3>1 DEF Precede
    <2>4. QED BY <1>1, <2>2, <2>3
  <1>3. InLine(t) BY <1>2 DEF InLine
  <1>4. QED BY <1>3 DEF t

\* The head and the tail.
LEMMA InLineTail ==
  ASSUME NEW s \in Seq(Logs), s # <<>>, InLine(s)
  PROVE  InLine(Tail(s)) /\ Precede({Head(s)}, ToSet(Tail(s)))
  <1> DEFINE t == Tail(s)
  <1>1. /\ t \in Seq(Logs) /\ Len(t) = Len(s) - 1 /\ Len(s) \in Nat \ {0} /\ Head(s) = s[1]
        /\ \A i \in 1..Len(t) : t[i] = s[i + 1]
    OBVIOUS
  <1> HIDE DEF t
  <1>2. \A i \in 1..Len(t) : i + 1 \in 1..Len(s) /\ 1 < i + 1 BY <1>1
  <1>3. InLine(t)
    <2>1. SUFFICES ASSUME NEW i \in 1..Len(t), NEW j \in 1..Len(t), i < j PROVE Earlier(t[i], t[j])
      BY DEF InLine
    <2>2. i + 1 < j + 1 BY <1>1, <2>1
    <2>3. QED BY <1>1, <1>2, <2>2 DEF InLine
  <1>4. ASSUME NEW y \in ToSet(t) PROVE Earlier(s[1], y)
    <2>1. PICK i \in 1..Len(t) : y = t[i] BY <1>1, <1>4, ToSetMembers
    <2>2. 1 \in 1..Len(s) BY <1>1
    <2>3. QED BY <1>1, <1>2, <2>1, <2>2 DEF InLine
  <1>5. Precede({Head(s)}, ToSet(t)) BY <1>1, <1>4 DEF Precede
  <1>6. QED BY <1>3, <1>5 DEF t

\* One line behind another.
LEMMA InLineConcat ==
  ASSUME NEW s \in Seq(Logs), NEW t \in Seq(Logs), InLine(s), InLine(t), Precede(ToSet(s), ToSet(t))
  PROVE  InLine(s \o t)
  <1> DEFINE u == s \o t
  <1>1. Len(u) = Len(s) + Len(t) /\ (\A i \in 1..Len(s) : u[i] = s[i])
        /\ \A i \in 1..Len(t) : u[Len(s) + i] = t[i]
    OBVIOUS
  <1>2. Len(s) \in Nat /\ Len(t) \in Nat OBVIOUS
  <1> HIDE DEF u
  <1>3. ASSUME NEW i \in 1..Len(u), i \notin 1..Len(s)
        PROVE  i - Len(s) \in 1..Len(t) /\ u[i] = t[i - Len(s)]
    <2>1. i - Len(s) \in 1..Len(t) /\ Len(s) + (i - Len(s)) = i BY <1>1, <1>2, <1>3
    <2>2. QED BY <1>1, <2>1
  <1>4. ASSUME NEW i \in 1..Len(u), NEW j \in 1..Len(u), i < j PROVE Earlier(u[i], u[j])
    <2>1. CASE j \in 1..Len(s)
      <3>1. i \in 1..Len(s) BY <1>2, <1>4, <2>1
      <3>2. QED BY <1>1, <1>4, <2>1, <3>1 DEF InLine
    <2>2. CASE i \in 1..Len(s) /\ j \notin 1..Len(s)
      <3>1. u[i] \in ToSet(s) BY <1>1, <2>2, ToSetMembers
      <3>2. u[j] \in ToSet(t) BY <1>3, <2>2, ToSetMembers
      <3>3. QED BY <3>1, <3>2 DEF Precede
    <2>3. CASE i \notin 1..Len(s) /\ j \notin 1..Len(s)
      <3>1. i - Len(s) < j - Len(s) BY <1>1, <1>2, <1>4
      <3>2. QED BY <1>3, <2>3, <3>1 DEF InLine
    <2>4. QED BY <2>1, <2>2, <2>3
  <1>5. InLine(u) BY <1>4 DEF InLine
  <1>6. QED BY <1>5 DEF u

\* A request's logs are in line, behind all that are not its own.
LEMMA BatchInLine ==
  ASSUME NEW c \in Clients
  PROVE  /\ InLine(Batch[c]) /\ InLine(<<>>)
         /\ \A S : BatchLogs(c) \cap S = {} => Precede(S, BatchLogs(c))
  <1>1. Batch[c] \in Seq(Logs) BY PipelineAssumption
  <1>2. \A d \in Clients : \A m \in 1..Len(Batch[c]), n \in 1..Len(Batch[d]) :
          Batch[c][m] = Batch[d][n] => c = d /\ m = n
    BY PipelineAssumption
  <1>3. InLine(Batch[c])
    <2>1. SUFFICES ASSUME NEW i \in 1..Len(Batch[c]), NEW j \in 1..Len(Batch[c]), i < j
                   PROVE  Earlier(Batch[c][i], Batch[c][j])
      BY DEF InLine
    <2>2. Batch[c][i] # Batch[c][j] BY <1>1, <1>2, <2>1
    <2>3. ASSUME NEW d \in Clients, NEW m \in 1..Len(Batch[d]), NEW n \in 1..Len(Batch[d]),
                 Batch[d][m] = Batch[c][i], Batch[d][n] = Batch[c][j]
          PROVE  m < n
      <3>1. m = i /\ n = j BY <1>2, <2>3
      <3>2. QED BY <2>1, <3>1
    <2>4. QED BY <2>2, <2>3 DEF Earlier
  <1>4. ASSUME NEW S, BatchLogs(c) \cap S = {} PROVE Precede(S, BatchLogs(c))
    <2>1. SUFFICES ASSUME NEW x \in S, NEW y \in BatchLogs(c) PROVE Earlier(x, y)
      BY DEF Precede
    <2>2. x \notin BatchLogs(c) BY <1>4
    <2>3. PICK n \in 1..Len(Batch[c]) : y = Batch[c][n] BY <1>1, ToSetMembers DEF BatchLogs
    <2>4. ASSUME NEW d \in Clients, NEW i \in 1..Len(Batch[d]), NEW j \in 1..Len(Batch[d]),
                 Batch[d][i] = x, Batch[d][j] = y
          PROVE  FALSE
      <3>1. d = c BY <1>2, <2>3, <2>4
      <3>2. x \in BatchLogs(c) BY <1>1, <2>4, <3>1, ToSetMembers DEF BatchLogs
      <3>3. QED BY <2>2, <3>2
    <2>5. QED BY <2>2, <2>4 DEF Earlier
  <1>5. InLine(<<>>) BY DEF InLine
  <1>6. QED BY <1>3, <1>4, <1>5

\* The line in front of those that are still with a sender, and behind.
Ahead == ToSet(stored) \cup Unwritten \cup Taken \cup ToSet(buf)
Lines ==
  /\ Precede(ToSet(stored), Unwritten \cup Taken \cup ToSet(buf))
  /\ Precede(Unwritten, Taken \cup ToSet(buf)) /\ Precede(Taken, ToSet(buf))
Free == \A c \in Clients : enq[c] \notin {"sending", "accepted"} =>
          BatchLogs(c) \cap (Ahead \cup WithSender) = {}

\* OrderInv, by what is ahead of the senders and what is with them.
LEMMA OrderParts ==
  OrderInv <=> /\ InLine(stored) /\ InLine(pending) /\ InLine(buf) /\ \A c \in Clients : InLine(left[c])
               /\ Lines /\ Precede(Ahead, WithSender) /\ Free
  BY DEF OrderInv, Lines, Ahead, Free, Precede

\* Logs that leave the line, dropped, given up or accounted for, leave the rest in order.
LEMMA OrderShrinks ==
  ASSUME OrderInv, UNCHANGED <<stored, buf, left>>, InLine(pending'),
         Unwritten' \subseteq Unwritten, Taken' \subseteq Taken,
         \A c \in Clients : enq'[c] \notin {"sending", "accepted"} => enq[c] \notin {"sending", "accepted"}
  PROVE  OrderInv'
  <1>1. PICK U : U = Unwritten' OBVIOUS
  <1>2. PICK T : T = Taken' OBVIOUS
  <1>3. InLine(stored)' /\ InLine(pending)' /\ InLine(buf)' /\ \A c \in Clients : InLine(left[c])'
    BY DEF OrderInv, InLine, Earlier
  <1>4. WithSender' = WithSender BY DEF WithSender
  <1>5. /\ Precede(ToSet(stored), U \cup T \cup ToSet(buf) \cup WithSender)
        /\ Precede(U, T \cup ToSet(buf) \cup WithSender)
        /\ Precede(T, ToSet(buf) \cup WithSender)
        /\ Precede(ToSet(buf), WithSender)
    BY <1>1, <1>2 DEF OrderInv, Precede
  <1>6. ASSUME NEW c \in Clients, enq'[c] \notin {"sending", "accepted"}
        PROVE  BatchLogs(c) \cap (ToSet(stored) \cup U \cup T \cup ToSet(buf) \cup WithSender) = {}
    BY <1>1, <1>2, <1>6 DEF OrderInv
  <1>7. QED BY <1>1, <1>2, <1>3, <1>4, <1>5, <1>6 DEF OrderInv, Precede, Earlier, BatchLogs

\* The steps that move no log on.
LEMMA OrderStays ==
  ASSUME Inv, OrderInv,
         \/ \E c \in Clients : Request(c) \/ EnqueueRefused(c)
         \/ Cancel \/ RunTick \/ RunSeesDone \/ RunStop \/ RunDrained \/ RunDrop \/ RunDropped
         \/ FlushFails \/ FlushNotified \/ FlushAccount \/ \E l \in Events : FlushNotify(l)
         \/ UNCHANGED pipelineVars
  PROVE  OrderInv'
  <1>1. UNCHANGED <<stored, buf, left>>
    BY DEF Request, EnqueueRefused, Cancel, RunTick, RunSeesDone, RunStop, RunDrained, RunDrop, RunDropped,
           FlushFails, FlushNotified, FlushAccount, FlushNotify, pipelineVars
  <1>2. \A c \in Clients : enq'[c] \notin {"sending", "accepted"} => enq[c] \notin {"sending", "accepted"}
    BY DEF Inv, PipelineTypeOK, Request, EnqueueRefused, Cancel, RunTick, RunSeesDone, RunStop, RunDrained,
           RunDrop, RunDropped, FlushFails, FlushNotified, FlushAccount, FlushNotify, pipelineVars
  <1>3. CASE FlushAccount
    <2>1. pending' = <<>> /\ ToSet(pending') = {} /\ runPc' # "process" /\ InLine(pending')
      BY <1>3 DEF FlushAccount, InLine, ToSet
    <2>2. Unwritten' = {} /\ Taken' = {} BY <2>1 DEF Unwritten, Taken
    <2>3. QED BY <1>1, <1>2, <2>1, <2>2, OrderShrinks
  <1>4. CASE ~FlushAccount
    <2>1. pending' = pending
      BY <1>4 DEF Request, EnqueueRefused, Cancel, RunTick, RunSeesDone, RunStop, RunDrained, RunDrop,
                  RunDropped, FlushFails, FlushNotified, FlushNotify, pipelineVars
    <2>2. InLine(pending') BY <2>1 DEF OrderInv
    <2>3. (runPc \in {"notify", "account"} => runPc' \in {"notify", "account"})
          /\ (runPc' = "process" => runPc = "process" /\ cur' = cur)
      BY <1>4 DEF Request, EnqueueRefused, Cancel, RunTick, RunSeesDone, RunStop, RunDrained, RunDrop,
                  RunDropped, FlushFails, FlushNotified, FlushNotify, pipelineVars
    <2>4. Unwritten' \subseteq Unwritten /\ Taken' \subseteq Taken BY <2>1, <2>3 DEF Unwritten, Taken
    <2>5. QED BY <1>1, <1>2, <2>2, <2>4, OrderShrinks
  <1>5. QED BY <1>3, <1>4

\* What is in line keeps its order when it only moves up.
LEMMA OrderMoves ==
  ASSUME OrderInv, InLine(stored'), InLine(pending'), InLine(buf'), \A c \in Clients : InLine(left'[c]),
         Lines', Ahead' \cup WithSender' = Ahead \cup WithSender, Precede(Ahead', WithSender'),
         \A c \in Clients : enq'[c] \notin {"sending", "accepted"} => enq[c] \notin {"sending", "accepted"}
  PROVE  OrderInv'
  <1>1. Free' BY OrderParts DEF Free, BatchLogs
  <1>2. (Precede(Ahead, WithSender))' BY DEF Precede, Earlier
  <1>3. InLine(stored)' /\ InLine(pending)' /\ InLine(buf)' /\ \A c \in Clients : InLine(left[c])'
    BY DEF InLine, Earlier
  <1>4. QED BY <1>1, <1>2, <1>3 DEF OrderInv, Lines, Ahead, Free, Precede

\* A request's logs join the end of the line.
LEMMA ReserveKeepsOrder ==
  ASSUME Inv, OrderInv, NEW c \in Clients, EnqueueReserve(c) PROVE OrderInv'
  <1>1. /\ UNCHANGED <<stored, pending, buf, runPc, cur>>
        /\ left' = [left EXCEPT ![c] = Batch[c]] /\ enq' = [enq EXCEPT ![c] = "sending"]
        /\ enq[c] = "handler" /\ left \in [Clients -> Seq(Logs)]
        /\ DOMAIN enq = Clients
    BY DEF EnqueueReserve, Inv, PipelineTypeOK
  <1>2. left[c] = <<>> BY <1>1 DEF Inv, Sending
  <1>3. ToSet(left[c]) = {} BY <1>2 DEF ToSet
  <1>4. WithSender' = WithSender \cup BatchLogs(c)
    <2>1. \A d \in Clients : ToSet(left'[d]) = IF d = c THEN BatchLogs(c) ELSE ToSet(left[d])
      BY <1>1 DEF BatchLogs
    <2>2. QED BY <1>3, <2>1 DEF WithSender
  <1>5. Ahead' = Ahead /\ Lines' BY <1>1, OrderParts DEF Ahead, Lines, Unwritten, Taken, Precede, Earlier
  <1>6. BatchLogs(c) \cap (Ahead \cup WithSender) = {} BY <1>1, OrderParts DEF Free
  <1>7. Precede(Ahead, WithSender \cup BatchLogs(c))
    <2>1. Precede(Ahead, BatchLogs(c)) BY <1>6, BatchInLine
    <2>2. QED BY <2>1, OrderParts, PrecedeParts
  <1>8. InLine(stored') /\ InLine(pending') /\ InLine(buf') /\ \A d \in Clients : InLine(left'[d])
    BY <1>1, OrderParts, BatchInLine
  <1>9. Free'
    <2>1. SUFFICES ASSUME NEW d \in Clients, enq'[d] \notin {"sending", "accepted"}
                   PROVE  BatchLogs(d) \cap (Ahead' \cup WithSender') = {}
      BY DEF Free, BatchLogs
    <2>2. d # c /\ enq[d] \notin {"sending", "accepted"} BY <1>1, <2>1
    <2>3. BatchLogs(d) \cap (Ahead \cup WithSender) = {} BY <2>2, OrderParts DEF Free
    <2>4. BatchLogs(d) \cap BatchLogs(c) = {}
      <3>1. Batch[c] \in Seq(Logs) /\ Batch[d] \in Seq(Logs) BY PipelineAssumption
      <3>2. ASSUME NEW x, x \in BatchLogs(c), x \in BatchLogs(d) PROVE FALSE
        <4>1. PICK m \in 1..Len(Batch[c]) : x = Batch[c][m] BY <3>1, <3>2, ToSetMembers DEF BatchLogs
        <4>2. PICK n \in 1..Len(Batch[d]) : x = Batch[d][n] BY <3>1, <3>2, ToSetMembers DEF BatchLogs
        <4>3. c = d BY <4>1, <4>2, PipelineAssumption
        <4>4. QED BY <2>2, <4>3
      <3>3. QED BY <3>2
    <2>5. QED BY <1>4, <1>5, <2>3, <2>4
  <1>10. (Precede(Ahead, WithSender))' BY <1>4, <1>5, <1>7 DEF Precede, Earlier
  <1>11. InLine(stored)' /\ InLine(pending)' /\ InLine(buf)' /\ \A d \in Clients : InLine(left[d])'
    BY <1>8 DEF InLine, Earlier
  <1>12. QED BY <1>5, <1>9, <1>10, <1>11 DEF OrderInv, Lines, Ahead, Free, Precede

\* One log goes from its sender to the channel.
LEMMA SendKeepsOrder ==
  ASSUME Inv, OrderInv, NEW c \in Clients, EnqueueSend(c) PROVE OrderInv'
  <1>1. /\ enq[c] = "sending" /\ left \in [Clients -> Seq(Logs)] /\ buf \in Seq(Logs)
        /\ enq \in [Clients -> {"idle", "handler", "full", "sending", "accepted"}]
        /\ UNCHANGED <<stored, pending, runPc, cur>>
        /\ \A d \in Clients : d # c => left[d] = <<>>
    BY PipelineAssumption DEF EnqueueSend, Inv, PipelineTypeOK, Sending
  <1>2. PICK s \in Seq(Logs) : s = left[c] BY <1>1
  <1>3. s # <<>> BY <1>1, <1>2 DEF Inv, Sending
  <1>4. PICK x \in Logs : x = Head(s)
    BY <1>3, ToSetTail
  <1> PICK t \in Seq(Logs) : t = Tail(s)
    BY <1>3, ToSetTail
  <1>0. ToSet(s) = {x} \cup ToSet(t)
    BY <1>3, <1>4, ToSetTail
  <1>5. buf' = Append(buf, x) /\ left' = [left EXCEPT ![c] = t]
    BY <1>2, <1>4 DEF EnqueueSend
  <1>6. ToSet(buf') = ToSet(buf) \cup {x} BY <1>1, <1>5, ToSetAppend
  <1>7. WithSender = {x} \cup ToSet(t) /\ WithSender' = ToSet(t)
    <2>1. ToSet(<<>>) = {} BY DEF ToSet
    <2>2. \A d \in Clients : ToSet(left[d]) = (IF d = c THEN {x} \cup ToSet(t) ELSE {})
                             /\ ToSet(left'[d]) = (IF d = c THEN ToSet(t) ELSE {})
      BY <1>0, <1>1, <1>2, <1>5, <2>1
    <2>3. QED BY <2>2 DEF WithSender
  <1>8. InLine(t) /\ Precede({x}, ToSet(t)) /\ InLine(<<>>)
    <2>1. InLine(s) BY <1>2 DEF OrderInv
    <2>2. QED BY <1>3, <1>4, <2>1, InLineTail, BatchInLine
  <1>9. Precede(Ahead, {x}) /\ Precede(Ahead, ToSet(t))
    BY <1>7, OrderParts, PrecedeParts
  <1>10. Ahead' = Ahead \cup {x}
    BY <1>1, <1>6 DEF Ahead, Unwritten, Taken
  <1>11. Precede(Ahead', WithSender') BY <1>7, <1>8, <1>9, <1>10, PrecedeParts
  <1>12. InLine(buf')
    <2>1. Precede(ToSet(buf), {x}) BY <1>9 DEF Ahead, Precede
    <2>2. QED BY <1>1, <1>5, <2>1, InLineAppend DEF OrderInv
  <1>13. \A d \in Clients : InLine(left'[d]) BY <1>1, <1>5, <1>8 DEF OrderInv
  <1>14. Lines'
    <2>1. Lines /\ Precede(Ahead, {x}) BY <1>9, OrderParts
    <2>2. Unwritten' = Unwritten /\ Taken' = Taken /\ stored' = stored BY <1>1 DEF Unwritten, Taken
    <2>3. QED BY <1>6, <2>1, <2>2 DEF Lines, Ahead, Precede, Earlier
  <1>15. \A d \in Clients : enq'[d] \notin {"sending", "accepted"} => enq[d] \notin {"sending", "accepted"}
    BY <1>1 DEF EnqueueSend
  <1>16. Ahead' \cup WithSender' = Ahead \cup WithSender BY <1>7, <1>10
  <1>17. InLine(stored') /\ InLine(pending') BY <1>1 DEF OrderInv
  <1>18. QED BY <1>11, <1>12, <1>13, <1>14, <1>15, <1>16, <1>17, OrderMoves

\* Run takes the first of the channel.
LEMMA TakeKeepsOrder == ASSUME Inv, OrderInv, RunTake PROVE OrderInv'
  <1>1. /\ buf \in Seq(Logs) /\ buf # <<>> /\ runPc = "select" /\ runPc' = "process"
        /\ UNCHANGED <<stored, pending, left, enq>>
    BY DEF RunTake, Inv, PipelineTypeOK
  <1> PICK x \in Logs : x = Head(buf)
    BY <1>1, ToSetTail
  <1> PICK t \in Seq(Logs) : t = Tail(buf)
    BY <1>1, ToSetTail
  <1>2. x = Head(buf) /\ t = Tail(buf) /\ ToSet(buf) = {x} \cup ToSet(t)
    BY <1>1, ToSetTail
  <1>3. cur' = x /\ buf' = t BY <1>2 DEF RunTake
  <1>4. InLine(t) /\ Precede({x}, ToSet(t)) BY <1>1, <1>2, InLineTail DEF OrderInv
  <1>5. Taken = {} /\ Taken' = {x} /\ Unwritten' = Unwritten BY <1>1, <1>3 DEF Taken, Unwritten
  <1>6. Ahead' = Ahead /\ WithSender' = WithSender BY <1>1, <1>2, <1>3, <1>5 DEF Ahead, WithSender
  <1>7. Lines'
    <2>1. Lines BY OrderParts
    <2>2. QED BY <1>1, <1>2, <1>3, <1>4, <1>5, <2>1 DEF Lines, Precede, Earlier
  <1>8. InLine(stored') /\ InLine(pending') /\ InLine(buf') /\ (\A c \in Clients : InLine(left'[c]))
        /\ Precede(Ahead', WithSender')
    BY <1>1, <1>3, <1>4, <1>6, OrderParts
  <1>9. \A d \in Clients : enq'[d] \notin {"sending", "accepted"} => enq[d] \notin {"sending", "accepted"}
    BY <1>1
  <1>10. QED BY <1>6, <1>7, <1>8, <1>9, OrderMoves

\* The log in hand joins the batch.
LEMMA KeepKeepsOrder == ASSUME Inv, OrderInv, RunKeep PROVE OrderInv'
  <1>1. /\ pending \in Seq(Logs) /\ runPc = "process" /\ runPc' \in {"write", "select"}
        /\ UNCHANGED <<stored, buf, left, enq>> /\ pending' = Append(pending, cur)
    BY DEF RunKeep, Inv, PipelineTypeOK
  <1>2. cur \in Logs BY <1>1 DEF Inv, InHand, PipelineTypeOK
  <1>3. ToSet(pending') = ToSet(pending) \cup {cur} BY <1>1, <1>2, ToSetAppend
  <1>4. Taken = {cur} /\ Taken' = {} /\ Unwritten = ToSet(pending) /\ Unwritten' = ToSet(pending) \cup {cur}
    BY <1>1, <1>3 DEF Taken, Unwritten
  <1>5. Ahead' = Ahead /\ WithSender' = WithSender BY <1>1, <1>4 DEF Ahead, WithSender
  <1>6. Lines /\ Precede(ToSet(pending), {cur}) BY <1>4, OrderParts, PrecedeParts DEF Lines
  <1>7. Lines' BY <1>1, <1>4, <1>6 DEF Lines, Precede, Earlier
  <1>8. InLine(pending') BY <1>1, <1>2, <1>6, InLineAppend DEF OrderInv
  <1>9. InLine(stored') /\ InLine(buf') /\ (\A c \in Clients : InLine(left'[c])) /\ Precede(Ahead', WithSender')
    BY <1>1, <1>5, OrderParts
  <1>10. \A d \in Clients : enq'[d] \notin {"sending", "accepted"} => enq[d] \notin {"sending", "accepted"}
    BY <1>1
  <1>11. QED BY <1>5, <1>7, <1>8, <1>9, <1>10, OrderMoves

\* The batch is written behind what was stored before.
LEMMA WritesKeepsOrder == ASSUME Inv, OrderInv, FlushWrites PROVE OrderInv'
  <1>1. /\ pending \in Seq(Logs) /\ stored \in Seq(Logs) /\ runPc = "write" /\ runPc' = "notify"
        /\ UNCHANGED <<pending, buf, left, enq, cur>> /\ stored' = stored \o pending
    BY DEF FlushWrites, Inv, PipelineTypeOK
  <1>2. ToSet(stored') = ToSet(stored) \cup ToSet(pending) BY <1>1, ToSetConcat
  <1>3. Taken = {} /\ Taken' = {} /\ Unwritten = ToSet(pending) /\ Unwritten' = {}
    BY <1>1 DEF Taken, Unwritten
  <1>4. Ahead' = Ahead /\ WithSender' = WithSender BY <1>1, <1>2, <1>3 DEF Ahead, WithSender
  <1>5. Lines /\ Precede(ToSet(stored), ToSet(pending)) BY <1>3, OrderParts DEF Lines, Precede
  <1>6. Lines' BY <1>1, <1>2, <1>3, <1>5 DEF Lines, Precede, Earlier
  <1>7. InLine(stored') BY <1>1, <1>5, InLineConcat DEF OrderInv
  <1>8. InLine(pending') /\ InLine(buf') /\ (\A c \in Clients : InLine(left'[c])) /\ Precede(Ahead', WithSender')
    BY <1>1, <1>4, OrderParts
  <1>9. \A d \in Clients : enq'[d] \notin {"sending", "accepted"} => enq[d] \notin {"sending", "accepted"}
    BY <1>1
  <1>10. QED BY <1>4, <1>6, <1>7, <1>8, <1>9, OrderMoves

\* Every step keeps the line in order.
LEMMA StepKeepsOrder == Inv /\ OrderInv /\ [PipelineNext]_pipelineVars => OrderInv'
  <1> SUFFICES ASSUME Inv, OrderInv, [PipelineNext]_pipelineVars PROVE OrderInv' OBVIOUS
  <1>1. ASSUME NEW c \in Clients, Request(c) \/ Enqueue(c) PROVE OrderInv'
    BY <1>1, OrderStays, ReserveKeepsOrder, SendKeepsOrder DEF Enqueue
  <1>2. CASE RunLoop BY <1>2, OrderStays, TakeKeepsOrder, KeepKeepsOrder DEF RunLoop
  <1>3. CASE Cancel \/ RunDrop \/ Flush \/ UNCHANGED pipelineVars BY <1>3, OrderStays DEF Flush
  <1>4. CASE FlushWrites BY <1>4, WritesKeepsOrder
  <1>5. CASE \E l \in Events : FlushNotify(l) BY <1>5, OrderStays
  <1>6. QED BY <1>1, <1>2, <1>3, <1>4, <1>5 DEF PipelineNext

\* No log is written twice, and those of one request in the order it sent them, for any
\* clients, batches, sizes, failures and drops (log ids follow the order of writing).
THEOREM OrderIsKept == PipelineSpec => []StoredInOrder
  <1>1. PipelineInit => OrderInv
    <2>1. ToSet(<<>>) = {} /\ InLine(<<>>) BY DEF ToSet, InLine
    <2>2. QED BY <2>1 DEF PipelineInit, OrderInv, Unwritten, Taken, WithSender, Precede
  <1>2. OrderInv => StoredInOrder BY DEF OrderInv, InLine, Earlier, StoredInOrder
  <1>3. QED BY <1>1, <1>2, InitInv, NextInv, StepKeepsOrder, PTL DEF PipelineSpec

-----------------------------------------------------------------------------
(* The process around the pipeline *)

(* No handler runs once the server is down in time; the pipeline is empty once *)
(* it was drained in time.                                                     *)
Quiet == stopPc \notin {"up", "server"} /\ ~late => \A c \in Clients : ~Busy(c)
Drained == AlertsCancelled /\ ~late => unflushed = 0

(* Every fire is recorded, refused, counted as lost, queued or being delivered. *)
InWorker == IF workPc = "deliver" THEN {job} ELSE {}
Fires == fired = recorded \cup unrecorded \cup lost \cup ToSet(queue) \cup InWorker

(* The worker ends after it was cancelled, with nothing left in the queue and *)
(* nobody to fill it; the hook passes it only then.                           *)
WorkerEnds ==
  /\ workPc = "done" => AlertsCancelled /\ (~late => queue = <<>>)
  /\ stopPc \in {"drops", "dropsTaken", "closing", "closed"} => workPc = "done"
InTime == ~AlertsCancelled \/ ~late => tooLate = {}

StopTypes ==
  /\ stopPc \in {"up", "server", "drain", "alerts", "drops", "dropsTaken", "closing", "closed"}
  /\ late \in BOOLEAN /\ queue \in Seq(Logs) /\ workPc \in {"select", "deliver", "done"}

StopInv == StopTypes /\ Quiet /\ Drained /\ Fires /\ WorkerEnds /\ InTime

USE DEF workVars, dropVars, clientVars, runVars, fates

-----------------------------------------------------------------------------
(* The process implements the pipeline *)

\* Each step is one of the pipeline's, or none.
LEMMA AppStepMaps == [AppNext]_appVars => [PipelineNext]_pipelineVars
  <1> SUFFICES ASSUME [AppNext]_appVars PROVE [PipelineNext]_pipelineVars OBVIOUS
  <1>1. CASE \E c \in Clients : HandlerStarts(c) \/ EnqueueStep(c)
    BY <1>1 DEF HandlerStarts, EnqueueStep, PipelineNext
  <1>2. CASE Writer
    BY <1>2 DEF Writer, RunStep, RunDropCounted, StoreWrites, IssueEvent, PipelineNext
  <1>3. CASE Worker BY <1>3 DEF Worker, WorkTake, WorkRecord, WorkReturns
  <1>4. CASE LoopTakes \/ LoopEnds BY <1>4 DEF LoopTakes, LoopEnds
  <1>5. CASE StopBegins BY <1>5 DEF StopBegins
  <1>6. CASE StopHook
    BY <1>6 DEF StopHook, ServerStops, DrainReturns, AlertsDone, StopTakesDrops, StopFlushesDrops,
                StoreCloses, PipelineNext
  <1>7. CASE UNCHANGED appVars BY <1>7 DEF appVars
  <1>8. QED BY <1>1, <1>2, <1>3, <1>4, <1>5, <1>6, <1>7 DEF AppNext

\* The running process, with its store, worker, loops and stop hook, implements the pipeline.
THEOREM AppImplementsPipeline == AppSpec => PipelineSpec
  <1>1. AppInit => PipelineInit BY DEF AppInit
  <1>2. QED BY <1>1, AppStepMaps, PTL DEF AppSpec, PipelineSpec

\* So nothing it does beside the pipeline disturbs the counter, the sends that cannot block,
\* the drain, the shutdown or the order of writing.
THEOREM PipelineKeptInApp ==
  AppSpec => [](SendsNeverBlock /\ UnflushedExact /\ DrainSound /\ NothingStranded /\ StoredInOrder)
  BY AppImplementsPipeline, SendsDoNotBlock, CounterExact, DrainIsSound, ShutdownStrandsNothing,
     OrderIsKept, PTL

-----------------------------------------------------------------------------
(* The stop *)

\* With the counter at 0, Run has nothing in hand.
LEMMA NothingInHand ==
  ASSUME Inv, unflushed = 0
  PROVE  /\ buf = <<>> /\ pending = <<>> /\ cur = None /\ notify = <<>>
         /\ runPc \in {"select", "stopping", "returned"}
  <1>1. PipelineTypeOK BY DEF Inv
  <1>2. InBuf = 0 /\ InPending = 0 /\ InCur = 0 BY <1>1, CountsNat DEF Inv, Counted
  <1>3. buf = <<>> /\ pending = <<>>
    BY <1>1, <1>2, LenEmpty DEF InBuf, InPending, PipelineTypeOK
  <1>4. cur = None BY <1>2 DEF InCur
  <1>5. runPc \in {"select", "stopping", "returned"} BY <1>1, <1>3, <1>4 DEF Inv, InHand, PipelineTypeOK
  <1>6. QED BY <1>3, <1>4, <1>5 DEF Inv, InHand

\* A step of the pipeline leaves the counter at 0 unless a handler is at work.
LEMMA StaysDrained ==
  ASSUME Inv, unflushed = 0, \A c \in Clients : ~Busy(c),
         RunStep \/ RunDropCounted \/ StoreWrites \/ (\E c \in Clients : EnqueueStep(c))
         \/ \E l \in Events : IssueEvent(l)
  PROVE  unflushed' = 0
  <1>1. runPc \in {"select", "stopping", "returned"} BY NothingInHand
  <1>2. CASE \E c \in Clients : EnqueueStep(c)
    BY <1>2 DEF EnqueueStep, Enqueue, EnqueueRefused, EnqueueReserve, EnqueueSend, Busy
  <1>3. CASE RunStep
    BY <1>1, <1>3 DEF RunStep, RunLoop, Flush, RunTake, RunKeep, RunDropped, RunTick, RunSeesDone,
                      RunStop, RunDrained, FlushFails, FlushNotified, FlushAccount
  <1>4. CASE RunDropCounted \/ StoreWrites \/ \E l \in Events : IssueEvent(l)
    BY <1>4 DEF RunDropCounted, RunDrop, StoreWrites, FlushWrites, IssueEvent, FlushNotify
  <1>5. QED BY <1>2, <1>3, <1>4

\* A client becomes busy only through a new request.
LEMMA StaysQuiet ==
  ASSUME Inv, NEW c \in Clients, EnqueueStep(c), NEW d \in Clients, ~Busy(d) PROVE ~Busy(d)'
  BY DEF EnqueueStep, Enqueue, EnqueueRefused, EnqueueReserve, EnqueueSend, Busy, Inv, PipelineTypeOK

\* A fire is not made once the pipeline was drained in time.
LEMMA NoLateFire ==
  ASSUME Inv, StopInv, NEW l \in Events, IssueEvent(l) PROVE ~(AlertsCancelled /\ ~late)
  <1> SUFFICES ASSUME AlertsCancelled, ~late PROVE FALSE OBVIOUS
  <1>1. notify = <<>> BY NothingInHand DEF StopInv, Drained
  <1>2. PICK i \in 1..Len(notify) : notify[i] = l BY DEF IssueEvent, FlushNotify
  <1>3. Len(notify) = 0 BY <1>1
  <1>4. QED BY <1>2, <1>3
\* What the requests and the writer do outside the pipeline is nothing but the fires.
LEMMA PipelineStepKeepsStop ==
  ASSUME Inv, StopInv,
         (\E c \in Clients : HandlerStarts(c) \/ EnqueueStep(c)) \/ RunStep \/ RunDropCounted \/ StoreWrites
  PROVE  StopInv'
  <1>1. UNCHANGED <<stopPc, late, workVars>>
    BY DEF HandlerStarts, EnqueueStep, RunStep, RunDropCounted, StoreWrites
  <1>2. StopTypes' /\ Fires' /\ WorkerEnds' /\ InTime'
    BY <1>1 DEF StopInv, StopTypes, Fires, InWorker, WorkerEnds, InTime, AlertsCancelled
  <1>3. ASSUME Quiet, stopPc \notin {"up", "server"}, ~late, NEW c \in Clients PROVE ~Busy(c)'
    <2>1. \A d \in Clients : ~Busy(d) BY <1>3 DEF Quiet
    <2>2. ASSUME NEW d \in Clients, HandlerStarts(d) PROVE FALSE BY <1>3, <2>2 DEF HandlerStarts
    <2>3. ASSUME NEW d \in Clients, EnqueueStep(d) PROVE ~Busy(c)' BY <2>1, <2>3, StaysQuiet
    <2>4. ASSUME RunStep \/ RunDropCounted \/ StoreWrites PROVE ~Busy(c)'
      <3>1. enq' = enq
        BY <2>4 DEF RunStep, RunDropCounted, RunDrop, StoreWrites, RunLoop, Flush, RunTake, RunKeep,
                    RunDropped, RunTick, RunSeesDone, RunStop, RunDrained, FlushFails, FlushNotified,
                    FlushAccount, FlushWrites
      <3>2. QED BY <2>1, <3>1 DEF Busy
    <2>5. QED BY <2>2, <2>3, <2>4
  <1>4. Quiet' BY <1>1, <1>3 DEF Quiet, StopInv
  <1>5. Drained'
    <2>1. SUFFICES ASSUME AlertsCancelled, ~late PROVE unflushed' = 0
      BY <1>1 DEF Drained, AlertsCancelled
    <2>2. unflushed = 0 /\ \A c \in Clients : ~Busy(c)
      BY <2>1 DEF StopInv, Drained, Quiet, AlertsCancelled
    <2>3. ASSUME NEW d \in Clients, HandlerStarts(d) PROVE FALSE
      BY <2>1, <2>3 DEF HandlerStarts, AlertsCancelled
    <2>4. QED BY <2>2, <2>3, StaysDrained
  <1>6. QED BY <1>2, <1>4, <1>5 DEF StopInv

\* A fire is queued, or counted as lost; the worker is still there to take it, in time.
LEMMA IssueEventKeepsStop == ASSUME Inv, StopInv, NEW l \in Events, IssueEvent(l) PROVE StopInv'
  <1>1. /\ UNCHANGED <<stopPc, late, workPc, job, recorded, unrecorded, unflushed, enq>>
        /\ ~(AlertsCancelled /\ ~late) /\ l \in Logs /\ queue \in Seq(Logs)
    BY NoLateFire, PipelineAssumption DEF IssueEvent, FlushNotify, StopInv, StopTypes
  <1>2. Quiet' /\ Drained' BY <1>1 DEF StopInv, Quiet, Drained, Busy, AlertsCancelled
  <1>3. AlertsCancelled \/ tooLate' = tooLate BY DEF IssueEvent
  <1>4. InTime' BY <1>1, <1>3 DEF StopInv, InTime, AlertsCancelled
  <1>5. CASE UNCHANGED <<queue, fired, lost>>
    BY <1>1, <1>2, <1>4, <1>5 DEF StopInv, StopTypes, Fires, InWorker, WorkerEnds, AlertsCancelled
  <1>6. CASE fired' = fired \cup {l} /\ queue' = Append(queue, l) /\ lost' = lost
    <2>1. queue' \in Seq(Logs) BY <1>1, <1>6
    <2>2. ToSet(queue') = ToSet(queue) \cup {l} BY <1>1, <1>6, ToSetAppend
    <2>3. Fires' BY <1>1, <1>6, <2>2 DEF StopInv, Fires, InWorker
    <2>4. WorkerEnds' BY <1>1 DEF StopInv, WorkerEnds, AlertsCancelled
    <2>5. QED BY <1>1, <1>2, <1>4, <2>1, <2>3, <2>4 DEF StopInv, StopTypes
  <1>7. CASE fired' = fired \cup {l} /\ queue' = queue /\ lost' = lost \cup {l}
    BY <1>1, <1>2, <1>4, <1>7 DEF StopInv, StopTypes, Fires, InWorker, WorkerEnds, AlertsCancelled
  <1>8. QED BY <1>5, <1>6, <1>7 DEF IssueEvent

\* The worker takes a fire, records it and ends.
LEMMA WorkerKeepsStop == ASSUME StopInv, Worker PROVE StopInv'
  <1>1. UNCHANGED <<pipelineVars, stopPc, late, fired, lost, tooLate>>
    BY DEF Worker, WorkTake, WorkRecord, WorkReturns
  <1>2. Quiet' /\ Drained' /\ InTime'
    BY <1>1 DEF StopInv, Quiet, Drained, InTime, Busy, AlertsCancelled, pipelineVars
  <1>3. CASE WorkTake
    <2>1. queue \in Seq(Logs) /\ queue # <<>> BY <1>3 DEF WorkTake, StopInv, StopTypes
    <2>2. queue' \in Seq(Logs) /\ ToSet(queue) = {job'} \cup ToSet(queue')
      BY <1>3, <2>1, ToSetTail DEF WorkTake
    <2>3. Fires' BY <1>1, <1>3, <2>2 DEF WorkTake, StopInv, Fires, InWorker
    <2>4. WorkerEnds' BY <1>1, <1>3 DEF WorkTake, StopInv, WorkerEnds, AlertsCancelled
    <2>5. QED BY <1>1, <1>2, <1>3, <2>2, <2>3, <2>4 DEF WorkTake, StopInv, StopTypes
  <1>4. CASE WorkRecord
    BY <1>1, <1>2, <1>4 DEF WorkRecord, StopInv, StopTypes, Fires, InWorker, WorkerEnds, AlertsCancelled
  <1>5. CASE WorkReturns
    BY <1>1, <1>2, <1>5 DEF WorkReturns, StopInv, StopTypes, Fires, InWorker, WorkerEnds, AlertsCancelled
  <1>6. QED BY <1>3, <1>4, <1>5 DEF Worker

\* The drop flushes touch neither.
LEMMA LoopKeepsStop == ASSUME StopInv, LoopTakes \/ LoopEnds \/ UNCHANGED appVars PROVE StopInv'
  BY DEF LoopTakes, LoopEnds, StopInv, StopTypes, Quiet, Drained, Fires, InWorker, WorkerEnds, InTime,
         Busy, AlertsCancelled, appVars, pipelineVars

\* Each stage of the stop hook passes on what it waited for.
LEMMA StopStepKeepsStop == ASSUME StopInv, StopBegins \/ StopHook PROVE StopInv'
  <1>1. UNCHANGED <<workVars, enq, unflushed>>
    BY DEF StopBegins, StopHook, ServerStops, Cancel, DrainReturns, AlertsDone, StopTakesDrops,
           StopFlushesDrops, StoreCloses, pipelineVars
  <1>2. Fires' BY <1>1 DEF StopInv, Fires, InWorker
  <1>3. CASE StopBegins
    BY <1>1, <1>2, <1>3 DEF StopBegins, StopInv, StopTypes, Quiet, Drained, WorkerEnds, InTime, Busy,
                            AlertsCancelled
  <1>4. CASE ServerStops
    BY <1>1, <1>2, <1>4 DEF ServerStops, StopInv, StopTypes, Quiet, Drained, WorkerEnds, InTime, Busy,
                            AlertsCancelled
  <1>5. CASE DrainReturns
    BY <1>1, <1>2, <1>5 DEF DrainReturns, StopInv, StopTypes, Quiet, Drained, WorkerEnds, InTime, Busy,
                            AlertsCancelled
  <1>6. CASE AlertsDone \/ StopTakesDrops \/ StopFlushesDrops \/ StoreCloses
    BY <1>1, <1>2, <1>6 DEF AlertsDone, StopTakesDrops, StopFlushesDrops, StoreCloses, StopInv, StopTypes,
                            Quiet, Drained, WorkerEnds, InTime, Busy, AlertsCancelled
  <1>7. QED BY <1>3, <1>4, <1>5, <1>6 DEF StopHook

\* Every step does.
LEMMA AppNextKeepsStop == Inv /\ StopInv /\ [AppNext]_appVars => StopInv'
  BY PipelineStepKeepsStop, IssueEventKeepsStop, WorkerKeepsStop, LoopKeepsStop, StopStepKeepsStop
     DEF AppNext, Writer

\* The stages of a stop in time, for any number of clients, batches and queue sizes.
THEOREM StopInvHolds == AppSpec => [](Inv /\ StopInv)
  <1>1. AppInit => StopInv
    <2>1. ToSet(<<>>) = {} BY DEF ToSet
    <2>2. SUFFICES ASSUME AppInit PROVE StopInv OBVIOUS
    <2>3. StopTypes
      <3>1. queue = <<>> /\ <<>> \in Seq(Logs) BY <2>2 DEF AppInit
      <3>2. QED BY <2>2, <3>1 DEF AppInit, StopTypes
    <2>4. Quiet /\ Drained /\ WorkerEnds /\ InTime
      BY <2>2 DEF AppInit, Quiet, Drained, WorkerEnds, InTime, AlertsCancelled
    <2>5. Fires BY <2>1, <2>2 DEF AppInit, Fires, InWorker
    <2>6. QED BY <2>3, <2>4, <2>5 DEF StopInv
  <1>2. AppInit => Inv BY InitInv DEF AppInit
  <1>3. Inv /\ StopInv /\ [AppNext]_appVars => Inv' /\ StopInv'
    BY AppStepMaps, NextInv, AppNextKeepsStop
  <1>4. QED BY <1>1, <1>2, <1>3, PTL DEF AppSpec

\* When the store closes after a stop in time, no handler runs, every accepted log is settled,
\* no write or notification is under way, and every fire has its outcome.
THEOREM StopIsClean == AppSpec => []CleanStop
  <1>1. Inv /\ StopInv => CleanStop
    <2>1. SUFFICES ASSUME Inv, StopInv, stopPc = "closed", ~late PROVE CleanStop BY DEF CleanStop
    <2>2. unflushed = 0 /\ (\A c \in Clients : ~Busy(c)) /\ workPc = "done" /\ queue = <<>> /\ tooLate = {}
      BY <2>1 DEF StopInv, Drained, Quiet, WorkerEnds, InTime, AlertsCancelled
    <2>3. DrainSound BY <2>1, DrainSoundFromInv
    <2>4. ASSUME NEW c \in Clients, enq[c] = "accepted" PROVE BatchLogs(c) \subseteq Settled
      BY <2>2, <2>3, <2>4 DEF DrainSound
    <2>5. runPc # "write" /\ notify = <<>> BY <2>1, <2>2, NothingInHand
    <2>6. ToSet(queue) = {} /\ InWorker = {} BY <2>2 DEF ToSet, InWorker
    <2>7. fired = recorded \cup unrecorded \cup lost BY <2>1, <2>6 DEF StopInv, Fires
    <2>8. QED BY <2>2, <2>4, <2>5, <2>7 DEF CleanStop
  <1>2. QED BY <1>1, StopInvHolds, PTL
=============================================================================
