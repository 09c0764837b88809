--------------------------- MODULE SourcesProofs ----------------------------
(***************************************************************************)
(* A shipper with one source, for any containers, lines, channel, files    *)
(* and numbers of faults.                                                  *)
(*                                                                         *)
(*   TailedWhenQuiet     PlaceInv    a place is held by a tailer of its    *)
(*                                   container                             *)
(*                       StreamInv   the last event of a container says    *)
(*                                   whether it runs                       *)
(*                       FollowInv   a container that no waiting event is  *)
(*                                   about has a tailer                    *)
(*   NothingSkipped      TimesInv    times grow, and a resume time is that *)
(*                                   of a line                             *)
(*                       QueueInv    what comes before a line in the       *)
(*                                   channel, or before a tailer's place,  *)
(*                                   is safe or in the channel before it   *)
(*   RotationKeepsLines  FileInv     see there                             *)
(***************************************************************************)
EXTENDS ShipSources, FiniteSetTheorems, TLAPS

-----------------------------------------------------------------------------
(* The type invariant of the docker source *)

\* The daemon, the source and its tailers, the joiner loop.
DaemonTypes ==
  /\ runs \in [Containers -> Nat] /\ running \subseteq Containers
  /\ lines \in [Containers -> Seq(LineRows)] /\ stream \in Seq(Events) \cup {None}
TailTypes ==
  /\ tailers \in [Handles -> TailerRows \cup {None}]
  /\ cancels \in [Containers -> Handles \cup {None}] /\ blind \subseteq Containers
Stored == Containers \X Nat
JoinTypes ==
  /\ evCh \in Seq(SourceEvents)
  /\ joiners \in [Containers -> JoinRows \cup {None}]
  /\ since \in [Containers -> Nat \cup {None}] /\ sinceDisk \in [Containers -> Nat \cup {None}]

\* Who runs: the source only while it is up, and nobody when it is down.
PhaseTypes ==
  /\ up \in {"up", "stopping", "down"}
  /\ src \in {"list", "connect", "relist", "follow", "off"} /\ (up # "up" => src = "off")
  /\ src \in {"relist", "follow"} => stream # None
  /\ up = "down" => /\ \A h \in Handles : tailers[h] = None
                    /\ \A c \in Containers : cancels[c] = None
                    /\ evCh = <<>> /\ since = sinceDisk

SourcesTypeOK == DaemonTypes /\ TailTypes /\ JoinTypes /\ PhaseTypes

-----------------------------------------------------------------------------
(* Whose place is whose *)

PlaceOf(c) ==
  cancels[c] # None =>
    /\ tailers[cancels[c]] # None /\ tailers[cancels[c]].of = c
    /\ up = "up" => tailers[cancels[c]].live
PlaceInv == \A c \in Containers : PlaceOf(c)

\* The last event of c that waits in s, if one does, has act.
LastIs(s, c, act) ==
  \A k \in 1..Len(s) :
    (s[k].of = c /\ \A n \in 1..Len(s) : n > k => s[n].of # c) => s[k].act = act
StreamInv ==
  stream # None => \A c \in Containers : LastIs(stream, c, IF c \in running THEN "start" ELSE "die")

NoneWaits(c) == \A k \in 1..Len(stream) : stream[k].of # c
FollowInv ==
  src = "follow" => \A c \in (Selected \cap running) \ blind : NoneWaits(c) => cancels[c] # None

-----------------------------------------------------------------------------
(* What is where *)

\* A resume time is that of a line, and later lines have no earlier times.
Timed(c, s) == s = None \/ \E i \in 1..Len(lines[c]) : lines[c][i].time = s
TimesInv ==
  \A c \in Containers :
    /\ \A i, j \in 1..Len(lines[c]) : i <= j => lines[c][i].time <= lines[c][j].time
    /\ Timed(c, since[c]) /\ Timed(c, sinceDisk[c])

Safe(c, i) == <<c, i>> \in stored \cup counted \cup lost \cup Lines(c, joiners[c])
InQueue(c, i, n) == \E k \in 1..Len(evCh) : k < n /\ evCh[k].of = c /\ evCh[k].line = i

\* Before a line in the channel, and before the place of a tailer that reads.
QueuedAt(n) ==
  evCh[n].line # 0 =>
    /\ evCh[n].line <= Len(lines[evCh[n].of])
    /\ \A i \in 1..(evCh[n].line - 1) : Safe(evCh[n].of, i) \/ InQueue(evCh[n].of, i, n)
ReadBy(h) ==
  At(h, "read") => \A i \in 1..(tailers[h].pos - 1) : Safe(Of(h), i) \/ InQueue(Of(h), i, Len(evCh) + 1)
QueueInv == (\A n \in 1..Len(evCh) : QueuedAt(n)) /\ (\A h \in Handles : ReadBy(h))

SkippedInv ==
  \A c \in Containers : \A i \in 1..Len(lines[c]) :
    ~Safe(c, i) => Again(c, i, sinceDisk[c]) /\ Again(c, i, since[c])

-----------------------------------------------------------------------------
(* Types *)

\* The first of a sequence and the others.
LEMMA HeadAndTail ==
  ASSUME NEW S, NEW s \in Seq(S), s # <<>>
  PROVE  /\ Len(s) \in Nat \ {0} /\ Head(s) = s[1] /\ Head(s) \in S
         /\ Tail(s) \in Seq(S) /\ Len(Tail(s)) = Len(s) - 1
         /\ \A k \in 1..Len(Tail(s)) : Tail(s)[k] = s[k + 1]
  OBVIOUS

\* What a tailer is before it has opened a log.
NewTailer(c) == [of |-> c, run |-> 0, pc |-> "open", pos |-> 0, live |-> TRUE]

\* A container that is listed gets a tailer if it has none, with a handle
\* nobody has; every tailer there is stays.
Started(cs) ==
  /\ tailers' \in [Handles -> TailerRows \cup {None}] /\ cancels' \in [Containers -> Handles \cup {None}]
  /\ \A h \in Handles : tailers'[h] = tailers[h]
                        \/ (tailers[h] = None /\ \E c \in cs : tailers'[h] = NewTailer(c))
  /\ \A c \in Containers : cancels[c] # None => cancels'[c] = cancels[c]
  /\ \A c \in Containers :
       (cancels[c] = None /\ cancels'[c] # None) => tailers'[cancels'[c]] = NewTailer(c)
  /\ \A c \in cs \cap Selected : cancels'[c] # None
Gives(new, give) ==
  /\ \A c, d \in new : c # d => give[c] # give[d]
  /\ cancels' = [c \in Containers |-> IF c \in new THEN give[c] ELSE cancels[c]]
  /\ tailers' = [h \in Handles |->
       IF \E c \in new : give[c] = h
       THEN [of |-> CHOOSE c \in new : give[c] = h, run |-> 0, pc |-> "open", pos |-> 0, live |-> TRUE]
       ELSE tailers[h]]

\* The tailers that are started are told apart, and the containers that had one keep it.
LEMMA StartsStarts ==
  ASSUME TailTypes, NEW cs, cs \subseteq Containers, Starts(cs)
  PROVE  Started(cs)
  <1>1. PICK new : new = {c \in cs : c \in Selected /\ cancels[c] = None} OBVIOUS
  <1>2. PICK free : free = {h \in Handles : tailers[h] = None} OBVIOUS
  <1>3. PICK give \in [new -> free] : Gives(new, give)
    <2>1. \E give \in [{c \in cs : c \in Selected /\ cancels[c] = None} -> {h \in Handles : tailers[h] = None}] :
            Gives({c \in cs : c \in Selected /\ cancels[c] = None}, give)
      BY DEF Starts, Gives
    <2>2. QED BY <1>1, <1>2, <2>1
  <1>4. None \notin Handles BY SourcesAssumption
  <1>5. \A c \in new : give[c] \in free /\ give[c] \in Handles /\ give[c] # None BY <1>2, <1>3, <1>4
  <1>6. ASSUME NEW c \in new PROVE tailers'[give[c]] = NewTailer(c)
    <2>1. PICK h \in Handles : h = give[c] BY <1>5
    <2>2. \E d \in new : give[d] = h BY <2>1
    <2>3. PICK d : d = CHOOSE x \in new : give[x] = h OBVIOUS
    <2>4. d \in new /\ give[d] = h BY <2>2, <2>3
    <2>5. d = c BY <1>3, <2>1, <2>4 DEF Gives
    <2>6. tailers'[h] = [of |-> d, run |-> 0, pc |-> "open", pos |-> 0, live |-> TRUE]
      BY <1>3, <2>2, <2>3 DEF Gives
    <2>7. QED BY <2>1, <2>5, <2>6 DEF NewTailer
  <1>7. ASSUME NEW h \in Handles, ~\E c \in new : give[c] = h PROVE tailers'[h] = tailers[h]
    BY <1>3, <1>7 DEF Gives
  <1>8. \A h \in Handles : tailers'[h] = tailers[h]
                           \/ (tailers[h] = None /\ \E c \in cs : tailers'[h] = NewTailer(c))
    <2>1. TAKE h \in Handles
    <2>2. CASE \E c \in new : give[c] = h
      <3>1. PICK c \in new : give[c] = h BY <2>2
      <3>2. tailers[h] = None /\ c \in cs BY <1>1, <1>2, <1>5, <3>1
      <3>3. QED BY <1>6, <3>1, <3>2
    <2>3. CASE ~\E c \in new : give[c] = h BY <1>7, <2>3
    <2>4. QED BY <2>2, <2>3
  <1>9. \A c \in cs : NewTailer(c) \in TailerRows BY DEF NewTailer, TailerRows
  <1>10. tailers' \in [Handles -> TailerRows \cup {None}]
    <2>1. tailers' = [h \in Handles |-> tailers'[h]] BY <1>3 DEF Gives
    <2>2. \A h \in Handles : tailers'[h] \in TailerRows \cup {None} BY <1>8, <1>9 DEF TailTypes
    <2>3. QED BY <2>1, <2>2
  <1>11. cancels' \in [Containers -> Handles \cup {None}] BY <1>3, <1>5 DEF TailTypes, Gives
  <1>12. \A c \in Containers : cancels'[c] = IF c \in new THEN give[c] ELSE cancels[c] BY <1>3 DEF Gives
  <1>13. \A c \in Containers : cancels[c] # None => cancels'[c] = cancels[c] BY <1>1, <1>12
  <1>14. \A c \in Containers :
           (cancels[c] = None /\ cancels'[c] # None) => tailers'[cancels'[c]] = NewTailer(c)
    BY <1>6, <1>12
  <1>15. \A c \in cs \cap Selected : cancels'[c] # None BY <1>1, <1>5, <1>12
  <1>16. QED BY <1>8, <1>10, <1>11, <1>13, <1>14, <1>15 DEF Started

\* Every container and handle is told from None.
LEMMA NoneIsNone ==
  /\ None \notin Nat /\ None \notin Handles /\ None \notin Seq(Events)
  /\ None \notin TailerRows /\ None \notin JoinRows
  BY SourcesAssumption

\* Init.
LEMMA InitTypes == Init => SourcesTypeOK
  <1>1. SUFFICES ASSUME Init PROVE SourcesTypeOK OBVIOUS
  <1>2. DaemonTypes BY <1>1 DEF Init, SourcesInit, DaemonTypes, Empty
  <1>3. TailTypes BY <1>1 DEF Init, SourcesInit, TailTypes, Empty
  <1>4. JoinTypes BY <1>1 DEF Init, SourcesInit, JoinTypes, Empty
  <1>5. PhaseTypes BY <1>1 DEF Init, SourcesInit, PhaseTypes
  <1>6. QED BY <1>2, <1>3, <1>4, <1>5 DEF SourcesTypeOK

\* The daemon.
LEMMA DaemonKeepsTypes == ASSUME SourcesTypeOK, Daemon PROVE SourcesTypeOK'
  <1>0. DaemonTypes /\ TailTypes /\ JoinTypes /\ PhaseTypes BY DEF SourcesTypeOK
  <1>1. PICK c \in Containers : ContainerStarts(c) \/ ContainerDies(c) \/ WritesLine(c) BY DEF Daemon
  <1>2. /\ UNCHANGED <<tailVars, evCh, joinVars, sinceDisk, src, up>>
    BY <1>1 DEF ContainerStarts, ContainerDies, WritesLine
  <1>3. stream' \in Seq(Events) \cup {None} /\ (stream # None => stream' # None)
    <2>1. CASE WritesLine(c) BY <1>0, <2>1 DEF WritesLine, DaemonTypes
    <2>2. ASSUME NEW act \in {"start", "die"}, stream' = Emit(act, c)
          PROVE  stream' \in Seq(Events) \cup {None} /\ (stream # None => stream' # None)
      <3>1. CASE stream = None BY <2>2, <3>1 DEF Emit
      <3>2. CASE stream # None
        <4>1. stream \in Seq(Events) BY <1>0, <3>2 DEF DaemonTypes
        <4>2. [act |-> act, of |-> c] \in Events BY DEF Events
        <4>3. Append(stream, [act |-> act, of |-> c]) \in Seq(Events) BY <4>1, <4>2
        <4>4. QED BY <2>2, <3>2, <4>3, NoneIsNone DEF Emit
      <3>3. QED BY <3>1, <3>2
    <2>3. QED BY <1>1, <2>1, <2>2 DEF ContainerStarts, ContainerDies
  <1>4. lines' \in [Containers -> Seq(LineRows)]
    <2>1. CASE WritesLine(c)
      <3>1. PICK k \in Kinds, t \in Times : lines' = [lines EXCEPT ![c] = Append(@, [kind |-> k, time |-> t])]
        BY <2>1 DEF WritesLine
      <3>2. PICK l \in LineRows : l = [kind |-> k, time |-> t] BY DEF LineRows
      <3>3. Append(lines[c], l) \in Seq(LineRows) BY <1>0, <3>2 DEF DaemonTypes
      <3>4. QED BY <1>0, <3>1, <3>2, <3>3 DEF DaemonTypes
    <2>2. QED BY <1>0, <1>1, <2>1 DEF ContainerStarts, ContainerDies, DaemonTypes
  <1>5. runs' \in [Containers -> Nat] /\ running' \subseteq Containers
    BY <1>0, <1>1 DEF ContainerStarts, ContainerDies, WritesLine, DaemonTypes
  <1>6. DaemonTypes' BY <1>3, <1>4, <1>5 DEF DaemonTypes
  <1>7. TailTypes' /\ JoinTypes' BY <1>0, <1>2 DEF TailTypes, JoinTypes, tailVars, joinVars
  <1>8. PhaseTypes' BY <1>0, <1>2, <1>3 DEF PhaseTypes, tailVars, joinVars
  <1>9. QED BY <1>6, <1>7, <1>8 DEF SourcesTypeOK

\* What a step of the source does to the tailers: it has listed cs, or stops
\* the tailer of one container, or leaves them.
Stops(c) ==
  /\ tailers' = IF cancels[c] = None THEN tailers ELSE [tailers EXCEPT ![cancels[c]].live = FALSE]
  /\ cancels' = [cancels EXCEPT ![c] = None]

\* What a stop does to the tailers, one by one.
LEMMA StopsTypes ==
  ASSUME TailTypes, PlaceInv, NEW c \in Containers, Stops(c)
  PROVE  /\ tailers' \in [Handles -> TailerRows \cup {None}]
         /\ cancels' \in [Containers -> Handles \cup {None}]
         /\ \A h \in Handles :
              tailers'[h] = tailers[h] \/ (/\ tailers[h] # None /\ tailers[h].of = c
                                           /\ tailers'[h] = [tailers[h] EXCEPT !.live = FALSE])
         /\ \A d \in Containers : cancels'[d] = IF d = c THEN None ELSE cancels[d]
  <1>1. cancels' \in [Containers -> Handles \cup {None}] BY DEF TailTypes, Stops
  <1>2. \A d \in Containers : cancels'[d] = IF d = c THEN None ELSE cancels[d] BY DEF TailTypes, Stops
  <1>3. CASE cancels[c] = None BY <1>1, <1>2, <1>3 DEF TailTypes, Stops
  <1>4. CASE cancels[c] # None
    <2>1. PICK h \in Handles : h = cancels[c] BY <1>4 DEF TailTypes
    <2>2. PICK t : t = tailers[h] OBVIOUS
    <2>3. t \in TailerRows /\ t # None /\ t.of = c BY <1>4, <2>1, <2>2 DEF TailTypes, PlaceInv, PlaceOf
    <2>4. PICK u : u = [t EXCEPT !.live = FALSE] OBVIOUS
    <2>5. u \in TailerRows BY <2>3, <2>4 DEF TailerRows
    <2>6. tailers' = [tailers EXCEPT ![h] = u] BY <1>4, <2>1, <2>2, <2>4 DEF Stops
    <2>7. tailers' \in [Handles -> TailerRows \cup {None}] BY <2>5, <2>6 DEF TailTypes
    <2>8. \A g \in Handles : tailers'[g] = IF g = h THEN u ELSE tailers[g] BY <2>6 DEF TailTypes
    <2>9. QED BY <1>1, <1>2, <2>2, <2>3, <2>4, <2>7, <2>8
  <1>5. QED BY <1>3, <1>4

\* The source.
LEMMA SourceDoes ==
  ASSUME SourcesTypeOK, PlaceInv, Source
  PROVE  /\ UNCHANGED <<daemonVars, evCh, joinVars, sinceDisk, up, lost>>
         /\ \/ \E cs \in SUBSET Containers : Started(cs)
            \/ \E c \in Containers : EventDie /\ Stops(c)
            \/ UNCHANGED <<tailers, cancels>>
  <1>0. DaemonTypes /\ TailTypes /\ JoinTypes /\ PhaseTypes BY DEF SourcesTypeOK
  <1>1. CASE ListAtStart \/ Relist
    <2>1. UNCHANGED <<daemonVars, evCh, joinVars, sinceDisk, up, lost>> BY <1>1 DEF ListAtStart, Relist, List
    <2>2. Starts(running) \/ UNCHANGED <<tailers, cancels>> BY <1>1 DEF ListAtStart, Relist, List
    <2>3. QED BY <1>0, <2>1, <2>2, StartsStarts DEF DaemonTypes
  <1>2. CASE EventStart
    <2>1. UNCHANGED <<daemonVars, evCh, joinVars, sinceDisk, up, lost>> BY <1>2 DEF EventStart
    <2>2. (\E c \in {Head(stream).of} : Starts({c} \cap running)) \/ UNCHANGED <<tailers, cancels>>
      BY <1>2 DEF EventStart
    <2>3. QED BY <1>0, <2>1, <2>2, StartsStarts DEF DaemonTypes
  <1>3. CASE EventDie
    <2>1. UNCHANGED <<daemonVars, evCh, joinVars, sinceDisk, up, lost>> BY <1>3 DEF EventDie
    <2>2. stream # <<>> /\ stream \in Seq(Events)
      BY <1>0, <1>3 DEF EventDie, EventIs, PhaseTypes, DaemonTypes
    <2>3. PICK c \in Containers : c = Head(stream).of
      <3>1. PICK e \in Events : e = Head(stream) BY <2>2, HeadAndTail
      <3>2. QED BY <3>1 DEF Events
    <2>4. Stops(c) BY <1>3, <2>3 DEF EventDie, Stops
    <2>5. QED BY <1>3, <2>1, <2>4
  <1>4. CASE Connect \/ StreamEnds BY <1>4 DEF Connect, StreamEnds, tailVars
  <1>5. QED BY <1>1, <1>2, <1>3, <1>4 DEF Source

\* The source keeps the types and the places.
LEMMA SourceKeepsTypes ==
  ASSUME SourcesTypeOK, PlaceInv, Source
  PROVE  SourcesTypeOK' /\ PlaceInv'
  <1>0. DaemonTypes /\ TailTypes /\ JoinTypes /\ PhaseTypes BY DEF SourcesTypeOK
  <1>1. UNCHANGED <<daemonVars, evCh, joinVars, sinceDisk, up, lost>> BY SourceDoes
  <1>2. up = "up" BY <1>0 DEF Source, ListAtStart, Relist, Connect, StreamEnds, EventStart, EventDie, EventIs,
                              PhaseTypes
  <1>3. stream' \in Seq(Events) \cup {None}
        /\ src' \in {"list", "connect", "relist", "follow", "off"}
        /\ (src' \in {"relist", "follow"} => stream' # None)
    <2>1. CASE ListAtStart \/ Relist BY <1>0, <2>1 DEF ListAtStart, Relist, List, DaemonTypes, PhaseTypes
    <2>2. CASE EventStart \/ EventDie
      <3>1. stream \in Seq(Events) /\ stream # <<>> /\ stream' = Tail(stream) /\ src' = src
        BY <1>0, <2>2 DEF EventStart, EventDie, EventIs, DaemonTypes, PhaseTypes
      <3>2. Tail(stream) \in Seq(Events) BY <3>1
      <3>3. QED BY <1>0, <3>1, <3>2, NoneIsNone DEF PhaseTypes
    <2>3. CASE Connect
      <3>1. <<>> \in Seq(Events) OBVIOUS
      <3>2. QED BY <2>3, <3>1, NoneIsNone DEF Connect
    <2>4. CASE StreamEnds BY <2>4 DEF StreamEnds
    <2>5. QED BY <2>1, <2>2, <2>3, <2>4 DEF Source
  <1>4. blind' \subseteq Containers
    <2>1. CASE ListAtStart \/ Relist BY <1>0, <2>1 DEF ListAtStart, Relist, List, DaemonTypes, TailTypes
    <2>2. CASE EventStart
      <3>1. stream # <<>> /\ stream \in Seq(Events)
        BY <1>0, <2>2 DEF EventStart, EventIs, PhaseTypes, DaemonTypes
      <3>2. Head(stream).of \in Containers
        <4>1. PICK e \in Events : e = Head(stream) BY <3>1, HeadAndTail
        <4>2. QED BY <4>1 DEF Events
      <3>3. QED BY <1>0, <2>2, <3>2 DEF EventStart, TailTypes
    <2>3. CASE EventDie \/ Connect \/ StreamEnds BY <1>0, <2>3 DEF EventDie, Connect, StreamEnds, tailVars, TailTypes
    <2>4. QED BY <2>1, <2>2, <2>3 DEF Source
  <1>5. /\ tailers' \in [Handles -> TailerRows \cup {None}]
        /\ cancels' \in [Containers -> Handles \cup {None}] /\ PlaceInv'
    <2>1. CASE \E cs \in SUBSET Containers : Started(cs)
      <3>1. PICK cs \in SUBSET Containers : Started(cs) BY <2>1
      <3>2. ASSUME NEW c \in Containers PROVE PlaceOf(c)'
        <4>1. CASE cancels[c] # None
          <5>1. PICK h \in Handles : h = cancels[c] BY <1>0, <4>1 DEF TailTypes
          <5>2. tailers[h] # None /\ tailers[h].of = c /\ tailers[h].live
            BY <1>2, <4>1, <5>1 DEF PlaceInv, PlaceOf
          <5>3. tailers'[h] = tailers[h] /\ cancels'[c] = h BY <3>1, <4>1, <5>1, <5>2 DEF Started
          <5>4. QED BY <5>2, <5>3 DEF PlaceOf
        <4>2. CASE cancels[c] = None
          <5>1. SUFFICES ASSUME cancels'[c] # None PROVE PlaceOf(c)' BY DEF PlaceOf
          <5>2. PICK t : t = NewTailer(c) OBVIOUS
          <5>3. tailers'[cancels'[c]] = t BY <3>1, <4>2, <5>1, <5>2 DEF Started
          <5>4. t \in TailerRows /\ t.of = c /\ t.live BY <5>2 DEF NewTailer, TailerRows
          <5>5. QED BY <5>3, <5>4, NoneIsNone DEF PlaceOf
        <4>3. QED BY <4>1, <4>2
      <3>3. QED BY <3>1, <3>2 DEF Started, PlaceInv
    <2>2. CASE \E c \in Containers : Stops(c)
      <3>1. PICK c \in Containers : Stops(c) BY <2>2
      <3>2. ASSUME NEW d \in Containers, cancels'[d] # None PROVE PlaceOf(d)'
        <4>1. d # c /\ cancels'[d] = cancels[d] BY <1>0, <3>1, <3>2, StopsTypes
        <4>2. PICK h \in Handles : h = cancels[d] BY <1>0, <3>2, <4>1 DEF TailTypes
        <4>3. tailers[h] # None /\ tailers[h].of = d /\ tailers[h].live
          BY <1>2, <3>2, <4>1, <4>2 DEF PlaceInv, PlaceOf
        <4>4. tailers'[h] = tailers[h] BY <1>0, <3>1, <4>1, <4>3, StopsTypes
        <4>5. QED BY <4>1, <4>2, <4>3, <4>4 DEF PlaceOf
      <3>3. QED BY <1>0, <3>1, <3>2, StopsTypes DEF PlaceInv, PlaceOf
    <2>3. CASE UNCHANGED <<tailers, cancels>> BY <1>0, <1>1, <2>3 DEF TailTypes, PlaceInv, PlaceOf
    <2>4. QED BY <2>1, <2>2, <2>3, SourceDoes
  <1>6. DaemonTypes' BY <1>0, <1>1, <1>3 DEF DaemonTypes, daemonVars
  <1>7. JoinTypes' BY <1>0, <1>1 DEF JoinTypes, joinVars
  <1>8. PhaseTypes' BY <1>1, <1>2, <1>3 DEF PhaseTypes
  <1>9. QED BY <1>4, <1>5, <1>6, <1>7, <1>8 DEF SourcesTypeOK, TailTypes

\* A tailer that goes on is the same container's, and is cancelled if it was.
Moves(h, u) == tailers' = [tailers EXCEPT ![h] = u] /\ UNCHANGED <<cancels, blind>>

\* A tailer that moves on stays the one its container has.
LEMMA MovesKeeps ==
  ASSUME TailTypes, PlaceInv, NEW h \in Handles, NEW t \in TailerRows, t = tailers[h],
         NEW u \in TailerRows, u.of = t.of, u.live = t.live, Moves(h, u), up' = up
  PROVE  TailTypes' /\ PlaceInv'
  <1>1. TailTypes' BY DEF TailTypes, Moves
  <1>2. \A g \in Handles : tailers'[g] = IF g = h THEN u ELSE tailers[g] BY DEF TailTypes, Moves
  <1>3. cancels' = cancels BY DEF Moves
  <1>4. ASSUME NEW c \in Containers, cancels'[c] # None PROVE PlaceOf(c)'
    <2>1. PICK g \in Handles : g = cancels[c] BY <1>3, <1>4 DEF TailTypes
    <2>2. tailers[g] # None /\ tailers[g].of = c /\ (up = "up" => tailers[g].live)
      BY <1>3, <1>4, <2>1 DEF PlaceInv, PlaceOf
    <2>3. CASE g # h BY <1>2, <1>3, <2>1, <2>2, <2>3 DEF PlaceOf
    <2>4. CASE g = h
      <3>1. tailers'[g] = u BY <1>2, <2>4
      <3>2. u # None /\ u.of = c /\ (up = "up" => u.live) BY <2>2, <2>4, NoneIsNone
      <3>3. QED BY <1>3, <2>1, <3>1, <3>2 DEF PlaceOf
    <2>5. QED BY <2>3, <2>4
  <1>5. QED BY <1>1, <1>4 DEF PlaceInv, PlaceOf

\* A tailer that leaves frees its own handle, and its container's place if it
\* has it.
LEMMA LeavesKeeps ==
  ASSUME TailTypes, PlaceInv, NEW h \in Handles, tailers[h] # None, Leaves(h), up' = up
  PROVE  TailTypes' /\ PlaceInv'
  <1>1. PICK t \in TailerRows : t = tailers[h] BY DEF TailTypes
  <1>2. PICK c \in Containers : c = t.of BY DEF TailerRows
  <1>3. tailers' = [tailers EXCEPT ![h] = None] BY DEF Leaves
  <1>4. /\ cancels[c] = h => cancels' = [cancels EXCEPT ![c] = None] /\ blind' = blind \cup {c}
        /\ cancels[c] # h => cancels' = cancels /\ blind' = blind
    BY <1>1, <1>2 DEF Leaves, Of
  <1>5. TailTypes' BY <1>3, <1>4 DEF TailTypes
  <1>6. ASSUME NEW d \in Containers, cancels'[d] # None PROVE PlaceOf(d)'
    <2>1. cancels'[d] = cancels[d] BY <1>4, <1>6 DEF TailTypes
    <2>2. PICK g \in Handles : g = cancels[d] BY <1>6, <2>1 DEF TailTypes
    <2>3. tailers[g] # None /\ tailers[g].of = d /\ (up = "up" => tailers[g].live)
      BY <1>6, <2>1, <2>2 DEF PlaceInv, PlaceOf
    <2>4. g # h
      <3>1. SUFFICES ASSUME g = h PROVE FALSE OBVIOUS
      <3>2. d = c /\ cancels[c] = h BY <1>1, <1>2, <2>2, <2>3, <3>1
      <3>3. cancels'[d] = None BY <1>4, <3>2 DEF TailTypes
      <3>4. QED BY <1>6, <3>3
    <2>5. tailers'[g] = tailers[g] BY <1>3, <2>4 DEF TailTypes
    <2>6. QED BY <2>1, <2>2, <2>3, <2>5 DEF PlaceOf
  <1>7. QED BY <1>5, <1>6 DEF PlaceInv, PlaceOf

\* FirstFrom is the place of a line, or the end.
LEMMA FirstFromType ==
  ASSUME DaemonTypes, NEW c \in Containers, NEW s PROVE FirstFrom(c, s) \in Nat
  <1>1. CASE s = None BY <1>1 DEF FirstFrom
  <1>2. CASE s # None
    <2>1. PICK A : A = {i \in DOMAIN lines[c] : lines[c][i].time + Overlap < s} OBVIOUS
    <2>2. lines[c] \in Seq(LineRows) BY DEF DaemonTypes
    <2>3. A \subseteq 1..Len(lines[c]) /\ Len(lines[c]) \in Nat BY <2>1, <2>2
    <2>4. IsFiniteSet(1..Len(lines[c])) BY <2>3, FS_Interval
    <2>5. IsFiniteSet(A) BY <2>3, <2>4, FS_Subset
    <2>6. Cardinality(A) \in Nat BY <2>5, FS_CardinalityType
    <2>7. FirstFrom(c, s) = 1 + Cardinality(A) BY <1>2, <2>1 DEF FirstFrom
    <2>8. QED BY <2>6, <2>7
  <1>3. QED BY <1>1, <1>2

\* A tailer.
LEMMA TailerKeepsTypes ==
  ASSUME SourcesTypeOK, PlaceInv, NEW h \in Handles, Tailer(h)
  PROVE  SourcesTypeOK' /\ PlaceInv'
  <1>0. DaemonTypes /\ TailTypes /\ JoinTypes /\ PhaseTypes BY DEF SourcesTypeOK
  <1>1. UNCHANGED <<daemonVars, stream, src, joinVars, sinceDisk, up, lost>>
    BY DEF Tailer, Opens, OpenFails, SendsLine, SeesEof, SendsEof
  <1>2. PICK t \in TailerRows : t = tailers[h] /\ t # None
    BY <1>0 DEF Tailer, Opens, OpenFails, SendsLine, SeesEof, SendsEof, At, TailTypes
  <1>3. t.of \in Containers /\ up # "down" BY <1>0, <1>2 DEF TailerRows, PhaseTypes
  <1>4. TailTypes' /\ PlaceInv'
    <2>1. CASE Opens(h)
      <3>1. PICK n \in Nat : n = FirstFrom(t.of, since[t.of]) BY <1>0, <1>3, FirstFromType
      <3>2. PICK r \in Nat : r = runs[t.of] BY <1>0, <1>3 DEF DaemonTypes
      <3>3. PICK u : u = [t EXCEPT !.pc = "read", !.run = r, !.pos = n] OBVIOUS
      <3>4. u \in TailerRows /\ u.of = t.of /\ u.live = t.live BY <3>3 DEF TailerRows
      <3>5. Moves(h, u)
        BY <1>0, <1>2, <2>1, <3>1, <3>2, <3>3 DEF Opens, Moves, Of, TailTypes, TailerRows
      <3>6. QED BY <1>0, <1>1, <1>2, <3>4, <3>5, MovesKeeps
    <2>2. CASE SendsLine(h)
      <3>1. PICK u : u = [t EXCEPT !.pos = t.pos + 1] OBVIOUS
      <3>2. u \in TailerRows /\ u.of = t.of /\ u.live = t.live BY <3>1 DEF TailerRows
      <3>3. Moves(h, u) BY <1>0, <1>2, <2>2, <3>1 DEF SendsLine, Moves, TailTypes
      <3>4. QED BY <1>0, <1>1, <1>2, <3>2, <3>3, MovesKeeps
    <2>3. CASE SeesEof(h)
      <3>1. PICK u : u = [t EXCEPT !.pc = "eof", !.pos = 0, !.run = 0] OBVIOUS
      <3>2. u \in TailerRows /\ u.of = t.of /\ u.live = t.live BY <3>1 DEF TailerRows
      <3>3. Moves(h, u) BY <1>0, <1>2, <2>3, <3>1 DEF SeesEof, Moves, TailTypes, TailerRows
      <3>4. QED BY <1>0, <1>1, <1>2, <3>2, <3>3, MovesKeeps
    <2>4. CASE OpenFails(h) \/ SendsEof(h)
      BY <1>0, <1>1, <1>2, <2>4, LeavesKeeps DEF OpenFails, SendsEof
    <2>5. QED BY <2>1, <2>2, <2>3, <2>4 DEF Tailer
  <1>5. evCh' \in Seq(SourceEvents)
    <2>1. ASSUME NEW n \in Nat, Send(t.of, n) PROVE evCh' \in Seq(SourceEvents)
      <3>1. [of |-> t.of, line |-> n] \in SourceEvents BY <1>3 DEF SourceEvents
      <3>2. QED BY <1>0, <2>1, <3>1 DEF Send, JoinTypes
    <2>2. CASE SendsLine(h)
      <3>1. t.pos \in Nat BY DEF TailerRows
      <3>2. QED BY <1>2, <2>1, <2>2, <3>1 DEF SendsLine, Of
    <2>3. CASE SendsEof(h) BY <1>0, <1>2, <2>1, <2>3 DEF SendsEof, Of, JoinTypes
    <2>4. CASE Opens(h) \/ OpenFails(h) \/ SeesEof(h)
      BY <1>0, <2>4 DEF Opens, OpenFails, SeesEof, JoinTypes
    <2>5. QED BY <2>2, <2>3, <2>4 DEF Tailer
  <1>6. DaemonTypes' BY <1>0, <1>1 DEF DaemonTypes, daemonVars
  <1>7. JoinTypes' BY <1>0, <1>1, <1>5 DEF JoinTypes, joinVars
  <1>8. PhaseTypes' BY <1>0, <1>1, <1>3 DEF PhaseTypes
  <1>9. QED BY <1>4, <1>6, <1>7, <1>8 DEF SourcesTypeOK

\* A time is a number.
LEMMA TimesAreNumbers == \A l \in LineRows : l.time \in Nat BY SourcesAssumption DEF LineRows

\* The joiner loop and the persister.
LEMMA JoinerKeepsTypes ==
  ASSUME SourcesTypeOK, PlaceInv, QueueInv, JoinerLoop \/ PersistSince
  PROVE  SourcesTypeOK' /\ PlaceInv'
  <1>0. DaemonTypes /\ TailTypes /\ JoinTypes /\ PhaseTypes BY DEF SourcesTypeOK
  <1>1. UNCHANGED <<daemonVars, stream, src, tailVars, up>>
    BY DEF JoinerLoop, PersistSince, Feeds, Forgets, Ticks
  <1>2. up # "down"
    BY <1>0 DEF JoinerLoop, PersistSince, Feeds, Forgets, Ticks, PhaseTypes
  <1>3. JoinTypes'
    <2>1. CASE Feeds
      <3>1. evCh # <<>> /\ evCh \in Seq(SourceEvents) BY <1>0, <2>1 DEF Feeds, JoinTypes
      <3>2. PICK e \in SourceEvents : e = Head(evCh) /\ e = evCh[1] BY <3>1, HeadAndTail
      <3>3. PICK c \in Containers, n \in Nat : c = e.of /\ n = e.line BY DEF SourceEvents
      <3>4. n # 0 /\ n <= Len(lines[c])
        <4>1. n # 0 BY <2>1, <3>2, <3>3 DEF Feeds, Received
        <4>2. 1 \in 1..Len(evCh) BY <3>1
        <4>3. QED BY <3>2, <3>3, <4>1, <4>2 DEF QueueInv, QueuedAt
      <3>5. PICK l \in LineRows : l = lines[c][n] BY <1>0, <3>4 DEF DaemonTypes
      <3>6. since' = [since EXCEPT ![c] = l.time] BY <2>1, <3>2, <3>3, <3>5 DEF Feeds, Received
      <3>7. since' \in [Containers -> Nat \cup {None}] BY <1>0, <3>6, TimesAreNumbers DEF JoinTypes
      <3>8. PICK j : j = joiners[c] OBVIOUS
      <3>9. PICK joins \in BOOLEAN : joins = (Continues(j, l.kind) /\ Len(j.held) < MaxJoin) OBVIOUS
      <3>10. PICK k : k = IF joins THEN [j EXCEPT !.held = Append(j.held, n), !.last = FALSE] ELSE Fresh(n, l.kind)
        OBVIOUS
      <3>11. joiners' = [joiners EXCEPT ![c] = k]
        BY <2>1, <3>2, <3>3, <3>5, <3>8, <3>9, <3>10 DEF Feeds, Received
      <3>12. k \in JoinRows
        <4>1. CASE joins
          <5>1. j \in JoinRows BY <1>0, <3>8, <3>9, <4>1 DEF Continues, JoinTypes
          <5>2. PICK held \in Seq(Nat) : held = j.held BY <5>1 DEF JoinRows
          <5>3. Append(held, n) \in Seq(Nat) BY <5>2
          <5>4. k = [j EXCEPT !.held = Append(held, n), !.last = FALSE] BY <3>10, <4>1, <5>2
          <5>5. QED BY <5>1, <5>3, <5>4 DEF JoinRows
        <4>2. CASE ~joins
          <5>1. <<n>> \in Seq(Nat) BY <3>3
          <5>2. QED BY <3>10, <4>2, <5>1 DEF Fresh, JoinRows
        <4>3. QED BY <4>1, <4>2
      <3>13. joiners' \in [Containers -> JoinRows \cup {None}] BY <1>0, <3>11, <3>12 DEF JoinTypes
      <3>14. evCh' \in Seq(SourceEvents) BY <2>1, <3>1, HeadAndTail DEF Feeds
      <3>15. QED BY <1>0, <2>1, <3>7, <3>13, <3>14 DEF Feeds, JoinTypes
    <2>2. CASE Forgets
      <3>1. evCh # <<>> /\ evCh \in Seq(SourceEvents) BY <1>0, <2>2 DEF Forgets, JoinTypes
      <3>2. evCh' \in Seq(SourceEvents) BY <2>2, <3>1, HeadAndTail DEF Forgets
      <3>3. joiners' \in [Containers -> JoinRows \cup {None}] BY <1>0, <2>2 DEF Forgets, JoinTypes
      <3>4. QED BY <1>0, <2>2, <3>2, <3>3 DEF Forgets, JoinTypes
    <2>3. CASE Ticks BY <1>0, <2>3 DEF Ticks, JoinTypes, Empty
    <2>4. CASE PersistSince BY <1>0, <2>4 DEF PersistSince, JoinTypes, joinVars
    <2>5. QED BY <2>1, <2>2, <2>3, <2>4 DEF JoinerLoop
  <1>4. DaemonTypes' BY <1>0, <1>1 DEF DaemonTypes, daemonVars
  <1>5. TailTypes' /\ PlaceInv' BY <1>0, <1>1 DEF TailTypes, tailVars, PlaceInv, PlaceOf
  <1>6. PhaseTypes' BY <1>0, <1>1, <1>2 DEF PhaseTypes
  <1>7. QED BY <1>3, <1>4, <1>5, <1>6 DEF SourcesTypeOK

\* Stop, crash and restart.
LEMMA LifeKeepsTypes ==
  ASSUME SourcesTypeOK, PlaceInv, Stop \/ Stopped \/ Crash \/ Restart
  PROVE  SourcesTypeOK' /\ PlaceInv'
  <1>0. DaemonTypes /\ TailTypes /\ JoinTypes /\ PhaseTypes BY DEF SourcesTypeOK
  <1>1. UNCHANGED daemonVars BY DEF Stop, Stopped, Crash, Restart
  <1>2. CASE Stop
    <2>1. ASSUME NEW h \in Handles, tailers[h] # None
          PROVE  tailers'[h] \in TailerRows /\ tailers'[h].of = tailers[h].of
      <3>1. PICK t \in TailerRows : t = tailers[h] BY <1>0, <2>1 DEF TailTypes
      <3>2. PICK u : u = [t EXCEPT !.live = FALSE] OBVIOUS
      <3>3. tailers'[h] = u BY <1>2, <2>1, <3>1, <3>2 DEF Stop, Cancelled
      <3>4. u \in TailerRows /\ u.of = t.of BY <3>2 DEF TailerRows
      <3>5. QED BY <3>1, <3>3, <3>4
    <2>2. ASSUME NEW h \in Handles, tailers[h] = None PROVE tailers'[h] = None
      BY <1>2, <2>2 DEF Stop, Cancelled
    <2>3. tailers' = [h \in Handles |-> tailers'[h]] BY <1>2 DEF Stop, Cancelled
    <2>4. tailers' \in [Handles -> TailerRows \cup {None}] BY <2>1, <2>2, <2>3
    <2>5. UNCHANGED <<cancels, blind, evCh, joinVars, sinceDisk, lost>> /\ up' = "stopping"
          /\ src' = "off" /\ stream' = None
      BY <1>2 DEF Stop
    <2>6. PlaceInv'
      <3>1. ASSUME NEW c \in Containers, cancels[c] # None PROVE PlaceOf(c)'
        <4>1. PICK h \in Handles : h = cancels[c] BY <1>0, <3>1 DEF TailTypes
        <4>2. tailers[h] # None /\ tailers[h].of = c BY <3>1, <4>1 DEF PlaceInv, PlaceOf
        <4>3. tailers'[h] # None /\ tailers'[h].of = c BY <2>1, <4>2, NoneIsNone
        <4>4. QED BY <2>5, <4>1, <4>3 DEF PlaceOf
      <3>2. QED BY <2>5, <3>1 DEF PlaceInv, PlaceOf
    <2>7. PhaseTypes' BY <2>5 DEF PhaseTypes
    <2>8. QED BY <1>0, <1>1, <2>4, <2>5, <2>6, <2>7
             DEF SourcesTypeOK, DaemonTypes, TailTypes, JoinTypes, daemonVars, joinVars
  <1>3. CASE Stopped
    <2>1. \A h \in Handles : tailers[h] = None BY <1>0, <1>3 DEF Stopped, Present, TailTypes
    <2>2. \A c \in Containers : cancels'[c] = None BY <1>3 DEF Stopped, Empty
    <2>3. cancels' \in [Containers -> Handles \cup {None}] /\ joiners' \in [Containers -> JoinRows \cup {None}]
      BY <1>3 DEF Stopped, Empty
    <2>4. UNCHANGED <<stream, src, tailers, evCh, since>> /\ sinceDisk' = since /\ up' = "down" /\ blind' = {}
          /\ evCh = <<>> /\ up = "stopping"
      BY <1>3 DEF Stopped
    <2>5. PhaseTypes' BY <1>0, <2>1, <2>2, <2>4 DEF PhaseTypes
    <2>6. PlaceInv' BY <2>2 DEF PlaceInv, PlaceOf
    <2>7. QED BY <1>0, <1>1, <2>3, <2>4, <2>5, <2>6
             DEF SourcesTypeOK, DaemonTypes, TailTypes, JoinTypes, daemonVars
  <1>4. CASE Crash
    <2>1. \A c \in Containers : cancels'[c] = None BY <1>4 DEF Crash, Empty
    <2>2. \A h \in Handles : tailers'[h] = None BY <1>4 DEF Crash
    <2>3. /\ cancels' \in [Containers -> Handles \cup {None}] /\ joiners' \in [Containers -> JoinRows \cup {None}]
          /\ tailers' \in [Handles -> TailerRows \cup {None}]
      BY <1>4 DEF Crash, Empty
    <2>4. evCh' = <<>> /\ since' = sinceDisk /\ UNCHANGED sinceDisk /\ up' = "down" /\ src' = "off"
          /\ stream' = None /\ blind' = {}
      BY <1>4 DEF Crash
    <2>5. PhaseTypes' BY <2>1, <2>2, <2>4 DEF PhaseTypes
    <2>6. PlaceInv' BY <2>1 DEF PlaceInv, PlaceOf
    <2>7. QED BY <1>0, <1>1, <2>3, <2>4, <2>5, <2>6
             DEF SourcesTypeOK, DaemonTypes, TailTypes, JoinTypes, daemonVars
  <1>5. CASE Restart
    <2>1. UNCHANGED <<stream, tailVars, evCh, joinVars, sinceDisk>> /\ up = "down" /\ up' = "up" /\ src' = "list"
      BY <1>5 DEF Restart
    <2>2. PhaseTypes' BY <2>1 DEF PhaseTypes
    <2>3. PlaceInv' BY <1>0, <2>1 DEF PlaceInv, PlaceOf, PhaseTypes, tailVars
    <2>4. QED BY <1>0, <1>1, <2>1, <2>2, <2>3
             DEF SourcesTypeOK, DaemonTypes, TailTypes, JoinTypes, daemonVars, tailVars, joinVars
  <1>6. QED BY <1>2, <1>3, <1>4, <1>5

\* The steps of a docker source, and those that are none.
LEMMA NextSteps ==
  [Next]_vars =>
    \/ Daemon \/ Source \/ JoinerLoop \/ PersistSince \/ (\E h \in Handles : Tailer(h))
    \/ Stop \/ Stopped \/ Crash \/ Restart
    \/ UNCHANGED sourceVars
  BY DEF Next, DockerNext, FileNext, vars

-----------------------------------------------------------------------------
(* TailedWhenQuiet *)

\* The last event of c in a longer stream, and in a shorter one.
LEMMA LastOfAppend ==
  ASSUME NEW s \in Seq(Events), NEW e \in Events, NEW c, NEW act,
         e.of = c => e.act = act, e.of # c => LastIs(s, c, act)
  PROVE  LastIs(Append(s, e), c, act)
  <1>1. PICK t : t = Append(s, e) OBVIOUS
  <1>2. /\ Len(t) = Len(s) + 1 /\ t[Len(s) + 1] = e /\ Len(s) \in Nat
        /\ \A k \in 1..Len(s) : t[k] = s[k]
    BY <1>1
  <1>3. ASSUME NEW k \in 1..Len(t), t[k].of = c, \A n \in 1..Len(t) : n > k => t[n].of # c
        PROVE  t[k].act = act
    <2>1. CASE k = Len(s) + 1 BY <1>2, <1>3, <2>1
    <2>2. CASE k \in 1..Len(s)
      <3>1. Len(s) + 1 \in 1..Len(t) /\ Len(s) + 1 > k BY <1>2, <2>2
      <3>2. e.of # c BY <1>2, <1>3, <3>1
      <3>3. s[k].of = c BY <1>2, <1>3, <2>2
      <3>4. ASSUME NEW n \in 1..Len(s), n > k PROVE s[n].of # c
        <4>1. n \in 1..Len(t) /\ t[n] = s[n] BY <1>2
        <4>2. QED BY <1>3, <3>4, <4>1
      <3>5. s[k].act = act BY <2>2, <3>2, <3>3, <3>4 DEF LastIs
      <3>6. QED BY <1>2, <2>2, <3>5
    <2>3. QED BY <1>2, <2>1, <2>2
  <1>4. QED BY <1>1, <1>3 DEF LastIs

\* The last of a queue is the last of what follows its head.
LEMMA LastOfTail ==
  ASSUME NEW s \in Seq(Events), s # <<>>, NEW c, NEW act, LastIs(s, c, act)
  PROVE  LastIs(Tail(s), c, act)
  <1>1. PICK t : t = Tail(s) OBVIOUS
  <1>2. Len(s) \in Nat \ {0} /\ Len(t) = Len(s) - 1 /\ \A k \in 1..Len(t) : t[k] = s[k + 1]
    BY <1>1, HeadAndTail
  <1>3. ASSUME NEW k \in 1..Len(t), t[k].of = c, \A n \in 1..Len(t) : n > k => t[n].of # c
        PROVE  t[k].act = act
    <2>1. k + 1 \in 1..Len(s) /\ s[k + 1].of = c BY <1>2, <1>3
    <2>2. ASSUME NEW n \in 1..Len(s), n > k + 1 PROVE s[n].of # c
      <3>1. PICK m \in 1..Len(t) : m = n - 1 /\ m > k /\ n = m + 1 BY <1>2, <2>2
      <3>2. QED BY <1>2, <1>3, <3>1
    <2>3. s[k + 1].act = act BY <2>1, <2>2 DEF LastIs
    <2>4. QED BY <1>2, <2>3
  <1>4. QED BY <1>1, <1>3 DEF LastIs

\* What the daemon's own steps do to a stream and to who runs.
LEMMA DaemonDoes ==
  ASSUME SourcesTypeOK, Daemon
  PROVE  /\ UNCHANGED <<src, tailVars, evCh, joinVars, sinceDisk, up, lost>>
         /\ \/ UNCHANGED <<stream, running>>
            \/ \E c \in Containers, act \in {"start", "die"} :
                 /\ running' = IF act = "start" THEN running \cup {c} ELSE running \ {c}
                 /\ stream' = Emit(act, c) /\ UNCHANGED lines
  <1>1. PICK c \in Containers : ContainerStarts(c) \/ ContainerDies(c) \/ WritesLine(c) BY DEF Daemon
  <1>2. CASE ContainerStarts(c) BY <1>2 DEF ContainerStarts
  <1>3. CASE ContainerDies(c) BY <1>3 DEF ContainerDies
  <1>4. CASE WritesLine(c) BY <1>4 DEF WritesLine
  <1>5. QED BY <1>1, <1>2, <1>3, <1>4

\* The last event of each container says whether it runs.
LEMMA StepKeepsStream == ASSUME SourcesTypeOK, PlaceInv, StreamInv, [Next]_vars PROVE StreamInv'
  <1>0. DaemonTypes /\ PhaseTypes BY DEF SourcesTypeOK
  <1>1. CASE UNCHANGED <<stream, running>>
    BY <1>1 DEF StreamInv, LastIs
  <1>2. CASE stream' = None \/ (stream' = <<>> /\ UNCHANGED running)
    BY <1>2 DEF StreamInv, LastIs
  <1>3. CASE Daemon
    <2>1. SUFFICES ASSUME NEW c \in Containers, NEW act \in {"start", "die"},
                          running' = IF act = "start" THEN running \cup {c} ELSE running \ {c},
                          stream' = Emit(act, c), stream' # None
                   PROVE  StreamInv'
      BY <1>1, <1>2, <1>3, DaemonDoes
    <2>2. stream # None /\ stream \in Seq(Events) BY <1>0, <2>1 DEF Emit, DaemonTypes
    <2>3. PICK e \in Events : e = [act |-> act, of |-> c] BY DEF Events
    <2>4. stream' = Append(stream, e) BY <2>1, <2>2, <2>3 DEF Emit
    <2>5. ASSUME NEW d \in Containers PROVE LastIs(stream', d, IF d \in running' THEN "start" ELSE "die")
      <3>1. PICK way : way = IF d \in running' THEN "start" ELSE "die" OBVIOUS
      <3>2. e.of = d => e.act = way BY <2>1, <2>3, <3>1
      <3>3. e.of # d => LastIs(stream, d, way) BY <2>1, <2>2, <2>3, <3>1 DEF StreamInv
      <3>4. LastIs(Append(stream, e), d, way) BY <2>2, <3>2, <3>3, LastOfAppend
      <3>5. QED BY <2>4, <3>1, <3>4
    <2>6. QED BY <2>5 DEF StreamInv
  <1>4. CASE EventStart \/ EventDie
    <2>1. stream # <<>> /\ stream \in Seq(Events) /\ stream' = Tail(stream) /\ stream # None
          /\ UNCHANGED running
      BY <1>0, <1>4 DEF EventStart, EventDie, EventIs, PhaseTypes, DaemonTypes, daemonVars
    <2>2. ASSUME NEW d \in Containers PROVE LastIs(stream', d, IF d \in running' THEN "start" ELSE "die")
      <3>1. LastIs(stream, d, IF d \in running THEN "start" ELSE "die") BY <2>1 DEF StreamInv
      <3>2. QED BY <2>1, <3>1, LastOfTail
    <2>3. QED BY <2>2 DEF StreamInv
  <1>5. CASE ListAtStart \/ Relist \/ Connect \/ StreamEnds
    BY <1>1, <1>2, <1>5 DEF ListAtStart, Relist, List, Connect, StreamEnds, daemonVars
  <1>6. CASE JoinerLoop \/ PersistSince \/ Stop \/ Stopped \/ Crash \/ Restart
    BY <1>1, <1>2, <1>6 DEF JoinerLoop, Feeds, Forgets, Ticks, PersistSince, Stop, Stopped, Crash, Restart,
                            daemonVars
  <1>7. CASE \E h \in Handles : Tailer(h)
    BY <1>1, <1>7 DEF Tailer, Opens, OpenFails, SendsLine, SeesEof, SendsEof, daemonVars
  <1>8. CASE UNCHANGED sourceVars BY <1>1, <1>8 DEF sourceVars, daemonVars
  <1>9. QED BY <1>3, <1>4, <1>5, <1>6, <1>7, <1>8, NextSteps DEF Source

\* A container that runs, and that no waiting event is about, has a tailer.
LEMMA StepKeepsFollow ==
  ASSUME SourcesTypeOK, PlaceInv, StreamInv, FollowInv, [Next]_vars PROVE FollowInv'
  <1>0. DaemonTypes /\ TailTypes /\ PhaseTypes BY DEF SourcesTypeOK
  <1>1. SUFFICES ASSUME src' = "follow", NEW d \in Selected, d \in running', d \notin blind', NoneWaits(d)'
                 PROVE  cancels'[d] # None
    BY DEF FollowInv
  <1>2. d \in Containers BY SourcesAssumption
  <1>3. CASE Daemon
    <2>1. UNCHANGED <<src, cancels, blind>> BY <1>3, DaemonDoes DEF tailVars
    <2>2. CASE UNCHANGED <<stream, running>> BY <1>1, <2>1, <2>2 DEF FollowInv, NoneWaits
    <2>3. CASE ~UNCHANGED <<stream, running>>
      <3>1. PICK c \in Containers, act \in {"start", "die"} :
              /\ running' = IF act = "start" THEN running \cup {c} ELSE running \ {c}
              /\ stream' = Emit(act, c)
        BY <1>3, <2>3, DaemonDoes
      <3>2. stream # None /\ stream \in Seq(Events) BY <1>0, <1>1, <2>1 DEF PhaseTypes, DaemonTypes
      <3>3. PICK e \in Events : e = [act |-> act, of |-> c] BY DEF Events
      <3>4. PICK t : t = Append(stream, e) OBVIOUS
      <3>5. stream' = t BY <3>1, <3>2, <3>3, <3>4 DEF Emit
      <3>6. /\ Len(t) = Len(stream) + 1 /\ t[Len(stream) + 1] = e /\ Len(stream) \in Nat
            /\ \A k \in 1..Len(stream) : t[k] = stream[k]
        BY <3>2, <3>4
      <3>7. \A k \in 1..Len(t) : t[k].of # d BY <1>1, <3>5 DEF NoneWaits
      <3>8. Len(stream) + 1 \in 1..Len(t) BY <3>6
      <3>9. d # c BY <3>3, <3>6, <3>7, <3>8
      <3>10. NoneWaits(d) BY <3>6, <3>7 DEF NoneWaits
      <3>11. d \in running BY <1>1, <3>1, <3>9
      <3>12. QED BY <1>1, <2>1, <3>10, <3>11 DEF FollowInv
    <2>4. QED BY <2>2, <2>3
  <1>4. CASE Relist
    <2>1. UNCHANGED running BY <1>4 DEF Relist, List, daemonVars
    <2>2. Starts(running) BY <1>1, <1>4, <2>1 DEF Relist, List
    <2>3. running \subseteq Containers BY <1>0 DEF DaemonTypes
    <2>4. Started(running) BY <1>0, <2>2, <2>3, StartsStarts
    <2>5. QED BY <1>1, <2>1, <2>4 DEF Started
  <1>5. CASE EventStart \/ EventDie
    <2>1. /\ stream # <<>> /\ stream \in Seq(Events) /\ stream' = Tail(stream) /\ stream # None
          /\ src = "follow" /\ UNCHANGED running
      BY <1>0, <1>5 DEF EventStart, EventDie, EventIs, PhaseTypes, DaemonTypes, daemonVars
    <2>2. PICK e \in Events : e = Head(stream) /\ e = stream[1] BY <2>1, HeadAndTail
    <2>3. PICK c \in Containers : c = e.of BY DEF Events
    <2>4. PICK t : t = Tail(stream) OBVIOUS
    <2>5. Len(stream) \in Nat \ {0} /\ Len(t) = Len(stream) - 1 /\ \A k \in 1..Len(t) : t[k] = stream[k + 1]
      BY <2>1, <2>4, HeadAndTail
    <2>6. \A k \in 1..Len(t) : t[k].of # d BY <1>1, <2>1, <2>4 DEF NoneWaits
    <2>7. \A k \in 1..Len(stream) : k > 1 => stream[k].of # d
      <3>1. TAKE k \in 1..Len(stream)
      <3>2. HAVE k > 1
      <3>3. PICK m \in 1..Len(t) : k = m + 1 BY <2>5, <3>2
      <3>4. QED BY <2>5, <2>6, <3>3
    <2>8. d # c => NoneWaits(d) BY <2>2, <2>3, <2>7 DEF NoneWaits
    <2>9. CASE EventStart
      <3>1. CASE Starts({c} \cap running) /\ blind' = blind \ ({c} \cap running)
        <4>1. Started({c} \cap running) BY <1>0, <3>1, StartsStarts
        <4>2. CASE d = c BY <1>1, <2>1, <4>1, <4>2 DEF Started
        <4>3. CASE d # c
          <5>1. cancels[d] # None BY <1>1, <2>1, <2>8, <3>1, <4>3 DEF FollowInv
          <5>2. QED BY <1>2, <4>1, <5>1 DEF Started
        <4>4. QED BY <4>2, <4>3
      <3>2. CASE blind' = blind \cup {c} /\ UNCHANGED cancels
        BY <1>1, <2>1, <2>8, <3>2 DEF FollowInv
      <3>3. QED BY <2>2, <2>3, <2>9, <3>1, <3>2 DEF EventStart
    <2>10. CASE EventDie
      <3>1. Stops(c) /\ blind' = blind BY <2>2, <2>3, <2>10 DEF EventDie, Stops
      <3>2. e.act = "die" BY <2>2, <2>10 DEF EventDie, EventIs
      <3>3. CASE d = c
        <4>1. LastIs(stream, c, IF c \in running THEN "start" ELSE "die") BY <2>1 DEF StreamInv
        <4>2. 1 \in 1..Len(stream) BY <2>5
        <4>3. e.act = IF c \in running THEN "start" ELSE "die"
          BY <2>2, <2>3, <2>7, <3>3, <4>1, <4>2 DEF LastIs
        <4>4. QED BY <1>1, <2>1, <3>2, <3>3, <4>3
      <3>4. CASE d # c
        <4>1. cancels[d] # None BY <1>1, <2>1, <2>8, <3>1, <3>4 DEF FollowInv
        <4>2. cancels'[d] = cancels[d] BY <1>0, <1>2, <3>1, <3>4, StopsTypes
        <4>3. QED BY <4>1, <4>2
      <3>5. QED BY <3>3, <3>4
    <2>11. QED BY <1>5, <2>9, <2>10
  <1>6. CASE ListAtStart \/ Connect \/ StreamEnds \/ Stop \/ Crash \/ Restart
    BY <1>1, <1>6 DEF ListAtStart, List, Connect, StreamEnds, Stop, Crash, Restart
  <1>7. CASE Stopped BY <1>0, <1>1, <1>7 DEF Stopped, PhaseTypes
  <1>8. ASSUME UNCHANGED <<src, stream, running, cancels, blind>> PROVE cancels'[d] # None
    BY <1>1, <1>8 DEF FollowInv, NoneWaits
  <1>9. CASE JoinerLoop \/ PersistSince \/ UNCHANGED sourceVars
    BY <1>8, <1>9 DEF JoinerLoop, Feeds, Forgets, Ticks, PersistSince, sourceVars, daemonVars, tailVars
  <1>10. ASSUME NEW h \in Handles, Tailer(h) PROVE cancels'[d] # None
    <2>1. UNCHANGED <<src, stream, running>>
      BY <1>10 DEF Tailer, Opens, OpenFails, SendsLine, SeesEof, SendsEof, daemonVars
    <2>2. CASE Opens(h) \/ SendsLine(h) \/ SeesEof(h)
      BY <1>8, <2>1, <2>2 DEF Opens, SendsLine, SeesEof
    <2>3. CASE Leaves(h)
      <3>1. CASE cancels[Of(h)] = h
        <4>1. d # Of(h) BY <1>1, <2>3, <3>1 DEF Leaves
        <4>2. cancels'[d] = cancels[d] /\ d \notin blind BY <1>0, <1>1, <1>2, <2>3, <3>1, <4>1 DEF Leaves, TailTypes
        <4>3. QED BY <1>1, <2>1, <4>2 DEF FollowInv, NoneWaits
      <3>2. CASE cancels[Of(h)] # h BY <1>8, <2>1, <2>3, <3>2 DEF Leaves
      <3>3. QED BY <3>1, <3>2
    <2>4. QED BY <1>10, <2>2, <2>3 DEF Tailer, OpenFails, SendsEof
  <1>11. QED BY <1>3, <1>4, <1>5, <1>6, <1>7, <1>9, <1>10, NextSteps DEF Source

-----------------------------------------------------------------------------
(* NothingSkipped *)

\* A record that is complete is in the spool or counted.
LEMMA AppendsAdds ==
  ASSUME NEW records, Appends(records)
  PROVE  /\ stored \subseteq stored' /\ counted \subseteq counted'
         /\ \A r \in records : r \subseteq stored' \cup counted'
  <1>1. PICK refused \in SUBSET records :
          /\ stored' = stored \cup (UNION (records \ refused))
          /\ counted' = counted \cup (UNION refused)
    BY DEF Appends
  <1>2. ASSUME NEW r \in records PROVE r \subseteq stored' \cup counted'
    <2>1. CASE r \in refused BY <1>1, <2>1
    <2>2. CASE r \notin refused
      <3>1. r \in records \ refused BY <2>2
      <3>2. r \subseteq UNION (records \ refused) BY <3>1
      <3>3. QED BY <1>1, <3>2
    <2>3. QED BY <2>1, <2>2
  <1>3. QED BY <1>1, <1>2

\* So are the lines of a joiner that is flushed.
LEMMA RecordAdds ==
  ASSUME NEW c, NEW j, NEW records, Record(c, j) \subseteq records, Appends(records)
  PROVE  Lines(c, j) \subseteq stored' \cup counted'
  <1>1. CASE j = None BY <1>1 DEF Lines
  <1>2. CASE j # None
    <2>1. Lines(c, j) \in records BY <1>2 DEF Record
    <2>2. QED BY <2>1, AppendsAdds
  <1>3. QED BY <1>1, <1>2

\* The lines of a joiner that gets one more, or starts again.
LEMMA LinesIs ==
  ASSUME NEW c, NEW j \in JoinRows, NEW i
  PROVE  <<c, i>> \in Lines(c, j) <=> \E k \in 1..Len(j.held) : j.held[k] = i
  <1>1. j # None BY NoneIsNone
  <1>2. PICK held \in Seq(Nat) : held = j.held BY DEF JoinRows
  <1>3. Lines(c, j) = {<<c, held[k]>> : k \in 1..Len(held)} BY <1>1, <1>2 DEF Lines
  <1>4. QED BY <1>2, <1>3

\* Nothing was read by nobody.
LEMMA LinesOfNone == ASSUME NEW c PROVE Lines(c, None) = {} BY DEF Lines

\* Nothing that is safe stops being so.
SafeStays == \A c \in Containers, i \in Nat : Safe(c, i) => Safe(c, i)'

\* What is with the joiner, or was lost, stays so.
LEMMA SameStays == ASSUME UNCHANGED <<joinVars, lost>> PROVE SafeStays
  BY DEF SafeStays, Safe, joinVars, Lines

\* A tailer that reads in the next state read as far in this one.
ReadsOn ==
  \A h \in Handles : At(h, "read")' =>
    At(h, "read") /\ tailers'[h].of = tailers[h].of /\ tailers'[h].pos = tailers[h].pos

\* The log of a container is a sequence of lines with times.
LEMMA LinesAre ==
  ASSUME DaemonTypes, NEW c \in Containers
  PROVE  /\ Len(lines[c]) \in Nat
         /\ \A i \in 1..Len(lines[c]) : lines[c][i] \in LineRows /\ lines[c][i].time \in Nat
         /\ DOMAIN lines[c] = 1..Len(lines[c])
  <1>1. lines[c] \in Seq(LineRows) BY DEF DaemonTypes
  <1>2. QED BY <1>1, TimesAreNumbers

\* The channel holds what it must.
LEMMA ChannelIs ==
  ASSUME JoinTypes
  PROVE  /\ Len(evCh) \in Nat
         /\ \A n \in 1..Len(evCh) :
              evCh[n] \in SourceEvents /\ evCh[n].of \in Containers /\ evCh[n].line \in Nat
  <1>1. evCh \in Seq(SourceEvents) BY DEF JoinTypes
  <1>2. \A e \in SourceEvents : e.of \in Containers /\ e.line \in Nat BY DEF SourceEvents
  <1>3. QED BY <1>1, <1>2

\* A reading tailer has a container and a place.
LEMMA ReaderIs ==
  ASSUME TailTypes, NEW h \in Handles, tailers[h] # None
  PROVE  tailers[h] \in TailerRows /\ Of(h) \in Containers /\ tailers[h].of \in Containers /\ tailers[h].pos \in Nat
  <1>1. PICK t \in TailerRows : t = tailers[h] BY DEF TailTypes
  <1>2. t.of \in Containers /\ t.pos \in Nat BY DEF TailerRows
  <1>3. QED BY <1>1, <1>2 DEF Of

\* A step that leaves the channel and the lines alone.
LEMMA SameQueue ==
  ASSUME JoinTypes, TailTypes', QueueInv, SafeStays, ReadsOn, UNCHANGED <<evCh, lines>>
  PROVE  QueueInv'
  <1>1. \A c, i, n : InQueue(c, i, n)' = InQueue(c, i, n) BY DEF InQueue
  <1>2. ASSUME NEW n \in 1..Len(evCh) PROVE QueuedAt(n)'
    <2>1. evCh[n].of \in Containers /\ evCh[n].line \in Nat BY ChannelIs
    <2>2. QueuedAt(n) BY DEF QueueInv
    <2>3. QED BY <1>1, <2>1, <2>2 DEF QueuedAt, SafeStays
  <1>3. ASSUME NEW h \in Handles, At(h, "read")' PROVE ReadBy(h)'
    <2>1. At(h, "read") /\ tailers'[h].of = tailers[h].of /\ tailers'[h].pos = tailers[h].pos
      BY <1>3 DEF ReadsOn
    <2>2. tailers'[h].of \in Containers /\ tailers'[h].pos \in Nat
      <3>1. PICK t \in TailerRows : t = tailers'[h] BY <1>3 DEF At, TailTypes
      <3>2. QED BY <3>1 DEF TailerRows
    <2>3. ReadBy(h) BY DEF QueueInv
    <2>4. QED BY <1>1, <2>1, <2>2, <2>3 DEF ReadBy, SafeStays, Of
  <1>4. QED BY <1>2, <1>3 DEF QueueInv, ReadBy

\* A step that leaves the lines and the resume times alone.
LEMMA SameTimes ==
  ASSUME TimesInv, UNCHANGED <<lines, since, sinceDisk>>
  PROVE  TimesInv'
  BY DEF TimesInv, Timed

\* A step that leaves the logs and the resume times alone skips nothing.
LEMMA SameSkipped ==
  ASSUME DaemonTypes, SkippedInv, SafeStays, UNCHANGED <<lines, since, sinceDisk>>
  PROVE  SkippedInv'
  <1>1. \A c \in Containers : Len(lines[c]) \in Nat BY LinesAre
  <1>2. QED BY <1>1 DEF SkippedInv, SafeStays, Again

\* One thing leaves the channel.
LEMMA ShorterQueue ==
  ASSUME JoinTypes, TailTypes, QueueInv, SafeStays, evCh # <<>>, evCh' = Tail(evCh),
         UNCHANGED <<lines, tailers>>,
         NEW e \in SourceEvents, e = evCh[1], e.line # 0 => Safe(e.of, e.line)'
  PROVE  QueueInv'
  <1>0. evCh \in Seq(SourceEvents) BY DEF JoinTypes
  <1>1. PICK t : t = Tail(evCh) OBVIOUS
  <1>2. Len(evCh) \in Nat \ {0} /\ Len(t) = Len(evCh) - 1 /\ \A k \in 1..Len(t) : t[k] = evCh[k + 1]
    BY <1>0, <1>1, HeadAndTail
  <1>3. ASSUME NEW c \in Containers, NEW i \in Nat \ {0}, NEW n \in 1..(Len(evCh) + 1), InQueue(c, i, n)
        PROVE  Safe(c, i)' \/ InQueue(c, i, n - 1)'
    <2>1. PICK k \in 1..Len(evCh) : k < n /\ evCh[k].of = c /\ evCh[k].line = i BY <1>3 DEF InQueue
    <2>2. CASE k = 1 BY <1>3, <2>1, <2>2
    <2>3. CASE k # 1
      <3>1. PICK m \in 1..Len(t) : k = m + 1 BY <1>2, <2>1, <2>3
      <3>2. m < n - 1 /\ t[m].of = c /\ t[m].line = i BY <1>2, <2>1, <3>1
      <3>3. QED BY <1>1, <3>2 DEF InQueue
    <2>4. QED BY <2>2, <2>3
  <1>4. ASSUME NEW n \in 1..Len(t) PROVE QueuedAt(n)'
    <2>1. n + 1 \in 1..Len(evCh) /\ t[n] = evCh[n + 1] BY <1>2
    <2>2. PICK c \in Containers, l \in Nat : c = evCh[n + 1].of /\ l = evCh[n + 1].line BY <2>1, ChannelIs
    <2>3. SUFFICES ASSUME l # 0
                   PROVE  l <= Len(lines[c]) /\ \A i \in 1..(l - 1) : Safe(c, i)' \/ InQueue(c, i, n)'
      BY <1>1, <2>1, <2>2 DEF QueuedAt
    <2>4. l <= Len(lines[c]) /\ \A i \in 1..(l - 1) : Safe(c, i) \/ InQueue(c, i, n + 1)
      BY <2>1, <2>2, <2>3 DEF QueueInv, QueuedAt
    <2>5. ASSUME NEW i \in 1..(l - 1) PROVE Safe(c, i)' \/ InQueue(c, i, n)'
      <3>1. i \in Nat \ {0} /\ n + 1 \in 1..(Len(evCh) + 1) /\ (n + 1) - 1 = n BY <1>2, <2>1
      <3>2. CASE Safe(c, i) BY <3>1, <3>2 DEF SafeStays
      <3>3. CASE InQueue(c, i, n + 1) BY <1>3, <3>1, <3>3
      <3>4. QED BY <2>4, <3>2, <3>3
    <2>6. QED BY <2>4, <2>5
  <1>5. ASSUME NEW h \in Handles, At(h, "read") PROVE ReadBy(h)'
    <2>1. PICK c \in Containers, p \in Nat : c = Of(h) /\ p = tailers[h].pos BY <1>5, ReaderIs DEF At
    <2>2. \A i \in 1..(p - 1) : Safe(c, i) \/ InQueue(c, i, Len(evCh) + 1)
      BY <1>5, <2>1 DEF QueueInv, ReadBy
    <2>3. ASSUME NEW i \in 1..(p - 1) PROVE Safe(c, i)' \/ InQueue(c, i, Len(t) + 1)'
      <3>1. i \in Nat \ {0} /\ Len(evCh) + 1 \in 1..(Len(evCh) + 1) /\ (Len(evCh) + 1) - 1 = Len(t) + 1
        BY <1>2
      <3>2. CASE Safe(c, i) BY <3>1, <3>2 DEF SafeStays
      <3>3. CASE InQueue(c, i, Len(evCh) + 1) BY <1>3, <3>1, <3>3
      <3>4. QED BY <2>2, <3>2, <3>3
    <2>4. QED BY <1>1, <2>1, <2>3 DEF ReadBy, Of
  <1>6. \A h \in Handles : At(h, "read")' = At(h, "read") BY DEF At
  <1>7. QED BY <1>1, <1>4, <1>5, <1>6 DEF QueueInv, ReadBy

\* One thing enters the channel, after all that precedes it.
LEMMA LongerQueue ==
  ASSUME JoinTypes, TailTypes, TailTypes', QueueInv, NEW e \in SourceEvents, evCh' = Append(evCh, e),
         UNCHANGED <<lines, joinVars, lost>>,
         e.line # 0 => /\ e.line <= Len(lines[e.of])
                       /\ \A i \in 1..(e.line - 1) : Safe(e.of, i) \/ InQueue(e.of, i, Len(evCh) + 1),
         \A h \in Handles : At(h, "read")' =>
           /\ At(h, "read") /\ tailers'[h].of = tailers[h].of
           /\ \/ tailers'[h].pos = tailers[h].pos
              \/ tailers'[h].pos = tailers[h].pos + 1 /\ e.of = tailers[h].of /\ e.line = tailers[h].pos
  PROVE  QueueInv'
  <1>0. evCh \in Seq(SourceEvents) BY DEF JoinTypes
  <1>1. PICK t : t = Append(evCh, e) OBVIOUS
  <1>2. /\ Len(t) = Len(evCh) + 1 /\ t[Len(evCh) + 1] = e /\ Len(evCh) \in Nat
        /\ \A k \in 1..Len(evCh) : t[k] = evCh[k]
    BY <1>0, <1>1
  <1>3. ASSUME NEW c, NEW i, NEW n, InQueue(c, i, n) PROVE InQueue(c, i, n)'
    <2>1. PICK k \in 1..Len(evCh) : k < n /\ evCh[k].of = c /\ evCh[k].line = i BY <1>3 DEF InQueue
    <2>2. k \in 1..Len(t) /\ t[k] = evCh[k] BY <1>2
    <2>3. QED BY <1>1, <2>1, <2>2 DEF InQueue
  <1>4. \A c, i : Safe(c, i)' = Safe(c, i) BY DEF Safe, joinVars, Lines
  <1>5. ASSUME NEW n \in 1..Len(t) PROVE QueuedAt(n)'
    <2>1. CASE n \in 1..Len(evCh)
      <3>1. t[n] = evCh[n] /\ QueuedAt(n) BY <1>2, <2>1 DEF QueueInv
      <3>2. QED BY <1>1, <1>3, <1>4, <3>1 DEF QueuedAt
    <2>2. CASE n = Len(evCh) + 1
      <3>1. t[n] = e BY <1>2, <2>2
      <3>2. QED BY <1>1, <1>3, <1>4, <2>2, <3>1 DEF QueuedAt
    <2>3. QED BY <1>2, <2>1, <2>2
  <1>6. ASSUME NEW h \in Handles, At(h, "read")' PROVE ReadBy(h)'
    <2>1. At(h, "read") /\ tailers'[h].of = tailers[h].of BY <1>6
    <2>2. PICK c \in Containers, p \in Nat : c = tailers[h].of /\ c = Of(h) /\ p = tailers[h].pos
      BY <2>1, ReaderIs DEF At, Of
    <2>3. PICK q : q = tailers'[h].pos OBVIOUS
    <2>4. q = p \/ (q = p + 1 /\ e.of = c /\ e.line = p) BY <1>6, <2>2, <2>3
    <2>5. \A i \in 1..(p - 1) : Safe(c, i) \/ InQueue(c, i, Len(evCh) + 1)
      BY <2>1, <2>2 DEF QueueInv, ReadBy
    <2>6. ASSUME NEW i \in 1..(q - 1) PROVE Safe(c, i)' \/ InQueue(c, i, Len(t) + 1)'
      <3>1. CASE i \in 1..(p - 1)
        <4>1. CASE Safe(c, i) BY <1>4, <4>1
        <4>2. CASE InQueue(c, i, Len(evCh) + 1)
          <5>1. PICK k \in 1..Len(evCh) : evCh[k].of = c /\ evCh[k].line = i BY <4>2 DEF InQueue
          <5>2. k \in 1..Len(t) /\ t[k] = evCh[k] /\ k < Len(t) + 1 BY <1>2
          <5>3. QED BY <1>1, <5>1, <5>2 DEF InQueue
        <4>3. QED BY <2>5, <3>1, <4>1, <4>2
      <3>2. CASE i = p /\ e.of = c /\ e.line = p
        <4>1. Len(t) \in 1..Len(t) /\ t[Len(t)] = e /\ Len(t) < Len(t) + 1 BY <1>2
        <4>2. QED BY <1>1, <3>2, <4>1 DEF InQueue
      <3>3. i \in 1..(p - 1) \/ (i = p /\ e.of = c /\ e.line = p) BY <2>2, <2>4
      <3>4. QED BY <3>1, <3>2, <3>3
    <2>7. QED BY <1>1, <2>1, <2>2, <2>3, <2>6 DEF ReadBy, Of
  <1>7. QED BY <1>1, <1>5, <1>6 DEF QueueInv, ReadBy

\* The three parts of what is proved of lines, step by step.
SkipInv == TimesInv /\ QueueInv /\ SkippedInv

\* Steps that leave the lines, the channel and the joiner alone.
LEMMA CalmSteps ==
  ASSUME SourcesTypeOK, SourcesTypeOK', SkipInv, UNCHANGED <<lines, evCh, joinVars, sinceDisk, lost>>, ReadsOn
  PROVE  SkipInv'
  <1>0. DaemonTypes /\ JoinTypes /\ TailTypes' BY DEF SourcesTypeOK
  <1>1. SafeStays /\ UNCHANGED since BY SameStays DEF joinVars
  <1>2. TimesInv' BY <1>1, SameTimes DEF SkipInv
  <1>3. QueueInv' BY <1>0, <1>1, SameQueue DEF SkipInv
  <1>4. SkippedInv' BY <1>0, <1>1, SameSkipped DEF SkipInv
  <1>5. QED BY <1>2, <1>3, <1>4 DEF SkipInv

\* A container writes a line: it is not earlier than the resume time.
LEMMA WriteKeepsSkip ==
  ASSUME SourcesTypeOK, SourcesTypeOK', SkipInv, NEW c \in Containers, WritesLine(c)
  PROVE  SkipInv'
  <1>0. DaemonTypes /\ JoinTypes /\ TailTypes BY DEF SourcesTypeOK
  <1>1. UNCHANGED <<tailVars, evCh, joinVars, sinceDisk, lost>> BY DEF WritesLine
  <1>2. PICK k \in Kinds, t \in Times :
          /\ \A i \in DOMAIN lines[c] : lines[c][i].time <= t
          /\ lines' = [lines EXCEPT ![c] = Append(@, [kind |-> k, time |-> t])]
    BY DEF WritesLine
  <1>3. PICK l \in LineRows : l = [kind |-> k, time |-> t] /\ l.time = t
    <2>1. [kind |-> k, time |-> t] \in LineRows BY DEF LineRows
    <2>2. QED BY <2>1
  <1>4. PICK old \in Seq(LineRows) : old = lines[c] BY <1>0 DEF DaemonTypes
  <1>5. PICK new : new = Append(old, l) OBVIOUS
  <1>6. /\ Len(new) = Len(old) + 1 /\ Len(old) \in Nat /\ new[Len(old) + 1] = l
        /\ \A i \in 1..Len(old) : new[i] = old[i]
    BY <1>5
  <1>7. lines'[c] = new /\ \A d \in Containers : d # c => lines'[d] = lines[d]
    BY <1>0, <1>2, <1>3, <1>4, <1>5 DEF DaemonTypes
  <1>8. \A i \in 1..Len(old) : old[i].time <= t /\ old[i].time \in Nat
    BY <1>0, <1>2, <1>4, LinesAre
  <1>9. t \in Nat BY <1>3, TimesAreNumbers
  <1>10. \A d, i : Safe(d, i)' = Safe(d, i) BY <1>1 DEF Safe, joinVars, Lines
  <1>11. \A d, i, n : InQueue(d, i, n)' = InQueue(d, i, n) BY <1>1 DEF InQueue
  <1>12. \A d \in Containers : Len(lines[d]) \in Nat /\ Len(lines[d]) <= Len(lines'[d])
                               /\ Len(lines'[d]) \in Nat
    BY <1>0, <1>4, <1>6, <1>7, LinesAre
  <1>13. TimesInv'
    <2>1. ASSUME NEW s, Timed(c, s) PROVE Timed(c, s)'
      <3>1. CASE s = None BY <3>1 DEF Timed
      <3>2. CASE s # None
        <4>1. PICK i \in 1..Len(old) : old[i].time = s BY <1>4, <2>1, <3>2 DEF Timed
        <4>2. i \in 1..Len(new) /\ new[i].time = s BY <1>6, <4>1
        <4>3. QED BY <1>7, <4>2 DEF Timed
      <3>3. QED BY <3>1, <3>2
    <2>2. ASSUME NEW i \in 1..Len(new), NEW j \in 1..Len(new), i <= j PROVE new[i].time <= new[j].time
      <3>1. CASE j \in 1..Len(old)
        <4>1. i \in 1..Len(old) BY <1>6, <2>2, <3>1
        <4>2. old[i].time <= old[j].time BY <1>4, <2>2, <3>1, <4>1 DEF SkipInv, TimesInv
        <4>3. QED BY <1>6, <3>1, <4>1, <4>2
      <3>2. CASE j = Len(old) + 1 /\ i \in 1..Len(old) BY <1>3, <1>6, <1>8, <3>2
      <3>3. CASE j = Len(old) + 1 /\ i = Len(old) + 1 BY <1>3, <1>6, <1>9, <3>3
      <3>4. QED BY <1>6, <2>2, <3>1, <3>2, <3>3
    <2>3. UNCHANGED <<since, sinceDisk>> BY <1>1 DEF joinVars
    <2>4. ASSUME NEW d \in Containers, d # c
          PROVE  /\ \A i, j \in 1..Len(lines'[d]) : i <= j => lines'[d][i].time <= lines'[d][j].time
                 /\ Timed(d, since[d])' /\ Timed(d, sinceDisk[d])'
      BY <1>7, <2>3, <2>4 DEF SkipInv, TimesInv, Timed
    <2>5. Timed(c, since[c])' /\ Timed(c, sinceDisk[c])'
      <3>1. PICK s, u : s = since[c] /\ u = sinceDisk[c] OBVIOUS
      <3>2. Timed(c, s) /\ Timed(c, u) BY <3>1 DEF SkipInv, TimesInv
      <3>3. Timed(c, s)' /\ Timed(c, u)' BY <2>1, <3>2
      <3>4. s = since'[c] /\ u = sinceDisk'[c] BY <2>3, <3>1
      <3>5. QED BY <3>3, <3>4 DEF Timed
    <2>6. QED BY <1>7, <2>2, <2>4, <2>5 DEF TimesInv
  <1>14. QueueInv'
    <2>1. ASSUME NEW n \in 1..Len(evCh) PROVE QueuedAt(n)'
      <3>1. evCh[n].of \in Containers /\ evCh[n].line \in Nat BY <1>0, ChannelIs
      <3>2. QueuedAt(n) BY DEF SkipInv, QueueInv
      <3>3. QED BY <1>1, <1>10, <1>11, <1>12, <3>1, <3>2 DEF QueuedAt
    <2>2. ASSUME NEW h \in Handles PROVE ReadBy(h)'
      BY <1>1, <1>10, <1>11 DEF SkipInv, QueueInv, ReadBy, At, Of, tailVars
    <2>3. QED BY <1>1, <2>1, <2>2 DEF QueueInv
  <1>15. SkippedInv'
    <2>1. UNCHANGED <<since, sinceDisk>> BY <1>1 DEF joinVars
    <2>2. ASSUME NEW d \in Containers, NEW i \in 1..Len(lines[d]), ~Safe(d, i)
          PROVE  Again(d, i, sinceDisk[d])' /\ Again(d, i, since[d])'
      <3>1. Again(d, i, sinceDisk[d]) /\ Again(d, i, since[d]) BY <2>2 DEF SkipInv, SkippedInv
      <3>2. lines'[d][i] = lines[d][i] BY <1>4, <1>6, <1>7
      <3>3. QED BY <2>1, <3>1, <3>2 DEF Again
    <2>3. ASSUME NEW s, Timed(c, s) PROVE Again(c, Len(old) + 1, s)'
      <3>1. CASE s = None BY <3>1 DEF Again
      <3>2. CASE s # None
        <4>1. PICK i \in 1..Len(old) : old[i].time = s BY <1>4, <2>3, <3>2 DEF Timed
        <4>2. s <= t /\ s \in Nat BY <1>8, <4>1
        <4>3. t + Overlap >= s BY <1>9, <4>2, SourcesAssumption
        <4>4. QED BY <1>3, <1>6, <1>7, <4>3 DEF Again
      <3>3. QED BY <3>1, <3>2
    <2>4. Again(c, Len(old) + 1, since[c])' /\ Again(c, Len(old) + 1, sinceDisk[c])'
      <3>1. PICK s, u : s = since[c] /\ u = sinceDisk[c] OBVIOUS
      <3>2. Timed(c, s) /\ Timed(c, u) BY <3>1 DEF SkipInv, TimesInv
      <3>3. Again(c, Len(old) + 1, s)' /\ Again(c, Len(old) + 1, u)' BY <2>3, <3>2
      <3>4. s = since'[c] /\ u = sinceDisk'[c] BY <2>1, <3>1
      <3>5. QED BY <3>3, <3>4 DEF Again
    <2>5. ASSUME NEW d \in Containers, NEW i \in 1..Len(lines'[d]), ~Safe(d, i)'
          PROVE  Again(d, i, sinceDisk[d])' /\ Again(d, i, since[d])'
      <3>1. ~Safe(d, i) BY <1>10, <2>5
      <3>2. CASE i \in 1..Len(lines[d]) BY <2>2, <3>1, <3>2
      <3>3. CASE d = c /\ i = Len(old) + 1 BY <2>4, <3>3
      <3>4. QED BY <1>4, <1>6, <1>7, <3>2, <3>3
    <2>6. QED BY <2>5 DEF SkippedInv
  <1>16. QED BY <1>13, <1>14, <1>15 DEF SkipInv

\* Where a tailer starts, what is before can be read by nobody again, and
\* need not.
LEMMA FirstFromIs ==
  ASSUME DaemonTypes, TimesInv, NEW c \in Containers, NEW s \in Nat \cup {None}
  PROVE  \A i \in 1..(FirstFrom(c, s) - 1) : i <= Len(lines[c]) /\ ~Again(c, i, s)
  <1>1. CASE s = None BY <1>1 DEF FirstFrom
  <1>2. CASE s # None
    <2>1. PICK w \in Seq(LineRows) : w = lines[c] BY DEF DaemonTypes
    <2>2. PICK A : A = {i \in 1..Len(w) : w[i].time + Overlap < s} OBVIOUS
    <2>3. FirstFrom(c, s) = 1 + Cardinality(A)
      <3>1. DOMAIN w = 1..Len(w) BY <2>1
      <3>2. A = {i \in DOMAIN lines[c] : lines[c][i].time + Overlap < s} BY <2>1, <2>2, <3>1
      <3>3. QED BY <1>2, <3>2 DEF FirstFrom
    <2>4. A \subseteq 1..Len(w) /\ Len(w) \in Nat BY <2>2
    <2>5. IsFiniteSet(1..Len(w)) /\ Cardinality(1..Len(w)) = Len(w)
      <3>1. \A n \in Nat : IsFiniteSet(1..n) /\ Cardinality(1..n) = n BY FS_Interval
      <3>2. QED BY <2>4, <3>1
    <2>6. IsFiniteSet(A) /\ Cardinality(A) <= Cardinality(1..Len(w)) BY <2>4, <2>5, FS_Subset
    <2>7. Cardinality(A) \in Nat BY <2>6, FS_CardinalityType
    <2>8. \A i \in 1..Len(w) : w[i].time \in Nat
      <3>1. \A i \in 1..Len(w) : w[i] \in LineRows BY <2>1
      <3>2. QED BY <3>1, TimesAreNumbers
    <2>9. ASSUME NEW i \in 1..Cardinality(A) PROVE i \in A
      <3>1. SUFFICES ASSUME i \notin A PROVE FALSE OBVIOUS
      <3>2. i \in 1..Len(w) BY <2>4, <2>5, <2>6, <2>7
      <3>3. ASSUME NEW j \in A PROVE j <= i - 1
        <4>1. SUFFICES ASSUME j >= i PROVE FALSE BY <2>4, <3>2
        <4>2. w[i].time <= w[j].time BY <2>1, <2>4, <3>2, <4>1 DEF TimesInv
        <4>3. w[j].time + Overlap < s /\ ~(w[i].time + Overlap < s) BY <2>2, <3>1, <3>2
        <4>4. w[i].time \in Nat /\ w[j].time \in Nat /\ Overlap \in Nat /\ s \in Nat
          BY <1>2, <2>4, <2>8, <3>2, SourcesAssumption
        <4>5. QED BY <4>2, <4>3, <4>4
      <3>4. i - 1 \in Nat /\ A \subseteq 1..(i - 1) BY <2>4, <3>2, <3>3
      <3>5. IsFiniteSet(1..(i - 1)) /\ Cardinality(1..(i - 1)) = i - 1 BY <3>4, FS_Interval
      <3>6. Cardinality(A) <= Cardinality(1..(i - 1)) BY <3>4, <3>5, FS_Subset
      <3>7. QED BY <2>7, <3>4, <3>5, <3>6
    <2>10. ASSUME NEW i \in 1..Cardinality(A) PROVE i <= Len(lines[c]) /\ ~Again(c, i, s)
      <3>1. i \in 1..Len(w) /\ w[i].time + Overlap < s BY <2>2, <2>9
      <3>2. w[i].time \in Nat /\ Overlap \in Nat /\ s \in Nat BY <1>2, <2>8, <3>1, SourcesAssumption
      <3>3. QED BY <1>2, <2>1, <3>1, <3>2 DEF Again
    <2>11. QED BY <2>3, <2>7, <2>10
  <1>3. QED BY <1>1, <1>2

\* The tailers.
LEMMA TailerKeepsSkip ==
  ASSUME SourcesTypeOK, SourcesTypeOK', SkipInv, NEW h \in Handles, Tailer(h)
  PROVE  SkipInv'
  <1>0. DaemonTypes /\ JoinTypes /\ TailTypes /\ TailTypes' BY DEF SourcesTypeOK
  <1>1. UNCHANGED <<lines, joinVars, sinceDisk, lost>> /\ UNCHANGED since
    BY DEF Tailer, Opens, OpenFails, SendsLine, SeesEof, SendsEof, daemonVars, joinVars
  <1>2. PICK t \in TailerRows : t = tailers[h] /\ t # None
    BY <1>0 DEF Tailer, Opens, OpenFails, SendsLine, SeesEof, SendsEof, At, TailTypes
  <1>3. t.of \in Containers /\ t.pos \in Nat BY DEF TailerRows
  <1>4. SafeStays BY <1>1, SameStays
  <1>5. TimesInv' BY <1>1, SameTimes DEF SkipInv
  <1>6. SkippedInv' BY <1>0, <1>1, <1>4, SameSkipped DEF SkipInv
  <1>7. QueueInv'
    <2>1. CASE Opens(h)
      <3>1. PICK c \in Containers : c = t.of BY <1>3
      <3>2. PICK s \in Nat \cup {None} : s = since[c] BY <1>0 DEF JoinTypes
      <3>3. PICK n \in Nat : n = FirstFrom(c, s) BY <1>0, FirstFromType
      <3>4. PICK u : u = [t EXCEPT !.pc = "read", !.run = runs[c], !.pos = n] OBVIOUS
      <3>5. tailers' = [tailers EXCEPT ![h] = u]
        BY <1>0, <1>2, <2>1, <3>1, <3>2, <3>3, <3>4 DEF Opens, Of, TailTypes, TailerRows
      <3>6. u.pos = n /\ u.of = c BY <3>1, <3>4 DEF TailerRows
      <3>7. tailers'[h] = u /\ \A g \in Handles : g # h => tailers'[g] = tailers[g]
        BY <1>0, <3>5 DEF TailTypes
      <3>8. UNCHANGED evCh BY <2>1 DEF Opens
      <3>9. \A i \in 1..(n - 1) : Safe(c, i)
        <4>1. TAKE i \in 1..(n - 1)
        <4>2. i <= Len(lines[c]) /\ ~Again(c, i, s) BY <1>0, <3>3, FirstFromIs DEF SkipInv
        <4>3. i \in 1..Len(lines[c]) BY <1>0, <4>2, LinesAre
        <4>4. QED BY <3>2, <4>2, <4>3 DEF SkipInv, SkippedInv
      <3>10. \A d, i : Safe(d, i)' = Safe(d, i) BY <1>1 DEF Safe, joinVars, Lines
      <3>11. \A d, i, m : InQueue(d, i, m)' = InQueue(d, i, m) BY <3>8 DEF InQueue
      <3>12. ReadBy(h)' BY <3>6, <3>7, <3>9, <3>10 DEF ReadBy, Of
      <3>13. ASSUME NEW g \in Handles, g # h PROVE ReadBy(g)'
        BY <3>7, <3>8, <3>10, <3>11, <3>13 DEF SkipInv, QueueInv, ReadBy, At, Of
      <3>14. ASSUME NEW m \in 1..Len(evCh) PROVE QueuedAt(m)'
        BY <1>1, <3>8, <3>10, <3>11 DEF SkipInv, QueueInv, QueuedAt
      <3>15. QED BY <3>8, <3>12, <3>13, <3>14 DEF QueueInv
    <2>2. CASE SendsLine(h)
      <3>1. PICK c \in Containers, p \in Nat : c = t.of /\ p = t.pos BY <1>3
      <3>2. At(h, "read") /\ p <= Len(lines[c]) BY <1>2, <2>2, <3>1 DEF SendsLine, Of
      <3>3. PICK e \in SourceEvents : e = [of |-> c, line |-> p] /\ e.of = c /\ e.line = p
        <4>1. [of |-> c, line |-> p] \in SourceEvents BY DEF SourceEvents
        <4>2. QED BY <4>1
      <3>4. evCh' = Append(evCh, e) BY <1>2, <2>2, <3>1, <3>3 DEF SendsLine, Send, Of
      <3>5. PICK u : u = [t EXCEPT !.pos = p + 1] OBVIOUS
      <3>6. tailers' = [tailers EXCEPT ![h] = u] BY <1>0, <1>2, <2>2, <3>1, <3>5 DEF SendsLine, TailTypes
      <3>7. u.pos = p + 1 /\ u.of = c BY <3>1, <3>5 DEF TailerRows
      <3>8. tailers'[h] = u /\ \A g \in Handles : g # h => tailers'[g] = tailers[g]
        BY <1>0, <3>6 DEF TailTypes
      <3>9. \A g \in Handles : At(g, "read")' =>
              /\ At(g, "read") /\ tailers'[g].of = tailers[g].of
              /\ \/ tailers'[g].pos = tailers[g].pos
                 \/ tailers'[g].pos = tailers[g].pos + 1 /\ e.of = tailers[g].of /\ e.line = tailers[g].pos
        <4>1. TAKE g \in Handles
        <4>2. CASE g = h BY <1>2, <3>1, <3>2, <3>3, <3>7, <3>8, <4>2
        <4>3. CASE g # h BY <3>8, <4>3 DEF At
        <4>4. QED BY <4>2, <4>3
      <3>10. \A i \in 1..(e.line - 1) : Safe(e.of, i) \/ InQueue(e.of, i, Len(evCh) + 1)
        <4>1. \A i \in 1..(p - 1) : Safe(c, i) \/ InQueue(c, i, Len(evCh) + 1)
          BY <1>2, <3>1, <3>2 DEF SkipInv, QueueInv, ReadBy, Of
        <4>2. QED BY <3>3, <4>1
      <3>11. QED BY <1>0, <1>1, <3>2, <3>3, <3>4, <3>9, <3>10, LongerQueue DEF SkipInv
    <2>3. CASE SeesEof(h)
      <3>1. PICK u : u = [t EXCEPT !.pc = "eof", !.pos = 0, !.run = 0] OBVIOUS
      <3>2. tailers' = [tailers EXCEPT ![h] = u] BY <1>0, <1>2, <2>3, <3>1 DEF SeesEof, TailTypes, TailerRows
      <3>3. u.pc = "eof" BY <3>1 DEF TailerRows
      <3>4. tailers'[h] = u /\ \A g \in Handles : g # h => tailers'[g] = tailers[g]
        BY <1>0, <3>2 DEF TailTypes
      <3>5. ReadsOn BY <3>3, <3>4 DEF ReadsOn, At
      <3>6. UNCHANGED evCh BY <2>3 DEF SeesEof
      <3>7. QED BY <1>0, <1>1, <1>4, <3>5, <3>6, SameQueue DEF SkipInv
    <2>4. CASE OpenFails(h) \/ SendsEof(h)
      <3>1. tailers' = [tailers EXCEPT ![h] = None] BY <2>4 DEF OpenFails, SendsEof, Leaves
      <3>2. tailers'[h] = None /\ \A g \in Handles : g # h => tailers'[g] = tailers[g]
        BY <1>0, <3>1 DEF TailTypes
      <3>3. ReadsOn BY <3>2 DEF ReadsOn, At
      <3>4. CASE UNCHANGED evCh BY <1>0, <1>1, <1>4, <3>3, <3>4, SameQueue DEF SkipInv
      <3>5. CASE Send(t.of, 0)
        <4>1. PICK e \in SourceEvents : e = [of |-> t.of, line |-> 0] /\ e.line = 0
          <5>1. [of |-> t.of, line |-> 0] \in SourceEvents BY <1>3 DEF SourceEvents
          <5>2. QED BY <5>1
        <4>2. evCh' = Append(evCh, e) BY <3>5, <4>1 DEF Send
        <4>3. QED BY <1>0, <1>1, <3>3, <4>1, <4>2, LongerQueue DEF SkipInv, ReadsOn
      <3>6. UNCHANGED evCh \/ Send(t.of, 0) BY <1>2, <2>4 DEF OpenFails, SendsEof, Of
      <3>7. QED BY <3>4, <3>5, <3>6
    <2>5. QED BY <2>1, <2>2, <2>3, <2>4 DEF Tailer
  <1>8. QED BY <1>5, <1>6, <1>7 DEF SkipInv

\* The joiner loop takes what the channel has first.
LEMMA JoinerKeepsSkip ==
  ASSUME SourcesTypeOK, SourcesTypeOK', SkipInv, Feeds \/ Forgets
  PROVE  SkipInv'
  <1>0. DaemonTypes /\ JoinTypes /\ TailTypes BY DEF SourcesTypeOK
  <1>1. UNCHANGED <<lines, tailers, sinceDisk, lost>> /\ evCh # <<>> /\ evCh' = Tail(evCh)
    BY DEF Feeds, Forgets, daemonVars, tailVars
  <1>2. evCh \in Seq(SourceEvents) BY <1>0 DEF JoinTypes
  <1>3. PICK e \in SourceEvents : e = Head(evCh) /\ e = evCh[1] BY <1>1, <1>2, HeadAndTail
  <1>4. PICK c \in Containers, n \in Nat : c = e.of /\ n = e.line BY DEF SourceEvents
  <1>5. 1 \in 1..Len(evCh) BY <1>1, <1>2
  <1>6. PICK j \in JoinRows \cup {None} : j = joiners[c] BY <1>0 DEF JoinTypes
  <1>7. ASSUME NEW k \in JoinRows \cup {None}, joiners' = [joiners EXCEPT ![c] = k],
               \A i \in Nat : <<c, i>> \in Lines(c, j) =>
                 <<c, i>> \in Lines(c, k) \cup stored' \cup counted',
               stored \subseteq stored', counted \subseteq counted'
        PROVE  SafeStays
    <2>1. joiners'[c] = k /\ \A d \in Containers : d # c => joiners'[d] = joiners[d]
      BY <1>0, <1>7 DEF JoinTypes
    <2>2. ASSUME NEW d \in Containers, NEW i \in Nat, Safe(d, i) PROVE Safe(d, i)'
      <3>1. CASE <<d, i>> \in stored \cup counted \cup lost BY <1>1, <1>7, <3>1 DEF Safe
      <3>2. CASE <<d, i>> \in Lines(d, joiners[d])
        <4>1. CASE d = c
          <5>1. <<c, i>> \in Lines(c, k) \cup stored' \cup counted' BY <1>6, <1>7, <3>2, <4>1
          <5>2. QED BY <2>1, <4>1, <5>1 DEF Safe, Lines
        <4>2. CASE d # c BY <2>1, <3>2, <4>2 DEF Safe, Lines
        <4>3. QED BY <4>1, <4>2
      <3>3. QED BY <2>2, <3>1, <3>2 DEF Safe
    <2>3. QED BY <2>2 DEF SafeStays
  <1>8. CASE Forgets
    <2>1. n = 0 /\ joiners' = [joiners EXCEPT ![c] = None] /\ Appends(Record(c, j)) /\ UNCHANGED since
      BY <1>3, <1>4, <1>6, <1>8 DEF Forgets, Received
    <2>2. stored \subseteq stored' /\ counted \subseteq counted' /\ Lines(c, j) \subseteq stored' \cup counted'
      BY <2>1, AppendsAdds, RecordAdds
    <2>3. SafeStays BY <1>7, <2>1, <2>2
    <2>4. QueueInv' BY <1>0, <1>1, <1>3, <1>4, <2>1, <2>3, ShorterQueue DEF SkipInv
    <2>5. TimesInv' BY <1>1, <2>1, SameTimes DEF SkipInv
    <2>6. SkippedInv' BY <1>0, <1>1, <2>1, <2>3, SameSkipped DEF SkipInv
    <2>7. QED BY <2>4, <2>5, <2>6 DEF SkipInv
  <1>9. CASE Feeds
    <2>1. n # 0 BY <1>3, <1>4, <1>9 DEF Feeds, Received
    <2>2. n <= Len(lines[c]) /\ \A i \in 1..(n - 1) : Safe(c, i)
      <3>1. QueuedAt(1) BY <1>5 DEF SkipInv, QueueInv
      <3>2. \A i : ~InQueue(c, i, 1) BY DEF InQueue
      <3>3. QED BY <1>3, <1>4, <2>1, <3>1, <3>2 DEF QueuedAt
    <2>3. PICK l \in LineRows : l = lines[c][n] /\ l.time \in Nat
      <3>1. n \in 1..Len(lines[c]) BY <1>0, <2>1, <2>2, LinesAre
      <3>2. QED BY <1>0, <3>1, LinesAre
    <2>4. since' = [since EXCEPT ![c] = l.time] BY <1>3, <1>4, <1>9, <2>3 DEF Feeds, Received
    <2>5. PICK joins \in BOOLEAN : joins = (Continues(j, l.kind) /\ Len(j.held) < MaxJoin) OBVIOUS
    <2>6. PICK k : k = IF joins THEN [j EXCEPT !.held = Append(j.held, n), !.last = FALSE] ELSE Fresh(n, l.kind)
      OBVIOUS
    <2>7. joiners' = [joiners EXCEPT ![c] = k] /\ Appends(IF joins THEN {} ELSE Record(c, j))
      BY <1>3, <1>4, <1>6, <1>9, <2>3, <2>5, <2>6 DEF Feeds, Received
    <2>8. /\ k \in JoinRows /\ <<c, n>> \in Lines(c, k)
          /\ \A i \in Nat : <<c, i>> \in Lines(c, j) => <<c, i>> \in Lines(c, k) \cup stored' \cup counted'
      <3>1. CASE joins
        <4>1. j \in JoinRows BY <1>6, <2>5, <3>1 DEF Continues
        <4>2. PICK held \in Seq(Nat) : held = j.held BY <4>1 DEF JoinRows
        <4>3. PICK new \in Seq(Nat) : new = Append(held, n)
          <5>1. Append(held, n) \in Seq(Nat) OBVIOUS
          <5>2. QED BY <5>1
        <4>4. k = [j EXCEPT !.held = new, !.last = FALSE] BY <2>6, <3>1, <4>2, <4>3
        <4>5. k \in JoinRows /\ k.held = new BY <4>1, <4>4 DEF JoinRows
        <4>6. /\ Len(held) \in Nat /\ Len(new) = Len(held) + 1 /\ new[Len(new)] = n
              /\ \A m \in 1..Len(held) : m \in 1..Len(new) /\ new[m] = held[m]
              /\ Len(new) \in 1..Len(new)
          BY <4>2, <4>3
        <4>7. <<c, n>> \in Lines(c, k) BY <4>5, <4>6, LinesIs
        <4>8. ASSUME NEW i \in Nat, <<c, i>> \in Lines(c, j) PROVE <<c, i>> \in Lines(c, k)
          <5>1. PICK m \in 1..Len(held) : held[m] = i BY <4>1, <4>2, <4>8, LinesIs
          <5>2. m \in 1..Len(new) /\ new[m] = i BY <4>6, <5>1
          <5>3. QED BY <4>5, <5>2, LinesIs
        <4>9. QED BY <4>5, <4>7, <4>8
      <3>2. CASE ~joins
        <4>1. PICK b \in BOOLEAN : b = (l.kind = "panic") OBVIOUS
        <4>2. k \in JoinRows /\ k.held = <<n>>
          <5>1. <<n>> \in Seq(Nat) OBVIOUS
          <5>2. k = [held |-> <<n>>, panic |-> b, last |-> b] BY <2>6, <3>2, <4>1 DEF Fresh
          <5>3. QED BY <5>1, <5>2 DEF JoinRows
        <4>3. <<c, n>> \in Lines(c, k)
          <5>1. 1 \in 1..Len(<<n>>) /\ <<n>>[1] = n OBVIOUS
          <5>2. QED BY <4>2, <5>1, LinesIs
        <4>4. Lines(c, j) \subseteq stored' \cup counted' BY <2>7, <3>2, RecordAdds
        <4>5. QED BY <4>2, <4>3, <4>4
      <3>3. QED BY <3>1, <3>2
    <2>9. stored \subseteq stored' /\ counted \subseteq counted' BY <2>7, AppendsAdds
    <2>10. SafeStays BY <1>7, <2>7, <2>8, <2>9
    <2>11. Safe(c, n)'
      <3>1. joiners'[c] = k BY <1>0, <2>7 DEF JoinTypes
      <3>2. QED BY <2>8, <3>1 DEF Safe, Lines
    <2>12. QueueInv' BY <1>0, <1>1, <1>3, <1>4, <2>10, <2>11, ShorterQueue DEF SkipInv
    <2>13. since'[c] = l.time /\ \A d \in Containers : d # c => since'[d] = since[d]
      BY <1>0, <2>4 DEF JoinTypes
    <2>14. TimesInv'
      <3>1. \A d \in Containers : \A i, m \in 1..Len(lines[d]) : i <= m => lines[d][i].time <= lines[d][m].time
        BY DEF SkipInv, TimesInv
      <3>2. n \in 1..Len(lines[c]) BY <1>0, <2>1, <2>2, LinesAre
      <3>3. ASSUME NEW d \in Containers PROVE Timed(d, since[d])' /\ Timed(d, sinceDisk[d])'
        <4>1. Timed(d, since[d]) /\ Timed(d, sinceDisk[d]) BY DEF SkipInv, TimesInv
        <4>2. Timed(d, sinceDisk[d])' BY <1>1, <4>1 DEF Timed
        <4>3. CASE d = c BY <1>1, <2>3, <2>13, <3>2, <4>2, <4>3 DEF Timed
        <4>4. CASE d # c BY <1>1, <2>13, <4>1, <4>2, <4>4 DEF Timed
        <4>5. QED BY <4>3, <4>4
      <3>4. QED BY <1>1, <3>1, <3>3 DEF TimesInv
    <2>15. SkippedInv'
      <3>1. SUFFICES ASSUME NEW d \in Containers, NEW i \in 1..Len(lines[d]), ~Safe(d, i)'
                     PROVE  Again(d, i, sinceDisk[d])' /\ Again(d, i, since[d])'
        BY <1>1 DEF SkippedInv
      <3>2. i \in Nat BY <1>0, LinesAre
      <3>3. ~Safe(d, i) BY <2>10, <3>1, <3>2 DEF SafeStays
      <3>4. Again(d, i, sinceDisk[d]) /\ Again(d, i, since[d]) BY <3>3 DEF SkipInv, SkippedInv
      <3>5. Again(d, i, sinceDisk[d])' BY <1>1, <3>4 DEF Again
      <3>6. CASE d # c BY <1>1, <2>13, <3>4, <3>5, <3>6 DEF Again
      <3>7. CASE d = c
        <4>1. i # n BY <2>11, <3>1, <3>7
        <4>2. i > n
          <5>1. SUFFICES ASSUME i < n PROVE FALSE BY <3>2, <4>1
          <5>2. i \in 1..(n - 1) BY <3>2, <5>1
          <5>3. QED BY <2>2, <3>3, <3>7, <5>2
        <4>3. n \in 1..Len(lines[c]) BY <1>0, <2>1, <2>2, LinesAre
        <4>4. l.time <= lines[c][i].time BY <2>3, <3>2, <3>7, <4>2, <4>3 DEF SkipInv, TimesInv
        <4>5. lines[c][i].time \in Nat /\ Overlap \in Nat BY <1>0, <3>7, LinesAre, SourcesAssumption
        <4>6. lines[c][i].time + Overlap >= l.time BY <2>3, <4>4, <4>5
        <4>7. QED BY <1>1, <2>13, <3>5, <3>7, <4>6 DEF Again
      <3>8. QED BY <3>6, <3>7
    <2>16. QED BY <2>12, <2>14, <2>15 DEF SkipInv
  <1>10. QED BY <1>8, <1>9

\* What all joiners hold.
LEMMA HeldAre ==
  ASSUME NEW c \in Containers PROVE Lines(c, joiners[c]) \subseteq AllHeld
  BY DEF AllHeld

\* No line is held where there is none.
LEMMA EmptyHolds ==
  ASSUME NEW c \in Containers, joiners' = Empty PROVE joiners'[c] = None
  BY DEF Empty

\* The joiners are flushed, the resume times stored, or the process dies.
LEMMA LifeKeepsSkip ==
  ASSUME SourcesTypeOK, SourcesTypeOK', SkipInv, Ticks \/ PersistSince \/ Stopped \/ Crash
  PROVE  SkipInv'
  <1>0. DaemonTypes /\ JoinTypes /\ TailTypes /\ TailTypes' BY DEF SourcesTypeOK
  <1>1. UNCHANGED lines BY DEF Ticks, PersistSince, Stopped, Crash, daemonVars
  <1>2. SafeStays
    <2>1. CASE PersistSince BY <2>1, SameStays DEF PersistSince
    <2>2. CASE Ticks
      <3>1. PICK records : /\ records = UNION {Record(c, joiners[c]) : c \in Containers}
                           /\ Appends(records) /\ UNCHANGED lost
        BY <2>2 DEF Ticks
      <3>2. stored \subseteq stored' /\ counted \subseteq counted' BY <3>1, AppendsAdds
      <3>3. \A c \in Containers : Lines(c, joiners[c]) \subseteq stored' \cup counted'
        <4>1. \A c \in Containers : Record(c, joiners[c]) \subseteq records BY <3>1
        <4>2. QED BY <3>1, <4>1, RecordAdds
      <3>4. QED BY <3>1, <3>2, <3>3 DEF SafeStays, Safe
    <2>3. CASE Stopped
      <3>1. AllHeld = {} /\ UNCHANGED <<stored, counted, lost>> BY <2>3 DEF Stopped
      <3>2. QED BY <3>1, HeldAre DEF SafeStays, Safe
    <2>4. CASE Crash
      <3>1. lost' = lost \cup AllHeld /\ UNCHANGED <<stored, counted>> BY <2>4 DEF Crash
      <3>2. QED BY <3>1, HeldAre DEF SafeStays, Safe
    <2>5. QED BY <2>1, <2>2, <2>3, <2>4
  <1>3. \/ UNCHANGED <<since, sinceDisk>>
        \/ since' = since /\ sinceDisk' = since
        \/ since' = sinceDisk /\ sinceDisk' = sinceDisk
    BY DEF Ticks, PersistSince, Stopped, Crash, joinVars
  <1>4. TimesInv' BY <1>1, <1>3 DEF SkipInv, TimesInv, Timed
  <1>5. SkippedInv'
    <2>1. \A c \in Containers : Len(lines[c]) \in Nat BY <1>0, LinesAre
    <2>2. SUFFICES ASSUME NEW c \in Containers, NEW i \in 1..Len(lines[c]), ~Safe(c, i)'
                   PROVE  Again(c, i, sinceDisk[c])' /\ Again(c, i, since[c])'
      BY <1>1 DEF SkippedInv
    <2>3. ~Safe(c, i) BY <1>2, <2>1, <2>2 DEF SafeStays
    <2>4. Again(c, i, sinceDisk[c]) /\ Again(c, i, since[c]) BY <2>3 DEF SkipInv, SkippedInv
    <2>5. QED BY <1>1, <1>3, <2>4 DEF Again
  <1>6. QueueInv'
    <2>1. CASE Crash
      <3>1. evCh' = <<>> BY <2>1 DEF Crash
      <3>2. \A h \in Handles : tailers'[h] = None BY <2>1 DEF Crash
      <3>3. QED BY <3>1, <3>2 DEF QueueInv, ReadBy, At
    <2>2. CASE Ticks \/ PersistSince \/ Stopped
      <3>1. UNCHANGED <<evCh, tailers>> BY <2>2 DEF Ticks, PersistSince, Stopped, tailVars
      <3>2. ReadsOn BY <3>1 DEF ReadsOn, At
      <3>3. QED BY <1>0, <1>1, <1>2, <3>1, <3>2, SameQueue DEF SkipInv
    <2>3. QED BY <2>1, <2>2
  <1>7. QED BY <1>4, <1>5, <1>6 DEF SkipInv

\* The types and the places, which the lines in the channel keep together
\* with those of the joiner.
TypedInv == SourcesTypeOK /\ PlaceInv /\ SkipInv

\* The first state has the types.
LEMMA InitTyped == Init => TypedInv
  <1>1. SUFFICES ASSUME Init PROVE TypedInv OBVIOUS
  <1>2. PlaceInv BY <1>1 DEF Init, SourcesInit, PlaceInv, PlaceOf, Empty
  <1>3. /\ \A c \in Containers : lines[c] = <<>> /\ since[c] = None /\ sinceDisk[c] = None
        /\ evCh = <<>> /\ \A h \in Handles : tailers[h] = None
    BY <1>1 DEF Init, SourcesInit, Empty
  <1>4. \A c \in Containers : Len(lines[c]) = 0 BY <1>3
  <1>5. TimesInv BY <1>3, <1>4 DEF TimesInv, Timed
  <1>6. QueueInv BY <1>3 DEF QueueInv, ReadBy, At
  <1>7. SkippedInv BY <1>4 DEF SkippedInv
  <1>8. QED BY <1>1, <1>2, <1>5, <1>6, <1>7, InitTypes DEF TypedInv, SkipInv

\* Every step keeps the types.
LEMMA StepTyped == TypedInv /\ [Next]_vars => TypedInv'
  <1>1. SUFFICES ASSUME TypedInv, [Next]_vars PROVE TypedInv' OBVIOUS
  <1>0. SourcesTypeOK /\ PlaceInv /\ SkipInv BY <1>1 DEF TypedInv
  <1>2. CASE Daemon
    <2>1. SourcesTypeOK' BY <1>0, <1>2, DaemonKeepsTypes
    <2>2. UNCHANGED <<src, tailVars, evCh, joinVars, sinceDisk, up, lost>> BY <1>0, <1>2, DaemonDoes
    <2>3. PlaceInv' BY <1>0, <2>2 DEF PlaceInv, PlaceOf, tailVars
    <2>4. ReadsOn BY <2>2 DEF ReadsOn, At, tailVars
    <2>5. CASE UNCHANGED lines BY <1>0, <2>1, <2>2, <2>3, <2>4, <2>5, CalmSteps DEF TypedInv
    <2>6. CASE \E c \in Containers : WritesLine(c)
      BY <1>0, <2>1, <2>3, <2>6, WriteKeepsSkip DEF TypedInv
    <2>7. QED BY <1>2, <2>5, <2>6 DEF Daemon, ContainerStarts, ContainerDies
  <1>3. CASE Source
    <2>1. SourcesTypeOK' /\ PlaceInv' BY <1>0, <1>3, SourceKeepsTypes
    <2>2. UNCHANGED <<daemonVars, evCh, joinVars, sinceDisk, up, lost>> BY <1>0, <1>3, SourceDoes
    <2>3. ReadsOn
      <3>1. CASE \E cs \in SUBSET Containers : Started(cs)
        <4>1. PICK cs \in SUBSET Containers : Started(cs) BY <3>1
        <4>2. ASSUME NEW h \in Handles, At(h, "read")' PROVE tailers'[h] = tailers[h]
          <5>1. SUFFICES ASSUME NEW c \in cs, tailers'[h] = NewTailer(c) PROVE FALSE BY <4>1 DEF Started
          <5>2. PICK t : t = NewTailer(c) OBVIOUS
          <5>3. t.pc = "open" BY <5>2 DEF NewTailer
          <5>4. QED BY <4>2, <5>1, <5>2, <5>3 DEF At
        <4>3. QED BY <4>2 DEF ReadsOn, At
      <3>2. CASE \E c \in Containers : Stops(c)
        <4>1. PICK c \in Containers : Stops(c) BY <3>2
        <4>2. TailTypes BY <1>0 DEF SourcesTypeOK
        <4>3. ASSUME NEW h \in Handles, At(h, "read")'
              PROVE  At(h, "read") /\ tailers'[h].of = tailers[h].of /\ tailers'[h].pos = tailers[h].pos
          <5>1. CASE tailers'[h] = tailers[h] BY <4>3, <5>1 DEF At
          <5>2. CASE tailers[h] # None /\ tailers'[h] = [tailers[h] EXCEPT !.live = FALSE]
            <6>1. PICK t \in TailerRows : t = tailers[h] BY <4>2, <5>2 DEF TailTypes
            <6>2. PICK u : u = [t EXCEPT !.live = FALSE] OBVIOUS
            <6>3. u.of = t.of /\ u.pos = t.pos /\ u.pc = t.pc BY <6>2 DEF TailerRows
            <6>4. tailers'[h] = u BY <5>2, <6>1, <6>2
            <6>5. QED BY <4>3, <5>2, <6>1, <6>3, <6>4 DEF At
          <5>3. QED BY <1>0, <4>1, <4>2, <5>1, <5>2, StopsTypes
        <4>4. QED BY <4>3 DEF ReadsOn
      <3>3. CASE UNCHANGED tailers BY <3>3 DEF ReadsOn, At
      <3>4. QED BY <1>0, <1>3, <3>1, <3>2, <3>3, SourceDoes
    <2>4. QED BY <1>0, <2>1, <2>2, <2>3, CalmSteps DEF TypedInv, daemonVars
  <1>4. CASE \E h \in Handles : Tailer(h)
    BY <1>0, <1>4, TailerKeepsTypes, TailerKeepsSkip DEF TypedInv
  <1>5. CASE JoinerLoop \/ PersistSince
    <2>1. SourcesTypeOK' /\ PlaceInv' BY <1>0, <1>5, JoinerKeepsTypes DEF SkipInv
    <2>2. QED BY <1>0, <1>5, <2>1, JoinerKeepsSkip, LifeKeepsSkip DEF TypedInv, JoinerLoop
  <1>6. CASE Stop \/ Stopped \/ Crash \/ Restart
    <2>1. SourcesTypeOK' /\ PlaceInv' BY <1>0, <1>6, LifeKeepsTypes
    <2>2. CASE Stopped \/ Crash BY <1>0, <2>1, <2>2, LifeKeepsSkip DEF TypedInv
    <2>3. CASE Restart
      <3>1. UNCHANGED <<lines, evCh, joinVars, sinceDisk, lost>> /\ UNCHANGED tailers
        BY <2>3 DEF Restart, daemonVars, tailVars
      <3>2. ReadsOn BY <3>1 DEF ReadsOn, At
      <3>3. QED BY <1>0, <2>1, <3>1, <3>2, CalmSteps DEF TypedInv
    <2>4. CASE Stop
      <3>1. UNCHANGED <<lines, evCh, joinVars, sinceDisk, lost>> /\ tailers' = Cancelled
        BY <2>4 DEF Stop, daemonVars
      <3>2. TailTypes BY <1>0 DEF SourcesTypeOK
      <3>3. ASSUME NEW h \in Handles, At(h, "read")'
            PROVE  At(h, "read") /\ tailers'[h].of = tailers[h].of /\ tailers'[h].pos = tailers[h].pos
        <4>1. tailers[h] # None BY <3>1, <3>3 DEF Cancelled, At
        <4>2. PICK t \in TailerRows : t = tailers[h] BY <3>2, <4>1 DEF TailTypes
        <4>3. PICK u : u = [t EXCEPT !.live = FALSE] OBVIOUS
        <4>4. u.of = t.of /\ u.pos = t.pos /\ u.pc = t.pc BY <4>3 DEF TailerRows
        <4>5. tailers'[h] = u BY <3>1, <4>1, <4>2, <4>3 DEF Cancelled
        <4>6. QED BY <3>3, <4>1, <4>2, <4>4, <4>5 DEF At
      <3>4. ReadsOn BY <3>3 DEF ReadsOn
      <3>5. QED BY <1>0, <2>1, <3>1, <3>4, CalmSteps DEF TypedInv
    <2>5. QED BY <1>6, <2>2, <2>3, <2>4
  <1>7. CASE UNCHANGED sourceVars
    <2>1. SourcesTypeOK'
      BY <1>0, <1>7 DEF SourcesTypeOK, DaemonTypes, TailTypes, JoinTypes, PhaseTypes, sourceVars, daemonVars,
                        tailVars, joinVars
    <2>2. PlaceInv' BY <1>0, <1>7 DEF PlaceInv, PlaceOf, sourceVars, tailVars
    <2>3. ReadsOn BY <1>7 DEF ReadsOn, At, sourceVars, tailVars
    <2>4. QED BY <1>0, <1>7, <2>1, <2>2, <2>3, CalmSteps DEF TypedInv, sourceVars, daemonVars
  <1>8. QED BY <1>1, <1>2, <1>3, <1>4, <1>5, <1>6, <1>7, NextSteps

\* The docker source's variables have their types, its places are held by
\* tailers of their containers, and its lines are where they must be.
THEOREM SourcesTyped == Spec => []TypedInv
  BY InitTyped, StepTyped, PTL DEF Spec

\* SetSince and PersistSince: whenever the process dies or a tailer stops,
\* every line is in the spool, counted as refused, or read again by the next
\* tailer; but for lines the joiner holds, which a crash loses.
THEOREM NothingIsSkipped == Spec => []NothingSkipped
  <1>1. TypedInv => NothingSkipped
    <2>1. SUFFICES ASSUME TypedInv PROVE NothingSkipped OBVIOUS
    <2>2. DaemonTypes /\ SkippedInv BY <2>1 DEF TypedInv, SourcesTypeOK, SkipInv
    <2>3. ASSUME NEW c \in Selected, NEW i \in DOMAIN lines[c], ~Safe(c, i)
          PROVE  Again(c, i, sinceDisk[c]) /\ Again(c, i, since[c])
      <3>1. c \in Containers BY SourcesAssumption
      <3>2. i \in 1..Len(lines[c]) BY <2>2, <3>1, LinesAre
      <3>3. QED BY <2>2, <2>3, <3>1, <3>2 DEF SkippedInv
    <2>4. QED BY <2>3 DEF NothingSkipped, Safe
  <1>2. QED BY <1>1, SourcesTyped, PTL

\* runDockerSource: with the events followed and none waiting, every selected
\* container that runs has a tailer that is not cancelled; but for one whose
\* log ended by itself, or could not be listed or read, since it was listed.
THEOREM ContainersAreTailed == Spec => []TailedWhenQuiet
  <1> DEFINE IInv == TypedInv /\ StreamInv /\ FollowInv
  <1>1. Init => IInv
    <2>1. Init => StreamInv /\ FollowInv BY DEF Init, SourcesInit, StreamInv, FollowInv
    <2>2. QED BY <2>1, InitTyped
  <1>2. IInv /\ [Next]_vars => IInv'
    <2>1. TypedInv => SourcesTypeOK /\ PlaceInv BY DEF TypedInv
    <2>2. QED BY <2>1, StepTyped, StepKeepsStream, StepKeepsFollow
  <1>3. IInv => TailedWhenQuiet
    <2>1. SUFFICES ASSUME IInv, up = "up", src = "follow", stream = <<>>,
                          NEW c \in Selected, c \in running, c \notin blind
                   PROVE  /\ cancels[c] # None
                          /\ tailers[cancels[c]] # None /\ Of(cancels[c]) = c /\ tailers[cancels[c]].live
      BY DEF TailedWhenQuiet
    <2>2. c \in Containers BY SourcesAssumption
    <2>3. NoneWaits(c) BY <2>1 DEF NoneWaits
    <2>4. cancels[c] # None BY <2>1, <2>3 DEF FollowInv
    <2>5. PlaceOf(c) BY <2>1, <2>2 DEF TypedInv, PlaceInv
    <2>6. QED BY <2>1, <2>4, <2>5 DEF PlaceOf, Of
  <1>4. QED BY <1>1, <1>2, <1>3, PTL DEF Spec

-----------------------------------------------------------------------------
(* The file tailer *)

Units == Nat \cup {NL}
FileTypes ==
  /\ content \in Seq(Seq(Units)) /\ path \in {Absent, Len(content)} /\ writer \in 1..Len(content)
  /\ texts \in Nat /\ f \in (1..Len(content)) \cup {Absent} /\ readBytes \in Nat /\ pending \in Seq(Units)
  /\ pc \in {"open", "drain", "poll", "swap"} /\ cut \in BOOLEAN

\* A line's text, then its newline, and so on.
Alternates(s) == \A k \in 1..Len(s) : IF k % 2 = 1 THEN s[k] \in Nat ELSE s[k] = NL

\* The writer's file is the last that anything was written to, and ends in the
\* line begun last, if in one that is not ended.
WriterInv ==
  /\ \A g \in 1..Len(content) : Alternates(content[g]) /\ (g > writer => content[g] = <<>>)
  /\ Len(content[writer]) % 2 = 1 => content[writer][Len(content[writer])] = texts

\* What is held is the one line of the open file that was begun and not ended,
\* unless the file was cut.
HandleInv ==
  f # Absent =>
    /\ Len(pending) = readBytes % 2 /\ Alternates(pending)
    /\ ~cut => /\ readBytes <= Len(content[f])
               /\ readBytes % 2 = 1 => \/ pending[1] = content[f][readBytes]
                                       \/ content[f][readBytes] \in gone

\* The lines of g that end at its unit n or before it.
DoneTo(g, n) ==
  \A k \in 1..Len(content[g]) : (k % 2 = 0 /\ k <= n) => content[g][k - 1] \in emitted \cup gone
TextsGone(g) == \A k \in 1..Len(content[g]) : k % 2 = 1 => content[g][k] \in gone
DoneInv ==
  /\ f # Absent /\ ~cut => DoneTo(f, readBytes)
  /\ \A g \in 1..Len(content) : g # f /\ g # path => DoneTo(g, Len(content[g]))
  /\ f # Absent /\ f # path /\ cut => TextsGone(f)
  /\ f # Absent /\ f # path /\ pc = "open" => DoneTo(f, Len(content[f]))
  /\ f # Absent /\ f = path /\ pc = "open" => cut
  /\ pc = "swap" => f # Absent /\ f # path

FileInv == FileTypes /\ WriterInv /\ HandleInv /\ DoneInv
-----------------------------------------------------------------------------
(* What emitLines makes of units that alternate *)

\* Odd and even.
LEMMA Parity ==
  ASSUME NEW n \in Nat
  PROVE  /\ n % 2 \in {0, 1}
         /\ n < 2 => n % 2 = n
         /\ (n + 1) % 2 = 1 - (n % 2)
         /\ (n + 1) % 2 = 1 <=> ~(n % 2 = 1)
         /\ (n + 1) % 2 = 0 => n >= 1
         /\ n >= 1 => (n - 1) % 2 = 1 - (n % 2)
         /\ n >= 2 => (n - 2) % 2 = n % 2
         /\ (n - (n % 2)) % 2 = 0
         /\ \A m \in Nat : m >= n => ((n % 2) + m - n) % 2 = m % 2
         /\ \A m \in Nat : m >= n => ((m - n) + (n % 2)) % 2 = m % 2 /\ ((m + n) - (n % 2)) % 2 = m % 2
  OBVIOUS

\* The last even number up to one.
LEMMA LastEven ==
  ASSUME NEW n \in Nat, n >= 2
  PROVE  \E last \in 1..n :
           /\ last % 2 = 0 /\ (n % 2 = 0 => last = n) /\ (n % 2 = 1 => last + 1 = n)
           /\ \A k \in 1..n : k % 2 = 0 => k <= last
<1>1. CASE n % 2 = 0
  BY <1>1
<1>2. CASE n % 2 = 1
  <2>1. n - 1 \in 1..n /\ (n - 1) % 2 = 0 /\ (n - 1) + 1 = n
    BY <1>2
  <2>2. \A k \in 1..n : k % 2 = 0 => k <= n - 1
    BY <1>2
  <2> QED
    BY <1>2, <2>1, <2>2
<1> QED
  BY <1>1, <1>2, Parity

\* Two sequences, one after the other, and the end of one.
LEMMA Concatenated ==
  ASSUME NEW s \in Seq(Units), NEW t \in Seq(Units)
  PROVE  /\ s \o t \in Seq(Units) /\ Len(s \o t) = Len(s) + Len(t)
         /\ \A k \in 1..(Len(s) + Len(t)) : (s \o t)[k] = IF k <= Len(s) THEN s[k] ELSE t[k - Len(s)]
  OBVIOUS

\* What follows the place n of a sequence, when that is one unit or none.
LEMMA TailOf ==
  ASSUME NEW s \in Seq(Units), NEW n \in Nat
  PROVE  /\ n = Len(s) => SubSeq(s, n + 1, Len(s)) = <<>>
         /\ n + 1 = Len(s) => /\ Len(SubSeq(s, n + 1, Len(s))) = 1
                              /\ SubSeq(s, n + 1, Len(s))[1] = s[Len(s)]
                              /\ SubSeq(s, n + 1, Len(s)) \in Seq(Units)
  OBVIOUS

\* Texts are not newlines.
LEMMA UnitsDiffer ==
  ASSUME NEW s \in Seq(Units), Alternates(s), NEW k \in 1..Len(s)
  PROVE  (k % 2 = 0 <=> s[k] = NL) /\ (k % 2 = 1 => s[k] \in Nat /\ s[k] # NL)
<1>1. k \in Nat /\ (k % 2 = 0 \/ k % 2 = 1)
  OBVIOUS
<1> QED
  BY <1>1, FileTailAssumption DEF Alternates

\* The text before a newline is sent on.
LEMMA WholeOf ==
  ASSUME NEW s \in Seq(Units), Alternates(s), NEW k \in 1..Len(s), k % 2 = 0
  PROVE  s[k - 1] \in Whole(s)
<1>1. k \in Nat /\ k >= 2 /\ k - 1 \in 1..Len(s) /\ (k - 1) % 2 = 1
  OBVIOUS
<1>2. k = 2 \/ (k - 2 \in 1..Len(s) /\ (k - 2) % 2 = 0)
  BY <1>1
<1>3. s[k] = NL /\ s[k - 1] # NL /\ (k = 2 \/ s[k - 2] = NL)
  BY <1>1, <1>2, UnitsDiffer
<1>4. k \in {i \in Ends(s) : i > 1 /\ s[i - 1] # NL /\ (i = 2 \/ s[i - 2] = NL)}
  BY <1>1, <1>3 DEF Ends
<1> QED
  BY <1>4 DEF Whole

\* What is left over is the text of the line that is not ended, if any.
LEMMA RestOf ==
  ASSUME NEW s \in Seq(Units), Alternates(s)
  PROVE  /\ Rest(s) \in Seq(Units) /\ Alternates(Rest(s)) /\ Len(Rest(s)) = Len(s) % 2
         /\ Len(s) % 2 = 1 => Rest(s)[1] = s[Len(s)]
<1>1. Len(s) \in Nat /\ DOMAIN s = 1..Len(s)
  OBVIOUS
<1>2. Ends(s) = {k \in 1..Len(s) : k % 2 = 0}
  BY <1>1, UnitsDiffer DEF Ends
<1>3. Len(s) % 2 \in {0, 1}
  BY <1>1, Parity
<1>4. CASE Len(s) < 2
  <2>1. Len(s) % 2 = Len(s)
    BY <1>1, <1>4, Parity
  <2>2. \A k \in 1..Len(s) : k % 2 # 0
    BY <1>1, <1>4
  <2>3. Ends(s) = {} /\ Rest(s) = s
    BY <1>2, <2>2 DEF Rest
  <2> QED
    BY <1>1, <1>3, <2>1, <2>3
<1>5. CASE Len(s) >= 2
  <2> DEFINE Latest(i) == \A k \in Ends(s) : k <= i
  <2>1. PICK last \in 1..Len(s) :
          /\ last % 2 = 0 /\ (Len(s) % 2 = 0 => last = Len(s)) /\ (Len(s) % 2 = 1 => last + 1 = Len(s))
          /\ \A k \in 1..Len(s) : k % 2 = 0 => k <= last
    BY <1>1, <1>5, LastEven
  <2>2. last \in Ends(s) /\ Latest(last)
    BY <1>2, <2>1
  <2>3. ASSUME NEW i \in Ends(s), Latest(i) PROVE i = last
    <3>1. i <= last /\ last <= i /\ i \in Nat
      BY <1>2, <2>2, <2>3
    <3> QED
      BY <3>1
  <2>4. (CHOOSE i \in Ends(s) : Latest(i)) = last
    BY <2>2, <2>3
  <2>5. Rest(s) = SubSeq(s, last + 1, Len(s))
    BY <2>2, <2>4 DEF Rest
  <2>6. CASE Len(s) % 2 = 0
    <3>1. Rest(s) = <<>>
      BY <2>1, <2>5, <2>6, TailOf
    <3> QED
      BY <2>6, <3>1 DEF Alternates
  <2>7. CASE Len(s) % 2 = 1
    <3>1. Len(s) \in 1..Len(s)
      BY <1>1, <1>5
    <3>2. s[Len(s)] \in Units /\ s[Len(s)] \in Nat
      BY <2>7, <3>1, UnitsDiffer
    <3>4. Rest(s) \in Seq(Units) /\ Len(Rest(s)) = 1 /\ Rest(s)[1] = s[Len(s)]
      BY <2>1, <2>5, <2>7, TailOf
    <3>5. Alternates(Rest(s))
      BY <3>2, <3>4 DEF Alternates
    <3> QED
      BY <2>7, <3>4, <3>5
  <2> QED
    BY <1>3, <2>6, <2>7
<1> QED
  BY <1>1, <1>4, <1>5

\* What is held, and what is read of the units c after the first r.
HeldAndRead(held, c, r) == held \o SubSeq(c, r + 1, Len(c))

\* It alternates too, and ends as c does.
LEMMA NewUnits ==
  ASSUME NEW c \in Seq(Units), Alternates(c), NEW held \in Seq(Units), Alternates(held),
         NEW r \in Nat, r <= Len(c), Len(held) = (r % 2)
  PROVE  LET new == HeldAndRead(held, c, r)
         IN  /\ new \in Seq(Units) /\ Len(new) = (r % 2) + Len(c) - r /\ Alternates(new)
             /\ \A k \in 1..Len(c) : k > r => new[k - r + (r % 2)] = c[k]
             /\ (r % 2) = 1 => new[1] = held[1]
<1>0. PICK new : new = HeldAndRead(held, c, r)
  OBVIOUS
<1> DEFINE read == SubSeq(c, r + 1, Len(c))
<1>1. PICK p \in 0..1 : p = r % 2
  BY Parity
<1>2. Len(c) \in Nat /\ Len(held) = p
  BY <1>1
<1>3. read \in Seq(Units) /\ Len(read) = Len(c) - r /\ \A k \in 1..Len(read) : read[k] = c[r + k]
  BY <1>2
<1>4. /\ new \in Seq(Units) /\ Len(new) = p + Len(read)
      /\ \A k \in 1..Len(new) : new[k] = IF k <= p THEN held[k] ELSE read[k - p]
  <2> HIDE DEF read
  <2>1. new = held \o read
    BY <1>0 DEF read, HeldAndRead
  <2>2. read \in Seq(Units)
    BY <1>3
  <2>3. /\ new \in Seq(Units) /\ Len(new) = Len(held) + Len(read)
        /\ \A k \in 1..(Len(held) + Len(read)) : new[k] = IF k <= Len(held) THEN held[k] ELSE read[k - Len(held)]
    <3>1. /\ held \o read \in Seq(Units) /\ Len(held \o read) = Len(held) + Len(read)
          /\ \A k \in 1..(Len(held) + Len(read)) :
                (held \o read)[k] = IF k <= Len(held) THEN held[k] ELSE read[k - Len(held)]
      BY <2>2, Concatenated
    <3> QED
      BY <2>1, <3>1, Zenon
  <2> QED
    BY <1>2, <2>3
<1> HIDE DEF read
<1>5. ASSUME NEW k \in 1..Len(c), k > r PROVE new[k - r + p] = c[k]
  <2>1. k - r + p \in 1..Len(new) /\ ~(k - r + p <= p) /\ (k - r + p) - p = k - r
    BY <1>1, <1>2, <1>3, <1>4, <1>5
  <2>2. new[k - r + p] = read[k - r]
    BY <1>4, <2>1
  <2>3. k - r \in 1..Len(read) /\ r + (k - r) = k
    BY <1>2, <1>3, <1>5
  <2> QED
    BY <1>3, <2>2, <2>3
<1>6. p = 1 => new[1] = held[1]
  BY <1>2, <1>3, <1>4
<1>7. Alternates(new)
  <2> SUFFICES ASSUME NEW j \in 1..Len(new)
               PROVE  IF j % 2 = 1 THEN new[j] \in Nat ELSE new[j] = NL
    BY DEF Alternates
  <2>1. CASE j <= p
    <3>1. j = 1 /\ p = 1 /\ 1 \in 1..Len(held)
      BY <1>1, <1>2, <2>1
    <3>2. j % 2 = 1
      BY <3>1
    <3>3. held[1] \in Nat
      BY <3>1 DEF Alternates
    <3> QED
      BY <1>6, <3>1, <3>2, <3>3
  <2>2. CASE j > p
    <3>1. PICK k \in 1..Len(c) : k = j + r - p
      BY <1>1, <1>2, <1>3, <1>4, <2>2
    <3>2. k > r /\ k - r + p = j /\ k \in Nat /\ k >= r
      BY <1>1, <1>2, <1>3, <1>4, <2>2, <3>1
    <3>3. new[j] = c[k]
      BY <1>5, <3>2
    <3>4. k % 2 = j % 2
      BY <1>1, <3>2, Parity
    <3> QED
      BY <3>3, <3>4 DEF Alternates
  <2> QED
    BY <1>1, <2>1, <2>2
<1>8. Len(new) = (r % 2) + Len(c) - r
  BY <1>1, <1>2, <1>3, <1>4
<1> QED
  BY <1>0, <1>1, <1>4, <1>5, <1>6, <1>7, <1>8

\* What was begun of a file, and of its first n units.
LEMMA BegunOf ==
  ASSUME NEW c \in Seq(Units), Alternates(c), NEW k \in 1..Len(c), k % 2 = 1
  PROVE  /\ c[k] \in Begun(c)
         /\ \A n \in Nat : k <= n /\ n <= Len(c) => c[k] \in Begun(SubSeq(c, 1, n))
<1>1. c[k] # NL
  BY UnitsDiffer
<1>2. c[k] \in Begun(c)
  BY <1>1 DEF Begun, ToSet
<1>3. ASSUME NEW n \in Nat, k <= n, n <= Len(c) PROVE c[k] \in Begun(SubSeq(c, 1, n))
  <2>1. /\ SubSeq(c, 1, n) \in Seq(Units) /\ Len(SubSeq(c, 1, n)) = n
        /\ k \in 1..n /\ SubSeq(c, 1, n)[k] = c[k]
    BY <1>3
  <2>2. k \in DOMAIN SubSeq(c, 1, n)
    BY <2>1
  <2> QED
    BY <1>1, <2>1, <2>2 DEF Begun, ToSet
<1> QED
  BY <1>2, <1>3
-----------------------------------------------------------------------------
(* Each step of the file's writer, of its rotation and of the tailer *)

\* The parts of the files' types.
LEMMA FileTyped ==
  ASSUME FileInv, NEW g \in 1..Len(content)
  PROVE  content[g] \in Seq(Units) /\ Len(content[g]) \in Nat /\ Alternates(content[g]) /\ Files = 1..Len(content)
<1>1. content \in Seq(Seq(Units)) /\ Alternates(content[g])
  BY DEF FileInv, FileTypes, WriterInv
<1>2. content[g] \in Seq(Units) /\ DOMAIN content = 1..Len(content)
  BY <1>1
<1> QED
  BY <1>1, <1>2 DEF Files

\* What is written is the next unit of the file, and comes too late for the
\* tailer if the file has left the path.
LEMMA WritesNext ==
  ASSUME FileInv, Writes
  PROVE  \E u \in Units :
           /\ content' = [content EXCEPT ![writer] = Append(content[writer], u)]
           /\ texts' \in Nat /\ gone \subseteq gone' /\ (writer # path => texts' \in gone')
           /\ IF (Len(content[writer]) + 1) % 2 = 1 THEN u \in Nat /\ u = texts'
              ELSE u = NL /\ content[writer][Len(content[writer])] = texts'
<1> DEFINE c == content[writer]
           open == c # <<>> /\ Last(c) # NL
           u == IF open THEN NL ELSE texts + 1
<1>1. writer \in 1..Len(content) /\ texts \in Nat
  BY DEF FileInv, FileTypes
<1>2. c \in Seq(Units) /\ Len(c) \in Nat /\ Alternates(c)
  BY <1>1, FileTyped
<1>3. open <=> Len(c) % 2 = 1
  <2>1. CASE c = <<>>
    BY <2>1
  <2>2. CASE c # <<>>
    <3>1. Len(c) \in 1..Len(c) /\ Last(c) = c[Len(c)]
      BY <1>2, <2>2 DEF Last
    <3>2. Len(c) % 2 = 0 \/ Len(c) % 2 = 1
      BY <1>2, Parity
    <3> QED
      BY <1>2, <2>2, <3>1, <3>2, UnitsDiffer
  <2> QED
    BY <2>1, <2>2
<1>4. (Len(c) + 1) % 2 = 1 <=> ~open
  <2>1. (Len(c) + 1) % 2 = 1 <=> ~(Len(c) % 2 = 1)
    BY <1>2, Parity
  <2> HIDE DEF open
  <2> QED
    BY <1>3, <2>1, Zenon
<1>5. open => c[Len(c)] = texts
  BY <1>3 DEF FileInv, WriterInv
<1>6. u \in Units /\ content' = [content EXCEPT ![writer] = Append(c, u)]
  BY <1>1 DEF Writes, Units
<1>7. texts' = (IF open THEN texts ELSE texts + 1) /\ gone' = (IF writer = path THEN gone ELSE gone \cup {texts'})
  BY DEF Writes
<1>8. gone \subseteq gone' /\ (writer # path => texts' \in gone')
  BY <1>7
<1>9. texts' \in Nat /\ (open => u = NL /\ texts' = texts) /\ (~open => u \in Nat /\ u = texts')
  BY <1>1, <1>7
<1> HIDE DEF open, u
<1>10. IF (Len(c) + 1) % 2 = 1 THEN u \in Nat /\ u = texts' ELSE u = NL /\ c[Len(c)] = texts'
  BY <1>4, <1>5, <1>9
<1> QED
  BY <1>6, <1>8, <1>9, <1>10

\* A line is begun or ended.
LEMMA WritesKeeps == ASSUME FileInv, Writes PROVE FileInv'
<1> DEFINE c == content[writer]
<1>1. /\ writer \in 1..Len(content) /\ content \in Seq(Seq(Units))
      /\ UNCHANGED <<path, writer, f, readBytes, pending, pc, cut>>
  BY DEF FileInv, FileTypes, Writes, handleVars
<1>2. c \in Seq(Units) /\ Len(c) \in Nat /\ Alternates(c)
  BY <1>1, FileTyped
<1>3. PICK u \in Units :
        /\ content' = [content EXCEPT ![writer] = Append(c, u)]
        /\ texts' \in Nat /\ gone \subseteq gone' /\ (writer # path => texts' \in gone')
        /\ IF (Len(c) + 1) % 2 = 1 THEN u \in Nat /\ u = texts' ELSE u = NL /\ c[Len(c)] = texts'
  BY WritesNext
<1>4. PICK new \in Seq(Units) : new = Append(c, u)
  <2>1. Append(c, u) \in Seq(Units)
    BY <1>2
  <2> QED
    BY <2>1
<1>5. /\ Len(new) = Len(c) + 1 /\ new[Len(c) + 1] = u /\ \A k \in 1..Len(c) : new[k] = c[k]
  BY <1>2, <1>4
<1>6. /\ content' \in Seq(Seq(Units)) /\ Len(content') = Len(content)
      /\ content'[writer] = new /\ \A g \in 1..Len(content) : g # writer => content'[g] = content[g]
  BY <1>1, <1>3, <1>4
<1>7. Alternates(new)
  <2> SUFFICES ASSUME NEW k \in 1..Len(new) PROVE IF k % 2 = 1 THEN new[k] \in Nat ELSE new[k] = NL
    BY DEF Alternates
  <2>1. CASE k = Len(c) + 1
    BY <1>3, <1>5, <2>1
  <2>2. CASE k \in 1..Len(c)
    BY <1>2, <1>5, <2>2 DEF Alternates
  <2> QED
    BY <1>2, <1>5, <2>1, <2>2
<1>8. FileTypes'
  BY <1>1, <1>3, <1>6 DEF FileInv, FileTypes
<1>9. WriterInv'
  <2>1. Len(new) % 2 = 1 => new[Len(new)] = texts'
    BY <1>3, <1>5
  <2>2. ASSUME NEW g \in 1..Len(content) PROVE Alternates(content'[g]) /\ (g > writer => content'[g] = <<>>)
    <3>1. CASE g = writer
      <4>1. ~(g > writer)
        BY <1>1, <3>1
      <4> QED
        BY <1>6, <1>7, <3>1, <4>1
    <3>2. CASE g # writer
      BY <1>6, <3>2 DEF FileInv, WriterInv
    <3> QED
      BY <3>1, <3>2
  <2> QED
    BY <1>1, <1>6, <2>1, <2>2 DEF WriterInv, Alternates
<1>10. \A g \in 1..Len(content) : /\ Len(content'[g]) \in Nat /\ Len(content'[g]) >= Len(content[g])
                                  /\ \A k \in 1..Len(content[g]) : content'[g][k] = content[g][k]
  <2> SUFFICES ASSUME NEW g \in 1..Len(content)
               PROVE  /\ Len(content'[g]) \in Nat /\ Len(content'[g]) >= Len(content[g])
                      /\ \A k \in 1..Len(content[g]) : content'[g][k] = content[g][k]
    OBVIOUS
  <2>1. CASE g = writer
    BY <1>2, <1>5, <1>6, <2>1
  <2>2. CASE g # writer
    BY <1>6, <2>2, FileTyped
  <2> QED
    BY <2>1, <2>2
<1>11. HandleInv'
  <2> SUFFICES ASSUME f # Absent
               PROVE  /\ Len(pending) = readBytes % 2 /\ Alternates(pending)
                      /\ ~cut => /\ readBytes <= Len(content'[f])
                                 /\ readBytes % 2 = 1 => \/ pending[1] = content'[f][readBytes]
                                                         \/ content'[f][readBytes] \in gone'
    BY <1>1 DEF HandleInv
  <2>1. f \in 1..Len(content) /\ readBytes \in Nat /\ Len(content[f]) \in Nat
    BY FileTyped DEF FileInv, FileTypes
  <2>2. readBytes % 2 = 1 => readBytes >= 1
    BY <2>1
  <2>3. /\ Len(pending) = readBytes % 2 /\ Alternates(pending)
        /\ ~cut => /\ readBytes <= Len(content[f])
                   /\ readBytes % 2 = 1 => pending[1] = content[f][readBytes] \/ content[f][readBytes] \in gone
    BY DEF FileInv, HandleInv
  <2>4. Len(content'[f]) \in Nat /\ Len(content'[f]) >= Len(content[f])
    BY <1>10, <2>1
  <2>5. ASSUME ~cut PROVE readBytes <= Len(content'[f])
    BY <2>1, <2>3, <2>4, <2>5
  <2>6. ASSUME ~cut, readBytes % 2 = 1
        PROVE  pending[1] = content'[f][readBytes] \/ content'[f][readBytes] \in gone'
    <3>1. readBytes \in 1..Len(content[f])
      BY <2>1, <2>2, <2>3, <2>6
    <3>2. content'[f][readBytes] = content[f][readBytes]
      BY <1>10, <2>1, <3>1
    <3> QED
      BY <1>3, <2>3, <2>6, <3>2
  <2> QED
    BY <2>3, <2>5, <2>6
<1>12. ASSUME NEW g \in 1..Len(content), NEW n \in Nat, n <= Len(content[g]), DoneTo(g, n)
       PROVE  \A k \in 1..Len(content'[g]) : (k % 2 = 0 /\ k <= n) => content'[g][k - 1] \in emitted' \cup gone'
  <2> SUFFICES ASSUME NEW k \in 1..Len(content'[g]), k % 2 = 0, k <= n
               PROVE  content'[g][k - 1] \in emitted' \cup gone'
    OBVIOUS
  <2>0. Len(content[g]) \in Nat /\ Len(content'[g]) \in Nat
    BY <1>10, FileTyped
  <2>1. k \in 1..Len(content[g]) /\ k - 1 \in 1..Len(content[g])
    BY <1>12, <2>0
  <2>2. content[g][k - 1] \in emitted \cup gone
    BY <1>12, <2>1 DEF DoneTo
  <2>3. emitted' = emitted
    BY DEF Writes
  <2> QED
    BY <1>3, <1>10, <2>1, <2>2, <2>3
<1>13. ASSUME NEW g \in 1..Len(content), g # path, DoneTo(g, Len(content[g]))
       PROVE  DoneTo(g, Len(content[g]))'
  <2> SUFFICES ASSUME NEW k \in 1..Len(content'[g]), k % 2 = 0
               PROVE  content'[g][k - 1] \in emitted' \cup gone'
    BY DEF DoneTo
  <2>1. CASE k <= Len(content[g])
    BY <1>12, <1>13, <2>1, FileTyped
  <2>2. CASE ~(k <= Len(content[g]))
    <3>1. g = writer /\ k = Len(c) + 1
      <4>1. g = writer
        BY <1>6, <2>2, FileTyped
      <4>2. k \in 1..(Len(c) + 1) /\ ~(k <= Len(c))
        BY <1>5, <1>6, <2>2, <4>1
      <4>3. k = Len(c) + 1
        BY <1>2, <4>2
      <4> QED
        BY <4>1, <4>3
    <3>2. (Len(c) + 1) % 2 = 0
      BY <3>1
    <3>3. Len(c) \in 1..Len(c)
      <4>1. Len(c) >= 1
        BY <1>2, <3>2, Parity
      <4> QED
        BY <1>2, <4>1
    <3>4. c[Len(c)] = texts'
      <4>1. ~(k % 2 = 1)
        OBVIOUS
      <4>2. ~((Len(c) + 1) % 2 = 1)
        BY <3>1, <4>1, Zenon
      <4> QED
        BY <1>3, <4>2
    <3> QED
      <4>1. k - 1 = Len(c) /\ content'[g][Len(c)] = c[Len(c)]
        BY <1>2, <1>10, <3>1, <3>3
      <4> QED
        BY <1>3, <1>13, <3>1, <3>4, <4>1
  <2> QED
    BY <2>1, <2>2
<1>14. ASSUME f # Absent, f # path, cut PROVE TextsGone(f)'
  <2>1. f \in 1..Len(content) /\ TextsGone(f)
    BY <1>14 DEF FileInv, FileTypes, DoneInv
  <2> SUFFICES ASSUME NEW k \in 1..Len(content'[f]), k % 2 = 1 PROVE content'[f][k] \in gone'
    BY <1>1 DEF TextsGone
  <2>2. CASE k <= Len(content[f])
    BY <1>3, <1>10, <2>1, <2>2, FileTyped DEF TextsGone
  <2>3. CASE ~(k <= Len(content[f]))
    <3>1. f = writer /\ k = Len(c) + 1
      BY <1>2, <1>5, <1>6, <2>1, <2>3, FileTyped
    <3> QED
      BY <1>3, <1>5, <1>6, <1>14, <3>1
  <2> QED
    BY <2>2, <2>3
<1>15. DoneInv'
  <2>1. f # Absent /\ ~cut => DoneTo(f, readBytes)'
    BY <1>1, <1>12 DEF FileInv, FileTypes, HandleInv, DoneInv, DoneTo
  <2>2. \A g \in 1..Len(content) : g # f /\ g # path => DoneTo(g, Len(content[g]))'
    BY <1>13 DEF FileInv, DoneInv
  <2>3. f # Absent /\ f # path /\ pc = "open" => DoneTo(f, Len(content[f]))'
    BY <1>1, <1>13 DEF FileInv, FileTypes, DoneInv
  <2> QED
    BY <1>1, <1>6, <1>14, <2>1, <2>2, <2>3 DEF FileInv, DoneInv
<1> QED
  BY <1>8, <1>9, <1>11, <1>15 DEF FileInv
\* Lines whose texts are gone are done.
LEMMA GoneDone ==
  ASSUME FileInv, NEW g \in 1..Len(content), TextsGone(g)
  PROVE  \A n \in Nat : DoneTo(g, n)
<1>1. Len(content[g]) \in Nat
  BY FileTyped
<1>2. ASSUME NEW k \in 1..Len(content[g]), k % 2 = 0 PROVE content[g][k - 1] \in gone
  <2>1. k - 1 \in 1..Len(content[g]) /\ (k - 1) % 2 = 1
    BY <1>1, <1>2
  <2> QED
    BY <2>1 DEF TextsGone
<1> QED
  BY <1>2 DEF DoneTo

\* What is done of files that nobody writes stays done.
LEMMA DoneStays ==
  ASSUME FileInv, gone \subseteq gone', emitted \subseteq emitted',
         NEW g \in 1..Len(content), content'[g] = content[g]
  PROVE  /\ \A n \in Nat : DoneTo(g, n) =>
              \A k \in 1..Len(content'[g]) : (k % 2 = 0 /\ k <= n) => content'[g][k - 1] \in emitted' \cup gone'
         /\ DoneTo(g, Len(content[g])) => DoneTo(g, Len(content[g]))'
         /\ TextsGone(g) => TextsGone(g)'
  BY DEF DoneTo, TextsGone

\* The file at the path is renamed away.
LEMMA RenamesKeeps == ASSUME FileInv, Renames PROVE FileInv'
<1>1. /\ path # Absent /\ path' = Absent /\ path \in 1..Len(content)
      /\ UNCHANGED <<content, writer, texts, f, readBytes, pending, pc, emitted, cut>>
      /\ gone' = IF f = path /\ ~cut THEN gone ELSE gone \cup Begun(content[path])
  BY DEF Renames, handleVars, FileInv, FileTypes
<1>2. gone \subseteq gone' /\ (~(f = path /\ ~cut) => Begun(content[path]) \subseteq gone')
  BY <1>1
<1>3. FileTypes' /\ WriterInv'
  BY <1>1 DEF FileInv, FileTypes, WriterInv, Alternates
<1>4. HandleInv'
  BY <1>1, <1>2 DEF FileInv, HandleInv, Alternates
<1>5. ASSUME NEW g \in 1..Len(content) PROVE (DoneTo(g, Len(content[g])) => DoneTo(g, Len(content[g]))') /\ (TextsGone(g) => TextsGone(g)')
  BY <1>1, <1>2, DoneStays
<1>6. ASSUME NEW g \in 1..Len(content), g = path, ~(f = path /\ ~cut)
      PROVE  DoneTo(g, Len(content[g]))' /\ TextsGone(g)'
  <2>1. content[g] \in Seq(Units) /\ Len(content[g]) \in Nat /\ Alternates(content[g])
    BY FileTyped
  <2>2. ASSUME NEW k \in 1..Len(content[g]), k % 2 = 1 PROVE content[g][k] \in gone'
    BY <1>2, <1>6, <2>1, <2>2, BegunOf
  <2>3. ASSUME NEW k \in 1..Len(content[g]), k % 2 = 0 PROVE content[g][k - 1] \in gone'
    <3>1. k - 1 \in 1..Len(content[g]) /\ (k - 1) % 2 = 1
      BY <2>1, <2>3
    <3> QED
      BY <2>2, <3>1
  <2> QED
    BY <1>1, <2>2, <2>3 DEF DoneTo, TextsGone
<1>7. DoneInv'
  <2>1. f # Absent /\ ~cut => DoneTo(f, readBytes)'
    BY <1>1, <1>2 DEF FileInv, DoneInv, DoneTo
  <2>2. ASSUME NEW g \in 1..Len(content), g # f PROVE DoneTo(g, Len(content[g]))'
    BY <1>5, <1>6, <2>2 DEF FileInv, DoneInv
  <2>3. ASSUME f # Absent PROVE (cut => TextsGone(f)') /\ (pc = "open" => DoneTo(f, Len(content[f]))')
    <3>1. f \in 1..Len(content)
      BY <2>3 DEF FileInv, FileTypes
    <3>2. CASE f = path
      BY <1>1, <1>6, <2>3, <3>1, <3>2 DEF FileInv, DoneInv
    <3>3. CASE f # path
      BY <1>1, <1>5, <2>3, <3>1, <3>3 DEF FileInv, DoneInv
    <3> QED
      BY <3>2, <3>3
  <2> QED
    BY <1>1, <2>1, <2>2, <2>3 DEF FileInv, DoneInv
<1> QED
  BY <1>3, <1>4, <1>7 DEF FileInv

\* A file appears at the path.
LEMMA CreatesKeeps == ASSUME FileInv, Creates PROVE FileInv'
<1>1. /\ path = Absent /\ path' = Len(content) + 1
      /\ content' = Append(content, <<>>) /\ content \in Seq(Seq(Units)) /\ Len(content) \in Nat
      /\ UNCHANGED <<writer, texts, f, readBytes, pending, pc, emitted, gone, cut>>
  BY DEF Creates, handleVars, FileInv, FileTypes
<1>2. /\ content' \in Seq(Seq(Units)) /\ Len(content') = Len(content) + 1
      /\ \A g \in 1..Len(content) : content'[g] = content[g]
      /\ content'[Len(content) + 1] = <<>>
  <2>1. <<>> \in Seq(Units)
    OBVIOUS
  <2> QED
    BY <1>1, <2>1
<1>3. writer \in 1..Len(content) /\ f \in (1..Len(content)) \cup {Absent}
  BY DEF FileInv, FileTypes
<1>4. FileTypes'
  BY <1>1, <1>2, <1>3 DEF FileInv, FileTypes
<1>5. WriterInv'
  <2>1. ASSUME NEW g \in 1..(Len(content) + 1) PROVE Alternates(content'[g]) /\ (g > writer => content'[g] = <<>>)
    <3>1. CASE g = Len(content) + 1
      BY <1>2, <3>1 DEF Alternates
    <3>2. CASE g \in 1..Len(content)
      BY <1>2, <3>2 DEF FileInv, WriterInv
    <3> QED
      BY <1>1, <3>1, <3>2
  <2>2. Len(content'[writer]) % 2 = 1 => content'[writer][Len(content'[writer])] = texts
    BY <1>2, <1>3 DEF FileInv, WriterInv
  <2> QED
    BY <1>1, <1>2, <2>1, <2>2 DEF WriterInv, Alternates
<1>6. HandleInv'
  BY <1>1, <1>2, <1>3 DEF FileInv, HandleInv, Alternates
<1>7. ASSUME NEW g \in 1..Len(content) PROVE (DoneTo(g, Len(content[g])) => DoneTo(g, Len(content[g]))') /\ (TextsGone(g) => TextsGone(g)')
  BY <1>1, <1>2, DoneStays
<1>8. DoneInv'
  <2>1. f # Absent /\ ~cut => DoneTo(f, readBytes)'
    BY <1>1, <1>2, <1>3 DEF FileInv, DoneInv, DoneTo
  <2>2. f # Absent => f # path' /\ f # path
    BY <1>1, <1>3, FileTailAssumption
  <2>3. ASSUME NEW g \in 1..(Len(content) + 1), g # f, g # path' PROVE DoneTo(g, Len(content[g]))'
    <3>1. g \in 1..Len(content) /\ g # path
      BY <1>1, <2>3, FileTailAssumption
    <3> QED
      BY <1>7, <2>3, <3>1 DEF FileInv, DoneInv
  <2> QED
    BY <1>1, <1>2, <1>3, <1>7, <2>1, <2>2, <2>3 DEF FileInv, DoneInv
<1> QED
  BY <1>4, <1>5, <1>6, <1>8 DEF FileInv

\* The program writes to the file at the path from now on.
LEMMA ReopensKeeps == ASSUME FileInv, Reopens PROVE FileInv'
<1>1. /\ path # Absent /\ writer # path /\ writer' = path
      /\ UNCHANGED <<content, path, texts, f, readBytes, pending, pc, emitted, gone, cut>>
  BY DEF Reopens, handleVars
<1>2. path = Len(content) /\ path \in 1..Len(content) /\ path > writer /\ Len(content) \in Nat
  BY <1>1 DEF FileInv, FileTypes
<1>3. content[path] = <<>>
  BY <1>2 DEF FileInv, WriterInv
<1>4. FileTypes' /\ HandleInv' /\ DoneInv'
  BY <1>1, <1>2 DEF FileInv, FileTypes, HandleInv, DoneInv, Alternates, DoneTo, TextsGone
<1>5. WriterInv'
  <2>1. \A g \in 1..Len(content) : g > path => FALSE
    BY <1>2
  <2>2. Len(content[path]) = 0
    BY <1>3
  <2>3. ~(Len(content[path]) % 2 = 1)
    BY <2>2
  <2> QED
    BY <1>1, <2>1, <2>3 DEF FileInv, WriterInv, Alternates
<1> QED
  BY <1>4, <1>5 DEF FileInv

\* The file at the path is truncated.
LEMMA TruncatesKeeps == ASSUME FileInv, Truncates PROVE FileInv'
<1>1. /\ path # Absent /\ path \in 1..Len(content) /\ content' = [content EXCEPT ![path] = <<>>]
      /\ gone' = gone \cup Begun(content[path]) /\ cut' = (cut \/ f = path)
      /\ UNCHANGED <<path, writer, texts, f, readBytes, pending, pc, emitted>>
      /\ content \in Seq(Seq(Units)) /\ writer \in 1..Len(content)
  BY DEF Truncates, handleVars, FileInv, FileTypes
<1>2. PICK c \in BOOLEAN : c = (cut \/ f = path)
  OBVIOUS
<1>3. cut' = c /\ (cut => c) /\ (~c => ~cut /\ f # path) /\ (f = path => c) /\ (f # path /\ c => cut)
  BY <1>1, <1>2 DEF FileInv, FileTypes
<1>4. /\ content' \in Seq(Seq(Units)) /\ Len(content') = Len(content) /\ content'[path] = <<>>
      /\ \A g \in 1..Len(content) : g # path => content'[g] = content[g]
  <2>1. <<>> \in Seq(Units)
    OBVIOUS
  <2> QED
    BY <1>1, <2>1
<1>5. FileTypes'
  BY <1>1, <1>2, <1>3, <1>4 DEF FileInv, FileTypes
<1>6. WriterInv'
  <2>1. ASSUME NEW g \in 1..Len(content) PROVE Alternates(content'[g]) /\ (g > writer => content'[g] = <<>>)
    <3>1. CASE g = path
      BY <1>4, <3>1 DEF Alternates
    <3>2. CASE g # path
      BY <1>4, <3>2 DEF FileInv, WriterInv
    <3> QED
      BY <3>1, <3>2
  <2>2. Len(content'[writer]) % 2 = 1 => content'[writer][Len(content'[writer])] = texts
    <3>1. CASE writer = path
      <4>1. Len(content'[writer]) = 0
        BY <1>4, <3>1
      <4> QED
        BY <4>1
    <3>2. CASE writer # path
      BY <1>1, <1>4, <3>2 DEF FileInv, WriterInv
    <3> QED
      BY <3>1, <3>2
  <2> QED
    BY <1>1, <1>4, <2>1, <2>2 DEF WriterInv, Alternates
<1>7. gone \subseteq gone' /\ emitted \subseteq emitted'
  BY <1>1
<1>8. f # Absent => f \in 1..Len(content)
  BY DEF FileInv, FileTypes
<1>9. HandleInv'
  <2> SUFFICES ASSUME f # Absent
               PROVE  /\ Len(pending) = readBytes % 2 /\ Alternates(pending)
                      /\ ~c => /\ readBytes <= Len(content'[f])
                               /\ readBytes % 2 = 1 => pending[1] = content'[f][readBytes] \/ content'[f][readBytes] \in gone'
    BY <1>1, <1>3 DEF HandleInv, Alternates
  <2>1. CASE c
    BY <2>1 DEF FileInv, HandleInv
  <2>2. CASE ~c
    <3>1. content'[f] = content[f] /\ ~cut
      BY <1>3, <1>4, <1>8, <2>2
    <3> QED
      BY <1>7, <3>1 DEF FileInv, HandleInv
  <2> QED
    BY <2>1, <2>2
<1>10. ASSUME NEW g \in 1..Len(content), g # path
       PROVE  (DoneTo(g, Len(content[g])) => DoneTo(g, Len(content[g]))') /\ (TextsGone(g) => TextsGone(g)')
  BY <1>4, <1>7, <1>10, DoneStays
<1>11. DoneInv'
  <2>1. f # Absent /\ ~c => DoneTo(f, readBytes)'
    <3> SUFFICES ASSUME f # Absent, ~c PROVE DoneTo(f, readBytes)'
      OBVIOUS
    <3>1. content'[f] = content[f] /\ DoneTo(f, readBytes)
      BY <1>3, <1>4, <1>8 DEF FileInv, DoneInv
    <3> QED
      BY <1>1, <1>7, <3>1 DEF DoneTo
  <2>2. f # Absent /\ f # path /\ c => TextsGone(f)'
    BY <1>1, <1>3, <1>8, <1>10 DEF FileInv, DoneInv
  <2> QED
    BY <1>1, <1>3, <1>4, <1>8, <1>10, <2>1, <2>2 DEF FileInv, DoneInv
<1> QED
  BY <1>5, <1>6, <1>9, <1>11 DEF FileInv
\* The tailer starts over in the file at the path, or fails to.
LEMMA OpenFreshKeeps == ASSUME FileInv, OpenFresh PROVE FileInv'
<1>1. /\ pc = "open" /\ pc' = "drain" /\ UNCHANGED <<content, path, writer, texts, emitted, gone>>
  BY DEF OpenFresh, diskVars
<1>2. /\ path \in {Absent, Len(content)} /\ content \in Seq(Seq(Units)) /\ Len(content) \in Nat
      /\ writer \in 1..Len(content)
  BY DEF FileInv, FileTypes
<1>3. WriterInv'
  BY <1>1 DEF FileInv, WriterInv, Alternates
<1>4. ASSUME path # Absent, f' = path, readBytes' = 0, pending' = <<>>, cut' = FALSE PROVE FileInv'
  <2>1. path \in 1..Len(content) /\ Len(content[path]) \in Nat
    BY <1>2, <1>4, FileTyped
  <2>2. FileTypes'
    <3>1. cut' \in BOOLEAN
      BY <1>4
    <3>2. pending' \in Seq(Units) /\ readBytes' \in Nat /\ f' \in 1..Len(content)
      BY <1>4, <2>1
    <3> QED
      BY <1>1, <1>2, <3>1, <3>2 DEF FileInv, FileTypes
  <2>3. HandleInv'
    BY <1>1, <1>4, <2>1 DEF HandleInv, Alternates
  <2>4. DoneTo(f, readBytes)'
    <3>1. \A k \in 1..Len(content[path]) : ~(k <= 0)
      BY <2>1
    <3> QED
      BY <1>1, <1>4, <3>1 DEF DoneTo
  <2>5. ASSUME NEW g \in 1..Len(content), g # path PROVE DoneTo(g, Len(content[g]))'
    <3>1. DoneTo(g, Len(content[g]))
      BY <1>1, <2>5, FileTailAssumption DEF FileInv, DoneInv
    <3> QED
      BY <1>1, <3>1 DEF DoneTo
  <2>6. DoneInv'
    BY <1>1, <1>4, <2>4, <2>5 DEF DoneInv
  <2> QED
    BY <1>3, <2>2, <2>3, <2>6 DEF FileInv
<1>5. ASSUME UNCHANGED <<f, readBytes, pending, cut>> PROVE FileInv'
  <2>1. FileTypes' /\ HandleInv'
    BY <1>1, <1>5 DEF FileInv, FileTypes, HandleInv, Alternates
  <2>2. DoneInv'
    BY <1>1, <1>5 DEF FileInv, DoneInv, DoneTo, TextsGone
  <2> QED
    BY <1>3, <2>1, <2>2 DEF FileInv
<1> QED
  BY <1>4, <1>5 DEF OpenFresh, handleVars

\* The tailer looks at the path.
LEMMA CheckRotationKeeps == ASSUME FileInv, CheckRotation PROVE FileInv'
<1>1. /\ UNCHANGED <<content, path, writer, texts, f, readBytes, pending, emitted, gone, cut>>
      /\ pc' \in {"open", "drain", "swap"}
      /\ pc' = "swap" => f # Absent /\ f # path
      /\ pc' = "open" /\ f # Absent => f = path /\ Len(content[f]) < readBytes
  BY DEF CheckRotation, diskVars, handleVars
<1>2. FileTypes' /\ WriterInv' /\ HandleInv'
  BY <1>1 DEF FileInv, FileTypes, WriterInv, HandleInv, Alternates
<1>3. pc' = "open" /\ f # Absent => f = path /\ cut
  <2> SUFFICES ASSUME pc' = "open", f # Absent, ~cut PROVE FALSE
    BY <1>1 DEF FileInv, FileTypes
  <2>1. readBytes <= Len(content[f]) /\ Len(content[f]) < readBytes
    BY <1>1 DEF FileInv, HandleInv
  <2>2. f \in 1..Len(content) /\ readBytes \in Nat
    BY DEF FileInv, FileTypes
  <2> QED
    BY <2>1, <2>2, FileTyped
<1>4. DoneInv'
  BY <1>1, <1>3 DEF FileInv, DoneInv, DoneTo, TextsGone
<1> QED
  BY <1>2, <1>4 DEF FileInv

\* The tailer's process dies and starts again.
LEMMA TailerRestartsKeeps == ASSUME FileInv, TailerRestarts PROVE FileInv'
<1>1. /\ UNCHANGED <<content, path, writer, texts, emitted>>
      /\ f' = Absent /\ readBytes' = 0 /\ pending' = <<>> /\ pc' = "open" /\ cut' = FALSE
      /\ gone' = IF f # Absent /\ f # path THEN gone \cup Begun(content[f]) ELSE gone
  BY DEF TailerRestarts, diskVars
<1>2. gone \subseteq gone' /\ emitted \subseteq emitted'
  BY <1>1
<1>3. FileTypes' /\ WriterInv' /\ HandleInv'
  <2>1. cut' \in BOOLEAN
    BY <1>1
  <2>2. pending' \in Seq(Units) /\ readBytes' \in Nat /\ f' = Absent /\ pc' = "open"
    BY <1>1
  <2>3. FileTypes'
    BY <1>1, <2>1, <2>2 DEF FileInv, FileTypes
  <2> QED
    BY <1>1, <2>3 DEF FileInv, WriterInv, HandleInv, Alternates
<1>4. ASSUME NEW g \in 1..Len(content), g # path PROVE DoneTo(g, Len(content[g]))'
  <2>1. content[g] \in Seq(Units) /\ Len(content[g]) \in Nat /\ Alternates(content[g])
    BY FileTyped
  <2>2. CASE g = f
    <3>1. Begun(content[g]) \subseteq gone'
      <4>1. f # Absent /\ f # path
        BY <1>4, <2>2, FileTailAssumption
      <4> QED
        BY <1>1, <2>2, <4>1
    <3>2. ASSUME NEW k \in 1..Len(content[g]), k % 2 = 0 PROVE content[g][k - 1] \in gone'
      <4>1. k - 1 \in 1..Len(content[g]) /\ (k - 1) % 2 = 1
        BY <2>1, <3>2
      <4> QED
        BY <2>1, <3>1, <4>1, BegunOf
    <3> QED
      BY <1>1, <3>2 DEF DoneTo
  <2>3. CASE g # f
    <3>1. DoneTo(g, Len(content[g]))
      BY <1>4, <2>3 DEF FileInv, DoneInv
    <3> QED
      BY <1>1, <1>2, <3>1 DEF DoneTo
  <2> QED
    BY <2>2, <2>3
<1>5. DoneInv'
  BY <1>1, <1>4 DEF DoneInv
<1> QED
  BY <1>3, <1>5 DEF FileInv
\* What a read of the open file to its end, from where the tailer was, does.
LEMMA ReadsToEnd ==
  ASSUME FileInv, NEW next, Drains(next), f # Absent, Len(content[f]) >= readBytes
  PROVE  /\ readBytes' = Len(content[f]) /\ cut' = FALSE
         /\ pending' \in Seq(Units) /\ Len(pending') = readBytes' % 2 /\ Alternates(pending')
         /\ readBytes' % 2 = 1 => pending'[1] = content[f][readBytes'] \/ content[f][readBytes'] \in gone'
         /\ \A k \in 1..Len(content[f]) : k % 2 = 0 => content[f][k - 1] \in emitted' \cup gone'
<1> DEFINE c == content[f]
<1>0. PICK new : new = HeldAndRead(pending, c, readBytes)
  OBVIOUS
<1>1. f \in 1..Len(content) /\ readBytes \in Nat /\ pending \in Seq(Units) /\ cut \in BOOLEAN
  BY DEF FileInv, FileTypes
<1>2. c \in Seq(Units) /\ Len(c) \in Nat /\ Alternates(c)
  BY <1>1, FileTyped
<1>3. Len(pending) = readBytes % 2 /\ Alternates(pending) /\ readBytes <= Len(c)
  BY <1>1, <1>2 DEF FileInv, HandleInv
<1>4. PICK p \in {0, 1} : p = readBytes % 2
  BY <1>1, Parity
<1>5. /\ new \in Seq(Units) /\ Len(new) = p + Len(c) - readBytes /\ Alternates(new)
      /\ \A k \in 1..Len(c) : k > readBytes => new[k - readBytes + p] = c[k]
      /\ p = 1 => new[1] = pending[1]
  <2>1. /\ new \in Seq(Units) /\ Len(new) = (readBytes % 2) + Len(c) - readBytes /\ Alternates(new)
        /\ \A k \in 1..Len(c) : k > readBytes => new[k - readBytes + (readBytes % 2)] = c[k]
        /\ (readBytes % 2) = 1 => new[1] = pending[1]
    <3> HIDE DEF c
    <3> QED
      BY <1>0, <1>1, <1>2, <1>3, NewUnits
  <2> QED
    BY <1>4, <2>1
<1>6. /\ readBytes' = (IF Len(c) > readBytes THEN Len(c) ELSE readBytes)
      /\ pending' = Rest(new) /\ emitted' = emitted \cup Whole(new)
      /\ gone' = (IF cut /\ Len(c) >= readBytes
                  THEN gone \cup Begun(SubSeq(c, 1, IF Len(c) > readBytes THEN readBytes + 1 ELSE Len(c))) ELSE gone)
      /\ cut' = (cut /\ Len(c) < readBytes)
  BY <1>0 DEF Drains, HeldAndRead
<1>7. readBytes' = Len(c)
  BY <1>1, <1>2, <1>3, <1>6
<1>8. cut' = FALSE
  <2>1. ~(Len(c) < readBytes)
    BY <1>1, <1>2, <1>3
  <2> QED
    BY <1>6, <2>1
<1>9. gone \subseteq gone' /\ emitted \subseteq emitted'
  BY <1>6
<1>10. ASSUME cut, NEW k \in 1..Len(c), k % 2 = 1, k <= readBytes + 1 PROVE c[k] \in gone'
  <2> DEFINE n == IF Len(c) > readBytes THEN readBytes + 1 ELSE Len(c)
  <2>1. n \in Nat /\ k <= n /\ n <= Len(c)
    BY <1>1, <1>2, <1>3, <1>10
  <2>2. c[k] \in Begun(SubSeq(c, 1, n))
    BY <1>2, <1>10, <2>1, BegunOf
  <2> QED
    BY <1>3, <1>6, <1>10, <2>2
<1>11. ASSUME p = 1
       PROVE  readBytes \in 1..Len(c) /\ (pending[1] = c[readBytes] \/ c[readBytes] \in gone')
  <2>1. readBytes % 2 = 1 /\ readBytes \in 1..Len(c)
    BY <1>1, <1>2, <1>3, <1>4, <1>11
  <2>2. CASE cut
    BY <1>1, <1>10, <2>1, <2>2
  <2>3. CASE ~cut
    BY <1>9, <2>1, <2>3 DEF FileInv, HandleInv
  <2> QED
    BY <2>1, <2>2, <2>3
<1>12. Len(new) \in Nat /\ Len(new) % 2 = Len(c) % 2
  <2>1. (p + Len(c) - readBytes) % 2 = Len(c) % 2
    BY <1>1, <1>2, <1>3, <1>4, Parity
  <2>2. Len(new) \in Nat
    BY <1>5
  <2>3. Len(new) % 2 = Len(c) % 2
    BY <1>5, <2>1, Zenon
  <2> QED
    BY <2>2, <2>3
<1>13. Len(pending') = readBytes' % 2 /\ Alternates(pending') /\ pending' \in Seq(Units)
  BY <1>5, <1>6, <1>7, <1>12, RestOf
<1>14. ASSUME readBytes' % 2 = 1 PROVE pending'[1] = c[readBytes'] \/ c[readBytes'] \in gone'
  <2>1. Len(c) % 2 = 1 /\ pending'[1] = new[Len(new)]
    BY <1>5, <1>6, <1>7, <1>12, <1>14, RestOf
  <2>2. CASE Len(c) > readBytes
    <3>1. Len(c) \in 1..Len(c) /\ Len(new) = Len(c) - readBytes + p
      BY <1>1, <1>2, <1>5, <2>2
    <3>2. new[Len(new)] = c[Len(c)]
      BY <1>5, <2>2, <3>1
    <3> QED
      BY <1>7, <2>1, <3>2
  <2>3. CASE Len(c) = readBytes
    <3>1. p = 1 /\ Len(new) = 1
      BY <1>1, <1>2, <1>4, <1>5, <2>1, <2>3
    <3> QED
      BY <1>5, <1>7, <1>11, <2>1, <2>3, <3>1
  <2> QED
    BY <1>1, <1>2, <1>3, <2>2, <2>3
<1>15. ASSUME NEW k \in 1..Len(c), k % 2 = 0 PROVE c[k - 1] \in emitted' \cup gone'
  <2>1. k \in Nat /\ k - 1 \in 1..Len(c) /\ (k - 1) % 2 = 1
    BY <1>2, <1>15
  <2>2. CASE k <= readBytes
    <3>1. CASE cut
      BY <1>1, <1>10, <2>1, <2>2, <3>1
    <3>2. CASE ~cut
      <4>1. DoneTo(f, readBytes)
        BY <3>2 DEF FileInv, DoneInv
      <4> QED
        BY <1>9, <1>15, <2>2, <4>1 DEF DoneTo
    <3> QED
      BY <3>1, <3>2
  <2>3. CASE k > readBytes
    <3>1. PICK j \in 1..Len(new) : j = k - readBytes + p
      BY <1>1, <1>2, <1>5, <2>3
    <3>2. j % 2 = 0
      <4>1. ((k - readBytes) + (readBytes % 2)) % 2 = k % 2
        BY <1>1, <2>1, <2>3, Parity
      <4> QED
        BY <1>4, <1>15, <3>1, <4>1
    <3>3. new[j - 1] \in emitted'
      BY <1>5, <1>6, <3>2, WholeOf
    <3>4. CASE k - 1 > readBytes
      <4>1. (k - 1) - readBytes + p = j - 1
        BY <1>1, <1>4, <2>1, <3>1
      <4>2. new[j - 1] = c[k - 1]
        BY <1>5, <2>1, <3>4, <4>1
      <4> QED
        BY <3>3, <4>2
    <3>5. CASE ~(k - 1 > readBytes)
      <4>1. k - 1 = readBytes
        BY <1>1, <2>1, <2>3, <3>5
      <4>2. p = 1 /\ j - 1 = 1
        BY <1>1, <1>4, <2>1, <3>1, <4>1
      <4> QED
        BY <1>5, <1>11, <3>3, <4>1, <4>2
    <3> QED
      BY <3>4, <3>5
  <2> QED
    BY <1>1, <2>1, <2>2, <2>3
<1> QED
  BY <1>7, <1>8, <1>13, <1>14, <1>15

\* The tailer reads to the end of the open file, or finds less of it than it
\* had read.
LEMMA DrainsKeeps ==
  ASSUME FileInv, NEW next \in {"poll", "open"}, Drains(next), next = "open" => f # Absent /\ f # path
  PROVE  FileInv'
<1>1. UNCHANGED <<content, path, writer, texts, f>> /\ pc' = next
  BY DEF Drains, diskVars, handleVars
<1>2. f # Absent => f \in 1..Len(content) /\ content[f] \in Seq(Units) /\ Len(content[f]) \in Nat
  BY FileTyped DEF FileInv, FileTypes
<1>3. gone \subseteq gone' /\ emitted \subseteq emitted'
  BY DEF Drains
<1>4. WriterInv'
  BY <1>1 DEF FileInv, WriterInv, Alternates
<1>5. ASSUME NEW g \in 1..Len(content), g # f, g # path PROVE DoneTo(g, Len(content[g]))'
  <2>1. DoneTo(g, Len(content[g]))
    BY <1>5 DEF FileInv, DoneInv
  <2> QED
    BY <1>1, <1>3, <2>1 DEF DoneTo
<1>6. CASE f = Absent
  <2>1. UNCHANGED <<readBytes, pending, cut>>
    BY <1>6 DEF Drains, handleVars
  <2>2. FileTypes' /\ HandleInv'
    BY <1>1, <1>6, <2>1 DEF FileInv, FileTypes, HandleInv, Alternates
  <2>3. DoneInv'
    BY <1>1, <1>5, <1>6, <2>1 DEF DoneInv
  <2> QED
    BY <1>4, <2>2, <2>3 DEF FileInv
<1>7. CASE f # Absent /\ Len(content[f]) >= readBytes
  <2>1. /\ readBytes' = Len(content[f]) /\ cut' = FALSE
        /\ pending' \in Seq(Units) /\ Len(pending') = readBytes' % 2 /\ Alternates(pending')
        /\ readBytes' % 2 = 1 => pending'[1] = content[f][readBytes'] \/ content[f][readBytes'] \in gone'
        /\ \A k \in 1..Len(content[f]) : k % 2 = 0 => content[f][k - 1] \in emitted' \cup gone'
    BY <1>7, ReadsToEnd
  <2>2. FileTypes'
    <3>1. cut' \in BOOLEAN
      BY <2>1
    <3> QED
      BY <1>1, <1>2, <1>7, <2>1, <3>1 DEF FileInv, FileTypes
  <2>3. HandleInv'
    <3>1. readBytes' <= Len(content[f])
      BY <1>2, <1>7, <2>1
    <3>2. Alternates(pending)'
      BY <2>1 DEF Alternates
    <3> QED
      BY <1>1, <2>1, <3>1, <3>2 DEF HandleInv
  <2>4. DoneTo(f, Len(content[f]))' /\ DoneTo(f, readBytes)'
    BY <1>1, <2>1 DEF DoneTo
  <2>5. DoneInv'
    BY <1>1, <1>5, <2>1, <2>4 DEF DoneInv
  <2> QED
    BY <1>4, <2>2, <2>3, <2>5 DEF FileInv
<1>8. CASE f # Absent /\ ~(Len(content[f]) >= readBytes)
  <2>1. Len(content[f]) < readBytes /\ readBytes \in Nat /\ pending \in Seq(Units) /\ cut \in BOOLEAN
    BY <1>2, <1>8 DEF FileInv, FileTypes
  <2>2. cut
    BY <1>2, <1>8 DEF FileInv, HandleInv
  <2>3. Len(pending) = readBytes % 2 /\ Alternates(pending)
    BY <1>8 DEF FileInv, HandleInv
  <2>4. SubSeq(content[f], readBytes + 1, Len(content[f])) = <<>>
    BY <1>2, <1>8, <2>1
  <2>5. pending \o SubSeq(content[f], readBytes + 1, Len(content[f])) = pending
    BY <2>1, <2>4
  <2>6. readBytes' = readBytes /\ pending' = Rest(pending) /\ cut' = TRUE
    <3>1. ~(Len(content[f]) > readBytes)
      BY <1>2, <1>8, <2>1
    <3> QED
      BY <1>8, <2>1, <2>2, <2>5, <3>1 DEF Drains
  <2>7. pending' \in Seq(Units) /\ Alternates(pending') /\ Len(pending') = readBytes % 2
    <3>1. (readBytes % 2) % 2 = readBytes % 2
      BY <2>1
    <3> QED
      BY <2>1, <2>3, <2>6, <3>1, RestOf
  <2>8. FileTypes'
    <3>1. cut' \in BOOLEAN
      BY <2>6
    <3> QED
      BY <1>1, <1>2, <1>8, <2>1, <2>6, <2>7, <3>1 DEF FileInv, FileTypes
  <2>9. HandleInv'
    BY <1>1, <2>6, <2>7 DEF HandleInv, Alternates
  <2>10. f # path => TextsGone(f) /\ TextsGone(f)' /\ DoneTo(f, Len(content[f]))'
    <3> SUFFICES ASSUME f # path PROVE TextsGone(f) /\ TextsGone(f)' /\ DoneTo(f, Len(content[f]))'
      OBVIOUS
    <3>1. TextsGone(f)
      BY <1>8, <2>2 DEF FileInv, DoneInv
    <3>2. DoneTo(f, Len(content[f]))
      BY <1>2, <1>8, <3>1, GoneDone
    <3> QED
      BY <1>1, <1>3, <3>1, <3>2 DEF TextsGone, DoneTo
  <2>11. DoneInv'
    BY <1>1, <1>5, <2>6, <2>10 DEF DoneInv
  <2> QED
    BY <1>4, <2>8, <2>9, <2>11 DEF FileInv
<1> QED
  BY <1>6, <1>7, <1>8
\* A step of the other kind of source, or none.
LEMMA FileStutters == ASSUME FileInv, UNCHANGED fileVars PROVE FileInv'
<1>1. UNCHANGED <<content, path, writer, texts, f, readBytes, pending, pc, emitted, gone, cut>>
  BY DEF fileVars, diskVars, handleVars
<1>2. FileTypes' /\ WriterInv' /\ HandleInv'
  BY <1>1 DEF FileInv, FileTypes, WriterInv, HandleInv, Alternates
<1>3. DoneInv'
  BY <1>1 DEF FileInv, DoneInv, DoneTo, TextsGone
<1> QED
  BY <1>2, <1>3 DEF FileInv

\* An empty file at the path, and a tailer that has not opened it.
LEMMA FileStarts == FileInit => FileInv
<1> SUFFICES ASSUME FileInit PROVE FileInv
  OBVIOUS
<1>1. content \in Seq(Seq(Units)) /\ Len(content) = 1 /\ content[1] = <<>>
  <2>1. <<>> \in Seq(Units)
    OBVIOUS
  <2> QED
    BY <2>1 DEF FileInit
<1>2. path = 1 /\ writer = 1 /\ texts = 0 /\ f = Absent /\ readBytes = 0 /\ pending = <<>> /\ pc = "open" /\ cut = FALSE
  BY DEF FileInit
<1>3. FileTypes
  <2>1. cut \in BOOLEAN
    BY <1>2
  <2>2. path \in {Absent, Len(content)} /\ writer \in 1..Len(content) /\ texts \in Nat
    BY <1>1, <1>2
  <2>3. f = Absent /\ readBytes \in Nat /\ pending \in Seq(Units) /\ pc = "open"
    BY <1>2
  <2> QED
    BY <1>1, <2>1, <2>2, <2>3 DEF FileTypes
<1>4. WriterInv
  <2>1. Len(content[1]) = 0
    BY <1>1
  <2>2. \A g \in 1..Len(content) : g = 1
    BY <1>1
  <2> QED
    BY <1>1, <1>2, <2>1, <2>2 DEF WriterInv, Alternates
<1>5. HandleInv /\ DoneInv
  <2>1. \A g \in 1..Len(content) : g = path
    BY <1>1, <1>2
  <2> QED
    BY <1>2, <2>1 DEF HandleInv, DoneInv
<1> QED
  BY <1>3, <1>4, <1>5 DEF FileInv

\* Each step keeps what is said of the file, its rotation and its tailer.
LEMMA StepKeepsFile == ASSUME FileInv, [Next]_vars PROVE FileInv'
<1>1. CASE DockerNext \/ UNCHANGED vars
  BY <1>1, FileStutters DEF DockerNext, vars
<1>2. CASE FileNext
  <2>1. CASE Writes \/ Renames \/ Creates \/ Reopens \/ Truncates
    BY <2>1, WritesKeeps, RenamesKeeps, CreatesKeeps, ReopensKeeps, TruncatesKeeps
  <2>2. CASE OpenFresh \/ CheckRotation \/ TailerRestarts
    BY <2>2, OpenFreshKeeps, CheckRotationKeeps, TailerRestartsKeeps
  <2>3. CASE Drain
    BY <2>3, DrainsKeeps DEF Drain
  <2>4. CASE Swap
    <3>1. Drains("open") /\ f # Absent /\ f # path
      BY <2>4 DEF Swap, FileInv, DoneInv
    <3> QED
      BY <3>1, DrainsKeeps
  <2> QED
    BY <1>2, <2>1, <2>2, <2>3, <2>4 DEF FileNext
<1> QED
  BY <1>1, <1>2 DEF Next

\* tail.go: a line that was ended in the file at the path is sent on, or is
\* still ahead of the tailer, through rotations of either kind, failed opens
\* and restarts; but for a file that left the path unopened or, at a restart,
\* unread, and for what a truncation took or hid. For any number of files, of
\* lines and of interruptions.
THEOREM RotationIsKept == Spec => []RotationKeepsLines
<1>1. Init => FileInv
  BY FileStarts DEF Init
<1>2. FileInv /\ [Next]_vars => FileInv'
  BY StepKeepsFile
<1>3. FileInv => RotationKeepsLines
  <2> SUFFICES ASSUME FileInv, NEW g \in Files, NEW x \in EndedPast(g, 0)
               PROVE  x \in emitted \cup gone
                        \cup (IF g = f THEN EndedPast(g, IF cut THEN 0 ELSE readBytes)
                              ELSE IF g = path THEN EndedPast(g, 0) ELSE {})
    BY DEF RotationKeepsLines
  <2>0. g \in 1..Len(content)
    BY DEF FileInv, FileTypes, Files
  <2> PICK k \in Ends(content[g]) : k > 1 /\ x = content[g][k - 1]
    BY DEF EndedPast
  <2>1. content[g] \in Seq(Units) /\ Len(content[g]) \in Nat /\ Alternates(content[g])
    BY <2>0, FileTyped
  <2>2. k \in 1..Len(content[g]) /\ k % 2 = 0
    BY <2>1, UnitsDiffer DEF Ends
  <2>3. \A n \in Nat : k > n => content[g][k - 1] \in EndedPast(g, n)
    BY DEF EndedPast
  <2>4. ASSUME NEW n \in Nat, k <= n, DoneTo(g, n) PROVE content[g][k - 1] \in emitted \cup gone
    BY <2>2, <2>4 DEF DoneTo
  <2>5. CASE g = f /\ cut
    BY <2>3, <2>5
  <2>6. CASE g = f /\ ~cut
    <3>1. readBytes \in Nat /\ DoneTo(g, readBytes)
      BY <2>0, <2>6, FileTailAssumption DEF FileInv, FileTypes, DoneInv
    <3>2. k > readBytes \/ k <= readBytes
      BY <2>2, <3>1
    <3> QED
      BY <2>3, <2>4, <2>6, <3>1, <3>2
  <2>7. CASE g # f /\ g = path
    BY <2>3, <2>7
  <2>8. CASE g # f /\ g # path
    BY <2>0, <2>1, <2>2, <2>4, <2>8 DEF FileInv, DoneInv
  <2> QED
    BY <2>5, <2>6, <2>7, <2>8
<1> QED
  BY <1>1, <1>2, <1>3, PTL DEF Spec
=============================================================================
