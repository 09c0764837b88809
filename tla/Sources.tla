------------------------------ MODULE Sources -------------------------------
(***************************************************************************)
(* The shipper's docker source: the goroutine that lists containers and    *)
(* follows their events, one tailer per container, the channel from the    *)
(* tailers to the joiner loop, the joiner, and the resume times. The spool *)
(* is the set of the lines of the records appended to it; the docker       *)
(* daemon is the environment. A time is a whole number, the lines of a     *)
(* container have growing ones, and the daemon's `since` is inclusive.     *)
(*                                                                         *)
(* A list and the tailers it starts are one step: a tailer that starts     *)
(* after its container has died finds the log ended.                       *)
(***************************************************************************)
EXTENDS Naturals, Sequences, FiniteSets

CONSTANTS
  Containers, Selected,   \* those the names and labels select
  Kinds, Times,           \* of the lines that are written
  Overlap,                \* a tailer starts this long before its resume time (1 s)
  MaxJoin,                \* lines of a record (64 KB in the code)
  ChanCap,                \* lines in the channel (1024)
  Handles,                \* tailers there may be at once
  MaxLines, MaxTurns,     \* bounds on lines per container, starts and deaths
  MaxFaults,              \* bound on failures, lost streams and crashes
  None

\* A line, an event of the daemon, a tailer (of no run until it has opened
\* the log), what it sends (line 0 for eof), and a container's joiner.
LineRows == [kind : Kinds, time : Times]
Events == [act : {"start", "die"}, of : Containers]
TailerRows == [of : Containers, run : Nat, pc : {"open", "read", "eof"}, pos : Nat, live : BOOLEAN]
SourceEvents == [of : Containers, line : Nat]
JoinRows == [held : Seq(Nat), panic : BOOLEAN, last : BOOLEAN]

ASSUME SourcesAssumption ==
  /\ Selected \subseteq Containers /\ Kinds \subseteq {"plain", "cont", "panic", "goroutine"}
  /\ Times \subseteq Nat /\ Overlap \in Nat /\ MaxJoin \in Nat \ {0} /\ ChanCap \in Nat \ {0}
  /\ Handles \subseteq Nat /\ MaxLines \in Nat /\ MaxTurns \in Nat /\ MaxFaults \in Nat
  /\ None \notin Nat /\ None \notin Seq(Events) /\ None \notin TailerRows /\ None \notin JoinRows

VARIABLES
  \* The daemon:
  runs,      \* container -> how often it was started
  running,   \* those that run
  lines,     \* container -> lines it wrote, [kind, time]
  stream,    \* None, or the events on their way
  \* The source:
  src,       \* what runDockerSource does next
  tailers,   \* handle -> None or a tailer
  cancels,   \* container -> None or the handle of its tailer
  \* The joiner loop:
  evCh,
  joiners,   \* container -> None or its joiner
  since, sinceDisk,   \* container -> None or resume time
  up,        \* "up", "stopping", "down"
  turns, faults,
  \* History:
  stored,    \* lines of the records appended
  counted,   \* those of records the spool refused
  lost,      \* lines the joiner held at a crash
  blind      \* containers whose tailer left by itself, or that could not be listed or read, since

daemonVars == <<runs, running, lines>>
tailVars == <<tailers, cancels, blind>>
joinVars == <<joiners, since, stored, counted>>
boundVars == <<turns, faults>>
sourceVars == <<daemonVars, stream, src, tailVars, evCh, joinVars, sinceDisk, up, boundVars, lost>>

Present(table) == {x \in DOMAIN table : table[x] # None}
Empty == [c \in Containers |-> None]

SourcesInit ==
  /\ runs = [c \in Containers |-> 1] /\ running = Containers
  /\ lines = [c \in Containers |-> <<>>] /\ stream = None
  /\ src = "list" /\ tailers = [h \in Handles |-> None] /\ cancels = Empty
  /\ evCh = <<>> /\ joiners = Empty /\ since = Empty /\ sinceDisk = Empty
  /\ up = "up" /\ turns = 0 /\ faults = 0
  /\ stored = {} /\ counted = {} /\ lost = {} /\ blind = {}

Fault == faults < MaxFaults /\ faults' = faults + 1 /\ UNCHANGED turns

-----------------------------------------------------------------------------
(* The daemon. Events reach a stream that is open; nothing replays them. *)

Emit(act, c) == IF stream = None THEN None ELSE Append(stream, [act |-> act, of |-> c])

ContainerStarts(c) ==
  /\ c \notin running /\ turns < MaxTurns
  /\ running' = running \cup {c} /\ runs' = [runs EXCEPT ![c] = @ + 1]
  /\ stream' = Emit("start", c)
  /\ turns' = turns + 1
  /\ UNCHANGED <<lines, src, tailVars, evCh, joinVars, sinceDisk, up, faults, lost>>

ContainerDies(c) ==
  /\ c \in running /\ turns < MaxTurns
  /\ running' = running \ {c}
  /\ stream' = Emit("die", c)
  /\ turns' = turns + 1
  /\ UNCHANGED <<runs, lines, src, tailVars, evCh, joinVars, sinceDisk, up, faults, lost>>

WritesLine(c) ==
  /\ c \in running /\ Len(lines[c]) < MaxLines
  /\ \E k \in Kinds, t \in Times :
       /\ \A i \in DOMAIN lines[c] : lines[c][i].time <= t
       /\ lines' = [lines EXCEPT ![c] = Append(@, [kind |-> k, time |-> t])]
  /\ UNCHANGED <<runs, running, stream, src, tailVars, evCh, joinVars, sinceDisk, up, boundVars, lost>>

-----------------------------------------------------------------------------
(* The source *)

\* A container that has a tailer, even one that has not left yet, gets no
\* other. Starts gives each of cs a free handle.
Starts(cs) ==
  LET new == {c \in cs : c \in Selected /\ cancels[c] = None}
      free == {h \in Handles : tailers[h] = None}
  IN  \E give \in [new -> free] :
        /\ \A c, d \in new : c # d => give[c] # give[d]
        /\ cancels' = [c \in Containers |-> IF c \in new THEN give[c] ELSE cancels[c]]
        /\ tailers' = [h \in Handles |->
             IF \E c \in new : give[c] = h
             THEN [of |-> CHOOSE c \in new : give[c] = h, run |-> 0, pc |-> "open", pos |-> 0, live |-> TRUE]
             ELSE tailers[h]]

\* listAndStartTailers: at the start and after every connect.
List(next) ==
  /\ src' = next
  /\ \/ Starts(running) /\ blind' = blind \ running /\ UNCHANGED boundVars
     \/ Fault /\ blind' = blind \cup running /\ UNCHANGED <<tailers, cancels>>
  /\ UNCHANGED <<daemonVars, stream, evCh, joinVars, sinceDisk, up, lost>>

ListAtStart == src = "list" /\ List("connect")
Relist == src = "relist" /\ List("follow")

\* A connect that fails is tried again.
Connect ==
  /\ src = "connect"
  /\ stream' = <<>> /\ src' = "relist"
  /\ UNCHANGED <<daemonVars, tailVars, evCh, joinVars, sinceDisk, up, boundVars, lost>>

\* What the daemon has sent and nobody has read goes with the connection.
StreamEnds ==
  /\ src = "follow" /\ Fault
  /\ stream' = None /\ src' = "connect"
  /\ UNCHANGED <<daemonVars, tailVars, evCh, joinVars, sinceDisk, up, lost>>

EventIs(act) == src = "follow" /\ stream # <<>> /\ Head(stream).act = act /\ stream' = Tail(stream)

\* The container is listed again, and may be gone again.
EventStart ==
  /\ EventIs("start")
  /\ LET c == Head(stream).of
     IN  \/ Starts({c} \cap running) /\ blind' = blind \ ({c} \cap running) /\ UNCHANGED boundVars
         \/ Fault /\ blind' = blind \cup {c} /\ UNCHANGED <<tailers, cancels>>
  /\ UNCHANGED <<daemonVars, src, evCh, joinVars, sinceDisk, up, lost>>

\* stopTailer: cancelled, whatever it has still to read.
EventDie ==
  /\ EventIs("die")
  /\ LET c == Head(stream).of
     IN  /\ tailers' = IF cancels[c] = None THEN tailers ELSE [tailers EXCEPT ![cancels[c]].live = FALSE]
         /\ cancels' = [cancels EXCEPT ![c] = None]
  /\ UNCHANGED <<daemonVars, src, blind, evCh, joinVars, sinceDisk, up, boundVars, lost>>

-----------------------------------------------------------------------------
(* A tailer *)

At(h, pc) == tailers[h] # None /\ tailers[h].pc = pc
Of(h) == tailers[h].of
Send(c, i) == Len(evCh) < ChanCap /\ evCh' = Append(evCh, [of |-> c, line |-> i])

\* The lines from a resume time on.
FirstFrom(c, s) ==
  IF s = None THEN 1
  ELSE 1 + Cardinality({i \in DOMAIN lines[c] : lines[c][i].time + Overlap < s})

Opens(h) ==
  /\ At(h, "open")
  /\ tailers' = [tailers EXCEPT ![h].pc = "read", ![h].run = runs[Of(h)],
                                ![h].pos = FirstFrom(Of(h), since[Of(h)])]
  /\ UNCHANGED <<daemonVars, stream, src, cancels, blind, evCh, joinVars, sinceDisk, up, boundVars, lost>>

\* Mutant: the resume time is set when a line is sent.
SendsLineSince(h) ==
  /\ At(h, "read") /\ tailers[h].pos <= Len(lines[Of(h)])
  /\ Send(Of(h), tailers[h].pos)
  /\ since' = [since EXCEPT ![Of(h)] = lines[Of(h)][tailers[h].pos].time]
  /\ tailers' = [tailers EXCEPT ![h].pos = @ + 1]
  /\ UNCHANGED <<daemonVars, stream, src, cancels, blind, joiners, stored, counted, sinceDisk, up, boundVars, lost>>

\* A cancelled tailer may still send.
SendsLine(h) ==
  /\ At(h, "read") /\ tailers[h].pos <= Len(lines[Of(h)])
  /\ Send(Of(h), tailers[h].pos)
  /\ tailers' = [tailers EXCEPT ![h].pos = @ + 1]
  /\ UNCHANGED <<daemonVars, stream, src, cancels, blind, joinVars, sinceDisk, up, boundVars, lost>>

\* Mutant: a tailer that leaves frees its container's place whoever has it.
LeavesFreeing(h) ==
  /\ tailers' = [tailers EXCEPT ![h] = None]
  /\ cancels' = [cancels EXCEPT ![Of(h)] = None]
  /\ blind' = IF cancels[Of(h)] = h THEN blind \cup {Of(h)} ELSE blind

\* Only the place it has itself.
Leaves(h) ==
  /\ tailers' = [tailers EXCEPT ![h] = None]
  /\ IF cancels[Of(h)] = h
     THEN cancels' = [cancels EXCEPT ![Of(h)] = None] /\ blind' = blind \cup {Of(h)}
     ELSE UNCHANGED <<cancels, blind>>

OpenFails(h) ==
  /\ At(h, "open")
  /\ Fault \/ (~tailers[h].live /\ UNCHANGED boundVars)
  /\ Leaves(h)
  /\ UNCHANGED <<daemonVars, stream, src, evCh, joinVars, sinceDisk, up, lost>>

\* The log ends when its run of the container is over, and may break before.
SeesEof(h) ==
  /\ At(h, "read")
  /\ \/ /\ \/ runs[Of(h)] # tailers[h].run
           \/ Of(h) \notin running /\ tailers[h].pos > Len(lines[Of(h)])
           \/ ~tailers[h].live
        /\ UNCHANGED boundVars
     \/ Fault
  /\ tailers' = [tailers EXCEPT ![h].pc = "eof", ![h].pos = 0, ![h].run = 0]
  /\ UNCHANGED <<daemonVars, stream, src, cancels, blind, evCh, joinVars, sinceDisk, up, lost>>

SendsEof(h) ==
  /\ At(h, "eof")
  /\ Send(Of(h), 0) \/ (~tailers[h].live /\ UNCHANGED evCh)
  /\ Leaves(h)
  /\ UNCHANGED <<daemonVars, stream, src, joinVars, sinceDisk, up, boundVars, lost>>

-----------------------------------------------------------------------------
(* The joiner loop *)

\* Records, sets of lines, go to the spool one by one: it may refuse any of them.
Appends(records) ==
  \E refused \in SUBSET records :
    /\ IF refused = {} THEN UNCHANGED boundVars ELSE Fault
    /\ stored' = stored \cup UNION (records \ refused)
    /\ counted' = counted \cup UNION refused

Fresh(i, kind) == [held |-> <<i>>, panic |-> kind = "panic", last |-> kind = "panic"]
Lines(c, j) == IF j = None THEN {} ELSE {<<c, j.held[k]>> : k \in DOMAIN j.held}
Record(c, j) == IF j = None THEN {} ELSE {Lines(c, j)}

\* isContinuation, and the panic mode.
Continues(j, kind) ==
  /\ j # None /\ j.held # <<>> /\ kind # "panic"
  /\ j.panic \/ kind = "cont" \/ (kind = "goroutine" /\ j.last)

Received == Head(evCh)

\* The resume time is set although the line may be held.
Feeds ==
  /\ evCh # <<>> /\ Received.line # 0
  /\ LET c == Received.of
         l == lines[c][Received.line]
         j == joiners[c]
         joins == Continues(j, l.kind) /\ Len(j.held) < MaxJoin
     IN  /\ joiners' = [joiners EXCEPT ![c] =
              IF joins THEN [j EXCEPT !.held = Append(@, Received.line), !.last = FALSE]
              ELSE Fresh(Received.line, l.kind)]
         /\ Appends(IF joins THEN {} ELSE Record(c, j))
         /\ since' = [since EXCEPT ![c] = l.time]
  /\ evCh' = Tail(evCh)
  /\ UNCHANGED <<daemonVars, stream, src, tailVars, sinceDisk, up, lost>>

Forgets ==
  /\ evCh # <<>> /\ Received.line = 0
  /\ joiners' = [joiners EXCEPT ![Received.of] = None]
  /\ Appends(Record(Received.of, joiners[Received.of]))
  /\ evCh' = Tail(evCh)
  /\ UNCHANGED <<daemonVars, stream, src, tailVars, since, sinceDisk, up, lost>>

AllHeld == UNION {Lines(c, joiners[c]) : c \in Containers}

\* The join window ends: every joiner is flushed, each to a record of its own.
Ticks ==
  /\ up # "down" /\ AllHeld # {}
  /\ joiners' = Empty
  /\ Appends(UNION {Record(c, joiners[c]) : c \in Containers})
  /\ UNCHANGED <<daemonVars, stream, src, tailVars, evCh, since, sinceDisk, up, lost>>

\* The timer's and every Ack's.
PersistSince ==
  /\ up # "down" /\ sinceDisk # since
  /\ sinceDisk' = since
  /\ UNCHANGED <<daemonVars, stream, src, tailVars, evCh, joinVars, up, boundVars, lost>>

-----------------------------------------------------------------------------
(* Stop, crash and restart *)

Cancelled == [h \in Handles |-> IF tailers[h] = None THEN None ELSE [tailers[h] EXCEPT !.live = FALSE]]

Stop ==
  /\ up = "up" /\ Fault
  /\ up' = "stopping" /\ src' = "off" /\ stream' = None
  /\ tailers' = Cancelled
  /\ UNCHANGED <<daemonVars, cancels, blind, evCh, joinVars, sinceDisk, lost>>

\* The producers are gone, the channel is drained, the joiners are flushed
\* and the resume times stored.
Stopped ==
  /\ up = "stopping" /\ Present(tailers) = {} /\ evCh = <<>> /\ AllHeld = {}
  /\ up' = "down" /\ sinceDisk' = since
  /\ joiners' = Empty /\ cancels' = Empty /\ blind' = {}
  /\ UNCHANGED <<daemonVars, stream, src, tailers, evCh, since, stored, counted, boundVars, lost>>

Crash ==
  /\ up # "down" /\ Fault
  /\ up' = "down" /\ src' = "off" /\ stream' = None
  /\ tailers' = [h \in Handles |-> None] /\ cancels' = Empty
  /\ evCh' = <<>> /\ joiners' = Empty
  /\ lost' = lost \cup AllHeld
  /\ since' = sinceDisk /\ blind' = {}
  /\ UNCHANGED <<daemonVars, sinceDisk, stored, counted>>

Restart ==
  /\ up = "down"
  /\ up' = "up" /\ src' = "list"
  /\ UNCHANGED <<daemonVars, stream, tailVars, evCh, joinVars, sinceDisk, boundVars, lost>>

-----------------------------------------------------------------------------
Daemon == \E c \in Containers : ContainerStarts(c) \/ ContainerDies(c) \/ WritesLine(c)
Source == ListAtStart \/ Connect \/ Relist \/ EventStart \/ EventDie \/ StreamEnds
Tailer(h) == Opens(h) \/ OpenFails(h) \/ SendsLine(h) \/ SeesEof(h) \/ SendsEof(h)
JoinerLoop == Feeds \/ Forgets \/ Ticks

-----------------------------------------------------------------------------
(* Properties *)

\* Lines a tailer would read again.
Again(c, i, s) == s = None \/ lines[c][i].time + Overlap >= s

\* docker_source.go, SetSince and PersistSince: whenever the process dies or a
\* tailer stops, every line is in the spool, counted as refused, or read again
\* by the next tailer; but for lines the joiner holds, which a crash loses.
NothingSkipped ==
  \A c \in Selected : \A i \in DOMAIN lines[c] :
    <<c, i>> \notin (stored \cup counted \cup lost \cup Lines(c, joiners[c]))
      => Again(c, i, sinceDisk[c]) /\ (up # "down" => Again(c, i, since[c]))

\* runDockerSource: with the events followed and none waiting, every selected
\* container that runs has a tailer that is not cancelled, whatever starts,
\* deaths and reconnects came before; but for one whose tailer left its place
\* by itself, or that could not be listed or read, since it was listed. The
\* tailer may have seen its end before that list, which then started none.
TailedWhenQuiet ==
  (up = "up" /\ src = "follow" /\ stream = <<>>) =>
    \A c \in (Selected \cap running) \ blind :
      /\ cancels[c] # None
      /\ tailers[cancels[c]] # None /\ Of(cancels[c]) = c /\ tailers[cancels[c]].live
=============================================================================
