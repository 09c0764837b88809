------------------------------ MODULE FileTail ------------------------------
(***************************************************************************)
(* The shipper's tailer of one file: it reads to the end, polls for growth *)
(* and for rotation (another file at the path, or a shorter one), and      *)
(* starts over in a file that it opens. A file is the sequence of what was *)
(* written to it, the text of a line being one unit and its newline        *)
(* another; files are numbered as they appear at the path.                 *)
(***************************************************************************)
EXTENDS Naturals, FiniteSets, SequencesExt

CONSTANTS MaxTexts,    \* bound on lines written
          MaxFiles,    \* bound on files
          MaxEvents,   \* bound on truncations, failed opens and crashes
          NL, Absent

ASSUME FileTailAssumption ==
  /\ MaxTexts \in Nat /\ MaxFiles \in Nat \ {0} /\ MaxEvents \in Nat
  /\ NL \notin Nat /\ Absent \notin Nat

VARIABLES
  content,    \* file -> units
  path,       \* the file at the path, or Absent
  writer,     \* the file the program writes to
  texts,      \* lines begun
  f, readBytes, pending,   \* the open file or Absent, units read of it, the partial line held
  pc,         \* what the tailer does next
  emitted,    \* lines sent on, whole
  \* History:
  gone,       \* lines no tailer of this kind could be sure to see
  cut,        \* the open file was truncated since it was opened
  events

diskVars == <<content, path, writer, texts>>
handleVars == <<f, readBytes, pending>>
fileVars == <<diskVars, handleVars, pc, emitted, gone, cut, events>>

Files == DOMAIN content
Begun(units) == ToSet(units) \ {NL}

FileInit ==
  /\ content = <<<<>>>> /\ path = 1 /\ writer = 1 /\ texts = 0
  /\ f = Absent /\ readBytes = 0 /\ pending = <<>> /\ pc = "open"
  /\ emitted = {} /\ gone = {} /\ cut = FALSE /\ events = 0

Event == events < MaxEvents /\ events' = events + 1

-----------------------------------------------------------------------------
(* The program that writes the file, and its rotation *)

\* A line is begun, or the one begun is ended. What is written to a file that
\* has left the path comes too late to be sure to be read.
Writes ==
  /\ LET open == content[writer] # <<>> /\ Last(content[writer]) # NL
     IN  /\ ~open => texts < MaxTexts
         /\ texts' = IF open THEN texts ELSE texts + 1
         /\ content' = [content EXCEPT ![writer] = Append(@, IF open THEN NL ELSE texts + 1)]
         /\ gone' = IF writer = path THEN gone ELSE gone \cup {texts'}
  /\ UNCHANGED <<path, writer, handleVars, pc, emitted, cut, events>>

\* Renamed away: nobody will open it again, not even one that found it cut.
Renames ==
  /\ path # Absent /\ path' = Absent
  /\ gone' = IF f = path /\ ~cut THEN gone ELSE gone \cup Begun(content[path])
  /\ UNCHANGED <<content, writer, texts, handleVars, pc, emitted, cut, events>>

Creates ==
  /\ path = Absent /\ Len(content) < MaxFiles
  /\ content' = Append(content, <<>>) /\ path' = Len(content) + 1
  /\ UNCHANGED <<writer, texts, handleVars, pc, emitted, gone, cut, events>>

Reopens ==
  /\ path # Absent /\ writer # path /\ writer' = path
  /\ UNCHANGED <<content, path, texts, handleVars, pc, emitted, gone, cut, events>>

Truncates ==
  /\ path # Absent /\ content[path] # <<>> /\ Event
  /\ content' = [content EXCEPT ![path] = <<>>]
  /\ gone' = gone \cup Begun(content[path])
  /\ cut' = (cut \/ f = path)
  /\ UNCHANGED <<path, writer, texts, handleVars, pc, emitted>>

-----------------------------------------------------------------------------
(* The tailer *)

\* From the start of whatever is at the path now; the handle it has stays
\* when that fails.
OpenFresh ==
  /\ pc = "open" /\ pc' = "drain"
  /\ \/ /\ path # Absent
        /\ f' = path /\ readBytes' = 0 /\ pending' = <<>> /\ cut' = FALSE
        /\ UNCHANGED events
     \/ /\ (path = Absent /\ UNCHANGED events) \/ Event
        /\ UNCHANGED <<handleVars, cut>>
  /\ UNCHANGED <<diskVars, emitted, gone>>

\* emitLines: the lines that are ended, and the rest.
Ends(units) == {i \in DOMAIN units : units[i] = NL}
Whole(units) == {units[i - 1] : i \in {k \in Ends(units) : k > 1 /\ units[k - 1] # NL /\ (k = 2 \/ units[k - 2] = NL)}}
Rest(units) ==
  IF Ends(units) = {} THEN units
  ELSE SubSeq(units, (CHOOSE i \in Ends(units) : \A k \in Ends(units) : k <= i) + 1, Len(units))

\* A file that was cut and has grown past what was read of it looks
\* untouched, and what is before is never read.
Drains(next) ==
  /\ pc' = next
  /\ IF f = Absent THEN UNCHANGED <<handleVars, emitted, gone, cut>>
     ELSE LET end == Len(content[f])
              new == pending \o SubSeq(content[f], readBytes + 1, end)
          IN  /\ readBytes' = IF end > readBytes THEN end ELSE readBytes
              /\ pending' = Rest(new)
              /\ emitted' = emitted \cup Whole(new)
              /\ gone' = IF cut /\ end >= readBytes
                         THEN gone \cup Begun(SubSeq(content[f], 1, IF end > readBytes THEN readBytes + 1 ELSE end)) ELSE gone
              /\ cut' = (cut /\ end < readBytes)
              /\ UNCHANGED f
  /\ UNCHANGED <<diskVars, events>>

Drain == pc = "drain" /\ Drains("poll")

\* Mutant: the file that was renamed away is not read to its end.
CheckRotationSwaps ==
  /\ pc = "poll"
  /\ pc' = IF f = Absent THEN "open" ELSE IF path = Absent THEN "drain"
           ELSE IF path # f \/ Len(content[f]) < readBytes THEN "open" ELSE "drain"
  /\ UNCHANGED <<diskVars, handleVars, emitted, gone, cut, events>>

CheckRotation ==
  /\ pc = "poll"
  /\ pc' = IF f = Absent THEN "open" ELSE IF path = Absent THEN "drain"
           ELSE IF path # f THEN "swap"
           ELSE IF Len(content[f]) < readBytes THEN "open" ELSE "drain"
  /\ UNCHANGED <<diskVars, handleVars, emitted, gone, cut, events>>

\* The last of the old file, before the new one is opened.
Swap == pc = "swap" /\ Drains("open")

\* The process dies and starts again: the file at the path is read from its
\* start, and what was not read of one that has left it is not looked for.
TailerRestarts ==
  /\ Event
  /\ f' = Absent /\ readBytes' = 0 /\ pending' = <<>> /\ pc' = "open" /\ cut' = FALSE
  /\ gone' = IF f # Absent /\ f # path THEN gone \cup Begun(content[f]) ELSE gone
  /\ UNCHANGED <<diskVars, emitted>>

-----------------------------------------------------------------------------
\* Lines of file g whose end is past the unit n.
EndedPast(g, n) == {content[g][k - 1] : k \in {i \in Ends(content[g]) : i > n /\ i > 1}}

\* tail.go: a line that was ended in the file at the path is sent on, or is
\* still ahead of the tailer, through rotations of either kind, failed opens
\* and restarts; but for a file that left the path unopened or, at a restart,
\* unread, and for what a truncation took or hid.
RotationKeepsLines ==
  \A g \in Files :
    EndedPast(g, 0) \subseteq emitted \cup gone
      \cup (IF g = f THEN EndedPast(g, IF cut THEN 0 ELSE readBytes)
            ELSE IF g = path THEN EndedPast(g, 0) ELSE {})
=============================================================================
