----------------------------- MODULE MCLogStore -----------------------------
(* Instances of LogStore for TLC. *)
EXTENDS LogStore, TLC

CONSTANTS p1, p2

Event(p, h) == [proj |-> p, ts |-> h, ev |-> TRUE]
Plain(p, h) == [proj |-> p, ts |-> h, ev |-> FALSE]

\* One project: an issue event in the first hour, a plain log in the second.
OneProject == {Event(p1, 0), Plain(p1, 1)}
\* Two projects: an issue event in the one, a plain log in the other.
TwoProjects == {Event(p1, 0), Plain(p2, 1)}

\* What can go wrong on the write path, and in segment maintenance.
WriteFaults == {"crash", "midflush", "wal_sync", "wal_write", "wal_truncate", "manifest",
                "rollup", "extract"}
SegmentFaults == {"crash", "segment_write", "manifest", "remove", "issues"}
=============================================================================
