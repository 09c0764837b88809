----------------------------- MODULE MCLogReads -----------------------------
(* Instances of LogReads for TLC. *)
EXTENDS LogReads, TLC

CONSTANTS p1

\* Issue events in both hours.
Events == {[proj |-> p1, ts |-> h, ev |-> TRUE] : h \in {0, 1}}
=============================================================================
