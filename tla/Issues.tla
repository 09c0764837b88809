------------------------------- MODULE Issues -------------------------------
(***************************************************************************)
(* The issue half of a batch in SQLite: one transaction per event here     *)
(* that opens, counts or reopens the event's issue, records the event as a *)
(* sample of it and keeps the newest Kept samples; the status changes of   *)
(* the front ends; the retention of samples.                               *)
(*                                                                         *)
(* A time is a number of half seconds. SQLite compares times as the text   *)
(* of RFC3339Nano, where a whole second has no fraction and its "Z" sorts  *)
(* after the "." of any fraction of the same second.                       *)
(***************************************************************************)
EXTENDS Naturals, FiniteSets

CONSTANTS
  Fingerprints,
  EventTimes,   \* times an event may carry: its sender's, in any order
  Kept,         \* samples kept per issue (50 in the code)
  MaxEvents,    \* bound on events
  None

ASSUME IssuesAssumption ==
  /\ IsFiniteSet(EventTimes) /\ EventTimes \subseteq Nat
  /\ Kept \in Nat \ {0} /\ MaxEvents \in Nat

VARIABLES
  issues,   \* fingerprint -> None or its status; counts and times are left out
  samples,  \* issue_events: [fp, ts, id]
  events,   \* events stored, the id of the last sample
  hand      \* the writer: the outcome it hands to the notifier

issueVars == <<issues, samples, events>>

Statuses == {"open", "resolved", "ignored"}
Nobody == [pc |-> "idle"]

IssuesInit ==
  /\ issues = [f \in Fingerprints |-> None] /\ samples = {} /\ events = 0
  /\ hand = Nobody

\* The order of times as SQLite sees them.
Second(t) == t \div 2
Text(t) == IF t % 2 = 0 THEN 2 * t + 3 ELSE 2 * t
TextAfter(s, r) == Text(s.ts) > Text(r.ts) \/ (Text(s.ts) = Text(r.ts) /\ s.id > r.id)

\* Mutant: the samples are trimmed from the wrong end.
NewestLast(f, all) ==
  LET own == {r \in all : r.fp = f}
  IN  {r \in own : Cardinality({s \in own : TextAfter(r, s)}) < Kept}

\* The rows the DELETE keeps: ORDER BY ts DESC, id DESC LIMIT Kept.
Newest(f, all) ==
  LET own == {r \in all : r.fp = f}
  IN  {r \in own : Cardinality({s \in own : TextAfter(s, r)}) < Kept}

Trimmed(f, all) == Newest(f, all) \cup {r \in all : r.fp # f}

UpsertIssueEvent(f, ts) ==
  /\ hand = Nobody /\ events < MaxEvents
  /\ issues' = [issues EXCEPT ![f] = IF @ = "ignored" THEN @ ELSE "open"]
  /\ events' = events + 1
  /\ samples' = Trimmed(f, samples \cup {[fp |-> f, ts |-> ts, id |-> events + 1]})
  /\ hand' = [pc |-> "outcome", fp |-> f, ts |-> ts,
              new |-> issues[f] = None, reopened |-> issues[f] = "resolved"]

SetIssueStatus(f, status) ==
  /\ issues[f] # None
  /\ issues' = [issues EXCEPT ![f] = status]
  /\ UNCHANGED <<samples, events, hand>>

ApiUpdateStatus(f) == \E s \in Statuses : SetIssueStatus(f, s)
McpResolveIssue(f) == SetIssueStatus(f, "resolved")
McpIgnoreIssue(f) == SetIssueStatus(f, "ignored")

DeleteIssueEventsBefore(before) ==
  /\ samples' = {r \in samples : Text(r.ts) >= Text(before)}
  /\ UNCHANGED <<issues, events, hand>>

\* UpsertIssues, DeleteIssueEventsBefore: of an issue's samples none is given
\* up, for space or for age, while one that is older by a second stays:
\* within a second the order of the texts, and so the choice, may be wrong.
KeepsNewest ==
  [][\A f \in Fingerprints :
       LET new == IF events' = events THEN {}
                  ELSE {[fp |-> hand'.fp, ts |-> hand'.ts, id |-> events']}
       IN  \A r \in (samples \cup new) \ samples', s \in samples' :
             (r.fp = f /\ s.fp = f) => Second(s.ts) >= Second(r.ts)]_<<issueVars, hand>>
=============================================================================
