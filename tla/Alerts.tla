------------------------------- MODULE Alerts -------------------------------
(***************************************************************************)
(* Alert rules: the table in SQLite, the operations of the front ends on   *)
(* it, the engine's snapshot, windows and cooldown anchors, the writer     *)
(* that evaluates every stored event against them, the delivery worker and *)
(* restarts. Issues hands the events and their outcomes over.              *)
(*                                                                         *)
(* A minute is a second, two ticks, so that a few ticks span some windows. *)
(* time.Now() is a clock that never goes back; events carry any time.      *)
(* Scope fields (service, environment, severity) always match.             *)
(***************************************************************************)
EXTENDS Issues, Sequences, FiniteSetsExt, Functions

CONSTANTS
  Clients,
  Kinds,             \* conditions a caller may give: [kind, n, window]
  Cooldowns,         \* cooldowns a caller may give, in ticks, or None to omit it
  DefaultCooldown,   \* (900 s in the code)
  Enabling,          \* TRUE, FALSE, or None to omit it
  FirstRules,        \* tables the process may start with
  MaxId, QueueCap, MaxOps, MaxRestarts

Ids == 1..MaxId

\* A rule's condition, a row of the table, whose `fired` is last_fired and
\* `made` history (see below), and a fire as history has it.
ValidKind(what) == what.kind = "threshold" => what.n >= 1 /\ what.window >= 1
AllKinds == [kind : {"new_issue", "regression", "threshold"}, n : Nat, window : Nat]
Whats == {what \in AllKinds : ValidKind(what)}
Rows == [what : Whats, cooldown : Nat, enabled : BOOLEAN, fired : Nat \cup {None}, made : Nat \ {0}]
Table == [Ids -> Rows \cup {None}]
Fires == [ts : EventTimes, cooldown : Nat, made : Nat, event : Nat, known : BOOLEAN]

Minute(t) == Second(t)
Minutes == {Minute(t) : t \in EventTimes}

ASSUME AlertsAssumption ==
  /\ IsFiniteSet(Clients) /\ MaxId \in Nat \ {0} /\ QueueCap \in Nat \ {0}
  /\ MaxOps \in Nat /\ MaxRestarts \in Nat /\ DefaultCooldown \in Nat
  /\ Kinds \subseteq AllKinds /\ Cooldowns \subseteq Nat \cup {None}
  /\ Enabling \subseteq BOOLEAN \cup {None}
  /\ None \notin Rows /\ None \notin Fires /\ None \notin [Minutes -> Nat]
  /\ None \notin BOOLEAN /\ None \notin Nat
  /\ FirstRules \subseteq Table
  /\ \A t \in FirstRules, i \in Ids : t[i] # None => t[i].made = 1

VARIABLES
  rules,        \* alert_rules: id -> None or [what, cooldown, enabled, fired, made]
  cache,        \* the engine's snapshot of them
  windows,      \* rule id -> None or minute -> count
  lastFired,    \* rule id -> None or cooldown anchor
  queue, job,   \* fires waiting, and the one being delivered
  clock,        \* the last time.Now()
  op, got,      \* what each client is doing, and what its Load has read
  ops, restarts,\* (for the bounds)
  \* History, for the properties; `made` of a row tells one rule from
  \* another that has its id.
  made,         \* rules made
  fires,        \* rule id -> None or its last fire
  matched,      \* rule id -> minutes of the events the rule counted since it, or the process, began
  mixed         \* ids whose memory or row something meant for an earlier rule touched

tableVars == <<rules, made>>
memory == <<cache, windows, lastFired>>
delivery == <<queue, job, clock>>
clientVars == <<op, got, ops>>
history == <<fires, matched, mixed>>
vars == <<issueVars, hand, tableVars, memory, delivery, clientVars, restarts, history>>

Present(t) == {i \in Ids : t[i] # None}
Idle == [pc |-> "idle"]
NoEvents == [made |-> 0, window |-> 0, minutes |-> <<>>, fit |-> TRUE]

\* Nothing reads the last_fired of a row in the snapshot.
Cached(t) == [i \in Ids |-> IF t[i] = None THEN None ELSE [t[i] EXCEPT !.fired = None]]
Fired(t) == [i \in Ids |-> IF t[i] = None THEN None ELSE t[i].fired]

Init ==
  /\ IssuesInit
  /\ rules \in FirstRules /\ cache = Cached(rules)
  /\ windows = [i \in Ids |-> None] /\ lastFired = Fired(rules)
  /\ queue = <<>> /\ job = None /\ clock = 0
  /\ op = [c \in Clients |-> Idle] /\ got = [c \in Clients |-> None] /\ ops = 0 /\ restarts = 0
  /\ made = 1
  /\ fires = [i \in Ids |-> None] /\ matched = [i \in Ids |-> NoEvents] /\ mixed = {}

-----------------------------------------------------------------------------
(* The writer: IssueEvent for the event in hand *)

\* Enabled and in scope, and of a kind this outcome can match.
MatchesEvent(r, o) ==
  /\ r.enabled
  /\ \/ r.what.kind = "new_issue" /\ o.new
     \/ r.what.kind = "regression" /\ o.reopened
     \/ r.what.kind = "threshold"

\* The rules are read under the lock and evaluated after it, in id order.
IssueEvent ==
  /\ hand.pc = "outcome"
  /\ LET todo == {i \in Present(cache) : MatchesEvent(cache[i], hand)}
     IN  hand' = IF todo = {} THEN Nobody
                 ELSE [pc |-> "rules", ts |-> hand.ts, rules |-> cache, todo |-> todo]
  /\ UNCHANGED <<issueVars, tableVars, memory, delivery, clientVars, restarts, history>>

RulesLeft(i) == IF hand.todo = {i} THEN Nobody ELSE [hand EXCEPT !.pc = "rules", !.todo = @ \ {i}]

\* A rule that is not the one its id names now.
Another(i, r) == rules[i] = None \/ rules[i].made # r.made

\* Mutant: off by one.
PrunedLate(w, m, width) ==
  LET wide == IF width < 1 THEN 1 ELSE width
  IN  [k \in Minutes |-> IF k + wide < m THEN 0 ELSE w[k]]

\* Buckets older than the window that ends at minute m are dropped; newer
\* ones, of events that came with a later time, are not.
Pruned(w, m, width) ==
  LET wide == IF width < 1 THEN 1 ELSE width
  IN  [k \in Minutes |-> IF k + wide < m + 1 THEN 0 ELSE w[k]]

WindowAdd(w, m, width) == [Pruned(IF w = None THEN [k \in Minutes |-> 0] ELSE w, m, width) EXCEPT ![m] = @ + 1]
Total(w) == SumFunction(w)

Counts(old, r, m) ==
  LET begun == old.made = r.made
      earlier == IF begun THEN old.minutes ELSE <<>>
  IN  [made |-> r.made, window |-> r.what.window, minutes |-> Append(earlier, m),
       fit |-> begun => (old.fit /\ old.window = r.what.window /\ old.minutes[Len(old.minutes)] <= m)]

RecordThresholdEvent ==
  /\ hand.pc = "rules"
  /\ LET i == Min(hand.todo)
         r == hand.rules[i]
         w == WindowAdd(windows[i], Minute(hand.ts), r.what.window)
     IN  /\ r.what.kind = "threshold"
         /\ windows' = [windows EXCEPT ![i] = w]
         /\ matched' = [matched EXCEPT ![i] = Counts(@, r, Minute(hand.ts))]
         /\ hand' = IF r.what.n > 0 /\ Total(w) >= r.what.n THEN [hand EXCEPT !.pc = "fire"] ELSE RulesLeft(i)
         /\ mixed' = IF Another(i, r) THEN mixed \cup {i} ELSE mixed
  /\ UNCHANGED <<issueVars, tableVars, cache, lastFired, delivery, clientVars, restarts, fires>>

\* Anchors and event times are compared as they come: an event older than
\* the anchor is held too.
Held(i, r) == lastFired[i] # None /\ r.cooldown > 0 /\ hand.ts < lastFired[i] + r.cooldown

\* A full queue drops the fire; the anchor stays.
TryFire ==
  /\ hand.pc \in {"rules", "fire"}
  /\ LET i == Min(hand.todo)
         r == hand.rules[i]
     IN  /\ hand.pc = "rules" => r.what.kind # "threshold"
         /\ hand' = RulesLeft(i)
         /\ IF Held(i, r) THEN UNCHANGED <<lastFired, queue, fires, mixed>>
            ELSE /\ lastFired' = [lastFired EXCEPT ![i] = hand.ts]
                 /\ queue' = IF Len(queue) < QueueCap THEN Append(queue, [id |-> i, made |-> r.made]) ELSE queue
                 /\ fires' = [fires EXCEPT ![i] =
                      [ts |-> hand.ts, cooldown |-> r.cooldown, made |-> r.made, event |-> events, known |-> TRUE]]
                 /\ mixed' = IF Another(i, r) THEN mixed \cup {i} ELSE mixed
  /\ UNCHANGED <<issueVars, tableVars, cache, windows, job, clock, clientVars, restarts, matched>>

-----------------------------------------------------------------------------
(* The delivery worker. Whether a webhook answers decides last_error only, *)
(* and the attempts are one step.                                          *)

DeliverTakes ==
  /\ job = None /\ queue # <<>>
  /\ job' = Head(queue) /\ queue' = Tail(queue)
  /\ UNCHANGED <<issueVars, hand, tableVars, memory, clock, clientVars, restarts, history>>

\* The row of a deleted rule is no more there to be changed; that of a rule
\* that has its id is.
RecordAlertResult(i, j) ==
  /\ \E now \in EventTimes :
       /\ now >= clock /\ clock' = now
       /\ IF rules[i] = None THEN UNCHANGED rules
          ELSE rules' = [rules EXCEPT ![i].fired = now]
  /\ mixed' = IF rules[i] # None /\ Another(i, j) THEN mixed \cup {i} ELSE mixed

RecordResult ==
  /\ job # None
  /\ job' = None
  /\ RecordAlertResult(job.id, job) \/ UNCHANGED <<rules, clock, mixed>>
  /\ UNCHANGED <<issueVars, hand, made, memory, queue, clientVars, restarts, fires, matched>>

-----------------------------------------------------------------------------
(* The front ends *)

Begin(c, o) ==
  /\ op[c].pc = "idle" /\ ops < MaxOps
  /\ op' = [op EXCEPT ![c] = o] /\ ops' = ops + 1
  /\ UNCHANGED <<issueVars, hand, tableVars, memory, delivery, got, restarts, history>>

CreateRule(what, cooldown, en) ==
  [pc |-> "write", do |-> "upsert", id |-> 0, what |-> what,
   cooldown |-> IF cooldown = None THEN DefaultCooldown ELSE cooldown, enabled |-> en # FALSE]
UpdateRule(i, what, cooldown, en) ==
  [pc |-> "find", do |-> "upsert", id |-> i, what |-> what, cooldown |-> cooldown, en |-> en]

Upsert(c) ==
  \E what \in Kinds, cooldown \in Cooldowns, en \in Enabling :
    /\ ValidKind(what)
    /\ \/ Begin(c, CreateRule(what, cooldown, en))
       \/ \E i \in Ids : Begin(c, UpdateRule(i, what, cooldown, en))

\* A caller bound to a project is refused a rule that is not there.
Delete(c) ==
  \E i \in Ids, admin \in BOOLEAN :
    Begin(c, IF admin THEN [pc |-> "write", do |-> "delete", id |-> i]
             ELSE [pc |-> "find", do |-> "delete", id |-> i])
Test(c) ==
  \E i \in Ids, admin \in BOOLEAN :
    Begin(c, IF admin THEN [pc |-> "write", do |-> "test", id |-> i]
             ELSE [pc |-> "find", do |-> "test", id |-> i])

\* The HTTP handlers and the MCP tools; their rules are the same.
ApiUpsert(c) == Upsert(c)
McpUpsert(c) == Upsert(c)
ApiDelete(c) == Delete(c)
McpDelete(c) == Delete(c)
ApiTest(c) == Test(c)
McpTest(c) == Test(c)

At(c, pc) == op[c].pc = pc
Goes(c, o) == op' = [op EXCEPT ![c] = o]
Ends(c) == op' = [op EXCEPT ![c] = Idle] /\ got' = [got EXCEPT ![c] = None]

\* What an update omits keeps its value; a find that fails, or finds nothing,
\* leaves an administrator's update the defaults of a create. Who asks for an
\* update is told apart only here.
FindAlertRule(c) ==
  /\ At(c, "find")
  /\ \E ok \in BOOLEAN, admin \in {FALSE, op[c].do = "upsert"} :
       LET o == op[c]
           row == rules[o.id]
           found == ok /\ row # None
       IN  IF ~found /\ ~admin THEN Ends(c)
           ELSE /\ UNCHANGED got
                /\ Goes(c, IF o.do # "upsert" THEN [pc |-> "write", do |-> o.do, id |-> o.id]
                           ELSE [pc |-> "write", do |-> "upsert", id |-> o.id, what |-> o.what,
                                 cooldown |-> IF o.cooldown # None THEN o.cooldown
                                              ELSE IF found THEN row.cooldown ELSE DefaultCooldown,
                                 enabled |-> IF o.en # None THEN o.en
                                             ELSE IF found THEN row.enabled ELSE TRUE])
  /\ UNCHANGED <<issueVars, hand, tableVars, memory, delivery, ops, restarts, history>>

NextId == IF Present(rules) = {} THEN 1 ELSE Max(Present(rules)) + 1

\* An update leaves last_fired alone.
UpsertAlertRule(c) ==
  /\ At(c, "write") /\ op[c].do = "upsert"
  /\ LET o == op[c]
         i == IF o.id = 0 THEN NextId ELSE o.id
         old == rules[i]
         row == [what |-> o.what, cooldown |-> o.cooldown, enabled |-> o.enabled,
                 fired |-> IF o.id = 0 THEN None ELSE old.fired,
                 made |-> IF o.id = 0 THEN made + 1 ELSE old.made]
     IN  /\ i \in Ids
         /\ IF o.id # 0 /\ old = None THEN Ends(c) /\ UNCHANGED tableVars
            ELSE /\ rules' = [rules EXCEPT ![i] = row]
                 /\ made' = IF o.id = 0 THEN made + 1 ELSE made
                 /\ Goes(c, [pc |-> "back", id |-> i]) /\ UNCHANGED got
  /\ UNCHANGED <<issueVars, hand, memory, delivery, ops, restarts, history>>

AlertRuleByID(c) ==
  /\ At(c, "back")
  /\ IF rules[op[c].id] = None THEN Ends(c) ELSE Goes(c, [pc |-> "load"]) /\ UNCHANGED got
  /\ UNCHANGED <<issueVars, hand, tableVars, memory, delivery, ops, restarts, history>>

DeleteAlertRule(c) ==
  /\ At(c, "write") /\ op[c].do = "delete"
  /\ IF rules[op[c].id] = None THEN Ends(c) /\ UNCHANGED rules
     ELSE /\ rules' = [rules EXCEPT ![op[c].id] = None]
          /\ Goes(c, [pc |-> "load"]) /\ UNCHANGED got
  /\ UNCHANGED <<issueVars, hand, made, memory, delivery, ops, restarts, history>>

\* One attempt with the rule of the snapshot, then the result is recorded as
\* a fire's is.
TestFire(c) ==
  /\ At(c, "write") /\ op[c].do = "test"
  /\ LET i == op[c].id
     IN  IF cache[i] = None THEN Ends(c)
         ELSE Goes(c, [pc |-> "record", id |-> i, made |-> cache[i].made]) /\ UNCHANGED got
  /\ UNCHANGED <<issueVars, hand, tableVars, memory, delivery, ops, restarts, history>>

RecordTest(c) ==
  /\ At(c, "record")
  /\ RecordAlertResult(op[c].id, op[c]) \/ UNCHANGED <<rules, clock, mixed>>
  /\ Ends(c)
  /\ UNCHANGED <<issueVars, hand, made, memory, queue, job, ops, restarts, fires, matched>>

\* After its write, an operation that fails leaves the snapshot behind.
OpFails(c) ==
  /\ \/ op[c].pc \in {"back", "load"}
     \/ At(c, "write") /\ op[c].do # "test"
  /\ Ends(c)
  /\ UNCHANGED <<issueVars, hand, tableVars, memory, delivery, ops, restarts, history>>

LoadReads(c) ==
  /\ At(c, "load")
  /\ got' = [got EXCEPT ![c] = rules]
  /\ Goes(c, [pc |-> "install"])
  /\ UNCHANGED <<issueVars, hand, tableVars, memory, delivery, ops, restarts, history>>

\* Ids a Load carries the memory of one rule over to another with, or takes
\* it from under: it missed a delete and a create, or it read before one.
Confused(rows) ==
  {i \in Ids : \/ rules[i] # None /\ (rows[i] = None \/ rows[i].made # rules[i].made)
               \/ rows[i] # None /\ cache[i] # None /\ rows[i].made # cache[i].made}

Seeded(rows) ==
  [i \in Ids |-> IF rows[i] = None THEN None
                 ELSE IF lastFired[i] = None THEN rows[i].fired ELSE lastFired[i]]

\* Mutant: the anchors are those of the table again.
LoadReseeds(c) ==
  /\ At(c, "install")
  /\ cache' = Cached(got[c]) /\ lastFired' = Fired(got[c])
  /\ windows' = [i \in Ids |-> IF got[c][i] = None THEN None ELSE windows[i]]
  /\ mixed' = mixed \cup Confused(got[c])
  /\ Ends(c)
  /\ UNCHANGED <<issueVars, hand, tableVars, delivery, ops, restarts, fires, matched>>

\* Mutant: nothing is pruned.
LoadKeeps(c) ==
  /\ At(c, "install")
  /\ cache' = Cached(got[c])
  /\ lastFired' = [i \in Ids |-> IF got[c][i] = None THEN lastFired[i] ELSE Seeded(got[c])[i]]
  /\ mixed' = mixed \cup Confused(got[c])
  /\ Ends(c)
  /\ UNCHANGED <<issueVars, hand, tableVars, windows, delivery, ops, restarts, fires, matched>>

LoadInstalls(c) ==
  /\ At(c, "install")
  /\ cache' = Cached(got[c])
  /\ lastFired' = Seeded(got[c])
  /\ windows' = [i \in Ids |-> IF got[c][i] = None THEN None ELSE windows[i]]
  /\ mixed' = mixed \cup Confused(got[c])
  /\ Ends(c)
  /\ UNCHANGED <<issueVars, hand, tableVars, delivery, ops, restarts, fires, matched>>

-----------------------------------------------------------------------------
(* The process stops, by itself or by a crash, and starts again: what is in *)
(* memory is lost, the anchors come back from the table. A fire the table   *)
(* does not know of, or knows under an earlier time, is forgotten.          *)

Restart ==
  /\ restarts < MaxRestarts /\ restarts' = restarts + 1
  /\ hand' = Nobody
  /\ cache' = Cached(rules) /\ lastFired' = Fired(rules) /\ windows' = [i \in Ids |-> None]
  /\ queue' = <<>> /\ job' = None
  /\ op' = [c \in Clients |-> Idle] /\ got' = [c \in Clients |-> None]
  /\ fires' = [i \in Ids |->
       IF fires[i] = None THEN None
       ELSE [fires[i] EXCEPT !.known = rules[i] # None /\ rules[i].fired # None /\ rules[i].fired >= fires[i].ts]]
  /\ matched' = [i \in Ids |-> NoEvents]
  /\ UNCHANGED <<issueVars, tableVars, clock, ops, mixed>>

-----------------------------------------------------------------------------
Issue ==
  /\ \E f \in Fingerprints, ts \in EventTimes :
       \/ UpsertIssueEvent(f, ts) /\ UNCHANGED ops
       \/ /\ ops < MaxOps /\ ops' = ops + 1
          /\ \/ ApiUpdateStatus(f) \/ McpResolveIssue(f) \/ McpIgnoreIssue(f)
             \/ DeleteIssueEventsBefore(ts)
  /\ UNCHANGED <<tableVars, memory, delivery, op, got, restarts, history>>

Client(c) ==
  \/ ApiUpsert(c) \/ McpUpsert(c) \/ ApiDelete(c) \/ McpDelete(c) \/ ApiTest(c) \/ McpTest(c)
  \/ FindAlertRule(c) \/ UpsertAlertRule(c) \/ AlertRuleByID(c) \/ DeleteAlertRule(c)
  \/ TestFire(c) \/ RecordTest(c) \/ OpFails(c) \/ LoadReads(c) \/ LoadInstalls(c)

Next ==
  \/ Issue
  \/ IssueEvent \/ RecordThresholdEvent \/ TryFire
  \/ DeliverTakes \/ RecordResult
  \/ \E c \in Clients : Client(c)
  \/ Restart

Spec == Init /\ [][Next]_vars

-----------------------------------------------------------------------------
(* Properties *)

\* The rule the engine evaluates under an id is the one of the table, and
\* nothing meant for another rule has touched its memory.
Settled(i) == rules[i] # None /\ cache[i] # None /\ cache[i].made = rules[i].made /\ i \notin mixed

\* README.md:227, 259-262: a rule does not fire twice within its cooldown,
\* whatever updates, reloads, test fires and restarts come between; but for a
\* restart that finds the first fire not yet recorded, or recorded at a time
\* before its event's, and for an id that changed hands in a race.
CooldownKept ==
  [][\A i \in Ids :
       LET f == fires[i]
           g == fires'[i]
       IN  (f # None /\ g.event # f.event /\ f.made = g.made /\ f.known /\ g.cooldown > 0 /\ i \notin mixed')
             => g.ts >= f.ts + g.cooldown]_vars

\* window.go: a threshold rule's buckets hold exactly the events of the last
\* `window` minutes it has counted, across reloads and updates that keep the
\* window, as long as the events come in order of their minutes.
ThresholdExact ==
  \A i \in Ids :
    LET m == matched[i]
        last == m.minutes[Len(m.minutes)]
    IN  (Settled(i) /\ m.made = rules[i].made /\ m.fit) =>
          /\ windows[i] # None
          /\ \A k \in Minutes :
               windows[i][k] = IF k + m.window > last
                               THEN Cardinality({n \in DOMAIN m.minutes : m.minutes[n] = k}) ELSE 0

\* Load prunes: a rule starts with no anchor and no window of a rule that
\* was deleted, though it may get its id.
InheritsNothing ==
  \A i \in Ids : Settled(i) =>
    /\ lastFired[i] # None => rules[i].fired # None \/ (fires[i] # None /\ fires[i].made = rules[i].made)
    /\ windows[i] # None => matched[i].made = rules[i].made
=============================================================================
