------------------------------- MODULE Rules --------------------------------
(***************************************************************************)
(* Noise rules, severity rules and the parse-bodies toggle: the tables in  *)
(* SQLite, the operations the API and the MCP tools run on them, the       *)
(* engine's in-memory snapshot of them, and the two users of the snapshot, *)
(* the pipeline's writer (Lift, then Decide) and the flush loop.           *)
(*                                                                         *)
(* An operation of a client runs in phases, each one store access or one   *)
(* critical section of the engine:                                         *)
(*                                                                         *)
(*   find    the front end reads the rule (ownership, omitted fields)      *)
(*   count   a new severity rule: the cap                                  *)
(*   write   the one SQL statement                                         *)
(*   back    the stored row is read back                                   *)
(*   noise, sev, projects    Load's three reads                            *)
(*   install Load swaps the snapshot                                       *)
(*                                                                         *)
(* A rule's pattern and service are the set of logs they match. OnStart    *)
(* loads the engine before anything uses it and fails when it cannot, so   *)
(* the model starts loaded and the engine's unloaded state is left out.    *)
(***************************************************************************)
EXTENDS Naturals, FiniteSets, FiniteSetsExt

CONSTANTS
  Clients,           \* callers of the API and the MCP tools
  Projects, Admin,   \* a caller is bound to a project, or is Admin
  Logs,              \* kinds of log
  Owner, Level,      \* project and severity of each kind of log
  Info,              \* the ingest default severity
  NoiseParams,       \* parameters a caller may give a noise rule,
  SevParams,         \* and a severity rule
  Enabling,          \* what a caller may say of enabled: "omit", "on", "off"
  NoiseTables,       \* the tables the process may start with
  SevTables,
  MaxId,             \* bound on rule ids
  Cap,               \* severity rules a project may hold (100 in the code)
  MaxOps, MaxLogs,   \* bounds on operations and on logs processed
  None

\* What a rule says: the pattern and service of a noise rule are logs, its
\* severity and n numbers; a severity rule has the severity it lifts to.
NoiseWhats ==
  [kind : {"drop_match", "sample", "severity_floor"}, service : SUBSET Logs, severity : Nat,
   pattern : SUBSET Logs, n : Nat]
SevWhats == [pattern : SUBSET Logs, to : Nat]
Rows(whats) == [project : Projects, what : whats, enabled : BOOLEAN, count : Nat]

Ids == 1..MaxId
NoiseTable == [Ids -> Rows(NoiseWhats) \cup {None}]
SevTable == [Ids -> Rows(SevWhats) \cup {None}]

ASSUME RulesAssumption ==
  /\ IsFiniteSet(Clients) /\ IsFiniteSet(Projects) /\ Admin \notin Projects
  /\ MaxId \in Nat \ {0} /\ Cap \in Nat \ {0} /\ MaxOps \in Nat /\ MaxLogs \in Nat /\ Info \in Nat
  /\ Owner \in [Logs -> Projects] /\ Level \in [Logs -> Nat]
  /\ NoiseParams \subseteq NoiseWhats /\ SevParams \subseteq SevWhats
  /\ None \notin Rows(NoiseWhats) /\ None \notin Rows(SevWhats)

\* Any tables may be there at the start: an earlier run may have moved rules
\* into a project without end.
ASSUME StartAssumption == NoiseTables \subseteq NoiseTable /\ SevTables \subseteq SevTable

VARIABLES
  table,      \* the two rule tables: id -> row or None
  parse,      \* projects.parse_bodies
  snap,       \* the engine's snapshot of all three
  counters,   \* per sample rule, banded records seen
  pending,    \* drops and lifts counted since the last flush
  flushPc,    \* the flush loop: "idle", "noise" (FlushDrops), "sev" (FlushLifts)
  taken,      \* the counts a flush swapped out
  op,         \* what each client is doing
  got,        \* what its Load has read
  writer,     \* the pipeline's writer: the log in hand and the rules it read
  ops, logs,  \* operations begun, logs processed (for the bounds)
  \* History, for the properties:
  missed,     \* clients whose Load began before some later write
  stale,      \* the snapshot's Load missed a write, or an operation ended between the two
  decided,    \* per rule id, drops and lifts decided, those of earlier runs included
  seen, kept, \* per sample rule, matching logs and survivors
  born,       \* every <<table, id>> there has been
  reused,     \* those whose id came back after a delete
  changed,    \* those that were reused or given other parameters
  moved       \* severity rules an update moved to another project, in this run or an earlier one

ruleVars == <<table, parse>>
engineVars == <<snap, counters, pending, flushPc, taken>>
clientVars == <<op, got, ops>>
writerVars == <<writer, logs>>
tallyVars == <<decided, seen, kept>>
birthVars == <<born, reused, changed, moved>>
historyVars == <<missed, stale, tallyVars, birthVars>>
vars == <<ruleVars, engineVars, clientVars, writerVars, historyVars>>

Tables == {"noise", "sev"}
NoCounts == [i \in Ids |-> 0]
Present(rows) == {i \in Ids : rows[i] # None}
Idle == [pc |-> "idle"]
NothingRead == [noise |-> None, sev |-> None, parse |-> None]
AtRest == [pc |-> "idle"]

\* A snapshot carries no counts that anything reads: rows without them.
Plain(row) == IF row = None THEN None ELSE [row EXCEPT !.count = 0]
NoiseRules == [i \in Ids |-> Plain(table["noise"][i])]
SeverityRules == [i \in Ids |-> Plain(table["sev"][i])]

SevOf(p) == {i \in Present(table["sev"]) : table["sev"][i].project = p}

\* The rules an earlier run may have moved: those it created where they are
\* now are no more than the cap and the creates that race let it create.
MovedBefore(m) ==
  /\ m \subseteq Present(table["sev"])
  /\ \A p \in Projects : Cardinality(SevOf(p) \ m) <= Cap + Cardinality(Clients) - 1

Init ==
  /\ \E n \in NoiseTables, s \in SevTables : table = [noise |-> n, sev |-> s]
  /\ parse = [p \in Projects |-> TRUE]
  /\ snap = [noise |-> NoiseRules, sev |-> SeverityRules, parse |-> parse]
  /\ counters = NoCounts
  /\ pending = [t \in Tables |-> NoCounts] /\ flushPc = "idle" /\ taken = NoCounts
  /\ op = [c \in Clients |-> Idle] /\ got = [c \in Clients |-> NothingRead]
  /\ writer = AtRest /\ ops = 0 /\ logs = 0
  /\ missed = {} /\ stale = FALSE
  /\ decided = [t \in Tables |-> [i \in Ids |-> IF table[t][i] = None THEN 0 ELSE table[t][i].count]]
  /\ seen = NoCounts /\ kept = NoCounts
  /\ born = {b \in Tables \X Ids : table[b[1]][b[2]] # None}
  /\ reused = {} /\ changed = {}
  /\ \E m \in SUBSET Ids : MovedBefore(m) /\ moved = m

-----------------------------------------------------------------------------
(* The front ends: how an operation begins *)

Scopes == Projects \cup {Admin}

\* A project's key acts on its own project whatever the request names.
Own(scope, named) == IF scope = Admin THEN named ELSE scope

\* Parameters that could never match are refused when a rule is created.
ValidNoiseParams(p) ==
  CASE p.kind = "drop_match" -> p.pattern # {}
    [] p.kind = "sample" -> p.n > 1
    [] OTHER -> TRUE
McpValidNoiseParams(p) ==
  /\ p.kind = "drop_match" => p.pattern # {}
  /\ p.kind = "sample" => p.n > 1

\* A severity rule only lifts.
ValidSevParams(p) == p.to > Info

Begin(c, o) ==
  /\ op[c].pc = "idle" /\ ops < MaxOps
  /\ op' = [op EXCEPT ![c] = o]
  /\ ops' = ops + 1
  /\ UNCHANGED <<ruleVars, engineVars, got, writerVars, historyVars>>

\* An operation keeps what its later phases need: found rows replace the
\* choice "omit", and nothing but the phase is left of it once it has written.
CreateRule(t, project, what, en) ==
  [pc |-> IF t = "sev" THEN "count" ELSE "write", do |-> "upsert", tbl |-> t, id |-> 0,
   project |-> project, what |-> what, enabled |-> en # "off"]
UpdateRule(t, id, scope, project, what, en) ==
  [pc |-> "find", do |-> "upsert", tbl |-> t, id |-> id, project |-> project, what |-> what,
   scope |-> scope, en |-> en]
Upsert(t, id, scope, project, what, en) ==
  IF id = 0 THEN CreateRule(t, project, what, en) ELSE UpdateRule(t, id, scope, project, what, en)
DeleteRule(t, id) == [pc |-> "write", do |-> "delete", tbl |-> t, id |-> id]
Delete(t, id, scope) ==
  IF scope = Admin THEN DeleteRule(t, id)
  ELSE [pc |-> "find", do |-> "delete", tbl |-> t, id |-> id, scope |-> scope]
SetParse(project, on) == [pc |-> "find", do |-> "parse", project |-> project, on |-> on]

ApiUpsertNoise(c) ==
  \E scope \in Scopes, path \in Projects, id \in 0..MaxId, p \in NoiseParams, en \in Enabling :
    /\ id = 0 => ValidNoiseParams(p)
    /\ Begin(c, Upsert("noise", id, scope, Own(scope, path), p, en))

McpUpsertNoise(c) ==
  \E scope \in Scopes, given \in Projects \cup {None}, id \in 0..MaxId, p \in NoiseParams, en \in Enabling :
    /\ scope = Admin => given # None
    /\ id = 0 => McpValidNoiseParams(p)
    /\ Begin(c, Upsert("noise", id, scope, Own(scope, given), p, en))

ApiUpsertSeverity(c) ==
  \E scope \in Scopes, path \in Projects, id \in 0..MaxId, p \in SevParams, en \in Enabling :
    /\ ValidSevParams(p)
    /\ Begin(c, Upsert("sev", id, scope, Own(scope, path), p, en))

McpUpsertSeverity(c) ==
  \E scope \in Scopes, given \in Projects \cup {None}, id \in 0..MaxId, p \in SevParams, en \in Enabling :
    /\ ValidSevParams(p)
    /\ scope = Admin => given # None
    /\ Begin(c, Upsert("sev", id, scope, Own(scope, given), p, en))

ApiDeleteNoise(c) == \E scope \in Scopes, id \in Ids : Begin(c, Delete("noise", id, scope))
McpDeleteNoise(c) == \E scope \in Scopes, id \in Ids : Begin(c, Delete("noise", id, scope))
ApiDeleteSeverity(c) == \E scope \in Scopes, id \in Ids : Begin(c, Delete("sev", id, scope))
McpDeleteSeverity(c) == \E scope \in Scopes, id \in Ids : Begin(c, Delete("sev", id, scope))

ApiSetParse(c) ==
  \E scope \in Scopes, path \in Projects, on \in BOOLEAN : Begin(c, SetParse(Own(scope, path), on))
McpSetParse(c) ==
  \E scope \in Scopes, given \in Projects, on \in BOOLEAN : Begin(c, SetParse(Own(scope, given), on))

-----------------------------------------------------------------------------
(* The store accesses of an operation, any of which may fail *)

At(c, pc) == op[c].pc = pc
Goto(c, pc) == op' = [op EXCEPT ![c].pc = pc]
Loads(c) == op' = [op EXCEPT ![c] = [pc |-> "noise"]]
Ends(c) ==
  /\ op' = [op EXCEPT ![c] = Idle]
  /\ got' = [got EXCEPT ![c] = NothingRead]
  /\ missed' = missed \ {c}

\* The rule a caller finds by id: Admin's lookup spans every project, and a
\* failed read finds nothing.
Finds(c, t, ok) ==
  LET row == table[t][op[c].id] IN ok /\ row # None /\ op[c].scope \in {Admin, row.project}

\* A field an update leaves out keeps its value; without a row it gets the
\* default of a create. Only Admin goes on without one.
FindRow(c, t) ==
  /\ At(c, "find") /\ op[c].do # "parse" /\ op[c].tbl = t
  /\ \E ok \in BOOLEAN :
       IF op[c].scope = Admin \/ Finds(c, t, ok)
       THEN /\ LET o == op[c]
                   row == table[t][o.id]
                   enabled == IF o.en # "omit" THEN o.en = "on"
                              ELSE IF Finds(c, t, ok) THEN row.enabled ELSE TRUE
               IN  op' = [op EXCEPT ![c] =
                     IF o.do = "delete" THEN DeleteRule(t, o.id)
                     ELSE [pc |-> "write", do |-> "upsert", tbl |-> t, id |-> o.id,
                           project |-> o.project, what |-> o.what, enabled |-> enabled]]
            /\ UNCHANGED <<got, missed>>
       ELSE Ends(c)
  /\ UNCHANGED <<ruleVars, engineVars, ops, writerVars, stale, tallyVars, birthVars>>

FindNoise(c) == FindRow(c, "noise")
FindSeverity(c) == FindRow(c, "sev")

\* The project must exist; a failed read ends the request.
FindProject(c) ==
  /\ At(c, "find") /\ op[c].do = "parse"
  /\ Goto(c, "write")
  /\ UNCHANGED <<ruleVars, engineVars, got, ops, writerVars, historyVars>>

\* A store access that fails ends the operation; after the write, the
\* tables are ahead of the snapshot.
OpFails(c) ==
  /\ op[c].pc \in {"find", "count", "write", "back", "noise", "sev", "projects"}
  /\ At(c, "find") => op[c].do = "parse"
  /\ Ends(c)
  /\ stale' = (stale \/ op[c].pc \in {"back", "noise", "sev", "projects"})
  /\ UNCHANGED <<ruleVars, engineVars, ops, writerVars, tallyVars, birthVars>>

\* Mutant: off by one.
CountSeverityPast(c) ==
  /\ At(c, "count")
  /\ IF Cardinality(SevOf(op[c].project)) <= Cap
       THEN Goto(c, "write") /\ UNCHANGED <<got, missed>>
       ELSE Ends(c)
  /\ UNCHANGED <<ruleVars, engineVars, ops, writerVars, stale, tallyVars, birthVars>>

\* The cap is checked in a statement of its own.
CountSeverity(c) ==
  /\ At(c, "count")
  /\ IF Cardinality(SevOf(op[c].project)) < Cap
       THEN Goto(c, "write") /\ UNCHANGED <<got, missed>>
       ELSE Ends(c)
  /\ UNCHANGED <<ruleVars, engineVars, ops, writerVars, stale, tallyVars, birthVars>>

\* Clients whose Load reads or has read: a write now may escape it.
Loading == {c \in Clients : op[c].pc \in {"noise", "sev", "projects", "install"}}

\* INTEGER PRIMARY KEY without AUTOINCREMENT: one more than the largest id
\* there is, so the id of a deleted rule can come back.
NextId(t) == IF Present(table[t]) = {} THEN 1 ELSE Max(Present(table[t])) + 1

NotFound(c) ==
  /\ Ends(c)
  /\ UNCHANGED <<ruleVars, engineVars, ops, writerVars, stale, tallyVars, birthVars>>

\* An insert or an update of table t; the count is the table's own.
Upserts(c, t) ==
  LET o == op[c]
      i == IF o.id = 0 THEN NextId(t) ELSE o.id
      old == table[t][i]
  IN  /\ At(c, "write") /\ o.do = "upsert" /\ o.tbl = t
      /\ o.id = 0 => i \in Ids
      /\ IF o.id # 0 /\ old = None THEN NotFound(c)
         ELSE /\ table' = [table EXCEPT ![t][i] =
                   [project |-> o.project, what |-> o.what, enabled |-> o.enabled,
                    count |-> IF o.id = 0 THEN 0 ELSE old.count]]
              /\ op' = [op EXCEPT ![c] = [pc |-> "back", tbl |-> t, id |-> i]]
              /\ missed' = missed \cup Loading
              /\ born' = born \cup {<<t, i>>}
              /\ reused' = IF o.id = 0 /\ <<t, i>> \in born THEN reused \cup {<<t, i>>} ELSE reused
              /\ changed' = IF (old = None /\ <<t, i>> \in born) \/ (old # None /\ old.what # o.what)
                            THEN changed \cup {<<t, i>>} ELSE changed
              /\ moved' = IF t # "sev" THEN moved
                          ELSE IF o.id = 0 THEN moved \ {i}
                          ELSE IF old.project # o.project THEN moved \cup {i} ELSE moved
              /\ UNCHANGED <<parse, engineVars, got, ops, writerVars, stale, tallyVars>>

UpsertNoiseRule(c) == Upserts(c, "noise")
UpsertSeverityRule(c) == Upserts(c, "sev")

Deletes(c, t) ==
  LET o == op[c]
  IN  /\ At(c, "write") /\ o.do = "delete" /\ o.tbl = t
      /\ IF table[t][o.id] = None THEN NotFound(c)
         ELSE /\ table' = [table EXCEPT ![t][o.id] = None]
              /\ Loads(c)
              /\ missed' = missed \cup Loading
              /\ UNCHANGED <<parse, engineVars, got, ops, writerVars, stale, tallyVars, birthVars>>

\* Mutant: the reload after a delete is forgotten.
DeleteNoiseRuleOnly(c) ==
  /\ At(c, "write") /\ op[c].do = "delete" /\ op[c].tbl = "noise"
  /\ table' = [table EXCEPT !["noise"][op[c].id] = None]
  /\ Ends(c)
  /\ UNCHANGED <<parse, engineVars, ops, writerVars, stale, tallyVars, birthVars>>

DeleteNoiseRule(c) == Deletes(c, "noise")
DeleteSeverityRule(c) == Deletes(c, "sev")

SetProjectParseBodies(c) ==
  /\ At(c, "write") /\ op[c].do = "parse"
  /\ parse' = [parse EXCEPT ![op[c].project] = op[c].on]
  /\ Loads(c)
  /\ missed' = missed \cup Loading
  /\ UNCHANGED <<table, engineVars, got, ops, writerVars, stale, tallyVars, birthVars>>

\* The row may be gone again: not found, and no Load.
ReadsBack(c, t) ==
  /\ At(c, "back") /\ op[c].tbl = t
  /\ IF table[t][op[c].id] = None THEN NotFound(c)
     ELSE Loads(c) /\ UNCHANGED <<ruleVars, engineVars, got, ops, writerVars, historyVars>>

NoiseRuleByID(c) == ReadsBack(c, "noise")
SeverityRuleByID(c) == ReadsBack(c, "sev")

-----------------------------------------------------------------------------
(* Load *)

LoadReads(c) ==
  /\ \/ At(c, "noise") /\ got' = [got EXCEPT ![c].noise = NoiseRules] /\ Goto(c, "sev")
     \/ At(c, "sev") /\ got' = [got EXCEPT ![c].sev = SeverityRules] /\ Goto(c, "projects")
     \/ At(c, "projects") /\ got' = [got EXCEPT ![c].parse = parse] /\ Goto(c, "install")
  /\ UNCHANGED <<ruleVars, engineVars, ops, writerVars, historyVars>>

\* Mutant: a Load starts the sampling over.
LoadInstallsAfresh(c) ==
  /\ At(c, "install")
  /\ snap' = got[c] /\ counters' = NoCounts
  /\ stale' = (c \in missed)
  /\ Ends(c)
  /\ UNCHANGED <<ruleVars, pending, flushPc, taken, ops, writerVars, tallyVars, birthVars>>

\* The counters outlive the snapshot they belong to.
LoadInstalls(c) ==
  /\ At(c, "install")
  /\ snap' = got[c]
  /\ stale' = (c \in missed)
  /\ Ends(c)
  /\ UNCHANGED <<ruleVars, counters, pending, flushPc, taken, ops, writerVars, tallyVars, birthVars>>

-----------------------------------------------------------------------------
(* The writer: one log at a time through Lift and Decide *)

\* The enabled rules of a log's project that match it, its severity being s.
NoiseMatches(rules, l, s) ==
  {i \in Present(rules) :
     LET r == rules[i].what
     IN  /\ rules[i].enabled /\ rules[i].project = Owner[l] /\ l \in r.service
         /\ \/ r.kind = "severity_floor" /\ s < r.severity
            \/ r.kind = "drop_match" /\ l \in r.pattern
            \/ r.kind = "sample" /\ r.n > 1 /\ s <= r.severity}
LiftMatches(rules, l) ==
  {i \in Present(rules) :
     rules[i].enabled /\ rules[i].project = Owner[l] /\ l \in rules[i].what.pattern}

\* Each of Lift and Decide reads its rules under the lock and works on them
\* after it: a Load in between does not reach them.
WriterTakes ==
  /\ writer.pc = "idle" /\ logs < MaxLogs
  /\ \E l \in Logs : writer' = [pc |-> "lift", log |-> l, level |-> Level[l], rules |-> snap.sev]
  /\ logs' = logs + 1
  /\ UNCHANGED <<ruleVars, engineVars, clientVars, historyVars>>

Lift ==
  /\ writer.pc = "lift"
  /\ LET hits == IF writer.level > Info THEN {} ELSE LiftMatches(writer.rules, writer.log)
     IN  IF hits = {}
         THEN /\ writer' = [writer EXCEPT !.pc = "decide", !.rules = snap.noise]
              /\ UNCHANGED <<pending, decided>>
         ELSE /\ writer' = [writer EXCEPT !.pc = "decide", !.rules = snap.noise,
                                          !.level = writer.rules[Min(hits)].what.to]
              /\ pending' = [pending EXCEPT !["sev"][Min(hits)] = @ + 1]
              /\ decided' = [decided EXCEPT !["sev"][Min(hits)] = @ + 1]
  /\ UNCHANGED <<ruleVars, snap, counters, flushPc, taken, clientVars, logs, missed, stale, seen, kept, birthVars>>

\* In id order: a sample rule lets the first of every n pass on to the next
\* rule, any other match drops the log.
Survives(i) == writer.rules[i].what.kind = "sample" /\ counters[i] % writer.rules[i].what.n = 0

Decide ==
  /\ writer.pc = "decide"
  /\ LET hits == NoiseMatches(writer.rules, writer.log, writer.level)
         drops == {i \in hits : ~Survives(i)}
         asked == {i \in hits : \A j \in drops : i <= j}
         sampled == {i \in asked : writer.rules[i].what.kind = "sample"}
     IN  /\ counters' = [i \in Ids |-> IF i \in sampled THEN counters[i] + 1 ELSE counters[i]]
         /\ seen' = [i \in Ids |-> IF i \in sampled THEN seen[i] + 1 ELSE seen[i]]
         /\ kept' = [i \in Ids |-> IF i \in sampled \ drops THEN kept[i] + 1 ELSE kept[i]]
         /\ IF drops = {} THEN UNCHANGED <<pending, decided>>
            ELSE /\ pending' = [pending EXCEPT !["noise"][Min(drops)] = @ + 1]
                 /\ decided' = [decided EXCEPT !["noise"][Min(drops)] = @ + 1]
  /\ writer' = AtRest
  /\ UNCHANGED <<ruleVars, snap, flushPc, taken, clientVars, logs, missed, stale, birthVars>>

-----------------------------------------------------------------------------
(* The flush loop: drops, then lifts, each swapped out under the lock, then *)
(* stored in one transaction, or folded back. A flush of nothing, which     *)
(* changes nothing, is left out.                                            *)

FlushTakes(t) ==
  /\ flushPc = "idle" /\ pending[t] # NoCounts
  /\ flushPc' = t
  /\ taken' = pending[t]
  /\ pending' = [pending EXCEPT ![t] = NoCounts]
  /\ UNCHANGED <<ruleVars, snap, counters, clientVars, writerVars, historyVars>>

\* Ids that are not there any more are skipped.
AddCounts(t) ==
  /\ flushPc = t
  /\ table' = [table EXCEPT ![t] = [i \in Ids |->
       IF table[t][i] = None THEN None ELSE [table[t][i] EXCEPT !.count = @ + taken[i]]]]
  /\ taken' = NoCounts /\ flushPc' = "idle"
  /\ UNCHANGED <<parse, snap, counters, pending, clientVars, writerVars, historyVars>>

\* Mutant: the counts put back replace those that came meanwhile.
FoldBackOver(t) ==
  /\ flushPc = t
  /\ pending' = [pending EXCEPT ![t] = taken]
  /\ taken' = NoCounts /\ flushPc' = "idle"
  /\ UNCHANGED <<ruleVars, snap, counters, clientVars, writerVars, historyVars>>

FoldBack(t) ==
  /\ flushPc = t
  /\ pending' = [pending EXCEPT ![t] = [i \in Ids |-> @[i] + taken[i]]]
  /\ taken' = NoCounts /\ flushPc' = "idle"
  /\ UNCHANGED <<ruleVars, snap, counters, clientVars, writerVars, historyVars>>

AddNoiseDrops == AddCounts("noise")
AddSeverityLifts == AddCounts("sev")
FlushDrops == FlushTakes("noise") \/ AddNoiseDrops \/ FoldBack("noise")
FlushLifts == FlushTakes("sev") \/ AddSeverityLifts \/ FoldBack("sev")

-----------------------------------------------------------------------------
Begins(c) ==
  \/ ApiUpsertNoise(c) \/ McpUpsertNoise(c) \/ ApiUpsertSeverity(c) \/ McpUpsertSeverity(c)
  \/ ApiDeleteNoise(c) \/ McpDeleteNoise(c) \/ ApiDeleteSeverity(c) \/ McpDeleteSeverity(c)
  \/ ApiSetParse(c) \/ McpSetParse(c)
Works(c) ==
  \/ FindNoise(c) \/ FindSeverity(c) \/ FindProject(c) \/ CountSeverity(c) \/ OpFails(c)
  \/ UpsertNoiseRule(c) \/ UpsertSeverityRule(c) \/ NoiseRuleByID(c) \/ SeverityRuleByID(c)
  \/ DeleteNoiseRule(c) \/ DeleteSeverityRule(c) \/ SetProjectParseBodies(c)
  \/ LoadReads(c) \/ LoadInstalls(c)

Next ==
  \/ \E c \in Clients : Begins(c) \/ Works(c)
  \/ WriterTakes \/ Lift \/ Decide
  \/ FlushDrops \/ FlushLifts

Spec == Init /\ [][Next]_vars

-----------------------------------------------------------------------------
(* Properties *)

\* Engine.Load: between operations the engine decides by the rules that are
\* stored, all three parts of them, unless the Load installed last began
\* before some write, or an operation failed after its own.
SnapshotCurrent ==
  (~stale /\ \A c \in Clients : op[c].pc \in {"idle", "find", "count", "write"})
    => snap = [noise |-> NoiseRules, sev |-> SeverityRules, parse |-> parse]

\* FlushDrops and FlushLifts: no drop and no lift is invisible and none is
\* counted twice, whatever updates, reloads, failed flushes and deletes come
\* between; a rule that took the id of a deleted one is excepted.
CountsExact ==
  \A t \in Tables, i \in Ids :
    (table[t][i] # None /\ <<t, i>> \notin reused)
      => table[t][i].count + pending[t][i] + (IF flushPc = t THEN taken[i] ELSE 0) = decided[t][i]

\* Decide: of the logs in a sample rule's band exactly the first of every n
\* survive it, across reloads, while its n stays what it is.
SampleExact ==
  \A i \in Ids :
    LET r == table["noise"][i]
    IN  (r # None /\ r.what.kind = "sample" /\ r.what.n > 1 /\ <<"noise", i>> \notin changed)
          => kept[i] = (seen[i] + r.what.n - 1) \div r.what.n

\* maxSeverityRulesPerProject: the check is not atomic with the insert, yet a
\* project exceeds the cap by no more than the creates that can race, apart
\* from the rules an update, which checks no cap, moved in, in this run or an
\* earlier one. An id given again is counted as the create it is.
CapHeld ==
  \A p \in Projects :
    Cardinality(SevOf(p) \ moved) <= Cap + Cardinality(Clients) - 1
=============================================================================
