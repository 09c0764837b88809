---------------------------- MODULE RulesProofs -----------------------------
(***************************************************************************)
(* The rules and the engine that decides by them, for any clients, any     *)
(* logs and any parameters.                                                *)
(*                                                                         *)
(* Each of the four properties rests on RulesTypeOK and on one invariant   *)
(* of its own:                                                             *)
(*                                                                         *)
(*   CountsExact      BornInv    whoever holds a rule holds a row that was *)
(*                               in the table, and a row that never was    *)
(*                               has nothing counted against it            *)
(*   SnapshotCurrent  LoadInv    what a Load that missed no write has read *)
(*                               is what is stored, and an outdated        *)
(*                               snapshot has somebody who will replace it *)
(*   SampleExact      SampleInv  while a rule's parameters stay the same,  *)
(*                               everyone who holds the rule agrees on them *)
(*   CapHeld          CapInv     the creates past their check count as     *)
(*                               rules already                             *)
(***************************************************************************)
EXTENDS Rules, FiniteSetTheorems, WellFoundedInduction, TLAPS

-----------------------------------------------------------------------------
(* The type invariant *)

(* What a client is doing: between two operations or in a Load, then the   *)
(* phases of an upsert, of a delete, of the toggle, and the read back.     *)
LoadPhases == {"noise", "sev", "projects", "install"}
Whats == NoiseWhats \cup SevWhats
RestOps == [pc : {"idle"} \cup LoadPhases]
FindUpsertOps == [pc : {"find"}, do : {"upsert"}, tbl : Tables, id : Ids, project : Projects,
                  what : Whats, scope : Scopes, en : Enabling]
WriteUpsertOps == [pc : {"count", "write"}, do : {"upsert"}, tbl : Tables, id : 0..MaxId,
                   project : Projects, what : Whats, enabled : BOOLEAN]
FindDeleteOps == [pc : {"find"}, do : {"delete"}, tbl : Tables, id : Ids, scope : Scopes]
WriteDeleteOps == [pc : {"write"}, do : {"delete"}, tbl : Tables, id : Ids]
ParseOps == [pc : {"find", "write"}, do : {"parse"}, project : Projects, on : BOOLEAN]
BackOps == [pc : {"back"}, tbl : Tables, id : Ids]
UpsertOps == FindUpsertOps \cup WriteUpsertOps
Ops == RestOps \cup UpsertOps \cup FindDeleteOps \cup WriteDeleteOps \cup ParseOps \cup BackOps

(* The parameters of an upsert are those of its table. *)
WhatsOf(t) == IF t = "noise" THEN NoiseWhats ELSE SevWhats
TableOf(t) == [Ids -> Rows(WhatsOf(t)) \cup {None}]
OwnWhat(o) == o \in UpsertOps => o.what \in WhatsOf(o.tbl)

(* The writer's copy of the rules is of the table it is about to ask. *)
Writers ==
  [pc : {"idle"}] \cup [pc : {"lift"}, log : Logs, level : Nat, rules : SevTable]
  \cup [pc : {"decide"}, log : Logs, level : Nat, rules : NoiseTable]

(* A Load has read what its phase says. *)
Toggles == [Projects -> BOOLEAN]
ReadBy(c) ==
  /\ op[c].pc \in {"sev", "projects", "install"} => got[c].noise \in NoiseTable
  /\ op[c].pc \in {"projects", "install"} => got[c].sev \in SevTable
  /\ op[c].pc = "install" => got[c].parse \in Toggles

Counts == [Ids -> Nat]

Reads == [noise : NoiseTable \cup {None}, sev : SevTable \cup {None}, parse : Toggles \cup {None}]
RuleTypes ==
  /\ table \in [Tables -> NoiseTable \cup SevTable] /\ \A t \in Tables : table[t] \in TableOf(t)
  /\ parse \in Toggles
EngineTypes ==
  /\ snap \in [noise : NoiseTable, sev : SevTable, parse : Toggles]
  /\ counters \in Counts /\ pending \in [Tables -> Counts]
  /\ flushPc \in {"idle"} \cup Tables /\ taken \in Counts
ClientTypes ==
  /\ op \in [Clients -> Ops] /\ \A c \in Clients : OwnWhat(op[c])
  /\ got \in [Clients -> Reads] /\ \A c \in Clients : ReadBy(c)
  /\ missed \subseteq Clients
TallyTypes ==
  /\ decided \in [Tables -> Counts] /\ seen \in Counts /\ kept \in Counts
  /\ stale \in BOOLEAN
RulesTypeOK == RuleTypes /\ EngineTypes /\ ClientTypes /\ writer \in Writers /\ TallyTypes

-----------------------------------------------------------------------------
(* The inductive invariants *)

(* CountsExact: who holds a row of a table. *)
Holds(t, rows) == \A i \in Ids : rows[i] # None => <<t, i>> \in born
BornInv ==
  /\ \A t \in Tables : Holds(t, table[t])
  /\ Holds("noise", snap.noise) /\ Holds("sev", snap.sev)
  /\ \A c \in Clients :
       /\ op[c].pc \in {"sev", "projects", "install"} => Holds("noise", got[c].noise)
       /\ op[c].pc \in {"projects", "install"} => Holds("sev", got[c].sev)
  /\ writer.pc = "lift" => Holds("sev", writer.rules)
  /\ writer.pc = "decide" => Holds("noise", writer.rules)
  /\ \A t \in Tables, i \in Ids : <<t, i>> \notin born =>
       pending[t][i] = 0 /\ (flushPc = t => taken[i] = 0) /\ decided[t][i] = 0
  /\ \A i \in Ids : <<"noise", i>> \notin born => seen[i] = 0 /\ kept[i] = 0

(* SnapshotCurrent: a Load that missed no write, and who will bring the     *)
(* snapshot up to date.                                                    *)
Current == [noise |-> NoiseRules, sev |-> SeverityRules, parse |-> parse]
ReadCurrent(c) ==
  /\ op[c].pc \in {"sev", "projects", "install"} => got[c].noise = NoiseRules
  /\ op[c].pc \in {"projects", "install"} => got[c].sev = SeverityRules
  /\ op[c].pc = "install" => got[c].parse = parse
WillLoad(c) ==
  \/ op[c].pc \in LoadPhases /\ c \notin missed
  \/ op[c].pc = "back" /\ table[op[c].tbl][op[c].id] # None
LoadInv ==
  /\ missed \subseteq Loading
  /\ \A c \in Clients \ missed : ReadCurrent(c)
  /\ stale \/ snap = Current \/ \E c \in Clients : WillLoad(c)

(* SampleExact: the one value w of a rule's parameters, and its survivors. *)
Says(row, w) == row # None => row.what = w
AllSay(i, w) ==
  /\ Says(table["noise"][i], w) /\ Says(snap.noise[i], w)
  /\ \A c \in Clients : op[c].pc \in {"sev", "projects", "install"} => Says(got[c].noise[i], w)
  /\ writer.pc = "decide" => Says(writer.rules[i], w)
Survivors(i, w) ==
  (w.kind = "sample" /\ w.n > 1) => kept[i] = (seen[i] + w.n - 1) \div w.n
SampleInv ==
  /\ counters = seen
  /\ \A i \in Ids : <<"noise", i>> \notin changed => \E w \in NoiseWhats : AllSay(i, w) /\ Survivors(i, w)

(* CapHeld: the creates that have passed the check count as rules. *)
Creating(p) ==
  {c \in Clients : /\ op[c].pc = "write" /\ op[c].do = "upsert" /\ op[c].tbl = "sev"
                   /\ op[c].id = 0 /\ op[c].project = p}
CapInv ==
  \A p \in Projects :
    Cardinality(SevOf(p) \ moved) + Cardinality(Creating(p)) <= Cap + Cardinality(Clients) - 1

-----------------------------------------------------------------------------
(* Ids and tables *)

\* The ids are finitely many numbers above 0.
LEMMA IdsAre == IsFiniteSet(Ids) /\ Ids \subseteq Nat \ {0} /\ 0 \notin Ids
  <1>1. MaxId \in Nat BY RulesAssumption
  <1>2. IsFiniteSet(Ids) BY <1>1, FS_Interval DEF Ids
  <1>3. QED BY <1>1, <1>2 DEF Ids

\* Of some ids one is the least: Min.
LEMMA MinOfIds ==
  ASSUME NEW S \in SUBSET Ids, S # {} PROVE Min(S) \in S /\ \A y \in S : Min(S) <= y
  <1>1. S \subseteq Nat /\ S # {} BY IdsAre
  <1>2. PICK x \in S : \A y \in S : ~(<<y, x>> \in OpToRel(<, Nat))
    BY <1>1, NatLessThanWellFounded, WFMin
  <1>3. ASSUME NEW y \in S PROVE x <= y
    <2>1. ~(y < x) BY <1>1, <1>2 DEF OpToRel
    <2>2. QED BY <2>1, <1>1
  <1>4. QED BY <1>3 DEF Min

\* And one is the greatest: Max.
LEMMA MaxOfIds ==
  ASSUME NEW S \in SUBSET Ids, S # {} PROVE Max(S) \in S /\ \A y \in S : y <= Max(S)
  <1> DEFINE T == {MaxId - x : x \in S}
  <1>1. MaxId \in Nat /\ \A x \in S : x \in Nat /\ MaxId - x \in Nat BY RulesAssumption DEF Ids
  <1>2. T \subseteq Nat /\ T # {} BY <1>1
  <1>3. PICK d \in T : \A y \in T : ~(<<y, d>> \in OpToRel(<, Nat))
    BY <1>2, NatLessThanWellFounded, WFMin
  <1>4. PICK x \in S : d = MaxId - x OBVIOUS
  <1>5. ASSUME NEW y \in S PROVE x >= y
    <2>1. MaxId - y \in T OBVIOUS
    <2>2. ~(MaxId - y < d) BY <2>1, <1>1, <1>2, <1>3 DEF OpToRel
    <2>3. QED BY <2>2, <1>1, <1>4
  <1>6. /\ Max(S) \in S /\ \A y \in S : Max(S) >= y BY <1>5 DEF Max
  <1>7. QED BY <1>6, <1>1

\* The id a new rule gets is free.
LEMMA NextIdFree ==
  ASSUME NEW t \in Tables, NextId(t) \in Ids PROVE table[t][NextId(t)] = None
  <1> DEFINE S == Present(table[t])
  <1>1. S \in SUBSET Ids BY DEF Present
  <1>2. CASE S = {} BY <1>2 DEF NextId, Present
  <1>3. CASE S # {}
    <2>1. NextId(t) = Max(S) + 1 BY <1>3 DEF NextId
    <2>2. Max(S) \in Nat /\ \A y \in S : y <= Max(S) BY <1>1, <1>3, MaxOfIds, IdsAre
    <2>3. NextId(t) \notin S BY <2>1, <2>2
    <2>4. QED BY <2>3 DEF Present
  <1>4. QED BY <1>2, <1>3

\* A row of a table is None or has the fields of its table.
LEMMA RowOf ==
  ASSUME RuleTypes, NEW t \in Tables, NEW i \in Ids
  PROVE  table[t][i] = None \/ table[t][i] \in Rows(WhatsOf(t))
  BY DEF RuleTypes, TableOf

\* None is no row.
LEMMA NoneIsNoRow == ASSUME NEW t \in Tables PROVE None \notin Rows(WhatsOf(t))
  BY RulesAssumption DEF Tables, WhatsOf

\* A table whose rows are read without their counts is still a table.
LEMMA PlainTables == ASSUME RuleTypes PROVE NoiseRules \in NoiseTable /\ SeverityRules \in SevTable
  <1>1. ASSUME NEW i \in Ids PROVE Plain(table["noise"][i]) \in Rows(NoiseWhats) \cup {None}
    BY RowOf DEF Plain, Rows, Tables, WhatsOf
  <1>2. ASSUME NEW i \in Ids PROVE Plain(table["sev"][i]) \in Rows(SevWhats) \cup {None}
    BY RowOf DEF Plain, Rows, Tables, WhatsOf
  <1>3. QED BY <1>1, <1>2 DEF NoiseRules, SeverityRules, NoiseTable, SevTable

-----------------------------------------------------------------------------
(* What a client is doing *)

\* Its phase says which fields its operation has.
LEMMA OpShape ==
  ASSUME ClientTypes, NEW c \in Clients
  PROVE  /\ At(c, "find") /\ op[c].do = "upsert" => op[c] \in FindUpsertOps
         /\ At(c, "find") /\ op[c].do = "delete" => op[c] \in FindDeleteOps
         /\ At(c, "find") /\ op[c].do \notin {"delete", "parse"} => op[c] \in FindUpsertOps
         /\ op[c].pc \in {"find", "write"} /\ op[c].do = "parse" => op[c] \in ParseOps
         /\ At(c, "count") => op[c] \in WriteUpsertOps
         /\ At(c, "write") /\ op[c].do = "upsert" => op[c] \in WriteUpsertOps
         /\ At(c, "write") /\ op[c].do = "delete" => op[c] \in WriteDeleteOps
         /\ At(c, "back") => op[c] \in BackOps
         /\ op[c].pc \in LoadPhases => op[c] \in RestOps
  <1>1. op[c] \in Ops BY DEF ClientTypes
  <1>2. CASE op[c] \in RestOps BY <1>2 DEF RestOps, LoadPhases, At
  <1>3. CASE op[c] \in FindUpsertOps BY <1>3 DEF FindUpsertOps, LoadPhases, At
  <1>4. CASE op[c] \in WriteUpsertOps BY <1>4 DEF WriteUpsertOps, LoadPhases, At
  <1>5. CASE op[c] \in FindDeleteOps BY <1>5 DEF FindDeleteOps, LoadPhases, At
  <1>6. CASE op[c] \in WriteDeleteOps BY <1>6 DEF WriteDeleteOps, LoadPhases, At
  <1>7. CASE op[c] \in ParseOps BY <1>7 DEF ParseOps, LoadPhases, At
  <1>8. CASE op[c] \in BackOps BY <1>8 DEF BackOps, LoadPhases, At
  <1>9. QED BY <1>1, <1>2, <1>3, <1>4, <1>5, <1>6, <1>7, <1>8 DEF Ops, UpsertOps

\* One client goes on, to an operation of its type.
LEMMA OpStep ==
  ASSUME ClientTypes, NEW c \in Clients, NEW o \in Ops, OwnWhat(o), op' = [op EXCEPT ![c] = o],
         NEW g \in Reads, got' = [got EXCEPT ![c] = g],
         o.pc \in {"sev", "projects", "install"} => g.noise \in NoiseTable,
         o.pc \in {"projects", "install"} => g.sev \in SevTable,
         o.pc = "install" => g.parse \in Toggles,
         missed' \subseteq Clients
  PROVE  ClientTypes'
  <1>1. op'[c] = o /\ got'[c] = g BY DEF ClientTypes
  <1>2. \A d \in Clients : d # c => op'[d] = op[d] /\ got'[d] = got[d] BY DEF ClientTypes
  <1>3. \A d \in Clients : ReadBy(d)' BY <1>1, <1>2 DEF ClientTypes, ReadBy
  <1>4. \A d \in Clients : OwnWhat(op[d])' BY <1>1, <1>2 DEF ClientTypes, OwnWhat
  <1>5. op' \in [Clients -> Ops] /\ got' \in [Clients -> Reads] BY DEF ClientTypes
  <1>6. QED BY <1>3, <1>4, <1>5 DEF ClientTypes

\* It goes on without having read anything more.
LEMMA OpStepPlain ==
  ASSUME ClientTypes, NEW c \in Clients, NEW o \in Ops, OwnWhat(o), op' = [op EXCEPT ![c] = o],
         UNCHANGED got, o.pc \notin {"sev", "projects", "install"}, missed' \subseteq Clients
  PROVE  ClientTypes'
  <1>1. got[c] \in Reads BY DEF ClientTypes
  <1>2. got' = [got EXCEPT ![c] = got[c]] BY DEF ClientTypes
  <1>3. QED BY <1>1, <1>2, OpStep

\* An operation ends.
LEMMA OpEnds == ASSUME ClientTypes, NEW c \in Clients, Ends(c) PROVE ClientTypes'
  <1>1. Idle \in Ops /\ OwnWhat(Idle) /\ Idle.pc = "idle"
    BY DEF Idle, Ops, RestOps, UpsertOps, OwnWhat, FindUpsertOps, WriteUpsertOps
  <1>2. NothingRead \in Reads BY DEF NothingRead, Reads
  <1>3. missed' \subseteq Clients BY DEF ClientTypes, Ends
  <1>4. QED BY <1>1, <1>2, <1>3, OpStep DEF Ends

\* A Load begins.
LEMMA OpLoads ==
  ASSUME ClientTypes, NEW c \in Clients, Loads(c), UNCHANGED got, missed' \subseteq Clients
  PROVE  ClientTypes'
  <1> DEFINE o == [pc |-> "noise"]
  <1>1. o \in Ops /\ o.pc = "noise" BY DEF Ops, RestOps, LoadPhases
  <1>2. OwnWhat(o) BY DEF OwnWhat, UpsertOps, FindUpsertOps, WriteUpsertOps
  <1>3. QED BY <1>1, <1>2, OpStepPlain DEF Loads
-----------------------------------------------------------------------------
(* The steps that only move one client on *)

(* Such a step leaves the tables, the engine and the writer alone. It ends *)
(* the operation, or takes it to a phase that needs nothing of a Load.     *)
Moves(c, o) ==
  /\ o \in Ops /\ OwnWhat(o) /\ op' = [op EXCEPT ![c] = o]
  /\ \/ o.pc \in {"find", "count", "write", "noise"} /\ UNCHANGED <<got, missed>>
     \/ o.pc = "idle" /\ Ends(c)
  /\ UNCHANGED <<ruleVars, engineVars, writer, tallyVars, birthVars>>

\* What an upsert begins with is of its table.
LEMMA UpsertBegins ==
  ASSUME NEW t \in Tables, NEW id \in 0..MaxId, NEW scope \in Scopes, NEW project \in Projects,
         NEW what \in WhatsOf(t), NEW en \in Enabling
  PROVE  LET o == Upsert(t, id, scope, project, what, en)
         IN  /\ o \in Ops /\ OwnWhat(o) /\ o.pc \in {"find", "count", "write"}
             /\ o.pc = "write" => o.tbl = "noise"
  <1> DEFINE o == Upsert(t, id, scope, project, what, en)
  <1>1. what \in Whats BY DEF WhatsOf, Whats
  <1>2. CASE id = 0
    <2>1. o = CreateRule(t, project, what, en) BY <1>2 DEF Upsert
    <2>2. o \in WriteUpsertOps /\ o.what = what /\ o.tbl = t /\ (o.pc = "write" => t = "noise")
      BY <2>1, <1>1, <1>2 DEF CreateRule, WriteUpsertOps, Tables
    <2>3. QED BY <2>2 DEF Ops, UpsertOps, OwnWhat, WriteUpsertOps
  <1>3. CASE id # 0
    <2>1. o = UpdateRule(t, id, scope, project, what, en) BY <1>3 DEF Upsert
    <2>2. id \in Ids BY <1>3, RulesAssumption DEF Ids
    <2>3. o \in FindUpsertOps /\ o.what = what /\ o.tbl = t
      BY <2>1, <2>2, <1>1 DEF UpdateRule, FindUpsertOps
    <2>4. QED BY <2>3 DEF Ops, UpsertOps, OwnWhat, FindUpsertOps
  <1>4. QED BY <1>2, <1>3

\* And a delete.
LEMMA DeleteBegins ==
  ASSUME NEW t \in Tables, NEW id \in Ids, NEW scope \in Scopes
  PROVE  LET o == Delete(t, id, scope)
         IN  /\ o \in Ops /\ OwnWhat(o) /\ o.pc \in {"find", "write"} /\ o.do = "delete"
  <1>1. Delete(t, id, scope) \in FindDeleteOps \cup WriteDeleteOps
    BY DEF Delete, DeleteRule, FindDeleteOps, WriteDeleteOps
  <1>2. QED BY <1>1 DEF Ops, UpsertOps, OwnWhat, FindDeleteOps, WriteDeleteOps, FindUpsertOps,
                        WriteUpsertOps

\* And the toggle.
LEMMA ToggleBegins ==
  ASSUME NEW project \in Projects, NEW on \in BOOLEAN
  PROVE  LET o == SetParse(project, on)
         IN  /\ o \in Ops /\ OwnWhat(o) /\ o.pc = "find" /\ o.do = "parse"
  <1>1. SetParse(project, on) \in ParseOps BY DEF SetParse, ParseOps
  <1>2. QED BY <1>1 DEF SetParse, Ops, UpsertOps, OwnWhat, ParseOps, FindUpsertOps, WriteUpsertOps

\* A caller acts on a project, its own or the one it names.
LEMMA OwnIsProject ==
  ASSUME NEW scope \in Scopes, NEW named, named \in Projects \/ scope # Admin
  PROVE  Own(scope, named) \in Projects
  BY DEF Own, Scopes

\* An operation begins in a phase of its own, and no new severity rule is
\* written before it was counted.
LEMMA BeginMoves ==
  ASSUME ClientTypes, NEW c \in Clients, Begins(c)
  PROVE  /\ At(c, "idle") /\ UNCHANGED <<got, missed, stale>>
         /\ \E o : /\ Moves(c, o) /\ o.pc \in {"find", "count", "write"}
                   /\ o.pc = "write" /\ o.do # "delete" => o.tbl = "noise"
  <1> DEFINE Good(o) == /\ o \in Ops /\ OwnWhat(o) /\ o.pc \in {"find", "count", "write"}
                        /\ o.pc = "write" /\ o.do # "delete" => o.tbl = "noise"
  <1>0. NoiseParams \subseteq WhatsOf("noise") /\ SevParams \subseteq WhatsOf("sev")
        /\ "noise" \in Tables /\ "sev" \in Tables
    BY RulesAssumption DEF WhatsOf, Tables
  <1>1. SUFFICES \E o : Good(o) /\ Begin(c, o)
    BY DEF Begin, Moves, At, historyVars, tallyVars, birthVars, engineVars, ruleVars, writerVars
  <1>2. ASSUME ApiUpsertNoise(c) \/ McpUpsertNoise(c) PROVE \E o : Good(o) /\ Begin(c, o)
    <2>1. PICK scope \in Scopes, named \in Projects \cup {None}, id \in 0..MaxId, p \in NoiseParams,
                en \in Enabling :
            (scope = Admin => named \in Projects) /\ Begin(c, Upsert("noise", id, scope, Own(scope, named), p, en))
      BY <1>2 DEF ApiUpsertNoise, McpUpsertNoise
    <2>2. QED BY <2>1, <1>0, OwnIsProject, UpsertBegins
  <1>3. ASSUME ApiUpsertSeverity(c) \/ McpUpsertSeverity(c) PROVE \E o : Good(o) /\ Begin(c, o)
    <2>1. PICK scope \in Scopes, named \in Projects \cup {None}, id \in 0..MaxId, p \in SevParams,
                en \in Enabling :
            (scope = Admin => named \in Projects) /\ Begin(c, Upsert("sev", id, scope, Own(scope, named), p, en))
      BY <1>3 DEF ApiUpsertSeverity, McpUpsertSeverity
    <2>2. QED BY <2>1, <1>0, OwnIsProject, UpsertBegins
  <1>4. ASSUME ApiDeleteNoise(c) \/ McpDeleteNoise(c) \/ ApiDeleteSeverity(c) \/ McpDeleteSeverity(c)
        PROVE \E o : Good(o) /\ Begin(c, o)
    <2>1. PICK t \in Tables, scope \in Scopes, id \in Ids : Begin(c, Delete(t, id, scope))
      BY <1>4, <1>0 DEF ApiDeleteNoise, McpDeleteNoise, ApiDeleteSeverity, McpDeleteSeverity
    <2>2. QED BY <2>1, DeleteBegins
  <1>5. ASSUME ApiSetParse(c) \/ McpSetParse(c) PROVE \E o : Good(o) /\ Begin(c, o)
    <2>1. PICK scope \in Scopes, named \in Projects, on \in BOOLEAN : Begin(c, SetParse(Own(scope, named), on))
      BY <1>5 DEF ApiSetParse, McpSetParse
    <2>2. QED BY <2>1, OwnIsProject, ToggleBegins
  <1>6. QED BY <1>2, <1>3, <1>4, <1>5 DEF Begins

\* An operation that ends.
LEMMA EndMoves ==
  ASSUME ClientTypes, NEW c \in Clients, Ends(c),
         UNCHANGED <<ruleVars, engineVars, writer, tallyVars, birthVars>>
  PROVE  Moves(c, Idle)
  <1>1. Idle \in Ops /\ OwnWhat(Idle) /\ Idle.pc = "idle"
    BY DEF Idle, Ops, RestOps, UpsertOps, OwnWhat, FindUpsertOps, WriteUpsertOps
  <1>2. QED BY <1>1 DEF Moves, Ends

\* A Load that begins.
LEMMA LoadMoves ==
  ASSUME ClientTypes, NEW c \in Clients, Loads(c),
         UNCHANGED <<got, missed, ruleVars, engineVars, writer, tallyVars, birthVars>>
  PROVE  Moves(c, [pc |-> "noise"])
  <1> DEFINE o == [pc |-> "noise"]
  <1>1. o \in Ops /\ o.pc = "noise" BY DEF Ops, RestOps, LoadPhases
  <1>2. OwnWhat(o) BY DEF OwnWhat, UpsertOps, FindUpsertOps, WriteUpsertOps
  <1>3. QED BY <1>1, <1>2 DEF Moves, Loads

\* The row is found, and the write is of an id; or the operation ends.
LEMMA FindMoves ==
  ASSUME RuleTypes, ClientTypes, NEW c \in Clients, NEW t \in Tables, FindRow(c, t)
  PROVE  /\ At(c, "find") /\ UNCHANGED stale
         /\ \E o : /\ Moves(c, o) /\ o.pc \in {"idle", "write"}
                   /\ o.pc = "write" => o.id # 0 /\ UNCHANGED missed
  <1>1. At(c, "find") /\ op[c].do # "parse" /\ op[c].tbl = t
        /\ UNCHANGED <<ruleVars, engineVars, writer, tallyVars, birthVars, stale>>
    BY DEF FindRow, writerVars
  <1>2. CASE Ends(c)
    <2>1. Moves(c, Idle) BY <1>1, <1>2, EndMoves
    <2>2. QED BY <1>1, <2>1 DEF Idle
  <1>3. CASE ~Ends(c)
    <2>1. PICK ok \in BOOLEAN :
            LET o == op[c]
                row == table[t][o.id]
                enabled == IF o.en # "omit" THEN o.en = "on"
                           ELSE IF Finds(c, t, ok) THEN row.enabled ELSE TRUE
            IN  /\ op' = [op EXCEPT ![c] =
                    IF o.do = "delete" THEN DeleteRule(t, o.id)
                    ELSE [pc |-> "write", do |-> "upsert", tbl |-> t, id |-> o.id,
                          project |-> o.project, what |-> o.what, enabled |-> enabled]]
                /\ UNCHANGED <<got, missed>>
      BY <1>3 DEF FindRow
    <2>2. CASE op[c].do = "delete"
      <3>1. op[c] \in FindDeleteOps BY <1>1, <2>2, OpShape
      <3>2. op[c].id \in Ids /\ op[c].id # 0 BY <3>1, IdsAre DEF FindDeleteOps
      <3>3. DeleteRule(t, op[c].id) \in WriteDeleteOps BY <3>2 DEF DeleteRule, WriteDeleteOps
      <3>4. Moves(c, DeleteRule(t, op[c].id))
        BY <1>1, <2>1, <2>2, <3>3 DEF Moves, WriteDeleteOps, Ops, OwnWhat, UpsertOps, FindUpsertOps,
                                      WriteUpsertOps
      <3>5. QED BY <1>1, <2>1, <3>2, <3>4 DEF DeleteRule
    <2>3. CASE op[c].do # "delete"
      <3>1. op[c] \in FindUpsertOps BY <1>1, <2>3, OpShape
      <3>2. op[c].id \in Ids /\ op[c].id # 0 /\ op[c].id \in 0..MaxId
        BY <3>1, IdsAre, RulesAssumption DEF FindUpsertOps, Ids
      <3>3. \A b \in BOOLEAN : Finds(c, t, b) => table[t][op[c].id].enabled \in BOOLEAN
        <4>1. table[t][op[c].id] # None => table[t][op[c].id] \in Rows(WhatsOf(t)) BY <3>2, RowOf
        <4>2. QED BY <4>1 DEF Finds, Rows
      <3>4. PICK enabled \in BOOLEAN :
              op' = [op EXCEPT ![c] =
                      [pc |-> "write", do |-> "upsert", tbl |-> t, id |-> op[c].id,
                       project |-> op[c].project, what |-> op[c].what, enabled |-> enabled]]
        BY <2>1, <2>3, <3>3
      <3> DEFINE o == [pc |-> "write", do |-> "upsert", tbl |-> t, id |-> op[c].id,
                       project |-> op[c].project, what |-> op[c].what, enabled |-> enabled]
      <3>5. op[c].what \in WhatsOf(t)
        BY <1>1, <3>1 DEF ClientTypes, OwnWhat, UpsertOps, FindUpsertOps
      <3>6. o \in WriteUpsertOps /\ OwnWhat(o) BY <3>1, <3>2, <3>5 DEF FindUpsertOps, WriteUpsertOps, OwnWhat
      <3>7. Moves(c, o) BY <1>1, <2>1, <3>4, <3>6 DEF Moves, Ops, UpsertOps
      <3>8. QED BY <1>1, <2>1, <3>2, <3>7
    <2>4. QED BY <2>2, <2>3
  <1>4. QED BY <1>2, <1>3

\* The toggle's project exists.
LEMMA FindProjectMoves ==
  ASSUME ClientTypes, NEW c \in Clients, FindProject(c)
  PROVE  /\ At(c, "find") /\ UNCHANGED <<stale, missed>>
         /\ \E o : Moves(c, o) /\ o.pc = "write" /\ o.do = "parse"
  <1>1. op[c] \in ParseOps BY OpShape DEF FindProject, At
  <1> DEFINE o == [op[c] EXCEPT !.pc = "write"]
  <1>2. o \in ParseOps /\ o.pc = "write" /\ o.do = "parse" BY <1>1 DEF ParseOps, FindProject
  <1>3. op' = [op EXCEPT ![c] = o] BY DEF FindProject, Goto
  <1>4. o \in Ops /\ OwnWhat(o)
    BY <1>2 DEF Ops, UpsertOps, OwnWhat, ParseOps, FindUpsertOps, WriteUpsertOps
  <1>5. Moves(c, o) BY <1>2, <1>3, <1>4 DEF Moves, FindProject, historyVars, writerVars
  <1>6. QED BY <1>2, <1>5 DEF FindProject, historyVars

\* A new severity rule is counted, and goes on or ends.
LEMMA CountMoves ==
  ASSUME ClientTypes, NEW c \in Clients, CountSeverity(c)
  PROVE  /\ At(c, "count") /\ UNCHANGED stale
         /\ \E o : /\ Moves(c, o) /\ o.pc \in {"idle", "write"} /\ (o.pc = "write" => UNCHANGED missed)
                   /\ o.pc = "write" => o.project = op[c].project /\ Cardinality(SevOf(op[c].project)) < Cap
  <1>1. op[c] \in WriteUpsertOps BY OpShape DEF CountSeverity
  <1>2. UNCHANGED <<ruleVars, engineVars, writer, tallyVars, birthVars, stale>>
    BY DEF CountSeverity, writerVars
  <1>3. CASE Ends(c)
    <2>1. Moves(c, Idle) BY <1>2, <1>3, EndMoves
    <2>2. QED BY <1>2, <2>1 DEF Idle, CountSeverity
  <1>4. CASE ~Ends(c)
    <2>1. Goto(c, "write") /\ UNCHANGED <<got, missed>> /\ Cardinality(SevOf(op[c].project)) < Cap
      BY <1>4 DEF CountSeverity
    <2> DEFINE o == [op[c] EXCEPT !.pc = "write"]
    <2>2. o \in WriteUpsertOps /\ o.pc = "write" /\ o.project = op[c].project
          /\ o.what = op[c].what /\ o.tbl = op[c].tbl
      BY <1>1 DEF WriteUpsertOps
    <2>3. OwnWhat(o) BY <1>1, <2>2 DEF ClientTypes, OwnWhat, UpsertOps
    <2>4. op' = [op EXCEPT ![c] = o] BY <2>1 DEF Goto
    <2>5. Moves(c, o) BY <1>2, <2>1, <2>2, <2>3, <2>4 DEF Moves, Ops, UpsertOps
    <2>6. QED BY <2>1, <2>2, <2>5 DEF CountSeverity
  <1>5. QED BY <1>3, <1>4

\* An operation fails.
LEMMA FailMoves ==
  ASSUME ClientTypes, NEW c \in Clients, OpFails(c)
  PROVE  Moves(c, Idle) /\ stale' = (stale \/ op[c].pc \in {"back", "noise", "sev", "projects"})
  BY EndMoves DEF OpFails, writerVars

\* The row written is read back, or is not there any more.
LEMMA BackMoves ==
  ASSUME ClientTypes, NEW c \in Clients, NEW t \in Tables, ReadsBack(c, t)
  PROVE  /\ At(c, "back") /\ UNCHANGED stale
         /\ \E o : /\ Moves(c, o) /\ ((o.pc = "noise" /\ UNCHANGED missed) \/ o.pc = "idle")
                   /\ o.pc = "idle" => table[op[c].tbl][op[c].id] = None
  <1>1. CASE table[t][op[c].id] = None
    <2>1. Moves(c, Idle) /\ UNCHANGED stale BY <1>1, EndMoves DEF ReadsBack, NotFound, writerVars
    <2>2. QED BY <1>1, <2>1 DEF Idle, ReadsBack
  <1>2. CASE table[t][op[c].id] # None
    <2>1. Moves(c, [pc |-> "noise"]) /\ UNCHANGED <<stale, missed>>
      BY <1>2, LoadMoves DEF ReadsBack, historyVars, writerVars
    <2>2. QED BY <2>1 DEF ReadsBack
  <1>3. QED BY <1>1, <1>2

\* A write that finds no row.
LEMMA NotFoundMoves ==
  ASSUME ClientTypes, NEW c \in Clients, NotFound(c) PROVE Moves(c, Idle) /\ UNCHANGED stale
  BY EndMoves DEF NotFound, writerVars

\* All of them keep the types.
LEMMA MovesKeepTypes ==
  ASSUME RulesTypeOK, NEW c \in Clients, NEW o, Moves(c, o), stale' \in BOOLEAN PROVE RulesTypeOK'
  <1>1. ClientTypes'
    <2>1. CASE Ends(c) BY <2>1, OpEnds DEF RulesTypeOK
    <2>2. CASE o.pc \in {"find", "count", "write", "noise"} /\ UNCHANGED <<got, missed>>
      <3>1. missed' \subseteq Clients BY <2>2 DEF RulesTypeOK, ClientTypes
      <3>2. QED BY <2>2, <3>1, OpStepPlain DEF Moves, RulesTypeOK
    <2>3. QED BY <2>1, <2>2 DEF Moves
  <1>2. UNCHANGED <<ruleVars, engineVars, writer, tallyVars>> BY DEF Moves
  <1>3. RuleTypes' BY <1>2 DEF RulesTypeOK, RuleTypes, ruleVars
  <1>4. EngineTypes' BY <1>2 DEF RulesTypeOK, EngineTypes, engineVars
  <1>5. TallyTypes' BY <1>2 DEF RulesTypeOK, TallyTypes, tallyVars
  <1>6. QED BY <1>1, <1>2, <1>3, <1>4, <1>5 DEF RulesTypeOK

-----------------------------------------------------------------------------
(* The other steps keep the types *)

\* An upsert writes a row with the caller's parameters: a new one with no
\* counts, or one that was there, with its counts. It finds the row it
\* updates, or ends.
UpsertWrites(c, t, i) ==
  LET o == op[c]
      old == table[t][i]
  IN  /\ op[c] \in WriteUpsertOps /\ o.pc = "write" /\ o.tbl = t /\ o.what \in WhatsOf(t)
      /\ i \in Ids /\ (o.id = 0 => old = None) /\ (o.id # 0 => i = o.id /\ old \in Rows(WhatsOf(t)) /\ old # None)
      /\ \E row \in Rows(WhatsOf(t)) :
           /\ row = [project |-> o.project, what |-> o.what, enabled |-> o.enabled,
                     count |-> IF o.id = 0 THEN 0 ELSE old.count]
           /\ row # None /\ table' = [table EXCEPT ![t][i] = row]
      /\ op' = [op EXCEPT ![c] = [pc |-> "back", tbl |-> t, id |-> i]]
      /\ missed' = missed \cup Loading
      /\ born' = born \cup {<<t, i>>}
      /\ reused' = IF o.id = 0 /\ <<t, i>> \in born THEN reused \cup {<<t, i>>} ELSE reused
      /\ changed' = IF (old = None /\ <<t, i>> \in born) \/ (old # None /\ old.what # o.what)
                    THEN changed \cup {<<t, i>>} ELSE changed
      /\ moved' = IF t # "sev" THEN moved
                  ELSE IF o.id = 0 THEN moved \ {i}
                  ELSE IF old.project # o.project THEN moved \cup {i} ELSE moved
      /\ UNCHANGED <<parse, engineVars, got, writer, stale, tallyVars>>

\* That is what an upsert does.
LEMMA UpsertDoes ==
  ASSUME RulesTypeOK, NEW c \in Clients, NEW t \in Tables, Upserts(c, t)
  PROVE  NotFound(c) \/ \E i \in Ids : UpsertWrites(c, t, i)
  <1> DEFINE o == op[c]
             i == IF o.id = 0 THEN NextId(t) ELSE o.id
             old == table[t][i]
  <1>1. o \in WriteUpsertOps /\ o.pc = "write" /\ o.tbl = t /\ o.what \in WhatsOf(t)
    <2>1. o \in WriteUpsertOps BY OpShape DEF RulesTypeOK, Upserts
    <2>2. QED BY <2>1 DEF RulesTypeOK, ClientTypes, OwnWhat, UpsertOps, Upserts, At
  <1>2. i \in Ids
    BY <1>1, RulesAssumption DEF Upserts, WriteUpsertOps, Ids
  <1>3. o.id = 0 => old = None BY <1>2, NextIdFree
  <1>4. old = None \/ old \in Rows(WhatsOf(t)) BY <1>2, RowOf DEF RulesTypeOK
  <1>5. CASE o.id # 0 /\ old = None BY <1>5 DEF Upserts
  <1>6. CASE ~(o.id # 0 /\ old = None)
    <2> DEFINE row == [project |-> o.project, what |-> o.what, enabled |-> o.enabled,
                       count |-> IF o.id = 0 THEN 0 ELSE old.count]
    <2>1. (IF o.id = 0 THEN 0 ELSE old.count) \in Nat BY <1>4, <1>6 DEF Rows
    <2>2. row \in Rows(WhatsOf(t)) BY <1>1, <2>1 DEF WriteUpsertOps, Rows
    <2>3. row # None BY <2>2, NoneIsNoRow
    <2>4. /\ table' = [table EXCEPT ![t][i] = row]
          /\ op' = [op EXCEPT ![c] = [pc |-> "back", tbl |-> t, id |-> i]]
          /\ missed' = missed \cup Loading
          /\ born' = born \cup {<<t, i>>}
          /\ reused' = IF o.id = 0 /\ <<t, i>> \in born THEN reused \cup {<<t, i>>} ELSE reused
          /\ changed' = IF (old = None /\ <<t, i>> \in born) \/ (old # None /\ old.what # o.what)
                        THEN changed \cup {<<t, i>>} ELSE changed
          /\ moved' = IF t # "sev" THEN moved
                      ELSE IF o.id = 0 THEN moved \ {i}
                      ELSE IF old.project # o.project THEN moved \cup {i} ELSE moved
          /\ UNCHANGED <<parse, engineVars, got, writer, stale, tallyVars>>
      BY <1>6 DEF Upserts, writerVars
    <2>5. UpsertWrites(c, t, i)
      <3> HIDE DEF i
      <3>1. o.id # 0 => i = o.id BY DEF i
      <3>2. QED BY <1>1, <1>2, <1>3, <1>4, <1>6, <2>2, <2>3, <2>4, <3>1 DEF UpsertWrites
    <2>6. QED BY <1>2, <2>5
  <1>7. QED BY <1>5, <1>6

(* Only a row of a table changes. *)
Puts(t, i, row) == table' = [table EXCEPT ![t][i] = row] /\ UNCHANGED parse

\* It is filled or emptied, and the others stay.
LEMMA TableStep ==
  ASSUME RuleTypes, NEW t \in Tables, NEW i \in Ids, NEW row \in Rows(WhatsOf(t)) \cup {None},
         Puts(t, i, row)
  PROVE  /\ RuleTypes'
         /\ table'[t][i] = row
         /\ \A u \in Tables, j \in Ids : u # t \/ j # i => table'[u][j] = table[u][j]
  <1>1. /\ DOMAIN table = Tables /\ table[t] \in TableOf(t)
        /\ table'[t] = [table[t] EXCEPT ![i] = row]
        /\ \A u \in Tables : u # t => table'[u] = table[u]
    BY DEF RuleTypes, Puts
  <1>2. table'[t] \in TableOf(t) BY <1>1 DEF TableOf
  <1>3. table'[t][i] = row /\ \A j \in Ids : j # i => table'[t][j] = table[t][j]
    BY <1>1 DEF TableOf
  <1>4. \A u \in Tables : table'[u] \in TableOf(u) /\ TableOf(u) \subseteq NoiseTable \cup SevTable
    <2>1. \A u \in Tables : table'[u] \in TableOf(u) BY <1>1, <1>2 DEF RuleTypes
    <2>2. \A u \in Tables : TableOf(u) \in {NoiseTable, SevTable}
      BY DEF TableOf, WhatsOf, NoiseTable, SevTable
    <2>3. QED BY <2>1, <2>2
  <1>5. table' \in [Tables -> NoiseTable \cup SevTable] BY <1>4 DEF RuleTypes, Puts
  <1>6. QED BY <1>1, <1>3, <1>4, <1>5 DEF RuleTypes, Puts

\* It fills that row.
LEMMA UpsertRow ==
  ASSUME RulesTypeOK, NEW c \in Clients, NEW t \in Tables, NEW i \in Ids, UpsertWrites(c, t, i)
  PROVE  /\ table'[t][i] \in Rows(WhatsOf(t)) /\ table'[t][i] # None
         /\ table'[t][i] = [project |-> op[c].project, what |-> op[c].what, enabled |-> op[c].enabled,
                            count |-> IF op[c].id = 0 THEN 0 ELSE table[t][i].count]
  <1>1. PICK row \in Rows(WhatsOf(t)) :
          /\ row = [project |-> op[c].project, what |-> op[c].what, enabled |-> op[c].enabled,
                    count |-> IF op[c].id = 0 THEN 0 ELSE table[t][i].count]
          /\ row # None /\ table' = [table EXCEPT ![t][i] = row]
    BY DEF UpsertWrites
  <1>2. Puts(t, i, row) BY <1>1 DEF UpsertWrites, Puts
  <1>3. table'[t][i] = row BY <1>2, TableStep DEF RulesTypeOK
  <1>4. QED BY <1>1, <1>3

\* It leaves the others.
LEMMA UpsertOthers ==
  ASSUME RulesTypeOK, NEW c \in Clients, NEW t \in Tables, NEW i \in Ids, UpsertWrites(c, t, i)
  PROVE  \A u \in Tables, j \in Ids : u # t \/ j # i => table'[u][j] = table[u][j]
  <1>1. PICK row \in Rows(WhatsOf(t)) : table' = [table EXCEPT ![t][i] = row] BY DEF UpsertWrites
  <1>2. Puts(t, i, row) BY <1>1 DEF UpsertWrites, Puts
  <1>3. QED BY <1>2, TableStep DEF RulesTypeOK

\* The upsert keeps the types.
LEMMA UpsertKeepsTypes ==
  ASSUME RulesTypeOK, NEW c \in Clients, NEW t \in Tables, NEW i \in Ids, UpsertWrites(c, t, i)
  PROVE  RulesTypeOK'
  <1>1. RuleTypes' BY TableStep DEF RulesTypeOK, UpsertWrites, Puts
  <1>2. ClientTypes'
    <2> DEFINE o == [pc |-> "back", tbl |-> t, id |-> i]
    <2>1. o \in Ops /\ OwnWhat(o)
      BY DEF Ops, BackOps, OwnWhat, UpsertOps, FindUpsertOps, WriteUpsertOps
    <2>2. missed' \subseteq Clients BY DEF RulesTypeOK, ClientTypes, UpsertWrites, Loading
    <2>3. QED BY <2>1, <2>2, OpStepPlain DEF RulesTypeOK, UpsertWrites
  <1>3. EngineTypes' BY DEF RulesTypeOK, UpsertWrites, EngineTypes, engineVars
  <1>4. TallyTypes' /\ writer' \in Writers BY DEF RulesTypeOK, UpsertWrites, TallyTypes, tallyVars
  <1>5. QED BY <1>1, <1>2, <1>3, <1>4 DEF RulesTypeOK

\* A delete removes a row and goes on to the Load, or finds none.
DeleteWrites(c, t, i) ==
  /\ op[c].pc = "write" /\ op[c].do = "delete" /\ i \in Ids
  /\ table' = [table EXCEPT ![t][i] = None]
  /\ Loads(c)
  /\ missed' = missed \cup Loading
  /\ UNCHANGED <<parse, engineVars, got, writer, stale, tallyVars, birthVars>>

\* That is what a delete does.
LEMMA DeleteDoes ==
  ASSUME RulesTypeOK, NEW c \in Clients, NEW t \in Tables, Deletes(c, t)
  PROVE  NotFound(c) \/ \E i \in Ids : DeleteWrites(c, t, i)
  <1>1. op[c] \in WriteDeleteOps BY OpShape DEF RulesTypeOK, Deletes
  <1>2. QED BY <1>1 DEF Deletes, DeleteWrites, WriteDeleteOps, At, writerVars

\* It empties that row and leaves the others.
LEMMA DeleteTable ==
  ASSUME RulesTypeOK, NEW c \in Clients, NEW t \in Tables, NEW i \in Ids, DeleteWrites(c, t, i)
  PROVE  /\ table'[t][i] = None
         /\ \A u \in Tables, j \in Ids : u # t \/ j # i => table'[u][j] = table[u][j]
  <1> DEFINE row == None
  <1>1. row \in Rows(WhatsOf(t)) \cup {None} OBVIOUS
  <1>2. Puts(t, i, row) BY DEF DeleteWrites, Puts
  <1> HIDE DEF row
  <1>3. /\ table'[t][i] = row
        /\ \A u \in Tables, j \in Ids : u # t \/ j # i => table'[u][j] = table[u][j]
    BY <1>1, <1>2, TableStep DEF RulesTypeOK
  <1>4. QED BY <1>3 DEF row

\* The delete keeps the types.
LEMMA DeleteKeepsTypes ==
  ASSUME RulesTypeOK, NEW c \in Clients, NEW t \in Tables, NEW i \in Ids, DeleteWrites(c, t, i)
  PROVE  RulesTypeOK'
  <1>1. RuleTypes' BY TableStep DEF RulesTypeOK, DeleteWrites, Puts
  <1>2. missed' \subseteq Clients BY DEF RulesTypeOK, ClientTypes, DeleteWrites, Loading
  <1>3. ClientTypes' BY <1>2, OpLoads DEF RulesTypeOK, DeleteWrites
  <1>4. EngineTypes' BY DEF RulesTypeOK, DeleteWrites, EngineTypes, engineVars
  <1>5. TallyTypes' /\ writer' \in Writers BY DEF RulesTypeOK, DeleteWrites, TallyTypes, tallyVars
  <1>6. QED BY <1>1, <1>3, <1>4, <1>5 DEF RulesTypeOK

\* The toggle keeps the types.
LEMMA ToggleKeepsTypes ==
  ASSUME RulesTypeOK, NEW c \in Clients, SetProjectParseBodies(c) PROVE RulesTypeOK'
  <1>1. op[c] \in ParseOps BY OpShape DEF RulesTypeOK, SetProjectParseBodies, At
  <1>2. parse' \in Toggles BY <1>1 DEF RulesTypeOK, RuleTypes, SetProjectParseBodies, ParseOps, Toggles
  <1>3. RuleTypes' BY <1>2 DEF RulesTypeOK, RuleTypes, SetProjectParseBodies
  <1>4. missed' \subseteq Clients BY DEF RulesTypeOK, ClientTypes, SetProjectParseBodies, Loading
  <1>5. ClientTypes' BY <1>4, OpLoads DEF RulesTypeOK, SetProjectParseBodies
  <1>6. EngineTypes' BY DEF RulesTypeOK, SetProjectParseBodies, EngineTypes, engineVars
  <1>7. TallyTypes' /\ writer' \in Writers
    BY DEF RulesTypeOK, SetProjectParseBodies, TallyTypes, tallyVars, writerVars
  <1>8. QED BY <1>3, <1>5, <1>6, <1>7 DEF RulesTypeOK

\* A read of a Load: what it reads, and where the Load goes on.
LEMMA ReadDoes ==
  ASSUME RulesTypeOK, NEW c \in Clients, LoadReads(c)
  PROVE  \E g \in Reads, o \in Ops :
           /\ OwnWhat(o) /\ op' = [op EXCEPT ![c] = o] /\ got' = [got EXCEPT ![c] = g]
           /\ \/ At(c, "noise") /\ o.pc = "sev" /\ g = [got[c] EXCEPT !.noise = NoiseRules]
              \/ At(c, "sev") /\ o.pc = "projects" /\ g = [got[c] EXCEPT !.sev = SeverityRules]
              \/ At(c, "projects") /\ o.pc = "install" /\ g = [got[c] EXCEPT !.parse = parse]
           /\ UNCHANGED <<ruleVars, engineVars, writer, historyVars>>
  <1>1. got[c] \in Reads /\ op[c] \in RestOps
    <2>1. op[c].pc \in LoadPhases BY DEF LoadReads, At, LoadPhases
    <2>2. QED BY <2>1, OpShape DEF RulesTypeOK, ClientTypes
  <1>2. NoiseRules \in NoiseTable /\ SeverityRules \in SevTable /\ parse \in Toggles
    BY PlainTables DEF RulesTypeOK, RuleTypes
  <1>3. ASSUME NEW pc \in {"sev", "projects", "install"}
        PROVE  LET o == [op[c] EXCEPT !.pc = pc] IN o \in Ops /\ OwnWhat(o) /\ o.pc = pc
    BY <1>1 DEF RestOps, LoadPhases, Ops, OwnWhat, UpsertOps, FindUpsertOps, WriteUpsertOps
  <1>4. UNCHANGED <<ruleVars, engineVars, writer, historyVars>> BY DEF LoadReads, writerVars
  <1>5. CASE At(c, "noise") /\ got' = [got EXCEPT ![c].noise = NoiseRules] /\ Goto(c, "sev")
    <2> DEFINE g == [got[c] EXCEPT !.noise = NoiseRules]
    <2>1. g \in Reads /\ got' = [got EXCEPT ![c] = g] BY <1>1, <1>2, <1>5 DEF Reads
    <2>2. QED BY <1>3, <1>4, <1>5, <2>1 DEF Goto
  <1>6. CASE At(c, "sev") /\ got' = [got EXCEPT ![c].sev = SeverityRules] /\ Goto(c, "projects")
    <2> DEFINE g == [got[c] EXCEPT !.sev = SeverityRules]
    <2>1. g \in Reads /\ got' = [got EXCEPT ![c] = g] BY <1>1, <1>2, <1>6 DEF Reads
    <2>2. QED BY <1>3, <1>4, <1>6, <2>1 DEF Goto
  <1>7. CASE At(c, "projects") /\ got' = [got EXCEPT ![c].parse = parse] /\ Goto(c, "install")
    <2> DEFINE g == [got[c] EXCEPT !.parse = parse]
    <2>1. g \in Reads /\ got' = [got EXCEPT ![c] = g] BY <1>1, <1>2, <1>7 DEF Reads
    <2>2. QED BY <1>3, <1>4, <1>7, <2>1 DEF Goto
  <1>8. QED BY <1>5, <1>6, <1>7 DEF LoadReads

\* It keeps the types.
LEMMA ReadKeepsTypes == ASSUME RulesTypeOK, NEW c \in Clients, LoadReads(c) PROVE RulesTypeOK'
  <1>1. PICK g \in Reads, o \in Ops :
           /\ OwnWhat(o) /\ op' = [op EXCEPT ![c] = o] /\ got' = [got EXCEPT ![c] = g]
           /\ \/ At(c, "noise") /\ o.pc = "sev" /\ g = [got[c] EXCEPT !.noise = NoiseRules]
              \/ At(c, "sev") /\ o.pc = "projects" /\ g = [got[c] EXCEPT !.sev = SeverityRules]
              \/ At(c, "projects") /\ o.pc = "install" /\ g = [got[c] EXCEPT !.parse = parse]
           /\ UNCHANGED <<ruleVars, engineVars, writer, historyVars>>
    BY ReadDoes
  <1>2. NoiseRules \in NoiseTable /\ SeverityRules \in SevTable /\ parse \in Toggles
    BY PlainTables DEF RulesTypeOK, RuleTypes
  <1>3. got[c] \in Reads /\ ReadBy(c) BY DEF RulesTypeOK, ClientTypes
  <1>4. /\ o.pc \in {"sev", "projects", "install"} => g.noise \in NoiseTable
        /\ o.pc \in {"projects", "install"} => g.sev \in SevTable
        /\ o.pc = "install" => g.parse \in Toggles
    BY <1>1, <1>2, <1>3 DEF ReadBy, Reads, At
  <1>5. missed' \subseteq Clients BY <1>1 DEF historyVars, RulesTypeOK, ClientTypes
  <1>6. ClientTypes' BY <1>1, <1>4, <1>5, OpStep DEF RulesTypeOK
  <1>7. RuleTypes' BY <1>1 DEF RulesTypeOK, RuleTypes, ruleVars
  <1>8. EngineTypes' BY <1>1 DEF RulesTypeOK, EngineTypes, engineVars
  <1>9. TallyTypes' /\ writer' \in Writers BY <1>1 DEF RulesTypeOK, TallyTypes, historyVars, tallyVars
  <1>10. QED BY <1>6, <1>7, <1>8, <1>9 DEF RulesTypeOK

\* A Load that installs has read all three parts.
LEMMA InstallKeepsTypes == ASSUME RulesTypeOK, NEW c \in Clients, LoadInstalls(c) PROVE RulesTypeOK'
  <1>1. got[c] \in [noise : NoiseTable, sev : SevTable, parse : Toggles]
    BY DEF RulesTypeOK, ClientTypes, ReadBy, LoadInstalls, At, Reads
  <1>2. ClientTypes' BY OpEnds DEF RulesTypeOK, LoadInstalls
  <1>3. EngineTypes' BY <1>1 DEF RulesTypeOK, EngineTypes, LoadInstalls
  <1>4. RuleTypes' BY DEF RulesTypeOK, RuleTypes, LoadInstalls, ruleVars
  <1>5. TallyTypes' /\ writer' \in Writers
    BY DEF RulesTypeOK, TallyTypes, LoadInstalls, tallyVars, writerVars
  <1>6. QED BY <1>2, <1>3, <1>4, <1>5 DEF RulesTypeOK

\* The writer takes a log.
LEMMA TakesKeepsTypes == ASSUME RulesTypeOK, WriterTakes PROVE RulesTypeOK'
  <1>1. snap.sev \in SevTable BY DEF RulesTypeOK, EngineTypes
  <1>2. writer' \in Writers BY <1>1, RulesAssumption DEF WriterTakes, Writers
  <1>3. ClientTypes' BY DEF RulesTypeOK, ClientTypes, ReadBy, WriterTakes, clientVars, historyVars
  <1>4. RuleTypes' BY DEF RulesTypeOK, RuleTypes, WriterTakes, ruleVars
  <1>5. EngineTypes' BY DEF RulesTypeOK, EngineTypes, WriterTakes, engineVars
  <1>6. TallyTypes' BY DEF RulesTypeOK, TallyTypes, WriterTakes, historyVars, tallyVars
  <1>7. QED BY <1>2, <1>3, <1>4, <1>5, <1>6 DEF RulesTypeOK

\* It lifts the log by the first rule that matches it, if one does, and
\* takes the noise rules.
LiftCounts(i) ==
  /\ writer.rules[i] # None
  /\ pending' = [pending EXCEPT !["sev"][i] = @ + 1]
  /\ decided' = [decided EXCEPT !["sev"][i] = @ + 1]

\* That is what Lift does.
LEMMA LiftDoes ==
  ASSUME RulesTypeOK, Lift
  PROVE  /\ writer' \in [pc : {"decide"}, log : Logs, level : Nat, rules : NoiseTable]
         /\ writer'.rules = snap.noise
         /\ UNCHANGED <<pending, decided>> \/ \E i \in Ids : LiftCounts(i)
  <1> DEFINE hits == IF writer.level > Info THEN {} ELSE LiftMatches(writer.rules, writer.log)
  <1>1. writer \in [pc : {"lift"}, log : Logs, level : Nat, rules : SevTable]
    BY DEF RulesTypeOK, Writers, Lift
  <1>2. snap.noise \in NoiseTable BY DEF RulesTypeOK, EngineTypes
  <1>3. CASE hits = {}
    <2>1. writer' = [writer EXCEPT !.pc = "decide", !.rules = snap.noise] /\ UNCHANGED <<pending, decided>>
      BY <1>3 DEF Lift
    <2>2. QED BY <1>1, <1>2, <2>1
  <1>4. CASE hits # {}
    <2>1. hits \in SUBSET Ids /\ \A i \in hits : writer.rules[i] # None BY DEF LiftMatches, Present
    <2>2. Min(hits) \in hits BY <1>4, <2>1, MinOfIds
    <2>3. writer.rules[Min(hits)] \in Rows(SevWhats) BY <1>1, <2>1, <2>2 DEF SevTable
    <2>4. writer.rules[Min(hits)].what.to \in Nat BY <2>3 DEF Rows, SevWhats
    <2>5. /\ writer' = [writer EXCEPT !.pc = "decide", !.rules = snap.noise,
                                       !.level = writer.rules[Min(hits)].what.to]
          /\ pending' = [pending EXCEPT !["sev"][Min(hits)] = @ + 1]
          /\ decided' = [decided EXCEPT !["sev"][Min(hits)] = @ + 1]
      BY <1>4 DEF Lift
    <2>6. LiftCounts(Min(hits)) BY <2>1, <2>2, <2>5 DEF LiftCounts
    <2>7. QED BY <1>1, <1>2, <2>1, <2>2, <2>4, <2>5, <2>6
  <1>5. QED BY <1>3, <1>4

\* It keeps the types.
LEMMA LiftKeepsTypes == ASSUME RulesTypeOK, Lift PROVE RulesTypeOK'
  <1>1. writer' \in Writers BY LiftDoes DEF Writers
  <1>2. pending' \in [Tables -> Counts] /\ decided' \in [Tables -> Counts]
    <2>1. CASE UNCHANGED <<pending, decided>> BY <2>1 DEF RulesTypeOK, EngineTypes, TallyTypes
    <2>2. CASE \E i \in Ids : LiftCounts(i)
      <3>1. PICK i \in Ids : LiftCounts(i) BY <2>2
      <3>2. pending \in [Tables -> Counts] /\ decided \in [Tables -> Counts] /\ "sev" \in Tables
        BY DEF RulesTypeOK, EngineTypes, TallyTypes, Tables
      <3>3. QED BY <3>1, <3>2 DEF LiftCounts, Counts
    <2>3. QED BY <2>1, <2>2, LiftDoes
  <1>3. UNCHANGED <<ruleVars, snap, counters, flushPc, taken, clientVars, missed, stale, seen, kept>>
    BY DEF Lift
  <1>4. ClientTypes' BY <1>3 DEF RulesTypeOK, ClientTypes, ReadBy, clientVars
  <1>5. RuleTypes' BY <1>3 DEF RulesTypeOK, RuleTypes, ruleVars
  <1>6. EngineTypes' BY <1>2, <1>3 DEF RulesTypeOK, EngineTypes
  <1>7. TallyTypes' BY <1>2, <1>3 DEF RulesTypeOK, TallyTypes
  <1>8. QED BY <1>1, <1>4, <1>5, <1>6, <1>7 DEF RulesTypeOK

\* It asks the noise rules: asked are those up to the first that drops the
\* log, sampled the sample rules among them, and of these one lets it pass.
Drops(hits) == {i \in hits : ~Survives(i)}
Asked(hits) == {i \in hits : \A j \in Drops(hits) : i <= j}
Sampled(hits) == {i \in Asked(hits) : writer.rules[i].what.kind = "sample"}
DropCounts(i) ==
  /\ writer.rules[i] # None
  /\ pending' = [pending EXCEPT !["noise"][i] = @ + 1]
  /\ decided' = [decided EXCEPT !["noise"][i] = @ + 1]
Plus1(f, S) == [i \in Ids |-> IF i \in S THEN f[i] + 1 ELSE f[i]]
Decides(hits) ==
  /\ hits \subseteq Ids
  /\ \A i \in hits : /\ writer.rules[i] \in Rows(NoiseWhats) /\ writer.rules[i] # None
                     /\ writer.rules[i].what.kind = "sample" => writer.rules[i].what.n > 1
  /\ counters' = Plus1(counters, Sampled(hits))
  /\ seen' = Plus1(seen, Sampled(hits))
  /\ kept' = Plus1(kept, Sampled(hits) \ Drops(hits))
  /\ UNCHANGED <<pending, decided>> \/ \E i \in Ids : DropCounts(i)

\* That is what Decide does.
LEMMA DecideDoes ==
  ASSUME RulesTypeOK, Decide
  PROVE  \E hits : Decides(hits)
  <1> DEFINE hits == NoiseMatches(writer.rules, writer.log, writer.level)
  <1>1. writer \in [pc : {"decide"}, log : Logs, level : Nat, rules : NoiseTable]
    BY DEF RulesTypeOK, Writers, Decide
  <1>2. hits \subseteq Ids /\ \A i \in hits : writer.rules[i] # None
    BY DEF NoiseMatches, Present
  <1>3. ASSUME NEW i \in hits
        PROVE  /\ writer.rules[i] \in Rows(NoiseWhats)
               /\ writer.rules[i].what.kind = "sample" => writer.rules[i].what.n > 1
    <2>1. writer.rules[i] \in Rows(NoiseWhats) BY <1>1, <1>2 DEF NoiseTable
    <2>2. QED BY <2>1 DEF NoiseMatches
  <1>4. /\ counters' = Plus1(counters, Sampled(hits))
        /\ seen' = Plus1(seen, Sampled(hits))
        /\ kept' = Plus1(kept, Sampled(hits) \ Drops(hits))
        /\ IF Drops(hits) = {} THEN UNCHANGED <<pending, decided>>
           ELSE /\ pending' = [pending EXCEPT !["noise"][Min(Drops(hits))] = @ + 1]
                /\ decided' = [decided EXCEPT !["noise"][Min(Drops(hits))] = @ + 1]
    BY DEF Decide, Plus1, Sampled, Asked, Drops
  <1>5. UNCHANGED <<pending, decided>> \/ \E i \in Ids : DropCounts(i)
    <2>1. CASE Drops(hits) = {} BY <1>4, <2>1
    <2>2. CASE Drops(hits) # {}
      <3>1. Drops(hits) \in SUBSET Ids /\ Drops(hits) \subseteq hits BY <1>2 DEF Drops
      <3>2. Min(Drops(hits)) \in Drops(hits) BY <2>2, <3>1, MinOfIds
      <3>3. DropCounts(Min(Drops(hits))) BY <1>2, <1>4, <2>2, <3>1, <3>2 DEF DropCounts
      <3>4. QED BY <3>1, <3>2, <3>3
    <2>3. QED BY <2>1, <2>2
  <1>6. Decides(hits)
    <2> HIDE DEF hits
    <2>1. QED BY <1>2, <1>3, <1>4, <1>5 DEF Decides
  <1>7. QED BY <1>6

\* It keeps the types.
LEMMA DecideKeepsTypes == ASSUME RulesTypeOK, Decide PROVE RulesTypeOK'
  <1>1. PICK hits : Decides(hits) BY DecideDoes
  <1>2. pending' \in [Tables -> Counts] /\ decided' \in [Tables -> Counts]
    <2>1. CASE UNCHANGED <<pending, decided>> BY <2>1 DEF RulesTypeOK, EngineTypes, TallyTypes
    <2>2. CASE \E i \in Ids : DropCounts(i)
      <3>1. PICK i \in Ids : DropCounts(i) BY <2>2
      <3>2. pending \in [Tables -> Counts] /\ decided \in [Tables -> Counts] /\ "noise" \in Tables
        BY DEF RulesTypeOK, EngineTypes, TallyTypes, Tables
      <3>3. QED BY <3>1, <3>2 DEF DropCounts, Counts
    <2>3. QED BY <1>1, <2>1, <2>2 DEF Decides
  <1>3. counters' \in Counts /\ seen' \in Counts /\ kept' \in Counts
    BY <1>1 DEF Decides, Plus1, Counts, RulesTypeOK, EngineTypes, TallyTypes
  <1>4. UNCHANGED <<ruleVars, snap, flushPc, taken, clientVars, missed, stale>> /\ writer' = AtRest
    BY DEF Decide
  <1>5. writer' \in Writers BY <1>4 DEF AtRest, Writers
  <1>6. ClientTypes' BY <1>4 DEF RulesTypeOK, ClientTypes, ReadBy, clientVars
  <1>7. RuleTypes' BY <1>4 DEF RulesTypeOK, RuleTypes, ruleVars
  <1>8. EngineTypes' BY <1>2, <1>3, <1>4 DEF RulesTypeOK, EngineTypes
  <1>9. TallyTypes' BY <1>2, <1>3, <1>4 DEF RulesTypeOK, TallyTypes
  <1>10. QED BY <1>5, <1>6, <1>7, <1>8, <1>9 DEF RulesTypeOK

\* A flush takes the counts.
LEMMA FlushKeepsTypes ==
  ASSUME RulesTypeOK, NEW t \in Tables, FlushTakes(t) \/ FoldBack(t) PROVE RulesTypeOK'
  <1>1. NoCounts \in Counts BY DEF NoCounts, Counts
  <1>2. pending' \in [Tables -> Counts] /\ taken' \in Counts /\ flushPc' \in {"idle"} \cup Tables
    <2>1. CASE FlushTakes(t) BY <1>1, <2>1 DEF FlushTakes, RulesTypeOK, EngineTypes
    <2>2. CASE FoldBack(t)
      <3>1. [i \in Ids |-> pending[t][i] + taken[i]] \in Counts BY DEF RulesTypeOK, EngineTypes, Counts
      <3>2. pending' = [pending EXCEPT ![t] = [i \in Ids |-> pending[t][i] + taken[i]]]
        BY <2>2 DEF FoldBack, RulesTypeOK, EngineTypes
      <3>3. QED BY <1>1, <2>2, <3>1, <3>2 DEF FoldBack, RulesTypeOK, EngineTypes
    <2>3. QED BY <2>1, <2>2
  <1>3. UNCHANGED <<ruleVars, snap, counters, clientVars, writer, historyVars>>
    BY DEF FlushTakes, FoldBack, writerVars
  <1>4. ClientTypes' BY <1>3 DEF RulesTypeOK, ClientTypes, ReadBy, clientVars, historyVars
  <1>5. RuleTypes' BY <1>3 DEF RulesTypeOK, RuleTypes, ruleVars
  <1>6. EngineTypes' BY <1>2, <1>3 DEF RulesTypeOK, EngineTypes
  <1>7. TallyTypes' BY <1>3 DEF RulesTypeOK, TallyTypes, historyVars, tallyVars
  <1>8. QED BY <1>3, <1>4, <1>5, <1>6, <1>7 DEF RulesTypeOK

\* It stores them: a rule that is there keeps all but its count.
LEMMA StoreDoes ==
  ASSUME RulesTypeOK, NEW t \in Tables, AddCounts(t)
  PROVE  /\ RuleTypes'
         /\ \A u \in Tables : u # t => table'[u] = table[u]
         /\ \A i \in Ids : /\ table'[t][i] = None <=> table[t][i] = None
                           /\ table[t][i] # None =>
                                table'[t][i] = [table[t][i] EXCEPT !.count = @ + taken[i]]
  <1> DEFINE rows == [i \in Ids |->
               IF table[t][i] = None THEN None ELSE [table[t][i] EXCEPT !.count = @ + taken[i]]]
  <1>1. table' = [table EXCEPT ![t] = rows] /\ UNCHANGED parse
    BY DEF AddCounts, RulesTypeOK, RuleTypes
  <1>2. \A u \in Tables : u # t => table'[u] = table[u] BY <1>1 DEF RulesTypeOK, RuleTypes
  <1>3. table'[t] = rows BY <1>1 DEF RulesTypeOK, RuleTypes
  <1>4. ASSUME NEW i \in Ids, table[t][i] # None
        PROVE  [table[t][i] EXCEPT !.count = @ + taken[i]] \in Rows(WhatsOf(t))
    <2>1. table[t][i] \in Rows(WhatsOf(t)) /\ taken[i] \in Nat
      BY <1>4, RowOf DEF RulesTypeOK, EngineTypes, Counts
    <2>2. QED BY <2>1 DEF Rows
  <1>5. \A i \in Ids : /\ table'[t][i] = None <=> table[t][i] = None
                       /\ table[t][i] # None =>
                            table'[t][i] = [table[t][i] EXCEPT !.count = @ + taken[i]]
    BY <1>3, <1>4, NoneIsNoRow
  <1>6. rows \in TableOf(t) BY <1>4 DEF TableOf
  <1>7. \A u \in Tables : table'[u] \in TableOf(u) BY <1>2, <1>3, <1>6 DEF RulesTypeOK, RuleTypes
  <1>8. \A u \in Tables : TableOf(u) \in {NoiseTable, SevTable}
    BY DEF TableOf, WhatsOf, NoiseTable, SevTable
  <1>9. RuleTypes' BY <1>1, <1>3, <1>6, <1>7, <1>8 DEF RulesTypeOK, RuleTypes
  <1>10. QED BY <1>2, <1>5, <1>9

\* It keeps the types.
LEMMA StoreKeepsTypes == ASSUME RulesTypeOK, NEW t \in Tables, AddCounts(t) PROVE RulesTypeOK'
  <1>1. NoCounts \in Counts BY DEF NoCounts, Counts
  <1>2. ClientTypes' BY DEF AddCounts, RulesTypeOK, ClientTypes, ReadBy, clientVars, historyVars
  <1>3. EngineTypes' BY <1>1 DEF AddCounts, RulesTypeOK, EngineTypes
  <1>4. TallyTypes' /\ writer' \in Writers
    BY DEF AddCounts, RulesTypeOK, TallyTypes, historyVars, tallyVars, writerVars
  <1>5. QED BY <1>2, <1>3, <1>4, StoreDoes DEF RulesTypeOK

-----------------------------------------------------------------------------
(* Every step is one of these *)

(* What else is true of a step that moves one client on: the snapshot      *)
(* stays marked as outdated, and is marked when who would have replaced it *)
(* gives up; a create that is about to write has passed its check.         *)
MovesOn(c, o) ==
  /\ Moves(c, o)
  /\ stale' \in BOOLEAN /\ (stale => stale')
  /\ o.pc = "noise" => op[c].pc = "back"
  /\ o.pc # "idle" => op[c].pc \in {"idle", "find", "count", "back"}
  /\ WillLoad(c) => stale' \/ o.pc = "noise"
  /\ (o.pc = "write" /\ o.do = "upsert" /\ o.tbl = "sev" /\ o.id = 0)
       => Cardinality(SevOf(o.project)) < Cap /\ o.project = op[c].project

\* The phases of an operation that only move it on.
LEMMA OperationMovesOn ==
  ASSUME RulesTypeOK, NEW c \in Clients,
         \/ Begins(c) \/ FindNoise(c) \/ FindSeverity(c) \/ FindProject(c) \/ CountSeverity(c)
         \/ OpFails(c) \/ NoiseRuleByID(c) \/ SeverityRuleByID(c)
         \/ op[c].pc = "write" /\ NotFound(c)
  PROVE  \E o : MovesOn(c, o)
  <1> USE DEF RulesTypeOK
  <1>0. stale \in BOOLEAN /\ "noise" \in Tables /\ "sev" \in Tables BY DEF TallyTypes, Tables
  <1>1. CASE Begins(c)
    <2>1. PICK o : /\ Moves(c, o) /\ o.pc \in {"find", "count", "write"}
                   /\ o.pc = "write" /\ o.do # "delete" => o.tbl = "noise"
      BY <1>1, BeginMoves
    <2>2. At(c, "idle") /\ UNCHANGED stale BY <1>1, BeginMoves
    <2>3. QED BY <1>0, <2>1, <2>2 DEF MovesOn, At, WillLoad, LoadPhases
  <1>2. CASE FindNoise(c) \/ FindSeverity(c)
    <2>1. PICK t \in Tables : FindRow(c, t) BY <1>0, <1>2 DEF FindNoise, FindSeverity
    <2>2. PICK o : /\ Moves(c, o) /\ o.pc \in {"idle", "write"}
                   /\ o.pc = "write" => o.id # 0 /\ UNCHANGED missed
      BY <2>1, FindMoves
    <2>3. At(c, "find") /\ UNCHANGED stale BY <2>1, FindMoves
    <2>4. QED BY <1>0, <2>2, <2>3 DEF MovesOn, At, WillLoad, LoadPhases
  <1>3. CASE FindProject(c)
    <2>1. PICK o : Moves(c, o) /\ o.pc = "write" /\ o.do = "parse" BY <1>3, FindProjectMoves
    <2>2. At(c, "find") /\ UNCHANGED stale BY <1>3, FindProjectMoves
    <2>3. QED BY <1>0, <2>1, <2>2 DEF MovesOn, At, WillLoad, LoadPhases
  <1>4. CASE CountSeverity(c)
    <2>1. PICK o : /\ Moves(c, o) /\ o.pc \in {"idle", "write"}
                   /\ o.pc = "write" => o.project = op[c].project /\ Cardinality(SevOf(op[c].project)) < Cap
      BY <1>4, CountMoves
    <2>2. At(c, "count") /\ UNCHANGED stale BY <1>4, CountMoves
    <2>3. QED BY <1>0, <2>1, <2>2 DEF MovesOn, At, WillLoad, LoadPhases
  <1>5. CASE OpFails(c)
    <2>1. Moves(c, Idle) /\ stale' = (stale \/ op[c].pc \in {"back", "noise", "sev", "projects"})
      BY <1>5, FailMoves
    <2>2. op[c].pc # "install" BY <1>5 DEF OpFails
    <2>3. WillLoad(c) => stale' BY <2>1, <2>2 DEF WillLoad, LoadPhases
    <2>4. stale' \in BOOLEAN /\ (stale => stale') BY <1>0, <2>1
    <2>5. QED BY <2>1, <2>3, <2>4 DEF MovesOn, Idle
  <1>6. CASE NoiseRuleByID(c) \/ SeverityRuleByID(c)
    <2>1. PICK t \in Tables : ReadsBack(c, t) BY <1>0, <1>6 DEF NoiseRuleByID, SeverityRuleByID
    <2>2. PICK o : /\ Moves(c, o) /\ ((o.pc = "noise" /\ UNCHANGED missed) \/ o.pc = "idle")
                   /\ o.pc = "idle" => table[op[c].tbl][op[c].id] = None
      BY <2>1, BackMoves
    <2>3. At(c, "back") /\ UNCHANGED stale BY <2>1, BackMoves
    <2>4. QED BY <1>0, <2>2, <2>3 DEF MovesOn, At, WillLoad, LoadPhases
  <1>7. CASE op[c].pc = "write" /\ NotFound(c)
    <2>1. Moves(c, Idle) /\ UNCHANGED stale BY <1>7, NotFoundMoves
    <2>2. QED BY <1>0, <1>7, <2>1 DEF MovesOn, WillLoad, LoadPhases, Idle
  <1>8. QED BY <1>1, <1>2, <1>3, <1>4, <1>5, <1>6, <1>7

\* A step is of a client, of the writer or of the flush loop.
LEMMA NextSteps ==
  ASSUME RulesTypeOK, Next
  PROVE  \/ \E c \in Clients : \E o : MovesOn(c, o)
         \/ \E c \in Clients, t \in Tables, i \in Ids : UpsertWrites(c, t, i) \/ DeleteWrites(c, t, i)
         \/ \E c \in Clients : SetProjectParseBodies(c) \/ LoadReads(c) \/ LoadInstalls(c)
         \/ WriterTakes \/ Lift \/ Decide
         \/ \E t \in Tables : FlushTakes(t) \/ FoldBack(t) \/ AddCounts(t)
  <1>0. "noise" \in Tables /\ "sev" \in Tables BY DEF Tables
  <1>1. CASE WriterTakes \/ Lift \/ Decide BY <1>1
  <1>2. CASE FlushDrops \/ FlushLifts
    BY <1>0, <1>2 DEF FlushDrops, FlushLifts, AddNoiseDrops, AddSeverityLifts
  <1>3. CASE \E c \in Clients : Begins(c) \/ Works(c)
    <2>1. PICK c \in Clients : Begins(c) \/ Works(c) BY <1>3
    <2>2. CASE UpsertNoiseRule(c) \/ UpsertSeverityRule(c)
      <3>1. PICK t \in Tables : Upserts(c, t) BY <1>0, <2>2 DEF UpsertNoiseRule, UpsertSeverityRule
      <3>2. op[c].pc = "write" BY <3>1 DEF Upserts, At
      <3>3. QED BY <3>1, <3>2, UpsertDoes, OperationMovesOn
    <2>3. CASE DeleteNoiseRule(c) \/ DeleteSeverityRule(c)
      <3>1. PICK t \in Tables : Deletes(c, t) BY <1>0, <2>3 DEF DeleteNoiseRule, DeleteSeverityRule
      <3>2. op[c].pc = "write" BY <3>1 DEF Deletes, At
      <3>3. QED BY <3>1, <3>2, DeleteDoes, OperationMovesOn
    <2>4. CASE SetProjectParseBodies(c) \/ LoadReads(c) \/ LoadInstalls(c) BY <2>4
    <2>5. QED BY <2>1, <2>2, <2>3, <2>4, OperationMovesOn DEF Works
  <1>4. QED BY <1>1, <1>2, <1>3 DEF Next

\* The engine starts loaded, with what is stored.
LEMMA InitTypes == ASSUME Init PROVE RulesTypeOK
  <1>1. PICK n \in NoiseTables, s \in SevTables : table = [noise |-> n, sev |-> s] BY DEF Init
  <1>2. n \in NoiseTable /\ s \in SevTable BY StartAssumption
  <1>3. RuleTypes
    <2>1. DOMAIN table = Tables /\ table["noise"] = n /\ table["sev"] = s BY <1>1 DEF Tables
    <2>2. \A t \in Tables : table[t] \in TableOf(t)
      BY <1>2, <2>1 DEF Tables, TableOf, WhatsOf, NoiseTable, SevTable
    <2>3. table = [t \in Tables |-> table[t]] BY <1>1 DEF Tables
    <2>4. table \in [Tables -> NoiseTable \cup SevTable] BY <1>2, <2>1, <2>3 DEF Tables
    <2>5. parse \in Toggles BY DEF Init, Toggles
    <2>6. QED BY <2>2, <2>4, <2>5 DEF RuleTypes
  <1>4. NoCounts \in Counts BY DEF NoCounts, Counts
  <1>5. EngineTypes
    <2>1. NoiseRules \in NoiseTable /\ SeverityRules \in SevTable /\ parse \in Toggles
      BY <1>3, PlainTables DEF RuleTypes
    <2>2. QED BY <1>4, <2>1 DEF Init, EngineTypes
  <1>6. ClientTypes
    <2>1. Idle \in Ops /\ OwnWhat(Idle) /\ Idle.pc = "idle"
      BY DEF Idle, Ops, RestOps, UpsertOps, OwnWhat, FindUpsertOps, WriteUpsertOps
    <2>2. NothingRead \in Reads BY DEF NothingRead, Reads
    <2>3. QED BY <2>1, <2>2 DEF Init, ClientTypes, ReadBy
  <1>7. TallyTypes
    <2>1. \A t \in Tables, i \in Ids : (IF table[t][i] = None THEN 0 ELSE table[t][i].count) \in Nat
      BY <1>3, RowOf DEF Rows
    <2>2. decided \in [Tables -> Counts] BY <2>1 DEF Init, Counts
    <2>3. QED BY <1>4, <2>2 DEF Init, TallyTypes
  <1>8. QED BY <1>3, <1>5, <1>6, <1>7 DEF RulesTypeOK, Init, AtRest, Writers

\* Every step keeps the types.
LEMMA StepKeepsTypes == ASSUME RulesTypeOK, [Next]_vars PROVE RulesTypeOK'
  <1>1. CASE Next
    <2>1. CASE \E c \in Clients : \E o : MovesOn(c, o) BY <2>1, MovesKeepTypes DEF MovesOn
    <2>2. CASE \E c \in Clients, t \in Tables, i \in Ids : UpsertWrites(c, t, i) \/ DeleteWrites(c, t, i)
      BY <2>2, UpsertKeepsTypes, DeleteKeepsTypes
    <2>3. CASE \E c \in Clients : SetProjectParseBodies(c) \/ LoadReads(c) \/ LoadInstalls(c)
      BY <2>3, ToggleKeepsTypes, ReadKeepsTypes, InstallKeepsTypes
    <2>4. CASE WriterTakes \/ Lift \/ Decide BY <2>4, TakesKeepsTypes, LiftKeepsTypes, DecideKeepsTypes
    <2>5. CASE \E t \in Tables : FlushTakes(t) \/ FoldBack(t) \/ AddCounts(t)
      BY <2>5, FlushKeepsTypes, StoreKeepsTypes
    <2>6. QED BY <1>1, <2>1, <2>2, <2>3, <2>4, <2>5, NextSteps
  <1>2. CASE UNCHANGED vars
    BY <1>2 DEF RulesTypeOK, RuleTypes, EngineTypes, ClientTypes, TallyTypes, ReadBy, vars, ruleVars,
                engineVars, clientVars, writerVars, historyVars, tallyVars
  <1>3. QED BY <1>1, <1>2

\* The rules' state has its types.
THEOREM RulesTyped == Spec => []RulesTypeOK
  <1>1. Init => RulesTypeOK BY InitTypes
  <1>2. RulesTypeOK /\ [Next]_vars => RulesTypeOK' BY StepKeepsTypes
  <1>3. QED BY <1>1, <1>2, PTL DEF Spec

-----------------------------------------------------------------------------
(* CountsExact *)

\* A step that leaves the rows and the counts alone, and gives no client
\* anything to install.
LEMMA MovesKeepBorn ==
  ASSUME RulesTypeOK, BornInv, NEW c \in Clients, NEW o, Moves(c, o) PROVE BornInv'
  <1>1. UNCHANGED <<ruleVars, engineVars, writer, tallyVars, birthVars>> BY DEF Moves
  <1>2. \A d \in Clients : d # c => op'[d] = op[d] /\ got'[d] = got[d]
    BY DEF RulesTypeOK, ClientTypes, Moves, Ends
  <1>3. op'[c].pc \notin {"sev", "projects", "install"} BY DEF RulesTypeOK, ClientTypes, Moves
  <1>4. QED BY <1>1, <1>2, <1>3 DEF BornInv, Holds, ruleVars, engineVars, tallyVars, birthVars

\* A row that is written is born.
LEMMA UpsertKeepsBorn ==
  ASSUME RulesTypeOK, BornInv, NEW c \in Clients, NEW t \in Tables, NEW i \in Ids, UpsertWrites(c, t, i)
  PROVE  BornInv'
  <1>2. \A u \in Tables, j \in Ids : u # t \/ j # i => table'[u][j] = table[u][j]
    BY UpsertOthers
  <1>3. born' = born \cup {<<t, i>>} /\ UNCHANGED <<snap, writer, pending, taken, flushPc, decided, seen, kept, got>>
    BY DEF UpsertWrites, engineVars, tallyVars
  <1>4. \A d \in Clients : d # c => op'[d] = op[d] BY DEF UpsertWrites, RulesTypeOK, ClientTypes
  <1>5. op'[c].pc = "back" BY DEF UpsertWrites, RulesTypeOK, ClientTypes
  <1>6. \A u \in Tables : Holds(u, table[u])' BY <1>2, <1>3 DEF BornInv, Holds
  <1>7. QED BY <1>3, <1>4, <1>5, <1>6 DEF BornInv, Holds

\* A row that is deleted was born.
LEMMA DeleteKeepsBorn ==
  ASSUME RulesTypeOK, BornInv, NEW c \in Clients, NEW t \in Tables, NEW i \in Ids, DeleteWrites(c, t, i)
  PROVE  BornInv'
  <1>1. /\ table'[t][i] = None
        /\ \A u \in Tables, j \in Ids : u # t \/ j # i => table'[u][j] = table[u][j]
    BY DeleteTable
  <1>2. UNCHANGED <<born, snap, writer, pending, taken, flushPc, decided, seen, kept, got>>
    BY DEF DeleteWrites, engineVars, tallyVars, birthVars
  <1>3. \A d \in Clients : d # c => op'[d] = op[d] BY DEF DeleteWrites, Loads, RulesTypeOK, ClientTypes
  <1>4. op'[c].pc = "noise" BY DEF DeleteWrites, Loads, RulesTypeOK, ClientTypes
  <1>5. \A u \in Tables : Holds(u, table[u])' BY <1>1, <1>2 DEF BornInv, Holds
  <1>6. QED BY <1>2, <1>3, <1>4, <1>5 DEF BornInv, Holds

\* The toggle writes no row.
LEMMA ToggleKeepsBorn ==
  ASSUME RulesTypeOK, BornInv, NEW c \in Clients, SetProjectParseBodies(c) PROVE BornInv'
  <1>1. UNCHANGED <<table, born, snap, writer, pending, taken, flushPc, decided, seen, kept, got>>
    BY DEF SetProjectParseBodies, engineVars, tallyVars, birthVars, writerVars
  <1>2. \A d \in Clients : d # c => op'[d] = op[d]
    BY DEF SetProjectParseBodies, Loads, RulesTypeOK, ClientTypes
  <1>3. op'[c].pc = "noise" BY DEF SetProjectParseBodies, Loads, RulesTypeOK, ClientTypes
  <1>4. QED BY <1>1, <1>2, <1>3 DEF BornInv, Holds

\* A Load reads rows of the tables.
LEMMA ReadKeepsBorn ==
  ASSUME RulesTypeOK, BornInv, NEW c \in Clients, LoadReads(c) PROVE BornInv'
  <1>1. PICK g \in Reads, o \in Ops :
           /\ OwnWhat(o) /\ op' = [op EXCEPT ![c] = o] /\ got' = [got EXCEPT ![c] = g]
           /\ \/ At(c, "noise") /\ o.pc = "sev" /\ g = [got[c] EXCEPT !.noise = NoiseRules]
              \/ At(c, "sev") /\ o.pc = "projects" /\ g = [got[c] EXCEPT !.sev = SeverityRules]
              \/ At(c, "projects") /\ o.pc = "install" /\ g = [got[c] EXCEPT !.parse = parse]
           /\ UNCHANGED <<ruleVars, engineVars, writer, historyVars>>
    BY ReadDoes
  <1>2. op'[c] = o /\ got'[c] = g /\ \A d \in Clients : d # c => op'[d] = op[d] /\ got'[d] = got[d]
    BY <1>1 DEF RulesTypeOK, ClientTypes
  <1>3. UNCHANGED <<table, born, snap, writer, pending, taken, flushPc, decided, seen, kept>>
    BY <1>1 DEF ruleVars, engineVars, historyVars, tallyVars, birthVars
  <1>4. Holds("noise", NoiseRules) /\ Holds("sev", SeverityRules)
    <2>1. Holds("noise", table["noise"]) /\ Holds("sev", table["sev"]) BY DEF BornInv, Tables
    <2>2. \A i \in Ids : /\ NoiseRules[i] = Plain(table["noise"][i])
                         /\ SeverityRules[i] = Plain(table["sev"][i])
      BY DEF NoiseRules, SeverityRules
    <2>3. QED BY <2>1, <2>2 DEF Holds, Plain
  <1>5. got[c] \in Reads BY DEF RulesTypeOK, ClientTypes
  <1>6. /\ o.pc \in {"sev", "projects", "install"} => Holds("noise", g.noise)
        /\ o.pc \in {"projects", "install"} => Holds("sev", g.sev)
    BY <1>1, <1>4, <1>5 DEF BornInv, At, Reads
  <1>7. QED BY <1>2, <1>3, <1>6 DEF BornInv, Holds

\* And installs what it has read.
LEMMA InstallKeepsBorn ==
  ASSUME RulesTypeOK, BornInv, NEW c \in Clients, LoadInstalls(c) PROVE BornInv'
  <1>1. snap' = got[c] /\ op[c].pc = "install" /\ Ends(c) BY DEF LoadInstalls, At
  <1>2. UNCHANGED <<table, born, writer, pending, taken, flushPc, decided, seen, kept>>
    BY DEF LoadInstalls, ruleVars, tallyVars, birthVars, writerVars
  <1>3. Holds("noise", got[c].noise) /\ Holds("sev", got[c].sev) BY <1>1 DEF BornInv
  <1>4. op'[c].pc = "idle" /\ \A d \in Clients : d # c => op'[d] = op[d] /\ got'[d] = got[d]
    BY <1>1 DEF RulesTypeOK, ClientTypes, Ends, Idle
  <1>5. QED BY <1>1, <1>2, <1>3, <1>4 DEF BornInv, Holds

\* The writer counts against a rule it holds.
LEMMA WriterKeepsBorn ==
  ASSUME RulesTypeOK, BornInv, WriterTakes \/ Lift \/ Decide PROVE BornInv'
  <1>0. /\ pending \in [Tables -> Counts] /\ decided \in [Tables -> Counts]
        /\ "noise" \in Tables /\ "sev" \in Tables
    BY DEF RulesTypeOK, EngineTypes, TallyTypes, Tables
  <1>1. CASE WriterTakes
    <2>1. writer'.pc = "lift" /\ writer'.rules = snap.sev BY <1>1 DEF WriterTakes
    <2>2. QED BY <1>1, <2>1
          DEF WriterTakes, BornInv, Holds, ruleVars, engineVars, clientVars, historyVars, tallyVars, birthVars
  <1>2. CASE Lift
    <2>1. writer.pc = "lift" /\ writer'.pc = "decide" /\ writer'.rules = snap.noise
      BY <1>2, LiftDoes DEF Lift
    <2>2. UNCHANGED <<table, snap, flushPc, taken, op, got, seen, kept, born>>
      BY <1>2 DEF Lift, ruleVars, clientVars, birthVars
    <2>3. CASE UNCHANGED <<pending, decided>> BY <2>1, <2>2, <2>3 DEF BornInv, Holds
    <2>4. CASE \E i \in Ids : LiftCounts(i)
      <3>1. PICK i \in Ids : LiftCounts(i) BY <2>4
      <3>2. <<"sev", i>> \in born BY <2>1, <3>1 DEF BornInv, Holds, LiftCounts
      <3>3. \A u \in Tables, j \in Ids : u # "sev" \/ j # i =>
              pending'[u][j] = pending[u][j] /\ decided'[u][j] = decided[u][j]
        BY <1>0, <3>1 DEF LiftCounts, Counts
      <3>4. QED BY <2>1, <2>2, <3>2, <3>3 DEF BornInv, Holds
    <2>5. QED BY <1>2, <2>3, <2>4, LiftDoes
  <1>3. CASE Decide
    <2>1. PICK hits : Decides(hits) BY <1>3, DecideDoes
    <2>2. writer.pc = "decide" /\ writer' = AtRest
          /\ UNCHANGED <<table, snap, flushPc, taken, op, got, born>>
      BY <1>3 DEF Decide, ruleVars, clientVars, birthVars
    <2>3. ASSUME NEW i \in Ids, <<"noise", i>> \notin born PROVE seen'[i] = 0 /\ kept'[i] = 0
      <3>1. writer.rules[i] = None BY <2>2, <2>3 DEF BornInv, Holds
      <3>2. i \notin Sampled(hits) BY <2>1, <3>1 DEF Decides, Sampled, Asked
      <3>3. QED BY <2>1, <2>3, <3>2 DEF Decides, Plus1, BornInv
    <2>4. ASSUME NEW t \in Tables, NEW i \in Ids, <<t, i>> \notin born
          PROVE  pending'[t][i] = 0 /\ decided'[t][i] = 0
      <3>1. pending[t][i] = 0 /\ decided[t][i] = 0 BY <2>4 DEF BornInv
      <3>2. CASE UNCHANGED <<pending, decided>> BY <3>1, <3>2
      <3>3. CASE \E j \in Ids : DropCounts(j)
        <4>1. PICK j \in Ids : DropCounts(j) BY <3>3
        <4>2. <<"noise", j>> \in born BY <2>2, <4>1 DEF BornInv, Holds, DropCounts
        <4>3. t # "noise" \/ i # j BY <2>4, <4>2
        <4>4. pending'[t][i] = pending[t][i] /\ decided'[t][i] = decided[t][i]
          BY <1>0, <4>1, <4>3 DEF DropCounts, Counts
        <4>5. QED BY <3>1, <4>4
      <3>4. QED BY <2>1, <3>2, <3>3 DEF Decides
    <2>5. QED BY <2>2, <2>3, <2>4 DEF BornInv, Holds, AtRest
  <1>4. QED BY <1>1, <1>2, <1>3

\* The flush loop moves counts, and none from nowhere.
LEMMA FlushKeepsBorn ==
  ASSUME RulesTypeOK, BornInv, NEW t \in Tables, FlushTakes(t) \/ FoldBack(t) \/ AddCounts(t)
  PROVE  BornInv'
  <1>1. UNCHANGED <<snap, writer, op, got, decided, seen, kept, born>>
    BY DEF FlushTakes, FoldBack, AddCounts, clientVars, writerVars, historyVars, tallyVars, birthVars
  <1>2. \A u \in Tables, i \in Ids : table[u][i] = None => table'[u][i] = None
    <2>1. CASE AddCounts(t) BY <2>1, StoreDoes
    <2>2. CASE UNCHANGED table BY <2>2
    <2>3. QED BY <2>1, <2>2 DEF FlushTakes, FoldBack, ruleVars
  <1>3. \A u \in Tables : Holds(u, table[u])' BY <1>1, <1>2 DEF BornInv, Holds
  <1>4. ASSUME NEW u \in Tables, NEW i \in Ids, <<u, i>> \notin born
        PROVE  pending'[u][i] = 0 /\ (flushPc' = u => taken'[i] = 0)
    <2>1. pending[u][i] = 0 /\ (flushPc = u => taken[i] = 0) BY <1>4 DEF BornInv
    <2>2. pending \in [Tables -> Counts] /\ "idle" \notin Tables
      BY DEF RulesTypeOK, EngineTypes, Tables
    <2>3. CASE FlushTakes(t) BY <2>1, <2>2, <2>3 DEF FlushTakes, NoCounts
    <2>4. CASE FoldBack(t)
      <3>1. pending' = [pending EXCEPT ![t] = [j \in Ids |-> pending[t][j] + taken[j]]] /\ flushPc' = "idle"
            /\ flushPc = t
        BY <2>2, <2>4 DEF FoldBack
      <3>2. CASE u = t
        <4>1. pending'[u][i] = pending[u][i] + taken[i] BY <2>2, <3>1, <3>2
        <4>2. QED BY <2>1, <2>2, <3>1, <3>2, <4>1
      <3>3. CASE u # t BY <2>1, <2>2, <3>1, <3>3
      <3>4. QED BY <3>2, <3>3
    <2>5. CASE AddCounts(t) BY <2>1, <2>2, <2>5 DEF AddCounts
    <2>6. QED BY <2>3, <2>4, <2>5
  <1>5. QED BY <1>1, <1>3, <1>4 DEF BornInv, Holds

\* Together: what was never there is held by nobody and counted nowhere.
LEMMA StepKeepsBorn == ASSUME RulesTypeOK, BornInv, [Next]_vars PROVE BornInv'
  <1>1. CASE Next
    <2>1. CASE \E c \in Clients : \E o : MovesOn(c, o) BY <2>1, MovesKeepBorn DEF MovesOn
    <2>2. CASE \E c \in Clients, t \in Tables, i \in Ids : UpsertWrites(c, t, i) \/ DeleteWrites(c, t, i)
      BY <2>2, UpsertKeepsBorn, DeleteKeepsBorn
    <2>3. CASE \E c \in Clients : SetProjectParseBodies(c) \/ LoadReads(c) \/ LoadInstalls(c)
      BY <2>3, ToggleKeepsBorn, ReadKeepsBorn, InstallKeepsBorn
    <2>4. CASE WriterTakes \/ Lift \/ Decide BY <2>4, WriterKeepsBorn
    <2>5. CASE \E t \in Tables : FlushTakes(t) \/ FoldBack(t) \/ AddCounts(t) BY <2>5, FlushKeepsBorn
    <2>6. QED BY <1>1, <2>1, <2>2, <2>3, <2>4, <2>5, NextSteps
  <1>2. CASE UNCHANGED vars
    BY <1>2 DEF BornInv, Holds, vars, ruleVars, engineVars, clientVars, writerVars, historyVars, tallyVars,
                birthVars
  <1>3. QED BY <1>1, <1>2

\* What was there at the start is born.
LEMMA InitBorn == ASSUME Init PROVE BornInv
  <1>1. RuleTypes BY InitTypes DEF RulesTypeOK
  <1>2. \A t \in Tables, i \in Ids : <<t, i>> \in born <=> table[t][i] # None BY DEF Init
  <1>3. snap.noise = NoiseRules /\ snap.sev = SeverityRules BY DEF Init
  <1>4. \A i \in Ids : /\ NoiseRules[i] = Plain(table["noise"][i])
                       /\ SeverityRules[i] = Plain(table["sev"][i])
    BY DEF NoiseRules, SeverityRules
  <1>5. Holds("noise", snap.noise) /\ Holds("sev", snap.sev) /\ \A t \in Tables : Holds(t, table[t])
    BY <1>2, <1>3, <1>4 DEF Holds, Plain, Tables
  <1>6. \A t \in Tables, i \in Ids : <<t, i>> \notin born =>
          pending[t][i] = 0 /\ taken[i] = 0 /\ decided[t][i] = 0 /\ seen[i] = 0 /\ kept[i] = 0
    BY <1>2 DEF Init, NoCounts
  <1>7. \A c \in Clients : op[c].pc = "idle" BY DEF Init, Idle
  <1>8. writer.pc = "idle" BY DEF Init, AtRest
  <1>9. QED BY <1>5, <1>6, <1>7, <1>8 DEF BornInv, Tables

(* The count stored, the counts to be stored and those on their way. *)
Taken(t, i) == IF flushPc = t THEN taken[i] ELSE 0

\* CountsExact, an id at a time.
Exact(t, i) ==
  (table[t][i] # None /\ <<t, i>> \notin reused) => table[t][i].count + pending[t][i] + Taken(t, i) = decided[t][i]

\* It is said so of every id.
LEMMA ExactIsCountsExact == CountsExact <=> \A t \in Tables, i \in Ids : Exact(t, i)
  BY DEF CountsExact, Exact, Taken

\* The counts are numbers.
LEMMA CountNumbers ==
  ASSUME RulesTypeOK, NEW t \in Tables, NEW i \in Ids
  PROVE  /\ pending[t][i] \in Nat /\ taken[i] \in Nat /\ decided[t][i] \in Nat /\ Taken(t, i) \in Nat
         /\ table[t][i] # None => table[t][i] \in Rows(WhatsOf(t)) /\ table[t][i].count \in Nat
  <1>1. pending[t][i] \in Nat /\ taken[i] \in Nat /\ decided[t][i] \in Nat
    BY DEF RulesTypeOK, EngineTypes, TallyTypes, Counts
  <1>2. table[t][i] # None => table[t][i] \in Rows(WhatsOf(t)) BY RowOf DEF RulesTypeOK
  <1>3. QED BY <1>1, <1>2 DEF Taken, Rows

\* A new rule starts with nothing decided by it; an updated one keeps its count.
LEMMA UpsertKeepsExact ==
  ASSUME RulesTypeOK, BornInv, CountsExact, NEW c \in Clients, NEW t \in Tables, NEW i \in Ids,
         UpsertWrites(c, t, i)
  PROVE  CountsExact'
  <1> DEFINE row == table'[t][i]
  <1>1. /\ row # None
        /\ row = [project |-> op[c].project, what |-> op[c].what, enabled |-> op[c].enabled,
                  count |-> IF op[c].id = 0 THEN 0 ELSE table[t][i].count]
        /\ \A u \in Tables, j \in Ids : u # t \/ j # i => table'[u][j] = table[u][j]
    BY UpsertRow, UpsertOthers
  <1>3. UNCHANGED <<pending, taken, flushPc, decided>> /\ reused \subseteq reused'
    BY DEF UpsertWrites, engineVars, tallyVars
  <1>4. \A u \in Tables, j \in Ids : u # t \/ j # i => Exact(u, j)'
    BY <1>1, <1>3, ExactIsCountsExact DEF Exact, Taken
  <1>5. Exact(t, i)'
    <2>1. row.count = IF op[c].id = 0 THEN 0 ELSE table[t][i].count BY <1>1
    <2>2. SUFFICES ASSUME <<t, i>> \notin reused'
                   PROVE  row.count + pending[t][i] + Taken(t, i) = decided[t][i]
      BY <1>1, <1>3 DEF Exact, Taken
    <2>3. CASE op[c].id = 0
      <3>1. <<t, i>> \notin born BY <2>2, <2>3 DEF UpsertWrites
      <3>2. pending[t][i] = 0 /\ Taken(t, i) = 0 /\ decided[t][i] = 0 BY <3>1 DEF BornInv, Taken
      <3>3. QED BY <2>1, <2>3, <3>2
    <2>4. CASE op[c].id # 0
      <3>1. table[t][i] # None BY <2>4 DEF UpsertWrites
      <3>2. <<t, i>> \notin reused BY <1>3, <2>2
      <3>3. QED BY <2>1, <2>4, <3>1, <3>2, ExactIsCountsExact DEF Exact
    <2>5. QED BY <2>3, <2>4
  <1>6. \A u \in Tables, j \in Ids : Exact(u, j)' BY <1>4, <1>5
  <1>7. QED BY <1>6 DEF CountsExact, Exact, Taken

\* Whoever decides counts the decision.
LEMMA WriterKeepsExact ==
  ASSUME RulesTypeOK, BornInv, CountsExact, Lift \/ Decide PROVE CountsExact'
  <1>1. UNCHANGED <<table, taken, flushPc, reused>> BY DEF Lift, Decide, ruleVars, birthVars
  <1>2. /\ pending \in [Tables -> Counts] /\ decided \in [Tables -> Counts]
        /\ "noise" \in Tables /\ "sev" \in Tables
    BY DEF RulesTypeOK, EngineTypes, TallyTypes, Tables
  <1>3. ASSUME NEW u \in Tables, NEW j \in Ids
        PROVE  \/ pending'[u][j] = pending[u][j] /\ decided'[u][j] = decided[u][j]
               \/ pending'[u][j] = pending[u][j] + 1 /\ decided'[u][j] = decided[u][j] + 1
    <2>1. CASE UNCHANGED <<pending, decided>> BY <2>1
    <2>2. CASE \E i \in Ids : LiftCounts(i)
      <3>1. PICK i \in Ids : LiftCounts(i) BY <2>2
      <3>2. pending'["sev"][i] = pending["sev"][i] + 1 /\ decided'["sev"][i] = decided["sev"][i] + 1
        BY <1>2, <3>1 DEF LiftCounts, Counts
      <3>3. \A w \in Tables, k \in Ids : w # "sev" \/ k # i =>
              pending'[w][k] = pending[w][k] /\ decided'[w][k] = decided[w][k]
        BY <1>2, <3>1 DEF LiftCounts, Counts
      <3>4. QED BY <3>2, <3>3
    <2>3. CASE \E i \in Ids : DropCounts(i)
      <3>1. PICK i \in Ids : DropCounts(i) BY <2>3
      <3>2. pending'["noise"][i] = pending["noise"][i] + 1 /\ decided'["noise"][i] = decided["noise"][i] + 1
        BY <1>2, <3>1 DEF DropCounts, Counts
      <3>3. \A w \in Tables, k \in Ids : w # "noise" \/ k # i =>
              pending'[w][k] = pending[w][k] /\ decided'[w][k] = decided[w][k]
        BY <1>2, <3>1 DEF DropCounts, Counts
      <3>4. QED BY <3>2, <3>3
    <2>4. QED BY <2>1, <2>2, <2>3, LiftDoes, DecideDoes DEF Decides
  <1>4. ASSUME NEW u \in Tables, NEW j \in Ids PROVE Exact(u, j)'
    <2>1. Exact(u, j) BY ExactIsCountsExact
    <2>2. QED BY <1>1, <1>3, <2>1, CountNumbers DEF Exact, Taken
  <1>5. QED BY <1>4 DEF CountsExact, Exact, Taken

\* The flush loop moves counts between the three places, and loses none.
LEMMA FlushKeepsExact ==
  ASSUME RulesTypeOK, BornInv, CountsExact, NEW t \in Tables, FlushTakes(t) \/ FoldBack(t) \/ AddCounts(t)
  PROVE  CountsExact'
  <1>1. UNCHANGED <<decided, reused>>
    BY DEF FlushTakes, FoldBack, AddCounts, historyVars, tallyVars, birthVars
  <1>2. pending \in [Tables -> Counts] /\ "idle" \notin Tables BY DEF RulesTypeOK, EngineTypes, Tables
  <1>3. ASSUME NEW u \in Tables, NEW i \in Ids PROVE Exact(u, i)'
    <2>1. Exact(u, i) BY ExactIsCountsExact
    <2>2. CASE FlushTakes(t)
      <3>1. UNCHANGED table /\ flushPc = "idle" /\ flushPc' = t /\ taken' = pending[t]
            /\ pending' = [pending EXCEPT ![t] = NoCounts]
        BY <2>2 DEF FlushTakes, ruleVars
      <3>2. u = t => pending'[u][i] = 0 /\ Taken(u, i)' = pending[u][i] /\ Taken(u, i) = 0
        BY <1>2, <3>1 DEF NoCounts, Taken
      <3>3. u # t => pending'[u][i] = pending[u][i] /\ Taken(u, i)' = 0 /\ Taken(u, i) = 0
        BY <1>2, <3>1 DEF Taken
      <3>4. QED BY <1>1, <2>1, <3>1, <3>2, <3>3, CountNumbers DEF Exact
    <2>3. CASE FoldBack(t)
      <3>1. UNCHANGED table /\ flushPc = t /\ flushPc' = "idle"
            /\ pending' = [pending EXCEPT ![t] = [j \in Ids |-> pending[t][j] + taken[j]]]
        BY <1>2, <2>3 DEF FoldBack, ruleVars
      <3>2. u = t => pending'[u][i] = pending[u][i] + taken[i] /\ Taken(u, i)' = 0 /\ Taken(u, i) = taken[i]
        BY <1>2, <3>1 DEF Taken
      <3>3. u # t => pending'[u][i] = pending[u][i] /\ Taken(u, i)' = 0 /\ Taken(u, i) = 0
        BY <1>2, <3>1 DEF Taken
      <3>4. QED BY <1>1, <2>1, <3>1, <3>2, <3>3, CountNumbers DEF Exact
    <2>4. CASE AddCounts(t)
      <3>1. UNCHANGED pending /\ flushPc = t /\ flushPc' = "idle" BY <2>4 DEF AddCounts
      <3>2. Taken(u, i)' = 0 /\ Taken(u, i) = IF u = t THEN taken[i] ELSE 0
        BY <1>2, <3>1 DEF Taken
      <3>3. CASE u # t
        <4>1. table'[u] = table[u] BY <2>4, <3>3, StoreDoes
        <4>2. QED BY <1>1, <2>1, <3>1, <3>2, <3>3, <4>1 DEF Exact
      <3>4. CASE u = t
        <4>1. /\ table'[t][i] = None <=> table[t][i] = None
              /\ table[t][i] # None => table'[t][i] = [table[t][i] EXCEPT !.count = @ + taken[i]]
          BY <2>4, StoreDoes
        <4>2. table[t][i] # None => table'[t][i].count = table[t][i].count + taken[i]
          BY <4>1, <3>4, CountNumbers DEF Rows
        <4>3. QED BY <1>1, <2>1, <3>1, <3>2, <3>4, <4>1, <4>2, CountNumbers DEF Exact
      <3>5. QED BY <3>3, <3>4
    <2>5. QED BY <2>2, <2>3, <2>4
  <1>4. QED BY <1>3 DEF CountsExact, Exact, Taken

\* Every step keeps the sum.
LEMMA StepKeepsExact == ASSUME RulesTypeOK, BornInv, CountsExact, [Next]_vars PROVE CountsExact'
  <1>1. CASE UNCHANGED <<table, pending, taken, flushPc, decided, reused>> BY <1>1 DEF CountsExact
  <1>2. CASE Next
    <2>1. CASE \E c \in Clients : \E o : MovesOn(c, o)
      BY <1>1, <2>1 DEF MovesOn, Moves, ruleVars, engineVars, tallyVars, birthVars
    <2>2. CASE \E c \in Clients, t \in Tables, i \in Ids : UpsertWrites(c, t, i) \/ DeleteWrites(c, t, i)
      <3>1. PICK c \in Clients, t \in Tables, i \in Ids : UpsertWrites(c, t, i) \/ DeleteWrites(c, t, i)
        BY <2>2
      <3>2. CASE DeleteWrites(c, t, i)
        <4>1. /\ table'[t][i] = None
              /\ \A u \in Tables, j \in Ids : u # t \/ j # i => table'[u][j] = table[u][j]
          BY <3>2, DeleteTable
        <4>2. UNCHANGED <<pending, taken, flushPc, decided, reused>>
          BY <3>2 DEF DeleteWrites, engineVars, tallyVars, birthVars
        <4>3. QED BY <4>1, <4>2 DEF CountsExact
      <3>3. QED BY <3>1, <3>2, UpsertKeepsExact
    <2>3. CASE \E c \in Clients : SetProjectParseBodies(c) \/ LoadReads(c) \/ LoadInstalls(c)
      BY <1>1, <2>3
      DEF SetProjectParseBodies, LoadReads, LoadInstalls, ruleVars, engineVars, historyVars, tallyVars, birthVars
    <2>4. CASE WriterTakes
      BY <1>1, <2>4 DEF WriterTakes, ruleVars, engineVars, historyVars, tallyVars, birthVars
    <2>5. CASE Lift \/ Decide BY <2>5, WriterKeepsExact
    <2>6. CASE \E t \in Tables : FlushTakes(t) \/ FoldBack(t) \/ AddCounts(t) BY <2>6, FlushKeepsExact
    <2>7. QED BY <1>2, <2>1, <2>2, <2>3, <2>4, <2>5, <2>6, NextSteps
  <1>3. CASE UNCHANGED vars
    BY <1>1, <1>3 DEF vars, ruleVars, engineVars, historyVars, tallyVars, birthVars
  <1>4. QED BY <1>2, <1>3

\* FlushDrops and FlushLifts: what is stored, waiting and on its way is
\* what was decided, whatever updates, reloads, deletes and failed flushes
\* come between.
THEOREM CountsAreExact == Spec => []CountsExact
  <1> DEFINE IInv == RulesTypeOK /\ BornInv /\ CountsExact
  <1>1. Init => IInv
    <2>1. SUFFICES ASSUME Init PROVE CountsExact BY InitTypes, InitBorn
    <2>2. ASSUME NEW t \in Tables, NEW i \in Ids, table[t][i] # None
          PROVE  table[t][i].count + pending[t][i] + (IF flushPc = t THEN taken[i] ELSE 0) = decided[t][i]
      <3>1. table[t][i].count \in Nat BY <2>1, <2>2, InitTypes, CountNumbers
      <3>2. decided[t][i] = table[t][i].count /\ pending[t][i] = 0 /\ taken[i] = 0
        BY <2>1, <2>2 DEF Init, NoCounts
      <3>3. QED BY <3>1, <3>2
    <2>3. QED BY <2>2 DEF CountsExact
  <1>2. IInv /\ [Next]_vars => IInv' BY StepKeepsTypes, StepKeepsBorn, StepKeepsExact
  <1>3. IInv => CountsExact OBVIOUS
  <1>4. QED BY <1>1, <1>2, <1>3, PTL DEF Spec

-----------------------------------------------------------------------------
(* SnapshotCurrent *)

\* An operation goes on: who gives up leaves the mark, who goes on to its
\* Load will read everything after its write.
LEMMA MovesKeepLoad ==
  ASSUME RulesTypeOK, LoadInv, NEW c \in Clients, NEW o, MovesOn(c, o) PROVE LoadInv'
  <1>1. UNCHANGED <<table, parse, snap>> BY DEF MovesOn, Moves, ruleVars, engineVars
  <1>2. op'[c] = o /\ \A d \in Clients : d # c => op'[d] = op[d] /\ got'[d] = got[d]
    BY DEF RulesTypeOK, ClientTypes, MovesOn, Moves, Ends
  <1>3. o.pc \in {"idle", "find", "count", "write", "noise"} /\ missed' \subseteq missed
        /\ (o.pc = "idle" => c \notin missed') /\ (o.pc # "idle" => missed' = missed)
    <2>1. CASE Ends(c) /\ o.pc = "idle" BY <2>1 DEF Ends
    <2>2. CASE o.pc \in {"find", "count", "write", "noise"} /\ UNCHANGED missed BY <2>2
    <2>3. QED BY <2>1, <2>2 DEF MovesOn, Moves
  <1>4. o.pc # "idle" => c \notin missed'
    BY <1>3 DEF MovesOn, LoadInv, Loading
  <1>5. missed' \subseteq Loading' BY <1>2, <1>3, <1>4 DEF LoadInv, Loading
  <1>6. UNCHANGED <<NoiseRules, SeverityRules, Current>>
    BY <1>1 DEF NoiseRules, SeverityRules, Current
  <1>7. \A d \in Clients \ missed' : ReadCurrent(d)'
    <2>1. SUFFICES ASSUME NEW d \in Clients, d \notin missed' PROVE ReadCurrent(d)' OBVIOUS
    <2>2. CASE d = c BY <1>2, <1>3, <2>2 DEF ReadCurrent
    <2>3. CASE d # c
      <3>1. d \notin missed BY <1>3, <2>1, <2>3 DEF MovesOn, Moves, Ends
      <3>2. QED BY <1>1, <1>2, <1>6, <2>3, <3>1 DEF LoadInv, ReadCurrent
    <2>4. QED BY <2>2, <2>3
  <1>8. stale' \/ snap' = Current' \/ \E d \in Clients : WillLoad(d)'
    <2>1. CASE stale \/ snap = Current BY <1>1, <1>6, <2>1 DEF MovesOn
    <2>2. CASE \E d \in Clients : WillLoad(d)
      <3>1. PICK d \in Clients : WillLoad(d) BY <2>2
      <3>2. CASE d # c
        <4>1. WillLoad(d)' BY <1>1, <1>2, <1>3, <3>1, <3>2 DEF WillLoad
        <4>2. QED BY <4>1
      <3>3. CASE d = c
        <4>1. stale' \/ o.pc = "noise" BY <3>1, <3>3 DEF MovesOn
        <4>2. o.pc = "noise" => WillLoad(c)' BY <1>2, <1>4 DEF WillLoad, LoadPhases
        <4>3. QED BY <4>1, <4>2
      <3>4. QED BY <3>2, <3>3
    <2>3. QED BY <2>1, <2>2 DEF LoadInv
  <1>9. QED BY <1>5, <1>7, <1>8 DEF LoadInv

\* A write: every Load under way may have missed it, and the writer's own
\* has not begun.
LEMMA WriteKeepsLoad ==
  ASSUME RulesTypeOK, LoadInv, NEW c \in Clients, op[c].pc = "write",
         missed' = missed \cup Loading, \A d \in Clients : d # c => op'[d] = op[d],
         op'[c].pc = "noise" \/ (op'[c].pc = "back" /\ table'[op'[c].tbl][op'[c].id] # None)
  PROVE  LoadInv'
  <1>1. c \notin Loading /\ c \notin missed' BY DEF LoadInv, Loading
  <1>2. Loading \subseteq Loading' BY <1>1 DEF Loading
  <1>3. missed' \subseteq Loading' BY <1>2 DEF LoadInv
  <1>4. \A d \in Clients \ missed' : ReadCurrent(d)'
    <2>1. SUFFICES ASSUME NEW d \in Clients, d \notin missed' PROVE ReadCurrent(d)' OBVIOUS
    <2>2. CASE d = c BY <2>2 DEF ReadCurrent
    <2>3. CASE d # c
      <3>1. d \notin Loading BY <2>1
      <3>2. QED BY <2>3, <3>1 DEF ReadCurrent, Loading
    <2>4. QED BY <2>2, <2>3
  <1>5. WillLoad(c)' BY <1>1 DEF WillLoad, LoadPhases
  <1>6. QED BY <1>3, <1>4, <1>5 DEF LoadInv

\* The three writes are such.
LEMMA WritesKeepLoad ==
  ASSUME RulesTypeOK, LoadInv, NEW c \in Clients,
         \/ SetProjectParseBodies(c)
         \/ \E t \in Tables, i \in Ids : UpsertWrites(c, t, i) \/ DeleteWrites(c, t, i)
  PROVE  LoadInv'
  <1>1. CASE SetProjectParseBodies(c)
    <2>1. op[c].pc = "write" /\ missed' = missed \cup Loading BY <1>1 DEF SetProjectParseBodies, At
    <2>2. op'[c].pc = "noise" /\ \A d \in Clients : d # c => op'[d] = op[d]
      BY <1>1 DEF SetProjectParseBodies, Loads, RulesTypeOK, ClientTypes
    <2>3. QED BY <2>1, <2>2, WriteKeepsLoad
  <1>2. CASE \E t \in Tables, i \in Ids : DeleteWrites(c, t, i)
    <2>1. op[c].pc = "write" /\ missed' = missed \cup Loading BY <1>2 DEF DeleteWrites
    <2>2. op'[c].pc = "noise" /\ \A d \in Clients : d # c => op'[d] = op[d]
      BY <1>2 DEF DeleteWrites, Loads, RulesTypeOK, ClientTypes
    <2>3. QED BY <2>1, <2>2, WriteKeepsLoad
  <1>3. CASE \E t \in Tables, i \in Ids : UpsertWrites(c, t, i)
    <2>1. PICK t \in Tables, i \in Ids : UpsertWrites(c, t, i) BY <1>3
    <2>2. op[c].pc = "write" /\ missed' = missed \cup Loading BY <2>1 DEF UpsertWrites
    <2>3. /\ op'[c].pc = "back" /\ op'[c].tbl = t /\ op'[c].id = i
          /\ \A d \in Clients : d # c => op'[d] = op[d]
      BY <2>1 DEF UpsertWrites, RulesTypeOK, ClientTypes
    <2>4. table'[t][i] # None BY <2>1, UpsertRow
    <2>5. QED BY <2>2, <2>3, <2>4, WriteKeepsLoad
  <1>4. QED BY <1>1, <1>2, <1>3

\* A Load that missed no write reads what is stored.
LEMMA ReadKeepsLoad ==
  ASSUME RulesTypeOK, LoadInv, NEW c \in Clients, LoadReads(c) PROVE LoadInv'
  <1>1. PICK g \in Reads, o \in Ops :
           /\ OwnWhat(o) /\ op' = [op EXCEPT ![c] = o] /\ got' = [got EXCEPT ![c] = g]
           /\ \/ At(c, "noise") /\ o.pc = "sev" /\ g = [got[c] EXCEPT !.noise = NoiseRules]
              \/ At(c, "sev") /\ o.pc = "projects" /\ g = [got[c] EXCEPT !.sev = SeverityRules]
              \/ At(c, "projects") /\ o.pc = "install" /\ g = [got[c] EXCEPT !.parse = parse]
           /\ UNCHANGED <<ruleVars, engineVars, writer, historyVars>>
    BY ReadDoes
  <1>2. op'[c] = o /\ got'[c] = g /\ \A d \in Clients : d # c => op'[d] = op[d] /\ got'[d] = got[d]
    BY <1>1 DEF RulesTypeOK, ClientTypes
  <1>3. UNCHANGED <<table, parse, snap, missed, stale>>
    BY <1>1 DEF ruleVars, engineVars, historyVars
  <1>4. UNCHANGED <<NoiseRules, SeverityRules, Current>>
    BY <1>3 DEF NoiseRules, SeverityRules, Current
  <1>5. got[c] \in Reads BY DEF RulesTypeOK, ClientTypes
  <1>6. missed' \subseteq Loading' BY <1>1, <1>2, <1>3 DEF LoadInv, Loading
  <1>7. \A d \in Clients \ missed' : ReadCurrent(d)'
    <2>1. SUFFICES ASSUME NEW d \in Clients, d \notin missed PROVE ReadCurrent(d)' BY <1>3
    <2>2. ReadCurrent(d) BY <2>1 DEF LoadInv
    <2>3. CASE d = c
      <3>1. /\ o.pc \in {"sev", "projects", "install"} => g.noise = NoiseRules
            /\ o.pc \in {"projects", "install"} => g.sev = SeverityRules
            /\ o.pc = "install" => g.parse = parse
        BY <1>1, <1>5, <2>2, <2>3 DEF ReadCurrent, At, Reads
      <3>2. QED BY <1>2, <1>3, <1>4, <2>3, <3>1 DEF ReadCurrent
    <2>4. CASE d # c BY <1>2, <1>3, <1>4, <2>2, <2>4 DEF ReadCurrent
    <2>5. QED BY <2>3, <2>4
  <1>8. \A d \in Clients : WillLoad(d) => WillLoad(d)'
    BY <1>1, <1>2, <1>3 DEF WillLoad, At, LoadPhases
  <1>9. QED BY <1>3, <1>4, <1>6, <1>7, <1>8 DEF LoadInv

\* And installs it; one that missed a write marks the snapshot.
LEMMA InstallKeepsLoad ==
  ASSUME RulesTypeOK, LoadInv, NEW c \in Clients, LoadInstalls(c) PROVE LoadInv'
  <1>1. UNCHANGED <<table, parse>> /\ snap' = got[c] /\ op[c].pc = "install" /\ Ends(c)
        /\ stale' = (c \in missed)
    BY DEF LoadInstalls, ruleVars, At
  <1>2. op'[c].pc = "idle" /\ \A d \in Clients : d # c => op'[d] = op[d] /\ got'[d] = got[d]
    BY <1>1 DEF RulesTypeOK, ClientTypes, Ends, Idle
  <1>3. missed' = missed \ {c} BY <1>1 DEF Ends
  <1>4. UNCHANGED <<NoiseRules, SeverityRules, Current>>
    BY <1>1 DEF NoiseRules, SeverityRules, Current
  <1>5. missed' \subseteq Loading' BY <1>2, <1>3 DEF LoadInv, Loading
  <1>6. \A d \in Clients \ missed' : ReadCurrent(d)'
    <2>1. SUFFICES ASSUME NEW d \in Clients, d \notin missed' PROVE ReadCurrent(d)' OBVIOUS
    <2>2. CASE d = c BY <1>2, <2>2 DEF ReadCurrent
    <2>3. CASE d # c BY <1>1, <1>2, <1>3, <1>4, <2>1, <2>3 DEF LoadInv, ReadCurrent
    <2>4. QED BY <2>2, <2>3
  <1>7. c \in missed \/ snap' = Current'
    <2>1. SUFFICES ASSUME c \notin missed PROVE snap' = Current BY <1>4
    <2>2. got[c] \in Reads /\ ReadCurrent(c) BY <2>1 DEF LoadInv, RulesTypeOK, ClientTypes
    <2>3. QED BY <1>1, <2>2 DEF ReadCurrent, Current, Reads
  <1>8. QED BY <1>1, <1>5, <1>6, <1>7 DEF LoadInv

\* Counts are no part of what a Load reads.
LEMMA OthersKeepLoad ==
  ASSUME RulesTypeOK, LoadInv, UNCHANGED <<parse, snap, op, got, missed, stale>>,
         \A t \in Tables, i \in Ids :
           Plain(table'[t][i]) = Plain(table[t][i]) /\ (table[t][i] # None => table'[t][i] # None)
  PROVE  LoadInv'
  <1>1. NoiseRules' = NoiseRules /\ SeverityRules' = SeverityRules
    BY DEF NoiseRules, SeverityRules, Tables
  <1>2. UNCHANGED Current /\ UNCHANGED Loading BY <1>1 DEF Current, Loading
  <1>3. \A d \in Clients : ReadCurrent(d) => ReadCurrent(d)' BY <1>1 DEF ReadCurrent
  <1>4. \A d \in Clients : WillLoad(d) => WillLoad(d)'
    <2>1. SUFFICES ASSUME NEW d \in Clients, op[d].pc = "back", table[op[d].tbl][op[d].id] # None
                   PROVE  table'[op[d].tbl][op[d].id] # None
      BY DEF WillLoad
    <2>2. op[d].tbl \in Tables /\ op[d].id \in Ids BY <2>1, OpShape DEF RulesTypeOK, At, BackOps
    <2>3. QED BY <2>1, <2>2
  <1>5. QED BY <1>2, <1>3, <1>4 DEF LoadInv

\* Together: an outdated snapshot has somebody who will replace it.
LEMMA StepKeepsLoad == ASSUME RulesTypeOK, LoadInv, [Next]_vars PROVE LoadInv'
  <1>1. CASE UNCHANGED <<table, parse, snap, op, got, missed, stale>> BY <1>1, OthersKeepLoad
  <1>2. CASE Next
    <2>1. CASE \E c \in Clients : \E o : MovesOn(c, o) BY <2>1, MovesKeepLoad
    <2>2. CASE \E c \in Clients, t \in Tables, i \in Ids : UpsertWrites(c, t, i) \/ DeleteWrites(c, t, i)
      BY <2>2, WritesKeepLoad
    <2>3. CASE \E c \in Clients : SetProjectParseBodies(c) \/ LoadReads(c) \/ LoadInstalls(c)
      BY <2>3, WritesKeepLoad, ReadKeepsLoad, InstallKeepsLoad
    <2>4. CASE WriterTakes \/ Lift \/ Decide
      BY <1>1, <2>4 DEF WriterTakes, Lift, Decide, ruleVars, engineVars, clientVars, historyVars
    <2>5. CASE \E t \in Tables : FlushTakes(t) \/ FoldBack(t) \/ AddCounts(t)
      <3>1. PICK t \in Tables : FlushTakes(t) \/ FoldBack(t) \/ AddCounts(t) BY <2>5
      <3>2. CASE FlushTakes(t) \/ FoldBack(t)
        BY <1>1, <3>2 DEF FlushTakes, FoldBack, ruleVars, clientVars, historyVars
      <3>3. CASE AddCounts(t)
        <4>1. UNCHANGED <<parse, snap, op, got, missed, stale>>
          BY <3>3 DEF AddCounts, clientVars, historyVars
        <4>2. ASSUME NEW u \in Tables, NEW i \in Ids
              PROVE  Plain(table'[u][i]) = Plain(table[u][i]) /\ (table[u][i] # None => table'[u][i] # None)
          <5>1. CASE u # t
            <6>1. table'[u] = table[u] BY <3>3, <5>1, StoreDoes
            <6>2. QED BY <6>1
          <5>2. CASE u = t
            <6>1. /\ table'[t][i] = None <=> table[t][i] = None
                  /\ table[t][i] # None => table'[t][i] = [table[t][i] EXCEPT !.count = @ + taken[i]]
              BY <3>3, StoreDoes
            <6>2. table[t][i] # None => table[t][i] \in Rows(WhatsOf(t)) BY CountNumbers
            <6>3. QED BY <5>2, <6>1, <6>2 DEF Plain, Rows
          <5>3. QED BY <5>1, <5>2
        <4>3. QED BY <4>1, <4>2, OthersKeepLoad
      <3>4. QED BY <3>1, <3>2, <3>3
    <2>6. QED BY <1>2, <2>1, <2>2, <2>3, <2>4, <2>5, NextSteps
  <1>3. CASE UNCHANGED vars
    BY <1>1, <1>3 DEF vars, ruleVars, engineVars, clientVars, historyVars
  <1>4. QED BY <1>2, <1>3

\* Engine.Load: between operations the engine decides by what is stored,
\* unless the Load installed last missed a write or an operation failed
\* after its own.
THEOREM SnapshotIsCurrent == Spec => []SnapshotCurrent
  <1> DEFINE IInv == RulesTypeOK /\ LoadInv
  <1>1. Init => IInv
    <2>1. SUFFICES ASSUME Init PROVE LoadInv BY InitTypes
    <2>2. missed = {} /\ snap = Current /\ \A c \in Clients : op[c].pc = "idle"
      BY <2>1 DEF Init, Current, Idle
    <2>3. QED BY <2>2 DEF LoadInv, ReadCurrent
  <1>2. IInv /\ [Next]_vars => IInv' BY StepKeepsTypes, StepKeepsLoad
  <1>3. IInv => SnapshotCurrent BY DEF LoadInv, WillLoad, LoadPhases, SnapshotCurrent, Current
  <1>4. QED BY <1>1, <1>2, <1>3, PTL DEF Spec

-----------------------------------------------------------------------------
(* SampleExact *)

\* A quotient is what it is divided into.
LEMMA Quotient ==
  ASSUME NEW a \in Nat, NEW n \in Nat, n > 0, NEW q \in Nat, NEW r \in Nat, r < n, a = n * q + r
  PROVE  a \div n = q
  OBVIOUS

\* Of every n matching logs one survives: the next does when n divides the
\* number of those before it.
LEMMA NextSurvivor ==
  ASSUME NEW s \in Nat, NEW n \in Nat, n > 1
  PROVE  (s + 1 + n - 1) \div n = (s + n - 1) \div n + (IF s % n = 0 THEN 1 ELSE 0)
  <1> DEFINE q == s \div n
             r == s % n
  <1>1. s = n * q + r /\ r < n /\ q \in Nat /\ r \in Nat OBVIOUS
  <1> HIDE DEF q, r
  <1>2. n * (q + 1) = n * q + n BY <1>1
  <1>3. CASE r = 0
    <2>1. s + n - 1 = n * q + (n - 1) /\ n - 1 \in Nat /\ n - 1 < n BY <1>1, <1>3
    <2>2. (s + n - 1) \div n = q BY <1>1, <2>1, Quotient
    <2>3. s + 1 + n - 1 = n * (q + 1) + 0 BY <1>1, <1>2, <1>3
    <2>4. (s + 1 + n - 1) \div n = q + 1
      <3>1. s + 1 + n - 1 \in Nat /\ q + 1 \in Nat BY <1>1
      <3>2. QED BY <2>3, <3>1, Quotient
    <2>5. QED BY <1>1, <1>3, <2>2, <2>4 DEF r
  <1>4. CASE r # 0
    <2>1. s + n - 1 = n * (q + 1) + (r - 1) /\ r - 1 \in Nat /\ r - 1 < n /\ q + 1 \in Nat
      BY <1>1, <1>2, <1>4
    <2>2. (s + n - 1) \div n = q + 1 BY <2>1, Quotient
    <2>3. s + 1 + n - 1 = n * (q + 1) + r BY <1>1, <1>2
    <2>4. (s + 1 + n - 1) \div n = q + 1
      <3>1. s + 1 + n - 1 \in Nat BY <1>1
      <3>2. QED BY <1>1, <2>1, <2>3, <3>1, Quotient
    <2>5. QED BY <1>1, <1>4, <2>2, <2>4 DEF r
  <1>5. QED BY <1>3, <1>4

(* SampleInv, an id at a time. *)
Agreed(i) == \E w \in NoiseWhats : AllSay(i, w) /\ Survivors(i, w)

\* A step after which everyone who holds a rule held it before keeps what
\* they agree on, and what has survived.
LEMMA SameHoldersAgree ==
  ASSUME NEW i \in Ids, Agreed(i),
         \A w : AllSay(i, w) => AllSay(i, w)', seen'[i] = seen[i], kept'[i] = kept[i]
  PROVE  Agreed(i)'
  <1>1. PICK w \in NoiseWhats : AllSay(i, w) /\ Survivors(i, w) BY DEF Agreed
  <1>2. AllSay(i, w)' BY <1>1
  <1>3. Survivors(i, w)' BY <1>1 DEF Survivors
  <1>4. QED BY <1>2, <1>3 DEF Agreed

\* A new rule is held by nobody else; an update with the same parameters
\* changes nobody's mind.
LEMMA UpsertKeepsSample ==
  ASSUME RulesTypeOK, BornInv, SampleInv, NEW c \in Clients, NEW t \in Tables, NEW i \in Ids,
         UpsertWrites(c, t, i)
  PROVE  SampleInv'
  <1>1. UNCHANGED <<counters, seen, kept, snap, writer, got>> /\ changed \subseteq changed'
    BY DEF UpsertWrites, engineVars, tallyVars
  <1>2. op'[c].pc = "back" /\ \A d \in Clients : d # c => op'[d] = op[d]
    BY DEF UpsertWrites, RulesTypeOK, ClientTypes
  <1>3. ASSUME NEW j \in Ids, <<"noise", j>> \notin changed', t # "noise" \/ j # i PROVE Agreed(j)'
    <2>1. table'["noise"][j] = table["noise"][j] BY <1>3, UpsertOthers DEF Tables
    <2>2. \A w : AllSay(j, w) => AllSay(j, w)' BY <1>1, <1>2, <2>1 DEF AllSay, Says
    <2>3. Agreed(j) BY <1>1, <1>3 DEF SampleInv, Agreed
    <2>4. QED BY <1>1, <2>2, <2>3, SameHoldersAgree
  <1>4. ASSUME t = "noise", <<"noise", i>> \notin changed' PROVE Agreed(i)'
    <2>1. PICK what \in NoiseWhats : what = op[c].what BY <1>4 DEF UpsertWrites, WhatsOf
    <2>2. table'["noise"][i].what = what
      <3>1. table'[t][i] = [project |-> op[c].project, what |-> op[c].what, enabled |-> op[c].enabled,
                            count |-> IF op[c].id = 0 THEN 0 ELSE table[t][i].count]
        BY UpsertRow
      <3>2. QED BY <1>4, <2>1, <3>1
    <2>3. CASE table["noise"][i] = None
      <3>1. <<"noise", i>> \notin born BY <1>4, <2>3 DEF UpsertWrites
      <3>2. /\ snap.noise[i] = None
            /\ \A d \in Clients : op[d].pc \in {"sev", "projects", "install"} => got[d].noise[i] = None
            /\ writer.pc = "decide" => writer.rules[i] = None
            /\ seen[i] = 0 /\ kept[i] = 0
        BY <3>1 DEF BornInv, Holds
      <3>3. AllSay(i, what)' BY <1>1, <1>2, <2>2, <3>2 DEF AllSay, Says
      <3>4. Survivors(i, what)' BY <1>1, <2>1, <3>2 DEF Survivors, NoiseWhats
      <3>5. QED BY <2>1, <3>3, <3>4 DEF Agreed
    <2>4. CASE table["noise"][i] # None
      <3>1. table["noise"][i].what = what BY <1>4, <2>1, <2>4 DEF UpsertWrites
      <3>2. Agreed(i) BY <1>1, <1>4 DEF SampleInv, Agreed
      <3>3. \A w : AllSay(i, w) => AllSay(i, w)'
        BY <1>1, <1>2, <2>2, <2>4, <3>1 DEF AllSay, Says
      <3>4. QED BY <1>1, <3>2, <3>3, SameHoldersAgree
    <2>5. QED BY <2>3, <2>4
  <1>5. \A j \in Ids : <<"noise", j>> \notin changed' => Agreed(j)' BY <1>3, <1>4
  <1>6. QED BY <1>1, <1>5 DEF SampleInv, Agreed

\* A log is counted by whoever samples it, and survives when its turn has
\* come.
LEMMA DecideKeepsSample ==
  ASSUME RulesTypeOK, SampleInv, Decide PROVE SampleInv'
  <1>1. PICK hits : Decides(hits) BY DecideDoes
  <1>2. UNCHANGED <<table, snap, op, got, changed>> /\ writer' = AtRest /\ writer.pc = "decide"
    BY DEF Decide, ruleVars, clientVars, birthVars
  <1>3. counters' = seen' BY <1>1 DEF SampleInv, Decides
  <1>4. ASSUME NEW i \in Ids, <<"noise", i>> \notin changed' PROVE Agreed(i)'
    <2>1. \A w : AllSay(i, w) => AllSay(i, w)' BY <1>2 DEF AllSay, AtRest
    <2>2. Agreed(i) BY <1>2, <1>4 DEF SampleInv, Agreed
    <2>3. CASE i \notin Sampled(hits)
      <3>1. seen'[i] = seen[i] /\ kept'[i] = kept[i] BY <1>1, <2>3 DEF Decides, Plus1
      <3>2. QED BY <2>1, <2>2, <3>1, SameHoldersAgree
    <2>4. CASE i \in Sampled(hits)
      <3>1. PICK w \in NoiseWhats : AllSay(i, w) /\ Survivors(i, w) BY <2>2 DEF Agreed
      <3>2. i \in hits /\ writer.rules[i].what.kind = "sample" BY <2>4 DEF Sampled, Asked
      <3>3. writer.rules[i].what = w /\ w.n > 1 /\ w.kind = "sample"
        BY <1>1, <1>2, <3>1, <3>2 DEF Decides, AllSay, Says
      <3>4. w.n \in Nat /\ seen[i] \in Nat /\ kept[i] \in Nat /\ counters[i] = seen[i]
        BY DEF NoiseWhats, RulesTypeOK, TallyTypes, Counts, SampleInv
      <3>5. i \notin Drops(hits) <=> seen[i] % w.n = 0
        BY <3>2, <3>3, <3>4 DEF Drops, Survives
      <3>6. seen'[i] = seen[i] + 1 /\ kept'[i] = kept[i] + (IF seen[i] % w.n = 0 THEN 1 ELSE 0)
        BY <1>1, <2>4, <3>4, <3>5 DEF Decides, Plus1
      <3>7. kept[i] = (seen[i] + w.n - 1) \div w.n BY <3>1, <3>3 DEF Survivors
      <3>8. (seen[i] + 1 + w.n - 1) \div w.n
              = (seen[i] + w.n - 1) \div w.n + (IF seen[i] % w.n = 0 THEN 1 ELSE 0)
        BY <3>3, <3>4, NextSurvivor
      <3>9. kept'[i] = (seen'[i] + w.n - 1) \div w.n BY <3>6, <3>7, <3>8
      <3>10. Survivors(i, w)' BY <3>9 DEF Survivors
      <3>11. AllSay(i, w)' BY <2>1, <3>1
      <3>12. QED BY <3>10, <3>11 DEF Agreed
    <2>5. QED BY <2>3, <2>4
  <1>5. QED BY <1>3, <1>4 DEF SampleInv, Agreed

\* The other steps hand rules on.
LEMMA OthersKeepSample ==
  ASSUME SampleInv, UNCHANGED <<counters, seen, kept, changed>>,
         \A i \in Ids : \A w : AllSay(i, w) => AllSay(i, w)'
  PROVE  SampleInv'
  <1>1. ASSUME NEW i \in Ids, <<"noise", i>> \notin changed' PROVE Agreed(i)'
    <2>1. Agreed(i) BY <1>1 DEF SampleInv, Agreed
    <2>2. QED BY <2>1, SameHoldersAgree
  <1>2. QED BY <1>1 DEF SampleInv, Agreed

\* A client that goes on, the toggle and a delete.
LEMMA ClientsKeepSample ==
  ASSUME RulesTypeOK, SampleInv, NEW c \in Clients,
         \/ \E o : MovesOn(c, o)
         \/ SetProjectParseBodies(c)
         \/ \E t \in Tables, i \in Ids : DeleteWrites(c, t, i)
  PROVE  SampleInv'
  <1>1. UNCHANGED <<counters, seen, kept, changed, snap, writer>>
    BY DEF MovesOn, Moves, SetProjectParseBodies, DeleteWrites, engineVars, tallyVars, birthVars, writerVars
  <1>2. /\ op'[c].pc \notin {"sev", "projects", "install"}
        /\ \A d \in Clients : d # c => op'[d] = op[d] /\ got'[d] = got[d]
    <2>1. CASE \E o : MovesOn(c, o) BY <2>1 DEF MovesOn, Moves, RulesTypeOK, ClientTypes, Ends
    <2>2. CASE SetProjectParseBodies(c) BY <2>2 DEF SetProjectParseBodies, Loads, RulesTypeOK, ClientTypes
    <2>3. CASE \E t \in Tables, i \in Ids : DeleteWrites(c, t, i)
      BY <2>3 DEF DeleteWrites, Loads, RulesTypeOK, ClientTypes
    <2>4. QED BY <2>1, <2>2, <2>3
  <1>3. \A i \in Ids : table'["noise"][i] = table["noise"][i] \/ table'["noise"][i] = None
    <2>1. CASE UNCHANGED table BY <2>1
    <2>2. CASE \E t \in Tables, i \in Ids : DeleteWrites(c, t, i)
      <3>1. PICK t \in Tables, i \in Ids : DeleteWrites(c, t, i) BY <2>2
      <3>2. QED BY <3>1, DeleteTable DEF Tables
    <2>3. QED BY <2>1, <2>2 DEF MovesOn, Moves, SetProjectParseBodies, ruleVars
  <1>4. \A i \in Ids : \A w : AllSay(i, w) => AllSay(i, w)' BY <1>1, <1>2, <1>3 DEF AllSay, Says
  <1>5. QED BY <1>1, <1>4, OthersKeepSample

\* A Load, which reads the table and installs what it read.
LEMMA LoadKeepsSample ==
  ASSUME RulesTypeOK, SampleInv, NEW c \in Clients, LoadReads(c) \/ LoadInstalls(c) PROVE SampleInv'
  <1>1. CASE LoadReads(c)
    <2>1. PICK g \in Reads, o \in Ops :
             /\ OwnWhat(o) /\ op' = [op EXCEPT ![c] = o] /\ got' = [got EXCEPT ![c] = g]
             /\ \/ At(c, "noise") /\ o.pc = "sev" /\ g = [got[c] EXCEPT !.noise = NoiseRules]
                \/ At(c, "sev") /\ o.pc = "projects" /\ g = [got[c] EXCEPT !.sev = SeverityRules]
                \/ At(c, "projects") /\ o.pc = "install" /\ g = [got[c] EXCEPT !.parse = parse]
             /\ UNCHANGED <<ruleVars, engineVars, writer, historyVars>>
      BY <1>1, ReadDoes
    <2>2. op'[c] = o /\ got'[c] = g /\ \A d \in Clients : d # c => op'[d] = op[d] /\ got'[d] = got[d]
      BY <2>1 DEF RulesTypeOK, ClientTypes
    <2>3. UNCHANGED <<table, snap, writer, counters, seen, kept, changed>>
      BY <2>1 DEF ruleVars, engineVars, historyVars, tallyVars, birthVars
    <2>4. got[c] \in Reads BY DEF RulesTypeOK, ClientTypes
    <2>5. (op[c].pc = "noise" /\ g.noise = NoiseRules) \/ (op[c].pc \in {"sev", "projects"} /\ g.noise = got[c].noise)
      BY <2>1, <2>4 DEF At, Reads
    <2>6. ASSUME NEW i \in Ids, NEW w, AllSay(i, w) PROVE AllSay(i, w)'
      <3>1. Says(NoiseRules[i], w)
        <4>1. NoiseRules[i] = Plain(table["noise"][i]) BY DEF NoiseRules
        <4>2. table["noise"][i] # None => table["noise"][i] \in Rows(WhatsOf("noise"))
          BY CountNumbers DEF Tables
        <4>3. QED BY <2>6, <4>1, <4>2 DEF AllSay, Says, Plain, Rows
      <3>2. Says(g.noise[i], w) BY <2>5, <2>6, <3>1 DEF AllSay
      <3>3. QED BY <2>2, <2>3, <2>6, <3>2 DEF AllSay, Says
    <2>7. QED BY <2>3, <2>6, OthersKeepSample
  <1>2. CASE LoadInstalls(c)
    <2>1. snap' = got[c] /\ op[c].pc = "install" /\ Ends(c)
          /\ UNCHANGED <<table, writer, counters, seen, kept, changed>>
      BY <1>2 DEF LoadInstalls, At, ruleVars, tallyVars, birthVars, writerVars
    <2>2. op'[c].pc = "idle" /\ \A d \in Clients : d # c => op'[d] = op[d] /\ got'[d] = got[d]
      BY <2>1 DEF RulesTypeOK, ClientTypes, Ends, Idle
    <2>3. \A i \in Ids : \A w : AllSay(i, w) => AllSay(i, w)' BY <2>1, <2>2 DEF AllSay, Says
    <2>4. QED BY <2>1, <2>3, OthersKeepSample
  <1>3. QED BY <1>1, <1>2

\* The writer that has not decided, and the flush loop.
LEMMA WriterKeepsSample ==
  ASSUME RulesTypeOK, SampleInv,
         WriterTakes \/ Lift \/ \E t \in Tables : FlushTakes(t) \/ FoldBack(t) \/ AddCounts(t)
  PROVE  SampleInv'
  <1>1. UNCHANGED <<counters, seen, kept, changed, snap, op, got>>
    BY DEF WriterTakes, Lift, FlushTakes, FoldBack, AddCounts, engineVars, clientVars, historyVars, tallyVars,
           birthVars
  <1>2. UNCHANGED writer \/ writer'.pc = "lift" \/ (writer'.pc = "decide" /\ writer'.rules = snap.noise)
    <2>1. CASE WriterTakes BY <2>1 DEF WriterTakes
    <2>2. CASE Lift BY <2>2, LiftDoes
    <2>3. CASE \E t \in Tables : FlushTakes(t) \/ FoldBack(t) \/ AddCounts(t)
      BY <2>3 DEF FlushTakes, FoldBack, AddCounts, writerVars
    <2>4. QED BY <2>1, <2>2, <2>3
  <1>3. ASSUME NEW i \in Ids, NEW w, Says(table["noise"][i], w) PROVE Says(table["noise"][i], w)'
    <2>1. CASE UNCHANGED table["noise"] BY <1>3, <2>1 DEF Says
    <2>2. CASE AddCounts("noise")
      <3>1. /\ table'["noise"][i] = None <=> table["noise"][i] = None
            /\ table["noise"][i] # None =>
                 table'["noise"][i] = [table["noise"][i] EXCEPT !.count = @ + taken[i]]
        BY <2>2, StoreDoes DEF Tables
      <3>2. table["noise"][i] # None => table["noise"][i] \in Rows(WhatsOf("noise"))
        BY CountNumbers DEF Tables
      <3>3. QED BY <1>3, <3>1, <3>2 DEF Says, Rows
    <2>3. CASE AddCounts("sev")
      <3>1. table'["noise"] = table["noise"] BY <2>3, StoreDoes DEF Tables
      <3>2. QED BY <2>1, <3>1
    <2>4. QED BY <2>1, <2>2, <2>3 DEF Tables, WriterTakes, Lift, FlushTakes, FoldBack, ruleVars
  <1>4. \A i \in Ids : \A w : AllSay(i, w) => AllSay(i, w)' BY <1>1, <1>2, <1>3 DEF AllSay
  <1>5. QED BY <1>1, <1>4, OthersKeepSample

\* Together: who holds a rule that did not change agrees on its parameters.
LEMMA StepKeepsSample == ASSUME RulesTypeOK, BornInv, SampleInv, [Next]_vars PROVE SampleInv'
  <1>1. CASE Next
    <2>1. CASE \E c \in Clients : \E o : MovesOn(c, o) BY <2>1, ClientsKeepSample
    <2>2. CASE \E c \in Clients, t \in Tables, i \in Ids : UpsertWrites(c, t, i) \/ DeleteWrites(c, t, i)
      BY <2>2, UpsertKeepsSample, ClientsKeepSample
    <2>3. CASE \E c \in Clients : SetProjectParseBodies(c) \/ LoadReads(c) \/ LoadInstalls(c)
      BY <2>3, ClientsKeepSample, LoadKeepsSample
    <2>4. CASE WriterTakes \/ Lift \/ Decide BY <2>4, WriterKeepsSample, DecideKeepsSample
    <2>5. CASE \E t \in Tables : FlushTakes(t) \/ FoldBack(t) \/ AddCounts(t) BY <2>5, WriterKeepsSample
    <2>6. QED BY <1>1, <2>1, <2>2, <2>3, <2>4, <2>5, NextSteps
  <1>2. CASE UNCHANGED vars
    <2>1. UNCHANGED <<counters, seen, kept, changed, table, snap, op, got, writer>>
      BY <1>2 DEF vars, ruleVars, engineVars, clientVars, writerVars, historyVars, tallyVars, birthVars
    <2>2. \A i \in Ids : \A w : AllSay(i, w) => AllSay(i, w)' BY <2>1 DEF AllSay, Says
    <2>3. QED BY <2>1, <2>2, OthersKeepSample
  <1>3. QED BY <1>1, <1>2

\* Decide: of the logs in a sample rule's band exactly the first of every n
\* survive it, across reloads and updates of the rule's other fields.
THEOREM SampleIsExact == Spec => []SampleExact
  <1> DEFINE IInv == RulesTypeOK /\ BornInv /\ SampleInv
  <1>1. Init => IInv
    <2>1. SUFFICES ASSUME Init PROVE SampleInv BY InitTypes, InitBorn
    <2>2. ASSUME NEW i \in Ids PROVE Agreed(i)
      <3>1. /\ snap.noise = NoiseRules /\ NoiseRules[i] = Plain(table["noise"][i])
            /\ \A c \in Clients : op[c].pc = "idle"
            /\ writer.pc = "idle" /\ seen[i] = 0 /\ kept[i] = 0
        BY <2>1 DEF Init, NoiseRules, Idle, AtRest, NoCounts
      <3>2. table["noise"][i] = None \/ table["noise"][i] \in Rows(NoiseWhats)
        BY <2>1, InitTypes, RowOf DEF RulesTypeOK, Tables, WhatsOf
      <3>3. CASE table["noise"][i] # None
        <4> DEFINE w == table["noise"][i].what
        <4>1. w \in NoiseWhats BY <3>2, <3>3 DEF Rows
        <4>2. AllSay(i, w) BY <3>1, <3>2, <3>3 DEF AllSay, Says, Plain, Rows
        <4>3. Survivors(i, w) BY <3>1, <4>1 DEF Survivors, NoiseWhats
        <4>4. QED BY <4>1, <4>2, <4>3 DEF Agreed
      <3>4. CASE table["noise"][i] = None
        <4> DEFINE w == [kind |-> "drop_match", service |-> {}, severity |-> 0, pattern |-> {}, n |-> 0]
        <4>1. w \in NoiseWhats /\ w.n = 0 BY DEF NoiseWhats
        <4>2. AllSay(i, w) BY <3>1, <3>4 DEF AllSay, Says, Plain
        <4>3. Survivors(i, w) BY <4>1 DEF Survivors
        <4>4. QED BY <4>1, <4>2, <4>3 DEF Agreed
      <3>5. QED BY <3>3, <3>4
    <2>3. counters = seen BY <2>1 DEF Init
    <2>4. QED BY <2>2, <2>3 DEF SampleInv, Agreed
  <1>2. IInv /\ [Next]_vars => IInv' BY StepKeepsTypes, StepKeepsBorn, StepKeepsSample
  <1>3. IInv => SampleExact BY DEF SampleInv, SampleExact, AllSay, Says, Survivors
  <1>4. QED BY <1>1, <1>2, <1>3, PTL DEF Spec

-----------------------------------------------------------------------------
(* CapHeld *)

(* The rules that count against the cap of project p, and the creates. *)
Counted(p) == SevOf(p) \ moved
Held(p) == Cardinality(Counted(p)) + Cardinality(Creating(p))

\* They are finitely many.
LEMMA CapFinite ==
  ASSUME NEW p \in Projects
  PROVE  /\ IsFiniteSet(SevOf(p)) /\ IsFiniteSet(Counted(p)) /\ IsFiniteSet(Creating(p))
         /\ Cardinality(Counted(p)) \in Nat /\ Cardinality(Counted(p)) <= Cardinality(SevOf(p))
         /\ Cardinality(SevOf(p)) \in Nat
         /\ Cardinality(Creating(p)) \in Nat /\ Cardinality(Creating(p)) <= Cardinality(Clients)
         /\ Cardinality(Clients) \in Nat /\ Cap \in Nat
  <1>1. SevOf(p) \subseteq Ids /\ Counted(p) \subseteq SevOf(p) BY DEF SevOf, Present, Counted
  <1>2. IsFiniteSet(SevOf(p)) BY <1>1, IdsAre, FS_Subset
  <1>3. IsFiniteSet(Counted(p)) /\ Cardinality(Counted(p)) <= Cardinality(SevOf(p))
    BY <1>1, <1>2, FS_Subset
  <1>4. IsFiniteSet(Clients) /\ Creating(p) \subseteq Clients BY RulesAssumption DEF Creating
  <1>5. IsFiniteSet(Creating(p)) /\ Cardinality(Creating(p)) <= Cardinality(Clients) BY <1>4, FS_Subset
  <1>6. QED BY <1>2, <1>3, <1>4, <1>5, FS_CardinalityType, RulesAssumption

\* A step after which no more rules count, and no more creates.
LEMMA CapShrinks ==
  ASSUME NEW p \in Projects, Counted(p)' \subseteq Counted(p), Creating(p)' \subseteq Creating(p)
  PROVE  Held(p)' <= Held(p)
  <1>1. /\ IsFiniteSet(Counted(p)) /\ IsFiniteSet(Creating(p))
        /\ Cardinality(Counted(p)) \in Nat /\ Cardinality(Creating(p)) \in Nat
    BY CapFinite
  <1>2. Cardinality(Counted(p)') <= Cardinality(Counted(p)) /\ IsFiniteSet(Counted(p)')
    BY <1>1, FS_Subset
  <1>3. Cardinality(Creating(p)') <= Cardinality(Creating(p)) /\ IsFiniteSet(Creating(p)')
    BY <1>1, FS_Subset
  <1>4. Cardinality(Counted(p)') \in Nat /\ Cardinality(Creating(p)') \in Nat
    BY <1>2, <1>3, FS_CardinalityType
  <1>5. QED BY <1>1, <1>2, <1>3, <1>4 DEF Held

(* CapInv, a project at a time. *)
Capped(p) == Held(p) <= Cap + Cardinality(Clients) - 1

\* Such a step keeps the project within the cap and the creates that race.
LEMMA CapKept ==
  ASSUME NEW p \in Projects, Capped(p), Counted(p)' \subseteq Counted(p), Creating(p)' \subseteq Creating(p)
  PROVE  Capped(p)'
  <1>1. Held(p)' <= Held(p) BY CapShrinks
  <1>2. Held(p) \in Nat /\ Cardinality(Clients) \in Nat /\ Cap \in Nat BY CapFinite DEF Held
  <1>3. Held(p)' \in Nat
    <2>1. IsFiniteSet(Counted(p)') /\ IsFiniteSet(Creating(p)') BY CapFinite, FS_Subset
    <2>2. Cardinality(Counted(p)') \in Nat /\ Cardinality(Creating(p)') \in Nat
      BY <2>1, FS_CardinalityType
    <2>3. QED BY <2>2 DEF Held
  <1>4. QED BY <1>1, <1>2, <1>3 DEF Capped

\* CapInv says it of every project.
LEMMA CappedIsCapInv == CapInv <=> \A p \in Projects : Capped(p)
  BY DEF CapInv, Capped, Held, Counted

\* A create is counted before it is a create: at that moment the project
\* has room, and no more creates than clients.
LEMMA MovesKeepCap ==
  ASSUME RulesTypeOK, CapInv, NEW c \in Clients, NEW o, MovesOn(c, o) PROVE CapInv'
  <1>1. UNCHANGED <<table, moved>> BY DEF MovesOn, Moves, ruleVars, birthVars
  <1>2. op'[c] = o /\ \A d \in Clients : d # c => op'[d] = op[d]
    BY DEF RulesTypeOK, ClientTypes, MovesOn, Moves
  <1>3. \A p \in Projects : SevOf(p)' = SevOf(p) /\ Counted(p)' = Counted(p)
    BY <1>1 DEF SevOf, Present, Counted
  <1>4. ASSUME NEW p \in Projects PROVE Capped(p)'
    <2>1. Capped(p) BY CappedIsCapInv
    <2>2. CASE o.pc = "write" /\ o.do = "upsert" /\ o.tbl = "sev" /\ o.id = 0 /\ o.project = p
      <3>1. Cardinality(SevOf(p)) < Cap BY <2>2 DEF MovesOn
      <3>2. Creating(p)' \subseteq Clients BY DEF Creating
      <3>3. IsFiniteSet(Clients) BY RulesAssumption
      <3>4. IsFiniteSet(Creating(p)') /\ Cardinality(Creating(p)') <= Cardinality(Clients)
        BY <3>2, <3>3, FS_Subset
      <3>5. Cardinality(Creating(p)') \in Nat BY <3>4, FS_CardinalityType
      <3>6. Cardinality(Counted(p)) <= Cap - 1 BY <3>1, CapFinite
      <3>7. Held(p)' = Cardinality(Counted(p)) + Cardinality(Creating(p)') BY <1>3 DEF Held
      <3>8. QED BY <3>4, <3>5, <3>6, <3>7, CapFinite DEF Capped
    <2>3. CASE ~(o.pc = "write" /\ o.do = "upsert" /\ o.tbl = "sev" /\ o.id = 0 /\ o.project = p)
      <3>1. Creating(p)' \subseteq Creating(p) BY <1>2, <2>3 DEF Creating
      <3>2. QED BY <1>3, <2>1, <3>1, CapKept
    <2>4. QED BY <2>2, <2>3
  <1>5. QED BY <1>4 DEF CapInv, Capped, Held, Counted

\* A rule that is written was a create, or was there, or was moved in.
LEMMA UpsertKeepsCap ==
  ASSUME RulesTypeOK, CapInv, NEW c \in Clients, NEW t \in Tables, NEW i \in Ids, UpsertWrites(c, t, i)
  PROVE  CapInv'
  <1>1. /\ moved \ {i} \subseteq moved'
        /\ t # "sev" => moved' = moved
        /\ op[c].id # 0 => moved \subseteq moved'
    BY DEF UpsertWrites
  <1>2. op'[c].pc = "back" /\ \A d \in Clients : d # c => op'[d] = op[d]
    BY DEF UpsertWrites, RulesTypeOK, ClientTypes
  <1>3. \A p \in Projects : Creating(p)' = Creating(p) \ {c} BY <1>2 DEF Creating
  <1>4. \A u \in Tables, j \in Ids : u # t \/ j # i => table'[u][j] = table[u][j] BY UpsertOthers
  <1>5. table'[t][i] # None /\ table'[t][i].project = op[c].project
    <2>1. table'[t][i] # None BY UpsertRow
    <2>2. table'[t][i] = [project |-> op[c].project, what |-> op[c].what, enabled |-> op[c].enabled,
                          count |-> IF op[c].id = 0 THEN 0 ELSE table[t][i].count]
      BY UpsertRow
    <2>3. QED BY <2>1, <2>2
  <1>6. ASSUME NEW p \in Projects PROVE Capped(p)'
    <2>1. Capped(p) BY CappedIsCapInv
    <2>2. Counted(p)' \subseteq Counted(p) \cup {i}
      BY <1>1, <1>4 DEF Counted, SevOf, Present, Tables
    <2>3. CASE t = "noise" \/ op[c].project # p \/ op[c].id # 0
      <3>1. i \in Counted(p)' => i \in Counted(p)
        <4>1. CASE t = "noise" BY <1>1, <1>4, <4>1 DEF Counted, SevOf, Present, Tables
        <4>2. CASE t = "sev" /\ op[c].project # p BY <1>5, <4>2 DEF Counted, SevOf
        <4>3. CASE t = "sev" /\ op[c].project = p /\ op[c].id # 0
          <5>1. table["sev"][i] # None BY <4>3 DEF UpsertWrites
          <5>2. moved' = IF table["sev"][i].project # op[c].project THEN moved \cup {i} ELSE moved
            BY <4>3 DEF UpsertWrites
          <5>3. table["sev"][i].project # p => i \in moved' BY <4>3, <5>2
          <5>4. QED BY <1>1, <4>3, <5>1, <5>3 DEF Counted, SevOf, Present
        <4>4. QED BY <2>3, <4>1, <4>2, <4>3 DEF Tables
      <3>2. Counted(p)' \subseteq Counted(p) BY <2>2, <3>1
      <3>3. QED BY <1>3, <2>1, <3>2, CapKept
    <2>4. CASE t = "sev" /\ op[c].project = p /\ op[c].id = 0
      <3>1. c \in Creating(p) BY <2>4 DEF Creating, UpsertWrites, WriteUpsertOps
      <3>2. IsFiniteSet(Creating(p)) /\ IsFiniteSet(Counted(p)) BY CapFinite
      <3>3. Cardinality(Creating(p)') = Cardinality(Creating(p)) - 1
        BY <1>3, <3>1, <3>2, FS_RemoveElement
      <3>4. IsFiniteSet(Counted(p) \cup {i})
            /\ Cardinality(Counted(p) \cup {i}) <= Cardinality(Counted(p)) + 1
        <4>1. /\ IsFiniteSet(Counted(p) \cup {i})
              /\ Cardinality(Counted(p) \cup {i})
                   = IF i \in Counted(p) THEN Cardinality(Counted(p)) ELSE Cardinality(Counted(p)) + 1
          BY <3>2, FS_AddElement
        <4>2. Cardinality(Counted(p)) \in Nat BY CapFinite
        <4>3. QED BY <4>1, <4>2
      <3>5. Cardinality(Counted(p)') <= Cardinality(Counted(p) \cup {i}) /\ IsFiniteSet(Counted(p)')
        BY <2>2, <3>4, FS_Subset
      <3>6. Cardinality(Counted(p)') \in Nat /\ Cardinality(Counted(p) \cup {i}) \in Nat
        BY <3>4, <3>5, FS_CardinalityType
      <3>7. Held(p)' <= Held(p) BY <3>3, <3>4, <3>5, <3>6, CapFinite DEF Held
      <3>8. Held(p) \in Nat BY CapFinite DEF Held
      <3>9. Held(p)' \in Int BY <3>3, <3>6, CapFinite DEF Held
      <3>10. QED BY <2>1, <3>7, <3>8, <3>9, CapFinite DEF Capped
    <2>5. QED BY <2>3, <2>4 DEF Tables
  <1>7. QED BY <1>6 DEF CapInv, Capped, Held, Counted

\* No other step adds a rule or a create.
LEMMA OthersKeepCap ==
  ASSUME CapInv, UNCHANGED moved,
         \A i \in Ids : table'["sev"][i] # None =>
           table["sev"][i] # None /\ table'["sev"][i].project = table["sev"][i].project,
         \A c \in Clients : op'[c].pc = "write" => op'[c] = op[c]
  PROVE  CapInv'
  <1>1. ASSUME NEW p \in Projects PROVE Capped(p)'
    <2>1. Counted(p)' \subseteq Counted(p) BY DEF Counted, SevOf, Present
    <2>2. Creating(p)' \subseteq Creating(p) BY DEF Creating
    <2>3. QED BY <2>1, <2>2, CapKept, CappedIsCapInv
  <1>2. QED BY <1>1 DEF CapInv, Capped, Held, Counted

\* Together: the cap and the creates that race.
LEMMA StepKeepsCap == ASSUME RulesTypeOK, CapInv, [Next]_vars PROVE CapInv'
  <1>1. CASE UNCHANGED <<table, moved, op>> BY <1>1, OthersKeepCap
  <1>2. CASE Next
    <2>1. CASE \E c \in Clients : \E o : MovesOn(c, o) BY <2>1, MovesKeepCap
    <2>2. CASE \E c \in Clients, t \in Tables, i \in Ids : UpsertWrites(c, t, i) \/ DeleteWrites(c, t, i)
      <3>1. PICK c \in Clients, t \in Tables, i \in Ids : UpsertWrites(c, t, i) \/ DeleteWrites(c, t, i)
        BY <2>2
      <3>2. CASE DeleteWrites(c, t, i)
        <4>1. UNCHANGED moved /\ \A d \in Clients : op'[d].pc = "write" => op'[d] = op[d]
          BY <3>2 DEF DeleteWrites, Loads, birthVars, RulesTypeOK, ClientTypes
        <4>2. \A j \in Ids : table'["sev"][j] = table["sev"][j] \/ table'["sev"][j] = None
          BY <3>2, DeleteTable DEF Tables
        <4>3. QED BY <4>1, <4>2, OthersKeepCap
      <3>3. QED BY <3>1, <3>2, UpsertKeepsCap
    <2>3. CASE \E c \in Clients : SetProjectParseBodies(c) \/ LoadReads(c) \/ LoadInstalls(c)
      <3>1. PICK c \in Clients : SetProjectParseBodies(c) \/ LoadReads(c) \/ LoadInstalls(c) BY <2>3
      <3>2. UNCHANGED <<table, moved>>
        BY <3>1 DEF SetProjectParseBodies, LoadReads, LoadInstalls, ruleVars, historyVars, birthVars
      <3>3. \A d \in Clients : op'[d].pc = "write" => op'[d] = op[d]
        <4>1. op'[c].pc # "write" /\ \A d \in Clients : d # c => op'[d] = op[d]
          <5>1. CASE SetProjectParseBodies(c)
            BY <5>1 DEF SetProjectParseBodies, Loads, RulesTypeOK, ClientTypes
          <5>2. CASE LoadReads(c) BY <5>2, ReadDoes DEF RulesTypeOK, ClientTypes
          <5>3. CASE LoadInstalls(c) BY <5>3 DEF LoadInstalls, Ends, Idle, RulesTypeOK, ClientTypes
          <5>4. QED BY <3>1, <5>1, <5>2, <5>3
        <4>2. QED BY <4>1
      <3>4. QED BY <3>2, <3>3, OthersKeepCap
    <2>4. CASE WriterTakes \/ Lift \/ Decide
      BY <1>1, <2>4 DEF WriterTakes, Lift, Decide, ruleVars, clientVars, historyVars, birthVars
    <2>5. CASE \E t \in Tables : FlushTakes(t) \/ FoldBack(t) \/ AddCounts(t)
      <3>1. PICK t \in Tables : FlushTakes(t) \/ FoldBack(t) \/ AddCounts(t) BY <2>5
      <3>2. CASE FlushTakes(t) \/ FoldBack(t)
        BY <1>1, <3>2 DEF FlushTakes, FoldBack, ruleVars, clientVars, historyVars, birthVars
      <3>3. CASE AddCounts(t)
        <4>1. UNCHANGED <<moved, op>> BY <3>3 DEF AddCounts, clientVars, historyVars, birthVars
        <4>2. ASSUME NEW i \in Ids, table'["sev"][i] # None
              PROVE  table["sev"][i] # None /\ table'["sev"][i].project = table["sev"][i].project
          <5>1. CASE t # "sev"
            <6>1. table'["sev"] = table["sev"] BY <3>3, <5>1, StoreDoes DEF Tables
            <6>2. QED BY <4>2, <6>1
          <5>2. CASE t = "sev"
            <6>1. /\ table["sev"][i] # None
                  /\ table'["sev"][i] = [table["sev"][i] EXCEPT !.count = @ + taken[i]]
              BY <3>3, <4>2, <5>2, StoreDoes
            <6>2. table["sev"][i] \in Rows(WhatsOf("sev")) BY <6>1, CountNumbers DEF Tables
            <6>3. QED BY <6>1, <6>2 DEF Rows
          <5>3. QED BY <5>1, <5>2
        <4>3. QED BY <4>1, <4>2, OthersKeepCap
      <3>4. QED BY <3>1, <3>2, <3>3
    <2>6. QED BY <1>2, <2>1, <2>2, <2>3, <2>4, <2>5, NextSteps
  <1>3. CASE UNCHANGED vars
    BY <1>1, <1>3 DEF vars, ruleVars, clientVars, historyVars, birthVars
  <1>4. QED BY <1>2, <1>3

\* maxSeverityRulesPerProject: the check is not atomic with the insert, and
\* a project exceeds the cap by at most the creates that can race, apart
\* from the rules an update moved in, in this run or an earlier one.
THEOREM CapIsHeld == Spec => []CapHeld
  <1> DEFINE IInv == RulesTypeOK /\ CapInv
  <1>1. Init => IInv
    <2>1. SUFFICES ASSUME Init PROVE CapInv BY InitTypes
    <2>2. MovedBefore(moved) BY <2>1 DEF Init
    <2>3. ASSUME NEW p \in Projects PROVE Capped(p)
      <3>1. Creating(p) = {} BY <2>1 DEF Init, Idle, Creating
      <3>2. Cardinality(Counted(p)) <= Cap + Cardinality(Clients) - 1
        BY <2>2 DEF MovedBefore, Counted
      <3>3. QED BY <3>1, <3>2, FS_EmptySet, CapFinite DEF Capped, Held
    <2>4. QED BY <2>3, CappedIsCapInv
  <1>2. IInv /\ [Next]_vars => IInv' BY StepKeepsTypes, StepKeepsCap
  <1>3. IInv => CapHeld
    <2>1. SUFFICES ASSUME CapInv, NEW p \in Projects
                   PROVE  Cardinality(SevOf(p) \ moved) <= Cap + Cardinality(Clients) - 1
      BY DEF CapHeld
    <2>2. Capped(p) BY <2>1, CappedIsCapInv
    <2>3. QED BY <2>2, CapFinite DEF Capped, Held, Counted
  <1>4. QED BY <1>1, <1>2, <1>3, PTL DEF Spec

=============================================================================
