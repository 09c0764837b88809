---------------------------- MODULE AlertsProofs ----------------------------
(***************************************************************************)
(* Alert rules and issues, for any clients, any rules and any times: the   *)
(* engine's memory of a rule (its window, its cooldown anchor) and the     *)
(* samples an issue keeps.                                                 *)
(*                                                                         *)
(* A rule is told from another of its id by the number it was made with.   *)
(* An id is out of the question once something meant for an earlier rule   *)
(* has touched it (mixed); the invariants say of the others:               *)
(*                                                                         *)
(*   MadeInv    nobody holds a rule that is yet to be made                 *)
(*   KnownInv   a rule that the writer holds, has counted for or has       *)
(*              fired is still in the snapshot while it is in the table    *)
(*   EmptyInv   an id that the snapshot does not have has no memory        *)
(*   ReadInv    what a Load has read of a rule is no newer than the table  *)
(*   AnchorInv  a rule's anchor is no older than its last fire             *)
(***************************************************************************)
EXTENDS Alerts, FiniteSetTheorems, WellFoundedInduction, TLAPS

-----------------------------------------------------------------------------
(* The type invariant *)

Samples == [fp : Fingerprints, ts : EventTimes, id : Nat]
Outcomes == [pc : {"outcome"}, fp : Fingerprints, ts : EventTimes, new : BOOLEAN, reopened : BOOLEAN]
Evaluations == [pc : {"rules", "fire"}, ts : EventTimes, rules : Table, todo : SUBSET Ids]
Hands == {Nobody} \cup Outcomes \cup Evaluations
Evaluating == hand.pc \in {"rules", "fire"}
WriterTypes ==
  /\ issues \in [Fingerprints -> Statuses \cup {None}]
  /\ samples \subseteq Samples /\ IsFiniteSet(samples) /\ events \in Nat
  /\ hand \in Hands
  /\ Evaluating => hand.todo # {} /\ \A i \in hand.todo : hand.rules[i] # None

Jobs == [id : Ids, made : Nat]
Windows == [Minutes -> Nat]
Matches == [made : Nat, window : Nat, minutes : Seq(Minutes), fit : BOOLEAN]
EngineTypes ==
  /\ rules \in Table /\ cache \in Table /\ made \in Nat
  /\ windows \in [Ids -> Windows \cup {None}] /\ lastFired \in [Ids -> Nat \cup {None}]
  /\ queue \in Seq(Jobs) /\ job \in Jobs \cup {None} /\ clock \in Nat
HistoryTypes ==
  /\ fires \in [Ids -> Fires \cup {None}] /\ matched \in [Ids -> Matches]
  /\ \A i \in Ids : matched[i].made # 0 => matched[i].minutes # <<>> /\ matched[i].window >= 1
  /\ mixed \subseteq Ids

(* What a client is doing: nothing, an operation before and after it found *)
(* its rule, the record of a test, the read back, and the Load.            *)
FindUpserts == [pc : {"find"}, do : {"upsert"}, id : Ids, what : Whats, cooldown : Nat \cup {None},
                en : BOOLEAN \cup {None}]
WriteUpserts == [pc : {"write"}, do : {"upsert"}, id : 0..MaxId, what : Whats, cooldown : Nat,
                 enabled : BOOLEAN]
OtherOps == [pc : {"find", "write"}, do : {"delete", "test"}, id : Ids]
Ops == [pc : {"idle", "load", "install"}] \cup FindUpserts \cup WriteUpserts \cup OtherOps
       \cup [pc : {"record"}, id : Ids, made : Nat] \cup [pc : {"back"}, id : Ids]
ClientTypes ==
  /\ op \in [Clients -> Ops] /\ got \in [Clients -> Table \cup {None}]
  /\ \A c \in Clients : op[c].pc = "install" => got[c] \in Table

AlertsTypeOK == WriterTypes /\ EngineTypes /\ HistoryTypes /\ ClientTypes

-----------------------------------------------------------------------------
(* The inductive invariants *)

(* No rule is from the future. *)
Made(t) == \A i \in Ids : t[i] # None => t[i].made <= made
MadeInv ==
  /\ Made(rules) /\ Made(cache) /\ Made(fires)
  /\ \A i \in Ids : matched[i].made <= made
  /\ Evaluating => Made(hand.rules)
  /\ \A c \in Clients : op[c].pc = "install" => Made(got[c])

(* Both are of one rule. *)
Same(r, s) == r # None /\ s # None /\ r.made = s.made
KnownInv ==
  \A i \in Ids : rules[i] # None /\ i \notin mixed =>
    /\ Evaluating /\ Same(hand.rules[i], rules[i]) => Same(cache[i], rules[i])
    /\ matched[i].made = rules[i].made => Same(cache[i], rules[i])
EmptyInv == \A i \in Ids \ mixed : cache[i] = None => lastFired[i] = None /\ windows[i] = None
ReadInv ==
  \A c \in Clients, i \in Ids :
    (op[c].pc = "install" /\ Same(got[c][i], rules[i]) /\ got[c][i].fired # None) => rules[i].fired # None

(* CooldownKept. *)
AnchorInv ==
  \A i \in Ids \ mixed :
    (Same(fires[i], rules[i]) /\ fires[i].known) => lastFired[i] # None /\ lastFired[i] >= fires[i].ts

-----------------------------------------------------------------------------
(* Ids, rows and times *)

\* The ids are finitely many numbers above 0.
LEMMA IdsAre == Ids \subseteq Nat \ {0} /\ MaxId \in Nat
  BY AlertsAssumption DEF Ids

\* Of some ids one is the least: Min.
LEMMA MinOfIds == ASSUME NEW S \in SUBSET Ids, S # {} PROVE Min(S) \in S
  <1>1. S \subseteq Nat /\ S # {} BY IdsAre
  <1>2. PICK x \in S : \A y \in S : ~(<<y, x>> \in OpToRel(<, Nat))
    BY <1>1, NatLessThanWellFounded, WFMin
  <1>3. ASSUME NEW y \in S PROVE x <= y
    <2>1. ~(y < x) BY <1>1, <1>2 DEF OpToRel
    <2>2. QED BY <2>1, <1>1
  <1>4. QED BY <1>3 DEF Min

\* A row of a table is None or has the fields of one.
LEMMA RowOf ==
  ASSUME NEW t \in Table, NEW i \in Ids, t[i] # None
  PROVE  /\ t[i] \in Rows
         /\ t[i].what \in Whats /\ t[i].cooldown \in Nat /\ t[i].enabled \in BOOLEAN
         /\ t[i].fired \in Nat \cup {None} /\ t[i].made \in Nat \ {0}
  BY DEF Table, Rows

\* A threshold rule's window is at least a minute.
LEMMA WhatOf ==
  ASSUME NEW w \in Whats
  PROVE  /\ w.kind \in {"new_issue", "regression", "threshold"} /\ w.n \in Nat /\ w.window \in Nat
         /\ w.kind = "threshold" => w.window >= 1
  BY DEF Whats, AllKinds, ValidKind

\* None is no row and no window.
LEMMA NoneIsNone == None \notin Rows /\ None \notin Windows /\ None \notin BOOLEAN
  BY AlertsAssumption DEF Windows

\* The snapshot is a table, of the same rules.
LEMMA CachedIs ==
  ASSUME NEW t \in Table
  PROVE  /\ Cached(t) \in Table
         /\ \A i \in Ids : /\ Cached(t)[i] = None <=> t[i] = None
                           /\ t[i] # None => Cached(t)[i].made = t[i].made
  <1>1. ASSUME NEW i \in Ids, t[i] # None
        PROVE  [t[i] EXCEPT !.fired = None] \in Rows /\ [t[i] EXCEPT !.fired = None].made = t[i].made
    BY <1>1, RowOf DEF Rows
  <1>2. \A i \in Ids : Cached(t)[i] = IF t[i] = None THEN None ELSE [t[i] EXCEPT !.fired = None]
    BY DEF Cached
  <1>3. \A i \in Ids : Cached(t)[i] \in Rows \cup {None} BY <1>1, <1>2
  <1>4. Cached(t) \in Table BY <1>3 DEF Cached, Table
  <1>5. QED BY <1>1, <1>2, <1>4, NoneIsNone

\* The anchors of a table are times.
LEMMA FiredIs ==
  ASSUME NEW t \in Table
  PROVE  /\ Fired(t) \in [Ids -> Nat \cup {None}]
         /\ \A i \in Ids : Fired(t)[i] = IF t[i] = None THEN None ELSE t[i].fired
  <1>1. \A i \in Ids : t[i] # None => t[i].fired \in Nat \cup {None} BY RowOf
  <1>2. QED BY <1>1 DEF Fired

\* Times are numbers, and so are their minutes.
LEMMA TimesAre ==
  /\ EventTimes \subseteq Nat /\ Minutes \subseteq Nat
  /\ \A ts \in EventTimes : Minute(ts) \in Minutes
  <1>1. EventTimes \subseteq Nat BY IssuesAssumption
  <1>2. \A ts \in Nat : ts \div 2 \in Nat OBVIOUS
  <1>3. QED BY <1>1, <1>2 DEF Minutes, Minute, Second

-----------------------------------------------------------------------------
(* The type invariant: one client goes on *)

\* Its phase says which fields its operation has.
LEMMA OpShape ==
  ASSUME ClientTypes, NEW c \in Clients
  PROVE  /\ At(c, "find") /\ op[c].do = "upsert" => op[c] \in FindUpserts
         /\ At(c, "find") /\ op[c].do # "upsert" => op[c] \in OtherOps
         /\ At(c, "write") /\ op[c].do = "upsert" => op[c] \in WriteUpserts
         /\ At(c, "write") /\ op[c].do # "upsert" => op[c] \in OtherOps
         /\ op[c].pc \in {"record", "back"} => op[c].id \in Ids
         /\ At(c, "record") => op[c].made \in Nat
  <1>1. op[c] \in Ops BY DEF ClientTypes
  <1>2. CASE op[c] \in FindUpserts BY <1>2 DEF FindUpserts, At
  <1>3. CASE op[c] \in WriteUpserts BY <1>3 DEF WriteUpserts, At
  <1>4. CASE op[c] \in OtherOps BY <1>4 DEF OtherOps, At
  <1>5. CASE op[c] \in [pc : {"idle", "load", "install"}] BY <1>5 DEF At
  <1>6. CASE op[c] \in [pc : {"record"}, id : Ids, made : Nat] BY <1>6 DEF At
  <1>7. CASE op[c] \in [pc : {"back"}, id : Ids] BY <1>7 DEF At
  <1>8. QED BY <1>1, <1>2, <1>3, <1>4, <1>5, <1>6, <1>7 DEF Ops

\* A client goes on without having read the table for a Load.
Advances(c) ==
  /\ \E o \in Ops : o.pc # "install" /\ op' = [op EXCEPT ![c] = o]
  /\ got' \in [Clients -> Table \cup {None}] /\ \A d \in Clients : d # c => got'[d] = got[d]

\* The step of a client of the API keeps the types.
LEMMA AdvanceTypes ==
  ASSUME ClientTypes, NEW c \in Clients, Advances(c)
  PROVE  /\ ClientTypes'
         /\ \A d \in Clients : op'[d].pc = "install" => op[d].pc = "install" /\ got'[d] = got[d]
  <1>1. PICK o \in Ops : o.pc # "install" /\ op' = [op EXCEPT ![c] = o] BY DEF Advances
  <1>2. op' \in [Clients -> Ops] BY <1>1 DEF ClientTypes
  <1>3. op'[c] = o /\ \A d \in Clients : d # c => op'[d] = op[d] BY <1>1 DEF ClientTypes
  <1>4. \A d \in Clients : op'[d].pc = "install" => op[d].pc = "install" /\ got'[d] = got[d]
    BY <1>1, <1>3 DEF Advances
  <1>5. QED BY <1>2, <1>4 DEF ClientTypes, Advances

\* It ends, or goes to a phase of the rest of its operation.
LEMMA EndsAdvances == ASSUME ClientTypes, NEW c \in Clients, Ends(c) PROVE Advances(c)
  <1>1. Idle \in Ops /\ Idle.pc # "install" BY DEF Idle, Ops
  <1>2. got' \in [Clients -> Table \cup {None}] /\ \A d \in Clients : d # c => got'[d] = got[d]
    BY DEF Ends, ClientTypes
  <1>3. QED BY <1>1, <1>2 DEF Ends, Advances

\* It goes on with an operation of its type.
LEMMA GoesAdvances ==
  ASSUME ClientTypes, NEW c \in Clients, NEW o \in Ops, o.pc # "install", Goes(c, o), UNCHANGED got
  PROVE  Advances(c)
  BY DEF Goes, Advances, ClientTypes

-----------------------------------------------------------------------------
(* The quiet steps: all but the evaluation of an event, the Loads and the  *)
(* restarts. They leave the engine's memory alone, and a row of the table  *)
(* is left, deleted, new, or the same rule with a fire no less known.      *)

Keeps(i) ==
  \/ rules'[i] = rules[i] \/ rules'[i] = None
  \/ rules'[i] # None /\ rules'[i].made = made + 1 /\ made' = made + 1
  \/ Same(rules'[i], rules[i]) /\ (rules[i].fired # None => rules'[i].fired # None)
ClientsQuiet == \A c \in Clients : op'[c].pc = "install" => op[c].pc = "install" /\ got'[c] = got[c]
WriterQuiet == hand'.pc \in {"rules", "fire"} => hand' = hand
Quiet ==
  /\ \A i \in Ids : Keeps(i)
  /\ made' \in Nat /\ made <= made'
  /\ UNCHANGED <<memory, fires, matched>> /\ mixed \subseteq mixed'
  /\ WriterQuiet /\ ClientsQuiet

(* A client goes on and nothing else happens. *)
Moves(c) ==
  Advances(c) /\ UNCHANGED <<issueVars, hand, tableVars, memory, delivery, restarts, history>>

\* Such a step is quiet and keeps the types.
LEMMA MovesTypes == ASSUME AlertsTypeOK, NEW c \in Clients, Moves(c) PROVE AlertsTypeOK' /\ Quiet
  <1>1. ClientTypes' /\ ClientsQuiet BY AdvanceTypes DEF AlertsTypeOK, Moves, ClientsQuiet
  <1>2. WriterTypes'
    BY DEF AlertsTypeOK, Moves, WriterTypes, Evaluating, issueVars
  <1>3. EngineTypes' BY DEF AlertsTypeOK, Moves, EngineTypes, tableVars, memory, delivery
  <1>4. HistoryTypes' BY DEF AlertsTypeOK, Moves, HistoryTypes, history
  <1>5. Quiet
    <2>1. made \in Nat BY DEF AlertsTypeOK, EngineTypes
    <2>2. QED BY <1>1, <2>1 DEF Moves, Quiet, Keeps, WriterQuiet, tableVars, memory, history
  <1>6. QED BY <1>1, <1>2, <1>3, <1>4, <1>5 DEF AlertsTypeOK

\* An operation begins.
LEMMA BeginMoves ==
  ASSUME AlertsTypeOK, NEW c \in Clients,
         Upsert(c) \/ Delete(c) \/ Test(c)
  PROVE  Moves(c)
  <1>0. ClientTypes BY DEF AlertsTypeOK
  <1>1. ASSUME NEW o \in Ops, o.pc # "install", Begin(c, o) PROVE Moves(c)
    <2>1. op' = [op EXCEPT ![c] = o] /\ UNCHANGED got BY <1>1 DEF Begin
    <2>2. Advances(c) BY <1>0, <1>1, <2>1, GoesAdvances DEF Goes
    <2>3. QED BY <1>1, <2>2 DEF Moves, Begin
  <1>2. CASE Upsert(c)
    <2>1. PICK what \in Kinds, cooldown \in Cooldowns, en \in Enabling :
            /\ ValidKind(what)
            /\ \/ Begin(c, CreateRule(what, cooldown, en))
               \/ \E i \in Ids : Begin(c, UpdateRule(i, what, cooldown, en))
      BY <1>2 DEF Upsert
    <2>2. /\ what \in Whats /\ cooldown \in Nat \cup {None} /\ en \in BOOLEAN \cup {None}
          /\ DefaultCooldown \in Nat /\ 0 \in 0..MaxId
      BY <2>1, AlertsAssumption DEF Whats
    <2>3. CASE Begin(c, CreateRule(what, cooldown, en))
      <3>1. CreateRule(what, cooldown, en) \in WriteUpserts BY <2>2 DEF CreateRule, WriteUpserts
      <3>2. CreateRule(what, cooldown, en).pc # "install" BY DEF CreateRule
      <3>3. QED BY <1>1, <2>3, <3>1, <3>2 DEF Ops
    <2>4. ASSUME NEW i \in Ids, Begin(c, UpdateRule(i, what, cooldown, en)) PROVE Moves(c)
      <3>1. UpdateRule(i, what, cooldown, en) \in FindUpserts BY <2>2 DEF UpdateRule, FindUpserts
      <3>2. UpdateRule(i, what, cooldown, en).pc # "install" BY DEF UpdateRule
      <3>3. QED BY <1>1, <2>4, <3>1, <3>2 DEF Ops
    <2>5. QED BY <2>1, <2>3, <2>4
  <1>3. CASE Delete(c) \/ Test(c)
    <2>1. PICK o \in OtherOps : Begin(c, o) BY <1>3 DEF Delete, Test, OtherOps
    <2>2. o \in Ops /\ o.pc # "install" BY DEF OtherOps, Ops
    <2>3. QED BY <1>1, <2>1, <2>2
  <1>4. QED BY <1>2, <1>3

\* It finds its rule, or does not.
LEMMA FindMoves == ASSUME AlertsTypeOK, NEW c \in Clients, FindAlertRule(c) PROVE Moves(c)
  <1>0. ClientTypes /\ rules \in Table BY DEF AlertsTypeOK, EngineTypes
  <1>1. Advances(c)
    <2>1. CASE Ends(c) BY <1>0, <2>1, EndsAdvances
    <2>2. CASE op[c].do = "upsert" /\ ~Ends(c)
      <3>1. op[c] \in FindUpserts BY <1>0, <2>2, OpShape DEF FindAlertRule
      <3>2. /\ op[c].id \in Ids /\ op[c].what \in Whats /\ op[c].cooldown \in Nat \cup {None}
            /\ op[c].en \in BOOLEAN \cup {None} /\ Ids \subseteq 0..MaxId /\ DefaultCooldown \in Nat
        BY <3>1, AlertsAssumption DEF FindUpserts, Ids
      <3>3. PICK ok \in BOOLEAN :
              /\ UNCHANGED got
              /\ LET found == ok /\ rules[op[c].id] # None
                 IN  Goes(c, [pc |-> "write", do |-> "upsert", id |-> op[c].id, what |-> op[c].what,
                              cooldown |-> IF op[c].cooldown # None THEN op[c].cooldown
                                           ELSE IF found THEN rules[op[c].id].cooldown ELSE DefaultCooldown,
                              enabled |-> IF op[c].en # None THEN op[c].en
                                          ELSE IF found THEN rules[op[c].id].enabled ELSE TRUE])
        BY <2>2 DEF FindAlertRule
      <3>4. PICK cd, en :
              /\ cd = IF op[c].cooldown # None THEN op[c].cooldown
                      ELSE IF ok /\ rules[op[c].id] # None THEN rules[op[c].id].cooldown ELSE DefaultCooldown
              /\ en = IF op[c].en # None THEN op[c].en
                      ELSE IF ok /\ rules[op[c].id] # None THEN rules[op[c].id].enabled ELSE TRUE
        OBVIOUS
      <3>5. Goes(c, [pc |-> "write", do |-> "upsert", id |-> op[c].id, what |-> op[c].what,
                     cooldown |-> cd, enabled |-> en])
        BY <3>3, <3>4
      <3>6. cd \in Nat /\ en \in BOOLEAN BY <1>0, <3>2, <3>4, RowOf
      <3>7. [pc |-> "write", do |-> "upsert", id |-> op[c].id, what |-> op[c].what,
             cooldown |-> cd, enabled |-> en] \in WriteUpserts
        BY <3>2, <3>6 DEF WriteUpserts
      <3>8. QED BY <1>0, <3>3, <3>5, <3>7, GoesAdvances DEF Ops
    <2>3. CASE op[c].do # "upsert" /\ ~Ends(c)
      <3>1. op[c] \in OtherOps BY <1>0, <2>3, OpShape DEF FindAlertRule
      <3>2. Goes(c, [pc |-> "write", do |-> op[c].do, id |-> op[c].id]) /\ UNCHANGED got
        BY <2>3 DEF FindAlertRule
      <3>3. [pc |-> "write", do |-> op[c].do, id |-> op[c].id] \in OtherOps BY <3>1 DEF OtherOps
      <3>4. QED BY <1>0, <3>2, <3>3, GoesAdvances DEF Ops
    <2>4. QED BY <2>1, <2>2, <2>3
  <1>2. QED BY <1>1 DEF FindAlertRule, Moves

\* The other steps that only move a client on.
LEMMA PlainMoves ==
  ASSUME AlertsTypeOK, NEW c \in Clients, AlertRuleByID(c) \/ TestFire(c) \/ OpFails(c)
  PROVE  Moves(c)
  <1>0. ClientTypes /\ cache \in Table BY DEF AlertsTypeOK, EngineTypes
  <1>1. Advances(c)
    <2>1. CASE Ends(c) BY <1>0, <2>1, EndsAdvances
    <2>2. CASE AlertRuleByID(c) /\ ~Ends(c)
      <3>1. [pc |-> "load"] \in Ops BY DEF Ops
      <3>2. QED BY <1>0, <2>2, <3>1, GoesAdvances DEF AlertRuleByID
    <2>3. CASE TestFire(c) /\ ~Ends(c)
      <3>1. op[c] \in OtherOps BY <1>0, <2>3, OpShape DEF TestFire
      <3>2. op[c].id \in Ids BY <3>1 DEF OtherOps
      <3>3. PICK i \in Ids : /\ cache[i] # None /\ UNCHANGED got
                             /\ Goes(c, [pc |-> "record", id |-> i, made |-> cache[i].made])
        BY <2>3, <3>2 DEF TestFire
      <3>4. cache[i].made \in Nat BY <1>0, <3>3, RowOf
      <3>5. [pc |-> "record", id |-> i, made |-> cache[i].made] \in Ops BY <3>4 DEF Ops
      <3>6. QED BY <1>0, <3>3, <3>5, GoesAdvances
    <2>4. QED BY <2>1, <2>2, <2>3 DEF OpFails
  <1>2. QED BY <1>1 DEF AlertRuleByID, TestFire, OpFails, Moves

-----------------------------------------------------------------------------
(* The table writes *)

\* A row is written, of a new rule or of the one that was there.
LEMMA UpsertQuiet ==
  ASSUME AlertsTypeOK, NEW c \in Clients, UpsertAlertRule(c) PROVE AlertsTypeOK' /\ Quiet
  <1>0. /\ ClientTypes /\ rules \in Table /\ made \in Nat
        /\ WriterTypes /\ EngineTypes /\ HistoryTypes
    BY DEF AlertsTypeOK, EngineTypes
  <1>1. CASE Ends(c) /\ UNCHANGED tableVars
    <2>1. Advances(c) BY <1>0, <1>1, EndsAdvances
    <2>2. Moves(c) BY <1>1, <2>1 DEF UpsertAlertRule, Moves
    <2>3. QED BY <2>2, MovesTypes
  <1>2. CASE ~(Ends(c) /\ UNCHANGED tableVars)
    <2>1. op[c] \in WriteUpserts BY <1>0, OpShape DEF UpsertAlertRule
    <2>2. /\ op[c].id \in 0..MaxId /\ op[c].what \in Whats /\ op[c].cooldown \in Nat
          /\ op[c].enabled \in BOOLEAN
      BY <2>1 DEF WriteUpserts
    <2>3. PICK i \in Ids :
            \E row :
              /\ row = [what |-> op[c].what, cooldown |-> op[c].cooldown, enabled |-> op[c].enabled,
                        fired |-> IF op[c].id = 0 THEN None ELSE rules[i].fired,
                        made |-> IF op[c].id = 0 THEN made + 1 ELSE rules[i].made]
              /\ op[c].id # 0 => rules[i] # None
              /\ rules' = [rules EXCEPT ![i] = row]
              /\ made' = IF op[c].id = 0 THEN made + 1 ELSE made
              /\ Goes(c, [pc |-> "back", id |-> i]) /\ UNCHANGED got
      BY <1>2 DEF UpsertAlertRule
    <2>0. PICK row :
              /\ row = [what |-> op[c].what, cooldown |-> op[c].cooldown, enabled |-> op[c].enabled,
                        fired |-> IF op[c].id = 0 THEN None ELSE rules[i].fired,
                        made |-> IF op[c].id = 0 THEN made + 1 ELSE rules[i].made]
              /\ op[c].id # 0 => rules[i] # None
              /\ rules' = [rules EXCEPT ![i] = row]
              /\ made' = IF op[c].id = 0 THEN made + 1 ELSE made
              /\ Goes(c, [pc |-> "back", id |-> i]) /\ UNCHANGED got
      BY <2>3
    <2>4. PICK fired, m :
            /\ fired = IF op[c].id = 0 THEN None ELSE rules[i].fired
            /\ m = IF op[c].id = 0 THEN made + 1 ELSE rules[i].made
      OBVIOUS
    <2>5. fired \in Nat \cup {None} /\ m \in Nat \ {0} BY <1>0, <2>0, <2>4, RowOf
    <2>6. row \in Rows BY <2>2, <2>0, <2>4, <2>5 DEF Rows
    <2>7. rules' \in Table BY <1>0, <2>0, <2>6 DEF Table
    <2>8. rules'[i] = row /\ \A j \in Ids : j # i => rules'[j] = rules[j]
      BY <1>0, <2>0 DEF Table
    <2>9. Keeps(i)
      <3>1. row # None BY <2>6, NoneIsNone
      <3>2. CASE op[c].id = 0 BY <2>0, <2>8, <3>1, <3>2 DEF Keeps
      <3>3. CASE op[c].id # 0 BY <2>0, <2>8, <3>1, <3>3 DEF Keeps, Same
      <3>4. QED BY <3>2, <3>3
    <2>10. Advances(c)
      <3>1. [pc |-> "back", id |-> i] \in Ops BY DEF Ops
      <3>2. QED BY <1>0, <2>0, <3>1, GoesAdvances
    <2>11. ClientTypes' /\ ClientsQuiet BY <1>0, <2>10, AdvanceTypes DEF ClientsQuiet
    <2>12. made' \in Nat /\ made <= made' BY <1>0, <2>0
    <2>13. UNCHANGED <<issueVars, hand, memory, delivery, history>> BY DEF UpsertAlertRule
    <2>14. WriterTypes' BY <1>0, <2>13 DEF WriterTypes, Evaluating, issueVars
    <2>15. EngineTypes' BY <1>0, <2>7, <2>12, <2>13 DEF EngineTypes, memory, delivery
    <2>16. HistoryTypes' BY <1>0, <2>13 DEF HistoryTypes, history
    <2>17. Quiet BY <2>8, <2>9, <2>11, <2>12, <2>13 DEF Quiet, Keeps, WriterQuiet, history
    <2>18. QED BY <2>11, <2>14, <2>15, <2>16, <2>17 DEF AlertsTypeOK
  <1>3. QED BY <1>1, <1>2

\* A row is deleted.
LEMMA DeleteQuiet ==
  ASSUME AlertsTypeOK, NEW c \in Clients, DeleteAlertRule(c) PROVE AlertsTypeOK' /\ Quiet
  <1>0. ClientTypes /\ rules \in Table /\ made \in Nat /\ WriterTypes /\ EngineTypes /\ HistoryTypes
    BY DEF AlertsTypeOK, EngineTypes
  <1>1. Advances(c)
    <2>1. CASE Ends(c) BY <1>0, <2>1, EndsAdvances
    <2>2. CASE ~Ends(c)
      <3>1. [pc |-> "load"] \in Ops BY DEF Ops
      <3>2. QED BY <1>0, <2>2, <3>1, GoesAdvances DEF DeleteAlertRule
    <2>3. QED BY <2>1, <2>2
  <1>2. ClientTypes' /\ ClientsQuiet BY <1>0, <1>1, AdvanceTypes DEF ClientsQuiet
  <1>3. rules' = rules \/ rules' = [rules EXCEPT ![op[c].id] = None] BY DEF DeleteAlertRule
  <1>4. rules' \in Table /\ \A i \in Ids : rules'[i] = rules[i] \/ rules'[i] = None
    BY <1>0, <1>3 DEF Table
  <1>5. UNCHANGED <<issueVars, hand, made, memory, delivery, history>> BY DEF DeleteAlertRule
  <1>6. WriterTypes' BY <1>0, <1>5 DEF WriterTypes, Evaluating, issueVars
  <1>7. EngineTypes' BY <1>0, <1>4, <1>5 DEF EngineTypes, memory, delivery
  <1>8. HistoryTypes' BY <1>0, <1>5 DEF HistoryTypes, history
  <1>9. Quiet BY <1>0, <1>2, <1>4, <1>5 DEF Quiet, Keeps, WriterQuiet, history
  <1>10. QED BY <1>2, <1>6, <1>7, <1>8, <1>9 DEF AlertsTypeOK

\* What recording a result does: it may make a row's fire known.
LEMMA RecordDoes ==
  ASSUME EngineTypes, HistoryTypes, NEW i \in Ids, NEW j,
         RecordAlertResult(i, j) \/ UNCHANGED <<rules, clock, mixed>>
  PROVE  /\ rules' \in Table /\ clock' \in Nat /\ mixed \subseteq mixed' /\ mixed' \subseteq Ids
         /\ \A k \in Ids : Keeps(k)
  <1>0. rules \in Table /\ clock \in Nat /\ mixed \subseteq Ids BY DEF EngineTypes, HistoryTypes
  <1>1. CASE UNCHANGED <<rules, clock, mixed>> BY <1>0, <1>1 DEF Keeps
  <1>2. CASE RecordAlertResult(i, j)
    <2>1. PICK now \in EventTimes :
            /\ clock' = now
            /\ IF rules[i] = None THEN UNCHANGED rules ELSE rules' = [rules EXCEPT ![i].fired = now]
      BY <1>2 DEF RecordAlertResult
    <2>2. now \in Nat BY TimesAre
    <2>3. mixed \subseteq mixed' /\ mixed' \subseteq Ids BY <1>0, <1>2 DEF RecordAlertResult
    <2>4. CASE rules[i] = None BY <1>0, <2>1, <2>2, <2>3, <2>4 DEF Keeps
    <2>5. CASE rules[i] # None
      <3>1. PICK row : row = [rules[i] EXCEPT !.fired = now] OBVIOUS
      <3>2. rules' = [rules EXCEPT ![i] = row] BY <2>1, <2>5, <3>1
      <3>3. rules[i] \in Rows BY <1>0, <2>5, RowOf
      <3>4. row \in Rows /\ row.made = rules[i].made /\ row.fired = now
        BY <2>2, <3>1, <3>3 DEF Rows
      <3>5. now # None BY <2>2, AlertsAssumption
      <3>6. QED BY <1>0, <2>1, <2>2, <2>3, <2>5, <3>2, <3>4, <3>5, NoneIsNone DEF Table, Keeps, Same
    <2>6. QED BY <2>4, <2>5
  <1>3. QED BY <1>1, <1>2

\* A test is recorded.
LEMMA RecordTestQuiet ==
  ASSUME AlertsTypeOK, NEW c \in Clients, RecordTest(c) PROVE AlertsTypeOK' /\ Quiet
  <1>0. ClientTypes /\ made \in Nat /\ WriterTypes /\ EngineTypes /\ HistoryTypes
    BY DEF AlertsTypeOK, EngineTypes
  <1>1. op[c].id \in Ids BY <1>0, OpShape DEF RecordTest, At
  <1>2. /\ rules' \in Table /\ clock' \in Nat /\ mixed \subseteq mixed' /\ mixed' \subseteq Ids
        /\ \A k \in Ids : Keeps(k)
    BY <1>0, <1>1, RecordDoes DEF RecordTest
  <1>3. ClientTypes' /\ ClientsQuiet
    BY <1>0, EndsAdvances, AdvanceTypes DEF RecordTest, ClientsQuiet
  <1>4. UNCHANGED <<issueVars, hand, made, memory, queue, job, fires, matched>> BY DEF RecordTest
  <1>5. WriterTypes' BY <1>0, <1>4 DEF WriterTypes, Evaluating, issueVars
  <1>6. EngineTypes' BY <1>0, <1>2, <1>4 DEF EngineTypes, memory
  <1>7. HistoryTypes' BY <1>0, <1>2, <1>4 DEF HistoryTypes
  <1>8. Quiet BY <1>0, <1>2, <1>3, <1>4 DEF Quiet, WriterQuiet
  <1>9. QED BY <1>3, <1>5, <1>6, <1>7, <1>8 DEF AlertsTypeOK

\* The worker takes a fire, or records one.
LEMMA WorkerQuiet == ASSUME AlertsTypeOK, DeliverTakes \/ RecordResult PROVE AlertsTypeOK' /\ Quiet
  <1>0. ClientTypes /\ made \in Nat /\ WriterTypes /\ EngineTypes /\ HistoryTypes
    BY DEF AlertsTypeOK, EngineTypes
  <1>1. UNCHANGED <<issueVars, hand, made, memory, fires, matched, clientVars>>
    BY DEF DeliverTakes, RecordResult, tableVars, history
  <1>2. /\ rules' \in Table /\ clock' \in Nat /\ mixed \subseteq mixed' /\ mixed' \subseteq Ids
        /\ \A k \in Ids : Keeps(k)
    <2>1. CASE DeliverTakes
      BY <1>0, <2>1 DEF DeliverTakes, tableVars, history, EngineTypes, HistoryTypes, Keeps
    <2>2. CASE RecordResult
      <3>1. job.id \in Ids BY <1>0, <2>2 DEF RecordResult, EngineTypes, Jobs
      <3>2. QED BY <1>0, <2>2, <3>1, RecordDoes DEF RecordResult
    <2>3. QED BY <2>1, <2>2
  <1>3. queue' \in Seq(Jobs) /\ job' \in Jobs \cup {None}
    <2>1. queue \in Seq(Jobs) BY <1>0 DEF EngineTypes
    <2>2. queue' = queue \/ (queue # <<>> /\ queue' = Tail(queue)) BY DEF DeliverTakes, RecordResult
    <2>3. queue' \in Seq(Jobs) BY <2>1, <2>2
    <2>4. queue # <<>> => Head(queue) \in Jobs BY <2>1
    <2>5. job' = None \/ (queue # <<>> /\ job' = Head(queue)) BY DEF DeliverTakes, RecordResult
    <2>6. QED BY <2>3, <2>4, <2>5
  <1>4. ClientTypes' /\ ClientsQuiet BY <1>0, <1>1 DEF ClientTypes, ClientsQuiet, clientVars
  <1>5. WriterTypes' BY <1>0, <1>1 DEF WriterTypes, Evaluating, issueVars
  <1>6. EngineTypes' BY <1>0, <1>1, <1>2, <1>3 DEF EngineTypes, memory
  <1>7. HistoryTypes' BY <1>0, <1>1, <1>2 DEF HistoryTypes
  <1>8. Quiet BY <1>0, <1>1, <1>2, <1>4 DEF Quiet, WriterQuiet
  <1>9. QED BY <1>4, <1>5, <1>6, <1>7, <1>8 DEF AlertsTypeOK

\* Of an issue's samples the newest are kept, whatever they are: a subset.
LEMMA TrimmedIs ==
  ASSUME NEW f, NEW all PROVE Trimmed(f, all) \subseteq all
  BY DEF Trimmed, Newest

\* The issue half of a batch, and the front ends on it.
LEMMA IssueQuiet == ASSUME AlertsTypeOK, Issue PROVE AlertsTypeOK' /\ Quiet
  <1>0. ClientTypes /\ made \in Nat /\ WriterTypes /\ EngineTypes /\ HistoryTypes
    BY DEF AlertsTypeOK, EngineTypes
  <1>1. UNCHANGED <<tableVars, memory, delivery, op, got, restarts, history>> BY DEF Issue
  <1>2. PICK f \in Fingerprints, ts \in EventTimes :
          UpsertIssueEvent(f, ts) \/ (\E s \in Statuses : SetIssueStatus(f, s)) \/ DeleteIssueEventsBefore(ts)
    BY DEF Issue, ApiUpdateStatus, McpResolveIssue, McpIgnoreIssue, Statuses
  <1>3. WriterTypes' /\ WriterQuiet
    <2>1. CASE UpsertIssueEvent(f, ts)
      <3>1. PICK new : new = [fp |-> f, ts |-> ts, id |-> events + 1] OBVIOUS
      <3>2. samples' = Trimmed(f, samples \cup {new}) /\ events' = events + 1
        BY <2>1, <3>1 DEF UpsertIssueEvent
      <3>3. new \in Samples BY <1>0, <3>1 DEF Samples, WriterTypes
      <3>4. IsFiniteSet(samples \cup {new}) BY <1>0, FS_AddElement DEF WriterTypes
      <3>5. samples' \subseteq samples \cup {new} BY <3>2, TrimmedIs
      <3>6. IsFiniteSet(samples') /\ samples' \subseteq Samples
        BY <1>0, <3>3, <3>4, <3>5, FS_Subset DEF WriterTypes
      <3>7. hand' \in Outcomes /\ hand'.pc = "outcome" BY <2>1 DEF UpsertIssueEvent, Outcomes
      <3>8. events' \in Nat BY <1>0, <3>2 DEF WriterTypes
      <3>9. issues' \in [Fingerprints -> Statuses \cup {None}]
        BY <1>0, <2>1 DEF UpsertIssueEvent, WriterTypes, Statuses
      <3>10. QED BY <3>6, <3>7, <3>8, <3>9 DEF WriterTypes, Hands, Evaluating, WriterQuiet
    <2>2. CASE \E s \in Statuses : SetIssueStatus(f, s)
      BY <1>0, <2>2 DEF SetIssueStatus, WriterTypes, Evaluating, WriterQuiet
    <2>3. CASE DeleteIssueEventsBefore(ts)
      <3>1. samples' \subseteq samples BY <2>3 DEF DeleteIssueEventsBefore
      <3>2. IsFiniteSet(samples') BY <1>0, <3>1, FS_Subset DEF WriterTypes
      <3>3. QED BY <1>0, <2>3, <3>1, <3>2 DEF DeleteIssueEventsBefore, WriterTypes, Evaluating, WriterQuiet
    <2>4. QED BY <1>2, <2>1, <2>2, <2>3
  <1>4. ClientTypes' /\ ClientsQuiet BY <1>0, <1>1 DEF ClientTypes, ClientsQuiet
  <1>5. EngineTypes' BY <1>0, <1>1 DEF EngineTypes, tableVars, memory, delivery
  <1>6. HistoryTypes' BY <1>0, <1>1 DEF HistoryTypes, history
  <1>7. Quiet BY <1>0, <1>1, <1>3, <1>4 DEF Quiet, Keeps, tableVars, memory, history
  <1>8. QED BY <1>3, <1>4, <1>5, <1>6, <1>7 DEF AlertsTypeOK

-----------------------------------------------------------------------------
(* The type invariant: the evaluation of an event *)

\* What is left to do after rule i.
LEMMA RulesLeftIs ==
  ASSUME Evaluating, hand \in Hands, \A j \in hand.todo : hand.rules[j] # None, NEW i \in hand.todo
  PROVE  /\ RulesLeft(i) \in Hands
         /\ RulesLeft(i).pc \in {"rules", "fire"} =>
              /\ RulesLeft(i).rules = hand.rules /\ RulesLeft(i).todo # {}
              /\ \A j \in RulesLeft(i).todo : RulesLeft(i).rules[j] # None
  <1>1. hand \in Evaluations BY DEF Evaluating, Hands, Nobody, Outcomes
  <1>2. CASE hand.todo = {i} BY <1>2 DEF RulesLeft, Nobody, Hands
  <1>3. CASE hand.todo # {i}
    <2>1. PICK h : h = [hand EXCEPT !.pc = "rules", !.todo = hand.todo \ {i}] OBVIOUS
    <2>2. RulesLeft(i) = h BY <1>3, <2>1 DEF RulesLeft
    <2>3. h \in Evaluations BY <1>1, <2>1 DEF Evaluations
    <2>4. h.rules = hand.rules /\ h.todo = hand.todo \ {i} BY <1>1, <2>1 DEF Evaluations
    <2>5. h.todo # {} BY <1>3, <2>4
    <2>6. \A j \in h.todo : h.rules[j] # None BY <2>4
    <2>7. QED BY <2>2, <2>3, <2>4, <2>5, <2>6 DEF Hands
  <1>4. QED BY <1>2, <1>3

\* The rule the writer evaluates.
LEMMA NextRule ==
  ASSUME WriterTypes, Evaluating
  PROVE  /\ hand \in Evaluations /\ hand.ts \in EventTimes
         /\ Min(hand.todo) \in hand.todo /\ Min(hand.todo) \in Ids
         /\ hand.rules[Min(hand.todo)] # None /\ hand.rules[Min(hand.todo)] \in Rows
  <1>1. hand \in Evaluations BY DEF WriterTypes, Evaluating, Hands, Nobody, Outcomes
  <1>2. hand.todo \in SUBSET Ids /\ hand.todo # {} BY <1>1 DEF WriterTypes, Evaluations
  <1>3. Min(hand.todo) \in hand.todo BY <1>2, MinOfIds
  <1>4. hand.rules \in Table /\ hand.rules[Min(hand.todo)] # None
    BY <1>1, <1>3 DEF WriterTypes, Evaluations
  <1>5. hand.rules[Min(hand.todo)] \in Rows BY <1>2, <1>3, <1>4, RowOf
  <1>6. QED BY <1>1, <1>2, <1>3, <1>4, <1>5 DEF Evaluations

\* The writer takes the snapshot.
LEMMA IssueEventTypes == ASSUME AlertsTypeOK, IssueEvent PROVE AlertsTypeOK'
  <1>0. ClientTypes /\ WriterTypes /\ EngineTypes /\ HistoryTypes BY DEF AlertsTypeOK
  <1>1. UNCHANGED <<issueVars, tableVars, memory, delivery, clientVars, restarts, history>>
    BY DEF IssueEvent
  <1>2. hand \in Outcomes
    BY <1>0 DEF IssueEvent, WriterTypes, Hands, Nobody, Evaluations
  <1>3. PICK todo \in SUBSET Ids :
          /\ \A i \in todo : cache[i] # None
          /\ hand' = IF todo = {} THEN Nobody
                     ELSE [pc |-> "rules", ts |-> hand.ts, rules |-> cache, todo |-> todo]
    BY DEF IssueEvent, Present
  <1>4. hand.ts \in EventTimes BY <1>2 DEF Outcomes
  <1>5. ASSUME todo = {} PROVE WriterTypes'
    <2>1. hand' = Nobody BY <1>3, <1>5
    <2>2. QED BY <1>0, <1>1, <2>1 DEF WriterTypes, Hands, Nobody, Evaluating, issueVars
  <1>6. ASSUME todo # {} PROVE WriterTypes'
    <2>0. hand' = [pc |-> "rules", ts |-> hand.ts, rules |-> cache, todo |-> todo] BY <1>3, <1>6
    <2>1. hand' \in Evaluations BY <1>0, <1>4, <2>0 DEF Evaluations, EngineTypes
    <2>2. hand'.todo = todo /\ hand'.rules = cache BY <2>0
    <2>3. \A i \in hand'.todo : hand'.rules[i] # None BY <1>3, <2>2
    <2>4. QED BY <1>0, <1>1, <1>6, <2>1, <2>2, <2>3 DEF WriterTypes, Hands, Evaluating, issueVars
  <1>7. WriterTypes' BY <1>5, <1>6
  <1>8. ClientTypes' BY <1>0, <1>1 DEF ClientTypes, clientVars
  <1>9. EngineTypes' BY <1>0, <1>1 DEF EngineTypes, tableVars, memory, delivery
  <1>10. HistoryTypes' BY <1>0, <1>1 DEF HistoryTypes, history
  <1>11. QED BY <1>7, <1>8, <1>9, <1>10 DEF AlertsTypeOK

\* What a threshold rule's window holds of a minute after one more event.
CountAfter(w, m, width, k) ==
  (IF k + width < m + 1 \/ w = None THEN 0 ELSE w[k]) + (IF k = m THEN 1 ELSE 0)
\* WindowAdd keeps the minutes of the window and adds the event's.
LEMMA WindowAddIs ==
  ASSUME NEW w \in Windows \cup {None}, NEW m \in Minutes, NEW width \in Nat, width >= 1
  PROVE  /\ WindowAdd(w, m, width) \in Windows
         /\ \A k \in Minutes : WindowAdd(w, m, width)[k] = CountAfter(w, m, width, k)
  <1>1. PICK v : v = IF w = None THEN [k \in Minutes |-> 0] ELSE w OBVIOUS
  <1>2. v \in [Minutes -> Nat] BY <1>1 DEF Windows
  <1>3. PICK p : p = [k \in Minutes |-> IF k + width < m + 1 THEN 0 ELSE v[k]] OBVIOUS
  <1>4. Pruned(v, m, width) = p BY <1>3 DEF Pruned
  <1>5. p \in [Minutes -> Nat] BY <1>2, <1>3
  <1>6. WindowAdd(w, m, width) = [p EXCEPT ![m] = p[m] + 1] BY <1>1, <1>4 DEF WindowAdd
  <1>7. PICK q : q = [p EXCEPT ![m] = p[m] + 1] OBVIOUS
  <1>8. q \in [Minutes -> Nat] BY <1>5, <1>7
  <1>9. \A k \in Minutes : q[k] = p[k] + (IF k = m THEN 1 ELSE 0) BY <1>5, <1>7
  <1>10. \A k \in Minutes : p[k] = IF k + width < m + 1 \/ w = None THEN 0 ELSE w[k]
    BY <1>1, <1>3
  <1>11. QED BY <1>6, <1>7, <1>8, <1>9, <1>10 DEF Windows, CountAfter

\* What the history of a rule's events is after one more.
LEMMA CountsIs ==
  ASSUME NEW old \in Matches, NEW r \in Rows, NEW m \in Minutes
  PROVE  LET new == Counts(old, r, m)
         IN  /\ new \in Matches
             /\ new.made = r.made /\ new.window = r.what.window
             /\ new.minutes = Append(IF old.made = r.made THEN old.minutes ELSE <<>>, m)
             /\ (old.made = r.made /\ new.fit) =>
                  /\ old.fit /\ old.window = r.what.window
                  /\ old.minutes[Len(old.minutes)] <= m
  <1>1. PICK earlier : earlier = IF old.made = r.made THEN old.minutes ELSE <<>> OBVIOUS
  <1>2. PICK fit \in BOOLEAN :
          fit = (old.made = r.made => (old.fit /\ old.window = r.what.window
                                      /\ old.minutes[Len(old.minutes)] <= m))
    OBVIOUS
  <1>3. old.minutes \in Seq(Minutes) BY DEF Matches
  <1>4. earlier \in Seq(Minutes) BY <1>1, <1>3
  <1>5. Append(earlier, m) \in Seq(Minutes) BY <1>4
  <1>6. r.made \in Nat /\ r.what.window \in Nat BY WhatOf DEF Rows
  <1>7. Counts(old, r, m)
          = [made |-> r.made, window |-> r.what.window, minutes |-> Append(earlier, m), fit |-> fit]
    BY <1>1, <1>2 DEF Counts
  <1>8. [made |-> r.made, window |-> r.what.window, minutes |-> Append(earlier, m), fit |-> fit] \in Matches
    BY <1>5, <1>6 DEF Matches
  <1>9. PICK new : new = Counts(old, r, m) OBVIOUS
  <1>10. /\ new \in Matches /\ new.made = r.made /\ new.window = r.what.window
         /\ new.minutes = Append(IF old.made = r.made THEN old.minutes ELSE <<>>, m)
    BY <1>1, <1>7, <1>8, <1>9
  <1>11. new.fit = fit BY <1>7, <1>9
  <1>12. (old.made = r.made /\ fit) =>
           old.fit /\ old.window = r.what.window /\ old.minutes[Len(old.minutes)] <= m
    BY <1>2, Zenon
  <1>13. QED BY <1>9, <1>10, <1>11, <1>12, Zenon

\* The event is counted against the next rule.
LEMMA RecordTypes == ASSUME AlertsTypeOK, RecordThresholdEvent PROVE AlertsTypeOK'
  <1>0. ClientTypes /\ WriterTypes /\ EngineTypes /\ HistoryTypes BY DEF AlertsTypeOK
  <1>1. Evaluating BY DEF RecordThresholdEvent, Evaluating
  <1>2. PICK i \in Ids, r \in Rows : i = Min(hand.todo) /\ r = hand.rules[i] /\ i \in hand.todo
    BY <1>0, <1>1, NextRule
  <1>3. hand.ts \in EventTimes /\ Minute(hand.ts) \in Minutes BY <1>0, <1>1, NextRule, TimesAre
  <1>4. PICK m \in Minutes : m = Minute(hand.ts) BY <1>3
  <1>5. r.what \in Whats /\ r.what.kind = "threshold" BY <1>2 DEF RecordThresholdEvent, Rows
  <1>6. r.what.window \in Nat /\ r.what.window >= 1 BY <1>5, WhatOf
  <1>7. /\ windows' = [windows EXCEPT ![i] = WindowAdd(windows[i], m, r.what.window)]
        /\ matched' = [matched EXCEPT ![i] = Counts(matched[i], r, m)]
        /\ hand' = [hand EXCEPT !.pc = "fire"] \/ hand' = RulesLeft(i)
        /\ mixed' \subseteq mixed \cup {i}
    <2>1. windows' = [windows EXCEPT ![i] = WindowAdd(windows[i], m, r.what.window)]
      BY <1>2, <1>4 DEF RecordThresholdEvent
    <2>2. matched' = [matched EXCEPT ![i] = Counts(matched[i], r, m)]
      BY <1>2, <1>4 DEF RecordThresholdEvent
    <2>3. hand' = [hand EXCEPT !.pc = "fire"] \/ hand' = RulesLeft(i)
      BY <1>2 DEF RecordThresholdEvent
    <2>4. mixed' \subseteq mixed \cup {i} BY <1>2 DEF RecordThresholdEvent
    <2>5. QED BY <2>1, <2>2, <2>3, <2>4
  <1>8. UNCHANGED <<issueVars, tableVars, cache, lastFired, delivery, clientVars, fires>>
    BY DEF RecordThresholdEvent
  <1>9. windows' \in [Ids -> Windows \cup {None}]
    <2>1. windows[i] \in Windows \cup {None} BY <1>0 DEF EngineTypes
    <2>2. WindowAdd(windows[i], m, r.what.window) \in Windows BY <2>1, <1>6, WindowAddIs
    <2>3. QED BY <1>0, <1>7, <2>2 DEF EngineTypes
  <1>10. HistoryTypes'
    <2>1. matched[i] \in Matches BY <1>0 DEF HistoryTypes
    <2>2. PICK new : new = Counts(matched[i], r, m) OBVIOUS
    <2>3. PICK s \in Seq(Minutes) : new.minutes = Append(s, m)
      <3>1. matched[i].minutes \in Seq(Minutes) BY <2>1 DEF Matches
      <3>2. (IF matched[i].made = r.made THEN matched[i].minutes ELSE <<>>) \in Seq(Minutes) BY <3>1
      <3>3. new.minutes = Append(IF matched[i].made = r.made THEN matched[i].minutes ELSE <<>>, m)
        BY <2>1, <2>2, CountsIs
      <3>4. QED BY <3>2, <3>3
    <2>4. new \in Matches /\ new.window = r.what.window BY <2>1, <2>2, CountsIs
    <2>5. new.minutes # <<>> BY <2>3
    <2>6. matched' = [matched EXCEPT ![i] = new] BY <1>7, <2>2
    <2>7. matched' \in [Ids -> Matches] BY <1>0, <2>4, <2>6 DEF HistoryTypes
    <2>8. \A j \in Ids : matched'[j].made # 0 => matched'[j].minutes # <<>> /\ matched'[j].window >= 1
      BY <1>0, <1>6, <2>4, <2>5, <2>6 DEF HistoryTypes
    <2>9. mixed' \subseteq Ids BY <1>0, <1>7 DEF HistoryTypes
    <2>10. QED BY <1>0, <1>8, <2>7, <2>8, <2>9 DEF HistoryTypes
  <1>11. WriterTypes'
    <2>1. CASE hand' = [hand EXCEPT !.pc = "fire"]
      <3>1. PICK h : h = [hand EXCEPT !.pc = "fire"] OBVIOUS
      <3>2. hand \in Evaluations BY <1>0, <1>1, NextRule
      <3>3. h \in Evaluations /\ h.todo = hand.todo /\ h.rules = hand.rules
        BY <3>1, <3>2 DEF Evaluations
      <3>4. hand' = h BY <2>1, <3>1
      <3>5. QED BY <1>0, <1>1, <1>8, <3>3, <3>4 DEF WriterTypes, Hands, Evaluating, issueVars
    <2>2. CASE hand' = RulesLeft(i)
      <3>1. PICK h : h = RulesLeft(i) OBVIOUS
      <3>2. /\ h \in Hands
            /\ h.pc \in {"rules", "fire"} => h.todo # {} /\ \A j \in h.todo : h.rules[j] # None
        BY <1>0, <1>1, <1>2, <3>1, RulesLeftIs DEF WriterTypes
      <3>3. hand' = h BY <2>2, <3>1
      <3>4. QED BY <1>0, <1>8, <3>2, <3>3 DEF WriterTypes, Evaluating, issueVars
    <2>3. QED BY <1>7, <2>1, <2>2
  <1>12. ClientTypes' BY <1>0, <1>8 DEF ClientTypes, clientVars
  <1>13. EngineTypes' BY <1>0, <1>8, <1>9 DEF EngineTypes, tableVars, delivery
  <1>14. QED BY <1>10, <1>11, <1>12, <1>13 DEF AlertsTypeOK

\* What TryFire does with the next rule: it fires and its anchor is the
\* event's time, or it is held.
FiresAt(i, r) ==
  /\ ~Held(i, r)
  /\ lastFired' = [lastFired EXCEPT ![i] = hand.ts]
  /\ fires' = [fires EXCEPT ![i] =
       [ts |-> hand.ts, cooldown |-> r.cooldown, made |-> r.made, event |-> events, known |-> TRUE]]
  /\ mixed' = IF Another(i, r) THEN mixed \cup {i} ELSE mixed

\* A rule whose turn it is is taken up, and fires or does not.
LEMMA TryFireDoes ==
  ASSUME AlertsTypeOK, TryFire
  PROVE  /\ Evaluating
         /\ \E i \in Ids, r \in Rows :
              /\ r = hand.rules[i] /\ i \in hand.todo /\ hand' = RulesLeft(i)
              /\ FiresAt(i, r) \/ UNCHANGED <<lastFired, fires, mixed>>
  <1>0. WriterTypes BY DEF AlertsTypeOK
  <1>1. Evaluating BY DEF TryFire, Evaluating
  <1>2. PICK i \in Ids, r \in Rows : i = Min(hand.todo) /\ r = hand.rules[i] /\ i \in hand.todo
    BY <1>0, <1>1, NextRule
  <1>3. hand' = RulesLeft(i) /\ (FiresAt(i, r) \/ UNCHANGED <<lastFired, fires, mixed>>)
    BY <1>2 DEF TryFire, FiresAt
  <1>4. QED BY <1>1, <1>2, <1>3

\* The next rule fires or is held.
LEMMA TryFireTypes == ASSUME AlertsTypeOK, TryFire PROVE AlertsTypeOK'
  <1>0. ClientTypes /\ WriterTypes /\ EngineTypes /\ HistoryTypes BY DEF AlertsTypeOK
  <1>1. Evaluating BY TryFireDoes
  <1>2. PICK i \in Ids, r \in Rows :
          /\ r = hand.rules[i] /\ i \in hand.todo /\ hand' = RulesLeft(i)
          /\ FiresAt(i, r) \/ UNCHANGED <<lastFired, fires, mixed>>
    BY TryFireDoes
  <1>3. UNCHANGED <<issueVars, tableVars, cache, windows, job, clock, clientVars, restarts, matched>>
    BY DEF TryFire
  <1>4. queue' = queue \/ \E j \in Ids, q \in Rows : queue' = Append(queue, [id |-> j, made |-> q.made])
    BY <1>0, <1>1, NextRule DEF TryFire
  <1>5. queue' \in Seq(Jobs)
    <2>1. CASE queue' = queue BY <1>0, <2>1 DEF EngineTypes
    <2>2. ASSUME NEW j \in Ids, NEW q \in Rows, queue' = Append(queue, [id |-> j, made |-> q.made])
          PROVE  queue' \in Seq(Jobs)
      <3>1. [id |-> j, made |-> q.made] \in Jobs BY DEF Jobs, Rows
      <3>2. QED BY <1>0, <2>2, <3>1 DEF EngineTypes
    <2>3. QED BY <1>4, <2>1, <2>2
  <1>6. hand.ts \in EventTimes /\ hand.ts \in Nat BY <1>0, <1>1, NextRule, TimesAre
  <1>7. lastFired' \in [Ids -> Nat \cup {None}] BY <1>0, <1>2, <1>6 DEF EngineTypes, FiresAt
  <1>8. HistoryTypes'
    <2>1. CASE FiresAt(i, r)
      <3>1. PICK e : e = [ts |-> hand.ts, cooldown |-> r.cooldown, made |-> r.made, event |-> events,
                          known |-> TRUE]
        OBVIOUS
      <3>2. e \in Fires BY <1>0, <1>6, <3>1 DEF Fires, Rows, WriterTypes
      <3>3. fires' = [fires EXCEPT ![i] = e] BY <2>1, <3>1 DEF FiresAt
      <3>4. fires' \in [Ids -> Fires \cup {None}] BY <1>0, <3>2, <3>3 DEF HistoryTypes
      <3>5. mixed' \subseteq Ids BY <1>0, <2>1 DEF FiresAt, HistoryTypes
      <3>6. QED BY <1>0, <1>3, <3>4, <3>5 DEF HistoryTypes
    <2>2. CASE UNCHANGED <<lastFired, fires, mixed>> BY <1>0, <1>3, <2>2 DEF HistoryTypes
    <2>3. QED BY <1>2, <2>1, <2>2
  <1>9. WriterTypes'
    <2>1. PICK h : h = RulesLeft(i) OBVIOUS
    <2>2. /\ h \in Hands
          /\ h.pc \in {"rules", "fire"} => h.todo # {} /\ \A j \in h.todo : h.rules[j] # None
      BY <1>0, <1>1, <1>2, <2>1, RulesLeftIs DEF WriterTypes
    <2>3. hand' = h BY <1>2, <2>1
    <2>4. QED BY <1>0, <1>3, <2>2, <2>3 DEF WriterTypes, Evaluating, issueVars
  <1>10. ClientTypes' BY <1>0, <1>3 DEF ClientTypes, clientVars
  <1>11. EngineTypes' BY <1>0, <1>3, <1>5, <1>7 DEF EngineTypes, tableVars
  <1>12. QED BY <1>8, <1>9, <1>10, <1>11 DEF AlertsTypeOK

-----------------------------------------------------------------------------
(* The type invariant: Loads and restarts *)

\* A Load reads the table.
LEMMA LoadReadsTypes ==
  ASSUME AlertsTypeOK, NEW c \in Clients, LoadReads(c)
  PROVE  /\ AlertsTypeOK'
         /\ got'[c] = rules /\ \A d \in Clients : d # c => op'[d] = op[d] /\ got'[d] = got[d]
  <1>0. ClientTypes /\ WriterTypes /\ EngineTypes /\ HistoryTypes BY DEF AlertsTypeOK
  <1>1. UNCHANGED <<issueVars, hand, tableVars, memory, delivery, history>> BY DEF LoadReads
  <1>2. PICK o \in Ops : op' = [op EXCEPT ![c] = o] BY DEF LoadReads, Goes, Ops
  <1>3. got' = [got EXCEPT ![c] = rules] BY DEF LoadReads
  <1>4. rules \in Table BY <1>0 DEF EngineTypes
  <1>5. op' \in [Clients -> Ops] /\ got' \in [Clients -> Table \cup {None}]
    BY <1>0, <1>2, <1>3, <1>4 DEF ClientTypes
  <1>6. got'[c] = rules /\ \A d \in Clients : d # c => op'[d] = op[d] /\ got'[d] = got[d]
    BY <1>0, <1>2, <1>3 DEF ClientTypes
  <1>7. ClientTypes' BY <1>0, <1>4, <1>5, <1>6 DEF ClientTypes
  <1>8. WriterTypes' BY <1>0, <1>1 DEF WriterTypes, Evaluating, issueVars
  <1>9. EngineTypes' BY <1>0, <1>1 DEF EngineTypes, tableVars, memory, delivery
  <1>10. HistoryTypes' BY <1>0, <1>1 DEF HistoryTypes, history
  <1>11. QED BY <1>6, <1>7, <1>8, <1>9, <1>10 DEF AlertsTypeOK

\* What a Load leaves in memory of the rows it read.
LEMMA SeededIs ==
  ASSUME EngineTypes, NEW rows \in Table
  PROVE  /\ Seeded(rows) \in [Ids -> Nat \cup {None}]
         /\ \A i \in Ids :
              Seeded(rows)[i] = IF rows[i] = None THEN None
                                ELSE IF lastFired[i] = None THEN rows[i].fired ELSE lastFired[i]
  <1>1. \A i \in Ids : rows[i] # None => rows[i].fired \in Nat \cup {None} BY RowOf
  <1>2. \A i \in Ids : lastFired[i] \in Nat \cup {None} BY DEF EngineTypes
  <1>3. QED BY <1>1, <1>2 DEF Seeded

\* What an install does, of the rows that were read.
Installs(rows) ==
  /\ cache' = Cached(rows) /\ lastFired' = Seeded(rows)
  /\ windows' = [i \in Ids |-> IF rows[i] = None THEN None ELSE windows[i]]
  /\ mixed' = mixed \cup Confused(rows)
  /\ UNCHANGED <<issueVars, hand, tableVars, delivery, fires, matched>>

\* An install of the rules that were read keeps the types.
LEMMA LoadInstallsTypes ==
  ASSUME AlertsTypeOK, NEW c \in Clients, LoadInstalls(c)
  PROVE  /\ AlertsTypeOK' /\ ClientsQuiet
         /\ op[c].pc = "install" /\ got[c] \in Table /\ Installs(got[c])
  <1>0. ClientTypes /\ WriterTypes /\ EngineTypes /\ HistoryTypes BY DEF AlertsTypeOK
  <1>1. op[c].pc = "install" BY DEF LoadInstalls, At
  <1>2. got[c] \in Table BY <1>0, <1>1 DEF ClientTypes
  <1>3. PICK rows \in Table : rows = got[c] BY <1>2
  <1>4. Installs(got[c]) BY DEF LoadInstalls, Installs
  <1>5. Installs(rows) BY <1>3, <1>4
  <1>6. ClientTypes' /\ ClientsQuiet
    BY <1>0, EndsAdvances, AdvanceTypes DEF LoadInstalls, ClientsQuiet
  <1>7. cache' \in Table BY <1>5, CachedIs DEF Installs
  <1>8. lastFired' \in [Ids -> Nat \cup {None}] BY <1>0, <1>5, SeededIs DEF Installs
  <1>9. windows' \in [Ids -> Windows \cup {None}] BY <1>0, <1>5 DEF Installs, EngineTypes
  <1>10. mixed' \subseteq Ids BY <1>0, <1>5 DEF Installs, HistoryTypes, Confused
  <1>11. EngineTypes' BY <1>0, <1>5, <1>7, <1>8, <1>9 DEF EngineTypes, Installs, tableVars, delivery
  <1>12. WriterTypes' BY <1>0, <1>5 DEF WriterTypes, Evaluating, issueVars, Installs
  <1>13. HistoryTypes' BY <1>0, <1>5, <1>10 DEF HistoryTypes, Installs
  <1>14. QED BY <1>1, <1>2, <1>4, <1>6, <1>11, <1>12, <1>13 DEF AlertsTypeOK

\* What a restart leaves of a fire.
StillKnown(i) ==
  \/ fires[i] = None /\ fires'[i] = None
  \/ /\ fires[i] # None /\ fires'[i].made = fires[i].made /\ fires'[i].ts = fires[i].ts
     /\ fires'[i].event = fires[i].event
     /\ fires'[i].known => rules[i] # None /\ rules[i].fired # None /\ rules[i].fired >= fires[i].ts
\* A restart forgets what is in memory.
LEMMA RestartTypes ==
  ASSUME AlertsTypeOK, Restart
  PROVE  /\ AlertsTypeOK'
         /\ ClientsQuiet /\ hand' = Nobody /\ cache' = Cached(rules) /\ lastFired' = Fired(rules)
         /\ \A i \in Ids : windows'[i] = None /\ matched'[i] = NoEvents /\ StillKnown(i)
         /\ UNCHANGED <<issueVars, tableVars, mixed>>
  <1>0. ClientTypes /\ WriterTypes /\ EngineTypes /\ HistoryTypes BY DEF AlertsTypeOK
  <1>1. ClientTypes' /\ ClientsQuiet
    <2>1. Idle \in Ops /\ Idle.pc # "install" BY DEF Idle, Ops
    <2>2. op' = [c \in Clients |-> Idle] /\ got' = [c \in Clients |-> None] BY DEF Restart
    <2>3. QED BY <2>1, <2>2 DEF ClientTypes, ClientsQuiet
  <1>2. hand' = Nobody /\ UNCHANGED <<issueVars, tableVars, clock, mixed>> BY DEF Restart
  <1>3. WriterTypes' BY <1>0, <1>2 DEF WriterTypes, Hands, Nobody, Evaluating, issueVars
  <1>4. cache' = Cached(rules) /\ lastFired' = Fired(rules) /\ windows' = [i \in Ids |-> None]
    BY DEF Restart
  <1>5. EngineTypes'
    <2>1. queue' = <<>> /\ job' = None BY DEF Restart
    <2>2. cache' \in Table BY <1>0, <1>4, CachedIs DEF EngineTypes
    <2>3. lastFired' \in [Ids -> Nat \cup {None}] BY <1>0, <1>4, FiredIs DEF EngineTypes
    <2>4. QED BY <1>0, <1>2, <1>4, <2>1, <2>2, <2>3 DEF EngineTypes, tableVars
  <1>6. ASSUME NEW i \in Ids PROVE fires'[i] \in Fires \cup {None} /\ StillKnown(i)
    <2>1. PICK k \in BOOLEAN :
            k = (rules[i] # None /\ rules[i].fired # None /\ rules[i].fired >= fires[i].ts)
      OBVIOUS
    <2>2. fires'[i] = IF fires[i] = None THEN None ELSE [fires[i] EXCEPT !.known = k]
      BY <2>1 DEF Restart
    <2>3. CASE fires[i] = None BY <2>2, <2>3 DEF StillKnown
    <2>4. CASE fires[i] # None
      <3>1. PICK e : e = [fires[i] EXCEPT !.known = k] OBVIOUS
      <3>2. fires[i] \in Fires BY <1>0, <2>4 DEF HistoryTypes
      <3>3. e \in Fires /\ e.made = fires[i].made /\ e.ts = fires[i].ts /\ e.event = fires[i].event
            /\ e.known = k
        BY <3>1, <3>2 DEF Fires
      <3>4. fires'[i] = e BY <2>2, <2>4, <3>1
      <3>5. e.known => rules[i] # None /\ rules[i].fired # None /\ rules[i].fired >= fires[i].ts
        BY <2>1, <3>3, Zenon
      <3>6. QED BY <2>4, <3>3, <3>4, <3>5 DEF StillKnown
    <2>5. QED BY <2>3, <2>4
  <1>7. fires' \in [Ids -> Fires \cup {None}]
    <2>1. fires' = [i \in Ids |-> fires'[i]] BY DEF Restart
    <2>2. QED BY <1>6, <2>1
  <1>8. matched' = [i \in Ids |-> NoEvents] BY DEF Restart
  <1>9. NoEvents \in Matches /\ NoEvents.made = 0 BY DEF NoEvents, Matches
  <1>10. HistoryTypes' BY <1>0, <1>2, <1>7, <1>8, <1>9 DEF HistoryTypes
  <1>11. QED BY <1>1, <1>2, <1>3, <1>4, <1>5, <1>6, <1>8, <1>10 DEF AlertsTypeOK

-----------------------------------------------------------------------------
(* The type invariant: all steps *)

\* Every step is one of these.
LEMMA NextSteps ==
  ASSUME AlertsTypeOK, Next
  PROVE  \/ AlertsTypeOK' /\ Quiet
         \/ IssueEvent \/ RecordThresholdEvent \/ TryFire
         \/ \E c \in Clients : LoadReads(c) \/ LoadInstalls(c)
         \/ Restart
  <1>1. CASE Issue BY <1>1, IssueQuiet
  <1>2. CASE DeliverTakes \/ RecordResult BY <1>2, WorkerQuiet
  <1>3. ASSUME NEW c \in Clients, Client(c), ~(LoadReads(c) \/ LoadInstalls(c))
        PROVE  AlertsTypeOK' /\ Quiet
    <2>1. CASE Upsert(c) \/ Delete(c) \/ Test(c) BY <2>1, BeginMoves, MovesTypes
    <2>2. CASE FindAlertRule(c) BY <2>2, FindMoves, MovesTypes
    <2>3. CASE AlertRuleByID(c) \/ TestFire(c) \/ OpFails(c) BY <2>3, PlainMoves, MovesTypes
    <2>4. CASE UpsertAlertRule(c) BY <2>4, UpsertQuiet
    <2>5. CASE DeleteAlertRule(c) BY <2>5, DeleteQuiet
    <2>6. CASE RecordTest(c) BY <2>6, RecordTestQuiet
    <2>7. QED BY <1>3, <2>1, <2>2, <2>3, <2>4, <2>5, <2>6
              DEF Client, ApiUpsert, McpUpsert, ApiDelete, McpDelete, ApiTest, McpTest
  <1>4. QED BY <1>1, <1>2, <1>3 DEF Next

\* The types hold at the start.
LEMMA InitTypes == Init => AlertsTypeOK
  <1> SUFFICES ASSUME Init PROVE AlertsTypeOK OBVIOUS
  <1>1. rules \in Table BY AlertsAssumption DEF Init
  <1>2. WriterTypes
    BY FS_EmptySet DEF Init, IssuesInit, WriterTypes, Hands, Nobody, Evaluating
  <1>3. EngineTypes
    <2>1. cache \in Table BY <1>1, CachedIs DEF Init
    <2>2. lastFired \in [Ids -> Nat \cup {None}] BY <1>1, FiredIs DEF Init
    <2>3. QED BY <1>1, <2>1, <2>2 DEF Init, EngineTypes
  <1>4. HistoryTypes
    <2>1. NoEvents \in Matches /\ NoEvents.made = 0 BY DEF NoEvents, Matches
    <2>2. QED BY <2>1 DEF Init, HistoryTypes
  <1>5. ClientTypes
    <2>1. Idle \in Ops /\ Idle.pc # "install" BY DEF Idle, Ops
    <2>2. op = [c \in Clients |-> Idle] /\ got = [c \in Clients |-> None] BY DEF Init
    <2>3. QED BY <2>1, <2>2 DEF ClientTypes
  <1>6. QED BY <1>2, <1>3, <1>4, <1>5 DEF AlertsTypeOK

\* Every step keeps them.
LEMMA StepKeepsTypes == ASSUME AlertsTypeOK, [Next]_vars PROVE AlertsTypeOK'
  <1>1. CASE Next
    BY <1>1, NextSteps, IssueEventTypes, RecordTypes, TryFireTypes, LoadReadsTypes, LoadInstallsTypes,
       RestartTypes
  <1>2. CASE UNCHANGED vars
    <2>1. UNCHANGED <<issueVars, hand, tableVars, memory, delivery, clientVars, history>>
      BY <1>2 DEF vars
    <2>2. WriterTypes' BY <2>1 DEF AlertsTypeOK, WriterTypes, Evaluating, issueVars
    <2>3. EngineTypes' BY <2>1 DEF AlertsTypeOK, EngineTypes, tableVars, memory, delivery
    <2>4. HistoryTypes' BY <2>1 DEF AlertsTypeOK, HistoryTypes, history
    <2>5. ClientTypes' BY <2>1 DEF AlertsTypeOK, ClientTypes, clientVars
    <2>6. QED BY <2>2, <2>3, <2>4, <2>5 DEF AlertsTypeOK
  <1>3. QED BY <1>1, <1>2

\* The issues, the rules, the engine's memory and every operation keep their
\* types, and no issue has other samples than events that were stored.
THEOREM AlertsTyped == Spec => []AlertsTypeOK
  BY InitTypes, StepKeepsTypes, PTL DEF Spec

-----------------------------------------------------------------------------
(* The invariants of the engine's memory: quiet steps *)

MemoryInv == MadeInv /\ KnownInv /\ EmptyInv /\ ReadInv /\ AnchorInv

\* After a quiet step a rule in the table is new, or the one that was there.
LEMMA QuietRule ==
  ASSUME Quiet, NEW i \in Ids, rules'[i] # None
  PROVE  \/ rules'[i].made = made + 1 /\ made' = made + 1
         \/ Same(rules'[i], rules[i]) /\ (rules[i].fired # None => rules'[i].fired # None)
  BY DEF Quiet, Keeps, Same

\* The types of the numbers that rules are told apart by.
LEMMA MadeAre ==
  ASSUME AlertsTypeOK
  PROVE  /\ made \in Nat
         /\ \A i \in Ids : /\ rules[i] # None => rules[i].made \in Nat \ {0}
                           /\ cache[i] # None => cache[i].made \in Nat \ {0}
                           /\ fires[i] # None => fires[i].made \in Nat
                           /\ matched[i].made \in Nat
         /\ Evaluating => hand.rules \in Table /\ \A i \in Ids : hand.rules[i] # None => hand.rules[i].made \in Nat \ {0}
  <1>1. EngineTypes /\ HistoryTypes /\ WriterTypes BY DEF AlertsTypeOK
  <1>2. made \in Nat /\ rules \in Table /\ cache \in Table BY <1>1 DEF EngineTypes
  <1>3. \A i \in Ids : /\ fires[i] # None => fires[i].made \in Nat
                       /\ matched[i].made \in Nat
    BY <1>1 DEF HistoryTypes, Fires, Matches
  <1>4. Evaluating => hand.rules \in Table BY <1>1, NextRule DEF Evaluations
  <1>5. QED BY <1>2, <1>3, <1>4, RowOf

\* A quiet step makes no rule that anybody holds already.
LEMMA QuietKeepsMade == ASSUME AlertsTypeOK, AlertsTypeOK', MadeInv, Quiet PROVE MadeInv'
  <1>1. /\ made \in Nat /\ made' \in Nat /\ made <= made' /\ UNCHANGED <<memory, fires, matched>>
        /\ WriterQuiet /\ ClientsQuiet
    BY MadeAre DEF Quiet
  <1>2. Made(rules)'
    <2>1. ASSUME NEW i \in Ids, rules'[i] # None PROVE rules'[i].made <= made'
      BY <1>1, <2>1, QuietRule, MadeAre DEF MadeInv, Made, Same
    <2>2. QED BY <2>1 DEF Made
  <1>3. Made(cache)' /\ Made(fires)' BY <1>1, MadeAre DEF MadeInv, Made, memory
  <1>4. \A i \in Ids : matched'[i].made <= made' BY <1>1, MadeAre DEF MadeInv
  <1>5. Evaluating' => Made(hand.rules)'
    BY <1>1, MadeAre DEF MadeInv, Made, Evaluating, WriterQuiet
  <1>6. ASSUME NEW c \in Clients, op'[c].pc = "install" PROVE Made(got[c])'
    <2>1. op[c].pc = "install" /\ got'[c] = got[c] BY <1>1, <1>6 DEF ClientsQuiet
    <2>2. got[c] \in Table BY <2>1 DEF AlertsTypeOK, ClientTypes
    <2>3. \A i \in Ids : got[c][i] # None => got[c][i].made \in Nat BY <2>2, RowOf
    <2>4. QED BY <1>1, <2>1, <2>3 DEF MadeInv, Made
  <1>7. QED BY <1>2, <1>3, <1>4, <1>5, <1>6 DEF MadeInv

\* Nor does it disturb what is known of the rules there are.
LEMMA QuietKeepsMemory ==
  ASSUME AlertsTypeOK, AlertsTypeOK', MemoryInv, Quiet PROVE MemoryInv'
  <1>1. MadeInv' BY QuietKeepsMade DEF MemoryInv
  <1>2. /\ UNCHANGED <<cache, windows, lastFired, fires, matched>> /\ mixed \subseteq mixed'
        /\ WriterQuiet /\ ClientsQuiet
    BY DEF Quiet, memory
  <1>3. KnownInv'
    <2>1. SUFFICES ASSUME NEW i \in Ids, rules'[i] # None, i \notin mixed'
                   PROVE  /\ (Evaluating' /\ Same(hand'.rules[i], rules'[i])) => Same(cache[i], rules'[i])
                          /\ matched[i].made = rules'[i].made => Same(cache[i], rules'[i])
      BY <1>2 DEF KnownInv
    <2>2. Evaluating' => Evaluating /\ hand' = hand BY <1>2 DEF WriterQuiet, Evaluating
    <2>3. CASE Same(rules'[i], rules[i])
      BY <1>2, <2>1, <2>2, <2>3 DEF MemoryInv, KnownInv, Same
    <2>4. CASE rules'[i].made = made + 1
      <3>1. Evaluating => hand.rules[i] = None \/ hand.rules[i].made <= made
        BY DEF MemoryInv, MadeInv, Made
      <3>2. matched[i].made <= made BY DEF MemoryInv, MadeInv
      <3>3. QED BY <2>2, <2>4, <3>1, <3>2, MadeAre DEF Same
    <2>5. QED BY <2>1, <2>3, <2>4, QuietRule
  <1>4. EmptyInv' BY <1>2 DEF MemoryInv, EmptyInv
  <1>5. ReadInv'
    <2>1. SUFFICES ASSUME NEW c \in Clients, NEW i \in Ids, op'[c].pc = "install",
                          Same(got'[c][i], rules'[i]), got'[c][i].fired # None
                   PROVE  rules'[i].fired # None
      BY DEF ReadInv
    <2>2. op[c].pc = "install" /\ got'[c] = got[c] BY <1>2, <2>1 DEF ClientsQuiet
    <2>3. rules'[i] # None /\ got[c][i] # None /\ got[c][i].made = rules'[i].made BY <2>1, <2>2 DEF Same
    <2>4. got[c][i].made <= made /\ got[c][i].made \in Nat
      BY <2>2, <2>3, RowOf DEF MemoryInv, MadeInv, Made, AlertsTypeOK, ClientTypes
    <2>5. rules'[i].made # made + 1 BY <2>3, <2>4, MadeAre
    <2>6. Same(rules'[i], rules[i]) /\ (rules[i].fired # None => rules'[i].fired # None)
      BY <2>3, <2>5, QuietRule
    <2>7. QED BY <2>1, <2>2, <2>6 DEF MemoryInv, ReadInv, Same
  <1>6. AnchorInv'
    <2>1. SUFFICES ASSUME NEW i \in Ids \ mixed', Same(fires[i], rules'[i]), fires[i].known
                   PROVE  lastFired[i] # None /\ lastFired[i] >= fires[i].ts
      BY <1>2 DEF AnchorInv
    <2>2. fires[i] # None /\ rules'[i] # None /\ fires[i].made = rules'[i].made BY <2>1 DEF Same
    <2>3. fires[i].made <= made BY <2>2 DEF MemoryInv, MadeInv, Made
    <2>4. rules'[i].made # made + 1 BY <2>2, <2>3, MadeAre
    <2>5. Same(rules'[i], rules[i]) BY <2>2, <2>4, QuietRule
    <2>6. QED BY <1>2, <2>1, <2>5 DEF MemoryInv, AnchorInv, Same
  <1>7. QED BY <1>1, <1>3, <1>4, <1>5, <1>6 DEF MemoryInv

-----------------------------------------------------------------------------
(* The invariants of the engine's memory: the evaluation of an event *)

\* The writer takes the snapshot.
LEMMA IssueEventKeepsMemory ==
  ASSUME AlertsTypeOK, MemoryInv, IssueEvent PROVE MemoryInv'
  <1>1. UNCHANGED <<tableVars, memory, op, got, history>> BY DEF IssueEvent, clientVars
  <1>2. UNCHANGED <<rules, made, cache, windows, lastFired, fires, matched, mixed>>
    BY <1>1 DEF tableVars, memory, history
  <1>3. Evaluating' => hand'.rules = cache
    <2>1. hand' = Nobody \/ hand'.rules = cache BY DEF IssueEvent
    <2>2. QED BY <2>1 DEF Evaluating, Nobody
  <1>4. MadeInv' BY <1>1, <1>2, <1>3 DEF MemoryInv, MadeInv, Made
  <1>5. KnownInv' BY <1>2, <1>3 DEF MemoryInv, KnownInv, Same
  <1>6. EmptyInv' /\ AnchorInv' BY <1>2 DEF MemoryInv, EmptyInv, AnchorInv
  <1>7. ReadInv' BY <1>1, <1>2 DEF MemoryInv, ReadInv
  <1>8. QED BY <1>4, <1>5, <1>6, <1>7 DEF MemoryInv

\* After a rule is dealt with, the writer holds the same rules or none.
LEMMA LeftHolds ==
  ASSUME WriterTypes, Evaluating, NEW i \in Ids,
         hand' = [hand EXCEPT !.pc = "fire"] \/ hand' = RulesLeft(i)
  PROVE  Evaluating' => hand'.rules = hand.rules
  <1>1. hand \in Evaluations BY NextRule
  <1>2. CASE hand' = [hand EXCEPT !.pc = "fire"] BY <1>1, <1>2 DEF Evaluations
  <1>3. CASE hand' = RulesLeft(i)
    <2>1. hand' = Nobody \/ hand'.rules = hand.rules BY <1>1, <1>3 DEF RulesLeft, Evaluations
    <2>2. QED BY <2>1 DEF Evaluating, Nobody
  <1>4. QED BY <1>2, <1>3

\* What counting an event does to rule i and to the others.
RecordsAt(i, r) ==
  /\ r = hand.rules[i] /\ i \in hand.todo /\ r.what \in Whats /\ r.what.window >= 1
  /\ windows'[i] = WindowAdd(windows[i], Minute(hand.ts), r.what.window)
  /\ matched'[i] = Counts(matched[i], r, Minute(hand.ts))
  /\ mixed' = IF Another(i, r) THEN mixed \cup {i} ELSE mixed
  /\ \A j \in Ids : j # i => windows'[j] = windows[j] /\ matched'[j] = matched[j]

\* What recording an event does to one rule.
LEMMA RecordDoesAt ==
  ASSUME AlertsTypeOK, RecordThresholdEvent
  PROVE  /\ Evaluating /\ Minute(hand.ts) \in Minutes
         /\ \E i \in Ids, r \in Rows : RecordsAt(i, r)
         /\ Evaluating' => hand'.rules = hand.rules
         /\ UNCHANGED <<rules, made, cache, lastFired, fires, op, got>>
  <1>0. WriterTypes /\ EngineTypes /\ HistoryTypes BY DEF AlertsTypeOK
  <1>1. Evaluating BY DEF RecordThresholdEvent, Evaluating
  <1>2. PICK i \in Ids, r \in Rows : i = Min(hand.todo) /\ r = hand.rules[i] /\ i \in hand.todo
    BY <1>0, <1>1, NextRule
  <1>3. Minute(hand.ts) \in Minutes BY <1>0, <1>1, NextRule, TimesAre
  <1>4. r.what \in Whats /\ r.what.kind = "threshold" BY <1>2 DEF RecordThresholdEvent, Rows
  <1>5. PICK w, n :
          /\ w = WindowAdd(windows[i], Minute(hand.ts), r.what.window)
          /\ n = Counts(matched[i], r, Minute(hand.ts))
    OBVIOUS
  <1>6. windows' = [windows EXCEPT ![i] = w] BY <1>2, <1>5 DEF RecordThresholdEvent
  <1>7. matched' = [matched EXCEPT ![i] = n] BY <1>2, <1>5 DEF RecordThresholdEvent
  <1>8. hand' = [hand EXCEPT !.pc = "fire"] \/ hand' = RulesLeft(i)
    BY <1>2 DEF RecordThresholdEvent
  <1>9. mixed' = IF Another(i, r) THEN mixed \cup {i} ELSE mixed BY <1>2 DEF RecordThresholdEvent
  <1>10. windows'[i] = w /\ \A j \in Ids : j # i => windows'[j] = windows[j]
    BY <1>0, <1>6 DEF EngineTypes
  <1>11. matched'[i] = n /\ \A j \in Ids : j # i => matched'[j] = matched[j]
    BY <1>0, <1>7 DEF HistoryTypes
  <1>12. RecordsAt(i, r)
    BY <1>2, <1>4, <1>5, <1>9, <1>10, <1>11, WhatOf DEF RecordsAt
  <1>13. UNCHANGED <<rules, made, cache, lastFired, fires, op, got>>
    BY DEF RecordThresholdEvent, tableVars, clientVars
  <1>14. QED BY <1>0, <1>1, <1>2, <1>3, <1>8, <1>12, <1>13, LeftHolds

\* An event is counted against a rule that the snapshot has, or else its id
\* is out of the question.
LEMMA RecordKeepsMemory ==
  ASSUME AlertsTypeOK, MemoryInv, RecordThresholdEvent PROVE MemoryInv'
  <1>0. WriterTypes /\ EngineTypes /\ HistoryTypes BY DEF AlertsTypeOK
  <1>1. PICK i \in Ids, r \in Rows : RecordsAt(i, r) BY RecordDoesAt
  <1>2. /\ Evaluating /\ Minute(hand.ts) \in Minutes
        /\ Evaluating' => hand'.rules = hand.rules
        /\ UNCHANGED <<rules, made, cache, lastFired, fires, op, got>>
    BY RecordDoesAt
  <1>3. mixed \subseteq mixed' /\ (i \notin mixed' => ~Another(i, r)) BY <1>1 DEF RecordsAt
  <1>4. r = hand.rules[i] /\ r # None BY <1>0, <1>1, <1>2 DEF RecordsAt, WriterTypes
  <1>5. matched'[i].made = r.made /\ \A j \in Ids : j # i => matched'[j] = matched[j]
    <2>1. matched[i] \in Matches BY <1>0 DEF HistoryTypes
    <2>2. QED BY <1>1, <1>2, <2>1, CountsIs DEF RecordsAt
  <1>6. i \notin mixed' => Same(hand.rules[i], rules[i]) /\ Same(cache[i], rules[i])
    <2>1. SUFFICES ASSUME i \notin mixed' PROVE Same(hand.rules[i], rules[i]) /\ Same(cache[i], rules[i])
      OBVIOUS
    <2>2. Same(hand.rules[i], rules[i]) BY <1>3, <1>4, <2>1 DEF Another, Same
    <2>3. QED BY <1>2, <1>3, <2>1, <2>2 DEF MemoryInv, KnownInv, Same
  <1>7. MadeInv'
    <2>1. r.made <= made BY <1>2, <1>4 DEF MemoryInv, MadeInv, Made
    <2>2. \A j \in Ids : matched'[j].made <= made BY <1>5, <2>1 DEF MemoryInv, MadeInv
    <2>3. QED BY <1>2, <2>2 DEF MemoryInv, MadeInv, Made
  <1>8. KnownInv'
    <2>1. SUFFICES ASSUME NEW j \in Ids, rules[j] # None, j \notin mixed'
                   PROVE  /\ (Evaluating' /\ Same(hand'.rules[j], rules[j])) => Same(cache[j], rules[j])
                          /\ matched'[j].made = rules[j].made => Same(cache[j], rules[j])
      BY <1>2 DEF KnownInv
    <2>2. CASE j = i BY <1>6, <2>1, <2>2
    <2>3. CASE j # i BY <1>2, <1>3, <1>5, <2>1, <2>3 DEF MemoryInv, KnownInv
    <2>4. QED BY <2>2, <2>3
  <1>9. EmptyInv'
    <2>1. SUFFICES ASSUME NEW j \in Ids \ mixed', cache[j] = None
                   PROVE  lastFired[j] = None /\ windows'[j] = None
      BY <1>2 DEF EmptyInv
    <2>2. j # i BY <1>6, <2>1 DEF Same
    <2>3. QED BY <1>1, <1>3, <2>1, <2>2 DEF MemoryInv, EmptyInv, RecordsAt
  <1>10. ReadInv' BY <1>2 DEF MemoryInv, ReadInv
  <1>11. AnchorInv' BY <1>2, <1>3 DEF MemoryInv, AnchorInv
  <1>12. QED BY <1>7, <1>8, <1>9, <1>10, <1>11 DEF MemoryInv

\* The same of a fire, whose time is the new anchor.
LEMMA TryFireKeepsMemory == ASSUME AlertsTypeOK, MemoryInv, TryFire PROVE MemoryInv'
  <1>0. WriterTypes /\ EngineTypes /\ HistoryTypes BY DEF AlertsTypeOK
  <1>1. PICK i \in Ids, r \in Rows :
          /\ r = hand.rules[i] /\ i \in hand.todo /\ hand' = RulesLeft(i)
          /\ FiresAt(i, r) \/ UNCHANGED <<lastFired, fires, mixed>>
    BY TryFireDoes
  <1>2. Evaluating /\ UNCHANGED <<rules, made, cache, windows, matched, op, got>>
    BY TryFireDoes DEF TryFire, tableVars, clientVars
  <1>3. Evaluating' => hand'.rules = hand.rules BY <1>0, <1>1, <1>2, LeftHolds
  <1>4. r # None BY <1>0, <1>1, <1>2 DEF WriterTypes
  <1>5. CASE UNCHANGED <<lastFired, fires, mixed>>
    <2>1. MadeInv' BY <1>2, <1>3, <1>5 DEF MemoryInv, MadeInv, Made
    <2>2. KnownInv' BY <1>2, <1>3, <1>5 DEF MemoryInv, KnownInv
    <2>3. EmptyInv' /\ ReadInv' /\ AnchorInv'
      BY <1>2, <1>5 DEF MemoryInv, EmptyInv, ReadInv, AnchorInv
    <2>4. QED BY <2>1, <2>2, <2>3 DEF MemoryInv
  <1>6. CASE FiresAt(i, r)
    <2>1. mixed \subseteq mixed' /\ (i \notin mixed' => ~Another(i, r)) BY <1>6 DEF FiresAt
    <2>2. i \notin mixed' => Same(hand.rules[i], rules[i]) /\ Same(cache[i], rules[i])
      <3>1. SUFFICES ASSUME i \notin mixed' PROVE Same(hand.rules[i], rules[i]) /\ Same(cache[i], rules[i])
        OBVIOUS
      <3>2. Same(hand.rules[i], rules[i]) BY <1>1, <1>4, <2>1, <3>1 DEF Another, Same
      <3>3. QED BY <1>2, <2>1, <3>1, <3>2 DEF MemoryInv, KnownInv, Same
    <2>3. /\ lastFired'[i] = hand.ts /\ fires'[i].made = r.made /\ fires'[i].ts = hand.ts
          /\ \A j \in Ids : j # i => lastFired'[j] = lastFired[j] /\ fires'[j] = fires[j]
      BY <1>0, <1>6 DEF FiresAt, EngineTypes, HistoryTypes
    <2>4. hand.ts \in Nat /\ hand.ts # None
      <3>1. hand.ts \in EventTimes BY <1>0, <1>2, NextRule
      <3>2. hand.ts \in Nat BY <3>1, TimesAre
      <3>3. QED BY <3>2, AlertsAssumption
    <2>5. MadeInv'
      <3>1. r.made <= made BY <1>1, <1>2, <1>4 DEF MemoryInv, MadeInv, Made
      <3>2. \A j \in Ids : fires'[j] # None => fires'[j].made <= made
        BY <2>3, <3>1 DEF MemoryInv, MadeInv, Made
      <3>3. Made(fires)' BY <1>2, <3>2 DEF Made
      <3>4. Made(rules)' /\ Made(cache)' BY <1>2 DEF MemoryInv, MadeInv, Made
      <3>5. \A c \in Clients : op'[c].pc = "install" => Made(got[c])' BY <1>2 DEF MemoryInv, MadeInv, Made
      <3>6. Evaluating' => Made(hand.rules)' BY <1>2, <1>3 DEF MemoryInv, MadeInv, Made
      <3>7. QED BY <1>2, <3>3, <3>4, <3>5, <3>6 DEF MemoryInv, MadeInv
    <2>6. KnownInv' BY <1>2, <1>3, <2>1 DEF MemoryInv, KnownInv
    <2>7. EmptyInv'
      <3>1. SUFFICES ASSUME NEW j \in Ids \ mixed', cache[j] = None
                     PROVE  lastFired'[j] = None /\ windows[j] = None
        BY <1>2 DEF EmptyInv
      <3>2. j # i BY <2>2, <3>1 DEF Same
      <3>3. QED BY <2>1, <2>3, <3>1, <3>2 DEF MemoryInv, EmptyInv
    <2>8. ReadInv' BY <1>2 DEF MemoryInv, ReadInv
    <2>9. AnchorInv'
      <3>1. SUFFICES ASSUME NEW j \in Ids \ mixed', Same(fires'[j], rules[j]), fires'[j].known
                     PROVE  lastFired'[j] # None /\ lastFired'[j] >= fires'[j].ts
        BY <1>2 DEF AnchorInv
      <3>2. CASE j = i BY <2>3, <2>4, <3>2
      <3>3. CASE j # i BY <2>1, <2>3, <3>1, <3>3 DEF MemoryInv, AnchorInv
      <3>4. QED BY <3>2, <3>3
    <2>10. QED BY <2>5, <2>6, <2>7, <2>8, <2>9 DEF MemoryInv
  <1>7. QED BY <1>1, <1>5, <1>6

-----------------------------------------------------------------------------
(* The invariants of the engine's memory: Loads and restarts *)

\* What a Load reads is what is stored.
LEMMA LoadReadsKeepsMemory ==
  ASSUME AlertsTypeOK, MemoryInv, NEW c \in Clients, LoadReads(c) PROVE MemoryInv'
  <1>1. got'[c] = rules /\ \A d \in Clients : d # c => op'[d] = op[d] /\ got'[d] = got[d]
    BY LoadReadsTypes
  <1>2. UNCHANGED <<hand, rules, made, cache, windows, lastFired, fires, matched, mixed>>
    BY DEF LoadReads, tableVars, memory, history
  <1>3. MadeInv'
    <2>1. \A d \in Clients : op'[d].pc = "install" => Made(got'[d])
      BY <1>1 DEF MemoryInv, MadeInv
    <2>2. QED BY <1>2, <2>1 DEF MemoryInv, MadeInv, Made, Evaluating
  <1>4. KnownInv' /\ EmptyInv' /\ AnchorInv'
    BY <1>2 DEF MemoryInv, KnownInv, EmptyInv, AnchorInv, Evaluating
  <1>5. ReadInv'
    <2>1. SUFFICES ASSUME NEW d \in Clients, NEW i \in Ids, op'[d].pc = "install",
                          Same(got'[d][i], rules[i]), got'[d][i].fired # None
                   PROVE  rules[i].fired # None
      BY <1>2 DEF ReadInv
    <2>2. CASE d = c BY <1>1, <2>1, <2>2
    <2>3. CASE d # c BY <1>1, <2>1, <2>3 DEF MemoryInv, ReadInv
    <2>4. QED BY <2>2, <2>3
  <1>6. QED BY <1>3, <1>4, <1>5 DEF MemoryInv

\* An id that a Load does not put out of the question: the row it read is of
\* the rule in the table, and of the one in the snapshot if there is one.
LEMMA NotConfused ==
  ASSUME NEW rows, NEW i \in Ids, i \notin Confused(rows), rules[i] # None
  PROVE  Same(rows[i], rules[i]) /\ (cache[i] # None => Same(cache[i], rules[i]))
  BY DEF Confused, Same

\* A Load replaces the snapshot and prunes the memory.
LEMMA LoadInstallsKeepsMemory ==
  ASSUME AlertsTypeOK, MemoryInv, NEW c \in Clients, LoadInstalls(c) PROVE MemoryInv'
  <1>0. EngineTypes BY DEF AlertsTypeOK
  <1>1. op[c].pc = "install" /\ got[c] \in Table /\ Installs(got[c]) /\ ClientsQuiet
    BY LoadInstallsTypes
  <1>2. PICK rows \in Table : rows = got[c] BY <1>1
  <1>3. /\ UNCHANGED <<hand, rules, made, fires, matched>>
        /\ mixed' = mixed \cup Confused(rows) /\ cache' = Cached(rows) /\ lastFired' = Seeded(rows)
        /\ \A i \in Ids : windows'[i] = IF rows[i] = None THEN None ELSE windows[i]
    BY <1>1, <1>2 DEF Installs, tableVars
  <1>4. \A i \in Ids : /\ cache'[i] = None <=> rows[i] = None
                       /\ rows[i] # None => cache'[i].made = rows[i].made
    BY <1>3, CachedIs
  <1>5. \A i \in Ids :
          lastFired'[i] = IF rows[i] = None THEN None
                          ELSE IF lastFired[i] = None THEN rows[i].fired ELSE lastFired[i]
    BY <1>0, <1>3, SeededIs
  <1>6. MadeInv'
    <2>1. Made(rows) BY <1>1, <1>2 DEF MemoryInv, MadeInv
    <2>2. Made(cache)' BY <1>3, <1>4, <2>1 DEF Made
    <2>3. \A d \in Clients : op'[d].pc = "install" => Made(got'[d])
      BY <1>1 DEF MemoryInv, MadeInv, ClientsQuiet
    <2>4. QED BY <1>3, <2>2, <2>3 DEF MemoryInv, MadeInv, Made, Evaluating
  <1>7. KnownInv'
    <2>1. ASSUME NEW i \in Ids, rules[i] # None, i \notin mixed' PROVE Same(cache'[i], rules[i])
      <3>1. i \notin Confused(rows) BY <1>3, <2>1
      <3>2. Same(rows[i], rules[i]) BY <2>1, <3>1, NotConfused
      <3>3. QED BY <1>4, <3>2 DEF Same
    <2>2. QED BY <1>3, <2>1 DEF KnownInv
  <1>8. EmptyInv' BY <1>3, <1>4, <1>5 DEF EmptyInv
  <1>9. ReadInv' BY <1>1, <1>3 DEF MemoryInv, ReadInv, ClientsQuiet
  <1>10. AnchorInv'
    <2>1. SUFFICES ASSUME NEW i \in Ids \ mixed', Same(fires[i], rules[i]), fires[i].known
                   PROVE  lastFired'[i] # None /\ lastFired'[i] >= fires[i].ts
      BY <1>3 DEF AnchorInv
    <2>2. i \notin mixed /\ i \notin Confused(rows) /\ rules[i] # None BY <1>3, <2>1 DEF Same
    <2>3. rows[i] # None BY <2>2, NotConfused DEF Same
    <2>4. lastFired[i] # None /\ lastFired[i] >= fires[i].ts
      BY <2>1, <2>2 DEF MemoryInv, AnchorInv
    <2>5. QED BY <1>5, <2>3, <2>4
  <1>11. QED BY <1>6, <1>7, <1>8, <1>9, <1>10 DEF MemoryInv

\* A restart takes the anchors from the table and forgets the rest.
LEMMA RestartKeepsMemory == ASSUME AlertsTypeOK, MemoryInv, Restart PROVE MemoryInv'
  <1>0. EngineTypes /\ HistoryTypes BY DEF AlertsTypeOK
  <1>1. rules \in Table BY <1>0 DEF EngineTypes
  <1>2. /\ ClientsQuiet /\ hand' = Nobody /\ cache' = Cached(rules) /\ lastFired' = Fired(rules)
        /\ \A i \in Ids : windows'[i] = None /\ matched'[i] = NoEvents /\ StillKnown(i)
        /\ UNCHANGED <<rules, made, mixed>>
    BY RestartTypes DEF tableVars
  <1>3. \A i \in Ids : /\ cache'[i] = None <=> rules[i] = None
                       /\ rules[i] # None => cache'[i].made = rules[i].made
    BY <1>1, <1>2, CachedIs
  <1>4. \A i \in Ids : lastFired'[i] = IF rules[i] = None THEN None ELSE rules[i].fired
    BY <1>1, <1>2, FiredIs
  <1>5. ~Evaluating' BY <1>2 DEF Evaluating, Nobody
  <1>6. MadeInv'
    <2>1. Made(cache)' BY <1>2, <1>3 DEF MemoryInv, MadeInv, Made
    <2>2. Made(fires)' BY <1>2 DEF MemoryInv, MadeInv, Made, StillKnown
    <2>3. \A i \in Ids : matched'[i].made <= made BY <1>2, MadeAre DEF NoEvents
    <2>4. \A d \in Clients : op'[d].pc = "install" => Made(got'[d])
      BY <1>2 DEF MemoryInv, MadeInv, ClientsQuiet
    <2>5. QED BY <1>2, <1>5, <2>1, <2>2, <2>3, <2>4 DEF MemoryInv, MadeInv, Made
  <1>7. KnownInv' BY <1>2, <1>3, <1>5 DEF KnownInv, Same
  <1>8. EmptyInv' BY <1>2, <1>3, <1>4 DEF EmptyInv
  <1>9. ReadInv' BY <1>2 DEF MemoryInv, ReadInv, ClientsQuiet
  <1>10. AnchorInv'
    <2>1. SUFFICES ASSUME NEW i \in Ids \ mixed, Same(fires'[i], rules[i]), fires'[i].known
                   PROVE  lastFired'[i] # None /\ lastFired'[i] >= fires'[i].ts
      BY <1>2 DEF AnchorInv
    <2>2. fires'[i] # None BY <2>1 DEF Same
    <2>3. rules[i] # None /\ rules[i].fired # None /\ rules[i].fired >= fires'[i].ts
      BY <1>2, <2>1, <2>2 DEF StillKnown
    <2>4. QED BY <1>4, <2>3
  <1>11. QED BY <1>6, <1>7, <1>8, <1>9, <1>10 DEF MemoryInv

\* Together, and at the start.
LEMMA StepKeepsMemory == ASSUME AlertsTypeOK, MemoryInv, [Next]_vars PROVE MemoryInv'
  <1>1. AlertsTypeOK' BY StepKeepsTypes
  <1>2. CASE Next
    BY <1>1, <1>2, NextSteps, QuietKeepsMemory, IssueEventKeepsMemory, RecordKeepsMemory,
       TryFireKeepsMemory, LoadReadsKeepsMemory, LoadInstallsKeepsMemory, RestartKeepsMemory
  <1>3. CASE UNCHANGED vars
    <2>1. Quiet
      BY <1>3, MadeAre DEF vars, tableVars, memory, history, clientVars, Quiet, Keeps, WriterQuiet,
                           ClientsQuiet
    <2>2. QED BY <1>1, <2>1, QuietKeepsMemory
  <1>4. QED BY <1>2, <1>3

\* At the start the snapshot is the table and nothing has happened.
LEMMA InitMemory == Init => MemoryInv
  <1> SUFFICES ASSUME Init PROVE MemoryInv OBVIOUS
  <1>1. /\ rules \in FirstRules /\ rules \in Table /\ cache = Cached(rules) /\ made = 1
        /\ lastFired = Fired(rules) /\ windows = [i \in Ids |-> None]
        /\ fires = [i \in Ids |-> None] /\ matched = [i \in Ids |-> NoEvents]
        /\ \A c \in Clients : op[c].pc = "idle"
    BY AlertsAssumption DEF Init, Idle
  <1>2. ~Evaluating BY DEF Init, IssuesInit, Evaluating, Nobody
  <1>3. \A i \in Ids : /\ cache[i] = None <=> rules[i] = None
                       /\ rules[i] # None => cache[i].made = rules[i].made /\ rules[i].made = 1
    BY <1>1, CachedIs, AlertsAssumption
  <1>4. MadeInv BY <1>1, <1>2, <1>3 DEF MadeInv, Made, NoEvents
  <1>5. KnownInv BY <1>1, <1>2, <1>3 DEF KnownInv, Same, NoEvents
  <1>6. EmptyInv BY <1>1, <1>3, FiredIs DEF EmptyInv
  <1>7. ReadInv /\ AnchorInv BY <1>1 DEF ReadInv, AnchorInv, Same
  <1>8. QED BY <1>4, <1>5, <1>6, <1>7 DEF MemoryInv

-----------------------------------------------------------------------------
(* CooldownKept *)

\* Only TryFire makes a fire, and it has seen the anchor.
LEMMA StepKeepsCooldown ==
  ASSUME AlertsTypeOK, MemoryInv, [Next]_vars, NEW i \in Ids, fires[i] # None,
         fires'[i].event # fires[i].event, fires[i].made = fires'[i].made, fires[i].known,
         fires'[i].cooldown > 0, i \notin mixed'
  PROVE  fires'[i].ts >= fires[i].ts + fires'[i].cooldown
  <1>0. WriterTypes /\ EngineTypes /\ HistoryTypes BY DEF AlertsTypeOK
  <1>1. TryFire
    <2>1. CASE Restart BY <2>1, RestartTypes DEF StillKnown
    <2>2. CASE Quiet \/ IssueEvent BY <2>2 DEF Quiet, IssueEvent, history
    <2>3. CASE RecordThresholdEvent BY <2>3 DEF RecordThresholdEvent
    <2>4. CASE \E c \in Clients : LoadReads(c) \/ LoadInstalls(c)
      BY <2>4 DEF LoadReads, LoadInstalls, history
    <2>5. CASE UNCHANGED vars BY <2>5 DEF vars, history
    <2>6. QED BY <2>1, <2>2, <2>3, <2>4, <2>5, NextSteps
  <1>2. PICK k \in Ids, r \in Rows :
          /\ r = hand.rules[k] /\ k \in hand.todo
          /\ FiresAt(k, r) \/ UNCHANGED <<lastFired, fires, mixed>>
    BY <1>1, TryFireDoes
  <1>3. FiresAt(k, r) BY <1>2
  <1>4. k = i BY <1>0, <1>3 DEF FiresAt, HistoryTypes
  <1>5. fires'[i].ts = hand.ts /\ fires'[i].cooldown = r.cooldown /\ fires'[i].made = r.made
    BY <1>0, <1>3, <1>4 DEF FiresAt, HistoryTypes
  <1>6. i \notin mixed /\ ~Another(i, r) BY <1>3, <1>4 DEF FiresAt
  <1>7. Same(fires[i], rules[i]) BY <1>5, <1>6 DEF Another, Same
  <1>8. lastFired[i] # None /\ lastFired[i] >= fires[i].ts BY <1>6, <1>7 DEF MemoryInv, AnchorInv
  <1>9. ~(hand.ts < lastFired[i] + r.cooldown) BY <1>3, <1>4, <1>5, <1>8 DEF FiresAt, Held
  <1>10. /\ hand.ts \in Nat /\ r.cooldown \in Nat /\ lastFired[i] \in Nat /\ fires[i].ts \in Nat
    <2>1. hand.ts \in EventTimes BY <1>0, <1>1, TryFireDoes, NextRule
    <2>2. fires[i].ts \in EventTimes BY <1>0 DEF HistoryTypes, Fires
    <2>3. lastFired[i] \in Nat BY <1>0, <1>8 DEF EngineTypes
    <2>4. r.cooldown \in Nat BY DEF Rows
    <2>5. QED BY <2>1, <2>2, <2>3, <2>4, TimesAre
  <1>11. QED BY <1>5, <1>8, <1>9, <1>10

\* README.md:227, 259-262: a rule does not fire twice within its cooldown,
\* whatever updates, reloads, test fires and restarts come between.
THEOREM CooldownIsKept == Spec => CooldownKept
  <1> DEFINE IInv == AlertsTypeOK /\ MemoryInv
  <1>1. Init => IInv BY InitTypes, InitMemory
  <1>2. IInv /\ [Next]_vars => IInv' BY StepKeepsTypes, StepKeepsMemory
  <1>3. IInv /\ [Next]_vars
          => [\A i \in Ids :
                LET f == fires[i]
                    g == fires'[i]
                IN  (f # None /\ g.event # f.event /\ f.made = g.made /\ f.known /\ g.cooldown > 0
                     /\ i \notin mixed')
                      => g.ts >= f.ts + g.cooldown]_vars
    BY StepKeepsCooldown
  <1>4. QED BY <1>1, <1>2, <1>3, PTL DEF Spec, CooldownKept

-----------------------------------------------------------------------------
(* InheritsNothing *)

\* A rule settled after a quiet step was settled before it.
LEMMA QuietSettled ==
  ASSUME AlertsTypeOK, MemoryInv, Quiet, NEW i \in Ids, Settled(i)'
  PROVE  /\ Settled(i) /\ rules'[i].made = rules[i].made
         /\ rules[i].fired # None => rules'[i].fired # None
  <1>1. /\ cache' = cache /\ mixed \subseteq mixed' BY DEF Quiet, memory
  <1>2. rules'[i] # None /\ cache[i] # None /\ cache[i].made = rules'[i].made /\ i \notin mixed
    BY <1>1 DEF Settled
  <1>3. cache[i].made <= made BY <1>2 DEF MemoryInv, MadeInv, Made
  <1>4. rules'[i].made # made + 1 BY <1>2, <1>3, MadeAre
  <1>5. Same(rules'[i], rules[i]) /\ (rules[i].fired # None => rules'[i].fired # None)
    BY <1>2, <1>4, QuietRule
  <1>6. QED BY <1>2, <1>5 DEF Settled, Same

\* A step inherits nothing where there was nothing to inherit.
LEMMA StepKeepsInherits ==
  ASSUME AlertsTypeOK, MemoryInv, InheritsNothing, [Next]_vars PROVE InheritsNothing'
  <1>0. WriterTypes /\ EngineTypes /\ HistoryTypes BY DEF AlertsTypeOK
  <1>1. SUFFICES ASSUME NEW i \in Ids, Settled(i)'
                 PROVE  /\ lastFired'[i] # None =>
                             rules'[i].fired # None \/ (fires'[i] # None /\ fires'[i].made = rules'[i].made)
                        /\ windows'[i] # None => matched'[i].made = rules'[i].made
    BY DEF InheritsNothing
  <1>2. Settled(i) =>
          /\ lastFired[i] # None =>
               rules[i].fired # None \/ (fires[i] # None /\ fires[i].made = rules[i].made)
          /\ windows[i] # None => matched[i].made = rules[i].made
    BY DEF InheritsNothing
  <1>3. CASE Quiet
    <2>1. UNCHANGED <<lastFired, windows, fires, matched>> BY <1>3 DEF Quiet, memory
    <2>2. QED BY <1>1, <1>2, <1>3, <2>1, QuietSettled
  <1>4. CASE IssueEvent \/ \E c \in Clients : LoadReads(c)
    <2>1. UNCHANGED <<rules, cache, lastFired, windows, fires, matched, mixed>>
      BY <1>4 DEF IssueEvent, LoadReads, tableVars, memory, history
    <2>2. QED BY <1>1, <1>2, <2>1 DEF Settled
  <1>5. CASE RecordThresholdEvent
    <2>1. PICK k \in Ids, r \in Rows : RecordsAt(k, r) BY <1>5, RecordDoesAt
    <2>2. UNCHANGED <<rules, cache, lastFired, fires>> /\ Minute(hand.ts) \in Minutes
      BY <1>5, RecordDoesAt
    <2>3. Settled(i) BY <1>1, <2>1, <2>2 DEF Settled, RecordsAt
    <2>4. CASE k # i BY <1>2, <2>1, <2>2, <2>3, <2>4 DEF RecordsAt
    <2>5. CASE k = i
      <3>1. matched[k] \in Matches BY <1>0 DEF HistoryTypes
      <3>2. matched'[i].made = r.made BY <2>1, <2>2, <2>5, <3>1, CountsIs DEF RecordsAt
      <3>3. i \notin mixed' BY <1>1 DEF Settled
      <3>4. rules[i].made = r.made BY <2>1, <2>5, <3>3 DEF RecordsAt, Another
      <3>5. QED BY <1>2, <2>2, <2>3, <3>2, <3>4
    <2>6. QED BY <2>4, <2>5
  <1>6. CASE TryFire
    <2>1. PICK k \in Ids, r \in Rows : FiresAt(k, r) \/ UNCHANGED <<lastFired, fires, mixed>>
      BY <1>6, TryFireDoes
    <2>2. UNCHANGED <<rules, cache, windows, matched>> BY <1>6 DEF TryFire, tableVars
    <2>3. Settled(i) BY <1>1, <2>1, <2>2 DEF Settled, FiresAt
    <2>4. CASE UNCHANGED <<lastFired, fires, mixed>> BY <1>2, <2>2, <2>3, <2>4
    <2>5. CASE FiresAt(k, r) /\ k # i
      <3>1. lastFired'[i] = lastFired[i] /\ fires'[i] = fires[i]
        BY <1>0, <2>5 DEF FiresAt, EngineTypes, HistoryTypes
      <3>2. QED BY <1>2, <2>2, <2>3, <3>1
    <2>6. CASE FiresAt(k, r) /\ k = i
      <3>1. i \notin mixed' BY <1>1 DEF Settled
      <3>2. rules[i].made = r.made BY <2>6, <3>1 DEF FiresAt, Another
      <3>3. PICK e : e = [ts |-> hand.ts, cooldown |-> r.cooldown, made |-> r.made, event |-> events,
                          known |-> TRUE]
        OBVIOUS
      <3>4. fires'[i] = e /\ e.made = r.made BY <1>0, <2>6, <3>3 DEF FiresAt, HistoryTypes
      <3>5. e # None
        <4>1. hand.ts \in EventTimes BY <1>0, <1>6, TryFireDoes, NextRule
        <4>2. e \in Fires BY <1>0, <3>3, <4>1 DEF Fires, Rows, WriterTypes
        <4>3. QED BY <4>2, AlertsAssumption
      <3>6. QED BY <1>2, <2>2, <2>3, <3>2, <3>4, <3>5
    <2>7. QED BY <2>1, <2>4, <2>5, <2>6
  <1>7. ASSUME NEW c \in Clients, LoadInstalls(c)
        PROVE  /\ lastFired'[i] # None =>
                    rules'[i].fired # None \/ (fires'[i] # None /\ fires'[i].made = rules'[i].made)
               /\ windows'[i] # None => matched'[i].made = rules'[i].made
    <2>1. op[c].pc = "install" /\ got[c] \in Table /\ Installs(got[c]) BY <1>7, LoadInstallsTypes
    <2>2. PICK rows \in Table : rows = got[c] BY <2>1
    <2>3. /\ UNCHANGED <<rules, fires, matched>>
          /\ mixed' = mixed \cup Confused(rows) /\ lastFired' = Seeded(rows)
          /\ \A j \in Ids : windows'[j] = IF rows[j] = None THEN None ELSE windows[j]
      BY <2>1, <2>2 DEF Installs, tableVars
    <2>4. rules[i] # None /\ i \notin mixed /\ i \notin Confused(rows) BY <1>1, <2>3 DEF Settled
    <2>5. Same(rows[i], rules[i]) /\ (cache[i] # None => Same(cache[i], rules[i]))
      BY <2>4, NotConfused
    <2>6. lastFired'[i] = IF lastFired[i] = None THEN rows[i].fired ELSE lastFired[i]
      BY <1>0, <2>3, <2>5, SeededIs DEF Same
    <2>7. rows[i].fired # None => rules[i].fired # None
      BY <2>1, <2>2, <2>5 DEF MemoryInv, ReadInv
    <2>8. CASE cache[i] # None
      <3>1. Settled(i) BY <2>4, <2>5, <2>8 DEF Settled, Same
      <3>2. QED BY <1>2, <2>3, <2>6, <2>7, <3>1
    <2>9. CASE cache[i] = None
      <3>1. lastFired[i] = None /\ windows[i] = None BY <2>4, <2>9 DEF MemoryInv, EmptyInv
      <3>2. QED BY <2>3, <2>6, <2>7, <3>1
    <2>10. QED BY <2>8, <2>9
  <1>8. CASE Restart
    <2>1. /\ windows'[i] = None /\ rules' = rules /\ lastFired' = Fired(rules)
      BY <1>8, RestartTypes DEF tableVars
    <2>2. lastFired'[i] # None => rules[i].fired # None BY <1>0, <2>1, FiredIs DEF EngineTypes
    <2>3. QED BY <2>1, <2>2
  <1>9. CASE UNCHANGED vars BY <1>1, <1>2, <1>9 DEF vars, tableVars, memory, history, Settled
  <1>10. QED BY <1>3, <1>4, <1>5, <1>6, <1>7, <1>8, <1>9, NextSteps

\* At the start an anchor is the table's.
LEMMA InitInherits == Init => InheritsNothing
  <1> SUFFICES ASSUME Init PROVE InheritsNothing OBVIOUS
  <1>1. rules \in Table /\ lastFired = Fired(rules) /\ windows = [i \in Ids |-> None]
    BY AlertsAssumption DEF Init
  <1>2. QED BY <1>1, FiredIs DEF InheritsNothing, Settled

\* Load prunes: a rule starts with no anchor and no window of a rule that
\* was deleted, though it may get its id.
THEOREM NothingIsInherited == Spec => []InheritsNothing
  <1> DEFINE IInv == AlertsTypeOK /\ MemoryInv /\ InheritsNothing
  <1>1. Init => IInv BY InitTypes, InitMemory, InitInherits
  <1>2. IInv /\ [Next]_vars => IInv' BY StepKeepsTypes, StepKeepsMemory, StepKeepsInherits
  <1>3. QED BY <1>1, <1>2, PTL DEF Spec

-----------------------------------------------------------------------------
(* ThresholdExact *)

\* How often a minute is among those of some events, and after one more.
Hits(s, k) == {n \in DOMAIN s : s[n] = k}

\* Nothing occurs in an empty window.
LEMMA HitsOfNone == ASSUME NEW k PROVE Cardinality(Hits(<<>>, k)) = 0
  BY FS_EmptySet DEF Hits

\* One more event counts once more.
LEMMA HitsOfAppend ==
  ASSUME NEW s \in Seq(Minutes), NEW m \in Minutes, NEW k \in Minutes
  PROVE  /\ Cardinality(Hits(s, k)) \in Nat
         /\ Cardinality(Hits(Append(s, m), k)) = Cardinality(Hits(s, k)) + (IF k = m THEN 1 ELSE 0)
  <1>1. PICK t : t = Append(s, m) OBVIOUS
  <1>2. /\ t \in Seq(Minutes) /\ Len(t) = Len(s) + 1 /\ t[Len(s) + 1] = m /\ Len(s) \in Nat
        /\ \A n \in 1..Len(s) : t[n] = s[n]
    BY <1>1
  <1>3. DOMAIN s = 1..Len(s) /\ DOMAIN t = 1..(Len(s) + 1) BY <1>2
  <1>4. Hits(s, k) \subseteq 1..Len(s) /\ Len(s) + 1 \notin Hits(s, k) BY <1>2, <1>3 DEF Hits
  <1>5. IsFiniteSet(Hits(s, k)) /\ Cardinality(Hits(s, k)) \in Nat
    <2>1. IsFiniteSet(1..Len(s)) BY <1>2, FS_Interval
    <2>2. IsFiniteSet(Hits(s, k)) BY <1>4, <2>1, FS_Subset
    <2>3. QED BY <2>2, FS_CardinalityType
  <1>6. CASE k = m
    <2>1. Hits(t, k) = Hits(s, k) \cup {Len(s) + 1} BY <1>2, <1>3, <1>6 DEF Hits
    <2>2. Cardinality(Hits(s, k) \cup {Len(s) + 1}) = Cardinality(Hits(s, k)) + 1
      BY <1>4, <1>5, FS_AddElement
    <2>3. QED BY <1>1, <1>5, <1>6, <2>1, <2>2
  <1>7. CASE k # m
    <2>1. Hits(t, k) = Hits(s, k) BY <1>2, <1>3, <1>7 DEF Hits
    <2>2. QED BY <1>1, <1>5, <1>7, <2>1
  <1>8. QED BY <1>6, <1>7

(* The window w is exact for the events of x. *)
Exact(w, x) ==
  /\ w # None
  /\ \A k \in Minutes :
       w[k] = IF k + x.window > x.minutes[Len(x.minutes)] THEN Cardinality(Hits(x.minutes, k)) ELSE 0

\* One more event keeps a window exact, if it does not come before the last
\* and the window's width has not changed.
LEMMA OneMore ==
  ASSUME NEW w \in Windows \cup {None}, NEW x \in Matches, NEW r \in Rows, NEW m \in Minutes,
         r.what.window \in Nat, r.what.window >= 1,
         x.made = r.made => x.minutes # <<>>,
         x.made = r.made /\ x.fit => Exact(w, x),
         x.made # r.made => w = None,
         Counts(x, r, m).fit
  PROVE  Exact(WindowAdd(w, m, r.what.window), Counts(x, r, m))
  <1>1. PICK width \in Nat : width = r.what.window /\ width >= 1 OBVIOUS
  <1>2. PICK v : v = WindowAdd(w, m, width) OBVIOUS
  <1>3. /\ v \in Windows
        /\ \A k \in Minutes :
             v[k] = (IF k + width < m + 1 \/ w = None THEN 0 ELSE w[k]) + (IF k = m THEN 1 ELSE 0)
    <2>1. WindowAdd(w, m, width) \in Windows BY <1>1, WindowAddIs
    <2>2. \A k \in Minutes : WindowAdd(w, m, width)[k] = CountAfter(w, m, width, k)
      BY <1>1, WindowAddIs
    <2>3. QED BY <1>2, <2>1, <2>2 DEF CountAfter
  <1>4. PICK y : y = Counts(x, r, m) OBVIOUS
  <1>5. PICK s \in Seq(Minutes) :
          /\ s = IF x.made = r.made THEN x.minutes ELSE <<>>
          /\ y.minutes = Append(s, m)
    <2>1. x.minutes \in Seq(Minutes) BY DEF Matches
    <2>2. (IF x.made = r.made THEN x.minutes ELSE <<>>) \in Seq(Minutes) BY <2>1
    <2>3. y.minutes = Append(IF x.made = r.made THEN x.minutes ELSE <<>>, m) BY <1>4, CountsIs
    <2>4. QED BY <2>2, <2>3
  <1>6. y.window = width /\ y.fit BY <1>1, <1>4, CountsIs
  <1>7. y.minutes[Len(y.minutes)] = m BY <1>5
  <1>8. Minutes \subseteq Nat BY TimesAre
  <1>9. ASSUME NEW k \in Minutes
        PROVE  v[k] = IF k + width > m THEN Cardinality(Hits(y.minutes, k)) ELSE 0
    <2>1. /\ Cardinality(Hits(s, k)) \in Nat
          /\ Cardinality(Hits(y.minutes, k)) = Cardinality(Hits(s, k)) + (IF k = m THEN 1 ELSE 0)
      <3>1. /\ Cardinality(Hits(s, k)) \in Nat
            /\ Cardinality(Hits(Append(s, m), k)) = Cardinality(Hits(s, k)) + (IF k = m THEN 1 ELSE 0)
        BY HitsOfAppend
      <3>2. QED BY <1>5, <3>1
    <2>2. k \in Nat /\ m \in Nat BY <1>8
    <2>3. CASE x.made # r.made
      <3>1. w = None /\ Cardinality(Hits(s, k)) = 0 BY <1>5, <2>3, HitsOfNone
      <3>2. QED BY <1>1, <1>3, <2>1, <2>2, <3>1
    <2>4. CASE x.made = r.made
      <3>1. x.fit /\ x.window = width /\ x.minutes[Len(x.minutes)] <= m
        BY <1>1, <1>4, <1>6, <2>4, CountsIs
      <3>2. s = x.minutes /\ s # <<>> BY <1>5, <2>4
      <3>3. PICK last \in Minutes : last = s[Len(s)]
        <4>1. Len(s) \in 1..Len(s) BY <3>2
        <4>2. QED BY <4>1
      <3>4. w # None /\ w[k] = IF k + width > last THEN Cardinality(Hits(s, k)) ELSE 0
        BY <2>4, <3>1, <3>2, <3>3 DEF Exact
      <3>5. last <= m /\ last \in Nat BY <1>8, <3>1, <3>2, <3>3
      <3>6. PICK a \in Nat : a = Cardinality(Hits(s, k)) BY <2>1
      <3>7. PICK b \in Nat : b = w[k]
        <4>1. w \in [Minutes -> Nat] BY <3>4 DEF Windows
        <4>2. QED BY <4>1
      <3>8. PICK c : c = v[k] OBVIOUS
      <3>9. c = (IF k + width < m + 1 THEN 0 ELSE b) + (IF k = m THEN 1 ELSE 0)
        BY <1>3, <3>4, <3>7, <3>8
      <3>10. b = IF k + width > last THEN a ELSE 0 BY <3>4, <3>6, <3>7
      <3>11. c = IF k + width > m THEN a + (IF k = m THEN 1 ELSE 0) ELSE 0
        BY <1>1, <2>2, <3>5, <3>9, <3>10
      <3>12. Cardinality(Hits(y.minutes, k)) = a + (IF k = m THEN 1 ELSE 0) BY <2>1, <3>6
      <3>13. QED BY <3>8, <3>11, <3>12
    <2>5. QED BY <2>3, <2>4
  <1>10. v # None BY <1>3, NoneIsNone
  <1>11. Exact(v, y) BY <1>6, <1>7, <1>9, <1>10 DEF Exact
  <1>12. QED BY <1>1, <1>2, <1>4, <1>11

\* ThresholdExact, a rule at a time.
RuleExact(i) ==
  (Settled(i) /\ matched[i].made = rules[i].made /\ matched[i].fit) => Exact(windows[i], matched[i])

\* The property, rule by rule.
LEMMA RulesExact == ThresholdExact <=> \A i \in Ids : RuleExact(i)
  BY DEF ThresholdExact, RuleExact, Exact, Hits

\* Every step keeps the windows exact.
LEMMA StepKeepsExact ==
  ASSUME AlertsTypeOK, MemoryInv, InheritsNothing, NEW i \in Ids, RuleExact(i), [Next]_vars
  PROVE  RuleExact(i)'
  <1>0. WriterTypes /\ EngineTypes /\ HistoryTypes BY DEF AlertsTypeOK
  <1>1. SUFFICES ASSUME Settled(i)', matched'[i].made = rules'[i].made, matched'[i].fit
                 PROVE  Exact(windows'[i], matched'[i])
    BY DEF RuleExact
  <1>2. CASE Quiet
    <2>1. UNCHANGED <<windows, matched>> BY <1>2 DEF Quiet, memory
    <2>2. Settled(i) /\ rules'[i].made = rules[i].made BY <1>1, <1>2, QuietSettled
    <2>3. QED BY <1>1, <2>1, <2>2 DEF RuleExact
  <1>3. CASE IssueEvent \/ TryFire \/ \E c \in Clients : LoadReads(c)
    <2>1. UNCHANGED <<rules, cache, windows, matched>>
      BY <1>3 DEF IssueEvent, TryFire, LoadReads, tableVars, memory, history
    <2>2. mixed \subseteq mixed'
      BY <1>3, TryFireDoes DEF IssueEvent, LoadReads, history, FiresAt
    <2>3. Settled(i) BY <1>1, <2>1, <2>2 DEF Settled
    <2>4. QED BY <1>1, <2>1, <2>3 DEF RuleExact
  <1>4. CASE RecordThresholdEvent
    <2>1. PICK k \in Ids, r \in Rows : RecordsAt(k, r) BY <1>4, RecordDoesAt
    <2>2. UNCHANGED <<rules, cache>> /\ Minute(hand.ts) \in Minutes BY <1>4, RecordDoesAt
    <2>3. Settled(i) BY <1>1, <2>1, <2>2 DEF Settled, RecordsAt
    <2>4. CASE k # i
      <3>1. windows'[i] = windows[i] /\ matched'[i] = matched[i] BY <2>1, <2>4 DEF RecordsAt
      <3>2. QED BY <1>1, <2>2, <2>3, <3>1 DEF RuleExact
    <2>5. CASE k = i
      <3>1. PICK m \in Minutes : m = Minute(hand.ts) BY <2>2
      <3>2. windows[i] \in Windows \cup {None} /\ matched[i] \in Matches
        BY <1>0 DEF EngineTypes, HistoryTypes
      <3>3. i \notin mixed' BY <1>1 DEF Settled
      <3>4. rules[i].made = r.made BY <2>1, <2>5, <3>3 DEF RecordsAt, Another
      <3>5. r.what.window \in Nat /\ r.what.window >= 1 BY <2>1, WhatOf DEF RecordsAt
      <3>6. matched[i].made = r.made => matched[i].minutes # <<>>
        <4>1. rules[i].made # 0 BY <2>3, MadeAre DEF Settled
        <4>2. QED BY <1>0, <3>4, <4>1 DEF HistoryTypes
      <3>7. matched[i].made = r.made /\ matched[i].fit => Exact(windows[i], matched[i])
        BY <2>3, <3>4 DEF RuleExact
      <3>8. matched[i].made # r.made => windows[i] = None BY <2>3, <3>4 DEF InheritsNothing
      <3>9. windows'[i] = WindowAdd(windows[i], m, r.what.window) /\ matched'[i] = Counts(matched[i], r, m)
        BY <2>1, <2>5, <3>1 DEF RecordsAt
      <3>10. Counts(matched[i], r, m).fit BY <1>1, <3>9
      <3>11. QED BY <3>2, <3>5, <3>6, <3>7, <3>8, <3>9, <3>10, OneMore
    <2>6. QED BY <2>4, <2>5
  <1>5. ASSUME NEW c \in Clients, LoadInstalls(c) PROVE Exact(windows'[i], matched'[i])
    <2>1. got[c] \in Table /\ Installs(got[c]) BY <1>5, LoadInstallsTypes
    <2>2. PICK rows \in Table : rows = got[c] BY <2>1
    <2>3. /\ UNCHANGED <<rules, matched>> /\ mixed' = mixed \cup Confused(rows)
          /\ windows'[i] = IF rows[i] = None THEN None ELSE windows[i]
      BY <2>1, <2>2 DEF Installs, tableVars
    <2>4. rules[i] # None /\ i \notin mixed /\ i \notin Confused(rows) BY <1>1, <2>3 DEF Settled
    <2>5. Same(rows[i], rules[i]) BY <2>4, NotConfused
    <2>6. Same(cache[i], rules[i]) BY <1>1, <2>3, <2>4 DEF MemoryInv, KnownInv
    <2>7. Settled(i) BY <2>4, <2>6 DEF Settled, Same
    <2>8. QED BY <1>1, <2>3, <2>5, <2>7 DEF RuleExact, Same
  <1>6. CASE Restart
    <2>1. matched'[i].made = 0 /\ rules' = rules BY <1>6, RestartTypes DEF NoEvents, tableVars
    <2>2. rules[i].made # 0 BY <1>1, <2>1, MadeAre DEF Settled
    <2>3. QED BY <1>1, <2>1, <2>2
  <1>7. CASE UNCHANGED vars
    <2>1. UNCHANGED <<rules, cache, windows, matched, mixed>> BY <1>7 DEF vars, tableVars, memory, history
    <2>2. QED BY <1>1, <2>1 DEF RuleExact, Settled
  <1>8. QED BY <1>2, <1>3, <1>4, <1>5, <1>6, <1>7, NextSteps

\* window.go: a threshold rule's buckets hold exactly the events of the last
\* `window` minutes it has counted, across reloads and updates that keep the
\* window, as long as the events come in order of their minutes.
THEOREM ThresholdsAreExact == Spec => []ThresholdExact
  <1> DEFINE IInv == AlertsTypeOK /\ MemoryInv /\ InheritsNothing /\ ThresholdExact
  <1>1. Init => IInv
    <2>1. SUFFICES ASSUME Init PROVE ThresholdExact BY InitTypes, InitMemory, InitInherits
    <2>2. ASSUME NEW i \in Ids, rules[i] # None PROVE matched[i].made # rules[i].made
      BY <2>1, <2>2, AlertsAssumption DEF Init, NoEvents
    <2>3. QED BY <2>2, RulesExact DEF RuleExact, Settled
  <1>2. IInv /\ [Next]_vars => IInv'
    <2>1. SUFFICES ASSUME IInv, [Next]_vars PROVE ThresholdExact'
      BY StepKeepsTypes, StepKeepsMemory, StepKeepsInherits
    <2>2. \A i \in Ids : RuleExact(i)' BY <2>1, StepKeepsExact, RulesExact
    <2>3. QED BY <2>2 DEF ThresholdExact, RuleExact, Exact, Hits
  <1>3. QED BY <1>1, <1>2, PTL DEF Spec

-----------------------------------------------------------------------------
(* KeepsNewest *)

\* The order of texts agrees with that of seconds.
LEMMA TextsBySecond ==
  ASSUME NEW s \in Nat, NEW t \in Nat, Second(s) < Second(t) PROVE Text(s) < Text(t)
  <1>1. /\ s = (2 * (s \div 2)) + (s % 2) /\ s % 2 \in 0..1 /\ s \div 2 \in Nat
        /\ t = (2 * (t \div 2)) + (t % 2) /\ t % 2 \in 0..1 /\ t \div 2 \in Nat
    OBVIOUS
  <1>2. s \div 2 < t \div 2 BY DEF Second
  <1>3. Text(s) <= 4 * (s \div 2) + 3 /\ Text(t) >= 4 * (t \div 2) + 2 BY <1>1 DEF Text
  <1>4. Text(s) \in Nat /\ Text(t) \in Nat BY DEF Text
  <1>5. QED BY <1>1, <1>2, <1>3, <1>4

\* TextAfter is an order.
LEMMA TextAfterOrders ==
  ASSUME NEW r \in Samples, NEW s \in Samples, NEW u \in Samples, TextAfter(u, r), TextAfter(r, s)
  PROVE  TextAfter(u, s)
  <1>1. /\ r.id \in Nat /\ s.id \in Nat /\ u.id \in Nat
        /\ r.ts \in Nat /\ s.ts \in Nat /\ u.ts \in Nat
    BY TimesAre DEF Samples
  <1>2. \A t \in Nat : Text(t) \in Nat BY DEF Text
  <1>3. QED BY <1>1, <1>2 DEF TextAfter

\* A sample that is trimmed comes after none that stays.
LEMMA TrimsOldest ==
  ASSUME NEW f \in Fingerprints, NEW all, all \subseteq Samples, IsFiniteSet(all),
         NEW r \in all, r \notin Trimmed(f, all), NEW s \in Trimmed(f, all), s.fp = r.fp
  PROVE  r.fp = f /\ ~TextAfter(r, s)
  <1>1. r.fp = f BY DEF Trimmed
  <1>2. PICK own \in SUBSET all : own = {x \in all : x.fp = f} OBVIOUS
  <1>3. r \in own /\ s \in own BY <1>1, <1>2, TrimmedIs
  <1>4. PICK A, B : A = {x \in own : TextAfter(x, r)} /\ B = {x \in own : TextAfter(x, s)} OBVIOUS
  <1>5. ~(Cardinality(A) < Kept) BY <1>1, <1>2, <1>3, <1>4 DEF Trimmed, Newest
  <1>6. Cardinality(B) < Kept BY <1>1, <1>2, <1>3, <1>4 DEF Trimmed, Newest
  <1>7. SUFFICES ASSUME TextAfter(r, s) PROVE FALSE BY <1>1
  <1>8. A \subseteq B
    <2>1. ASSUME NEW u \in own, TextAfter(u, r) PROVE TextAfter(u, s)
      BY <1>3, <1>7, <2>1, TextAfterOrders
    <2>2. QED BY <1>4, <2>1
  <1>9. IsFiniteSet(B) BY <1>4, FS_Subset
  <1>10. Cardinality(A) <= Cardinality(B) /\ IsFiniteSet(A) BY <1>8, <1>9, FS_Subset
  <1>11. Cardinality(A) \in Nat /\ Cardinality(B) \in Nat /\ Kept \in Nat
    BY <1>9, <1>10, FS_CardinalityType, IssuesAssumption
  <1>12. QED BY <1>5, <1>6, <1>10, <1>11

\* Of two samples of an issue the one that goes is not a second newer.
LEMMA StepKeepsNewest ==
  ASSUME AlertsTypeOK, [Next]_vars,
         NEW r, NEW s \in samples', r.fp = s.fp, r \notin samples',
         \/ r \in samples
         \/ events' # events /\ r = [fp |-> hand'.fp, ts |-> hand'.ts, id |-> events']
  PROVE  Second(s.ts) >= Second(r.ts)
  <1>0. WriterTypes BY DEF AlertsTypeOK
  <1>1. CASE UNCHANGED <<samples, events>> BY <1>1
  <1>2. CASE ~UNCHANGED <<samples, events>>
    <2>1. Issue
      <3>1. CASE Next
        <4>1. CASE \E c \in Clients : Client(c)
          <5>1. PICK c \in Clients : Client(c) BY <4>1
          <5>2. UNCHANGED <<samples, events>>
            <6>1. Moves(c) \/ UpsertAlertRule(c) \/ DeleteAlertRule(c) \/ RecordTest(c)
                  \/ LoadReads(c) \/ LoadInstalls(c)
              BY <5>1, BeginMoves, FindMoves, PlainMoves
                 DEF Client, ApiUpsert, McpUpsert, ApiDelete, McpDelete, ApiTest, McpTest
            <6>2. UNCHANGED issueVars
              BY <6>1 DEF Moves, UpsertAlertRule, DeleteAlertRule, RecordTest, LoadReads, LoadInstalls
            <6>3. QED BY <6>2 DEF issueVars
          <5>3. QED BY <1>2, <5>2
        <4>2. CASE IssueEvent \/ RecordThresholdEvent \/ TryFire \/ DeliverTakes \/ RecordResult \/ Restart
          BY <1>2, <4>2 DEF IssueEvent, RecordThresholdEvent, TryFire, DeliverTakes, RecordResult, Restart,
                            issueVars
        <4>3. QED BY <3>1, <4>1, <4>2 DEF Next
      <3>2. CASE UNCHANGED vars BY <1>2, <3>2 DEF vars, issueVars
      <3>3. QED BY <3>1, <3>2
    <2>2. PICK f \in Fingerprints, ts \in EventTimes : UpsertIssueEvent(f, ts) \/ DeleteIssueEventsBefore(ts)
      BY <1>2, <2>1 DEF Issue, ApiUpdateStatus, McpResolveIssue, McpIgnoreIssue, SetIssueStatus
    <2>3. \A t \in Nat : Text(t) \in Nat BY DEF Text
    <2>4. CASE UpsertIssueEvent(f, ts)
      <3>1. PICK new : new = [fp |-> f, ts |-> ts, id |-> events + 1] OBVIOUS
      <3>2. PICK all : all = samples \cup {new} OBVIOUS
      <3>3. samples' = Trimmed(f, all) BY <2>4, <3>1, <3>2 DEF UpsertIssueEvent
      <3>4. r \in samples \/ r = new
        BY <2>4, <3>1 DEF UpsertIssueEvent
      <3>5. new \in Samples BY <1>0, <3>1 DEF Samples, WriterTypes
      <3>6. all \subseteq Samples /\ IsFiniteSet(all)
        BY <1>0, <3>2, <3>5, FS_AddElement DEF WriterTypes
      <3>7. r \in all /\ s \in all BY <3>2, <3>3, <3>4, TrimmedIs
      <3>8. ~TextAfter(r, s) BY <3>3, <3>6, <3>7, TrimsOldest
      <3>9. r.ts \in Nat /\ s.ts \in Nat BY <3>6, <3>7, TimesAre DEF Samples
      <3>10. ~(Text(s.ts) < Text(r.ts)) BY <2>3, <3>8, <3>9 DEF TextAfter
      <3>11. Second(r.ts) \in Nat /\ Second(s.ts) \in Nat BY <3>9 DEF Second
      <3>12. QED BY <3>9, <3>10, <3>11, TextsBySecond
    <2>5. CASE DeleteIssueEventsBefore(ts)
      <3>1. r \in samples /\ s \in samples BY <2>5 DEF DeleteIssueEventsBefore
      <3>2. r.ts \in Nat /\ s.ts \in Nat /\ ts \in Nat BY <1>0, <3>1, TimesAre DEF Samples, WriterTypes
      <3>3. ~(Text(r.ts) >= Text(ts)) /\ Text(s.ts) >= Text(ts)
        BY <2>5, <3>1 DEF DeleteIssueEventsBefore
      <3>4. ~(Text(s.ts) < Text(r.ts)) BY <2>3, <3>2, <3>3
      <3>5. Second(r.ts) \in Nat /\ Second(s.ts) \in Nat BY <3>2 DEF Second
      <3>6. QED BY <3>2, <3>4, <3>5, TextsBySecond
    <2>6. QED BY <2>2, <2>4, <2>5
  <1>3. QED BY <1>1, <1>2

\* UpsertIssues, DeleteIssueEventsBefore: of an issue's samples none is given
\* up, for space or for age, while one that is older by a second stays.
THEOREM NewestAreKept == Spec => KeepsNewest
  <1>1. AlertsTypeOK /\ [Next]_vars
          => [\A f \in Fingerprints :
                LET new == IF events' = events THEN {}
                           ELSE {[fp |-> hand'.fp, ts |-> hand'.ts, id |-> events']}
                IN  \A r \in (samples \cup new) \ samples', s \in samples' :
                      (r.fp = f /\ s.fp = f) => Second(s.ts) >= Second(r.ts)]_<<issueVars, hand>>
    BY StepKeepsNewest
  <1>2. QED BY <1>1, AlertsTyped, PTL DEF Spec, KeepsNewest

=============================================================================
