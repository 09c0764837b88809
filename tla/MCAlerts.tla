------------------------------ MODULE MCAlerts ------------------------------
(* An instance of Alerts for TLC. *)
EXTENDS Alerts, TLC

CONSTANTS c1, c2, f1

Threshold(w) == [kind |-> "threshold", n |-> 2, window |-> w]
Regression == [kind |-> "regression", n |-> 0, window |-> 0]
\* An update that omits the cooldown keeps it, or gives the default when its
\* find fails.
KindsOf == {Threshold(1)}
CooldownsOf == {None}
EnablingOf == {None}

Rule(what, cooldown) == [what |-> what, cooldown |-> cooldown, enabled |-> TRUE, fired |-> None, made |-> 1]
FirstRulesOf == {<<Rule(Threshold(2), 2)>>, <<Rule(Regression, 0)>>}
TwoClients == Permutations({c1, c2})
=============================================================================
