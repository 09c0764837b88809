------------------------------ MODULE MCRules -------------------------------
(* Instances of Rules for TLC: one project, one kind of log. *)
EXTENDS Rules, TLC

CONSTANTS c1, c2, p, l1

AtInfo == 2
Warn == 3

\* One kind of log: in the band of the sample rule until it is lifted.
OwnerOf == l1 :> p
LevelOf == l1 :> AtInfo

Noise(kind, severity, pattern, n) ==
  [kind |-> kind, service |-> {l1}, severity |-> severity, pattern |-> pattern, n |-> n]
Sample(n) == Noise("sample", AtInfo, {}, n)
Match == Noise("drop_match", AtInfo, {l1}, 0)
LiftL1 == [pattern |-> {l1}, to |-> Warn]

TwoClients == Permutations({c1, c2})
Rule(what) == [project |-> p, what |-> what, enabled |-> TRUE, count |-> 0]
Off(what) == [Rule(what) EXCEPT !.enabled = FALSE]
NoiseOf == {Match}
SevOfAll == {LiftL1}
OneSample == {<<Rule(Sample(2)), None, None>>}
\* One lift, or three that are turned off: more than two clients' creates
\* alone can reach.
SomeLifts == {<<Rule(LiftL1), None, None>>, <<Off(LiftL1), Off(LiftL1), Off(LiftL1)>>}

\* Of the choices Init leaves for the rules moved earlier, the fewest: the
\* oldest of three, not the only one.
MCInit == Init /\ moved = IF Cardinality(SevOf(p)) = 3 THEN {1} ELSE {}
MCSpec == MCInit /\ [][Next]_vars
=============================================================================
