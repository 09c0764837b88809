----------------------------- MODULE LogLedger ------------------------------
(***************************************************************************)
(* What the log store promises its callers, without WAL, memtable,         *)
(* segments or crashes: per project a set of rows that only grows by       *)
(* fresh, newer-numbered rows and only shrinks by a prune, which takes     *)
(* nothing younger than its cutoff and nothing it took ever comes back     *)
(* (store.Writer and store.Retention, with the comments of WriteBatch and  *)
(* Prune in internal/store/enginestore).                                   *)
(***************************************************************************)
EXTENDS Integers

CONSTANT Projects

VARIABLES log,    \* log[p]: the rows a reader of p is entitled to
          gone,   \* gone[p]: the rows prunes removed
          cut     \* cut[p]: the cutoff of the prune running on p, 0 when none is

ledger == <<log, gone, cut>>

Init == /\ log = [p \in Projects |-> {}]
        /\ gone = [p \in Projects |-> {}]
        /\ cut = [p \in Projects |-> 0]

\* Rows are accepted; prunes may begin and end.
Commit ==
  /\ \A p \in Projects :
       /\ log[p] \subseteq log'[p]
       /\ \A r \in log'[p] \ log[p] : r \notin gone[p] /\ \A q \in log[p] : q.id < r.id
  /\ gone' = gone

\* A prune of p takes some of its old rows.
Retire(p) ==
  /\ \A q \in Projects \ {p} : log'[q] = log[q] /\ gone'[q] = gone[q]
  /\ log'[p] \subseteq log[p]
  /\ \A r \in log[p] \ log'[p] : r.ts < cut[p]
  /\ gone'[p] = gone[p] \cup (log[p] \ log'[p])
  /\ cut' = cut

Next == Commit \/ \E p \in Projects : Retire(p)

Spec == Init /\ [][Next]_ledger
=============================================================================
