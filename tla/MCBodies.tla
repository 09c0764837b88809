------------------------------ MODULE MCBodies ------------------------------
(* An instance of Bodies for TLC. *)
EXTENDS Bodies, TLC

CONSTANTS a, b, c, s1, s2

\* Each of the first three is like the one before, one word apart; the last
\* goes raw.
SomeInputs == {[body |-> <<a, b, b>>, ts |-> 3, svc |-> s1],
               [body |-> <<a, c, b>>, ts |-> 1, svc |-> s2],
               [body |-> <<c, c, b>>, ts |-> 0, svc |-> s1],
               [body |-> <<b, b>>, ts |-> 3, svc |-> s2]}
SomeUnfit == {<<b, b>>}

\* No text, and a text that lies in fixed words, or in a variable and a
\* fixed word, or on both sides of a wildcard.
SomeFilters == {[q |-> <<>>, since |-> 2, svc |-> s1],
                [q |-> <<a, SP, b>>, since |-> 1, svc |-> None]}

\* From within an hour to its end, and from the start of one on.
SomeWindows == {[since |-> 1, until |-> 1], [since |-> 2, until |-> None]}
=============================================================================
