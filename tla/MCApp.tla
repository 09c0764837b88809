------------------------------- MODULE MCApp --------------------------------
(* Instances of App for TLC: one request of two logs and one of one. *)
EXTENDS App, TLC

CONSTANTS c1, c2, l1, l2, l3

Requests == c1 :> <<l1, l2>> @@ c2 :> <<l3>>
=============================================================================
