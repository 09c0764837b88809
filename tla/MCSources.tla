----------------------------- MODULE MCSources ------------------------------
(* An instance of ShipSources for TLC. *)
EXTENDS ShipSources, TLC

CONSTANTS c1
=============================================================================
