---------------------------- MODULE ShipSources -----------------------------
(***************************************************************************)
(* A shipper with one source: the containers of a docker daemon, or a      *)
(* file. Every source of a shipper that has several works as one of these. *)
(***************************************************************************)
EXTENDS Sources, FileTail

VARIABLE source

vars == <<sourceVars, fileVars, source>>

Init == SourcesInit /\ FileInit /\ source \in {"docker", "file"}

DockerNext ==
  /\ source = "docker"
  /\ \/ Daemon \/ Source \/ JoinerLoop \/ PersistSince
     \/ \E h \in Handles : Tailer(h)
     \/ Stop \/ Stopped \/ Crash \/ Restart
  /\ UNCHANGED <<fileVars, source>>

FileNext ==
  /\ source = "file"
  /\ \/ Writes \/ Renames \/ Creates \/ Reopens \/ Truncates
     \/ OpenFresh \/ Drain \/ CheckRotation \/ Swap \/ TailerRestarts
  /\ UNCHANGED <<sourceVars, source>>

Next == DockerNext \/ FileNext

Spec == Init /\ [][Next]_vars
=============================================================================
