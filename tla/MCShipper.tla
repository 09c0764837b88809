----------------------------- MODULE MCShipper ------------------------------
(* Instances of Shipper for TLC. *)
EXTENDS Shipper
=============================================================================
