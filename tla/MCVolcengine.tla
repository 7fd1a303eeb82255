---------------------------- MODULE MCVolcengine ----------------------------
(* Instances of VolcengineSession for TLC. *)
EXTENDS VolcengineSession
=============================================================================
