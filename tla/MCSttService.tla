---------------------------- MODULE MCSttService ----------------------------
(* Instances of SttService for TLC. *)
EXTENDS SttService
=============================================================================
