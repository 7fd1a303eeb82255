-------------------------- MODULE MCMeetingPipeline --------------------------
(* Instances of MeetingPipeline for TLC. *)
EXTENDS MeetingPipeline
=============================================================================
