-------------------------- MODULE MCAnalysisRuntime --------------------------
(* Instances of AnalysisRuntime for TLC. *)
EXTENDS AnalysisRuntime, TLC

\* Meetings are interchangeable, and so are the goroutines that schedule.
Symmetry == Permutations(Sessions) \cup Permutations(Producers)
=============================================================================
