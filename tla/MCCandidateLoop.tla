-------------------------- MODULE MCCandidateLoop --------------------------
(* Small instances of CandidateLoop: the constants of the .cfg are numbers. *)
EXTENDS CandidateLoop
=============================================================================
