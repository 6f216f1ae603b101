--------------------------- MODULE MCRolloutLoop ---------------------------
(* Small instances of RolloutLoop: two pipeline stages, windows of three steps. *)
EXTENDS RolloutLoop
=============================================================================
