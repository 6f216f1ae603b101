---------------------------- MODULE MCLerobotIpc ----------------------------
(* Small instances of LerobotIpc: the constants of the .cfg are numbers. *)
EXTENDS LerobotIpc
=============================================================================
