--------------------------- MODULE MCUpdateChain ---------------------------
(* Small instances of UpdateChain: the constants of the .cfg are numbers. *)
EXTENDS UpdateChain
=============================================================================
