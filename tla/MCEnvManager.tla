---------------------------- MODULE MCEnvManager ----------------------------
(* Small instances of EnvManager: two stages. *)
EXTENDS EnvManager
=============================================================================
