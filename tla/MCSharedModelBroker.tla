------------------------ MODULE MCSharedModelBroker ------------------------
(* Small instances of SharedModelBroker: one child bound to its condition,  *)
(* others that take any candidate.                                          *)
EXTENDS SharedModelBroker

CONSTANTS c1, c2, c3
=============================================================================
