---------------------------- MODULE MCAsyncRecorder ----------------------------
(* Small instances of AsyncRecorder: two environments, a queue of two. *)
EXTENDS AsyncRecorder
=============================================================================
