---------------------------- MODULE MCEventStream ---------------------------
(* EventStream on a short log, with few retries. *)
EXTENDS EventStream
=============================================================================
