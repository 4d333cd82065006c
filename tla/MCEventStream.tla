---------------------------- MODULE MCEventStream ----------------------------
(* Model-checking instance of EventStream. *)
EXTENDS EventStream
==============================================================================
