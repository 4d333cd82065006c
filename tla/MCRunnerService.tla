--------------------------- MODULE MCRunnerService ---------------------------
(* Model-checking instance of RunnerService. *)
EXTENDS RunnerService, TLC

(* Requests are interchangeable. *)
ClientSymmetry == Permutations(Clients)
==============================================================================
