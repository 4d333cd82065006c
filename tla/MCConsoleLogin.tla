--------------------------- MODULE MCConsoleLogin ---------------------------
(* Model-checking instance of ConsoleLogin. *)
EXTENDS ConsoleLogin
==============================================================================
