----------------------------- MODULE MCJwksCache -----------------------------
(* Model-checking instance of JwksCache. *)
EXTENDS JwksCache
==============================================================================
