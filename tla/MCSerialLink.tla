---------------------------- MODULE MCSerialLink ----------------------------
(* Model-checking instance of SerialLink: all commands submit the same     *)
(* number of bytes, so a late confirmation of one fits another.            *)
EXTENDS SerialLink

SameSize == [c \in 0..MaxCommands |-> IF c = 0 THEN 1 ELSE 9]
==============================================================================
