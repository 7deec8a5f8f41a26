--------------------------- MODULE MCRandomManager ---------------------------
(* RandomManager for TLC; every constant is given its value by the configurations. *)
EXTENDS RandomManager
=============================================================================
