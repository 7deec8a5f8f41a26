------------------------------ MODULE MCJukebox ------------------------------
(* Jukebox for TLC; every constant is given its value by the configurations. *)
EXTENDS Jukebox
=============================================================================
