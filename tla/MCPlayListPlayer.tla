-------------------------- MODULE MCPlayListPlayer --------------------------
(* PlayListPlayer for TLC: songs and lists are model values. *)
EXTENDS PlayListPlayer, TLC
CONSTANTS a, b, c, Video

(* Songs can be exchanged for each other. *)
Interchangeable == Permutations(Paths)
=============================================================================
