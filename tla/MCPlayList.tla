----------------------------- MODULE MCPlayList -----------------------------
(* PlayList for TLC: the songs are model values, and interchangeable. *)
EXTENDS PlayList, TLC
CONSTANTS a, b
Interchangeable == Permutations(Paths)
=============================================================================
