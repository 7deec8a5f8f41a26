--------------------------- MODULE MCCacheCircular ---------------------------
(* CacheCircular for TLC, with the mutants its properties must reject.       *)
EXTENDS CacheCircular
=============================================================================
