---------------------------- MODULE MC_TTLCache ----------------------------
(* Small instances of the cache for TLC.                                   *)
EXTENDS TTLCache, TLC

\* Goroutines are interchangeable: no definition of TTLCache names one.
Symmetry == Permutations(Procs)
=============================================================================
