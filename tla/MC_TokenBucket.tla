-------------------------- MODULE MC_TokenBucket --------------------------
(* Small instances of the token bucket for TLC.                            *)
EXTENDS TokenBucket, TLC

\* Goroutines are interchangeable: no definition of TokenBucket names one.
Symmetry == Permutations(Procs)
=============================================================================
