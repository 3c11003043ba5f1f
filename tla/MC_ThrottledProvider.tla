------------------------ MODULE MC_ThrottledProvider ------------------------
(* Small instances of a throttled provider for TLC.                        *)
EXTENDS ThrottledProvider, TLC

\* Two attempts, a tick apart at first.
TwoAttempts == [attempts |-> 2, base |-> 1, max |-> 2]

\* Searches are interchangeable: no definition of ThrottledProvider names one.
Symmetry == Permutations(Procs)
=============================================================================
