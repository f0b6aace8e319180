--------------------------- MODULE MCHrtimerBase ---------------------------
(* TLC instances of HrtimerBase.                                           *)
EXTENDS HrtimerBase, TLC

\* CPUs, and timers, are interchangeable in every instance.
Symmetry == Permutations(Cpus) \cup Permutations(Timers)
=============================================================================
