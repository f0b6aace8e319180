--------------------------- MODULE MCHrtimerEvent ---------------------------
(* Instances of HrtimerEvent for TLC. *)
EXTENDS HrtimerEvent, TLC

Symmetry == Permutations(Cpus)
=============================================================================
