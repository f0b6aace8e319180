--------------------------- MODULE MCPosixTimers ----------------------------
(* An instance of PosixTimers for TLC. *)
EXTENDS PosixTimers, TLC

Symmetry == Permutations(Threads)
=============================================================================
