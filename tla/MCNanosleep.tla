---------------------------- MODULE MCNanosleep -----------------------------
(* An instance of Nanosleep for TLC. *)
EXTENDS Nanosleep
=============================================================================
