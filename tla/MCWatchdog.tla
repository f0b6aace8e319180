----------------------------- MODULE MCWatchdog -----------------------------
(* The values of Watchdog for TLC.                                          *)
EXTENDS Watchdog

MCSkews == {-1, 0, 1}
MCNoSkew == {0}
=============================================================================
