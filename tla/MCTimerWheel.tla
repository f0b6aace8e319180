---------------------------- MODULE MCTimerWheel ----------------------------
EXTENDS TimerWheel, TLC

Symmetry == Permutations(Timers)
=============================================================================
