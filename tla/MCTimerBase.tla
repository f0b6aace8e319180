----------------------------- MODULE MCTimerBase -----------------------------
EXTENDS TimerBase, TLC

CONSTANTS Starter1, Stopper1   \* the threads

\* One thread starts the timers, one stops them, callbacks start them again.
MCUses == [p \in Contexts |->
    CASE p = Starter1 -> Starts
      [] p = Stopper1 -> {"delete", "shutdown", "sync", "shutdown_sync"}
      [] OTHER -> {"mod"}]

Symmetry == Permutations(Cpus) \cup Permutations(Timers)
=============================================================================
