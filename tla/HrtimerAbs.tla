----------------------------- MODULE HrtimerAbs -----------------------------
(***************************************************************************)
(* What the hrtimer core promises the users of a timer: the life of every   *)
(* timer as four states, made of two facts that change independently        *)
(* ("callback function running and enqueued" is one of the states).         *)
(*                                                                         *)
(* A timer fires in one step: it stops being queued and its callback starts *)
(* without a moment in which it is neither.  A callback never starts while  *)
(* another run of it is under way, on any CPU, and never for a timer that    *)
(* has been disarmed and not armed again.                                   *)
(***************************************************************************)
CONSTANT Timers

VARIABLES
    queued,   \* the timer is armed
    runs      \* its callback is running

TypeInv ==
    /\ queued \in [Timers -> BOOLEAN]
    /\ runs \in [Timers -> BOOLEAN]

Init ==
    /\ queued = [t \in Timers |-> FALSE]
    /\ runs = [t \in Timers |-> FALSE]

\* hrtimer_start(), from anywhere and at any time
Arm(t) ==
    /\ queued' = [queued EXCEPT ![t] = TRUE]
    /\ UNCHANGED runs

\* hrtimer_cancel(), or a start that finds the expiry in the past
Disarm(t) ==
    /\ queued' = [queued EXCEPT ![t] = FALSE]
    /\ UNCHANGED runs

Fire(t) ==
    /\ queued[t] /\ ~runs[t]
    /\ queued' = [queued EXCEPT ![t] = FALSE]
    /\ runs' = [runs EXCEPT ![t] = TRUE]

\* The function returns HRTIMER_RESTART or HRTIMER_NORESTART.
Finish(t) ==
    /\ runs[t]
    /\ runs' = [runs EXCEPT ![t] = FALSE]
    /\ UNCHANGED queued

Next == \E t \in Timers : Arm(t) \/ Disarm(t) \/ Fire(t) \/ Finish(t)

Spec == Init /\ [][Next]_<<queued, runs>>
=============================================================================
