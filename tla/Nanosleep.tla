----------------------------- MODULE Nanosleep ------------------------------
(***************************************************************************)
(* nanosleep(2) and clock_nanosleep(2) on top of an hrtimer:                *)
(* hrtimer_nanosleep(), do_nanosleep(), hrtimer_wakeup() and the restart    *)
(* after a signal, linux_source/kernel/time/hrtimer.c.  This is the call    *)
(* that src/timer_benchmark.c measures.                                    *)
(*                                                                         *)
(* The timer and the sleeper live on the stack of the sleeping task, so     *)
(* each task has one.  The sleeper, the timer's callback and signals meet   *)
(* in three words: the task's state, sleeper->task and the pending signal.  *)
(* Every access to one of them is a step of its own.                        *)
(*                                                                         *)
(* The hrtimer core is taken as HrtimerAbs promises it; what a start, a      *)
(* cancel and the scheduler do is one step each.                            *)
(***************************************************************************)
EXTENDS Integers

CONSTANTS
    Tasks,
    MaxTime,     \* the end of the modelled time
    Delays,      \* values of the request: a delay, or a point of time
    Slack,       \* current->timer_slack_ns
    MaxCalls,    \* bound on the calls of one task
    MaxSignals,  \* bound on the signals sent to one task
    MaxWakes     \* bound on the wakeups that have nothing to do with the sleep

ASSUME ConstAssumption ==
    /\ Tasks # {}
    /\ {MaxTime, Slack, MaxCalls, MaxSignals, MaxWakes} \subseteq Nat
    /\ Delays \subseteq Nat

Signals == {"none", "ignored", "handled"}
Results == {"none", "0", "EINTR", "EFAULT"}

VARIABLES
    now,
    pc,
    call,       \* the arguments: mode, request, rmtp # NULL
    mode,       \* do_nanosleep()'s mode
    softexp,    \* timer->_softexpires
    expires,    \* timer->node.expires
    queued,     \* the timer is queued
    cb,         \* where its callback hrtimer_wakeup() is
    task,       \* sleeper->task is set
    state,      \* the task's state
    sig,        \* a pending signal, and whether it has a handler
    saved,      \* restart_block.nanosleep.expires, -1 when there is none
    rem,        \* *rmtp, -1 when nothing has been written to it
    ret,        \* what the last call returned
    calls, signals, wakes,   \* how many there have been so far
    due         \* history: the time the caller has asked to be woken at

frame == <<mode, softexp, expires, queued, cb, task>>
budget == <<calls, signals, wakes>>
vars == <<now, pc, call, frame, state, sig, saved, rem, ret, budget, due>>

\* Absolute calls do not have an rmtp: clock_nanosleep() clears it.
Calls ==
    {c \in [mode : {"REL", "ABS"}, request : Delays, rmtp : BOOLEAN] :
        c.mode = "ABS" => ~c.rmtp}

Init ==
    /\ now = 0
    /\ pc = [p \in Tasks |-> "user"]
    /\ call \in [Tasks -> Calls]
    /\ mode = [p \in Tasks |-> "ABS"]
    /\ softexp = [p \in Tasks |-> 0]
    /\ expires = [p \in Tasks |-> 0]
    /\ queued = [p \in Tasks |-> FALSE]
    /\ cb = [p \in Tasks |-> "none"]
    /\ task = [p \in Tasks |-> FALSE]
    /\ state = [p \in Tasks |-> "RUNNING"]
    /\ sig = [p \in Tasks |-> "none"]
    /\ saved = [p \in Tasks |-> -1]
    /\ rem = [p \in Tasks |-> -1]
    /\ ret = [p \in Tasks |-> "none"]
    /\ calls = [p \in Tasks |-> 0]
    /\ signals = [p \in Tasks |-> 0]
    /\ wakes = [p \in Tasks |-> 0]
    /\ due = [p \in Tasks |-> 0]

-----------------------------------------------------------------------------
(* The system call                                                         *)

Goto(p, l) == pc' = [pc EXCEPT ![p] = l]

\* hrtimer_setup_sleeper_on_stack(): a sleeper with the given expiry times.  What the
\* core still knows of the last one on this stack (queued, cb) it does not touch.
Setup(p, m, soft, hard) ==
    /\ mode' = [mode EXCEPT ![p] = m]
    /\ softexp' = [softexp EXCEPT ![p] = soft]
    /\ expires' = [expires EXCEPT ![p] = hard]
    /\ task' = [task EXCEPT ![p] = TRUE]
    /\ UNCHANGED <<queued, cb>>

\* hrtimer_nanosleep()
Enter(p, c) ==
    /\ pc[p] = "user" /\ calls[p] < MaxCalls
    /\ call' = [call EXCEPT ![p] = c]
    /\ Setup(p, c.mode, c.request, c.request + Slack)
    /\ saved' = [saved EXCEPT ![p] = -1]
    /\ rem' = [rem EXCEPT ![p] = -1]
    /\ ret' = [ret EXCEPT ![p] = "none"]
    /\ due' = [due EXCEPT ![p] = IF c.mode = "REL" THEN now + c.request ELSE c.request]
    /\ calls' = [calls EXCEPT ![p] = @ + 1]
    /\ Goto(p, "set_state")
    /\ UNCHANGED <<now, state, sig, signals, wakes>>

\* do_nanosleep(): set_current_state(TASK_INTERRUPTIBLE|TASK_FREEZABLE)
SetState(p) ==
    /\ pc[p] = "set_state"
    /\ state' = [state EXCEPT ![p] = "INTERRUPTIBLE"]
    /\ Goto(p, "start")
    /\ UNCHANGED <<now, call, frame, sig, saved, rem, ret, budget, due>>

\* the absolute expiry of the start: __hrtimer_start_range_ns() adds the time
\* to a relative one
Absolute(p, e) == IF mode[p] = "REL" THEN now + e ELSE e

\* hrtimer_sleeper_start_expires(): the timer is queued
StartQueued(p) ==
    /\ pc[p] = "start"
    /\ softexp' = [softexp EXCEPT ![p] = Absolute(p, @)]
    /\ expires' = [expires EXCEPT ![p] = Absolute(p, @)]
    /\ queued' = [queued EXCEPT ![p] = TRUE]
    /\ Goto(p, "check_task")
    /\ UNCHANGED <<now, call, mode, cb, task, state, sig, saved, rem, ret, budget, due>>

\* mutant: a relative time is compared before it is made absolute
RefusedRelative(p) ==
    /\ pc[p] = "start"
    /\ softexp[p] <= now
    /\ softexp' = [softexp EXCEPT ![p] = Absolute(p, @)]
    /\ expires' = [expires EXCEPT ![p] = Absolute(p, @)]
    /\ task' = [task EXCEPT ![p] = FALSE]
    /\ state' = [state EXCEPT ![p] = "RUNNING"]
    /\ Goto(p, "check_task")
    /\ UNCHANGED <<now, call, mode, queued, cb, sig, saved, rem, ret, budget, due>>

\* hrtimer_sleeper_start_expires(): hrtimer_check_user_timer() found it expired, and
\* no callback will come
StartRefused(p) ==
    /\ pc[p] = "start"
    /\ Absolute(p, softexp[p]) <= now
    /\ softexp' = [softexp EXCEPT ![p] = Absolute(p, @)]
    /\ expires' = [expires EXCEPT ![p] = Absolute(p, @)]
    /\ task' = [task EXCEPT ![p] = FALSE]
    /\ state' = [state EXCEPT ![p] = "RUNNING"]
    /\ Goto(p, "check_task")
    /\ UNCHANGED <<now, call, mode, queued, cb, sig, saved, rem, ret, budget, due>>

\* if (likely(t->task))
CheckTask(p) ==
    /\ pc[p] = "check_task"
    /\ Goto(p, IF task[p] THEN "schedule" ELSE "cancel")
    /\ UNCHANGED <<now, call, frame, state, sig, saved, rem, ret, budget, due>>

\* schedule() returns when the task has been woken, or at once for a signal
Schedule(p) ==
    /\ pc[p] = "schedule"
    /\ state[p] = "RUNNING" \/ sig[p] # "none"
    /\ state' = [state EXCEPT ![p] = "RUNNING"]
    /\ Goto(p, "cancel")
    /\ UNCHANGED <<now, call, frame, sig, saved, rem, ret, budget, due>>

\* mutant: hrtimer_try_to_cancel(), which does not wait for the callback
TryCancel(p) ==
    /\ pc[p] = "cancel"
    /\ queued' = [queued EXCEPT ![p] = FALSE]
    /\ mode' = [mode EXCEPT ![p] = "ABS"]
    /\ Goto(p, "loop")
    /\ UNCHANGED <<now, call, softexp, expires, cb, task, state, sig, saved, rem, ret,
                   budget, due>>

\* hrtimer_cancel() waits for the callback; from now on the expiry is absolute
Cancel(p) ==
    /\ pc[p] = "cancel"
    /\ cb[p] = "none"
    /\ queued' = [queued EXCEPT ![p] = FALSE]
    /\ mode' = [mode EXCEPT ![p] = "ABS"]
    /\ Goto(p, "loop")
    /\ UNCHANGED <<now, call, softexp, expires, cb, task, state, sig, saved, rem, ret,
                   budget, due>>

\* while (t->task && !signal_pending(current)); __set_current_state(TASK_RUNNING)
Loop(p) ==
    /\ pc[p] = "loop"
    /\ IF task[p] /\ sig[p] = "none"
       THEN Goto(p, "set_state") /\ UNCHANGED state
       ELSE Goto(p, "verdict") /\ state' = [state EXCEPT ![p] = "RUNNING"]
    /\ UNCHANGED <<now, call, frame, sig, saved, rem, ret, budget, due>>

Return(p, r) ==
    /\ pc' = [pc EXCEPT ![p] = "user"]
    /\ ret' = [ret EXCEPT ![p] = r]

\* The timer has expired, by the callback or by the clock when the rest is asked for.
Slept(p) ==
    /\ pc[p] = "verdict"
    /\ ~task[p] \/ (call[p].rmtp /\ expires[p] <= now)
    /\ Return(p, "0")
    /\ UNCHANGED <<now, call, frame, state, sig, saved, rem, budget, due>>

\* nanosleep_copyout() fails
CopyoutFails(p) ==
    /\ pc[p] = "verdict"
    /\ task[p] /\ call[p].rmtp /\ expires[p] > now
    /\ Return(p, "EFAULT")
    /\ UNCHANGED <<now, call, frame, state, sig, saved, rem, budget, due>>

\* mutant: the slack is left out of the remaining time twice
InterruptedLessSlack(p) ==
    /\ pc[p] = "verdict"
    /\ task[p] /\ (call[p].rmtp => expires[p] > now)
    /\ rem' = IF call[p].rmtp THEN [rem EXCEPT ![p] = expires[p] - now - 2 * Slack] ELSE rem
    /\ saved' = IF call[p].mode = "REL" /\ saved[p] = -1
                THEN [saved EXCEPT ![p] = expires[p]] ELSE saved
    /\ Goto(p, "signal")
    /\ UNCHANGED <<now, call, frame, state, sig, ret, budget, due>>

\* -ERESTART_RESTARTBLOCK, which becomes -ERESTARTNOHAND for an absolute call: the
\* expiry is remembered for the restart of a relative one.  A restarted call returns
\* to the signal code directly and leaves the restart block as it is.
Interrupted(p) ==
    /\ pc[p] = "verdict"
    /\ task[p] /\ (call[p].rmtp => expires[p] > now)
    /\ rem' = IF call[p].rmtp THEN [rem EXCEPT ![p] = expires[p] - now] ELSE rem
    /\ saved' = IF call[p].mode = "REL" /\ saved[p] = -1
                THEN [saved EXCEPT ![p] = expires[p]] ELSE saved
    /\ Goto(p, "signal")
    /\ UNCHANGED <<now, call, frame, state, sig, ret, budget, due>>

-----------------------------------------------------------------------------
(* Leaving the kernel with a signal pending.  External: how the signal code  *)
(* treats the two restart values.                                          *)

\* a handler runs: the call fails with EINTR
Handled(p) ==
    /\ pc[p] = "signal" /\ sig[p] = "handled"
    /\ sig' = [sig EXCEPT ![p] = "none"]
    /\ Return(p, "EINTR")
    /\ UNCHANGED <<now, call, frame, state, saved, rem, budget, due>>

\* mutant: the restart sleeps the whole delay again
RestartRelative(p) ==
    /\ pc[p] = "signal" /\ sig[p] = "ignored" /\ call[p].mode = "REL"
    /\ sig' = [sig EXCEPT ![p] = "none"]
    /\ Setup(p, "REL", call[p].request, call[p].request)
    /\ Goto(p, "set_state")
    /\ UNCHANGED <<now, call, state, saved, rem, ret, budget, due>>

\* hrtimer_nanosleep_restart(): absolute, and without slack
Restart(p) ==
    /\ pc[p] = "signal" /\ sig[p] = "ignored" /\ call[p].mode = "REL"
    /\ sig' = [sig EXCEPT ![p] = "none"]
    /\ Setup(p, "ABS", saved[p], saved[p])
    /\ Goto(p, "set_state")
    /\ UNCHANGED <<now, call, state, saved, rem, ret, budget, due>>

\* -ERESTARTNOHAND: the system call is made again with the same arguments
Again(p) ==
    /\ pc[p] = "signal" /\ sig[p] = "ignored" /\ call[p].mode = "ABS"
    /\ sig' = [sig EXCEPT ![p] = "none"]
    /\ Setup(p, "ABS", call[p].request, call[p].request + Slack)
    /\ Goto(p, "set_state")
    /\ UNCHANGED <<now, call, state, saved, rem, ret, budget, due>>

-----------------------------------------------------------------------------
(* The timer and its callback, on whichever CPU                            *)

Fire(p) ==
    /\ queued[p] /\ cb[p] = "none"
    /\ softexp[p] <= now
    /\ queued' = [queued EXCEPT ![p] = FALSE]
    /\ cb' = [cb EXCEPT ![p] = "clear"]
    /\ UNCHANGED <<now, pc, call, mode, softexp, expires, task, state, sig, saved, rem, ret,
                   budget, due>>

\* mutant: t->task is read after it has been cleared
WakeupReadsLate(p) ==
    /\ cb[p] = "clear"
    /\ task' = [task EXCEPT ![p] = FALSE]
    /\ cb' = [cb EXCEPT ![p] = "end"]
    /\ UNCHANGED <<now, pc, call, mode, softexp, expires, queued, state, sig, saved, rem, ret,
                   budget, due>>

\* hrtimer_wakeup(): t->task = NULL
WakeupClear(p) ==
    /\ cb[p] = "clear"
    /\ task' = [task EXCEPT ![p] = FALSE]
    /\ cb' = [cb EXCEPT ![p] = IF task[p] THEN "wake" ELSE "end"]
    /\ UNCHANGED <<now, pc, call, mode, softexp, expires, queued, state, sig, saved, rem, ret,
                   budget, due>>

\* wake_up_process(task)
WakeupWake(p) ==
    /\ cb[p] = "wake"
    /\ state' = [state EXCEPT ![p] = "RUNNING"]
    /\ cb' = [cb EXCEPT ![p] = "end"]
    /\ UNCHANGED <<now, pc, call, mode, softexp, expires, queued, task, sig, saved, rem, ret,
                   budget, due>>

\* HRTIMER_NORESTART; __run_hrtimer() clears base->running
WakeupEnd(p) ==
    /\ cb[p] = "end"
    /\ cb' = [cb EXCEPT ![p] = "none"]
    /\ UNCHANGED <<now, pc, call, mode, softexp, expires, queued, task, state, sig, saved, rem,
                   ret, budget, due>>

-----------------------------------------------------------------------------
(* The rest of the world                                                   *)

\* A signal is queued, and wakes a task that sleeps interruptibly.
Signal(p, s) ==
    /\ signals[p] < MaxSignals /\ sig[p] = "none"
    /\ sig' = [sig EXCEPT ![p] = s]
    /\ state' = [state EXCEPT ![p] = "RUNNING"]
    /\ signals' = [signals EXCEPT ![p] = @ + 1]
    /\ UNCHANGED <<now, pc, call, frame, saved, rem, ret, calls, wakes, due>>

\* A signal that arrives in user mode, or finds the call finished, is delivered.
Delivered(p) ==
    /\ pc[p] = "user" /\ sig[p] # "none"
    /\ sig' = [sig EXCEPT ![p] = "none"]
    /\ UNCHANGED <<now, pc, call, frame, state, saved, rem, ret, budget, due>>

\* the freezer thaws the task, or somebody else wakes it
StrayWake(p) ==
    /\ wakes[p] < MaxWakes /\ state[p] = "INTERRUPTIBLE"
    /\ state' = [state EXCEPT ![p] = "RUNNING"]
    /\ wakes' = [wakes EXCEPT ![p] = @ + 1]
    /\ UNCHANGED <<now, pc, call, frame, sig, saved, rem, ret, calls, signals, due>>

Tick ==
    /\ now < MaxTime
    /\ now' = now + 1
    /\ UNCHANGED <<pc, call, frame, state, sig, saved, rem, ret, budget, due>>

-----------------------------------------------------------------------------
Sleeper(p) ==
    \/ SetState(p) \/ StartQueued(p) \/ StartRefused(p) \/ CheckTask(p) \/ Schedule(p)
    \/ Cancel(p) \/ Loop(p) \/ Slept(p) \/ CopyoutFails(p) \/ Interrupted(p)
    \/ Handled(p) \/ Restart(p) \/ Again(p)

Callback(p) == WakeupClear(p) \/ WakeupWake(p) \/ WakeupEnd(p)

Next ==
    \/ Tick
    \/ \E p \in Tasks :
          \/ \E c \in Calls : Enter(p, c)
          \/ Sleeper(p) \/ Fire(p) \/ Callback(p)
          \/ \E s \in {"ignored", "handled"} : Signal(p, s)
          \/ Delivered(p) \/ StrayWake(p)

Spec == Init /\ [][Next]_vars

\* Time passes, an expired timer fires (HrtimerEvent!EveryTimerExpires), a callback
\* and a task that can run go on.
Fairness ==
    /\ WF_vars(Tick)
    /\ \A p \in Tasks : 
          /\ WF_vars(Sleeper(p)) /\ WF_vars(Fire(p) /\ expires[p] <= now)
          /\ WF_vars(Callback(p))

FairSpec == Spec /\ Fairness

-----------------------------------------------------------------------------
(* Properties                                                              *)

TypeOK ==
    /\ now \in 0 .. MaxTime
    /\ pc \in [Tasks -> {"user", "set_state", "start", "check_task", "schedule", "cancel",
                         "loop", "verdict", "signal"}]
    /\ call \in [Tasks -> Calls]
    /\ mode \in [Tasks -> {"REL", "ABS"}]
    /\ softexp \in [Tasks -> Nat]
    /\ expires \in [Tasks -> Nat]
    /\ queued \in [Tasks -> BOOLEAN]
    /\ cb \in [Tasks -> {"none", "clear", "wake", "end"}]
    /\ task \in [Tasks -> BOOLEAN]
    /\ state \in [Tasks -> {"RUNNING", "INTERRUPTIBLE"}]
    /\ sig \in [Tasks -> Signals]
    /\ saved \in [Tasks -> Nat \cup {-1}]
    /\ rem \in [Tasks -> (Nat \ {0}) \cup {-1}]
    /\ ret \in [Tasks -> Results]
    /\ calls \in [Tasks -> 0 .. MaxCalls]
    /\ signals \in [Tasks -> 0 .. MaxSignals]
    /\ wakes \in [Tasks -> 0 .. MaxWakes]
    /\ due \in [Tasks -> Nat]

\* The sleeper is gone when the call returns or goes to the signal code: no CPU has its
\* timer queued or is in its callback, which would write to the dead stack frame.
FrameIsDead ==
    \A p \in Tasks : pc[p] \in {"user", "signal"} => ~queued[p] /\ cb[p] = "none"

\* A call that returns 0 has slept until the time asked for, through stray wakeups and
\* restarts; timer_benchmark.c counts on it, its error is never negative.
NeverEarly ==
    \A p \in Tasks : pc[p] = "user" /\ ret[p] = "0" => due[p] <= now

\* A call interrupted by a handler reports at least the time that was left, so that a
\* caller who sleeps for the rest does not come out short.
RestIsEnough ==
    [][\A p \in Tasks : rem'[p] # rem[p] /\ rem'[p] # -1 => now + rem'[p] >= due[p]]_vars

\* The call's first start, which makes a relative expiry absolute, is still to come.
NotStarted(p) == pc[p] \in {"set_state", "start"} /\ mode[p] = "REL" /\ saved[p] = -1

\* Signals without a handler do not prolong a sleep: once the timer has been started it
\* keeps its expiry through stray wakeups and every restart, until the call returns.
RestartKeepsExpiry ==
    [][\A p \in Tasks :
          pc[p] # "user" /\ pc'[p] # "user" /\ ~NotStarted(p) => expires'[p] = expires[p]]_vars

\* No wakeup is lost, whatever the order of the callback's two writes, the task's state
\* change, its look at sleeper->task and the signals: in the end every call has returned
\* or sleeps for a time that does not come.
CallsReturn ==
    \A p \in Tasks : <>[](pc[p] = "user" \/ (pc[p] = "schedule" /\ expires[p] > MaxTime))

\* The timers are used as HrtimerAbs allows.
Timer == INSTANCE HrtimerAbs WITH Timers <- Tasks, runs <- [p \in Tasks |-> cb[p] # "none"]

UsesHrtimer == Timer!Spec

=============================================================================
