-------------------------- MODULE Nanosleep_proofs --------------------------
(***************************************************************************)
(* Proofs about Nanosleep, for every set of tasks, every request and every  *)
(* bound.  The inductive invariant says where the timer may still be live   *)
(* (Idle) and how its expiry relates to the time the caller has asked for   *)
(* in each phase of the call (Times).                                      *)
(***************************************************************************)
EXTENDS Nanosleep, TLAPS

\* Between Cancel and the next start nothing is left of the timer.
Idle(p) ==
    pc[p] \in {"user", "set_state", "start", "loop", "verdict", "signal"} =>
        ~queued[p] /\ cb[p] = "none"

\* The expiry is absolute, or is about to be made so.
IsAbsolute(p) == mode[p] = "ABS" \/ pc[p] \in {"check_task", "schedule", "cancel"}

\* Once absolute the expiry is not before the time asked for, the hard one not before
\* the soft one, and the one saved for a restart is the timer's.
Times(p) ==
    /\ softexp[p] <= expires[p]
    /\ pc[p] # "user" =>
          /\ IF IsAbsolute(p) THEN due[p] <= softexp[p] ELSE due[p] <= now + softexp[p]
          /\ pc[p] \in {"loop", "verdict", "signal"} => mode[p] = "ABS"
          /\ mode[p] = "REL" => saved[p] = -1
          /\ saved[p] # -1 => saved[p] = expires[p]
          /\ pc[p] = "signal" /\ call[p].mode = "REL" => saved[p] # -1
          /\ call[p].mode = "ABS" =>
                /\ mode[p] = "ABS"
                /\ due[p] = call[p].request
                /\ expires[p] = call[p].request + Slack

\* The callback runs, and the sleeper is cleared, only when the time has come.
Cleared(p) == pc[p] # "user" /\ (cb[p] # "none" \/ ~task[p]) => due[p] <= now

Early(p) == pc[p] = "user" /\ ret[p] = "0" => due[p] <= now

IInv == TypeOK /\ \A p \in Tasks : Idle(p) /\ Times(p) /\ Cleared(p) /\ Early(p)

-----------------------------------------------------------------------------
(* Every action preserves the invariant                                    *)

\* The initial state satisfies the invariant.
LEMMA InitIInv == Init => IInv
BY ConstAssumption, SMT DEF Init, IInv, TypeOK, Idle, Times, Cleared, Early, IsAbsolute, Calls,
   Signals, Results

\* Every step of a task, its timer and its signals preserves the types.
LEMMA TypeStep == ASSUME IInv, Next PROVE TypeOK'
<1> USE ConstAssumption DEF IInv, TypeOK, frame, budget, Signals, Results
<1>1. ASSUME NEW p \in Tasks, NEW c \in Calls, Enter(p, c) PROVE TypeOK'
  <2>1. c.request \in Nat /\ (c.mode = "REL" \/ c.mode = "ABS")
    BY DEF Calls
  <2> QED
    BY <1>1, <2>1 DEF Enter, Setup, Goto
<1>2. ASSUME NEW p \in Tasks, SetState(p) PROVE TypeOK'
  BY <1>2 DEF SetState, Goto
<1>3. ASSUME NEW p \in Tasks, StartQueued(p) PROVE TypeOK'
  BY <1>3 DEF StartQueued, Goto, Absolute
<1>4. ASSUME NEW p \in Tasks, StartRefused(p) PROVE TypeOK'
  BY <1>4 DEF StartRefused, Goto, Absolute
<1>5. ASSUME NEW p \in Tasks, CheckTask(p) PROVE TypeOK'
  BY <1>5 DEF CheckTask, Goto
<1>6. ASSUME NEW p \in Tasks, Schedule(p) PROVE TypeOK'
  BY <1>6, SMTT(30) DEF Schedule, Goto
<1>7. ASSUME NEW p \in Tasks, Cancel(p) PROVE TypeOK'
  BY <1>7 DEF Cancel, Goto
<1>8. ASSUME NEW p \in Tasks, Loop(p) PROVE TypeOK'
  BY <1>8 DEF Loop, Goto
<1>9. ASSUME NEW p \in Tasks, Slept(p) PROVE TypeOK'
  BY <1>9 DEF Slept, Return, Times
<1>10. ASSUME NEW p \in Tasks, CopyoutFails(p) PROVE TypeOK'
  BY <1>10 DEF CopyoutFails, Return
<1>11. ASSUME NEW p \in Tasks, Interrupted(p) PROVE TypeOK'
  BY <1>11 DEF Interrupted, Goto
<1>12. ASSUME NEW p \in Tasks, Handled(p) PROVE TypeOK'
  BY <1>12 DEF Handled, Return
<1>13. ASSUME NEW p \in Tasks, Restart(p) PROVE TypeOK'
  BY <1>13 DEF Restart, Goto, Setup, Times
<1>14. ASSUME NEW p \in Tasks, Again(p) PROVE TypeOK'
  <2>1. call[p].request \in Nat
    BY DEF Calls
  <2> QED
    BY <1>14, <2>1 DEF Again, Goto, Setup
<1>15. ASSUME NEW p \in Tasks, Fire(p) PROVE TypeOK'
  BY <1>15 DEF Fire
<1>16. ASSUME NEW p \in Tasks, WakeupClear(p) PROVE TypeOK'
  BY <1>16 DEF WakeupClear
<1>17. ASSUME NEW p \in Tasks, WakeupWake(p) PROVE TypeOK'
  BY <1>17 DEF WakeupWake
<1>18. ASSUME NEW p \in Tasks, WakeupEnd(p) PROVE TypeOK'
  BY <1>18 DEF WakeupEnd
<1>19. ASSUME NEW p \in Tasks, Delivered(p) PROVE TypeOK'
  BY <1>19 DEF Delivered
<1>20. ASSUME NEW p \in Tasks, StrayWake(p) PROVE TypeOK'
  BY <1>20 DEF StrayWake
<1>21. ASSUME NEW p \in Tasks, NEW s \in {"ignored", "handled"}, Signal(p, s) PROVE TypeOK'
  BY <1>21 DEF Signal
<1>22. CASE Tick
  BY <1>22 DEF Tick
<1> HIDE DEF IInv, TypeOK, frame, budget, Signals, Results
<1> QED
  BY <1>1, <1>2, <1>3, <1>4, <1>5, <1>6, <1>7, <1>8, <1>9, <1>10, <1>11, <1>12, <1>13, <1>14, <1>15, <1>16, <1>17, <1>18, <1>19, <1>20, <1>21, <1>22 DEF Next, Sleeper, Callback

\* Every step preserves what the invariant says of one task: the steps of the task
\* itself, those of another one, and the passing of time.
LEMMA TaskStep ==
    ASSUME IInv, Next, NEW q \in Tasks
    PROVE  Idle(q)' /\ Times(q)' /\ Cleared(q)' /\ Early(q)'
<1> USE ConstAssumption DEF IInv, TypeOK, frame, budget, Idle, Times, Cleared, Early, IsAbsolute
<1>1. ASSUME NEW p \in Tasks, NEW c \in Calls, Enter(p, c)
      PROVE  Idle(q)' /\ Times(q)' /\ Cleared(q)' /\ Early(q)'
  <2>1. c.request \in Nat /\ (c.mode = "REL" \/ c.mode = "ABS")
    BY DEF Calls
  <2> QED
    BY <1>1, <2>1 DEF Enter, Setup, Goto
<1>2. ASSUME NEW p \in Tasks, SetState(p)
      PROVE  Idle(q)' /\ Times(q)' /\ Cleared(q)' /\ Early(q)'
  BY <1>2 DEF SetState, Goto
<1>3. ASSUME NEW p \in Tasks, StartQueued(p)
      PROVE  Idle(q)' /\ Times(q)' /\ Cleared(q)' /\ Early(q)'
  BY <1>3 DEF StartQueued, Goto, Absolute
<1>4. ASSUME NEW p \in Tasks, StartRefused(p)
      PROVE  Idle(q)' /\ Times(q)' /\ Cleared(q)' /\ Early(q)'
  BY <1>4 DEF StartRefused, Goto, Absolute
<1>5. ASSUME NEW p \in Tasks, CheckTask(p)
      PROVE  Idle(q)' /\ Times(q)' /\ Cleared(q)' /\ Early(q)'
  BY <1>5 DEF CheckTask, Goto
<1>6. ASSUME NEW p \in Tasks, Schedule(p)
      PROVE  Idle(q)' /\ Times(q)' /\ Cleared(q)' /\ Early(q)'
  BY <1>6, SMTT(30) DEF Schedule, Goto
<1>7. ASSUME NEW p \in Tasks, Cancel(p)
      PROVE  Idle(q)' /\ Times(q)' /\ Cleared(q)' /\ Early(q)'
  BY <1>7 DEF Cancel, Goto
<1>8. ASSUME NEW p \in Tasks, Loop(p)
      PROVE  Idle(q)' /\ Times(q)' /\ Cleared(q)' /\ Early(q)'
  BY <1>8 DEF Loop, Goto
<1>9. ASSUME NEW p \in Tasks, Slept(p)
      PROVE  Idle(q)' /\ Times(q)' /\ Cleared(q)' /\ Early(q)'
  BY <1>9 DEF Slept, Return
<1>10. ASSUME NEW p \in Tasks, CopyoutFails(p)
      PROVE  Idle(q)' /\ Times(q)' /\ Cleared(q)' /\ Early(q)'
  BY <1>10 DEF CopyoutFails, Return
<1>11. ASSUME NEW p \in Tasks, Interrupted(p)
      PROVE  Idle(q)' /\ Times(q)' /\ Cleared(q)' /\ Early(q)'
  BY <1>11 DEF Interrupted, Goto
<1>12. ASSUME NEW p \in Tasks, Handled(p)
      PROVE  Idle(q)' /\ Times(q)' /\ Cleared(q)' /\ Early(q)'
  BY <1>12 DEF Handled, Return
<1>13. ASSUME NEW p \in Tasks, Restart(p)
      PROVE  Idle(q)' /\ Times(q)' /\ Cleared(q)' /\ Early(q)'
  BY <1>13 DEF Restart, Goto, Setup
<1>14. ASSUME NEW p \in Tasks, Again(p)
      PROVE  Idle(q)' /\ Times(q)' /\ Cleared(q)' /\ Early(q)'
  BY <1>14 DEF Again, Goto, Setup, Calls
<1>15. ASSUME NEW p \in Tasks, Fire(p)
      PROVE  Idle(q)' /\ Times(q)' /\ Cleared(q)' /\ Early(q)'
  BY <1>15 DEF Fire
<1>16. ASSUME NEW p \in Tasks, WakeupClear(p)
      PROVE  Idle(q)' /\ Times(q)' /\ Cleared(q)' /\ Early(q)'
  BY <1>16 DEF WakeupClear
<1>17. ASSUME NEW p \in Tasks, WakeupWake(p)
      PROVE  Idle(q)' /\ Times(q)' /\ Cleared(q)' /\ Early(q)'
  BY <1>17 DEF WakeupWake
<1>18. ASSUME NEW p \in Tasks, WakeupEnd(p)
      PROVE  Idle(q)' /\ Times(q)' /\ Cleared(q)' /\ Early(q)'
  BY <1>18 DEF WakeupEnd
<1>19. ASSUME NEW p \in Tasks, Delivered(p)
      PROVE  Idle(q)' /\ Times(q)' /\ Cleared(q)' /\ Early(q)'
  BY <1>19 DEF Delivered
<1>20. ASSUME NEW p \in Tasks, StrayWake(p)
      PROVE  Idle(q)' /\ Times(q)' /\ Cleared(q)' /\ Early(q)'
  BY <1>20 DEF StrayWake
<1>21. ASSUME NEW p \in Tasks, NEW s \in {"ignored", "handled"}, Signal(p, s)
      PROVE  Idle(q)' /\ Times(q)' /\ Cleared(q)' /\ Early(q)'
  BY <1>21 DEF Signal
<1>22. CASE Tick
  BY <1>22 DEF Tick
<1> HIDE DEF IInv, TypeOK, frame, budget, Idle, Times, Cleared, Early, IsAbsolute
<1> QED
  BY <1>1, <1>2, <1>3, <1>4, <1>5, <1>6, <1>7, <1>8, <1>9, <1>10, <1>11, <1>12, <1>13, <1>14, <1>15, <1>16, <1>17, <1>18, <1>19, <1>20, <1>21, <1>22 DEF Next, Sleeper, Callback

\* The invariant holds in every reachable state.
LEMMA Invariance == Spec => []IInv
<1>1. IInv /\ [Next]_vars => IInv'
  <2>1. ASSUME IInv, Next PROVE IInv'
    BY <2>1, TypeStep, TaskStep DEF IInv
  <2>2. ASSUME IInv, UNCHANGED vars PROVE IInv'
    BY <2>2 DEF budget, IInv, TypeOK, Idle, Times, Cleared, Early, IsAbsolute, vars, frame
  <2> QED
    BY <2>1, <2>2
<1> QED
  BY InitIInv, <1>1, PTL DEF Spec

-----------------------------------------------------------------------------
(* The theorems                                                            *)

\* Every variable keeps its type; the time left is never reported as zero or less.
THEOREM TypeCorrect == Spec => []TypeOK
BY Invariance, PTL DEF IInv

\* When hrtimer_nanosleep() has returned, no CPU has its timer queued or runs its
\* callback: the stack frame may be used again.
THEOREM FrameStaysDead == Spec => []FrameIsDead
<1>1. IInv => FrameIsDead
  BY DEF IInv, Idle, FrameIsDead
<1> QED
  BY Invariance, <1>1, PTL

\* A nanosleep() that returns 0 has slept as long as it was asked to.
THEOREM NeverReturnsEarly == Spec => []NeverEarly
<1>1. IInv => NeverEarly
  BY DEF IInv, Early, NeverEarly
<1> QED
  BY Invariance, <1>1, PTL

\* The remaining time is written by do_nanosleep() alone, from an absolute expiry.
LEMMA RestStep ==
    ASSUME IInv, Next, NEW q \in Tasks, rem'[q] # rem[q], rem'[q] # -1
    PROVE  now + rem'[q] >= due[q] /\ due'[q] = due[q]
<1> USE ConstAssumption DEF IInv, TypeOK, frame, budget
<1>1. ASSUME NEW p \in Tasks, Interrupted(p)
      PROVE  now + rem'[q] >= due[q] /\ due'[q] = due[q]
  BY <1>1 DEF Interrupted, Times, IsAbsolute
<1>2. ASSUME NEW p \in Tasks, ~Interrupted(p), \A c \in Calls : ~Enter(p, c),
             \/ Sleeper(p) \/ Fire(p) \/ Callback(p)
             \/ \E s \in {"ignored", "handled"} : Signal(p, s)
             \/ Delivered(p) \/ StrayWake(p)
      PROVE  rem' = rem
  BY <1>2 DEF Sleeper, Callback, SetState, StartQueued, StartRefused, CheckTask, Schedule, Cancel,
     Loop, Slept, CopyoutFails, Handled, Restart, Again, Fire, WakeupClear, WakeupWake, WakeupEnd,
     Signal, Delivered, StrayWake
<1>3. ASSUME NEW p \in Tasks, NEW c \in Calls, Enter(p, c)
      PROVE  rem'[q] \in {rem[q], -1}
  BY <1>3 DEF Enter
<1> QED
  BY <1>1, <1>2, <1>3 DEF Next, Tick

\* What an interrupted call reports as the time left reaches the time asked for.
THEOREM RestSuffices == Spec => RestIsEnough
<1>1. IInv /\ [Next]_vars =>
          [\A p \in Tasks : rem'[p] # rem[p] /\ rem'[p] # -1 => now + rem'[p] >= due[p]]_vars
  BY RestStep DEF vars
<1> QED
  BY Invariance, <1>1, PTL DEF Spec, RestIsEnough

\* Within a call only the first start of a relative sleep changes the expiry.
LEMMA ExpiryStep ==
    ASSUME IInv, Next, NEW q \in Tasks, pc[q] # "user", pc'[q] # "user", ~NotStarted(q)
    PROVE  expires'[q] = expires[q]
<1> USE ConstAssumption DEF IInv, TypeOK, frame, budget, NotStarted
<1>1. ASSUME NEW p \in Tasks, NEW c \in Calls, Enter(p, c) PROVE expires'[q] = expires[q]
  BY <1>1 DEF Enter, Setup
<1>2. ASSUME NEW p \in Tasks, StartQueued(p) \/ StartRefused(p)
      PROVE  expires'[q] = expires[q]
  BY <1>2 DEF StartQueued, StartRefused, Absolute, Times
<1>3. ASSUME NEW p \in Tasks, Restart(p) \/ Again(p) PROVE expires'[q] = expires[q]
  BY <1>3 DEF Restart, Again, Setup, Times
<1>4. ASSUME NEW p \in Tasks,
             \/ SetState(p) \/ CheckTask(p) \/ Schedule(p) \/ Cancel(p) \/ Loop(p) \/ Slept(p)
             \/ CopyoutFails(p) \/ Interrupted(p) \/ Handled(p) \/ Fire(p) \/ Callback(p)
             \/ Delivered(p) \/ StrayWake(p)
      PROVE  expires' = expires
  BY <1>4 DEF SetState, CheckTask, Schedule, Cancel, Loop, Slept, CopyoutFails, Interrupted,
     Handled, Fire, Callback, WakeupClear, WakeupWake, WakeupEnd, Delivered, StrayWake
<1>5. ASSUME NEW p \in Tasks, NEW s \in {"ignored", "handled"}, Signal(p, s)
      PROVE  expires' = expires
  BY <1>5 DEF Signal
<1>6. CASE Tick
  BY <1>6 DEF Tick
<1> QED
  BY <1>1, <1>2, <1>3, <1>4, <1>5, <1>6 DEF Next, Sleeper

\* Restarts and stray wakeups do not move the expiry.
THEOREM ExpiryIsKept == Spec => RestartKeepsExpiry
<1>1. IInv /\ [Next]_vars =>
          [\A p \in Tasks : pc[p] # "user" /\ pc'[p] # "user" /\ ~NotStarted(p)
              => expires'[p] = expires[p]]_vars
  BY ExpiryStep DEF vars
<1> QED
  BY Invariance, <1>1, PTL DEF Spec, RestartKeepsExpiry

\* Every step does to the timers what HrtimerAbs lets their users and the core do.
LEMMA TimerStep ==
    IInv /\ [Next]_vars => [Timer!Next]_<<queued, [p \in Tasks |-> cb[p] # "none"]>>
<1> DEFINE runs == [p \in Tasks |-> cb[p] # "none"]
<1> SUFFICES ASSUME IInv, [Next]_vars
             PROVE  Timer!Next \/ (queued' = queued /\ runs' = runs)
  BY DEF IInv
<1> USE DEF IInv, TypeOK, frame
<1>1. ASSUME NEW p \in Tasks, StartQueued(p) PROVE Timer!Arm(p)
  BY <1>1 DEF StartQueued, Timer!Arm
<1>2. ASSUME NEW p \in Tasks, Cancel(p) PROVE Timer!Disarm(p)
  BY <1>2 DEF Cancel, Timer!Disarm
<1>3. ASSUME NEW p \in Tasks, Fire(p) PROVE Timer!Fire(p)
  BY <1>3 DEF Fire, Timer!Fire
<1>4. ASSUME NEW p \in Tasks, WakeupEnd(p) PROVE Timer!Finish(p)
  BY <1>4 DEF WakeupEnd, Timer!Finish
<1>5. ASSUME NEW p \in Tasks, WakeupClear(p) \/ WakeupWake(p)
      PROVE  queued' = queued /\ runs' = runs
  BY <1>5 DEF WakeupClear, WakeupWake
<1>6. ASSUME NEW p \in Tasks,
             \/ SetState(p) \/ StartRefused(p) \/ CheckTask(p) \/ Schedule(p) \/ Loop(p)
             \/ Slept(p) \/ CopyoutFails(p) \/ Interrupted(p) \/ Handled(p) \/ Restart(p)
             \/ Again(p) \/ Delivered(p) \/ StrayWake(p)
             \/ \E c \in Calls : Enter(p, c)
             \/ \E s \in {"ignored", "handled"} : Signal(p, s)
      PROVE  queued' = queued /\ cb' = cb
  BY <1>6 DEF SetState, StartRefused, CheckTask, Schedule, Loop, Slept, CopyoutFails, Interrupted,
     Handled, Restart, Again, Delivered, StrayWake, Enter, Setup, Signal
<1>7. ASSUME Tick \/ UNCHANGED vars PROVE queued' = queued /\ cb' = cb
  BY <1>7 DEF Tick, vars
<1> QED
  BY <1>1, <1>2, <1>3, <1>4, <1>5, <1>6, <1>7 DEF Next, Sleeper, Callback, Timer!Next

\* nanosleep() uses its timer as the core promises: every behaviour is one of HrtimerAbs.
THEOREM Refinement == Spec => UsesHrtimer
<1>1. ASSUME Init PROVE Timer!Init
  <2>1. [p \in Tasks |-> cb[p] # "none"] = [t \in Tasks |-> FALSE]
    BY <1>1 DEF Init
  <2> QED
    BY <1>1, <2>1 DEF Init, Timer!Init
<1> QED
  BY Invariance, <1>1, TimerStep, PTL DEF Spec, UsesHrtimer, Timer!Spec
=============================================================================
